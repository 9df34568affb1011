SPECIFICATION Spec
CONSTANTS
  NSlots = 3
  Block = 2
  Sector = 2
  PerBlock = 2
  DevSize = 22
  MaxImage = 22
  Header = 3
  MaxFiles = 4
  BootConfs <- SomeConfs
  Dirs <- SomeDirs
  Real <- RealDef
  Body <- BodyDef
  Targets = {"block", "regular"}
  OldDevs <- SomeDevs
INVARIANTS RefusesUntouched RoundTrip KilledSound PowerLossSound
CHECK_DEADLOCK FALSE
