SPECIFICATION Spec
CONSTANTS
  LinuxPA = 0
  FbPA = 4
  FdtPA = 5
  Fdt2PA = 8
  InitrdPA = 11
  MemTop = 14
  Cases <- MCCases
  Grow = 100
  GrowCells = 1
  LogWords = 20
INVARIANTS BootTreeTypeOK ImagesIntact TreeHandedOver
CHECK_DEADLOCK FALSE
