SPECIFICATION FairMenuSpec
CONSTANTS
  NConf = 2
  ScrollHeight = 5
  Slack = 1
  Cards <- HoleyCards
  Debounce = 1
  FirstRepeat = 1
  NextRepeat = 1
  IdleTime = 1
  MaxPresses = 2
  MaxKeys = 1
  RsbFaults = TRUE
  InitDefs = {4}
INVARIANTS DefaultShown PressesAccounted
PROPERTIES CursorSound BootNotOverridden MenuEnds
CHECK_DEADLOCK FALSE
