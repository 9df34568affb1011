SPECIFICATION Spec
CONSTANTS
  NConf = 2
  Layouts <- AllLayouts
  OsOpts <- AllOpts
  OsDefs <- AllDefs
  MmcDelays = {1, 40}
  RsbFaults = TRUE
  MmcFaults = TRUE
  WdogFaults = TRUE
INVARIANTS TypeOK BootPriority WatchdogCovers OneShotConsumed
