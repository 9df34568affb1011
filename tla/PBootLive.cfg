SPECIFICATION FairSpec
CONSTANTS
  NConf = 2
  Layouts <- OneLoaderLayouts
  OsOpts = {2, 64, 4065}
  OsDefs = {6, 255}
  MmcDelays = {1}
  RsbFaults = FALSE
  MmcFaults = FALSE
  WdogFaults = FALSE
INVARIANTS HangsOnlyWhenLost
PROPERTIES Settles PanicPowersOff RebootReaches
