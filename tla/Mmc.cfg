SPECIFICATION FairSpec
CONSTANTS
  Chips <- MCChips
  Numbers = {0, 2}
  MaxFaults = 2
  MaxPolls = 3
INVARIANTS InitSound HealthyCardComesUp
PROPERTY InitReturns
CHECK_DEADLOCK FALSE
