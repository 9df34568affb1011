SPECIFICATION Spec
CONSTANTS
  BlockLen = 2
  Lba = 10
  BMax = 5
  BufMax = 2
  NDescs = 3
  FifoMax = 2
  Requests <- MCRequests
  MemSize = 10
  LineLen = 3
  Ddrs = {TRUE, FALSE}
  MaxFaults = 2
  MaxReads = 3
INVARIANTS ReadComplete
PROPERTIES NoLateDma ReadReturns
CHECK_DEADLOCK FALSE
