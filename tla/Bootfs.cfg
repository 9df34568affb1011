SPECIFICATION OpenSpec
CONSTANTS
  Disks <- SomeDisks
  Behind = {FALSE}
PROPERTY Implements
CHECK_DEADLOCK FALSE
