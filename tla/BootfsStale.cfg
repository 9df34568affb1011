SPECIFICATION OpenSpec
CONSTANTS
  Disks <- SomeDisks
  Behind = {TRUE, FALSE}
INVARIANT SecondPassSound
CHECK_DEADLOCK FALSE
