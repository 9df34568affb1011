----------------------------- MODULE BootfsSpec -----------------------------
(***************************************************************************)
(* What the comment in bootfs_open() of storage.c promises its callers, as *)
(* one step: the list of Linux partitions is gone through twice, once      *)
(* through the boot partitions, then through the others, and the first     *)
(* that holds a bootfs is the result; NULL if none does.                   *)
(***************************************************************************)
EXTENDS Integers

VARIABLES
  disk,     \* [mbr, part]: the partition table and what the slots hold
  opened,   \* has bootfs_open() returned?
  result    \* the slot it found, or NoSlot

Slot   == 0 .. 3
NoSlot == -1
Ind    == {"plain", "boot", "invalid"}   \* boot_ind 0, 0x80, anything else
Content == {"bootfs", "foreign"}         \* foreign: no magic, or unreadable
Disk   == [mbr : {"absent", "unsigned", "signed"},
           part : [Slot -> [linux : BOOLEAN, ind : Ind, content : Content]]]

Usable(d) == d.mbr = "signed" /\ \A s \in Slot : d.part[s].ind # "invalid"
Holding(d, ind) ==
  {s \in Slot : d.part[s].linux /\ d.part[s].ind = ind /\ d.part[s].content = "bootfs"}

First(slots) == {s \in slots : \A t \in slots : s <= t}

(* The result bootfs_open() is to have, as a set of one. *)
Promised(d) ==
  IF ~Usable(d) THEN {NoSlot}
  ELSE IF Holding(d, "boot") # {} THEN First(Holding(d, "boot"))
  ELSE IF Holding(d, "plain") # {} THEN First(Holding(d, "plain"))
  ELSE {NoSlot}

Init == opened = FALSE /\ result = NoSlot /\ disk \in Disk
Open ==
  /\ ~opened /\ opened'
  /\ result' \in Promised(disk)
  /\ UNCHANGED disk
(* ... and it returns. *)
Spec == Init /\ [][Open]_<<disk, opened, result>> /\ <>opened
=============================================================================
