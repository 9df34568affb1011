------------------------------- MODULE Bootfs -------------------------------
(***************************************************************************)
(* bootfs_open() of storage.c, partition by partition: the MBR is read and *)
(* checked, its Linux partitions are collected, and the list is gone       *)
(* through twice, boot partitions first.                                   *)
(*                                                                         *)
(* The loop reads is_boot of parts[i] with i up to 2 * part_count - 1,     *)
(* while only parts[0 .. part_count - 1] were written: what it finds there *)
(* (fresh heap, then bytes of the MBR's boot code) is a choice from        *)
(* Behind.  The second round works if that is always FALSE.                *)
(*                                                                         *)
(* A definition X_y in front of X is a faulty variant of X, there only to  *)
(* see that the properties notice it; nothing uses it.                     *)
(***************************************************************************)
EXTENDS Integers, Sequences

CONSTANTS
  Disks,    \* the disks to open
  Behind    \* what parts[n].is_boot may be behind the end of the list

VARIABLES
  disk,     \* the partition table and what the slots hold
  result,   \* the slot found, or NoSlot
  pc,       \* "mbr", "collect", "search", "done"
  slot,     \* next MBR slot to collect
  parts,    \* the slots collected, parts[i + 1] is the code's parts[i]
  i         \* index of the search loop

svars == <<disk, result, pc, slot, parts, i>>

(* bootfs_open()'s promise to its callers. *)
Promise == INSTANCE BootfsSpec WITH opened <- (pc = "done")

Slot   == Promise!Slot
NoSlot == Promise!NoSlot

ASSUME DisksAssumption == Disks \subseteq Promise!Disk /\ Behind \subseteq BOOLEAN

part_count == Len(parts)
IsBoot(s)  == disk.part[s].ind = "boot"

Return(r) == pc' = "done" /\ result' = r

(* mmc_probe() may give NULL, the MBR may be unreadable or lack 0x55aa. *)
ReadMbr ==
  /\ pc = "mbr"
  /\ \/ disk.mbr # "signed" /\ Return(NoSlot)
     \/ disk.mbr = "signed" /\ pc' = "collect" /\ UNCHANGED result
  /\ UNCHANGED <<disk, slot, parts, i>>

(* One slot of the partition table. *)
Listed(s) == disk.part[s].linux
Collect ==
  /\ pc = "collect"
  /\ \/ /\ disk.part[slot].ind = "invalid"
        /\ Return(NoSlot) /\ UNCHANGED <<slot, parts>>
     \/ /\ disk.part[slot].ind # "invalid"
        /\ parts' = IF Listed(slot) THEN Append(parts, slot) ELSE parts
        /\ slot' = slot + 1
        /\ pc' = IF slot = 3 THEN "search" ELSE "collect"
        /\ UNCHANGED result
  /\ UNCHANGED <<disk, i>>

(* The values parts[n].is_boot ^ (n / part_count) may have. *)
Try_plain(n) == IF n < part_count THEN {~IsBoot(parts[n + 1])} ELSE {~b : b \in Behind}
Try_once(n) == IF n < part_count THEN {IsBoot(parts[n + 1])} ELSE {IsBoot(parts[n - part_count + 1])}
Try(n) == IF n < part_count THEN {IsBoot(parts[n + 1])} ELSE {~b : b \in Behind}

(* One turn of the search loop. *)
Candidate == parts[(i % part_count) + 1]
SearchEnd == i = 2 * part_count
Search ==
  /\ pc = "search"
  /\ \/ /\ SearchEnd
        /\ Return(NoSlot) /\ UNCHANGED i
     \/ /\ i < 2 * part_count /\ TRUE \in Try(i)
        /\ \/ /\ disk.part[Candidate].content = "bootfs"
              /\ Return(Candidate) /\ UNCHANGED i
           \/ /\ disk.part[Candidate].content # "bootfs"
              /\ i' = i + 1 /\ UNCHANGED <<pc, result>>
     \/ /\ i < 2 * part_count /\ FALSE \in Try(i)
        /\ i' = i + 1 /\ UNCHANGED <<pc, result>>
  /\ UNCHANGED <<disk, slot, parts>>

OpenInit ==
  /\ disk \in Disks /\ result = NoSlot
  /\ pc = "mbr" /\ slot = 0 /\ parts = <<>> /\ i = 0

OpenNext == ReadMbr \/ Collect \/ Search
OpenSpec == OpenInit /\ [][OpenNext]_svars /\ WF_svars(OpenNext)
-----------------------------------------------------------------------------
BootfsTypeOK ==
  /\ disk \in Promise!Disk /\ result \in Slot \cup {NoSlot}
  /\ pc \in {"mbr", "collect", "search", "done"}
  /\ slot \in 0 .. 4 /\ parts \in Seq(Slot) /\ part_count <= 4
  /\ i \in 0 .. 8

(* Whatever lies behind the list: bootfs_open() only finds a bootfs, on a  *)
(* Linux partition of a usable table; one with the boot flag, the first of *)
(* them, whenever there is one (the two rounds of bootfs_open()).          *)
FirstPassSound ==
  pc = "done" =>
    /\ result # NoSlot => /\ Promise!Usable(disk)
                          /\ result \in Promise!Holding(disk, "boot") \cup Promise!Holding(disk, "plain")
    /\ Promise!Usable(disk) /\ Promise!Holding(disk, "boot") # {} => result \in Promise!Promised(disk)

(* "go through partitions list twice (once through boot partitions, then   *)
(* through others)": a bootfs without the boot flag is found too.  Not so  *)
(* when is_boot reads TRUE behind the list.                                *)
SecondPassSound == pc = "done" => result \in Promise!Promised(disk)

(* With nothing but zeroes behind the list bootfs_open() implements its    *)
(* promise: in one of its steps it returns the promised result, and it     *)
(* does return.                                                            *)
Implements == Promise!Spec
=============================================================================
