---------------------------- MODULE BootfsProofs ----------------------------
(***************************************************************************)
(* For every disk bootfs_open() finds boot partitions as it should; and it *)
(* implements its promise if what it reads behind its list is zero: each   *)
(* of its steps is a step of BootfsSpec or changes nothing the caller      *)
(* sees.  That it returns is left to TLC.                                  *)
(*                                                                         *)
(* The promise is about the first boot partition with a bootfs, the loop   *)
(* about places in a list.  What connects them: the list holds the Linux   *)
(* slots seen so far, in their order (ListSound), and what the loop has    *)
(* passed holds no bootfs with the boot flag (PassedOver).                 *)
(***************************************************************************)
EXTENDS Bootfs, TLAPS

(* Where each phase of bootfs_open() leaves its counters. *)
Phases ==
  /\ pc = "mbr" => slot = 0 /\ parts = <<>> /\ i = 0
  /\ pc = "collect" => slot \in Slot /\ i = 0
  /\ pc = "search" => slot = 4
  /\ pc # "done" => result = NoSlot

(* Every slot seen is valid; the list is the Linux ones, in order. *)
ListSound ==
  pc \in {"collect", "search"} =>
    /\ disk.mbr = "signed"
    /\ \A s \in Slot : s < slot => disk.part[s].ind # "invalid"
    /\ \A k \in 1 .. Len(parts) : parts[k] < slot /\ disk.part[parts[k]].linux
    /\ \A j, k \in 1 .. Len(parts) : j < k => parts[j] < parts[k]
    /\ \A s \in Slot : s < slot /\ disk.part[s].linux => \E k \in 1 .. Len(parts) : parts[k] = s

(* What the search has passed in its first round is no result for it, nor  *)
(* is what it has passed in the second if that one reads zeroes.           *)
PassedOver ==
  pc = "search" =>
    /\ i <= 2 * Len(parts)
    /\ \A k \in 1 .. Len(parts) :
         k <= i => ~(disk.part[parts[k]].ind = "boot" /\ disk.part[parts[k]].content = "bootfs")
    /\ Behind = {FALSE} =>
         \A k \in 1 .. Len(parts) : Len(parts) + k <= i => disk.part[parts[k]].content # "bootfs"

OpenInv == BootfsTypeOK /\ Len(parts) <= slot /\ Phases /\ ListSound /\ PassedOver

USE DEF Slot, NoSlot, Promise!Slot, Promise!NoSlot, part_count

(* What the loop's index finds in the list (storage.c: i % part_count). *)
LEMMA IndexInList ==
  ASSUME NEW n \in 1 .. 4, NEW k \in 0 .. 8
  PROVE  k % n \in 0 .. n - 1
<1>1. CASE n = 1  BY <1>1, SMT
<1>2. CASE n = 2  BY <1>2, SMT
<1>3. CASE n = 3  BY <1>3, SMT
<1>4. CASE n = 4  BY <1>4, SMT
<1> QED BY <1>1, <1>2, <1>3, <1>4

LEMMA IndexInFirstRound ==
  ASSUME NEW n \in 1 .. 4, NEW k \in 0 .. n - 1
  PROVE  k % n = k
<1>1. CASE n = 1  BY <1>1, SMT
<1>2. CASE n = 2  BY <1>2, SMT
<1>3. CASE n = 3  BY <1>3, SMT
<1>4. CASE n = 4  BY <1>4, SMT
<1> QED BY <1>1, <1>2, <1>3, <1>4

LEMMA IndexInSecondRound ==
  ASSUME NEW n \in 1 .. 4, NEW k \in n .. 2 * n - 1
  PROVE  k % n = k - n
<1>1. CASE n = 1  BY <1>1, SMT
<1>2. CASE n = 2  BY <1>2, SMT
<1>3. CASE n = 3  BY <1>3, SMT
<1>4. CASE n = 4  BY <1>4, SMT
<1> QED BY <1>1, <1>2, <1>3, <1>4

(* bootfs_open() begins with nothing collected. *)
LEMMA OpenInvInit == OpenInit => OpenInv
<1> SUFFICES ASSUME OpenInit PROVE OpenInv
    OBVIOUS
<1>1. BootfsTypeOK
  BY DisksAssumption DEF OpenInit, BootfsTypeOK
<1>2. Phases /\ ListSound /\ PassedOver /\ Len(parts) <= slot
  BY DEF OpenInit, Phases, ListSound, PassedOver
<1> QED BY <1>1, <1>2 DEF OpenInv

(* Reading the MBR keeps the invariant. *)
LEMMA ReadMbrKeeps == OpenInv /\ ReadMbr => OpenInv'
<1> SUFFICES ASSUME OpenInv, ReadMbr PROVE OpenInv'
    OBVIOUS
<1> USE DEF OpenInv, ReadMbr, Return
<1>1. BootfsTypeOK' /\ (Len(parts) <= slot)'
  BY DEF BootfsTypeOK
<1>2. Phases'  BY DEF Phases, BootfsTypeOK
<1>3. ListSound'  BY DEF ListSound, Phases, BootfsTypeOK
<1>4. PassedOver'  BY DEF PassedOver
<1> QED BY <1>1, <1>2, <1>3, <1>4

(* Looking at one slot of the table keeps it: a new entry is larger than   *)
(* all before it.                                                          *)
LEMMA CollectKeeps == OpenInv /\ Collect => OpenInv'
<1> SUFFICES ASSUME OpenInv, Collect PROVE OpenInv'
    OBVIOUS
<1> USE DEF OpenInv, Collect
<1>0. slot \in Slot /\ i = 0 /\ parts \in Seq(Slot) /\ Len(parts) \in Nat
  BY DEF Phases, BootfsTypeOK
<1>1. CASE disk.part[slot].ind = "invalid"
  <2>1. pc' = "done" /\ result' = NoSlot /\ UNCHANGED <<disk, slot, parts, i>>
    BY <1>1 DEF Return
  <2> QED BY <2>1 DEF BootfsTypeOK, Phases, ListSound, PassedOver
<1>2. CASE disk.part[slot].ind # "invalid"
  <2>1. /\ parts' = IF Listed(slot) THEN Append(parts, slot) ELSE parts
        /\ slot' = slot + 1 /\ pc' = IF slot = 3 THEN "search" ELSE "collect"
        /\ UNCHANGED <<disk, i, result>>
    BY <1>2
  <2>2. /\ parts' \in Seq(Slot) /\ Len(parts') <= slot'
        /\ Len(parts') = IF Listed(slot) THEN Len(parts) + 1 ELSE Len(parts)
        /\ \A k \in 1 .. Len(parts) : parts'[k] = parts[k]
        /\ Listed(slot) => parts'[Len(parts) + 1] = slot
    BY <1>0, <2>1
  <2>3. BootfsTypeOK'  BY <1>0, <2>1, <2>2 DEF BootfsTypeOK
  <2>4. Phases'  BY <1>0, <2>1 DEF Phases
  <2>5. ListSound'
    <3>1. \A s \in Slot : s < slot' => disk.part[s].ind # "invalid"
      BY <1>0, <1>2, <2>1 DEF ListSound
    <3>2. \A k \in 1 .. Len(parts') : parts'[k] < slot' /\ disk.part[parts'[k]].linux
      BY <1>0, <2>1, <2>2 DEF ListSound, Listed
    <3>3. \A j, k \in 1 .. Len(parts') : j < k => parts'[j] < parts'[k]
      BY <1>0, <2>1, <2>2 DEF ListSound
    <3>4. \A s \in Slot : s < slot' /\ disk.part[s].linux =>
            \E k \in 1 .. Len(parts') : parts'[k] = s
      <4> SUFFICES ASSUME NEW s \in Slot, s < slot', disk.part[s].linux
                   PROVE  \E k \in 1 .. Len(parts') : parts'[k] = s
          OBVIOUS
      <4>1. CASE s < slot
        <5>1. PICK k \in 1 .. Len(parts) : parts[k] = s  BY <4>1 DEF ListSound
        <5> QED BY <1>0, <2>2, <5>1
      <4>2. CASE s = slot
        BY <1>0, <2>2, <4>2 DEF Listed
      <4> QED BY <1>0, <2>1, <4>1, <4>2
    <3> QED BY <2>1, <3>1, <3>2, <3>3, <3>4 DEF ListSound
  <2>6. PassedOver'
    <3>1. i' = 0 /\ Len(parts') \in Nat
      BY <1>0, <2>1, <2>2
    <3>2. \A k \in 1 .. Len(parts') : ~(k <= i') /\ ~(Len(parts') + k <= i')
      BY <3>1
    <3>3. i' <= 2 * Len(parts')
      BY <3>1
    <3> QED BY <3>2, <3>3, Zenon DEF PassedOver
  <2> QED BY <2>2, <2>3, <2>4, <2>5, <2>6
<1> QED BY <1>1, <1>2

(* While searching, the list is where it was and the index inside. *)
LEMMA SearchRange ==
  ASSUME OpenInv, pc = "search", i < 2 * Len(parts)
  PROVE  /\ Len(parts) \in 1 .. 4 /\ i \in 0 .. 7
         /\ Candidate \in Slot /\ disk.part[Candidate].linux
         /\ i < Len(parts) => Candidate = parts[i + 1]
         /\ i >= Len(parts) => Candidate = parts[i - Len(parts) + 1]
<1>0. parts \in Seq(Slot) /\ Len(parts) \in Nat /\ Len(parts) <= 4 /\ i \in 0 .. 8
  BY DEF OpenInv, BootfsTypeOK
<1>1. Len(parts) \in 1 .. 4 /\ i \in 0 .. 7
  <2>1. \A n \in Nat, k \in 0 .. 8 : n <= 4 /\ k < 2 * n => n \in 1 .. 4 /\ k \in 0 .. 7
    OBVIOUS
  <2> QED BY <1>0, <2>1
<1>2. i % Len(parts) \in 0 .. Len(parts) - 1
  BY <1>1, IndexInList
<1>3. i < Len(parts) => i % Len(parts) = i
  BY <1>1, IndexInFirstRound
<1>4. Candidate \in Slot /\ disk.part[Candidate].linux
  BY <1>1, <1>2 DEF OpenInv, BootfsTypeOK, Candidate, ListSound
<1>5. i >= Len(parts) => i % Len(parts) = i - Len(parts)
  <2>1. i >= Len(parts) => i \in Len(parts) .. 2 * Len(parts) - 1
    BY <1>0
  <2> QED BY <1>1, <2>1, IndexInSecondRound
<1> QED BY <1>1, <1>3, <1>4, <1>5 DEF Candidate

(* A turn of the search loop keeps it: a boot partition is passed only if  *)
(* it was tried and held no bootfs.                                        *)
LEMMA SearchKeeps == OpenInv /\ Search => OpenInv'
<1> SUFFICES ASSUME OpenInv, Search PROVE OpenInv'
    OBVIOUS
<1>0. pc = "search" /\ UNCHANGED <<disk, slot, parts>>
  BY DEF Search
<1>1. CASE SearchEnd /\ Return(NoSlot) /\ UNCHANGED i
  BY <1>0, <1>1 DEF OpenInv, Return, BootfsTypeOK, Phases, ListSound, PassedOver
<1>2. CASE i < 2 * Len(parts) /\ Return(Candidate) /\ UNCHANGED i
  BY <1>0, <1>2, SearchRange DEF OpenInv, Return, BootfsTypeOK, Phases, ListSound, PassedOver
<1>3. CASE /\ i < 2 * Len(parts) /\ i' = i + 1 /\ UNCHANGED <<pc, result>>
           /\ i < Len(parts) =>
                ~(disk.part[parts[i + 1]].ind = "boot" /\ disk.part[parts[i + 1]].content = "bootfs")
           /\ i >= Len(parts) /\ Behind = {FALSE} => disk.part[parts[i - Len(parts) + 1]].content # "bootfs"
  <2>1. i \in 0 .. 7 /\ Len(parts) \in 1 .. 4  BY <1>0, <1>3, SearchRange
  <2>2. BootfsTypeOK' /\ Phases' /\ ListSound' /\ (Len(parts) <= slot)'
    BY <1>0, <1>3, <2>1 DEF OpenInv, BootfsTypeOK, Phases, ListSound
  <2>3. i' <= 2 * Len(parts) /\ \A k \in 1 .. Len(parts) :
          k <= i' => ~(disk.part[parts[k]].ind = "boot" /\ disk.part[parts[k]].content = "bootfs")
    BY <1>0, <1>3, <2>1 DEF OpenInv, PassedOver
  <2>4. ASSUME Behind = {FALSE}, NEW k \in 1 .. Len(parts), Len(parts) + k <= i'
        PROVE  disk.part[parts[k]].content # "bootfs"
    <3>1. CASE Len(parts) + k <= i
      BY <1>0, <2>4, <3>1 DEF OpenInv, PassedOver
    <3>2. CASE ~(Len(parts) + k <= i)
      <4>1. k = i - Len(parts) + 1 /\ i >= Len(parts)
        BY <1>3, <2>1, <2>4, <3>2
      <4> QED BY <1>3, <2>4, <4>1
    <3> QED BY <3>1, <3>2
  <2>5. PassedOver'
    BY <1>0, <1>3, <2>3, <2>4 DEF PassedOver
  <2> QED BY <2>2, <2>5 DEF OpenInv
<1>4. CASE i < 2 * Len(parts) /\ TRUE \in Try(i) /\ disk.part[Candidate].content # "bootfs"
           /\ i' = i + 1 /\ UNCHANGED <<pc, result>>
  BY <1>0, <1>3, <1>4, SearchRange
<1>5. CASE i < 2 * Len(parts) /\ FALSE \in Try(i) /\ i' = i + 1 /\ UNCHANGED <<pc, result>>
  <2>1. Behind = {FALSE} => FALSE \notin {~b : b \in Behind}
    OBVIOUS
  <2>2. Len(parts) \in Nat /\ i \in Nat
    BY <1>0, <1>5, SearchRange
  <2>3. i < Len(parts) =>
          ~(disk.part[parts[i + 1]].ind = "boot" /\ disk.part[parts[i + 1]].content = "bootfs")
    BY <1>5 DEF Try, IsBoot
  <2>4. ~(i >= Len(parts) /\ Behind = {FALSE})
    <3> SUFFICES ASSUME i >= Len(parts), Behind = {FALSE} PROVE FALSE
        OBVIOUS
    <3>1. Try(i) = {~b : b \in Behind}
      BY <2>2 DEF Try
    <3> QED BY <1>5, <2>1, <3>1
  <2> QED BY <1>3, <1>5, <2>3, <2>4
<1> QED BY <1>1, <1>2, <1>4, <1>5 DEF Search

LEMMA OpenInvNext == OpenInv /\ [OpenNext]_svars => OpenInv'
<1> SUFFICES ASSUME OpenInv, [OpenNext]_svars PROVE OpenInv'
    OBVIOUS
<1>1. CASE UNCHANGED svars
  BY <1>1 DEF svars, OpenInv, BootfsTypeOK, Phases, ListSound, PassedOver
<1> QED BY <1>1, ReadMbrKeeps, CollectKeeps, SearchKeeps DEF OpenNext

(* The invariant in full, for every disk: bootfs_open() stays within its   *)
(* list, collects the Linux partitions in order, and passes over no boot   *)
(* partition that holds a bootfs.                                          *)
THEOREM OpenInvariant == OpenSpec => []OpenInv
BY OpenInvInit, OpenInvNext, PTL DEF OpenSpec
-----------------------------------------------------------------------------
(* Once every slot has been seen the table is usable, and a bootfs with    *)
(* the boot flag is at some place of the list not passed yet.              *)
LEMMA BootAhead ==
  ASSUME OpenInv, pc = "search"
  PROVE  /\ Promise!Usable(disk)
         /\ \A t \in Promise!Holding(disk, "boot") :
              \E k \in 1 .. Len(parts) : k > i /\ parts[k] = t
<1>1. Promise!Usable(disk)
  BY DEF OpenInv, Phases, ListSound, Promise!Usable
<1>2. ASSUME NEW t \in Promise!Holding(disk, "boot")
      PROVE  \E k \in 1 .. Len(parts) : k > i /\ parts[k] = t
  <2>1. t \in Slot /\ disk.part[t].linux /\ disk.part[t].ind = "boot" /\ disk.part[t].content = "bootfs"
    BY DEF Promise!Holding
  <2>2. PICK k \in 1 .. Len(parts) : parts[k] = t
    BY <2>1 DEF OpenInv, Phases, ListSound
  <2>3. k > i
    BY <2>1, <2>2 DEF OpenInv, PassedOver, BootfsTypeOK
  <2> QED BY <2>2, <2>3
<1> QED BY <1>1, <1>2

(* With zeroes behind the list, a bootfs without the flag is ahead as long *)
(* as nothing was found.                                                   *)
LEMMA PlainAhead ==
  ASSUME OpenInv, pc = "search", Behind = {FALSE}, NEW t \in Promise!Holding(disk, "plain")
  PROVE  \E k \in 1 .. Len(parts) : Len(parts) + k > i /\ parts[k] = t
<1>1. t \in Slot /\ disk.part[t].linux /\ disk.part[t].content = "bootfs"
  BY DEF Promise!Holding
<1>2. PICK k \in 1 .. Len(parts) : parts[k] = t
  BY <1>1 DEF OpenInv, Phases, ListSound
<1>3. Len(parts) + k > i
  BY <1>1, <1>2 DEF OpenInv, PassedOver, BootfsTypeOK
<1> QED BY <1>2, <1>3

(* A partition returned in the first round is the first with the flag.     *)
LEMMA FoundFirst ==
  ASSUME OpenInv, pc = "search", i < Len(parts), TRUE \in Try(i),
         disk.part[Candidate].content = "bootfs"
  PROVE  /\ Candidate \in Promise!Holding(disk, "boot")
         /\ Promise!Promised(disk) = Promise!First(Promise!Holding(disk, "boot"))
         /\ Candidate \in Promise!Promised(disk)
<1>0. Len(parts) \in Nat /\ i \in Nat /\ i < 2 * Len(parts)
  BY DEF OpenInv, BootfsTypeOK
<1>1. /\ Candidate = parts[i + 1] /\ Candidate \in Slot
      /\ disk.part[Candidate].linux /\ disk.part[Candidate].ind = "boot"
  BY <1>0, SearchRange DEF Try, IsBoot
<1>2. Candidate \in Promise!Holding(disk, "boot")
  BY <1>1 DEF Promise!Holding
<1>3. ASSUME NEW t \in Promise!Holding(disk, "boot") PROVE Candidate <= t
  <2>1. PICK k \in 1 .. Len(parts) : k > i /\ parts[k] = t
    BY BootAhead
  <2> QED BY <1>1, <2>1 DEF OpenInv, ListSound, BootfsTypeOK
<1> QED BY <1>2, <1>3, BootAhead DEF Promise!Promised, Promise!First

(* One returned in the second round is a plain one; no other has the flag. *)
LEMMA FoundSecond ==
  ASSUME OpenInv, pc = "search", i < 2 * Len(parts), ~(i < Len(parts)),
         disk.part[Candidate].content = "bootfs"
  PROVE  Candidate \in Promise!Holding(disk, "plain") /\ Promise!Holding(disk, "boot") = {}
<1>1. Candidate \in Slot /\ disk.part[Candidate].linux
  BY SearchRange
<1>2. Promise!Holding(disk, "boot") = {}
  BY BootAhead DEF OpenInv, BootfsTypeOK
<1>3. disk.part[Candidate].ind # "boot" /\ disk.part[Candidate].ind # "invalid"
  BY <1>1, <1>2, BootAhead DEF Promise!Holding, Promise!Usable
<1>4. disk.part[Candidate].ind = "plain"
  BY <1>1, <1>3 DEF OpenInv, BootfsTypeOK, Promise!Disk, Promise!Ind
<1> QED BY <1>1, <1>2, <1>4 DEF Promise!Holding

(* ... and the first of them, if zeroes are behind the list.               *)
LEMMA FoundFirstPlain ==
  ASSUME OpenInv, pc = "search", i < 2 * Len(parts), ~(i < Len(parts)), Behind = {FALSE},
         disk.part[Candidate].content = "bootfs"
  PROVE  Candidate \in Promise!Promised(disk)
<1>0. Len(parts) \in Nat /\ i \in Nat /\ Candidate = parts[i - Len(parts) + 1]
  BY SearchRange DEF OpenInv, BootfsTypeOK
<1>1. ASSUME NEW t \in Promise!Holding(disk, "plain") PROVE Candidate <= t
  <2>1. PICK k \in 1 .. Len(parts) : Len(parts) + k > i /\ parts[k] = t
    BY PlainAhead
  <2>2. i - Len(parts) + 1 \in 1 .. Len(parts) /\ i - Len(parts) + 1 <= k
    BY <1>0, <2>1
  <2>3. parts \in Seq(Slot)
    BY DEF OpenInv, BootfsTypeOK
  <2>4. \A j \in 1 .. Len(parts) : j < k => parts[j] < parts[k]
    BY <2>1 DEF OpenInv, ListSound
  <2>5. CASE i - Len(parts) + 1 = k
    BY <1>0, <2>1, <2>3, <2>5
  <2>6. CASE i - Len(parts) + 1 < k
    <3>1. parts[i - Len(parts) + 1] < parts[k]
      BY <2>2, <2>4, <2>6
    <3>2. parts[i - Len(parts) + 1] \in Slot /\ parts[k] \in Slot
      BY <2>1, <2>2, <2>3
    <3> QED BY <1>0, <2>1, <3>1, <3>2
  <2> QED BY <1>0, <2>1, <2>2, <2>5, <2>6
<1> QED BY <1>1, FoundSecond, BootAhead DEF Promise!Promised, Promise!First

(* What bootfs_open() returns, whatever is behind the list. *)
LEMMA ReturnsSound ==
  ASSUME OpenInv, OpenNext, pc # "done", pc' = "done"
  PROVE  FirstPassSound' /\ UNCHANGED disk
<1>0. UNCHANGED disk
  BY DEF OpenNext, ReadMbr, Collect, Search
<1>1. CASE ReadMbr
  BY <1>0, <1>1 DEF ReadMbr, Return, FirstPassSound, Promise!Usable
<1>2. CASE Collect
  <2>1. slot \in Slot /\ disk.part[slot].ind = "invalid" /\ result' = NoSlot
    BY <1>2 DEF Collect, Return, OpenInv, Phases
  <2> QED BY <1>0, <2>1 DEF FirstPassSound, Promise!Usable
<1>3. CASE Search
  <2>0. pc = "search"  BY <1>3 DEF Search
  <2>1. CASE SearchEnd /\ result' = NoSlot
    <3>1. Promise!Holding(disk, "boot") = {}
      BY <2>0, <2>1, BootAhead DEF SearchEnd, OpenInv, BootfsTypeOK
    <3> QED BY <1>0, <2>1, <3>1 DEF FirstPassSound
  <2>2. CASE i < 2 * Len(parts) /\ TRUE \in Try(i) /\ disk.part[Candidate].content = "bootfs"
             /\ result' = Candidate
    <3>1. CASE i < Len(parts)
      BY <1>0, <2>0, <2>2, <3>1, FoundFirst, BootAhead DEF FirstPassSound
    <3>2. CASE ~(i < Len(parts))
      BY <1>0, <2>0, <2>2, <3>2, FoundSecond, BootAhead DEF FirstPassSound
    <3> QED BY <3>1, <3>2
  <2> QED BY <1>3, <2>0, <2>1, <2>2 DEF Search, Return
<1> QED BY <1>1, <1>2, <1>3 DEF OpenNext

(* For every disk and whatever lies behind the list, bootfs_open() returns *)
(* only a partition with a bootfs, and the first with the boot flag if     *)
(* there is one (the first round of bootfs_open()).                        *)
THEOREM BootFlagFirst == OpenSpec => []FirstPassSound
<1>1. OpenInit => FirstPassSound
  BY DEF OpenInit, FirstPassSound
<1>2. OpenInv /\ FirstPassSound /\ [OpenNext]_svars => FirstPassSound'
  <2> SUFFICES ASSUME OpenInv, FirstPassSound, [OpenNext]_svars PROVE FirstPassSound'
      OBVIOUS
  <2>1. CASE UNCHANGED svars
    BY <2>1 DEF svars, FirstPassSound
  <2>2. CASE OpenNext
    <3>1. pc # "done"
      BY <2>2 DEF OpenNext, ReadMbr, Collect, Search
    <3>2. CASE pc' = "done"
      BY <2>2, <3>1, <3>2, ReturnsSound
    <3>3. CASE pc' # "done"
      BY <3>3 DEF FirstPassSound
    <3> QED BY <3>2, <3>3
  <2> QED BY <2>1, <2>2
<1> QED BY <1>1, <1>2, OpenInvariant, PTL DEF OpenSpec

(* With zeroes behind the list the result is the promised one. *)
LEMMA ReturnsPromised ==
  ASSUME Behind = {FALSE}, OpenInv, OpenNext, pc # "done", pc' = "done"
  PROVE  result' \in Promise!Promised(disk) /\ UNCHANGED disk
<1>0. UNCHANGED disk
  BY DEF OpenNext, ReadMbr, Collect, Search
<1>1. CASE ReadMbr
  BY <1>0, <1>1 DEF ReadMbr, Return, Promise!Promised, Promise!Usable
<1>2. CASE Collect
  <2>1. slot \in Slot /\ disk.part[slot].ind = "invalid" /\ result' = NoSlot
    BY <1>2 DEF Collect, Return, OpenInv, Phases
  <2> QED BY <1>0, <2>1 DEF Promise!Promised, Promise!Usable
<1>3. CASE Search
  <2>0. pc = "search" /\ Len(parts) \in Nat
    BY <1>3 DEF Search, OpenInv, BootfsTypeOK
  <2>1. CASE SearchEnd /\ result' = NoSlot
    <3>1. Promise!Holding(disk, "boot") = {}
      BY <2>0, <2>1, BootAhead DEF SearchEnd, OpenInv, BootfsTypeOK
    <3>2. Promise!Holding(disk, "plain") = {}
      BY <2>0, <2>1, PlainAhead DEF SearchEnd
    <3> QED BY <1>0, <2>0, <2>1, <3>1, <3>2, BootAhead DEF Promise!Promised
  <2>2. CASE i < 2 * Len(parts) /\ TRUE \in Try(i) /\ disk.part[Candidate].content = "bootfs"
             /\ result' = Candidate
    <3>1. CASE i < Len(parts)
      BY <1>0, <2>0, <2>2, <3>1, FoundFirst
    <3>2. CASE ~(i < Len(parts))
      BY <1>0, <2>0, <2>2, <3>2, FoundFirstPlain
    <3> QED BY <3>1, <3>2
  <2> QED BY <1>3, <2>0, <2>1, <2>2 DEF Search, Return
<1> QED BY <1>1, <1>2, <1>3 DEF OpenNext

(* Every step of bootfs_open() is then the promised one or is not seen. *)
LEMMA StepImplements ==
  ASSUME Behind = {FALSE}
  PROVE  OpenInv /\ [OpenNext]_svars => [Promise!Open]_<<disk, pc = "done", result>>
<1> SUFFICES ASSUME OpenInv, [OpenNext]_svars
             PROVE  [Promise!Open]_<<disk, pc = "done", result>>
    OBVIOUS
<1>1. CASE UNCHANGED svars
  BY <1>1 DEF svars
<1>2. CASE OpenNext /\ pc # "done" /\ pc' = "done"
  BY <1>2, ReturnsPromised DEF Promise!Open
<1>3. CASE OpenNext /\ ~(pc # "done" /\ pc' = "done")
  <2>1. UNCHANGED <<disk, result>> /\ pc # "done" /\ pc' # "done"
    BY <1>3 DEF OpenNext, ReadMbr, Collect, Search, Return
  <2> QED BY <2>1
<1> QED BY <1>1, <1>2, <1>3

(* With zeroes behind the list bootfs_open() implements the safety part of *)
(* BootfsSpec for every disk: in one step it returns the result its        *)
(* callers were promised, and returns it once (both rounds of the loop).   *)
THEOREM OpenImplements ==
  ASSUME Behind = {FALSE}
  PROVE  OpenSpec => Promise!Init /\ [][Promise!Open]_<<disk, pc = "done", result>>
<1>1. OpenInit => Promise!Init
  BY DisksAssumption DEF OpenInit, Promise!Init
<1>2. OpenInv /\ [OpenNext]_svars => [Promise!Open]_<<disk, pc = "done", result>>
  BY StepImplements
<1> QED BY <1>1, <1>2, OpenInvariant, PTL DEF OpenSpec
=============================================================================
