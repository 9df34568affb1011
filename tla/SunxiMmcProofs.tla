--------------------------- MODULE SunxiMmcProofs ---------------------------
(***************************************************************************)
(* Proofs about reading from a card (SunxiMmc): for every card, memory,    *)
(* set of requests, FIFO, descriptor and cache geometry, and any number of *)
(* faults and reads, what ReadComplete and NoLateDma say.                  *)
(***************************************************************************)
EXTENDS SunxiMmc, SequenceTheorems, TLAPS

(* A command is on its way. *)
Flight == pc \in {"pio", "cmd", "data", "out"}
Busy   == pc \notin {"idle", "done"}

Desc  == [addr : Nat, size : Nat]
Types ==
  /\ pc \in {"idle", "blocklen", "chunk", "pio", "cmd", "data", "out", "done"}
  /\ req \in [dest : Nat, off : Nat, len : Nat, dram : BOOLEAN]
  /\ at \in [start : Nat, todo : Nat, dst : Nat]
  /\ tries \in 0 .. 5 /\ moved \in 0 .. BMax /\ faults \in 0 .. MaxFaults /\ reads \in Nat
  /\ error \in BOOLEAN /\ ok \in BOOLEAN
  /\ ctl \in [ddr : BOOLEAN, rint : SUBSET {"cmd", "auto", "over", "error"}, left : 0 .. BMax,
              auto : BOOLEAN, fifo : Seq(0 .. Lba)]
  /\ Len(ctl.fifo) <= FifoMax
  /\ dma \in [on : BOOLEAN, descs : Seq(Desc), irq : BOOLEAN]
  /\ Len(dma.descs) <= NDescs
  /\ \A i \in 1 .. Len(dma.descs) : dma.descs[i].size \in 1 .. BufMax
  /\ card \in [st : {"tran", "data"}, pos : Nat, ddr : BOOLEAN, multi : BOOLEAN]
  /\ mem \in [Addresses -> Old .. Lba]
  /\ dirty \subseteq {Line(a) : a \in Addresses}

(* Between two commands the controller and its engine are at rest. *)
AtRest ==
  ~Flight => ctl.left = 0 /\ ctl.fifo = <<>> /\ ctl.rint = {} /\ ~dma.on

(* mmc_bread() works on the rest of what was asked for, inside the card    *)
(* and inside the buffer.                                                  *)
First == req.off \div BlockLen
Rest ==
  /\ req.dest + Sectors(req) <= MemSize
  /\ Busy => /\ at.todo > 0 /\ at.start >= First /\ at.start + at.todo <= Lba
             /\ at.start + at.todo = First + Sectors(req)
             /\ at.dst + at.todo = req.dest + Sectors(req)

(* The sectors of the command that are in memory, as the descriptors or    *)
(* the loop of mmc_trans_data_by_cpu() have it.                            *)
Moved == IF ~usedma THEN moved
         ELSE IF dma.descs = <<>> THEN Cur ELSE dma.descs[1].addr - at.dst

(* The descriptors left describe the rest of the command's buffer. *)
Covers(descs, dst, n) ==
  /\ \A i \in 1 .. Len(descs) : descs[i].addr >= dst /\ descs[i].addr + descs[i].size <= dst + n
  /\ \A i \in 1 .. Len(descs) - 1 : descs[i + 1].addr = descs[i].addr + descs[i].size
  /\ descs # <<>> => descs[Len(descs)].addr + descs[Len(descs)].size = dst + n

(* What the FIFO holds and what the card sends next continue what is in    *)
(* memory; without an error nothing is missing at the end.                 *)
Stream ==
  Flight =>
    /\ dma.on = usedma
    /\ usedma => Covers(dma.descs, at.dst, Cur) /\ (dma.irq => dma.descs = <<>>)
    /\ Moved \in 0 .. Cur
    /\ \A i \in 1 .. Len(ctl.fifo) : ctl.fifo[i] = at.start + Moved + i - 1
    /\ Moved + Len(ctl.fifo) + ctl.left <= Cur
    /\ ctl.left > 0 => card.pos = at.start + Moved + Len(ctl.fifo)
    /\ "error" \notin ctl.rint => /\ Moved + Len(ctl.fifo) + ctl.left = Cur
                                 /\ "cmd" \in ctl.rint /\ ctl.auto = (Cur > 1)
    /\ "auto" \in ctl.rint \/ "over" \in ctl.rint => ctl.left = 0
    /\ ~usedma /\ pc \in {"cmd", "data"} => moved = Cur
    /\ pc = "pio" => ~usedma
    /\ pc = "out" /\ ~error => Moved = Cur /\ ctl.left = 0

(* The buffer up to here holds what the card holds. *)
Upto == IF Flight THEN at.dst + Moved ELSE at.dst
Held ==
  /\ \A a \in Addresses : mem[a] # Old => Wanted(a)
  /\ Busy \/ (pc = "done" /\ ok) =>
       \A a \in Addresses : req.dest <= a /\ a < Upto => mem[a] = First + a - req.dest
  /\ pc = "done" /\ ok => at.dst = req.dest + Sectors(req)

(* A line the cache still has to write back covers nothing that was read,  *)
(* and none is left over a buffer the engine is writing to.                *)
Clean ==
  /\ \A a \in Addresses : Line(a) \in dirty => mem[a] = Old
  /\ ~usedma => dirty = {}
  /\ Flight => \A a \in at.dst .. at.dst + Cur - 1 : Line(a) \notin dirty

(* With nothing going wrong no command ends in an error. *)
Faultless ==
  faults = 0 =>
    /\ card.ddr = ctl.ddr /\ ~error /\ "error" \notin ctl.rint
    /\ ~Flight => card.st = "tran"
    /\ Flight => /\ card.multi = (Cur > 1)
                 /\ Cur = 1 /\ ctl.left = 0 => card.st = "tran"
                 /\ "auto" \in ctl.rint => card.st = "tran"
                 /\ pc = "out" => card.st = "tran"
    /\ pc = "done" /\ First + Sectors(req) <= Lba => ok

ReadInv == Types /\ AtRest /\ Rest /\ Stream /\ Held /\ Clean /\ Faultless
-----------------------------------------------------------------------------
LEMMA ConstantTypes ==
  /\ BlockLen \in Nat \ {0} /\ Lba \in Nat \ {0} /\ BMax \in Nat \ {0} /\ BufMax \in Nat \ {0}
  /\ NDescs \in Nat \ {0} /\ FifoMax \in Nat \ {0} /\ LineLen \in Nat \ {0}
  /\ MemSize \in Nat /\ MaxFaults \in Nat /\ MaxReads \in Nat
BY SunxiAssumption

(* Division, as the driver uses it to count sectors, descriptors and lines. *)
LEMMA Division ==
  ASSUME NEW x \in Nat, NEW b \in Nat \ {0}
  PROVE  /\ x \div b \in Nat /\ x % b \in 0 .. b - 1
         /\ x = b * (x \div b) + (x % b)
         /\ b * (x \div b) <= x /\ x < b * (x \div b) + b
<1>1. x \div b \in Nat
  OBVIOUS
<1>2. x % b \in 0 .. b - 1
  OBVIOUS
<1>3. x = b * (x \div b) + (x % b)
  OBVIOUS
<1> QED BY <1>1, <1>2, <1>3

LEMMA Product ==
  /\ \A x, y \in Int, b \in Nat \ {0} : x <= y => x * b <= y * b
  /\ \A x, y \in Int, b \in Nat \ {0} : x * b < y * b => x < y
  /\ \A i \in Int, b \in Nat \ {0} : i * b \in Int /\ i * b = b * i /\ (i - 1) * b = i * b - b
<1>1. \A x, y \in Int, b \in Nat \ {0} : x <= y => x * b <= y * b
  OBVIOUS
<1>2. \A x, y \in Int, b \in Nat \ {0} : x * b < y * b => x < y
  BY <1>1
<1>3. \A i \in Int, b \in Nat \ {0} : i * b \in Int /\ i * b = b * i /\ (i - 1) * b = i * b - b
  OBVIOUS
<1> QED BY <1>1, <1>2, <1>3

(* The size of the i-th of the descriptors for n sectors. *)
LEMMA DescSize ==
  ASSUME NEW n \in Nat \ {0}, NEW b \in Nat \ {0}, NEW i \in 1 .. (n + b - 1) \div b
  PROVE  LET size == IF i * b <= n THEN b ELSE n % b
             before == (i - 1) * b
         IN  /\ before \in Nat /\ size \in 1 .. b /\ before + size <= n
             /\ i < (n + b - 1) \div b => size = b
             /\ i = (n + b - 1) \div b => before + size = n
<1> DEFINE k == (n + b - 1) \div b
<1>1. k \in Nat /\ b * k <= n + b - 1 /\ n + b - 1 < b * k + b
  BY Division
<1> HIDE DEF k
<1>2. i \in Int /\ 1 <= i /\ i <= k
  BY <1>1 DEF k
<1>3. k * b <= n + b - 1 /\ n <= k * b /\ k * b \in Int
  BY <1>1, Product
<1>4. i * b <= k * b /\ i * b \in Int /\ (i - 1) * b = i * b - b
  BY <1>1, <1>2, Product
<1>5. (i - 1) * b \in Nat
  <2>1. 1 * b <= i * b
    BY <1>2, Product
  <2> QED BY <2>1, <1>4
<1>6. CASE i * b <= n
  <2>1. i = k => i * b = n
    BY <1>3, <1>6, <1>4
  <2> QED BY <1>6, <2>1, <1>4, <1>5 DEF k
<1>7. CASE ~(i * b <= n)
  <2>1. i = k
    <3>1. ASSUME i < k PROVE FALSE
      <4>1. i * b <= (k - 1) * b /\ (k - 1) * b = k * b - b
        BY <3>1, <1>1, <1>2, Product
      <4> QED BY <4>1, <1>3, <1>4, <1>7
    <3> QED BY <3>1, <1>1, <1>2
  <2>2. n % b = n - (i - 1) * b
    <3> DEFINE q == n \div b
    <3>1. q \in Nat /\ n % b \in 0 .. b - 1 /\ n = b * q + (n % b)
      BY Division
    <3> HIDE DEF q
    <3>2. q * b = b * q /\ q * b \in Int /\ (i - 1) * b \in Int
      BY <3>1, <1>2, Product
    <3>3. q < i
      BY <3>1, <3>2, <1>2, <1>4, <1>7, Product
    <3>4. ASSUME q < i - 1 PROVE FALSE
      <4>1. (q + 1) * b <= (i - 1) * b /\ (q + 1 - 1) * b = (q + 1) * b - b
        BY <3>4, <3>1, <1>2, Product
      <4>2. (i - 1) * b < n
        BY <1>3, <1>4, <2>1
      <4> QED BY <4>1, <4>2, <3>1, <3>2, <1>4
    <3>5. q = i - 1
      BY <3>1, <3>3, <3>4, <1>2
    <3> QED BY <3>1, <3>2, <3>5
  <2>3. n - (i - 1) * b \in 1 .. b
    BY <1>3, <1>4, <1>7, <2>1
  <2> QED BY <1>7, <2>1, <2>2, <2>3, <1>5 DEF k
<1> QED BY <1>6, <1>7

(* The descriptors mmc_trans_data_by_dma() writes are enough, and cover    *)
(* the buffer from end to end without a gap or an overlap.                 *)
LEMMA DescsCover ==
  ASSUME NEW dst \in Nat, NEW n \in 1 .. BMax
  PROVE  /\ Descs(dst, n) \in Seq(Desc) /\ Len(Descs(dst, n)) \in 1 .. NDescs
         /\ \A i \in 1 .. Len(Descs(dst, n)) : Descs(dst, n)[i].size \in 1 .. BufMax
         /\ Covers(Descs(dst, n), dst, n)
         /\ Descs(dst, n)[1].addr = dst
<1> DEFINE k == (n + BufMax - 1) \div BufMax
           size(i) == IF i * BufMax <= n THEN BufMax ELSE n % BufMax
           before(i) == (i - 1) * BufMax
           ds == Descs(dst, n)
<1>0. /\ BufMax \in Nat \ {0} /\ NDescs \in Nat \ {0} /\ BMax \in Nat \ {0}
      /\ BMax <= NDescs * BufMax /\ n \in Nat \ {0} /\ n <= BMax
  BY SunxiAssumption
<1>1. k \in Nat /\ BufMax * k <= n + BufMax - 1 /\ n + BufMax - 1 < BufMax * k + BufMax
  <2>1. n + BufMax - 1 \in Nat
    BY <1>0
  <2> QED BY <1>0, <2>1, Division, Zenon
<1>2. \A i \in 1 .. k :
        /\ before(i) \in Nat /\ size(i) \in 1 .. BufMax /\ before(i) + size(i) <= n
        /\ i < k => size(i) = BufMax
        /\ i = k => before(i) + size(i) = n
  BY <1>0, DescSize
<1>3. ds = [i \in 1 .. k |-> [addr |-> dst + before(i), size |-> size(i)]]
  BY DEF Descs
<1>4. \A i \in 1 .. k : before(i + 1) = before(i) + BufMax
  <2>1. \A i \in Int : (i + 1 - 1) * BufMax = i * BufMax /\ (i - 1) * BufMax = i * BufMax - BufMax
                       /\ i * BufMax \in Int
    BY <1>0, Product
  <2> QED BY <2>1, <1>0, <1>1
<1>5. before(1) = 0
  BY <1>0
<1>6. k \in 1 .. NDescs
  <2>1. k * BufMax = BufMax * k /\ k * BufMax \in Int /\ NDescs * BufMax \in Int
    BY <1>0, <1>1, Product
  <2>2. (NDescs + 1 - 1) * BufMax = (NDescs + 1) * BufMax - BufMax /\ (NDescs + 1) * BufMax \in Int
    BY <1>0, Product
  <2>3. k * BufMax < (NDescs + 1) * BufMax
    BY <1>0, <1>1, <2>1, <2>2
  <2>4. k < NDescs + 1
    BY <2>3, <1>0, <1>1, Product
  <2>5. k # 0
    BY <1>0, <1>1
  <2> QED BY <2>4, <2>5, <1>0, <1>1
<1> HIDE DEF k, size, before, ds
<1>7. \A i \in 1 .. k : [addr |-> dst + before(i), size |-> size(i)] \in Desc
  BY <1>0, <1>2 DEF Desc
<1>8. ds \in [1 .. k -> Desc] /\ Len(ds) = k /\ ds \in Seq(Desc)
  BY <1>1, <1>3, <1>7
<1>9. \A i \in 1 .. k : ds[i].addr = dst + before(i) /\ ds[i].size = size(i)
  BY <1>3
<1>10. Covers(ds, dst, n)
  <2>1. \A i \in 1 .. k : ds[i].addr >= dst /\ ds[i].addr + ds[i].size <= dst + n
    BY <1>9, <1>2, <1>0
  <2>2. \A i \in 1 .. k - 1 : ds[i + 1].addr = ds[i].addr + ds[i].size
    <3> SUFFICES ASSUME NEW i \in 1 .. k - 1 PROVE ds[i + 1].addr = ds[i].addr + ds[i].size
      OBVIOUS
    <3>1. i \in 1 .. k /\ i + 1 \in 1 .. k /\ i < k
      BY <1>1
    <3> QED BY <3>1, <1>9, <1>2, <1>4, <1>0
  <2>3. k \in 1 .. k /\ ds[k].addr + ds[k].size = dst + n
    BY <1>9, <1>2, <1>6, <1>0
  <2> QED BY <2>1, <2>2, <2>3, <1>8 DEF Covers
<1>11. ds[1].addr = dst
  BY <1>9, <1>5, <1>6
<1> QED BY <1>2, <1>6, <1>8, <1>9, <1>10, <1>11 DEF ds

(* flush_cache_auto_align() drops every line that the buffer touches. *)
LEMMA FlushCovers ==
  ASSUME NEW buf \in Nat, NEW len \in Nat
  PROVE  /\ flush_cache_auto_align(buf, len) \subseteq dirty
         /\ \A a \in buf .. buf + len - 1 : Line(a) \notin flush_cache_auto_align(buf, len)
<1> DEFINE start == LineLen * (buf \div LineLen)
           lines == (len + 2 * LineLen) \div LineLen
           stop  == start + LineLen * lines
<1>1. LineLen \in Nat \ {0}
  BY SunxiAssumption
<1>2. start <= buf /\ buf < start + LineLen /\ start \in Int
  BY <1>1, Division
<1>3. LineLen * lines <= len + 2 * LineLen /\ len + 2 * LineLen < LineLen * lines + LineLen
      /\ LineLen * lines \in Int
  BY <1>1, Division
<1>4. flush_cache_auto_align(buf, len) = dirty \ {Line(a) : a \in start .. stop - 1}
  BY Zenon DEF flush_cache_auto_align, flush_dcache_range, Line
<1>5. \A a \in buf .. buf + len - 1 : a \in start .. stop - 1
  <2> DEFINE w == LineLen * lines
  <2>1. w \in Int /\ len + LineLen < w
    BY <1>1, <1>3
  <2>2. stop = start + w
    OBVIOUS
  <2> HIDE DEF start, w, stop
  <2> QED BY <2>1, <2>2, <1>1, <1>2
<1> QED BY <1>4, <1>5
-----------------------------------------------------------------------------
(* The length of a command, and where its buffer lies. *)
LEMMA CurBounds ==
  ASSUME Types, Rest
  PROVE  /\ Cur \in 0 .. BMax /\ Cur <= at.todo
         /\ Busy => Cur >= 1 /\ at.dst + Cur <= MemSize /\ at.start + Cur <= Lba
                    /\ at.dst >= req.dest /\ at.dst - req.dest = at.start - First
         /\ Sectors(req) \in Nat /\ First \in Nat
<1>0. BMax \in Nat \ {0} /\ Lba \in Nat \ {0} /\ BlockLen \in Nat \ {0} /\ MemSize \in Nat
  BY SunxiAssumption
<1>1. at.start \in Nat /\ at.todo \in Nat /\ at.dst \in Nat /\ req.dest \in Nat /\ req.off \in Nat
      /\ req.len \in Nat
  BY DEF Types
<1>2. req.len + BlockLen - 1 \in Nat
  BY <1>0, <1>1
<1>3. Sectors(req) \in Nat /\ First \in Nat
  BY <1>0, <1>1, <1>2, Division DEF Sectors, First
<1>4. Cur \in 0 .. BMax /\ Cur <= at.todo /\ (at.todo > 0 => Cur >= 1)
  BY <1>0, <1>1 DEF Cur
<1> QED BY <1>0, <1>1, <1>3, <1>4 DEF Rest

(* The faults are counted up to their bound. *)
LEMMA FaultCount ==
  ASSUME Types, faults' = faults \/ Lossy
  PROVE  /\ faults' \in 0 .. MaxFaults
         /\ faults' = 0 => faults = 0 /\ ~Lossy
<1>1. faults \in 0 .. MaxFaults /\ MaxFaults \in Nat
  BY ConstantTypes DEF Types
<1>2. \A x \in 0 .. MaxFaults : x < MaxFaults => x + 1 \in 0 .. MaxFaults /\ x + 1 # 0
  BY <1>1
<1> QED BY <1>1, <1>2, Zenon DEF Lossy

(* Nothing changed but the driver's place, the error and the faults: the   *)
(* waits of mmc_rint_wait().                                               *)
LEMMA RintWaitInv ==
  ASSUME ReadInv, mmc_rint_wait
  PROVE  ReadInv'
<1> USE DEF ReadInv
<1>0. UNCHANGED <<req, at, tries, moved, ok, reads, ctl, dma, card, mem, dirty>>
  BY DEF mmc_rint_wait
<1>1. /\ Cur' = Cur /\ usedma' = usedma /\ Moved' = Moved /\ Sectors(req)' = Sectors(req) /\ First' = First
      /\ \A a : Wanted(a)' = Wanted(a)
  BY <1>0 DEF Cur, usedma, Moved, Sectors, First, Wanted
<1>2. Flight /\ Flight' /\ Busy /\ Busy' /\ pc' \in {"data", "out"} /\ pc \in {"cmd", "data"}
  BY DEF mmc_rint_wait, Flight, Busy
<1>3. /\ faults' \in 0 .. MaxFaults /\ error' \in BOOLEAN
      /\ faults' = 0 => faults = 0 /\ error' = error /\ "error" \notin ctl.rint
  <2>1. error \in BOOLEAN
    BY DEF Types
  <2>2. faults' = faults \/ Lossy
    BY DEF mmc_rint_wait
  <2>3. error' \in BOOLEAN
    BY <2>1 DEF mmc_rint_wait
  <2>4. faults' \in 0 .. MaxFaults /\ (faults' = 0 => faults = 0 /\ ~Lossy)
    BY <2>2, FaultCount
  <2>5. faults' = 0 => error' = error /\ "error" \notin ctl.rint
    BY <2>1, <2>4 DEF mmc_rint_wait, Faultless
  <2> QED BY <2>3, <2>4, <2>5
<1>4. Types'
  BY <1>0, <1>2, <1>3 DEF Types
<1>5. AtRest' /\ Rest'
  BY <1>0, <1>1, <1>2 DEF AtRest, Rest
<1>6. pc' = "out" /\ ~error' =>
        /\ pc = "data" /\ ctl.left = 0
        /\ Cur > 1 => "auto" \in ctl.rint
        /\ DmaDone
  <2>1. ASSUME pc' = "out", ~error'
        PROVE  /\ pc = "data" /\ DmaDone
               /\ Cur > 1 => "auto" \in ctl.rint
               /\ "auto" \in ctl.rint \/ "over" \in ctl.rint
    BY <2>1, <1>2 DEF mmc_rint_wait
  <2> QED BY <2>1, <1>2 DEF Stream
<1>7. Stream'
  <2>1. pc' = "out" /\ ~error' => Moved = Cur /\ ctl.left = 0
    BY <1>6, <1>2 DEF Stream, DmaDone, Moved
  <2>2. ~usedma /\ pc' \in {"cmd", "data"} => moved = Cur
    BY <1>2 DEF Stream, mmc_rint_wait
  <2> QED BY <1>0, <1>1, <1>2, <2>1, <2>2 DEF Stream
<1>8. Upto' = Upto
  BY <1>0, <1>1, <1>2 DEF Upto
<1>9. Held' /\ Clean'
  BY <1>0, <1>1, <1>2, <1>8 DEF Held, Clean, Busy
<1>10. Faultless'
  <2>1. Cur \in Int /\ Cur >= 1
    BY <1>2, CurBounds, SunxiAssumption
  <2> QED BY <1>0, <1>1, <1>2, <1>3, <1>6, <2>1 DEF Faultless
<1> QED BY <1>4, <1>5, <1>7, <1>9, <1>10

(* What a step of the card or the controller, which leaves the driver, the *)
(* engine and memory alone, has to keep.                                   *)
LEMMA WireSteps ==
  ASSUME ReadInv, UNCHANGED <<pc, driver, dma, mem, dirty>>
  PROVE  /\ Cur' = Cur /\ usedma' = usedma /\ Moved' = Moved /\ First' = First
         /\ Sectors(req)' = Sectors(req)
         /\ Flight' = Flight /\ Busy' = Busy
         /\ Rest' /\ Held' /\ Clean'
<1>1. /\ Cur' = Cur /\ usedma' = usedma /\ Moved' = Moved /\ Sectors(req)' = Sectors(req) /\ First' = First
      /\ \A a : Wanted(a)' = Wanted(a)
  BY DEF Cur, usedma, Moved, Sectors, First, Wanted, driver
<1>2. Flight' = Flight /\ Busy' = Busy
  BY DEF Flight, Busy
<1>3. Upto' = Upto
  BY <1>1, <1>2 DEF Upto, driver
<1>4. Rest' /\ Held' /\ Clean'
  BY <1>1, <1>2, <1>3 DEF ReadInv, Rest, Held, Clean, driver
<1> QED BY <1>1, <1>2, <1>4

LEMMA CardSendsInv ==
  ASSUME ReadInv, CardSends
  PROVE  ReadInv'
<1> USE DEF ReadInv
<1>0. UNCHANGED <<pc, driver, dma, mem, dirty>>
  BY DEF CardSends
<1>1. /\ Cur' = Cur /\ usedma' = usedma /\ Moved' = Moved /\ First' = First
      /\ Sectors(req)' = Sectors(req) /\ Flight' = Flight /\ Busy' = Busy
      /\ Rest' /\ Held' /\ Clean'
  BY <1>0, WireSteps
<1>2. ctl.left > 0 /\ Len(ctl.fifo) < FifoMax /\ Flight /\ Busy
  BY DEF CardSends, AtRest, Flight, Busy
<1> DEFINE s == at.start
           f == ctl.fifo
           n == Len(ctl.fifo)
           w == ctl.left
           p == card.pos
<1>3. /\ Cur \in Nat /\ s \in Nat /\ s + Cur <= Lba
      /\ Lba \in Nat /\ FifoMax \in Nat /\ BMax \in Nat
  <2>1. Cur \in 0 .. BMax /\ s + Cur <= Lba
    BY <1>2, CurBounds
  <2> QED BY <2>1, ConstantTypes DEF Types
<1>4. /\ f \in Seq(0 .. Lba) /\ n \in Nat /\ w \in 0 .. BMax
      /\ Moved \in 0 .. Cur /\ p = s + Moved + n
      /\ Moved + n + w <= Cur
      /\ \A i \in 1 .. n : f[i] = s + Moved + i - 1
  BY <1>2 DEF Stream, Types
<1>5. p \in 0 .. Lba
  <2> HIDE DEF s, n, w, p
  <2>1. w > 0
    BY <1>2 DEF w
  <2> QED BY <2>1, <1>3, <1>4
<1>6. /\ card' \in [st : {"tran", "data"}, pos : Nat, ddr : BOOLEAN, multi : BOOLEAN]
      /\ card'.pos = card.pos + 1 /\ card'.ddr = card.ddr /\ card'.multi = card.multi
      /\ ~card.multi => card'.st = "tran"
  <2>1. p + 1 \in Nat
    BY <1>3, <1>5
  <2>2. card' = [card EXCEPT !.pos = @ + 1, !.st = IF card.multi THEN @ ELSE "tran"]
    BY DEF CardSends
  <2> QED BY <2>1, <2>2 DEF Types
<1>7. CASE ctl' = [ctl EXCEPT !.left = @ - 1, !.fifo = Append(@, card.pos)] /\ UNCHANGED faults
           /\ card.ddr = ctl.ddr
  <2>1. /\ ctl'.ddr = ctl.ddr /\ ctl'.rint = ctl.rint /\ ctl'.auto = ctl.auto
        /\ ctl'.left = ctl.left - 1 /\ ctl'.fifo = Append(ctl.fifo, card.pos)
    BY <1>7 DEF Types
  <2>2. /\ ctl'.fifo \in Seq(0 .. Lba) /\ Len(ctl'.fifo) = Len(ctl.fifo) + 1
        /\ \A i \in 1 .. Len(ctl'.fifo) : ctl'.fifo[i] = at.start + Moved + i - 1
    BY <2>1, <1>4, <1>5
  <2>3. ctl' \in [ddr : BOOLEAN, rint : SUBSET {"cmd", "auto", "over", "error"}, left : 0 .. BMax,
                  auto : BOOLEAN, fifo : Seq(0 .. Lba)]
    <3>1. ctl' = [ddr |-> ctl.ddr, rint |-> ctl.rint, left |-> ctl.left - 1, auto |-> ctl.auto,
                  fifo |-> Append(ctl.fifo, card.pos)]
      BY <1>7 DEF Types
    <3>2. ctl.left - 1 \in 0 .. BMax
      BY <1>2, <1>3, <1>4
    <3>3. ctl.ddr \in BOOLEAN /\ ctl.auto \in BOOLEAN
          /\ ctl.rint \in SUBSET {"cmd", "auto", "over", "error"}
      BY DEF Types
    <3> QED BY <3>1, <3>2, <3>3, <2>1, <2>2
  <2>4. Types'
    <3>1. Len(ctl'.fifo) <= FifoMax
      BY <1>2, <1>3, <1>4, <2>2
    <3> QED BY <1>0, <1>6, <1>7, <2>3, <3>1 DEF Types, driver
  <2>5. Stream'
    <3>1. Moved + Len(ctl'.fifo) + ctl'.left = Moved + n + w
      <4>1. Moved + (n + 1) + (w - 1) = Moved + n + w
        <5> HIDE DEF n, w
        <5> QED BY <1>3, <1>4
      <4> QED BY <4>1, <2>1, <2>2, Zenon
    <3>2. card'.pos = at.start + Moved + Len(ctl'.fifo)
      <4>1. p + 1 = s + Moved + (n + 1)
        <5> HIDE DEF n, s, p
        <5> QED BY <1>3, <1>4
      <4> QED BY <4>1, <2>2, <1>6, Zenon
    <3>3. "auto" \notin ctl.rint /\ "over" \notin ctl.rint /\ ~(pc = "out" /\ ~error)
      BY <1>2, <1>4 DEF Stream
    <3> QED BY <1>0, <1>1, <1>2, <2>1, <2>2, <3>1, <3>2, <3>3 DEF Stream, driver
  <2>6. Faultless'
    <3>1. "auto" \notin ctl.rint /\ ~(pc = "out" /\ ~error)
      BY <1>2, <1>4 DEF Stream
    <3>2. Cur = 1 => ~(Cur > 1)
      BY <1>3
    <3> QED BY <1>0, <1>1, <1>2, <1>6, <1>7, <2>1, <3>1, <3>2 DEF Faultless, driver, Flight
  <2> QED BY <1>1, <1>2, <2>4, <2>5, <2>6 DEF AtRest
<1>8. CASE /\ ctl' = [ctl EXCEPT !.left = 0, !.auto = FALSE, !.rint = @ \cup {"error"}]
           /\ IF card.ddr = ctl.ddr THEN Lossy ELSE UNCHANGED faults
  <2>1. /\ ctl'.ddr = ctl.ddr /\ ctl'.rint = ctl.rint \cup {"error"} /\ ctl'.auto = FALSE
        /\ ctl'.left = 0 /\ ctl'.fifo = ctl.fifo
    BY <1>8 DEF Types
  <2>2. ctl' \in [ddr : BOOLEAN, rint : SUBSET {"cmd", "auto", "over", "error"}, left : 0 .. BMax,
                  auto : BOOLEAN, fifo : Seq(0 .. Lba)]
    <3>1. 0 \in 0 .. BMax
      BY <1>3
    <3> QED BY <1>8, <3>1 DEF Types
  <2>3. Types'
    <3>1. faults' \in 0 .. MaxFaults
      BY <1>8, FaultCount
    <3> QED BY <1>0, <1>6, <2>1, <2>2, <3>1 DEF Types, driver
  <2>4. Stream'
    BY <1>0, <1>1, <1>2, <1>3, <1>4, <2>1 DEF Stream, driver
  <2>5. Faultless'
    BY <1>8, FaultCount DEF Faultless
  <2> QED BY <1>1, <1>2, <2>3, <2>4, <2>5 DEF AtRest
<1> QED BY <1>7, <1>8 DEF CardSends

LEMMA CardGivesUpInv ==
  ASSUME ReadInv, CardGivesUp
  PROVE  ReadInv'
<1> USE DEF ReadInv
<1>0. UNCHANGED <<pc, driver, dma, mem, dirty>> /\ UNCHANGED <<ctl, faults>>
  BY DEF CardGivesUp
<1>1. /\ Cur' = Cur /\ usedma' = usedma /\ Moved' = Moved /\ First' = First
      /\ Sectors(req)' = Sectors(req) /\ Flight' = Flight /\ Busy' = Busy
      /\ Rest' /\ Held' /\ Clean'
  BY <1>0, WireSteps
<1>2. /\ card' \in [st : {"tran", "data"}, pos : Nat, ddr : BOOLEAN, multi : BOOLEAN]
      /\ card'.st = "tran" /\ card'.pos = card.pos /\ card'.ddr = card.ddr /\ card'.multi = card.multi
  BY DEF CardGivesUp, Types
<1>3. Types'
  BY <1>0, <1>2 DEF Types, driver
<1>4. AtRest'
  BY <1>0, <1>1 DEF AtRest
<1>5. Stream'
  BY <1>0, <1>1, <1>2 DEF Stream, driver
<1>6. Faultless'
  BY <1>0, <1>1, <1>2 DEF Faultless, driver
<1> QED BY <1>1, <1>3, <1>4, <1>5, <1>6

LEMMA DataOverInv ==
  ASSUME ReadInv, DataOver
  PROVE  ReadInv'
<1> USE DEF ReadInv
<1>0. UNCHANGED <<pc, driver, dma, mem, dirty>> /\ UNCHANGED faults
  BY DEF DataOver
<1>1. /\ Cur' = Cur /\ usedma' = usedma /\ Moved' = Moved /\ First' = First
      /\ Sectors(req)' = Sectors(req) /\ Flight' = Flight /\ Busy' = Busy
      /\ Rest' /\ Held' /\ Clean'
  BY <1>0, WireSteps
<1>2. Flight /\ Busy /\ ctl.left = 0 /\ "cmd" \in ctl.rint /\ "error" \notin ctl.rint
  BY DEF DataOver, AtRest, Flight, Busy
<1>3. /\ ctl' \in [ddr : BOOLEAN, rint : SUBSET {"cmd", "auto", "over", "error"}, left : 0 .. BMax,
                   auto : BOOLEAN, fifo : Seq(0 .. Lba)]
      /\ ctl'.ddr = ctl.ddr /\ ctl'.left = ctl.left /\ ctl'.auto = ctl.auto /\ ctl'.fifo = ctl.fifo
      /\ ctl'.rint = ctl.rint \cup {IF ctl.auto THEN "auto" ELSE "over"}
  BY DEF DataOver, Types
<1>4. /\ card' \in [st : {"tran", "data"}, pos : Nat, ddr : BOOLEAN, multi : BOOLEAN]
      /\ card'.st = (IF ctl.auto THEN "tran" ELSE card.st)
      /\ card'.pos = card.pos /\ card'.ddr = card.ddr /\ card'.multi = card.multi
  BY DEF DataOver, Types
<1>5. Types'
  BY <1>0, <1>3, <1>4 DEF Types, driver
<1>6. AtRest'
  BY <1>1, <1>2 DEF AtRest
<1>7. Stream'
  <2>1. "error" \notin ctl'.rint /\ "cmd" \in ctl'.rint
    BY <1>2, <1>3
  <2> QED BY <1>0, <1>1, <1>2, <1>3, <1>4, <2>1 DEF Stream, driver
<1>8. Faultless'
  BY <1>0, <1>1, <1>2, <1>3, <1>4 DEF Faultless, driver
<1> QED BY <1>1, <1>5, <1>6, <1>7, <1>8

(* A line that is written back late finds nothing to destroy. *)
LEMMA EvictInv ==
  ASSUME ReadInv, Evict
  PROVE  ReadInv' /\ mem' = mem
<1> USE DEF ReadInv
<1>0. UNCHANGED <<pc, driver, ctl, dma, card, faults>> /\ dirty' = {}
  BY DEF Evict
<1>1. mem' = mem
  <2>1. mem \in [Addresses -> Old .. Lba]
    BY DEF Types
  <2>2. \A a \in Addresses : (IF Line(a) \in dirty THEN Old ELSE mem[a]) = mem[a]
    BY DEF Clean
  <2>3. mem' = [a \in Addresses |-> mem[a]]
    BY <2>2, Zenon DEF Evict
  <2> QED BY <2>1, <2>3, Zenon
<1>2. /\ Cur' = Cur /\ usedma' = usedma /\ Moved' = Moved /\ Sectors(req)' = Sectors(req) /\ First' = First
      /\ \A a : Wanted(a)' = Wanted(a)
  BY <1>0 DEF Cur, usedma, Moved, Sectors, First, Wanted, driver
<1>3. Flight' = Flight /\ Busy' = Busy
  BY <1>0 DEF Flight, Busy
<1>4. Upto' = Upto
  BY <1>0, <1>2, <1>3 DEF Upto, driver
<1>5. Types'
  <2>1. dirty' \subseteq {Line(a) : a \in Addresses}
    BY <1>0
  <2> QED BY <1>0, <1>1, <2>1 DEF Types, driver
<1>6. AtRest' /\ Rest' /\ Stream'
  BY <1>0, <1>2, <1>3 DEF AtRest, Rest, Stream, driver
<1>7. Held'
  BY <1>0, <1>1, <1>2, <1>3, <1>4 DEF Held, driver
<1>8. Clean'
  BY <1>0, <1>1 DEF Clean
<1>9. Faultless'
  BY <1>0, <1>2, <1>3 DEF Faultless, driver
<1> QED BY <1>1, <1>5, <1>6, <1>7, <1>8, <1>9

(* The sector at the head of the FIFO and the place it is to go to. *)
LEMMA NextSector ==
  ASSUME ReadInv, Flight, Moved < Cur, ctl.fifo # <<>>
  PROVE  /\ Moved + 1 \in 0 .. Cur /\ Moved # Cur
         /\ Head(ctl.fifo) = at.start + Moved
         /\ Tail(ctl.fifo) \in Seq(0 .. Lba) /\ Len(Tail(ctl.fifo)) <= FifoMax
         /\ \A i \in 1 .. Len(Tail(ctl.fifo)) : Tail(ctl.fifo)[i] = at.start + (Moved + 1) + i - 1
         /\ (Moved + 1) + Len(Tail(ctl.fifo)) + ctl.left = Moved + Len(ctl.fifo) + ctl.left
         /\ at.start + (Moved + 1) + Len(Tail(ctl.fifo)) = at.start + Moved + Len(ctl.fifo)
         /\ at.dst + Moved \in Addresses /\ Wanted(at.dst + Moved)
         /\ at.dst + Moved \in at.dst .. at.dst + Cur - 1
         /\ at.start + Moved \in Old .. Lba
         /\ at.start + Moved = First + (at.dst + Moved) - req.dest
         /\ \A a \in Addresses : a < at.dst + (Moved + 1) => a = at.dst + Moved \/ a < at.dst + Moved
<1> USE DEF ReadInv
<1> DEFINE s == at.start
           d == at.dst
           f == ctl.fifo
           n == Len(ctl.fifo)
           w == ctl.left
           m == Moved
           c == Cur
           q == Sectors(req)
           z == req.dest
           t == at.todo
<1>1. Busy
  BY DEF Flight, Busy
<1>2. /\ c \in Nat /\ c >= 1 /\ s + c <= Lba /\ d + c <= MemSize /\ d >= z
      /\ d - z = s - First /\ First \in Nat /\ q \in Nat
      /\ c <= t /\ d + t = z + q
  <2>1. c \in 0 .. BMax /\ c >= 1 /\ BMax \in Nat
    BY <1>1, CurBounds, ConstantTypes
  <2> QED BY <1>1, <2>1, CurBounds DEF Rest
<1>3. s \in Nat /\ d \in Nat /\ z \in Nat /\ t \in Nat /\ Lba \in Nat /\ MemSize \in Nat /\ FifoMax \in Nat
  BY ConstantTypes DEF Types
<1>4. f \in Seq(0 .. Lba) /\ f # <<>> /\ n <= FifoMax /\ w \in 0 .. BMax
  BY DEF Types
<1>5. m \in 0 .. c /\ m + n + w <= c /\ m < c /\ \A i \in 1 .. n : f[i] = s + m + i - 1
  BY DEF Stream
<1>6. n \in Nat /\ n > 0 /\ Head(f) = f[1]
  BY <1>4
<1>7. /\ Tail(f) \in Seq(0 .. Lba) /\ Len(Tail(f)) = n - 1
      /\ \A i \in 1 .. Len(Tail(f)) : Tail(f)[i] = f[i + 1]
  BY <1>4, HeadTailProperties
<1> HIDE DEF s, d, f, n, w, m, c, q, z, t
<1>8. m \in Nat /\ w \in Nat
  BY <1>2, <1>4, <1>5, ConstantTypes
<1>9. m + 1 \in 0 .. c /\ m # c
  BY <1>2, <1>5, <1>8
<1>10. Head(f) = s + m
  <2>1. 1 \in 1 .. n /\ s + m + 1 - 1 = s + m
    BY <1>3, <1>6, <1>8
  <2> QED BY <2>1, <1>5, <1>6, Zenon
<1>11. \A i \in 1 .. Len(Tail(f)) : Tail(f)[i] = s + (m + 1) + i - 1
  <2>1. \A i \in 1 .. n - 1 : i + 1 \in 1 .. n /\ s + m + (i + 1) - 1 = s + (m + 1) + i - 1
    BY <1>3, <1>6, <1>8
  <2> QED BY <2>1, <1>5, <1>7, Zenon
<1>12. /\ Len(Tail(f)) <= FifoMax
       /\ (m + 1) + Len(Tail(f)) + w = m + n + w
       /\ s + (m + 1) + Len(Tail(f)) = s + m + n
  <2>1. n - 1 <= FifoMax /\ (m + 1) + (n - 1) + w = m + n + w /\ s + (m + 1) + (n - 1) = s + m + n
    BY <1>3, <1>4, <1>6, <1>8
  <2> QED BY <2>1, <1>7, Zenon
<1>13. d + m \in 0 .. MemSize - 1 /\ d + m \in d .. d + c - 1
  BY <1>2, <1>3, <1>5, <1>8
<1>14. d + m \in z .. z + q - 1
  BY <1>2, <1>3, <1>5, <1>8
<1>15. s + m \in -1 .. Lba /\ s + m = First + (d + m) - z
  BY <1>2, <1>3, <1>5, <1>8
<1>16. \A a \in 0 .. MemSize - 1 : a < d + (m + 1) => a = d + m \/ a < d + m
  BY <1>3, <1>8
<1> QED BY <1>7, <1>9, <1>10, <1>11, <1>12, <1>13, <1>14, <1>15, <1>16, Zenon
        DEF s, d, f, n, w, m, c, q, z, t, Wanted, Addresses, Old

(* A sector goes from the FIFO to its place in memory, by whatever way. *)
LEMMA OneMoved ==
  ASSUME ReadInv, Flight, Moved < Cur, ctl.fifo # <<>>,
         UNCHANGED <<pc, req, at, error, ok, card, dirty, faults>>,
         mem' = [mem EXCEPT ![at.dst + Moved] = Head(ctl.fifo)],
         ctl' = [ctl EXCEPT !.fifo = Tail(@)],
         Moved' = Moved + 1
  PROVE  /\ mem' \in [Addresses -> Old .. Lba]
         /\ ctl' \in [ddr : BOOLEAN, rint : SUBSET {"cmd", "auto", "over", "error"}, left : 0 .. BMax,
                      auto : BOOLEAN, fifo : Seq(0 .. Lba)]
         /\ Len(ctl'.fifo) <= FifoMax
         /\ AtRest' /\ Rest' /\ Held' /\ Clean' /\ Faultless'
         /\ (/\ dma'.on = usedma
             /\ usedma => Covers(dma'.descs, at.dst, Cur) /\ (dma'.irq => dma'.descs = <<>>)
             /\ ~usedma /\ pc \in {"cmd", "data"} => moved' = Cur) => Stream'
<1> USE DEF ReadInv
<1> DEFINE place  == at.dst + Moved
           sector == at.start + Moved
<1>1. /\ Cur' = Cur /\ usedma' = usedma /\ Sectors(req)' = Sectors(req) /\ First' = First
      /\ Flight' /\ Busy /\ Busy' /\ pc' # "done"
      /\ \A a : Wanted(a)' = Wanted(a)
  BY DEF Cur, usedma, Sectors, First, Wanted, Flight, Busy
<1>2. /\ Head(ctl.fifo) = sector
      /\ place \in Addresses /\ Wanted(place) /\ sector \in Old .. Lba /\ sector = First + place - req.dest
      /\ place \in at.dst .. at.dst + Cur - 1
  BY NextSector
<1>3. /\ ctl'.ddr = ctl.ddr /\ ctl'.rint = ctl.rint /\ ctl'.auto = ctl.auto /\ ctl'.left = ctl.left
      /\ ctl'.fifo = Tail(ctl.fifo)
      /\ ctl' \in [ddr : BOOLEAN, rint : SUBSET {"cmd", "auto", "over", "error"}, left : 0 .. BMax,
                   auto : BOOLEAN, fifo : Seq(0 .. Lba)]
      /\ Len(ctl'.fifo) <= FifoMax
  <2>1. Tail(ctl.fifo) \in Seq(0 .. Lba) /\ Len(Tail(ctl.fifo)) <= FifoMax
    BY NextSector
  <2> QED BY <2>1 DEF Types
<1>4. /\ mem' \in [Addresses -> Old .. Lba] /\ mem'[place] = sector
      /\ \A a \in Addresses : a # place => mem'[a] = mem[a]
  <2>1. mem \in [Addresses -> Old .. Lba] /\ mem' = [mem EXCEPT ![place] = sector]
    BY <1>2 DEF Types
  <2> HIDE DEF place, sector
  <2> QED BY <2>1, <1>2
<1>5. Rest' /\ AtRest'
  BY <1>1 DEF Rest, AtRest
<1>6. Held'
  <2>1. \A a \in Addresses : mem'[a] # Old => Wanted(a)
    BY <1>2, <1>4, Zenon DEF Held
  <2>2. Upto = place /\ Upto' = at.dst + (Moved + 1)
    BY <1>1 DEF Upto
  <2>3. \A a \in Addresses : a < Upto' => a = place \/ a < Upto
    BY <2>2, NextSector, Zenon
  <2>4. \A a \in Addresses : req.dest <= a /\ a < Upto => mem[a] = First + a - req.dest
    BY <1>1 DEF Held
  <2>5. \A a \in Addresses : req.dest <= a /\ a < Upto' => mem'[a] = First + a - req.dest
    BY <2>3, <2>4, <1>2, <1>4, Zenon
  <2> QED BY <1>1, <2>1, <2>5 DEF Held
<1>7. Clean'
  <2>1. Line(place) \notin dirty
    BY <1>2 DEF Clean
  <2>2. \A a \in Addresses : Line(a) \in dirty => mem'[a] = Old
    BY <2>1, <1>4, Zenon DEF Clean
  <2> QED BY <2>2, <1>1 DEF Clean
<1>8. Faultless'
  BY <1>1, <1>3 DEF Faultless
<1>9. ASSUME dma'.on = usedma, usedma => Covers(dma'.descs, at.dst, Cur) /\ (dma'.irq => dma'.descs = <<>>),
             ~usedma /\ pc \in {"cmd", "data"} => moved' = Cur
      PROVE  Stream'
  <2>1. /\ Moved' \in 0 .. Cur
        /\ \A i \in 1 .. Len(ctl'.fifo) : ctl'.fifo[i] = at.start + Moved' + i - 1
        /\ Moved' + Len(ctl'.fifo) + ctl'.left = Moved + Len(ctl.fifo) + ctl.left
        /\ at.start + Moved' + Len(ctl'.fifo) = at.start + Moved + Len(ctl.fifo)
    BY <1>3, NextSector, Zenon
  <2>2. ~(pc = "out" /\ ~error)
    BY NextSector DEF Stream
  <2>3. pc = "pio" => ~usedma
    BY DEF Stream
  <2> QED BY <1>1, <1>3, <1>9, <2>1, <2>2, <2>3 DEF Stream
<1> QED BY <1>3, <1>4, <1>5, <1>6, <1>7, <1>8, <1>9

(* The descriptors after one more sector. *)
LEMMA BufferEnds ==
  ASSUME NEW ds \in Seq(Desc), ds # <<>>, NEW dst \in Nat, NEW n \in Nat, Covers(ds, dst, n),
         \A i \in 1 .. Len(ds) : ds[i].size \in 1 .. BufMax,
         ds[1].size = 1
  PROVE  /\ Tail(ds) \in Seq(Desc) /\ Len(Tail(ds)) = Len(ds) - 1 /\ Covers(Tail(ds), dst, n)
         /\ \A i \in 1 .. Len(Tail(ds)) : Tail(ds)[i].size \in 1 .. BufMax
         /\ Tail(ds) # <<>> => Tail(ds)[1].addr = ds[1].addr + 1
         /\ Tail(ds) = <<>> => ds[1].addr + 1 = dst + n
<1> DEFINE e == Tail(ds)
           k == Len(ds)
<1>1. k \in Nat /\ k > 0 /\ e \in Seq(Desc) /\ Len(e) = k - 1 /\ \A i \in 1 .. k - 1 : e[i] = ds[i + 1]
  BY HeadTailProperties
<1>2. e = <<>> <=> k = 1
  BY <1>1
<1> HIDE DEF e, k
<1>3. \A i \in 1 .. k - 1 : i + 1 \in 1 .. k
  BY <1>1
<1>4. \A i \in 1 .. k - 2 : i \in 1 .. k - 1 /\ i + 1 \in 1 .. k - 1 /\ (k - 1) - 1 = k - 2
  BY <1>1
<1>5. \A i \in 1 .. k - 1 : e[i].addr >= dst /\ e[i].addr + e[i].size <= dst + n /\ e[i].size \in 1 .. BufMax
  BY <1>1, <1>3 DEF Covers, k
<1>6. \A i \in 1 .. k - 2 : e[i + 1].addr = e[i].addr + e[i].size
  <2> SUFFICES ASSUME NEW i \in 1 .. k - 2 PROVE e[i + 1].addr = e[i].addr + e[i].size
    OBVIOUS
  <2>1. e[i] = ds[i + 1] /\ e[i + 1] = ds[i + 1 + 1] /\ i + 1 \in 1 .. k - 1
    BY <1>1, <1>4
  <2>2. ds[i + 1 + 1].addr = ds[i + 1].addr + ds[i + 1].size
    BY <2>1 DEF Covers, k
  <2> QED BY <2>1, <2>2
<1>7. k # 1 => e[k - 1].addr + e[k - 1].size = dst + n
  <2> SUFFICES ASSUME k # 1 PROVE e[k - 1].addr + e[k - 1].size = dst + n
    OBVIOUS
  <2>1. k - 1 \in 1 .. k - 1 /\ k - 1 + 1 = k
    BY <1>1
  <2> QED BY <2>1, <1>1 DEF Covers, k
<1>8. Covers(e, dst, n)
  <2>1. (k - 1) - 1 = k - 2
    BY <1>1
  <2> QED BY <2>1, <1>1, <1>2, <1>5, <1>6, <1>7 DEF Covers
<1>9. k # 1 => e[1].addr = ds[1].addr + 1
  <2> SUFFICES ASSUME k # 1 PROVE e[1].addr = ds[1].addr + 1
    OBVIOUS
  <2>1. 1 \in 1 .. k - 1 /\ e[1] = ds[1 + 1]
    BY <1>1
  <2> QED BY <2>1 DEF Covers, k
<1>10. k = 1 => ds[1].addr + 1 = dst + n
  BY DEF Covers, k
<1> QED BY <1>1, <1>2, <1>5, <1>8, <1>9, <1>10 DEF e, k

LEMMA BufferShrinks ==
  ASSUME NEW ds \in Seq(Desc), ds # <<>>, NEW dst \in Nat, NEW n \in Nat, Covers(ds, dst, n),
         \A i \in 1 .. Len(ds) : ds[i].size \in 1 .. BufMax,
         ds[1].size # 1
  PROVE  LET e == [ds EXCEPT ![1] = [addr |-> ds[1].addr + 1, size |-> ds[1].size - 1]]
         IN  /\ e \in Seq(Desc) /\ Len(e) = Len(ds) /\ e # <<>> /\ Covers(e, dst, n)
             /\ \A i \in 1 .. Len(e) : e[i].size \in 1 .. BufMax
             /\ e[1].addr = ds[1].addr + 1
<1> DEFINE new == [addr |-> ds[1].addr + 1, size |-> ds[1].size - 1]
           e == [ds EXCEPT ![1] = new]
           k == Len(ds)
<1>1. k \in Nat /\ k > 0 /\ BufMax \in Nat /\ 1 \in 1 .. k /\ ds[1] \in Desc
  BY ConstantTypes
<1>2. ds[1].addr \in Nat /\ ds[1].size \in Nat /\ ds[1].size \in 1 .. BufMax
  BY <1>1 DEF Desc
<1>3. new \in Desc /\ new.addr = ds[1].addr + 1 /\ new.size = ds[1].size - 1 /\ new.size \in 1 .. BufMax
      /\ new.addr + new.size = ds[1].addr + ds[1].size
  BY <1>1, <1>2 DEF Desc
<1> HIDE DEF new
<1>4. /\ e \in Seq(Desc) /\ Len(e) = k /\ e[1] = new
      /\ \A i \in 1 .. k : i # 1 => e[i] = ds[i]
  BY <1>1, <1>3
<1> HIDE DEF e
<1>5. e # <<>>
  BY <1>1, <1>4
<1>6. \A i \in 1 .. k : e[i].addr >= dst /\ e[i].addr + e[i].size <= dst + n /\ e[i].size \in 1 .. BufMax
  <2> SUFFICES ASSUME NEW i \in 1 .. k
               PROVE  e[i].addr >= dst /\ e[i].addr + e[i].size <= dst + n /\ e[i].size \in 1 .. BufMax
    OBVIOUS
  <2>1. CASE i = 1
    <3>1. ds[1].addr >= dst /\ ds[1].addr + ds[1].size <= dst + n
      BY <1>1 DEF Covers
    <3>2. ds[1].addr + 1 >= dst
      BY <3>1, <1>2
    <3> QED BY <2>1, <3>1, <3>2, <1>3, <1>4
  <2>2. CASE i # 1
    BY <2>2, <1>4 DEF Covers
  <2> QED BY <2>1, <2>2
<1>7. \A i \in 1 .. k - 1 : e[i + 1].addr = e[i].addr + e[i].size
  <2> SUFFICES ASSUME NEW i \in 1 .. k - 1 PROVE e[i + 1].addr = e[i].addr + e[i].size
    OBVIOUS
  <2>1. i \in 1 .. k /\ i + 1 \in 1 .. k /\ i + 1 # 1
    BY <1>1
  <2>2. ds[i + 1].addr = ds[i].addr + ds[i].size
    BY DEF Covers
  <2> QED BY <2>1, <2>2, <1>3, <1>4
<1>8. e[k].addr + e[k].size = dst + n
  <2>1. ds[k].addr + ds[k].size = dst + n /\ k \in 1 .. k
    BY <1>1 DEF Covers
  <2> QED BY <2>1, <1>3, <1>4
<1>9. Covers(e, dst, n)
  BY <1>4, <1>6, <1>7, <1>8 DEF Covers
<1> QED BY <1>3, <1>4, <1>5, <1>6, <1>9 DEF e, new

(* The engine writes the next sector of the command, and nothing else. *)
LEMMA DmaFacts ==
  ASSUME ReadInv, dma.on, ctl.fifo # <<>>, dma.descs # <<>>
  PROVE  /\ Flight /\ usedma /\ dma.descs[1].addr = at.dst + Moved /\ Moved < Cur /\ ~dma.irq
         /\ Head(dma.descs) = dma.descs[1]
         /\ \A x : x = dma.descs[1].addr + 1 => x - at.dst = Moved + 1
         /\ \A x : x = at.dst + Cur /\ dma.descs[1].addr + 1 = x => Moved + 1 = Cur
         /\ at.dst \in Nat /\ Cur \in Nat
<1> USE DEF ReadInv
<1>1. Flight /\ usedma
  BY DEF AtRest, Stream
<1>2. Moved = dma.descs[1].addr - at.dst
  BY <1>1 DEF Moved
<1>3. /\ dma.descs \in Seq(Desc) /\ Covers(dma.descs, at.dst, Cur) /\ ~dma.irq
      /\ \A i \in 1 .. Len(dma.descs) : dma.descs[i].size \in 1 .. BufMax
  BY <1>1 DEF Stream, Types
<1>4. Len(dma.descs) \in Nat /\ Len(dma.descs) > 0 /\ Head(dma.descs) = dma.descs[1]
  BY <1>3
<1>5. 1 \in 1 .. Len(dma.descs)
  BY <1>4
<1>6. Cur \in Nat /\ at.dst \in Nat
  BY CurBounds, ConstantTypes DEF Types
<1> DEFINE x == dma.descs[1].addr
           y == dma.descs[1].size
           d == at.dst
<1>7. x \in Nat /\ y \in Nat /\ y >= 1 /\ x >= d /\ x + y <= d + Cur
  <2>1. dma.descs[1] \in Desc /\ y \in 1 .. BufMax /\ BufMax \in Nat
    BY <1>3, <1>5, ConstantTypes
  <2> QED BY <2>1, <1>3, <1>5 DEF Covers, Desc
<1> HIDE DEF x, y, d
<1>8. x = d + (x - d) /\ x - d < Cur /\ (\A v : v = x + 1 => v - d = (x - d) + 1)
      /\ \A v : v = d + Cur /\ x + 1 = v => (x - d) + 1 = Cur
  BY <1>6, <1>7 DEF d
<1> QED BY <1>1, <1>2, <1>3, <1>4, <1>6, <1>8 DEF x, d

LEMMA DmaMovesInv ==
  ASSUME ReadInv, DmaMoves
  PROVE  ReadInv'
<1> USE DEF ReadInv
<1> DEFINE d == dma.descs[1]
           ds == dma.descs
           next == IF d.size = 1 THEN Tail(ds)
                   ELSE [ds EXCEPT ![1] = [addr |-> d.addr + 1, size |-> d.size - 1]]
<1>0. UNCHANGED <<pc, driver, card, dirty, faults>> /\ ctl' = [ctl EXCEPT !.fifo = Tail(@)]
      /\ dma.on /\ ctl.fifo # <<>> /\ ds # <<>>
  BY DEF DmaMoves
<1>1. /\ Flight /\ usedma /\ d.addr = at.dst + Moved /\ Moved < Cur /\ ~dma.irq
      /\ Head(ds) = d /\ (\A x : x = d.addr + 1 => x - at.dst = Moved + 1)
      /\ \A x : x = at.dst + Cur /\ d.addr + 1 = x => Moved + 1 = Cur
      /\ at.dst \in Nat /\ Cur \in Nat
  BY <1>0, DmaFacts
<1>2. /\ ds \in Seq(Desc) /\ Covers(ds, at.dst, Cur) /\ Len(ds) <= NDescs /\ Len(ds) \in Nat /\ NDescs \in Nat
      /\ \A i \in 1 .. Len(ds) : ds[i].size \in 1 .. BufMax
  BY <1>1, ConstantTypes DEF Stream, Types
<1>3. /\ next \in Seq(Desc) /\ Covers(next, at.dst, Cur) /\ Len(next) <= NDescs
      /\ \A i \in 1 .. Len(next) : next[i].size \in 1 .. BufMax
      /\ next # <<>> => next[1].addr = d.addr + 1
      /\ next = <<>> => Moved + 1 = Cur
      /\ d.size = 1 /\ Len(ds) = 1 => next = <<>>
  <2>1. CASE d.size = 1
    <3>1. /\ Tail(ds) \in Seq(Desc) /\ Len(Tail(ds)) = Len(ds) - 1 /\ Covers(Tail(ds), at.dst, Cur)
          /\ \A i \in 1 .. Len(Tail(ds)) : Tail(ds)[i].size \in 1 .. BufMax
          /\ Tail(ds) # <<>> => Tail(ds)[1].addr = d.addr + 1
          /\ Tail(ds) = <<>> => d.addr + 1 = at.dst + Cur
      BY <2>1, <1>0, <1>1, <1>2, BufferEnds
    <3>2. Len(Tail(ds)) <= NDescs
      BY <3>1, <1>2
    <3>3. Len(ds) = 1 => Tail(ds) = <<>>
      BY <3>1, EmptySeq
    <3> QED BY <2>1, <3>1, <3>2, <3>3, <1>1
  <2>2. CASE d.size # 1
    <3> DEFINE e == [ds EXCEPT ![1] = [addr |-> d.addr + 1, size |-> d.size - 1]]
    <3>1. /\ e \in Seq(Desc) /\ Len(e) = Len(ds) /\ e # <<>> /\ Covers(e, at.dst, Cur)
          /\ \A i \in 1 .. Len(e) : e[i].size \in 1 .. BufMax
          /\ e[1].addr = d.addr + 1
      BY <2>2, <1>0, <1>1, <1>2, BufferShrinks
    <3>2. next = e
      BY <2>2
    <3> HIDE DEF e, next
    <3> QED BY <2>2, <3>1, <3>2, <1>2
  <2> QED BY <2>1, <2>2
<1>4. dma' = [dma EXCEPT !.descs = next, !.irq = @ \/ (d.size = 1 /\ Len(ds) = 1)]
  BY <1>1 DEF DmaMoves, LastDesc
<1>5. mem' = [mem EXCEPT ![at.dst + Moved] = Head(ctl.fifo)]
  BY <1>1 DEF DmaMoves
<1> HIDE DEF next
<1>6. /\ dma'.on = dma.on /\ dma'.descs = next /\ (dma'.irq => next = <<>>)
      /\ dma' \in [on : BOOLEAN, descs : Seq(Desc), irq : BOOLEAN]
  BY <1>1, <1>3, <1>4 DEF Types
<1>7. Moved' = Moved + 1
  <2>1. usedma' /\ Cur' = Cur /\ at' = at
    BY <1>0, <1>1 DEF usedma, Cur, driver
  <2>2. CASE next = <<>>
    BY <2>1, <2>2, <1>3, <1>6 DEF Moved
  <2>3. CASE next # <<>>
    <3>1. Moved' = next[1].addr - at.dst
      BY <2>1, <2>3, <1>6 DEF Moved
    <3>2. next[1].addr = d.addr + 1
      BY <2>3, <1>3
    <3>3. next[1].addr - at.dst = Moved + 1
      BY <1>1, <3>2, Zenon
    <3> QED BY <3>1, <3>3, Zenon
  <2> QED BY <2>2, <2>3
<1>8. UNCHANGED <<pc, req, at, error, ok, card, dirty, faults>>
  BY <1>0 DEF driver
<1>9. /\ mem' \in [Addresses -> Old .. Lba]
      /\ ctl' \in [ddr : BOOLEAN, rint : SUBSET {"cmd", "auto", "over", "error"}, left : 0 .. BMax,
                   auto : BOOLEAN, fifo : Seq(0 .. Lba)]
      /\ Len(ctl'.fifo) <= FifoMax
      /\ AtRest' /\ Rest' /\ Held' /\ Clean' /\ Faultless'
      /\ (/\ dma'.on = usedma
          /\ usedma => Covers(dma'.descs, at.dst, Cur) /\ (dma'.irq => dma'.descs = <<>>)
          /\ ~usedma /\ pc \in {"cmd", "data"} => moved' = Cur) => Stream'
  BY <1>0, <1>1, <1>5, <1>7, <1>8, OneMoved
<1>10. Stream'
  BY <1>1, <1>3, <1>6, <1>9 DEF Stream
<1>11. Types'
  BY <1>0, <1>3, <1>6, <1>9 DEF Types, driver
<1> QED BY <1>9, <1>10, <1>11

(* The same by the loop of mmc_trans_data_by_cpu(). *)
LEMMA PioInv ==
  ASSUME ReadInv, mmc_trans_data_by_cpu
  PROVE  ReadInv'
<1> USE DEF ReadInv
<1>0. UNCHANGED <<req, at, tries, ok, reads, dma, card, dirty>> /\ pc = "pio" /\ Flight /\ Busy
  BY DEF mmc_trans_data_by_cpu, Flight, Busy
<1>1. ~usedma /\ Moved = moved /\ dma.on = usedma
  BY <1>0 DEF Stream, Moved
<1>2. usedma' = usedma /\ Cur' = Cur /\ Sectors(req)' = Sectors(req) /\ First' = First
      /\ \A a : Wanted(a)' = Wanted(a)
  BY <1>0 DEF usedma, Cur, Sectors, First, Wanted
<1>3. Moved' = moved'
  BY <1>1, <1>2 DEF Moved
<1>4. Cur \in 0 .. BMax /\ moved \in 0 .. BMax /\ BMax \in Nat
  BY CurBounds, ConstantTypes DEF Types
<1>5. CASE /\ ctl.fifo # <<>> /\ moved < Cur /\ moved' = moved + 1
           /\ mem' = [mem EXCEPT ![at.dst + moved] = Head(ctl.fifo)]
           /\ ctl' = [ctl EXCEPT !.fifo = Tail(@)] /\ UNCHANGED <<pc, error, faults>>
  <2>1. UNCHANGED <<pc, req, at, error, ok, card, dirty, faults>> /\ Moved' = Moved + 1
        /\ mem' = [mem EXCEPT ![at.dst + Moved] = Head(ctl.fifo)] /\ Moved < Cur
    BY <1>0, <1>1, <1>3, <1>5
  <2>2. /\ mem' \in [Addresses -> Old .. Lba]
        /\ ctl' \in [ddr : BOOLEAN, rint : SUBSET {"cmd", "auto", "over", "error"}, left : 0 .. BMax,
                     auto : BOOLEAN, fifo : Seq(0 .. Lba)]
        /\ Len(ctl'.fifo) <= FifoMax
        /\ AtRest' /\ Rest' /\ Held' /\ Clean' /\ Faultless'
        /\ (/\ dma'.on = usedma
            /\ usedma => Covers(dma'.descs, at.dst, Cur) /\ (dma'.irq => dma'.descs = <<>>)
            /\ ~usedma /\ pc \in {"cmd", "data"} => moved' = Cur) => Stream'
    BY <1>0, <1>5, <2>1, OneMoved
  <2>3. Stream'
    BY <1>0, <1>1, <2>2
  <2>4. moved' \in 0 .. BMax
    BY <1>4, <1>5
  <2>5. Types'
    BY <1>0, <1>5, <2>2, <2>4 DEF Types
  <2> QED BY <2>2, <2>3, <2>5
<1>6. CASE moved = Cur /\ pc' = "cmd" /\ UNCHANGED <<moved, error, faults, ctl, mem>>
  <2>1. Flight' /\ Busy' /\ Moved' = Moved
    BY <1>1, <1>3, <1>6 DEF Flight, Busy
  <2>2. Upto' = Upto
    BY <1>0, <1>2, <2>1 DEF Upto
  <2>3. Types' /\ AtRest' /\ Rest'
    BY <1>0, <1>2, <1>6, <2>1 DEF Types, AtRest, Rest
  <2>4. Stream'
    BY <1>0, <1>1, <1>2, <1>6, <2>1 DEF Stream
  <2>5. Held' /\ Clean' /\ Faultless'
    BY <1>0, <1>2, <1>6, <2>1, <2>2 DEF Held, Clean, Faultless
  <2> QED BY <2>3, <2>4, <2>5
<1>7. CASE /\ IF "error" \in ctl.rint /\ ctl.fifo = <<>> THEN UNCHANGED faults ELSE Lossy
           /\ pc' = "out" /\ error' = TRUE /\ UNCHANGED <<moved, ctl, mem>>
  <2>1. Flight' /\ Busy' /\ Moved' = Moved
    BY <1>1, <1>3, <1>7 DEF Flight, Busy
  <2>2. Upto' = Upto
    BY <1>0, <1>2, <2>1 DEF Upto
  <2>3. faults' \in 0 .. MaxFaults /\ (faults' = 0 => faults = 0 /\ ~Lossy)
    BY <1>7, FaultCount
  <2>4. Types' /\ AtRest' /\ Rest'
    BY <1>0, <1>2, <1>7, <2>1, <2>3 DEF Types, AtRest, Rest
  <2>5. Stream'
    BY <1>0, <1>1, <1>2, <1>7, <2>1 DEF Stream
  <2>6. Held' /\ Clean'
    BY <1>0, <1>2, <1>7, <2>1, <2>2 DEF Held, Clean
  <2>7. Faultless'
    BY <1>7, <2>3 DEF Faultless
  <2> QED BY <2>4, <2>5, <2>6, <2>7
<1> QED BY <1>5, <1>6, <1>7 DEF mmc_trans_data_by_cpu

(* What mmc_bread() goes on with after a command that succeeded. *)
LEMMA OutFacts ==
  ASSUME ReadInv, pc = "out", ~error
  PROVE  /\ Moved = Cur /\ ctl.left = 0 /\ Upto = at.dst + Cur
         /\ at.start + Cur \in Nat /\ at.todo - Cur \in Nat /\ at.dst + Cur \in Nat
         /\ at.start + Cur >= First
         /\ (at.start + Cur) + (at.todo - Cur) = at.start + at.todo
         /\ (at.dst + Cur) + (at.todo - Cur) = at.dst + at.todo
         /\ at.todo # Cur => at.todo - Cur > 0
         /\ at.todo = Cur => at.dst + Cur = req.dest + Sectors(req)
<1> USE DEF ReadInv
<1>1. Flight /\ Busy
  BY DEF Flight, Busy
<1>2. Moved = Cur /\ ctl.left = 0 /\ Upto = at.dst + Cur
  BY <1>1 DEF Stream, Upto
<1> DEFINE s == at.start
           d == at.dst
           t == at.todo
           c == Cur
<1>3. s \in Nat /\ d \in Nat /\ t \in Nat /\ BMax \in Nat /\ c \in 0 .. BMax /\ c <= t /\ First \in Nat
      /\ s >= First /\ d + t = req.dest + Sectors(req)
  BY <1>1, CurBounds, ConstantTypes DEF Types, Rest
<1> HIDE DEF s, d, t, c
<1>4. /\ s + c \in Nat /\ t - c \in Nat /\ d + c \in Nat /\ s + c >= First
      /\ (s + c) + (t - c) = s + t /\ (d + c) + (t - c) = d + t
      /\ t # c => t - c > 0
  BY <1>3
<1> QED BY <1>2, <1>3, <1>4 DEF s, d, t, c

LEMMA OutInv ==
  ASSUME ReadInv, Out
  PROVE  ReadInv'
<1> USE DEF ReadInv
<1>0. UNCHANGED <<req, tries, moved, error, card, mem, dirty, faults, reads>> /\ pc = "out" /\ Flight /\ Busy
  BY DEF Out, Flight, Busy
<1>1. usedma' = usedma /\ Sectors(req)' = Sectors(req) /\ First' = First /\ \A a : Wanted(a)' = Wanted(a)
  BY <1>0 DEF usedma, Sectors, First, Wanted
<1>2. /\ dma' \in [on : BOOLEAN, descs : Seq(Desc), irq : BOOLEAN] /\ dma'.descs = dma.descs /\ ~dma'.on
  <2>1. dma \in [on : BOOLEAN, descs : Seq(Desc), irq : BOOLEAN] /\ dma.on = usedma
    BY <1>0 DEF Types, Stream
  <2> QED BY <2>1 DEF Out, StopDma
<1>3. /\ <<>> \in Seq(0 .. Lba) /\ Len(<<>>) <= FifoMax /\ 0 \in 0 .. BMax
  BY ConstantTypes
<1>4. CASE error
  <2>1. pc' = "done" /\ ok' = FALSE /\ at' = at /\ ~Flight' /\ ~Busy'
    BY <1>4 DEF Out, Returned, Flight, Busy
  <2>2. ctl' = [ddr |-> FALSE, rint |-> {}, left |-> 0, auto |-> FALSE, fifo |-> <<>>]
    BY <1>4 DEF Out, FifoReset
  <2>3. ctl' \in [ddr : BOOLEAN, rint : SUBSET {"cmd", "auto", "over", "error"}, left : 0 .. BMax,
                  auto : BOOLEAN, fifo : Seq(0 .. Lba)]
        /\ ctl'.fifo = <<>> /\ ctl'.left = 0 /\ ctl'.rint = {}
    BY <1>3, <2>2
  <2>4. Types'
    BY <1>0, <1>2, <1>3, <2>1, <2>3 DEF Types
  <2>5. AtRest' /\ Rest' /\ Stream'
    BY <1>0, <1>1, <1>2, <2>1, <2>3 DEF AtRest, Rest, Stream
  <2>6. Held' /\ Clean'
    BY <1>0, <1>1, <2>1 DEF Held, Clean
  <2>7. Faultless'
    BY <1>0, <1>4 DEF Faultless
  <2> QED BY <2>4, <2>5, <2>6, <2>7
<1>5. CASE ~error
  <2>1. at' = [start |-> at.start + Cur, todo |-> at.todo - Cur, dst |-> at.dst + Cur]
        /\ ctl' = [ctl EXCEPT !.rint = {}, !.fifo = <<>>]
    BY <1>5 DEF Out, FifoReset
  <2>2. IF at.todo = Cur THEN pc' = "done" /\ ok' = TRUE ELSE pc' = "chunk" /\ ok' = ok
    BY <1>5 DEF Out, Returned
  <2>3. ~Flight' /\ (at.todo # Cur => Busy')
    BY <2>2 DEF Flight, Busy
  <2>4. /\ Moved = Cur /\ ctl.left = 0 /\ Upto = at.dst + Cur
        /\ at.start + Cur \in Nat /\ at.todo - Cur \in Nat /\ at.dst + Cur \in Nat
        /\ at.start + Cur >= First
        /\ (at.start + Cur) + (at.todo - Cur) = at.start + at.todo
        /\ (at.dst + Cur) + (at.todo - Cur) = at.dst + at.todo
        /\ at.todo # Cur => at.todo - Cur > 0
        /\ at.todo = Cur => at.dst + Cur = req.dest + Sectors(req)
    BY <1>0, <1>5, OutFacts
  <2>5. at' \in [start : Nat, todo : Nat, dst : Nat] /\ at'.start = at.start + Cur
        /\ at'.todo = at.todo - Cur /\ at'.dst = at.dst + Cur
    BY <2>1, <2>4
  <2>6. ctl' \in [ddr : BOOLEAN, rint : SUBSET {"cmd", "auto", "over", "error"}, left : 0 .. BMax,
                  auto : BOOLEAN, fifo : Seq(0 .. Lba)]
        /\ ctl'.fifo = <<>> /\ ctl'.left = 0 /\ ctl'.rint = {} /\ ctl'.ddr = ctl.ddr
    BY <1>3, <2>1, <2>4 DEF Types
  <2>7. Types'
    <3>1. pc' \in {"chunk", "done"} /\ ok' \in BOOLEAN
      BY <2>2 DEF Types
    <3> QED BY <1>0, <1>2, <1>3, <2>5, <2>6, <3>1 DEF Types
  <2>8. AtRest' /\ Stream'
    BY <1>2, <2>3, <2>6 DEF AtRest, Stream
  <2>9. Rest'
    <3>1. Busy' => at.todo # Cur
      BY <2>2 DEF Busy
    <3>2. at.start + at.todo <= Lba /\ at.start + at.todo = First + Sectors(req)
          /\ at.dst + at.todo = req.dest + Sectors(req) /\ req.dest + Sectors(req) <= MemSize
      BY <1>0 DEF Rest
    <3> QED BY <1>0, <1>1, <2>4, <2>5, <3>1, <3>2 DEF Rest
  <2>10. Upto' = at.dst + Cur
    BY <2>3, <2>5 DEF Upto
  <2>11. Held'
    <3>1. \A a \in Addresses : mem[a] # Old => Wanted(a)
      BY DEF Held
    <3>2. \A a \in Addresses : req.dest <= a /\ a < at.dst + Cur => mem[a] = First + a - req.dest
      BY <1>0, <2>4 DEF Held
    <3>3. pc' = "done" => at'.dst = req.dest + Sectors(req)
      BY <2>2, <2>4, <2>5
    <3> QED BY <1>0, <1>1, <2>10, <3>1, <3>2, <3>3 DEF Held
  <2>12. Clean'
    BY <1>0, <1>1, <2>3 DEF Clean
  <2>13. Faultless'
    BY <1>0, <1>1, <2>2, <2>3, <2>6 DEF Faultless
  <2> QED BY <2>7, <2>8, <2>9, <2>11, <2>12, <2>13
<1> QED BY <1>4, <1>5

(* A command is written to the controller. *)
LEMMA ReadBlocksInv ==
  ASSUME ReadInv, mmc_read_blocks
  PROVE  ReadInv'
<1> USE DEF ReadInv
<1>0. /\ UNCHANGED <<req, at, tries, ok, mem, reads>> /\ pc = "chunk" /\ ~Flight /\ Busy
      /\ moved' = 0 /\ error' = FALSE /\ pc' = (IF usedma THEN "cmd" ELSE "pio") /\ Flight' /\ Busy'
  BY DEF mmc_read_blocks, Flight, Busy
<1>1. usedma' = usedma /\ Cur' = Cur /\ Sectors(req)' = Sectors(req) /\ First' = First
      /\ \A a : Wanted(a)' = Wanted(a)
  BY <1>0 DEF usedma, Cur, Sectors, First, Wanted
<1>2. ctl.left = 0 /\ ctl.fifo = <<>> /\ ctl.rint = {} /\ ~dma.on /\ dma.on \in BOOLEAN
  BY <1>0 DEF AtRest, Types
<1>3. /\ Cur \in 1 .. BMax /\ Cur \in Nat /\ at.dst \in Nat /\ at.start \in Nat
      /\ BMax \in Nat /\ 0 \in 0 .. BMax /\ 0 \in 0 .. Cur /\ Cur \in 0 .. BMax
  <2>1. Cur \in 0 .. BMax /\ Cur >= 1 /\ BMax \in Nat
    BY <1>0, CurBounds, ConstantTypes
  <2>2. at.dst \in Nat /\ at.start \in Nat
    BY DEF Types
  <2> QED BY <2>1, <2>2
<1>4. /\ dma' \in [on : BOOLEAN, descs : Seq(Desc), irq : BOOLEAN] /\ dma'.on = usedma
      /\ Len(dma'.descs) <= NDescs /\ \A i \in 1 .. Len(dma'.descs) : dma'.descs[i].size \in 1 .. BufMax
      /\ usedma => /\ Covers(dma'.descs, at.dst, Cur) /\ ~dma'.irq /\ dma'.descs # <<>>
                   /\ dma'.descs[1].addr = at.dst
  <2>1. CASE usedma
    <3> DEFINE ds == Descs(at.dst, Cur)
    <3>1. /\ ds \in Seq(Desc) /\ Len(ds) \in 1 .. NDescs
          /\ \A i \in 1 .. Len(ds) : ds[i].size \in 1 .. BufMax
          /\ Covers(ds, at.dst, Cur) /\ ds[1].addr = at.dst
      BY <1>3, DescsCover
    <3>2. dma' = [on |-> TRUE, descs |-> ds, irq |-> FALSE]
      BY <2>1 DEF mmc_read_blocks, mmc_trans_data_by_dma
    <3> HIDE DEF ds
    <3>3. Len(ds) <= NDescs /\ ds # <<>>
      BY <3>1, ConstantTypes
    <3> QED BY <2>1, <3>1, <3>2, <3>3
  <2>2. CASE ~usedma
    <3>1. dma' = dma
      BY <2>2 DEF mmc_read_blocks
    <3>2. dma.on = FALSE
      BY <1>2
    <3>3. usedma \in BOOLEAN
      BY DEF usedma, Types
    <3> QED BY <2>2, <3>1, <3>2, <3>3 DEF Types
  <2> QED BY <2>1, <2>2
<1>5. Moved' = 0
  <2>1. usedma => dma'.descs[1].addr - at.dst = 0
    BY <1>3, <1>4
  <2> QED BY <1>0, <1>1, <1>4, <2>1 DEF Moved
<1>6. /\ dirty' \subseteq dirty
      /\ \A a \in at.dst .. at.dst + Cur - 1 : Line(a) \notin dirty'
  <2>1. CASE usedma
    BY <2>1, <1>3, FlushCovers DEF mmc_read_blocks, mmc_trans_data_by_dma
  <2>2. CASE ~usedma
    BY <2>2 DEF mmc_read_blocks, Clean
  <2> QED BY <2>1, <2>2
<1>7. Upto' = Upto
  <2>1. at.dst + 0 = at.dst
    BY <1>3
  <2> QED BY <2>1, <1>0, <1>5 DEF Upto
<1>8. Rest' /\ AtRest'
  BY <1>0, <1>1 DEF Rest, AtRest
<1>9. Held'
  BY <1>0, <1>1, <1>7 DEF Held
<1>10. Clean'
  BY <1>0, <1>1, <1>6 DEF Clean
<1> DEFINE taken == [card EXCEPT !.st = "data", !.pos = at.start, !.multi = Cur > 1]
<1>11. /\ card' = card \/ card' = taken
       /\ card' \in [st : {"tran", "data"}, pos : Nat, ddr : BOOLEAN, multi : BOOLEAN]
  <2>1. (Cur > 1) \in BOOLEAN
    BY <1>3
  <2>2. card' = card \/ card' = taken
    BY DEF mmc_read_blocks, Responds
  <2> QED BY <2>1, <2>2, <1>3 DEF Types
<1>12. faults' \in 0 .. MaxFaults /\ (faults' = 0 => faults = 0 /\ ~Lossy)
  <2>1. faults' = faults \/ Lossy
    BY DEF mmc_read_blocks, Responds
  <2> QED BY <2>1, FaultCount
<1>15. /\ moved' \in 0 .. BMax /\ error' \in BOOLEAN /\ pc' \in {"cmd", "pio"} /\ Len(<<>>) <= FifoMax
       /\ dirty' \subseteq {Line(a) : a \in Addresses}
  <2>1. moved' \in 0 .. BMax /\ Len(<<>>) <= FifoMax
    BY <1>0, <1>3, ConstantTypes
  <2>2. dirty' \subseteq {Line(a) : a \in Addresses}
    BY <1>6, Zenon DEF Types
  <2>3. error' \in BOOLEAN /\ pc' \in {"cmd", "pio"}
    BY <1>0
  <2> QED BY <2>1, <2>2, <2>3
<1>13. CASE /\ card' = taken
            /\ ctl' = [ctl EXCEPT !.rint = {"cmd"}, !.left = Cur, !.auto = AutoStop]
  <2>1. /\ ctl' \in [ddr : BOOLEAN, rint : SUBSET {"cmd", "auto", "over", "error"}, left : 0 .. BMax,
                     auto : BOOLEAN, fifo : Seq(0 .. Lba)]
        /\ ctl'.rint = {"cmd"} /\ ctl'.left = Cur /\ ctl'.auto = (Cur > 1) /\ ctl'.fifo = <<>>
        /\ ctl'.ddr = ctl.ddr
    <3>1. (Cur > 1) \in BOOLEAN
      BY <1>3
    <3> QED BY <3>1, <1>2, <1>3, <1>13 DEF Types, AutoStop
  <2>2. card'.pos = at.start /\ card'.multi = (Cur > 1) /\ card'.ddr = card.ddr
    BY <1>13 DEF Types
  <2>3. Types'
    BY <1>0, <1>4, <1>11, <1>12, <1>15, <2>1 DEF Types
  <2>4. Stream'
    <3>1. 0 + 0 + Cur = Cur /\ at.start = at.start + 0 + 0
      BY <1>3
    <3> QED BY <1>0, <1>1, <1>3, <1>4, <1>5, <2>1, <2>2, <3>1 DEF Stream
  <2>5. Faultless'
    <3>1. ~(Cur = 0)
      BY <1>3
    <3> QED BY <1>0, <1>1, <1>3, <1>12, <2>1, <2>2, <3>1 DEF Faultless
  <2> QED BY <1>8, <1>9, <1>10, <2>3, <2>4, <2>5
<1>14. CASE /\ IF card.st = "tran" THEN Lossy ELSE UNCHANGED faults
            /\ ctl' = [ctl EXCEPT !.rint = {"error"}, !.left = 0, !.auto = FALSE]
  <2>1. /\ ctl' \in [ddr : BOOLEAN, rint : SUBSET {"cmd", "auto", "over", "error"}, left : 0 .. BMax,
                     auto : BOOLEAN, fifo : Seq(0 .. Lba)]
        /\ ctl'.rint = {"error"} /\ ctl'.left = 0 /\ ctl'.fifo = <<>>
    BY <1>2, <1>3, <1>14 DEF Types
  <2>2. Types'
    BY <1>0, <1>4, <1>11, <1>12, <1>15, <2>1 DEF Types
  <2>3. Stream'
    <3>1. 0 + 0 + 0 <= Cur
      BY <1>3
    <3> QED BY <1>0, <1>1, <1>3, <1>4, <1>5, <2>1, <3>1 DEF Stream
  <2>4. Faultless'
    BY <1>0, <1>12, <1>14 DEF Faultless
  <2> QED BY <1>8, <1>9, <1>10, <2>2, <2>3, <2>4
<1> QED BY <1>13, <1>14 DEF mmc_read_blocks, Responds

(* mmc_set_blocklen() touches neither the card's data nor memory. *)
LEMMA SetBlocklenInv ==
  ASSUME ReadInv, mmc_set_blocklen
  PROVE  ReadInv'
<1> USE DEF ReadInv
<1>0. /\ UNCHANGED <<req, at, moved, error, reads, ctl, dma, card, mem, dirty>>
      /\ pc = "blocklen" /\ ~Flight /\ Busy /\ pc' \in {"blocklen", "chunk", "done"} /\ ~Flight'
      /\ pc' = "done" => ok' = FALSE
  BY DEF mmc_set_blocklen, Returned, Flight, Busy
<1>1. /\ Cur' = Cur /\ usedma' = usedma /\ Sectors(req)' = Sectors(req) /\ First' = First
      /\ \A a : Wanted(a)' = Wanted(a)
  BY <1>0 DEF Cur, usedma, Sectors, First, Wanted
<1>2. faults' \in 0 .. MaxFaults /\ (faults' = 0 => faults = 0 /\ ~Lossy)
  <2>1. faults' = faults \/ Lossy
    BY DEF mmc_set_blocklen
  <2> QED BY <2>1, FaultCount
<1>3. tries' \in 0 .. 5 /\ ok' \in BOOLEAN
  <2>1. tries' = tries \/ (tries < 5 /\ tries' = tries + 1)
    BY DEF mmc_set_blocklen
  <2>2. ok' = ok \/ ok' = FALSE
    BY DEF mmc_set_blocklen, Returned
  <2>3. tries' \in 0 .. 5
    BY <2>1 DEF Types
  <2>4. ok' \in BOOLEAN
    BY <2>2, Zenon DEF Types
  <2> QED BY <2>3, <2>4
<1>4. Types'
  BY <1>0, <1>2, <1>3 DEF Types
<1>5. Upto' = Upto
  BY <1>0 DEF Upto
<1>6. AtRest' /\ Rest' /\ Stream'
  BY <1>0, <1>1 DEF AtRest, Rest, Stream
<1>7. Held' /\ Clean'
  BY <1>0, <1>1, <1>5 DEF Held, Clean
<1>8. Faultless'
  <2>1. faults' = 0 => pc' # "done"
    BY <1>0, <1>2 DEF Faultless, mmc_set_blocklen
  <2> QED BY <1>0, <1>1, <1>2, <2>1 DEF Faultless
<1> QED BY <1>4, <1>6, <1>7, <1>8

(* What mmc_read_data() is asked for. *)
LEMMA RequestFacts ==
  ASSUME NEW r \in Requests
  PROVE  /\ r \in [dest : Nat, off : Nat, len : Nat, dram : BOOLEAN]
         /\ Sectors(r) \in Nat /\ r.off \div BlockLen \in Nat /\ r.dest + Sectors(r) <= MemSize
<1>1. r \in [dest : Nat, off : Nat, len : Nat, dram : BOOLEAN] /\ r.dest + Sectors(r) <= MemSize
  BY SunxiAssumption DEF Sectors
<1>2. BlockLen \in Nat \ {0} /\ r.off \in Nat /\ r.len + BlockLen - 1 \in Nat
  BY <1>1, ConstantTypes
<1> QED BY <1>1, <1>2, Division DEF Sectors

LEMMA ReadDataInv ==
  ASSUME ReadInv, mmc_read_data
  PROVE  ReadInv'
<1> USE DEF ReadInv
<1> DEFINE first(r) == r.off \div BlockLen
<1>0. pc \in {"idle", "done"} /\ ~Flight /\ UNCHANGED <<moved, error, ctl, dma, card, faults>>
      /\ tries' = 0 /\ reads' = reads + 1
  BY DEF mmc_read_data, Flight
<1>1. PICK r \in Requests :
        /\ req' = r /\ at' = [start |-> first(r), todo |-> Sectors(r), dst |-> r.dest]
        /\ mem' = [a \in Addresses |-> Old]
        /\ dirty' \in {{}} \cup {{Line(a)} : a \in {b \in Addresses : r.dram}}
        /\ CASE Sectors(r) = 0 -> Returned(TRUE)
             [] Sectors(r) > 0 /\ first(r) + Sectors(r) > Lba -> Returned(FALSE)
             [] OTHER -> pc' = (IF card.ddr THEN "chunk" ELSE "blocklen") /\ UNCHANGED ok
  BY DEF mmc_read_data
<1>2. /\ r \in [dest : Nat, off : Nat, len : Nat, dram : BOOLEAN]
      /\ Sectors(r) \in Nat /\ first(r) \in Nat /\ r.dest + Sectors(r) <= MemSize
  BY RequestFacts
<1>3. /\ at' \in [start : Nat, todo : Nat, dst : Nat] /\ at'.start = first(r) /\ at'.todo = Sectors(r)
      /\ at'.dst = r.dest /\ Sectors(req)' = Sectors(r) /\ First' = first(r) /\ usedma' = r.dram
  BY <1>1, <1>2 DEF Sectors, First, usedma
<1> HIDE DEF first
<1>4. /\ pc' \in {"chunk", "blocklen", "done"} /\ ok' \in BOOLEAN /\ ~Flight'
      /\ Busy' => Sectors(r) > 0 /\ first(r) + Sectors(r) <= Lba
      /\ pc' = "done" /\ ok' => Sectors(r) = 0
      /\ pc' = "done" /\ first(r) + Sectors(r) <= Lba => ok'
  <2>1. Lba \in Nat /\ ok \in BOOLEAN
    BY ConstantTypes DEF Types
  <2>2. CASE Sectors(r) = 0
    <3>1. Returned(TRUE)
      <4>1. ~(Sectors(r) > 0)
        BY <2>2
      <4> QED BY <1>1, <2>2, <4>1, Zenon
    <3> QED BY <2>2, <3>1 DEF Returned, Flight, Busy
  <2>3. CASE Sectors(r) > 0 /\ first(r) + Sectors(r) > Lba
    <3>1. Returned(FALSE)
      <4>1. Sectors(r) # 0
        BY <1>2, <2>3
      <4> QED BY <1>1, <2>3, <4>1, Zenon
    <3>2. ~(first(r) + Sectors(r) <= Lba)
      BY <1>2, <2>1, <2>3
    <3> QED BY <3>1, <3>2 DEF Returned, Flight, Busy
  <2>4. CASE Sectors(r) > 0 /\ ~(first(r) + Sectors(r) > Lba)
    <3>1. pc' = (IF card.ddr THEN "chunk" ELSE "blocklen") /\ UNCHANGED ok
      <4>1. Sectors(r) # 0
        BY <1>2, <2>4
      <4> QED BY <1>1, <2>4, <4>1, Zenon
    <3>2. first(r) + Sectors(r) <= Lba
      BY <1>2, <2>1, <2>4
    <3> QED BY <2>1, <2>4, <3>1, <3>2 DEF Flight, Busy
  <2> QED BY <1>2, <2>2, <2>3, <2>4
<1>5. /\ mem' \in [Addresses -> Old .. Lba] /\ \A a \in Addresses : mem'[a] = Old
  <2>1. Old \in Old .. Lba
    BY ConstantTypes DEF Old
  <2> QED BY <2>1, <1>1
<1>6. dirty' \subseteq {Line(a) : a \in Addresses} /\ (~r.dram => dirty' = {})
  BY <1>1
<1>7. Types'
  <2>1. reads' \in Nat /\ tries' \in 0 .. 5
    BY <1>0 DEF Types
  <2> QED BY <1>0, <1>1, <1>2, <1>3, <1>4, <1>5, <1>6, <2>1 DEF Types
<1>8. AtRest' /\ Stream'
  BY <1>0, <1>4 DEF AtRest, Stream
<1>9. Rest'
  <2>1. first(r) >= first(r)
    BY <1>2
  <2> QED BY <1>1, <1>2, <1>3, <1>4, <2>1 DEF Rest
<1>10. Held'
  <2>1. Upto' = r.dest
    BY <1>3, <1>4 DEF Upto
  <2>2. \A a \in Addresses : ~(r.dest <= a /\ a < r.dest)
    BY <1>2, ConstantTypes DEF Addresses
  <2>3. Sectors(r) = 0 => r.dest = r.dest + Sectors(r)
    BY <1>2
  <2> QED BY <1>1, <1>3, <1>4, <1>5, <2>1, <2>2, <2>3 DEF Held
<1>11. Clean'
  BY <1>3, <1>4, <1>5, <1>6 DEF Clean
<1>12. Faultless'
  BY <1>0, <1>3, <1>4 DEF Faultless
<1> QED BY <1>7, <1>8, <1>9, <1>10, <1>11, <1>12

(* Before the first read. *)
LEMMA InitInv == Init => ReadInv
<1> SUFFICES ASSUME Init PROVE ReadInv
  OBVIOUS
<1> USE DEF Init
<1>1. PICK d \in Ddrs :
        /\ ctl = [ddr |-> d, rint |-> {}, left |-> 0, auto |-> FALSE, fifo |-> <<>>]
        /\ card = [st |-> "tran", pos |-> 0, ddr |-> d, multi |-> FALSE]
  OBVIOUS
<1>2. d \in BOOLEAN /\ 0 \in 0 .. BMax /\ 0 \in 0 .. MaxFaults /\ Len(<<>>) <= FifoMax /\ Len(<<>>) <= NDescs
      /\ <<>> \in Seq(0 .. Lba) /\ <<>> \in Seq(Desc)
  BY ConstantTypes, SunxiAssumption
<1>3. mem \in [Addresses -> Old .. Lba] /\ \A a \in Addresses : mem[a] = Old
  <2>1. Old \in Old .. Lba
    BY ConstantTypes DEF Old
  <2> QED BY <2>1
<1>4. ctl \in [ddr : BOOLEAN, rint : SUBSET {"cmd", "auto", "over", "error"}, left : 0 .. BMax,
               auto : BOOLEAN, fifo : Seq(0 .. Lba)] /\ ctl.fifo = <<>>
      /\ ctl.left = 0 /\ ctl.rint = {} /\ ctl.ddr = d
  BY <1>1, <1>2
<1>5. dma \in [on : BOOLEAN, descs : Seq(Desc), irq : BOOLEAN] /\ dma.descs = <<>> /\ dma.on = FALSE
  BY <1>2
<1>6. card \in [st : {"tran", "data"}, pos : Nat, ddr : BOOLEAN, multi : BOOLEAN] /\ card.st = "tran" /\ card.ddr = d
  BY <1>1, <1>2
<1>7. Types
  <2>1. /\ pc = "idle" /\ tries \in 0 .. 5 /\ reads \in Nat /\ moved = 0 /\ faults = 0 /\ dirty = {}
        /\ error = FALSE /\ ok = FALSE
    OBVIOUS
  <2>2. req \in [dest : Nat, off : Nat, len : Nat, dram : BOOLEAN] /\ at \in [start : Nat, todo : Nat, dst : Nat]
    OBVIOUS
  <2>3. \A i \in 1 .. Len(dma.descs) : dma.descs[i].size \in 1 .. BufMax
    BY <1>5
  <2>4. error \in BOOLEAN /\ ok \in BOOLEAN
    BY <2>1, Zenon
  <2> HIDE DEF Init
  <2> QED BY <2>4, <1>2, <1>3, <1>4, <1>5, <1>6, <2>1, <2>2, <2>3 DEF Types
<1>8. ~Flight /\ ~Busy /\ pc = "idle"
  BY DEF Flight, Busy
<1>9. AtRest /\ Stream /\ Faultless
  BY <1>4, <1>5, <1>6, <1>8 DEF AtRest, Stream, Faultless
<1>10. Rest
  <2>1. (0 + BlockLen - 1) \div BlockLen = 0
    BY ConstantTypes
  <2>2. req.dest = 0 /\ req.len = 0
    OBVIOUS
  <2>3. Sectors(req) = 0
    BY <2>1, <2>2 DEF Sectors
  <2> QED BY <2>2, <2>3, <1>8, ConstantTypes DEF Rest
<1>11. Held /\ Clean
  BY <1>3, <1>8 DEF Held, Clean
<1> QED BY <1>7, <1>9, <1>10, <1>11 DEF ReadInv

(* Every step keeps the invariant. *)
LEMMA StepInv == ReadInv /\ [Next]_vars => ReadInv'
<1> SUFFICES ASSUME ReadInv, [Next]_vars PROVE ReadInv'
  OBVIOUS
<1>1. CASE mmc_read_data
  BY <1>1, ReadDataInv
<1>2. CASE Driver
  BY <1>2, SetBlocklenInv, ReadBlocksInv, PioInv, RintWaitInv, OutInv DEF Driver
<1>3. CASE Hardware
  BY <1>3, CardSendsInv, CardGivesUpInv, DataOverInv, DmaMovesInv DEF Hardware
<1>4. CASE Evict
  BY <1>4, EvictInv
<1>5. CASE UNCHANGED vars
  <2>1. /\ Types' = Types /\ AtRest' = AtRest /\ Rest' = Rest /\ Held' = Held /\ Clean' = Clean
        /\ Faultless' = Faultless
    BY <1>5 DEF vars, Types, AtRest, Rest, Held, Clean, Faultless, Flight, Busy, First, Sectors, Upto,
                Moved, usedma, Cur, Wanted
  <2>2. Stream' = Stream
    BY <1>5 DEF vars, Stream, Covers, Flight, Moved, usedma, Cur
  <2> QED BY <2>1, <2>2 DEF ReadInv
<1> QED BY <1>1, <1>2, <1>3, <1>4, <1>5 DEF Next

LEMMA Invariance == Spec => []ReadInv
<1>1. Init => ReadInv
  BY InitInv
<1>2. ReadInv /\ [Next]_vars => ReadInv'
  BY StepInv
<1> QED BY <1>1, <1>2, PTL DEF Spec

(* mmc_read_data() says true only when every sector asked for is in        *)
(* memory, in its place and with no line of the cache over it, whatever    *)
(* was lost or broken in this read or in reads before; nothing is written  *)
(* outside of the buffer; and without a fault every read within the card   *)
(* succeeds.                                                               *)
THEOREM ReadsComplete == Spec => []ReadComplete
<1>1. ReadInv => ReadComplete
  <2> SUFFICES ASSUME ReadInv PROVE ReadComplete
    OBVIOUS
  <2> USE DEF ReadInv
  <2>1. SunxiTypeOK
    BY DEF SunxiTypeOK, Types, Rest, Busy
  <2>2. \A a \in Addresses : mem[a] # Old => Wanted(a)
    BY DEF Held
  <2>3. ASSUME pc = "done", ok, NEW a \in Addresses, Wanted(a)
        PROVE  mem[a] = req.off \div BlockLen + a - req.dest /\ Line(a) \notin dirty
    <3>1. req.dest \in Nat /\ req.off \div BlockLen \in Nat /\ Sectors(req) \in Nat /\ a \in Nat
      <4>1. req.dest \in Nat /\ req.off \in Nat /\ req.len + BlockLen - 1 \in Nat /\ BlockLen \in Nat \ {0}
        <5>1. req.dest \in Nat /\ req.off \in Nat /\ req.len \in Nat
          BY DEF Types
        <5> HIDE DEF ReadInv
        <5> QED BY <5>1, ConstantTypes
      <4>2. a \in Nat
        BY ConstantTypes DEF Addresses
      <4> QED BY <4>1, <4>2, Division DEF Sectors
    <3>2. req.dest <= a /\ a < req.dest + Sectors(req)
      BY <2>3, <3>1 DEF Wanted
    <3>3. Upto = req.dest + Sectors(req)
      BY <2>3 DEF Upto, Flight, Held
    <3>4. mem[a] = First + a - req.dest
      BY <2>3, <3>2, <3>3 DEF Held
    <3>5. mem[a] # Old
      BY <3>1, <3>2, <3>4 DEF Old, First
    <3> QED BY <3>4, <3>5 DEF Clean, First
  <2>4. faults = 0 /\ pc = "done" /\ req.off \div BlockLen + Sectors(req) <= Lba => ok
    BY DEF Faultless, First
  <2> QED BY <2>1, <2>2, <2>3, <2>4 DEF ReadComplete
<1> QED BY <1>1, Invariance, PTL

(* Once mmc_read_data() has returned the engine is off: only the next read *)
(* changes memory, no matter how the last one ended.                       *)
THEOREM MemoryLeftAlone == Spec => NoLateDma
<1>1. ReadInv /\ [Next]_vars => [pc = "done" /\ mem' # mem => reads' # reads]_vars
  <2> SUFFICES ASSUME ReadInv, Next, pc = "done", mem' # mem PROVE reads' # reads
    BY DEF vars
  <2>1. CASE mmc_read_data
    BY <2>1 DEF mmc_read_data, ReadInv, Types
  <2>2. ~dma.on
    BY DEF ReadInv, AtRest, Flight
  <2>3. ~Driver
    BY DEF Driver, mmc_set_blocklen, mmc_read_blocks, mmc_trans_data_by_cpu, mmc_rint_wait, Out
  <2>4. ~Hardware
    BY <2>2 DEF Hardware, CardSends, CardGivesUp, DataOver, DmaMoves
  <2>5. ~Evict
    BY EvictInv
  <2> QED BY <2>1, <2>3, <2>4, <2>5 DEF Next
<1> QED BY <1>1, Invariance, PTL DEF Spec, NoLateDma
=============================================================================
