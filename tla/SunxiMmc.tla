------------------------------ MODULE SunxiMmc ------------------------------
(***************************************************************************)
(* Reading from a card: mmc_read_data() of storage.c, mmc_bread() and      *)
(* mmc_read_blocks() of mmc.c, and sunxi_mmc_send_cmd_common() with its    *)
(* DMA and PIO transfers, beside the controller, its DMA engine and the    *)
(* card, which run on their own.                                           *)
(*                                                                         *)
(* Memory and card are counted in sectors; sector s holds the value s.     *)
(* The data cache holds lines the CPU wrote before, which it may write     *)
(* back at any moment; that it might fetch a line by itself is left out.   *)
(* Commands or their responses may be lost, a block may arrive broken, and *)
(* a wait of the driver may run out of time at any moment.                 *)
(*                                                                         *)
(* A definition X_y in front of X is a faulty variant of X, there only to  *)
(* see that the properties notice it; nothing uses it.                     *)
(***************************************************************************)
EXTENDS Integers, Sequences, FiniteSets

CONSTANTS
  BlockLen,    \* read_bl_len (512)
  Lba,         \* sectors of the card
  BMax,        \* cfg->b_max: sectors of one command (65535)
  BufMax,      \* DMA_BUF_MAX_SIZE in sectors (16)
  NDescs,      \* n_dma_descs (4096)
  FifoMax,     \* sectors the FIFO holds
  Requests,    \* [dest, off, len, dram]: reads p-boot may ask for
  MemSize,     \* sectors of memory
  LineLen,     \* length of a cache line
  Ddrs,        \* whether mmc_init() chose DDR52
  MaxFaults, MaxReads

ASSUME SunxiAssumption ==
  /\ {BlockLen, Lba, BMax, BufMax, NDescs, FifoMax, LineLen} \subseteq Nat \ {0}
  /\ {MemSize, MaxFaults, MaxReads} \subseteq Nat /\ Ddrs \subseteq BOOLEAN
  /\ \A r \in Requests : r \in [dest : Nat, off : Nat, len : Nat, dram : BOOLEAN]
  /\ \A r \in Requests : r.dest + (r.len + BlockLen - 1) \div BlockLen <= MemSize
  \* b_max and n_dma_descs are chosen together: a command never lacks descriptors
  /\ BMax <= NDescs * BufMax

VARIABLES
  pc,       \* where the driver is
  req,      \* the request being served
  at,       \* mmc_bread(): [start, todo, dst]
  tries,    \* of mmc_set_blocklen()
  moved,    \* sectors PIO has copied
  error,    \* of the command that ends
  ok,       \* what mmc_read_data() returned
  ctl,      \* controller: [ddr, rint, left, auto, fifo]
  dma,      \* engine: [on, descs, irq]
  card,     \* [st, pos, ddr, multi]
  mem,
  dirty,    \* cache lines the CPU has written, not yet in memory
  faults, reads

vars == <<pc, req, at, tries, moved, error, ok, ctl, dma, card, mem, dirty, faults, reads>>
driver == <<req, at, tries, moved, error, ok, reads>>
Addresses == 0 .. MemSize - 1
Line(a) == a \div LineLen
Old == -1
-----------------------------------------------------------------------------
(* mmc_read_data() and the checks of mmc_bread().  No sectors at all are   *)
(* a success without a command; a read past the end fails at once.         *)
Sectors(r) == (r.len + BlockLen - 1) \div BlockLen
Returned(good) == pc' = "done" /\ ok' = good
mmc_read_data ==
  /\ pc \in {"idle", "done"} /\ reads < MaxReads /\ reads' = reads + 1
  /\ \E r \in Requests :
       LET start == r.off \div BlockLen
       IN  /\ req' = r /\ at' = [start |-> start, todo |-> Sectors(r), dst |-> r.dest]
           /\ mem' = [a \in Addresses |-> Old]   \* forgotten, to see what this read writes
           /\ dirty' \in {{}} \cup {{Line(a)} : a \in {b \in Addresses : r.dram}}
           /\ CASE Sectors(r) = 0 -> Returned(TRUE)
                [] Sectors(r) > 0 /\ start + Sectors(r) > Lba -> Returned(FALSE)
                [] OTHER -> pc' = (IF card.ddr THEN "chunk" ELSE "blocklen") /\ UNCHANGED ok
  /\ tries' = 0 /\ UNCHANGED <<moved, error, ctl, dma, card, faults>>

(* mmc_set_blocklen(), which a DDR mode leaves out: CMD16, tried again up  *)
(* to five times.  A card that still sends does not take it.               *)
Lossy == faults < MaxFaults /\ faults' = faults + 1
mmc_set_blocklen ==
  /\ pc = "blocklen" /\ UNCHANGED <<req, at, moved, error, reads, ctl, dma, card, mem, dirty>>
  /\ \/ card.st = "tran" /\ pc' = "chunk" /\ UNCHANGED <<tries, ok, faults>>
     \/ /\ IF card.st = "tran" THEN Lossy ELSE UNCHANGED faults
        /\ IF tries < 5 THEN pc' = "blocklen" /\ tries' = tries + 1 /\ UNCHANGED ok
                        ELSE Returned(FALSE) /\ UNCHANGED tries

(* mmc_trans_data_by_dma(): one descriptor for every DMA_BUF_MAX_SIZE; all *)
(* but the last have their interrupt disabled (DIC).                       *)
Cur == IF at.todo > BMax THEN BMax ELSE at.todo
Descs(dst, n) ==
  [i \in 1 .. (n + BufMax - 1) \div BufMax |->
     [addr |-> dst + (i - 1) * BufMax,
      size |-> IF i * BufMax <= n THEN BufMax ELSE n % BufMax]]
usedma == req.dram
(* Lines written back and dropped: from the one buf is in, len rounded up  *)
(* to more than is needed.                                                 *)
flush_dcache_range(start, stop) == dirty \ {Line(a) : a \in start .. stop - 1}
flush_cache_auto_align(buf, len) ==
  LET start == LineLen * Line(buf)
  IN  flush_dcache_range(start, start + LineLen * ((len + 2 * LineLen) \div LineLen))
mmc_trans_data_by_dma ==
  /\ dma' = [on |-> TRUE, descs |-> Descs(at.dst, Cur), irq |-> FALSE]
  /\ dirty' = flush_cache_auto_align(at.dst, Cur)

(* sunxi_mmc_send_cmd_common() up to the write to the command register.    *)
(* AUTO_STOP goes with more than one block.                                *)
AutoStop_never == FALSE
AutoStop == Cur > 1
Responds ==
  \/ /\ card.st = "tran" /\ UNCHANGED faults
     /\ card' = [card EXCEPT !.st = "data", !.pos = at.start, !.multi = Cur > 1]
     /\ ctl' = [ctl EXCEPT !.rint = {"cmd"}, !.left = Cur, !.auto = AutoStop]
  \/ /\ IF card.st = "tran" THEN Lossy ELSE UNCHANGED faults
     /\ card' \in {card} \cup {c \in {[card EXCEPT !.st = "data", !.pos = at.start, !.multi = Cur > 1]} : card.st = "tran"}
     /\ ctl' = [ctl EXCEPT !.rint = {"error"}, !.left = 0, !.auto = FALSE]
mmc_read_blocks ==
  /\ pc = "chunk" /\ Responds
  /\ IF usedma THEN mmc_trans_data_by_dma ELSE UNCHANGED <<dma, dirty>>
  /\ pc' = (IF usedma THEN "cmd" ELSE "pio") /\ moved' = 0 /\ error' = FALSE
  /\ UNCHANGED <<req, at, tries, ok, mem, reads>>
-----------------------------------------------------------------------------
(* The hardware.  The card sends while the controller expects blocks; one  *)
(* that arrives broken, or on a bus the two sides see differently, is an   *)
(* error and ends the transfer.                                            *)
CardSends ==
  /\ card.st = "data" /\ ctl.left > 0 /\ Len(ctl.fifo) < FifoMax
  /\ card' = [card EXCEPT !.pos = @ + 1, !.st = IF card.multi THEN @ ELSE "tran"]
  /\ \/ /\ card.ddr = ctl.ddr /\ UNCHANGED faults
        /\ ctl' = [ctl EXCEPT !.left = @ - 1, !.fifo = Append(@, card.pos)]
     \/ /\ IF card.ddr = ctl.ddr THEN Lossy ELSE UNCHANGED faults
        /\ ctl' = [ctl EXCEPT !.left = 0, !.auto = FALSE, !.rint = @ \cup {"error"}]
  /\ UNCHANGED <<pc, driver, dma, mem, dirty>>

(* A single block the host does not want any more goes by unread. *)
CardGivesUp ==
  /\ card.st = "data" /\ ~card.multi /\ ctl.left = 0 /\ card' = [card EXCEPT !.st = "tran"]
  /\ UNCHANGED <<pc, driver, ctl, dma, mem, dirty, faults>>

(* All blocks received: DATA_OVER, or the controller's own CMD12 and       *)
(* AUTO_COMMAND_DONE.                                                      *)
DataOver ==
  /\ "cmd" \in ctl.rint /\ "error" \notin ctl.rint /\ ctl.left = 0
  /\ (IF ctl.auto THEN "auto" ELSE "over") \notin ctl.rint
  /\ ctl' = [ctl EXCEPT !.rint = @ \cup {IF ctl.auto THEN "auto" ELSE "over"}]
  /\ card' = [card EXCEPT !.st = IF ctl.auto THEN "tran" ELSE @]
  /\ UNCHANGED <<pc, driver, dma, mem, dirty, faults>>

(* The engine empties the FIFO into the buffers; the end of the last one   *)
(* sets the receive interrupt.                                             *)
LastDesc(d) == Len(d) = 1
DmaMoves ==
  /\ dma.on /\ ctl.fifo # <<>> /\ dma.descs # <<>>
  /\ LET d == Head(dma.descs) end == d.size = 1
     IN  /\ mem' = [mem EXCEPT ![d.addr] = Head(ctl.fifo)]
         /\ dma' = [dma EXCEPT !.descs = IF end THEN Tail(@) ELSE [@ EXCEPT ![1] = [addr |-> d.addr + 1, size |-> d.size - 1]],
                               !.irq = @ \/ (end /\ LastDesc(dma.descs))]
  /\ ctl' = [ctl EXCEPT !.fifo = Tail(@)]
  /\ UNCHANGED <<pc, driver, card, dirty, faults>>

(* The cache writes back a line whole, over whatever is in memory now. *)
Evict ==
  /\ dirty # {} /\ dirty' = {}
  /\ mem' = [a \in Addresses |-> IF Line(a) \in dirty THEN Old ELSE mem[a]]
  /\ UNCHANGED <<pc, driver, ctl, dma, card, faults>>
-----------------------------------------------------------------------------
(* mmc_trans_data_by_cpu(): waits for the FIFO without a look at the       *)
(* status, until all blocks have come or time is up.                       *)
mmc_trans_data_by_cpu ==
  /\ pc = "pio" /\ UNCHANGED <<req, at, tries, ok, reads, dma, card, dirty>>
  /\ \/ /\ ctl.fifo # <<>> /\ moved < Cur /\ moved' = moved + 1
        /\ mem' = [mem EXCEPT ![at.dst + moved] = Head(ctl.fifo)]
        /\ ctl' = [ctl EXCEPT !.fifo = Tail(@)] /\ UNCHANGED <<pc, error, faults>>
     \/ moved = Cur /\ pc' = "cmd" /\ UNCHANGED <<moved, error, faults, ctl, mem>>
     \/ /\ moved < Cur /\ IF "error" \in ctl.rint /\ ctl.fifo = <<>> THEN UNCHANGED faults ELSE Lossy
        /\ pc' = "out" /\ error' = TRUE /\ UNCHANGED <<moved, ctl, mem>>

(* mmc_rint_wait(): the error bit and the clock are looked at before the   *)
(* bit that is waited for, and with DMA its interrupt as well.             *)
DmaDone_ignored == TRUE
DmaDone == usedma => dma.irq
mmc_rint_wait ==
  /\ pc \in {"cmd", "data"} /\ UNCHANGED <<req, at, tries, moved, ok, reads, ctl, dma, card, mem, dirty>>
  /\ LET bit == CASE pc = "cmd" -> "cmd" [] pc = "data" /\ Cur > 1 -> "auto" [] OTHER -> "over"
     IN  \/ "error" \in ctl.rint /\ pc' = "out" /\ error' = TRUE /\ UNCHANGED faults
         \/ "error" \notin ctl.rint /\ Lossy /\ pc' = "out" /\ error' = TRUE
         \/ /\ "error" \notin ctl.rint /\ bit \in ctl.rint /\ (pc = "data" => DmaDone)
            /\ pc' = (IF pc = "cmd" THEN "data" ELSE "out") /\ UNCHANGED <<error, faults>>

(* The end of a command: the engine is stopped; after an error the         *)
(* controller is reset, and with it the DDR setting, which nobody          *)
(* restores.  Then mmc_read_blocks() and the loop of mmc_bread(); the stop *)
(* command of mmc_read_blocks() is never sent (cmdidx 12 returns 0).       *)
StopDma(d) == IF usedma THEN [d EXCEPT !.on = FALSE, !.irq = FALSE] ELSE d
FifoReset == <<>>
Out_early ==
  /\ pc = "out"
  /\ IF error THEN Returned(FALSE) /\ UNCHANGED <<at, dma, ctl>>
     ELSE /\ at' = [start |-> at.start + Cur, todo |-> at.todo - Cur, dst |-> at.dst + Cur]
          /\ IF at.todo = Cur THEN Returned(TRUE) ELSE pc' = "chunk" /\ UNCHANGED ok
          /\ dma' = StopDma(dma) /\ ctl' = [ctl EXCEPT !.rint = {}, !.fifo = FifoReset]
  /\ UNCHANGED <<req, tries, moved, error, card, mem, dirty, faults, reads>>
Out ==
  /\ pc = "out" /\ dma' = StopDma(dma)
  /\ ctl' = IF error THEN [ddr |-> FALSE, rint |-> {}, left |-> 0, auto |-> FALSE, fifo |-> FifoReset]
                     ELSE [ctl EXCEPT !.rint = {}, !.fifo = FifoReset]
  /\ IF error THEN Returned(FALSE) /\ UNCHANGED at
     ELSE /\ at' = [start |-> at.start + Cur, todo |-> at.todo - Cur, dst |-> at.dst + Cur]
          /\ IF at.todo = Cur THEN Returned(TRUE) ELSE pc' = "chunk" /\ UNCHANGED ok
  /\ UNCHANGED <<req, tries, moved, error, card, mem, dirty, faults, reads>>

Init ==
  /\ pc = "idle" /\ req = [dest |-> 0, off |-> 0, len |-> 0, dram |-> FALSE]
  /\ at = [start |-> 0, todo |-> 0, dst |-> 0] /\ tries = 0 /\ moved = 0 /\ error = FALSE /\ ok = FALSE
  /\ \E d \in Ddrs :
       /\ ctl = [ddr |-> d, rint |-> {}, left |-> 0, auto |-> FALSE, fifo |-> <<>>]
       /\ card = [st |-> "tran", pos |-> 0, ddr |-> d, multi |-> FALSE]
  /\ dma = [on |-> FALSE, descs |-> <<>>, irq |-> FALSE]
  /\ mem = [a \in Addresses |-> Old] /\ dirty = {} /\ faults = 0 /\ reads = 0

Driver == mmc_set_blocklen \/ mmc_read_blocks \/ mmc_trans_data_by_cpu \/ mmc_rint_wait \/ Out
Hardware == CardSends \/ CardGivesUp \/ DataOver \/ DmaMoves
Next == mmc_read_data \/ Driver \/ Hardware \/ Evict
(* The driver's loops run on, and so does the hardware. *)
Spec == Init /\ [][Next]_vars /\ WF_vars(Driver) /\ WF_vars(Hardware)
-----------------------------------------------------------------------------
(* Types: one command never runs past its descriptors, the FIFO or the end *)
(* of the card.                                                            *)
SunxiTypeOK ==
  /\ pc \in {"idle", "blocklen", "chunk", "pio", "cmd", "data", "out", "done"}
  /\ at.todo \in Nat /\ (pc \notin {"idle", "done"} => at.start + at.todo <= Lba) /\ tries \in 0 .. 5 /\ moved \in 0 .. BMax
  /\ Len(ctl.fifo) <= FifoMax /\ ctl.left \in 0 .. BMax /\ ctl.rint \subseteq {"cmd", "auto", "over", "error"}
  /\ Len(dma.descs) <= NDescs /\ \A i \in 1 .. Len(dma.descs) : dma.descs[i].size \in 1 .. BufMax
  /\ dirty \subseteq {Line(a) : a \in Addresses}
  /\ card.st \in {"tran", "data"} /\ mem \in [Addresses -> Old .. Lba] /\ faults \in 0 .. MaxFaults

Wanted(a) == a \in req.dest .. req.dest + Sectors(req) - 1

(* mmc_read_data() says true only when every sector asked for is in        *)
(* memory, in its place, with no line of the cache in front of it or still *)
(* to be written over it; and nothing is written outside of the buffer,     *)
(* also by a read that fails, and whatever went wrong in reads before.     *)
(* With nothing going wrong every read within the card succeeds.           *)
ReadComplete ==
  /\ SunxiTypeOK
  /\ \A a \in Addresses : mem[a] # Old => Wanted(a)
  /\ pc = "done" /\ ok => \A a \in Addresses : Wanted(a) =>
       mem[a] = req.off \div BlockLen + a - req.dest /\ Line(a) \notin dirty
  /\ faults = 0 /\ pc = "done" /\ req.off \div BlockLen + Sectors(req) <= Lba => ok

(* Once mmc_read_data() has returned, the engine leaves memory alone: data *)
(* of a transfer that was given up never lands in a buffer later.          *)
NoLateDma == [][pc = "done" /\ mem' # mem => reads' # reads]_vars

(* Every read returns: no lost command, broken block or full FIFO leaves   *)
(* the driver waiting for ever.                                            *)
ReadReturns == (pc \notin {"idle", "done"}) ~> (pc = "done")
=============================================================================
