----------------------------- MODULE MCSunxiMmc -----------------------------
(* Reads of zero, one and several commands, with a partial last sector and *)
(* a partial last descriptor, into DRAM (DMA) and SRAM (PIO), aligned to   *)
(* cache lines and not, and one past the end of the card.                  *)
EXTENDS SunxiMmc
MCRequests ==
  {[dest |-> 2, off |-> 4, len |-> 15, dram |-> TRUE], [dest |-> 0, off |-> 0, len |-> 3, dram |-> TRUE],
   [dest |-> 2, off |-> 2, len |-> 6, dram |-> FALSE], [dest |-> 3, off |-> 8, len |-> 2, dram |-> FALSE],
   [dest |-> 0, off |-> 18, len |-> 4, dram |-> TRUE], [dest |-> 0, off |-> 4, len |-> 0, dram |-> TRUE]}
=============================================================================
