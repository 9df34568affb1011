-------------------------------- MODULE Dram --------------------------------
(***************************************************************************)
(* Bringing up the memory: sunxi_dram_init() of dram_sunxi_dw.c for the    *)
(* A64 (clocks, configuration, training, detection of ranks and geometry   *)
(* by looking for aliases), and what main_sram_only() and mmu_setup() then *)
(* place at the end of the detected memory.                                *)
(*                                                                         *)
(* Addresses are counted in units of 512 bytes, the smallest page size,    *)
(* from the start of the DRAM window (0x40000000).  The controller splits  *)
(* an address into row, bank and column as the CR registers say; a chip    *)
(* ignores the address lines it does not have, which makes aliases.        *)
(*                                                                         *)
(* A definition X_y in front of X is a faulty variant of X, there only to  *)
(* see that the properties notice it; nothing uses it.                     *)
(***************************************************************************)
EXTENDS Integers, FiniteSets, Sequences

CONSTANTS
  Chips,      \* memories that may be soldered: [dual, full, sound, ranks]
  Clks,       \* CONFIG_DRAM_CLK, MHz
  MayStick    \* may a PLL or the controller never get ready?

VARIABLES
  pc, chip, clk,
  para,       \* struct dram_para
  cr,         \* what mctl_set_cr() last put into CR and CR_R1
  regs,       \* groups of settings that have been written
  clocks,     \* PLL11, bus gates and resets: "off", "pll", "on"
  trained,    \* the lanes and ranks the last training covered, and its result
  size,       \* what sunxi_dram_init() returned
  use         \* what main_sram_only() put where: name -> first unit

vars == <<pc, chip, clk, para, cr, regs, clocks, trained, size, use>>
hw   == <<chip, clk>>

Rank  == 0 .. 1
KiB(n) == 2 * n
MiB(n) == 2048 * n
Window == MiB(3072)          \* DRAM from 0x40000000 to the end of 32 bits
Bit(n) == 2 ^ n              \* 1 << n
(* struct rank_para; page is log2 of page_size / 512.                      *)
RankPara == [row : 11 .. 16, bank : 2 .. 3, page : 0 .. 4]
mctl_calc_rank_size(r) == Bit(r.row + r.bank + r.page)
TrueSize(c) == mctl_calc_rank_size(c.ranks[0])
                 + IF c.dual THEN mctl_calc_rank_size(c.ranks[1]) ELSE 0

(* Every chip fits the window; the geometry is one the code looks for.     *)
ASSUME ChipAssumption ==
  \A c \in Chips : /\ c.dual \in BOOLEAN /\ c.full \in BOOLEAN /\ c.sound \in BOOLEAN
                   /\ c.ranks \in [Rank -> RankPara]
                   /\ TrueSize(c) <= Window
ASSUME ClkAssumption == Clks \subseteq 100 .. 1000
-----------------------------------------------------------------------------
(* The controller and the chip (external).  Which storage cell an address  *)
(* selects: rank 0 ends where its configured geometry ends.                *)
Split(geo, u) == [col  |-> u % Bit(geo.page),
                  bank |-> (u \div Bit(geo.page)) % Bit(geo.bank),
                  row  |-> (u \div Bit(geo.page + geo.bank)) % Bit(geo.row)]
Cell(cfg, u) ==
  LET first == mctl_calc_rank_size(cfg.ranks[0])
      k == IF cfg.dual /\ u >= first THEN 1 ELSE 0
      a == Split(cfg.ranks[k], IF k = 1 THEN u - first ELSE u)
      c == chip.ranks[k]
  IN [rank |-> k, col |-> a.col % Bit(c.page), bank |-> a.bank % Bit(c.bank),
      row |-> a.row % Bit(c.row)]
(* Training fails for a rank or byte lanes that are not there.             *)
Training(dual, full) == [dual |-> dual, full |-> full,
                         norank |-> dual /\ ~chip.dual, nolanes |-> full /\ ~chip.full,
                         ok |-> chip.sound /\ (dual => chip.dual) /\ (full => chip.full)]
-----------------------------------------------------------------------------
(* mctl_set_timing_params(): nanoseconds to cycles of the controller, the  *)
(* minima of the LPDDR3 table and the refresh interval in 32-cycle units.  *)
ns_to_t_floor(c, ns) == ((c \div 2) * ns) \div 1000
ns_to_t(c, ns) == ((c \div 2) * ns + 999) \div 1000
AtLeast(t, n) == IF t > n THEN t ELSE n
MinTimes == [tfaw |-> 50, trrd |-> 10, trcd |-> 24, trc |-> 70, txp |-> 8, twtr |-> 8,
             trtp |-> 8, twr |-> 15, trp |-> 27, tras |-> 42, trfc |-> 210]
MinCycles == [tfaw |-> 4, trrd |-> 2, trcd |-> 2, trc |-> 0, txp |-> 2, twtr |-> 2,
              trtp |-> 2, twr |-> 3, trp |-> 2, tras |-> 0, trfc |-> 0]
Cycles(c, t) == AtLeast(ns_to_t(c, MinTimes[t]), MinCycles[t])
                  % (IF t = "trfc" THEN 65536 ELSE 256)
trefi(c) == (ns_to_t(c, 3900) \div 32) % 65536
(* clock_set_pll11(): steps of 24 MHz and a multiplier of six bits; the    *)
(* memory runs at half of the PLL that mctl_sys_init() asks for.           *)
clock_set_pll11(mhz) == 24 * ((((mhz \div 24) - 1) % 64) + 1)
DramClk(c) == clock_set_pll11(2 * c) \div 2
-----------------------------------------------------------------------------
Geometry(r, b, p) == [row |-> r, bank |-> b, page |-> p]
Init == /\ pc = <<"sys">> /\ chip \in Chips /\ clk \in Clks
        /\ para = [dual |-> TRUE, full |-> TRUE, ranks |-> [k \in Rank |-> Geometry(15, 3, 3)]]
        /\ cr = para /\ regs = {} /\ clocks = "off"
        /\ trained = [dual |-> FALSE, full |-> FALSE, norank |-> FALSE, nolanes |-> FALSE, ok |-> FALSE]
        /\ size = 0 /\ use = <<>>

(* mctl_await_completion(): panic when the bit does not come within 1 s.   *)
Awaits(next) == \/ pc' = next
                \/ MayStick /\ pc' = <<"panic1">>

(* mctl_sys_init(): everything off, PLL11, then clock, resets and gates.   *)
(* clock_set_pll11() waits for its update bit without a limit.             *)
mctl_sys_init ==
  /\ pc = <<"sys">>
  /\ \/ Awaits(<<"channel">>) /\ clocks' = IF pc' = <<"channel">> THEN "on" ELSE "pll"
     \/ MayStick /\ pc' = <<"hung">> /\ clocks' = "off"
  /\ UNCHANGED <<hw, para, cr, regs, trained, size, use>>

(* mctl_channel_init() up to its first mctl_phy_init().                    *)
Settings == {"cr", "timing", "priority", "vtc", "odt", "dtcr", "delays", "zq"}
mctl_channel_init ==
  /\ pc = <<"channel">>
  /\ cr' = para /\ regs' = Settings
  /\ Awaits(<<"trained">>)
  /\ trained' = IF pc' = <<"trained">> THEN Training(para.dual, para.full) ELSE trained
  /\ UNCHANGED <<hw, para, clocks, size, use>>

(* ... "detect ranks and bus width": a failing second rank or upper half   *)
(* is given up and the rest trained again.                                 *)
Found(t) == [para EXCEPT !.dual = @ /\ ~t.norank, !.full = @ /\ ~t.nolanes]
retrain ==
  /\ pc = <<"trained">> /\ ~trained.ok
  /\ para' = Found(trained) /\ cr' = para'
  /\ trained' = Training(para'.dual, para'.full)
  /\ \/ pc' = IF trained'.ok THEN <<"ready">> ELSE <<"panic3">>    \* return 1
     \/ MayStick /\ pc' = <<"panic1">>
  /\ UNCHANGED <<hw, regs, clocks, size, use>>
accept == /\ pc = <<"trained">> /\ trained.ok /\ pc' = <<"ready">>
          /\ UNCHANGED <<hw, para, cr, regs, clocks, trained, size, use>>

(* ... the rest: wait for the controller, refresh, pads, master access;    *)
(* then sunxi_dram_init()'s on-die termination and credit settings.        *)
enable_access ==
  /\ pc = <<"ready">> /\ Awaits(<<"row", 0>>)
  /\ regs' = IF pc' = <<"row", 0>> THEN regs \cup {"maer", "odtmap", "credit"} ELSE regs
  /\ UNCHANGED <<hw, para, cr, clocks, trained, size, use>>
-----------------------------------------------------------------------------
(* mctl_mem_matches_base(): two writes, then whether both read the same.   *)
mctl_mem_matches_base(cfg, offset, base) == Cell(cfg, base) = Cell(cfg, base + offset)
(* mctl_auto_detect_dram_size_rank() in three parts, each with a generous  *)
(* CR first and then the first exponent whose address line does nothing.   *)
FirstMatch(from, to, aliases) ==
  CHOOSE n \in from .. to : /\ n = to \/ n \in aliases
                            /\ \A m \in from .. n - 1 : m \notin aliases
Base_zero(k) == 0
Base(k) == IF k = 0 THEN 0 ELSE mctl_calc_rank_size(para.ranks[0])
Probe(k, geo) == [para EXCEPT !.ranks[k] = geo]
RowTop == 16
rank_row(k) ==
  LET cfg == Probe(k, Geometry(16, 2, 0))
      n == FirstMatch(11, RowTop, {i \in 11 .. RowTop : mctl_mem_matches_base(cfg, Bit(i + 2), Base(k))})
  IN /\ pc = <<"row", k>> /\ pc' = <<"bank", k>>
     /\ cr' = cfg /\ para' = Probe(k, Geometry(n, 2, 0))
     /\ UNCHANGED <<hw, regs, clocks, trained, size, use>>
rank_bank(k) ==
  LET cfg == Probe(k, [para.ranks[k] EXCEPT !.bank = 3])
      n == FirstMatch(2, 3, {i \in 2 .. 3 : mctl_mem_matches_base(cfg, Bit(i), Base(k))})
  IN /\ pc = <<"bank", k>> /\ pc' = <<"page", k>>
     /\ cr' = cfg /\ para' = Probe(k, [para.ranks[k] EXCEPT !.bank = n])
     /\ UNCHANGED <<hw, regs, clocks, trained, size, use>>
(* mctl_auto_detect_dram_size(): the second rank starts where the first,   *)
(* as just detected, ends.                                                 *)
rank_page(k) ==
  LET cfg == Probe(k, [para.ranks[k] EXCEPT !.page = 4])
      n == FirstMatch(0, 4, {i \in 0 .. 4 : mctl_mem_matches_base(cfg, Bit(i), Base(k))})
  IN /\ pc = <<"page", k>>
     /\ pc' = IF k = 0 /\ para.dual THEN <<"row", 1>> ELSE <<"size">>
     /\ cr' = cfg /\ para' = Probe(k, [para.ranks[k] EXCEPT !.page = n])
     /\ UNCHANGED <<hw, regs, clocks, trained, size, use>>

(* The end of sunxi_dram_init(): the final CR and the sum of the ranks.    *)
FinalCr_stale == cr
FinalCr == para
sunxi_dram_init ==
  /\ pc = <<"size">> /\ pc' = <<"layout">> /\ cr' = FinalCr
  /\ size' = mctl_calc_rank_size(para.ranks[0])
               + IF para.dual THEN mctl_calc_rank_size(para.ranks[1]) ELSE 0
  /\ UNCHANGED <<hw, para, regs, clocks, trained, use>>

(* main_sram_only() and mmu_setup(): globals and heap from 256 MiB below   *)
(* the end (globals, console, log, stack), translation tables in the last  *)
(* 8 KiB.  globals->dram_size is 32 bits wide.                             *)
HeapBack == MiB(256)
HeapUsed == MiB(64)        \* bound on what p-boot allocates (nothing is freed)
TableSize == KiB(8)
TableStart_low == size - HeapBack
TableStart == size - TableSize
main_sram_only ==
  /\ pc = <<"layout">> /\ pc' = <<"up">>
  /\ use' = [heap |-> size - HeapBack, tables |-> TableStart, told |-> size % MiB(4096)]
  /\ UNCHANGED <<hw, para, cr, regs, clocks, trained, size>>

(* Where boot_prepare() and load_splash() load to, from the start of       *)
(* memory: kernel, picture, tree, second tree and initramfs; and the most  *)
(* bootfs_load_image() loads.                                              *)
LoadPlaces == {MiB(0), MiB(128), MiB(160), MiB(176), MiB(254)}
LoadLimit == MiB(512)

(* What mmu_setup()'s tables say of an address of the 4 GiB space, in MiB: *)
(* a table of 2 MiB blocks for the first GiB, 1 GiB blocks above.          *)
mmu_attr(mib) == CASE mib < 2 -> "mem"  [] mib \in 2 .. 1023 -> "dev"  [] OTHER -> "mem"
-----------------------------------------------------------------------------
Next == \/ mctl_sys_init \/ mctl_channel_init \/ retrain \/ accept \/ enable_access
        \/ \E k \in Rank : rank_row(k) \/ rank_bank(k) \/ rank_page(k)
        \/ sunxi_dram_init \/ main_sram_only
Spec == Init /\ [][Next]_vars
-----------------------------------------------------------------------------
(* The state stays within its types; sizes never leave the DRAM window.    *)
DramTypeOK ==
  /\ para.dual \in BOOLEAN /\ para.full \in BOOLEAN /\ para.ranks \in [Rank -> RankPara]
  /\ cr.ranks \in [Rank -> RankPara] /\ size \in 0 .. Window
  /\ regs \subseteq Settings \cup {"maer", "odtmap", "credit"}
  /\ clocks \in {"off", "pll", "on"}

(* Detection is right: whatever sound chip is fitted, training settles on  *)
(* the ranks and width it has, and the returned size is its size; a chip   *)
(* that cannot be trained ends in panic 3.  (sunxi_dram_init, retraining   *)
(* and alias probing of dram_sunxi_dw.c)                                   *)
SizeRight ==
  /\ DramTypeOK
  /\ pc \in {<<"layout">>, <<"up">>} =>
       /\ chip.sound /\ size = TrueSize(chip)
       /\ para.dual = chip.dual /\ para.full = chip.full
  /\ pc = <<"panic3">> => ~chip.sound

Lines(cfg, k) == {Bit(i) : i \in 0 .. cfg.ranks[k].row + cfg.ranks[k].bank + cfg.ranks[k].page - 1}

(* Once sunxi_dram_init() has returned, the controller maps every address  *)
(* line of the reported memory to one of the chip: no two reported         *)
(* addresses that differ in one line share a cell, across both ranks.      *)
NoAliases ==
  pc \in {<<"layout">>, <<"up">>} =>
    \A k \in IF para.dual THEN Rank ELSE {0} :
      LET b == Base(k) IN
      \A x \in Lines(para, k) : /\ b + x < size
                                /\ \A y \in Lines(para, k) \cup {0} :
                                     x # y => Cell(cr, b + x) # Cell(cr, b + y)

(* What is placed at the end of memory lies inside it, apart, in cacheable *)
(* memory, and is not overwritten by what is loaded later: from 1 GiB on,  *)
(* which all PinePhones have, by nothing bootfs_load_image() accepts at    *)
(* any of the fixed addresses; with the 512 MiB the layout of main.c needs *)
(* at the least, by nothing of up to 2 MiB.  There an initramfs of more,   *)
(* which is not refused, runs over globals and heap.  The size passed on   *)
(* in 32 bits is the size.                                                 *)
LayoutSound ==
  pc = <<"up">> /\ size >= MiB(512) =>
    /\ \A at \in LoadPlaces : at + (IF size >= MiB(1024) THEN LoadLimit ELSE MiB(2)) <= use.heap
    /\ use.heap + HeapUsed <= use.tables
    /\ use.tables + TableSize = size /\ use.tables % KiB(4) = 0
    /\ \A u \in {use.heap, use.tables} : mmu_attr(1024 + u \div 2048) = "mem"
    /\ use.told = TrueSize(chip)

(* The cycles written to the timing registers cover the nanoseconds the    *)
(* chip asks for and fit their fields, and refresh comes often enough, at  *)
(* the clock the PLL really makes of the one asked for.  (clock_set_pll11, *)
(* mctl_set_timing_params of lpddr3_stock.c)                               *)
TimingsCover ==
  "timing" \in regs =>
    /\ DramClk(clk) <= clk
    /\ \A t \in DOMAIN MinTimes : Cycles(clk, t) * 2000 >= DramClk(clk) * MinTimes[t]
    /\ trefi(clk) * 32 * 2000 <= DramClk(clk) * 3900 /\ trefi(clk) > 0
=============================================================================
