------------------------------- MODULE MCMmc -------------------------------
(* Cards for Mmc: the versions mmc.c tells apart, with and without the     *)
(* modes it can use, and cards that announce a mode and then refuse it.    *)
EXTENDS Mmc

Blank ==
  [kind |-> "none", v2 |-> FALSE, hc |-> FALSE, busy |-> 0, rca |-> 7, csize |-> 0, cmult |-> 0, bl |-> 1,
   speed |-> 25000, version |-> 0, rev |-> 0, sectors |-> 0, parts |-> FALSE, completed |-> FALSE,
   refuse |-> {}, wires |-> 8, t52 |-> FALSE, ddr52 |-> FALSE, t26 |-> FALSE, wide |-> FALSE, hs |-> FALSE]
Sd   == [Blank EXCEPT !.kind = "sd", !.v2 = TRUE, !.version = 102, !.busy = 1, !.wide = TRUE, !.hs = TRUE,
                      !.csize = 3, !.cmult = 2, !.bl = 2, !.sectors = 128]
Emmc == [Blank EXCEPT !.kind = "mmc", !.hc = TRUE, !.busy = 2, !.version = 40, !.rev = 8, !.speed = 26000,
                      !.csize = 4095, !.cmult = 7, !.bl = 1, !.sectors = 30535680,
                      !.t52 = TRUE, !.ddr52 = TRUE, !.t26 = TRUE]
MCChips ==
  {Blank, Sd,
   [Sd EXCEPT !.hc = TRUE, !.version = 103, !.csize = 15, !.bl = 1, !.sectors = 16 * 1024],
   [Sd EXCEPT !.v2 = FALSE, !.version = 100, !.busy = 0, !.wide = FALSE, !.hs = FALSE],
   [Sd EXCEPT !.version = 101, !.refuse = {<<"speed", 1>>}],
   [Sd EXCEPT !.busy = 4],
   Emmc, [Emmc EXCEPT !.ddr52 = FALSE, !.busy = 0, !.parts = TRUE, !.completed = TRUE],
   [Emmc EXCEPT !.refuse = {<<"ddr", 8>>, <<"ddr", 4>>, <<"width", 8>>}, !.busy = 1],
   [Emmc EXCEPT !.refuse = {<<"hs", 1>>}],
   [Emmc EXCEPT !.wires = 4], [Sd EXCEPT !.wires = 1],
   [Emmc EXCEPT !.rev = 9],
   [Blank EXCEPT !.kind = "mmc", !.version = 3, !.speed = 20000, !.csize = 7, !.cmult = 1, !.sectors = 64],
   [Blank EXCEPT !.kind = "mmc", !.version = 40, !.rev = 1, !.speed = 20000, !.csize = 7, !.cmult = 1,
                 !.sectors = 64, !.t26 = TRUE]}
=============================================================================
