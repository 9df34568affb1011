----------------------------- MODULE MCBootMenu ----------------------------
EXTENDS BootMenu

Mk(fs, e, s, src) ==
  [fs |-> fs, conf |-> [d \in Dev |-> IF d = "emmc" THEN e ELSE s], src |-> src]

(* Both bootfs with a hole at configuration 0 of eMMC, where the cursor is *)
(* to go without a default.                                                *)
HoleyCards == { Mk({"emmc", "sd"}, {1}, {0}, "MMC0") }
=============================================================================
