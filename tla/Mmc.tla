-------------------------------- MODULE Mmc --------------------------------
(***************************************************************************)
(* mmc_init() of the MMC stack (uboot/drivers/mmc/mmc.c) on top of the     *)
(* controller settings of sunxi_mmc.c: identification of SD cards and      *)
(* eMMC, capacity, and the choice of a bus mode with its fallbacks.        *)
(*                                                                         *)
(* The card is the other party: it keeps its own bus width, timing and     *)
(* state, and a command may be lost, or be carried out and its response be *)
(* lost; to the driver both are -ETIMEDOUT.                                *)
(*                                                                         *)
(* As built, the stack has neither UHS, HS200, HS400, tuning nor writing   *)
(* (CONFIG_IS_ENABLED() asks for CONFIG_SPL_...), but MMC_QUIRKS.          *)
(* Frequencies are in kHz, capacities in sectors.                          *)
(*                                                                         *)
(* A definition X_y in front of X is a faulty variant of X, there only to  *)
(* see that the properties notice it; nothing uses it.                     *)
(***************************************************************************)
EXTENDS Integers, Sequences

CONSTANTS
  Chips,       \* the cards that may be in the slot
  Numbers,     \* mmc_no: 0 the SD slot, 2 the eMMC
  MaxFaults,   \* commands and clock changes that fail
  MaxPolls     \* turns of the op_cond loops before they give up (1000)

VARIABLES
  chip,     \* what the card is: constant data of the card
  card,     \* its state: [st, rca, width, hs, ddr, busy, app]
  no,       \* mmc_no
  mmc,      \* struct mmc (and fatal_err of struct sunxi_mmc_priv)
  host,     \* the controller's settings: [width, ddr, clock]
  pc,       \* the command the driver is about to send
  tries,    \* loop counter of that command
  todo,     \* bus modes still to be tried
  sub,      \* the __mmc_switch() under way: [index, value, ret, else]
  faults

mvars == <<chip, card, no, mmc, host, pc, tries, todo, sub, faults>>
-----------------------------------------------------------------------------
(* Versions: 0 unknown, 1 .. 3 old MMC, 40 + EXT_CSD_REV, and SD. *)
SD_VERSION_1_0 == 100
SD_VERSION_1_10 == 101
SD_VERSION_2 == 102
SD_VERSION_3 == 103
MMC_VERSION_4 == 40
MMC_VERSION_4_2 == 42
IS_SD(m) == m.version >= SD_VERSION_1_0

(* What a card says of itself.  The CSD gives the capacity in sectors of   *)
(* every SD card and of an MMC up to 2 GiB, the extended CSD of a larger   *)
(* one; the clock of the CSD is one the controller can make, and a board   *)
(* wires the lines of a card that cannot be asked whether they work.       *)
CsdSectors(c, hc) == (c.csize + 1) * 2 ^ ((IF hc THEN 8 ELSE c.cmult) + 2) * c.bl
TwoGiB == 2 * 1024 * 2048

ASSUME MmcAssumption ==
  /\ MaxFaults \in Nat /\ MaxPolls \in Nat /\ Numbers \subseteq {0, 2}
  /\ \A c \in Chips :
       /\ c.kind \in {"none", "sd", "mmc"} /\ c.hc \in BOOLEAN
       /\ {c.busy, c.rca, c.csize, c.bl, c.speed, c.version, c.rev, c.sectors, c.wires} \subseteq Nat
       /\ c.cmult \in 0 .. 7
       /\ c.speed >= 400 /\ c.wires >= 1
       /\ c.kind # "none" => (c.kind = "sd" <=> c.version >= SD_VERSION_1_0)
       /\ \/ c.kind = "none" \/ CsdSectors(c, c.hc) = c.sectors
          \/ c.kind = "mmc" /\ c.version >= MMC_VERSION_4 /\ c.rev >= 2 /\ c.sectors > TwoGiB
       /\ c.version = SD_VERSION_1_0 /\ c.wide => c.wires >= 4

f_min == 400
f_max == 52000
HostCaps(n) ==
  (IF n = 2 THEN {"w8", "MMC_DDR_52"} ELSE {"w4"})
  \cup {"w1", "MMC_HS_52", "MMC_HS", "SD_HS", "SD_LEGACY", "MMC_LEGACY"}

mmc_mode2freq(m, mode) ==
  CASE mode = "MMC_LEGACY" -> m.legacy_speed [] mode = "SD_LEGACY" -> 25000
    [] mode = "MMC_HS" -> 26000 [] mode = "SD_HS" -> 50000
    [] mode \in {"MMC_HS_52", "MMC_DDR_52"} -> 52000
is_ddr(mode) == mode = "MMC_DDR_52"

(* mmc_select_mode(), mmc_set_clock() and mmc_set_bus_width() up to their  *)
(* set_ios().                                                              *)
SelectMode(m, mode) == [m EXCEPT !.mode = mode, !.tran_speed = mmc_mode2freq(m, mode)]
ClampClock(khz) == IF khz > f_max THEN f_max ELSE IF khz < f_min THEN f_min ELSE khz
WithClock(m, khz) == [m EXCEPT !.clock = ClampClock(khz)]
WithWidth(m, w) == [m EXCEPT !.width = w]

(* mmc_set_mod_clk(): the rate the card gets for the rate asked for.  The  *)
(* divider n is a power of two, div at most 16; the new mode halves the    *)
(* module clock, and so does the divider that DDR needs.  n > 3 would be   *)
(* an error, but needs a rate below f_min.                                 *)
Divider(pll, hz) == (pll + hz - 1) \div hz
Halved(d) == (d + 1) \div 2
Split(d) ==
  CASE d <= 16 -> [n |-> 0, div |-> d]
    [] d > 16 /\ Halved(d) <= 16 -> [n |-> 1, div |-> Halved(d)]
    [] Halved(d) > 16 /\ Halved(Halved(d)) <= 16 -> [n |-> 2, div |-> Halved(Halved(d))]
    [] OTHER -> [n |-> 3, div |-> Halved(Halved(Halved(d)))]
ModClk(ddr, khz) ==
  LET hz  == khz * (IF ddr THEN 4 ELSE 2)
      pll == IF hz <= 24000 THEN 24000 ELSE 1200000
      s   == Split(Divider(pll, hz))
  IN  [n |-> s.n, rate |-> (pll \div (2 ^ s.n * s.div)) \div (IF ddr THEN 4 ELSE 2)]

(* sunxi_mmc_set_ios_common(); stopping or restarting the clock may time   *)
(* out, after which fatal_err refuses every command.                       *)
Regs(m) ==
  [width |-> m.width, ddr |-> is_ddr(m.mode),
   clock |-> IF m.clock = 0 THEN 0 ELSE ModClk(is_ddr(m.mode), m.clock).rate]
SetIos(m) ==
  \/ host' = Regs(m) /\ mmc' = m /\ UNCHANGED faults
  \/ /\ m.clock # 0 /\ faults < MaxFaults /\ faults' = faults + 1
     /\ mmc' = [m EXCEPT !.fatal = TRUE] /\ UNCHANGED host
-----------------------------------------------------------------------------
(* The bus.  legal: the card answers this command in its state; after: its *)
(* state then.  A data transfer needs both sides to agree on the bus, and  *)
(* lines that are there: a board may wire fewer than the card has.         *)
Agree == card.width = host.width /\ card.ddr = host.ddr /\ card.width <= chip.wires
Plain(c) == [c EXCEPT !.app = FALSE]
send_cmd(legal, after, ok, err) ==
  /\ \/ ~mmc.fatal /\ legal /\ card' = after /\ UNCHANGED faults /\ ok
     \/ ~mmc.fatal /\ ~legal /\ card' = Plain(card) /\ UNCHANGED faults /\ err
     \/ /\ ~mmc.fatal /\ faults < MaxFaults /\ faults' = faults + 1
        /\ card' \in {card, IF legal THEN after ELSE Plain(card)} /\ err
     \/ mmc.fatal /\ UNCHANGED <<card, faults>> /\ err
  /\ UNCHANGED <<chip, no, host>>

Goto(l) == pc' = l /\ tries' = 0 /\ UNCHANGED <<todo, sub>>
Retry_forever(l, n) == pc' = l /\ UNCHANGED <<mmc, tries, todo, sub>>
Retry(l, n) == IF tries < n THEN pc' = l /\ tries' = tries + 1 /\ UNCHANGED <<mmc, todo, sub>>
                            ELSE pc' = "failed" /\ UNCHANGED <<mmc, tries, todo, sub>>
Fail == Goto("failed") /\ UNCHANGED mmc
Next1(l) == Goto(l) /\ UNCHANGED mmc
At(l) == pc = l

(* mmc_start_init() and mmc_get_op_cond() up to the first command: power   *)
(* cycle, controller reset, one line at 400 kHz.                           *)
StartInit ==
  /\ At("start")
  /\ SetIos(WithClock(WithWidth(SelectMode(mmc, "MMC_LEGACY"), 1), 0))
  /\ Goto("go_idle") /\ UNCHANGED <<chip, no, card>>

Idle == [card EXCEPT !.st = "idle", !.rca = 0, !.width = 1, !.hs = FALSE, !.ddr = FALSE, !.app = FALSE]
Present == chip.kind # "none"
mmc_go_idle == At("go_idle") /\ send_cmd(Present, IF Present THEN Idle ELSE card, Next1("if_cond"), Fail)

(* CMD8: only an SD card of version 2 answers; the error is not looked at. *)
mmc_send_if_cond ==
  /\ At("if_cond")
  /\ send_cmd(chip.kind = "sd" /\ chip.v2 /\ card.st = "idle", Plain(card),
              mmc' = [mmc EXCEPT !.version = SD_VERSION_2] /\ Goto("app_cmd"), Next1("app_cmd"))

(* sd_send_op_cond(): CMD55 and ACMD41 until the card is ready; a high     *)
(* capacity card never is unless the host announced HCS.  -ETIMEDOUT means *)
(* the card may be an MMC.                                                 *)
NotSd == IF mmc.fatal THEN Fail ELSE Next1("mmc_idle")
SdAppCmd ==
  /\ At("app_cmd")
  /\ send_cmd(chip.kind = "sd", [card EXCEPT !.app = TRUE],
              pc' = "acmd41" /\ UNCHANGED <<mmc, tries, todo, sub>>, NotSd)
HCS_always == TRUE
HCS == mmc.version = SD_VERSION_2
SdReady == card.busy = 0 /\ (chip.hc => HCS)
SdSendOpCond ==
  /\ At("acmd41")
  /\ send_cmd(chip.kind = "sd" /\ card.app /\ card.st = "idle",
       IF SdReady THEN [Plain(card) EXCEPT !.st = "ready"]
                  ELSE [Plain(card) EXCEPT !.busy = IF @ = 0 THEN 0 ELSE @ - 1],
       IF SdReady
         THEN /\ mmc' = [mmc EXCEPT !.version = IF HCS THEN @ ELSE SD_VERSION_1_0,
                                    !.high_capacity = chip.hc, !.rca = 0]
              /\ Goto("all_send_cid")
         ELSE Retry("app_cmd", MaxPolls),
       NotSd)

(* mmc_send_op_cond(): CMD0, then CMD1 twice to start the card; then       *)
(* mmc_complete_op_cond() polls until it is ready.                         *)
mmc_send_op_cond ==
  /\ At("mmc_idle")
  /\ send_cmd(Present, IF Present THEN Idle ELSE card, Next1("cmd1"), Next1("cmd1"))
Cmd1(ok) ==
  send_cmd(chip.kind = "mmc" /\ card.st \in {"idle", "ready"},
    IF card.busy = 0 THEN [Plain(card) EXCEPT !.st = "ready"]
                     ELSE [Plain(card) EXCEPT !.busy = @ - 1], ok, Fail)
mmc_send_op_cond_iter ==
  /\ At("cmd1")
  /\ Cmd1(CASE card.busy = 0 -> Next1("op_cond_done")
            [] card.busy # 0 /\ tries = 0 -> pc' = "cmd1" /\ tries' = 1 /\ UNCHANGED <<mmc, todo, sub>>
            [] OTHER -> Next1("complete_idle"))
mmc_complete_op_cond ==
  \/ /\ At("complete_idle")
     /\ send_cmd(Present, IF Present THEN Idle ELSE card, Next1("complete"), Next1("complete"))
  \/ At("complete") /\ Cmd1(IF card.busy = 0 THEN Next1("op_cond_done") ELSE Retry("complete", MaxPolls))
OpCondDone ==
  /\ At("op_cond_done")
  /\ mmc' = [mmc EXCEPT !.version = 0, !.high_capacity = chip.hc, !.rca = 1]
  /\ Goto("all_send_cid") /\ UNCHANGED <<chip, no, card, host, faults>>
-----------------------------------------------------------------------------
(* mmc_startup(): CID, with a retry as a quirk, relative address, CSD,     *)
(* selection.                                                              *)
SendCid ==
  /\ At("all_send_cid")
  /\ send_cmd(card.st = "ready", [Plain(card) EXCEPT !.st = "ident"], Next1("rca"), Retry("all_send_cid", 5))
SendRelativeAddr ==
  /\ At("rca")
  /\ LET rca == IF chip.kind = "sd" THEN chip.rca ELSE mmc.rca
     IN  send_cmd(card.st = "ident", [Plain(card) EXCEPT !.st = "stby", !.rca = rca],
                  mmc' = [mmc EXCEPT !.rca = IF IS_SD(mmc) THEN chip.rca ELSE @] /\ Goto("csd"), Fail)
Addressed == card.rca = mmc.rca

(* The CSD: version of an MMC, legacy speed, and the capacity, which is    *)
(* computed before the block length is cut to 512.                         *)
CsdCapacity(m) == CsdSectors(chip, m.high_capacity)
SendCsd ==
  /\ At("csd")
  /\ send_cmd(card.st = "stby" /\ Addressed, Plain(card),
       /\ mmc' = SelectMode([mmc EXCEPT !.version = IF @ = 0 THEN chip.version ELSE @,
                                        !.legacy_speed = chip.speed,
                                        !.capacity_user = CsdCapacity(mmc)], "MMC_LEGACY")
       /\ Goto("select"), Fail)
Selected == card.st = "tran" /\ Addressed
SelectCard ==
  /\ At("select")
  /\ send_cmd(card.st = "stby" /\ Addressed, [Plain(card) EXCEPT !.st = "tran"],
       Next1(CASE IS_SD(mmc) -> "scr_app"
               [] ~IS_SD(mmc) /\ mmc.version < MMC_VERSION_4 -> "old_mmc" [] OTHER -> "ext_csd"), Fail)

(* mmc_startup_v4(): the extended CSD corrects version and capacity;       *)
(* partitioned cards need ERASE_GROUP_DEF.                                 *)
ExtCapacity(m, version) ==
  IF version >= MMC_VERSION_4_2 /\ chip.sectors > TwoGiB THEN chip.sectors ELSE m.capacity_user
mmc_send_ext_csd(ok, err) == send_cmd(Selected /\ Agree, Plain(card), ok, err)
mmc_startup_v4 ==
  /\ At("ext_csd")
  /\ mmc_send_ext_csd(
       IF chip.rev > 8 THEN Fail
       ELSE LET v == MMC_VERSION_4 + chip.rev
                m == [mmc EXCEPT !.version = v, !.ext_csd = TRUE, !.capacity_user = ExtCapacity(mmc, v)]
            IN  /\ mmc' = m /\ tries' = 0 /\ UNCHANGED todo
                /\ IF chip.parts
                     THEN pc' = "switch" /\ sub' = [index |-> "erase_group", value |-> 1, ret |-> "parts", else |-> "failed"]
                     ELSE pc' = "modes" /\ UNCHANGED sub,
       Fail)
(* Partitioning completed: the sector count holds whatever its size. *)
StartupParts ==
  /\ At("parts")
  /\ mmc' = [mmc EXCEPT !.capacity_user = IF mmc.high_capacity /\ chip.completed THEN chip.sectors ELSE @]
  /\ Goto("modes") /\ UNCHANGED <<chip, no, card, host, faults>>

(* __mmc_switch(): CMD6, up to four times, and then its status until the   *)
(* card is ready or time is up.  The card may refuse a value.              *)
Switched(c) ==
  IF <<sub.index, sub.value>> \in chip.refuse THEN Plain(c)
  ELSE CASE sub.index = "width" -> [Plain(c) EXCEPT !.width = sub.value, !.ddr = FALSE]
         [] sub.index = "ddr"   -> [Plain(c) EXCEPT !.width = sub.value, !.ddr = TRUE]
         [] sub.index = "hs"    -> [Plain(c) EXCEPT !.hs = (sub.value = 1)]
         [] OTHER               -> Plain(c)
mmc_send_status(ok, err) == send_cmd(Selected, Plain(card), ok, err)
SubFails == pc' = sub.else /\ tries' = 0 /\ UNCHANGED <<mmc, todo, sub>>
__mmc_switch ==
  \/ /\ At("switch")
     /\ send_cmd(Selected, Switched(card), Next1("switch_status"),
          IF tries < 3 THEN pc' = "switch" /\ tries' = tries + 1 /\ UNCHANGED <<mmc, todo, sub>> ELSE SubFails)
  \/ /\ At("switch_status")
     /\ mmc_send_status(
          IF <<sub.index, sub.value>> \in chip.refuse THEN SubFails
          ELSE pc' = sub.ret /\ tries' = 0 /\ UNCHANGED <<mmc, todo, sub>>,
          Next1("switch_status") \/ SubFails)
Switch(index, value, ret, else) ==
  /\ pc' = "switch" /\ tries' = 0
  /\ sub' = [index |-> index, value |-> value, ret |-> ret, else |-> else]
-----------------------------------------------------------------------------
(* mmc_get_capabilities() and the modes mmc_select_mode_and_width() goes   *)
(* through: best mode first, widest bus first.                             *)
MmcCaps ==
  {"w1", "MMC_LEGACY", "w4", "w8"} \cup (IF chip.t52 THEN {"MMC_HS_52"} ELSE {})
  \cup (IF chip.t52 /\ chip.ddr52 THEN {"MMC_DDR_52"} ELSE {})
  \cup (IF chip.t26 THEN {"MMC_HS"} ELSE {})
Cap(w) == CASE w = 1 -> "w1" [] w = 4 -> "w4" [] w = 8 -> "w8"
Fits(caps, mode, w) == mode \in caps /\ Cap(w) \in caps /\ ~(is_ddr(mode) /\ w = 1)
Attempt(caps, mode, w) == IF Fits(caps, mode, w) THEN <<[mode |-> mode, width |-> w]>> ELSE <<>>
mmc_modes_by_pref(caps) ==
  LET Widths(mode) == Attempt(caps, mode, 8) \o Attempt(caps, mode, 4) \o Attempt(caps, mode, 1)
  IN  Widths("MMC_DDR_52") \o Widths("MMC_HS_52") \o Widths("MMC_HS") \o Widths("MMC_LEGACY")
sd_modes_by_pref(caps) ==
  Attempt(caps, "SD_HS", 4) \o Attempt(caps, "SD_HS", 1) \o Attempt(caps, "SD_LEGACY", 4) \o Attempt(caps, "SD_LEGACY", 1)

MmcModes ==
  /\ At("modes")
  /\ SetIos(WithClock(mmc, mmc.legacy_speed))
  /\ todo' = mmc_modes_by_pref(MmcCaps \cap HostCaps(no))
  /\ pc' = "try" /\ tries' = 0 /\ UNCHANGED <<chip, no, card, sub>>

(* One mode: width, timing, width again for DDR, clock, and a second look  *)
(* at the extended CSD over the new bus.  What mmc_select_mode_and_width() *)
(* returns is not looked at.                                               *)
MmcTry ==
  /\ At("try") /\ UNCHANGED <<chip, no, card, host, faults, mmc, todo>>
  /\ IF todo = <<>> THEN pc' = "finish" /\ UNCHANGED <<tries, sub>>
     ELSE Switch("width", Head(todo).width, "wide", "undo")
MmcWide ==
  /\ At("wide")
  /\ SetIos(WithWidth(mmc, Head(todo).width))
  /\ Switch("hs", IF Head(todo).mode = "MMC_LEGACY" THEN 0 ELSE 1, "timed", "undo")
  /\ UNCHANGED <<chip, no, card, todo>>
MmcTimed ==
  /\ At("timed")
  /\ CASE is_ddr(Head(todo).mode) ->
            /\ Switch("ddr", Head(todo).width, "clock", "undo")
            /\ UNCHANGED <<chip, no, card, host, faults, mmc, todo>>
       [] Head(todo).mode = "MMC_LEGACY" -> Next1("clock") /\ UNCHANGED <<chip, no, card, host, faults>>
       [] OTHER -> mmc_send_ext_csd(Next1(IF card.hs THEN "clock" ELSE "undo"), Next1("undo"))
MmcClock ==
  /\ At("clock")
  /\ LET m == SelectMode(mmc, Head(todo).mode) IN SetIos(WithClock(m, m.tran_speed))
  /\ Goto("compare") /\ UNCHANGED <<chip, no, card>>
MmcCompare_skipped ==
  At("compare") /\ mmc' = [mmc EXCEPT !.verified = TRUE] /\ Goto("finish")
  /\ UNCHANGED <<chip, no, card, host, faults>>
MmcCompare ==
  /\ At("compare")
  /\ mmc_send_ext_csd(mmc' = [mmc EXCEPT !.verified = TRUE] /\ Goto("finish"), Next1("undo"))
MmcUndo ==
  \/ /\ At("undo") /\ Switch("width", 1, "legacy", "legacy")
     /\ UNCHANGED <<chip, no, card, host, faults, mmc, todo>>
  \/ /\ At("legacy")
     /\ SetIos(WithWidth(SelectMode(mmc, "MMC_LEGACY"), 1))
     /\ todo' = Tail(todo) /\ pc' = "try" /\ tries' = 0 /\ UNCHANGED <<chip, no, card, sub>>

(* A card older than version 4 stays as it is. *)
OldMmc == At("old_mmc") /\ Next1("finish") /\ UNCHANGED <<chip, no, card, host, faults>>
-----------------------------------------------------------------------------
(* sd_get_capabilities(): the SCR, read up to four times after one CMD55,  *)
(* and whether the card can do high speed.                                 *)
ScrApp == At("scr_app") /\ send_cmd(Selected, [card EXCEPT !.app = TRUE], Next1("scr"), Fail)
SendScr ==
  /\ At("scr")
  /\ send_cmd(Selected /\ card.app /\ Agree, Plain(card),
       /\ mmc' = [mmc EXCEPT !.version = chip.version]
       /\ Goto(IF chip.version = SD_VERSION_1_0 THEN "sd_modes" ELSE "sd_check"),
       Retry("scr", 3))
sd_switch(after, ok, err) == send_cmd(Selected /\ Agree, after, ok, err)
SdCheck == At("sd_check") /\ sd_switch(Plain(card), Next1("sd_modes"), Fail)
SdCaps(m) ==
  {"w1", "SD_LEGACY"} \cup (IF chip.wide THEN {"w4"} ELSE {})
  \cup (IF m.version # SD_VERSION_1_0 /\ chip.hs THEN {"SD_HS"} ELSE {})
SdModes ==
  /\ At("sd_modes")
  /\ todo' = sd_modes_by_pref(SdCaps(mmc) \cap HostCaps(no))
  /\ pc' = "sd_try" /\ tries' = 0 /\ UNCHANGED <<chip, no, card, host, faults, mmc, sub>>

(* One mode of sd_select_mode_and_width(): CMD55 and ACMD6, host width,    *)
(* CMD6 unless the card is of version 1.0, clock.                          *)
SdTry ==
  /\ At("sd_try")
  /\ IF todo = <<>> THEN Fail /\ UNCHANGED <<chip, no, card, host, faults>>
     ELSE send_cmd(Selected, [card EXCEPT !.app = TRUE], Next1("sd_width"), Next1("sd_error"))
SdWidth ==
  /\ At("sd_width")
  /\ send_cmd(Selected /\ card.app, [Plain(card) EXCEPT !.width = Head(todo).width],
              Next1("sd_wide"), Next1("sd_error"))
SdWide ==
  /\ At("sd_wide") /\ SetIos(WithWidth(mmc, Head(todo).width))
  /\ Goto(IF mmc.version = SD_VERSION_1_0 THEN "sd_clock" ELSE "sd_speed")
  /\ UNCHANGED <<chip, no, card>>
SdSpeed ==
  /\ At("sd_speed")
  /\ LET speed   == IF Head(todo).mode = "SD_HS" THEN 1 ELSE 0
         refused == <<"speed", speed>> \in chip.refuse
     IN  sd_switch(IF refused THEN Plain(card) ELSE [Plain(card) EXCEPT !.hs = (speed = 1)],
                   Next1(IF refused THEN "sd_error" ELSE "sd_clock"), Next1("sd_error"))
SdClock ==
  /\ At("sd_clock")
  /\ LET m == SelectMode(mmc, Head(todo).mode)
     IN  SetIos(WithClock([m EXCEPT !.verified = TRUE], m.tran_speed))
  /\ Goto("finish") /\ UNCHANGED <<chip, no, card>>
SdError ==
  /\ At("sd_error")
  /\ LET m == SelectMode(mmc, "SD_LEGACY") IN SetIos(WithClock(m, m.tran_speed))
  /\ todo' = Tail(todo) /\ pc' = "sd_try" /\ tries' = 0 /\ UNCHANGED <<chip, no, card, sub>>

(* The block device shows the user partition; mmc_complete_init(). *)
mmc_set_capacity(m) == [m EXCEPT !.lba = m.capacity_user]
Finish ==
  /\ At("finish")
  /\ mmc' = [mmc_set_capacity(mmc) EXCEPT !.has_init = TRUE]
  /\ Goto("ready") /\ UNCHANGED <<chip, no, card, host, faults>>

Init ==
  /\ chip \in Chips /\ no \in Numbers
  /\ card = [st |-> "idle", rca |-> 0, width |-> 1, hs |-> FALSE, ddr |-> FALSE, busy |-> chip.busy, app |-> FALSE]
  /\ mmc = [version |-> 0, high_capacity |-> FALSE, rca |-> 0, mode |-> "MMC_LEGACY", tran_speed |-> 0,
            legacy_speed |-> 0, clock |-> 0, width |-> 0, capacity_user |-> 0, ext_csd |-> FALSE,
            lba |-> 0, has_init |-> FALSE, verified |-> FALSE, fatal |-> FALSE]
  /\ host = [width |-> 1, ddr |-> FALSE, clock |-> 0]
  /\ pc = "start" /\ tries = 0 /\ todo = <<>> /\ faults = 0
  /\ sub = [index |-> "", value |-> 0, ret |-> "", else |-> ""]

Next ==
  \/ StartInit \/ mmc_go_idle \/ mmc_send_if_cond \/ SdAppCmd \/ SdSendOpCond
  \/ mmc_send_op_cond \/ mmc_send_op_cond_iter \/ mmc_complete_op_cond \/ OpCondDone
  \/ SendCid \/ SendRelativeAddr \/ SendCsd \/ SelectCard
  \/ mmc_startup_v4 \/ StartupParts \/ __mmc_switch
  \/ MmcModes \/ MmcTry \/ MmcWide \/ MmcTimed \/ MmcClock \/ MmcCompare \/ MmcUndo \/ OldMmc
  \/ ScrApp \/ SendScr \/ SdCheck \/ SdModes \/ SdTry \/ SdWidth \/ SdWide \/ SdSpeed \/ SdClock \/ SdError
  \/ Finish
Spec == Init /\ [][Next]_mvars
FairSpec == Spec /\ WF_mvars(Next)
-----------------------------------------------------------------------------
(* Types: the controller is only ever given a rate between 0 and the       *)
(* maximum, and the driver's loops stay within their bounds.               *)
MmcTypeOK ==
  /\ chip \in Chips /\ no \in Numbers /\ faults \in 0 .. MaxFaults
  /\ card.st \in {"idle", "ready", "ident", "stby", "tran"} /\ card.width \in {1, 4, 8} /\ card.rca \in Nat
  /\ card.hs \in BOOLEAN /\ card.ddr \in BOOLEAN /\ card.app \in BOOLEAN /\ card.busy \in Nat
  /\ host.width \in {1, 4, 8} /\ host.ddr \in BOOLEAN /\ host.clock \in 0 .. f_max
  /\ mmc.version \in Nat /\ mmc.clock \in 0 .. f_max /\ mmc.width \in {0, 1, 4, 8}
  /\ tries \in 0 .. (IF MaxPolls > 5 THEN MaxPolls ELSE 5)
  /\ \A i \in 1 .. Len(todo) : todo[i].width \in {1, 4, 8}

(* The rate a card may be clocked at with the timing it has been set to.   *)
CardLimit ==
  IF chip.kind = "sd" THEN IF card.hs THEN 50000 ELSE 25000 ELSE IF card.hs THEN 52000 ELSE chip.speed

(* When mmc_init() has succeeded, whatever was lost on the way, the card   *)
(* is selected under the address the driver uses, it has been taken for    *)
(* what it is, its size is right, and if a mode was found both sides agree *)
(* on width, edges and a clock the card's timing allows.                   *)
InitSound ==
  /\ MmcTypeOK
  /\ mmc.has_init =>
    /\ Selected /\ IS_SD(mmc) = (chip.kind = "sd") /\ mmc.lba = chip.sectors
    /\ mmc.high_capacity = chip.hc
    /\ mmc.verified /\ ~mmc.fatal => Agree /\ host.clock <= CardLimit

(* The modes this card and this slot have in common, best first; the ones  *)
(* the card is willing to do over the lines there are; and the best of     *)
(* them.  An SD card before version 1.10 has no switch function to refuse. *)
Offered ==
  IF chip.kind = "sd" THEN sd_modes_by_pref(SdCaps([version |-> chip.version]) \cap HostCaps(no))
                      ELSE mmc_modes_by_pref(MmcCaps \cap HostCaps(no))
Fast(a) == IF a.mode \in {"SD_LEGACY", "MMC_LEGACY"} THEN 0 ELSE 1
Willing(a) ==
  /\ a.width <= chip.wires
  /\ IF chip.kind = "sd"
       THEN chip.version = SD_VERSION_1_0 \/ <<"speed", Fast(a)>> \notin chip.refuse
       ELSE /\ <<"width", a.width>> \notin chip.refuse /\ <<"hs", Fast(a)>> \notin chip.refuse
            /\ is_ddr(a.mode) => <<"ddr", a.width>> \notin chip.refuse
Best(i) == Willing(Offered[i]) /\ \A j \in 1 .. i - 1 : ~Willing(Offered[j])

(* Without a fault every supported card comes up, in the best mode both    *)
(* sides can do, past the modes the card refuses, at four fifths of that   *)
(* mode's rate or more.                                                    *)
BestModeFound ==
  \A i \in 1 .. Len(Offered) : Best(i) =>
    /\ mmc.verified /\ mmc.mode = Offered[i].mode /\ mmc.width = Offered[i].width
    /\ host.clock >= (ClampClock(mmc.tran_speed) * 4) \div 5
HealthyCardComesUp ==
  /\ faults = 0 /\ Present /\ chip.rev <= 8 /\ chip.busy <= MaxPolls => pc # "failed"
  /\ faults = 0 /\ pc = "ready" /\ chip.version >= MMC_VERSION_4 => BestModeFound

(* mmc_init() returns, also with no card in the slot, a card that never    *)
(* leaves its busy state, and a controller that refuses commands.          *)
InitReturns == <>(pc \in {"ready", "failed"})
=============================================================================
