------------------------------ MODULE Display -------------------------------
(***************************************************************************)
(* From reset to a lit screen: clocks, PMIC, DSI host, panel and mixer in  *)
(* the order main_sram_only(), display_init() and the callers of           *)
(* display_commit() go through them, for both values of DSI_FULL_INIT, in  *)
(* p-boot and in the test program of dtest.c.                              *)
(*                                                                         *)
(* The hardware around it is external: the PMIC behind a bus whose         *)
(* accesses may fail, the panel with its times, the TCON that raises a     *)
(* flag with each frame and lets the mixer take its registers then.  The   *)
(* SoC may be reset at any time and finds PMIC and panel as they were.     *)
(*                                                                         *)
(* A definition X_y in front of X is a faulty variant of X, there only to  *)
(* see that the properties notice it; nothing uses it.                     *)
(***************************************************************************)
EXTENDS Dsi, Compositor, Timer, SequencesExt

CONSTANTS Displays,     \* caller -> what each of its calls of display_commit() may ask for
          FbSize,       \* size of each framebuffer
          MaxFaults, MaxRestarts  \* bounds

VARIABLES full,      \* DSI_FULL_INIT
          at,        \* the step of Steps the program is at
          awake,     \* hardware brought up so far
          early,     \* hardware that was used before what it needs was up
          pmic,      \* its registers: voltages set, bits of 0x12, GPIO0 as LDO, DCDC2 at 1.3 V
          op,        \* next access of display_board_init(), next packet
          rst,       \* the level of PD23
          panel,     \* see PanelOff
          dsi,       \* registers of the DSI host
          failed,    \* an access failed since reset
          who,       \* "splash": main() shows one, "gui": boot_gui() runs, "dtest"
          asked,     \* the planes of the commits since reset
          todo,      \* what display_commit() has left to write
          regs, dbuff, latched,    \* mixer: registers, double buffer bit, in use
          flag,      \* frame done bit of the TCON
          lit,       \* backlight
          commits,   \* by who
          faults, restarts
soc == <<at, awake, early, op, dsi, failed>>
mixer == <<asked, todo, regs, dbuff, latched, flag, lit, commits>>
vars == <<full, soc, pmic, rst, panel, who, mixer, faults, restarts>>

Callers == {"splash", "gui", "dtest"}
Steps_late(f) == <<"ccu_init", "rsb_init", "ccu_upclock", "pmic_init", "dram_init", "tcon0_init",
                   "assert", "power", "settle", "gate", "setup", "dphy_enable", "release",
                   "packets", "start", "de2_init", "show">>
Steps(f) ==
  LET board == <<"assert", "power", "settle">> IN
  <<"ccu_init", "rsb_init", "pmic_init", "dram_init", "ccu_upclock">>
  \o (IF who = "dtest" THEN <<"clock_set_pll1">> ELSE <<>>) \o <<"tcon0_init">>
  \o (IF f THEN board \o <<"gate", "setup">> ELSE <<"gate", "setup">> \o board)
  \o <<"dphy_enable", "release", "packets", "start", "de2_init", "show">>
At(s) == at \in DOMAIN Steps(full) /\ Steps(full)[at] = s
After(s) == \E i \in DOMAIN Steps(full) : i < at /\ Steps(full)[i] = s
Panicked == at = 0
-----------------------------------------------------------------------------
(* Hardware comes up in steps; each may need others before it.             *)
Needs(h) ==
  CASE h \in {"cpu408"}                 -> {"pll_cpux"}
    [] h \in {"ahb1", "mbus", "dphy_clk"} -> {"pll_periph0"}
    [] h = "r_pio"                      -> {"r_pio_gate"}
    [] h = "rsb"                        -> {"rsb_reset", "rsb_gate"}
    [] h = "pmic"                       -> {"rsb", "r_pio"}
    [] h = "access"                     -> {"pmic"}
    [] h = "cpu816"                     -> {"dcdc2", "ramped"}
    [] h = "cpu1152"                    -> {"dcdc2", "ramped", "cpu816"}
    [] h = "mipi_pll"                   -> {"pll_video0", "mipi_ldo"}
    [] h = "lcd0_clk"                   -> {"mipi_pll"}
    [] h = "lcdc"                       -> {"lcd0_clk", "lcd0_gate", "lcd0_reset", "ahb1"}
    [] h = "dsi"                        -> {"dsi_gate", "dsi_reset"}
    [] h = "dphy"                       -> {"dphy_clk", "dsi_gate", "dsi_reset"}
    [] h = "lptx"                       -> {"dsi", "dphy", "rails"}
    [] h = "hsc"                        -> {"dsi", "dphy"}
    [] h = "hsd"                        -> {"hsc", "lcdc"}
    [] h = "sram_c"                     -> {"dram"}     \* the log has moved out of it
    [] h = "de_clk"                     -> {"pll_de"}
    [] h = "mixer"                      -> {"de_clk", "de_reset", "de_gate", "mixer_gate", "sram_c"}
    [] h = "r_pwm"                      -> {"r_pio", "mixer"}
    [] h = "backlight"                  -> {"r_pwm"}
    [] OTHER                            -> {}
Bring(hs) ==
  LET up(i) == awake \cup {hs[j] : j \in 1 .. i - 1} IN
  /\ awake' = awake \cup ToSet(hs)
  /\ early' = early \cup {hs[i] : i \in {j \in DOMAIN hs : ~(Needs(hs[j]) \subseteq up(j))}}

(* The factors given to a PLL, in steps of its input, and the rate in MHz  *)
(* they make.  They are written to fields of 5 and 7 bits.  PLL_DE is      *)
(* asked for 297 MHz and makes 288.                                        *)
pll_cpux_k(clk) == IF clk >= 768 THEN 2 ELSE 1
ccu_set_pll_cpux(clk) == LET k == pll_cpux_k(clk) IN 24 * k * ((((clk \div (24 * k)) - 1) % 32) + 1)
pll1_k(clk) == IF clk >= 1368 THEN 3 ELSE IF clk >= 768 THEN 2 ELSE 1
pll1_rate(clk) == LET k == pll1_k(clk) IN 24 * k * ((((clk \div (24 * k)) - 1) % 32) + 1)
pll_de_rate(clk) == (24 * ((((clk \div 12) - 1) % 128) + 1)) \div 2
(* The mixer has to keep up with the pixel clock, 69 MHz. *)
Clocked(pll, rate, lo, hi) == IF rate \in lo .. hi THEN <<pll>> ELSE <<>>

ccu_init_order    == <<"osc24">> \o Clocked("pll_cpux", ccu_set_pll_cpux(408), 408, 408) \o <<"cpu408", "pll_periph0", "ahb1", "mbus", "apb2">>
rsb_init_order    == <<"r_pio_gate", "r_pio", "rsb_reset", "rsb_gate", "rsb", "pmic">>
tcon0_init_order  == <<"pll_video0", "mipi_ldo", "mipi_pll", "lcd0_clk", "lcd0_gate", "lcd0_reset", "lcdc">>
de2_init_order    == <<"sram_c">> \o Clocked("pll_de", pll_de_rate(297), 69, 297) \o <<"de_clk", "de_reset", "de_gate", "mixer_gate", "mixer">>
-----------------------------------------------------------------------------
(* An access over RSB: it works, or fails with or without effect.          *)
Works  == UNCHANGED <<failed, faults>>
Breaks == faults < MaxFaults /\ faults' = faults + 1 /\ failed' = TRUE

(* What pmic_write() leaves in a register, whatever it returns.            *)
pmic_write(new) == \/ Works  /\ pmic' = new
                   \/ Breaks /\ pmic' \in {pmic, new}
(* pmic_clrsetbits() gives up when its read fails: nothing is written.     *)
pmic_setbits_unchecked(bit) ==
  \/ pmic_write([pmic EXCEPT !.r12 = @ \cup {bit}])
  \/ Breaks /\ pmic' = [pmic EXCEPT !.r12 = {1, 4, 7, bit}]   \* -ETIMEDOUT as a byte
pmic_setbits(bit) ==
  \/ pmic_write([pmic EXCEPT !.r12 = @ \cup {bit}])
  \/ Breaks /\ UNCHANGED pmic

(* The accesses of display_board_init(), in order.                         *)
Access(i) ==
  CASE i = 1 -> pmic_write([pmic EXCEPT !.volt = @ \cup {"dldo1"}])
    [] i = 2 -> pmic_setbits(3)
    [] i = 3 -> pmic_write([pmic EXCEPT !.volt = @ \cup {"ldo_io0"}])
    [] i = 4 -> pmic_write([pmic EXCEPT !.io0 = TRUE])
    [] i = 5 -> pmic_write([pmic EXCEPT !.volt = @ \cup {"dldo2"}])
    [] i = 6 -> pmic_setbits(4)
NAccesses == 6
Powered(p) == p.volt = {"dldo1", "ldo_io0", "dldo2"} /\ {3, 4} \subseteq p.r12 /\ p.io0
(* An access to the PMIC, and what it may have turned on. *)
Supplies(p) == (IF p.dcdc2 THEN <<"dcdc2">> ELSE <<>>) \o (IF Powered(p) THEN <<"rails">> ELSE <<>>)

(* The panel (external): how long, in ms and up to what matters, it was    *)
(* held in reset, released, out of sleep (-1: asleep); whether it took all *)
(* packets since reset and is on; whether it ever was treated badly.       *)
HoldTime == 10
ReadyTime == 5
WakeTime == 120
PanelOff == [low |-> 0, up |-> 0, out |-> -1, took |-> TRUE, on |-> FALSE, bad |-> FALSE]
Elapse(p, ms, pow, level) ==
  [p EXCEPT !.low = IF pow /\ level = 0 THEN clamp(@ + ms, 0, HoldTime) ELSE @,
            !.up  = IF pow /\ level = 1 THEN clamp(@ + ms, 0, ReadyTime) ELSE @,
            !.out = IF @ >= 0 THEN clamp(@ + ms, 0, WakeTime) ELSE @]
Slept(ms) == udelay(1000 * ms) \div 1000
Reset(p) == [PanelOff EXCEPT !.bad = p.bad]
(* Packet i arrives; taken tells whether the panel can decode it.          *)
Receive(p, i, taken) ==
  IF ~Powered(pmic) \/ ~taken THEN [p EXCEPT !.took = FALSE]
  ELSE [p EXCEPT !.bad = @ \/ p.up < ReadyTime \/ (i = NPackets /\ p.out < WakeTime),
                 !.out = IF i = SleepAfter THEN 0 ELSE @,
                 !.on  = @ \/ i = NPackets]
-----------------------------------------------------------------------------
(* The mixer's registers are memory: a reset of the SoC may leave them.    *)
LeftOver == [Cleared EXCEPT ![<<"attr", 1>>] = TRUE, ![<<"scale", 1>>] = [h |-> 0, v |-> 0],
                            ![<<"route", 0>>] = <<2, 1>>, ![<<"fcolor_ctl", 0>>] = 2]
ResetSoc ==
  /\ at' = 1 /\ awake' = {} /\ early' = early /\ op' = 1 /\ dsi' = <<>> /\ failed' = FALSE
  /\ asked' = <<>> /\ todo' = <<>> /\ regs' \in {Cleared, LeftOver}
  /\ latched' = Cleared /\ dbuff' = FALSE /\ flag' = FALSE /\ lit' = FALSE /\ commits' = 0

Init ==
  /\ full \in BOOLEAN /\ who \in Callers
  /\ at = 1 /\ awake = {} /\ early = {} /\ op = 1 /\ dsi = <<>> /\ failed = FALSE
  /\ pmic \in [volt : {{}}, r12 : {{7}}, io0 : {FALSE}, dcdc2 : {FALSE}]
  /\ rst = 1 /\ panel = PanelOff
  /\ asked = <<>> /\ todo = <<>> /\ regs = Cleared /\ latched = Cleared
  /\ dbuff = FALSE /\ flag = FALSE /\ lit = FALSE /\ commits = 0
  /\ faults = 0 /\ restarts = 0

(* Plain steps: what comes up, and what else they leave alone.             *)
Plain(s, hs) ==
  /\ At(s) /\ Bring(hs) /\ at' = at + 1
  /\ UNCHANGED <<full, op, dsi, failed, pmic, rst, panel, who, mixer, faults, restarts>>

(* The waits for PLL_CPUX and PLL_PERIPH0 have no limit.                   *)
ccu_init    == Plain("ccu_init", ccu_init_order)
(* mctl_sys_init() alone waits longer than DCDC2 takes to ramp up.         *)
dram_init   == Plain("dram_init", <<"ramped", "dram">>)
ccu_upclock == Plain("ccu_upclock", <<"osc24">> \o Clocked("cpu816", ccu_set_pll_cpux(816), 816, 816))
(* dtest.c clocks the CPU up once more, by way of the 24 MHz oscillator.    *)
clock_set_pll1 == Plain("clock_set_pll1", <<"osc24">> \o Clocked("cpu1152", pll1_rate(1152), 1152, 1152))
tcon0_init  == Plain("tcon0_init", tcon0_init_order)
dsi_gate    == Plain("gate", <<"dsi_gate", "dsi_reset">>)
dphy_enable == Plain("dphy_enable", <<"dphy_clk", "dphy">>)
(* The wait for PLL_DE has no limit.  All registers are cleared.           *)
de2_init ==
  /\ At("de2_init") /\ Bring(de2_init_order) /\ at' = at + 1
  /\ regs' = Cleared /\ dbuff' = FALSE
  /\ UNCHANGED <<full, op, dsi, failed, pmic, rst, panel, who, asked, todo, latched,
                 flag, lit, commits, faults, restarts>>

(* A failure of any of its waits is panic 6.                               *)
rsb_init ==
  /\ At("rsb_init") /\ Bring(rsb_init_order)
  /\ \/ Works  /\ at' = at + 1
     \/ Breaks /\ at' = 0
  /\ UNCHANGED <<full, op, dsi, pmic, rst, panel, who, mixer, restarts>>

(* The writes are not checked: without the effect of the one to DCDC2 the  *)
(* CPU is clocked up all the same.                                         *)
pmic_init ==
  /\ At("pmic_init") /\ at' = at + 1
  /\ pmic_write([pmic EXCEPT !.dcdc2 = TRUE]) /\ Bring(<<"access">> \o Supplies(pmic'))
  /\ UNCHANGED <<full, op, dsi, rst, panel, who, mixer, restarts>>

(* dsi_init() computes what it writes, dsi_init_fast() has a table.        *)
dsi_setup ==
  /\ At("setup") /\ Bring(<<"dsi">>) /\ at' = at + 1
  /\ dsi' = Regs(IF full THEN FullWrites ELSE FastWrites)
  /\ UNCHANGED <<full, op, failed, pmic, rst, panel, who, mixer, faults, restarts>>

(* display_board_init() in three parts: RESX low, the supplies, a pause.   *)
board_assert ==
  /\ At("assert") /\ at' = at + 1
  /\ rst' = 0 /\ panel' = Reset(panel)
  /\ UNCHANGED <<full, awake, early, op, dsi, failed, pmic, who, mixer, faults, restarts>>
board_power ==
  /\ At("power") /\ Access(op)
  /\ Bring(<<"access">> \o Supplies(pmic'))
  /\ at' = IF op = NAccesses THEN at + 1 ELSE at
  /\ op' = IF op = NAccesses THEN 1 ELSE op + 1
  /\ UNCHANGED <<full, dsi, rst, panel, who, mixer, restarts>>
SettleTime_short == Slept(5)
SettleTime == Slept(15)
board_settle ==
  /\ At("settle") /\ at' = at + 1
  /\ panel' = Elapse(panel, SettleTime, Powered(pmic), rst)
  /\ UNCHANGED <<full, awake, early, op, dsi, failed, pmic, rst, who, mixer, faults, restarts>>

(* RESX high, then another pause.                                          *)
ReleaseTime == Slept(15)
release ==
  /\ At("release") /\ at' = at + 1
  /\ rst' = 1
  /\ panel' = Elapse([panel EXCEPT !.bad = @ \/ (Powered(pmic) /\ panel.low < HoldTime)],
                     ReleaseTime, Powered(pmic), 1)
  /\ UNCHANGED <<full, awake, early, op, dsi, failed, pmic, who, mixer, faults, restarts>>

FullTaken == [i \in 1 .. NPackets |-> Accepts(FullPackets[i], PanelSeq[i])]
FastTaken == [i \in 1 .. NPackets |-> Accepts(FastPackets[i], PanelSeq[i])]
SleepTime(i) == IF i = SleepAfter THEN Slept(120) ELSE 0
(* panel_init() and dsi_run_init_seq(): commit, wait at most 5 ms, else    *)
(* abort and give up; the packet may have gone out by then.  The callers   *)
(* go on as if nothing had happened.                                       *)
send_packet ==
  LET got == Receive(panel, op, IF full THEN FullTaken[op] ELSE FastTaken[op]) IN
  /\ At("packets") /\ Bring(<<"lptx">>)
  /\ \/ /\ Works
        /\ panel' = Elapse(got, SleepTime(op), Powered(pmic), rst)
        /\ op' = IF op = NPackets THEN 1 ELSE op + 1
        /\ at' = IF op = NPackets THEN at + 1 ELSE at
     \/ /\ Breaks
        /\ panel' \in {got, panel}
        /\ op' = 1 /\ at' = at + 1
  /\ UNCHANGED <<full, dsi, pmic, rst, who, mixer, restarts>>

(* Clock lane, 1 ms, data lanes: from here on frames come.                 *)
dsi_start == Plain("start", <<"hsc", "hsd">>)
-----------------------------------------------------------------------------
(* display_commit(d): main() calls it once for a splash screen, boot_gui() *)
(* once before its loop and then when the frame done bit is found set, and *)
(* cleared.  dtest's main() has the backlight on and goes on like the gui. *)
Busy == todo # <<>>
enter_commit ==
  /\ At("show") /\ ~Busy /\ commits < Len(Displays[who]) /\ commits' = commits + 1
  /\ IF commits = 0 THEN (who = "dtest" => lit) /\ UNCHANGED flag ELSE flag /\ flag' = FALSE
  /\ \E d \in Displays[who][commits + 1] :
       /\ asked' = Append(asked, d)
       /\ todo' = Writes(d, who = "dtest") \o << <<<<"dbuff", 0>>, TRUE>> >>
  /\ UNCHANGED <<full, soc, pmic, rst, panel, who, regs, dbuff, latched, lit, faults, restarts>>
commit_write ==
  /\ Len(todo) > 1 /\ todo' = Tail(todo)
  /\ regs' = [regs EXCEPT ![todo[1][1]] = todo[1][2]] /\ Bring(<<"mixer">>)
  /\ UNCHANGED <<full, at, op, dsi, failed, pmic, rst, panel, who, asked, dbuff, latched,
                 flag, lit, commits, faults, restarts>>
(* The PWM of the R domain, then the backlight's own supply.               *)
backlight_enable == lit' = TRUE /\ Bring(<<"r_pwm", "backlight">>)
(* dbuff; boot_gui() turns the backlight on after the first one in its     *)
(* loop (flips == 1).                                                      *)
Apply_not == UNCHANGED dbuff
Apply == dbuff' = TRUE
commit_apply ==
  /\ Len(todo) = 1 /\ todo' = <<>> /\ Apply
  /\ IF who = "gui" /\ commits = 2 THEN backlight_enable ELSE UNCHANGED <<lit, awake, early>>
  /\ UNCHANGED <<full, at, op, dsi, failed, pmic, rst, panel, who, asked, regs, latched,
                 flag, commits, faults, restarts>>
(* main(): while (!display_frame_done()); backlight_enable(60).            *)
splash_wait ==
  /\ At("show") /\ who = "splash" /\ commits = 1 /\ ~Busy /\ ~lit
  /\ flag /\ flag' = FALSE /\ backlight_enable
  /\ UNCHANGED <<full, at, op, dsi, failed, pmic, rst, panel, who, asked, todo, regs,
                 dbuff, latched, commits, faults, restarts>>
(* boot_selection() could not boot it: goto boot_ui.                       *)
boot_ui ==
  /\ At("show") /\ who = "splash" /\ lit /\ who' = "gui" /\ commits' = 0
  /\ UNCHANGED <<full, soc, pmic, rst, panel, asked, todo, regs, dbuff, latched, flag, lit,
                 faults, restarts>>
(* dtest.c: udelay(160000); backlight_enable(90), before anything is shown.*)
dtest_light ==
  /\ At("show") /\ who = "dtest" /\ ~lit
  /\ backlight_enable
  /\ UNCHANGED <<full, at, op, dsi, failed, pmic, rst, panel, who, asked, todo, regs,
                 dbuff, latched, flag, commits, faults, restarts>>
(* TCON and mixer (external): the end of a frame.                          *)
Vblank ==
  /\ "hsd" \in awake /\ flag' = TRUE
  /\ latched' = IF dbuff THEN regs ELSE latched
  /\ dbuff' = FALSE
  /\ UNCHANGED <<full, soc, pmic, rst, panel, who, asked, todo, regs, lit, commits,
                 faults, restarts>>
(* The pins float until they are set up again.                             *)
Restart ==
  /\ restarts < MaxRestarts /\ restarts' = restarts + 1
  /\ ResetSoc
  /\ rst' \in {0, 1} /\ panel' = IF rst' = 0 THEN Reset(panel) ELSE panel
  /\ who' \in IF who = "dtest" THEN {"dtest"} ELSE {"splash", "gui"}
  /\ UNCHANGED <<full, pmic, faults>>

Program ==
  \/ ccu_init \/ rsb_init \/ pmic_init \/ dram_init \/ ccu_upclock \/ clock_set_pll1 \/ tcon0_init
  \/ dsi_gate \/ dsi_setup \/ board_assert \/ board_power \/ board_settle \/ dphy_enable
  \/ release \/ send_packet \/ dsi_start \/ de2_init
  \/ enter_commit \/ commit_write \/ commit_apply \/ splash_wait \/ dtest_light
Next == Program \/ boot_ui \/ Vblank \/ Restart
(* The program runs on and the TCON keeps sending frames.                  *)
Spec == Init /\ [][Next]_vars /\ WF_vars(Program) /\ WF_vars(Vblank)
-----------------------------------------------------------------------------
DisplayTypeOK ==
  /\ full \in BOOLEAN /\ who \in Callers /\ failed \in BOOLEAN
  /\ at \in 0 .. Len(Steps(full)) /\ op \in 1 .. NPackets /\ rst \in {0, 1}
  /\ pmic \in [volt : SUBSET {"dldo1", "ldo_io0", "dldo2"}, r12 : SUBSET (0 .. 7), io0 : BOOLEAN,
              dcdc2 : BOOLEAN]
  /\ panel \in [low : 0 .. HoldTime, up : 0 .. ReadyTime, out : -1 .. WakeTime,
                took : BOOLEAN, on : BOOLEAN, bad : BOOLEAN]
  /\ DOMAIN regs = DOMAIN Cleared /\ (Busy => Last(asked) \in Displays[who][commits])
  /\ dbuff \in BOOLEAN /\ flag \in BOOLEAN /\ lit \in BOOLEAN
  /\ commits \in 0 .. Len(Displays[who]) /\ faults \in 0 .. MaxFaults /\ restarts \in 0 .. MaxRestarts

(* display_board_init()'s comment lists what the panel asks for: reset     *)
(* held for 10 ms after power, commands 5 ms after its end, DISPON 120 ms  *)
(* after sleep out.  It holds on both paths, on power on and after a reset *)
(* of the SoC in any state, and when accesses of the PMIC fail.            *)
PanelProtocol == DisplayTypeOK /\ ~panel.bad

(* Without failures both paths end alike: the panel has decoded every      *)
(* command of the list, in order, and the DSI host holds what dsi_init()   *)
(* computes, although dsi_init_fast() only plays back two tables.          *)
PanelConfigured ==
  After("packets") /\ ~failed =>
    /\ Powered(pmic) /\ panel.took /\ panel.on
    /\ dsi = Regs(FullWrites)

(* No clock, block, bus or supply is used before what it depends on is up, *)
(* across the functions main_sram_only(), display_init() and the callers   *)
(* of display_commit() run through.  Exceptions there are only when an     *)
(* access to the PMIC failed whose result nobody looks at: the CPU is then *)
(* clocked up on a DCDC2 that was not raised (pmic_init(), ccu_upclock()), *)
(* and packets are sent to a panel that has no supply.                     *)
HardwareReady ==
  /\ early \subseteq {"cpu816", "cpu1152", "lptx"}
  /\ early # {} => faults > 0

(* The PMIC drives the supplies of the whole phone from one register: the  *)
(* display turns its own two on and never touches another bit, not even    *)
(* when an access fails half way.                                          *)
RailsExact ==
  [][/\ pmic.r12 \subseteq pmic'.r12
     /\ pmic'.r12 \ pmic.r12 \subseteq {3, 4}]_pmic

(* What the mixer reads for the frame lies in the framebuffers. *)
FetchInside ==
  \A k \in Blended(latched) :
    LET i == latched[<<"route", 0>>][k + 1]   addr == latched[<<"top_laddr", i>>] IN
    /\ addr.fb # "none" /\ latched[<<"pitch", i>>] = addr.fb
    /\ addr.x + latched[<<"size", i>>].w <= FbSize[addr.fb].w
    /\ addr.y + latched[<<"size", i>>].h <= FbSize[addr.fb].h

Near(a, b, d) == a - b \in -d .. d
Tolerance(d, fb) ==
  IF \A i \in Planes : d[i].fb = fb => d[i].src.w = d[i].dst.w /\ d[i].src.h = d[i].dst.h THEN 0 ELSE 1
(* The mixer shows, at every place of the panel, the topmost plane of d:   *)
(* its very pixel when it is not scaled, else at most one off.             *)
Displayed(d) ==
  \A x \in 0 .. PANEL_WIDTH - 1, y \in 0 .. PANEL_HEIGHT - 1 :
    LET s == MixerPixel(latched, x, y)   a == AskedPixel(d, x, y) IN
    s.fb = a.fb /\ Near(s.x, a.x, Tolerance(d, a.fb)) /\ Near(s.y, a.y, Tolerance(d, a.fb))

(* However planes are placed, clipped and scaled: once a commit is over    *)
(* and taken the panel shows what it asked for, and the mixer reads no     *)
(* memory outside the framebuffers.                                        *)
ShownAsAsked == ~Busy /\ ~dbuff /\ asked # <<>> => FetchInside /\ Displayed(Last(asked))

(* p-boot commits while the one before may not have been taken yet: the    *)
(* first in boot_gui() does not wait for a frame, and the frame done bit   *)
(* the second waits for may be an old one.  A frame may then take half of  *)
(* display_commit()'s writes, and still shows nothing or one of the        *)
(* pictures asked for, from within the framebuffers.  (The planes p-boot   *)
(* shows never move; those of dtest.c do.)                                 *)
NeverTorn ==
  who # "dtest" =>
    /\ FetchInside
    /\ (\E n \in 1 .. Len(asked) : Displayed(asked[n])) \/ Blended(latched) = {}

(* The screen comes up, whatever fails: unless p-boot panics the backlight *)
(* goes on and the last commit is taken by the mixer.  main() and          *)
(* boot_gui() wait for frames without a limit.                             *)
ScreenComesUp == <>[](Panicked \/ (lit /\ ~Busy /\ latched = regs))
=============================================================================
