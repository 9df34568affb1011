------------------------------ MODULE BootMenu -----------------------------
(***************************************************************************)
(* boot_gui() of main.c and gui_get_events() of gui.c: the event loop of   *)
(* the boot menu, the PMIC interrupt that brings power key presses, the    *)
(* debounced and repeating volume keys, the ten second deadline, and the   *)
(* RTC register that holds the default and the privacy flag.               *)
(*                                                                         *)
(* One round of the loop is split where the hardware can interfere: the    *)
(* flags are read (ReadIrq), acknowledged (AckIrq), and the rest of the    *)
(* round follows (Round).  Timers are kept as the time left, -1 once the   *)
(* instant lies strictly in the past, so time itself needs no bound.       *)
(*                                                                         *)
(* A definition X_y in front of X is a faulty variant of X, there only to  *)
(* see that the properties notice it; nothing uses it.                     *)
(***************************************************************************)
EXTENDS GuiMenu

CONSTANTS
  Debounce, FirstRepeat, NextRepeat,  \* 30, 350 and 150 ms
  IdleTime,                           \* 10 s
  MaxPresses,                         \* bound on power key presses
  MaxKeys,                            \* bound on volume key presses
  RsbFaults,                          \* may a PMIC read fail?
  InitDefs                            \* bytes RTC 0x100 may start with

ASSUME LoopAssumption ==
  /\ {Debounce, FirstRepeat, NextRepeat, IdleTime, MaxPresses, MaxKeys} \subseteq Nat
  /\ RsbFaults \in BOOLEAN
  /\ InitDefs \subseteq 0 .. 255

VARIABLES
  rtcDef, rtcPriv,   \* RTC 0x100: the default plus one; the privacy flag
  def,               \* rtcsel.def
  active,            \* the id whose lines are shown as the default
  privActive,        \* priv->active
  state, boot_sel,   \* what the next vblank will do
  left,              \* end - now
  flags,             \* PMIC register 0x4c, and "other" for 0x48..0x4d
  pending,           \* R_INTC: the PMIC's line was seen low
  got,               \* the flags this round has read
  frame, vblank,     \* the display finished a frame; this round's EV_VBLANK
  phase,             \* where in the round the loop is
  key, last_key,     \* the volume key held, and as last sampled
  keyLeft,           \* key_change_ts - now; None when key_change_ts is 0
  auto_repeat,
  raised, delivered, \* history: PMIC flags set; flags read and then cleared
  presses,           \* history: volume key presses
  outcome            \* how the menu ended

rtc    == <<rtcDef, rtcPriv>>
shown  == <<def, active, privActive>>
irq    == <<flags, pending, got, frame, vblank, phase>>
keys   == <<key, last_key, keyLeft, auto_repeat>>
counts == <<raised, delivered, presses>>
vars   == <<menuVars, rtc, shown, state, boot_sel, left, irq, keys, counts, outcome>>

None  == -2
PokFlags == {"short", "long", "down"}
Past(t)  == t = -1
Run(t)   == IF t >= 0 THEN t - 1 ELSE t

(* rtc_bootsel_set(): the whole register is rewritten. *)
Byte(d) == (d + 1) % 256
RtcBootselSet_truncated(d) == rtcDef' = d % 256 /\ rtcPriv' = FALSE
RtcBootselSet(d) == rtcDef' = Byte(d) /\ rtcPriv' = FALSE

(* rtc_set_flag(): only the flag. *)
RtcSetFlag(v) == rtcPriv' = v /\ UNCHANGED rtcDef

(* What rtc_bootsel_get() made of the register when the menu opened. *)
Undefined == -1
InitialId(c, d) ==
  IF d >= 0 THEN d ELSE IF "emmc" \in c.fs THEN 0 ELSE NConf

LoopInit ==
  /\ rtcDef \in InitDefs /\ rtcPriv \in BOOLEAN
  /\ def = rtcDef - 1
  /\ active = IF rtcDef > 0 THEN def ELSE Undefined
  /\ privActive = rtcPriv
  /\ MenuInit(InitialId(card, rtcDef - 1))
  /\ state = "MENU" /\ boot_sel = -1 /\ left = IdleTime
  /\ flags = {} /\ pending = FALSE /\ got = {} /\ phase = "poll"
  /\ frame = FALSE /\ vblank = FALSE
  /\ key \in {"none", "up", "down"} /\ last_key = key /\ keyLeft = None /\ auto_repeat = FALSE
  /\ raised = 0 /\ delivered = 0 /\ presses = 0 /\ outcome = "none"
-----------------------------------------------------------------------------
(* The hardware and the user. *)

(* The controller latches a low line; it does so as long as it is low. *)
Latch(old, new, was)  == was \/ new # {}

(* The PMIC sets a flag. *)
PmicEvent ==
  /\ outcome = "none"
  /\ \E f \in (PokFlags \cup {"other"}) \ flags :
       /\ raised < MaxPresses
       /\ raised' = raised + 1
       /\ flags' = flags \cup {f}
       /\ pending' = Latch(flags, flags', pending)
  /\ UNCHANGED <<menuVars, rtc, shown, state, boot_sel, left, got, frame, vblank, phase,
                 keys, delivered, presses, outcome>>

PressKey ==
  /\ outcome = "none" /\ presses < MaxKeys
  /\ key' \in {"up", "down"} \ {key}
  /\ presses' = presses + 1
  /\ UNCHANGED <<menuVars, rtc, shown, state, boot_sel, left, irq, last_key,
                 keyLeft, auto_repeat, raised, delivered, outcome>>

ReleaseKey ==
  /\ outcome = "none" /\ key # "none"
  /\ key' = "none"
  /\ UNCHANGED <<menuVars, rtc, shown, state, boot_sel, left, irq, last_key,
                 keyLeft, auto_repeat, counts, outcome>>

(* Frames are finished more often than the clock ticks. *)
FrameDone ==
  /\ outcome = "none" /\ ~frame
  /\ frame' = TRUE
  /\ UNCHANGED <<menuVars, rtc, shown, state, boot_sel, left, flags, pending, got,
                 vblank, phase, keys, counts, outcome>>

(* A round works with the time and the frame status sampled at its start,  *)
(* so time that passes within it is counted after it.                      *)
Tick ==
  /\ outcome = "none" /\ phase = "poll"
  /\ left' = Run(left)
  /\ keyLeft' = Run(keyLeft)
  /\ frame' = TRUE
  /\ UNCHANGED <<menuVars, rtc, shown, state, boot_sel, flags, pending, got, vblank,
                 phase, key, last_key, auto_repeat, counts, outcome>>
-----------------------------------------------------------------------------
(* gui_get_events(), the interrupt. *)

(* What the loop takes a failed read of register 0x4c for: the error code  *)
(* is negative and is not checked.  -ETIMEDOUT has bit 4 of the register   *)
(* set, a negated RSB status has bits 3 to 5 set.                          *)
ErrorFlags == {{"short"}, PokFlags}

ReadIrq ==
  /\ outcome = "none" /\ phase = "poll"
  /\ vblank' = frame /\ frame' = FALSE
  /\ \/ /\ ~pending
        /\ phase' = "round" /\ got' = {}
     \/ /\ pending
        /\ phase' = "ack"
        /\ got' \in {flags} \cup (IF RsbFaults THEN ErrorFlags ELSE {})
  /\ UNCHANGED <<menuVars, rtc, shown, state, boot_sel, left, flags, pending,
                 keys, counts, outcome>>

(* Writing back what was read clears exactly that in the PMIC; then the    *)
(* latch is cleared, and set again if the line is still low.               *)
AckFlags_all == {}
AckFlags == flags \ got
AckIrq ==
  /\ outcome = "none" /\ phase = "ack"
  /\ flags' \in {AckFlags} \cup (IF RsbFaults THEN {flags} ELSE {})
  /\ pending' = Latch(flags, flags', FALSE)
  /\ delivered' = delivered + Cardinality((flags \ flags') \cap got)
  /\ phase' = "round"
  /\ UNCHANGED <<menuVars, rtc, shown, state, boot_sel, left, got, frame, vblank, keys,
                 raised, presses, outcome>>
-----------------------------------------------------------------------------
(* gui_get_events(), the volume keys: sampled, a change starts the         *)
(* debounce time, and once that is over the key is an event and repeats.   *)

KeyChanged  == last_key # key
KeyDue      == ~KeyChanged /\ Past(keyLeft)
KeyDir      == CASE ~KeyDue      -> 0
                 [] key = "down" -> 1
                 [] key = "up"   -> -1
                 [] OTHER        -> 0

SampleKeys ==
  /\ last_key' = key
  /\ keyLeft' = CASE KeyChanged               -> Debounce
                  [] KeyDue /\ key = "none"   -> None
                  [] KeyDue /\ auto_repeat    -> NextRepeat
                  [] KeyDue /\ ~auto_repeat   -> FirstRepeat
                  [] OTHER                    -> keyLeft
  /\ auto_repeat' = (KeyDue \/ (auto_repeat /\ ~KeyChanged))
  /\ UNCHANGED key
-----------------------------------------------------------------------------
(* The body of boot_gui()'s loop. *)

UserEvent_keys == KeyDir # 0
UserEvent_vblank == got \cap PokFlags # {} \/ KeyDir # 0 \/ vblank
UserEvent == got \cap PokFlags # {} \/ KeyDir # 0

Sel == items[selection' + 1]

(* EV_POK_LONG: the line becomes the default; Poweroff undefines it; the   *)
(* privacy line toggles its flag.                                          *)
PokLong ==
  \/ /\ "long" \in got /\ Sel = Privacy
     /\ privActive' = ~privActive
     /\ RtcSetFlag(privActive')
     /\ UNCHANGED <<def, active>>
  \/ /\ "long" \in got /\ Sel # Privacy
     /\ def' = IF Sel = BOOTSEL_POWEROFF THEN -1 ELSE Sel
     /\ RtcBootselSet(def')
     /\ active' = def'
     /\ UNCHANGED privActive
  \/ "long" \notin got /\ UNCHANGED <<rtc, shown>>

(* EV_POK_SHORT: reboot_to() for FEL and eMMC at once, the rest at the     *)
(* next vblank; otherwise the deadline may end the menu.                   *)
Expired == Past(left) /\ ~UserEvent
PokShort ==
  \/ /\ "short" \in got /\ Sel \in {BOOTSEL_FEL, BOOTSEL_EMMC}
     /\ outcome' = IF Sel = BOOTSEL_FEL THEN "fel" ELSE "emmc"
     /\ UNCHANGED <<state, boot_sel>>
  \/ /\ "short" \in got /\ Sel = BOOTSEL_POWEROFF
     /\ state' = "OFF" /\ UNCHANGED <<boot_sel, outcome>>
  \/ /\ "short" \in got /\ Sel < BOOTSEL_POWEROFF
     /\ state' = "BOOT" /\ boot_sel' = Sel /\ UNCHANGED outcome
  \/ /\ "short" \notin got \/ Sel = Privacy
     /\ state' = IF Expired THEN "OFF" ELSE state
     /\ UNCHANGED <<boot_sel, outcome>>

(* A round in which no vblank came, or came with nothing to switch to. *)
Round ==
  /\ outcome = "none" /\ phase = "round"
  /\ ~vblank \/ state = "MENU"
  /\ SampleKeys
  /\ Update(KeyDir)
  /\ left' = IF UserEvent THEN IdleTime ELSE left
  /\ PokLong
  /\ PokShort
  /\ phase' = "poll"
  /\ UNCHANGED <<flags, pending, got, frame, vblank, counts>>

(* A vblank in a round that finds STATE_OFF or STATE_BOOT: the phone goes  *)
(* off or into boot_selection(), whatever else the round has read.         *)
Switch ==
  /\ outcome = "none" /\ phase = "round" /\ vblank
  /\ \/ state = "OFF" /\ outcome' = "off"
     \/ state = "BOOT" /\ outcome' = "boot"
  /\ SampleKeys
  /\ Update(KeyDir)
  /\ UNCHANGED <<rtc, shown, state, boot_sel, left, irq, counts>>

Loop == ReadIrq \/ AckIrq \/ Round \/ Switch

BootMenuInit == LoopInit
BootMenuNext == Loop \/ Tick \/ FrameDone \/ PmicEvent \/ PressKey \/ ReleaseKey
BootMenuSpec == BootMenuInit /\ [][BootMenuNext]_vars

(* Accesses of the PMIC do not fail for ever: a flag that can never be     *)
(* cleared is read as the user doing something in each round.              *)
BusRecovers ==
  <>[][/\ phase = "poll" /\ phase' = "ack"  => got' = flags
       /\ phase = "ack" /\ phase' = "round" => flags' = AckFlags]_vars

(* The processor runs the loop, time passes, and no finger stays on a      *)
(* volume key for ever.                                                    *)
FairMenuSpec ==
  BootMenuSpec /\ WF_vars(Loop) /\ SF_vars(Tick) /\ WF_vars(ReleaseKey) /\ BusRecovers
-----------------------------------------------------------------------------
BootMenuTypeOK ==
  /\ TypeOK
  /\ rtcDef \in 0 .. 255 /\ rtcPriv \in BOOLEAN
  /\ def \in {Header, Undefined} \cup 0 .. 254
  /\ active \in {Header, Undefined} \cup 0 .. 254
  /\ privActive \in BOOLEAN
  /\ state \in {"MENU", "OFF", "BOOT"}
  /\ boot_sel \in {Header, -1} \cup 0 .. BOOTSEL_POWEROFF - 1
  /\ left \in -1 .. IdleTime
  /\ flags \subseteq PokFlags \cup {"other"} /\ got \subseteq PokFlags \cup {"other"}
  /\ pending \in BOOLEAN /\ frame \in BOOLEAN /\ vblank \in BOOLEAN
  /\ phase \in {"poll", "ack", "round"}
  /\ {key, last_key} \subseteq {"none", "up", "down"}
  /\ keyLeft \in {None} \cup -1 .. MaxOf(Debounce, MaxOf(FirstRepeat, NextRepeat))
  /\ auto_repeat \in BOOLEAN
  /\ {raised, delivered, presses} \subseteq Nat
  /\ outcome \in {"none", "off", "boot", "fel", "emmc"}

(* The line shown as the default is the one the RTC register holds, however *)
(* defaults and the privacy flag are changed (a header line excepted).     *)
DefaultShown == BootMenuTypeOK /\ (active = rtcDef - 1 \/ active = Header)

(* A boot that was asked for is not replaced by the idle power-off while   *)
(* it waits for the vblank.                                                *)
BootNotOverridden == [][state = "BOOT" /\ state' = "OFF" => "short" \in got]_vars

(* No press is lost: each flag the PMIC ever set was read by the loop      *)
(* before it was cleared, or is still set, also when it came between the   *)
(* reading and the acknowledging, and when PMIC transactions fail; and     *)
(* while one is set the controller has the interrupt pending, so the loop  *)
(* will read it.                                                           *)
PressesAccounted ==
  /\ delivered + Cardinality(flags) = raised
  /\ flags # {} => pending

(* The menu always ends: unattended it powers the phone off.               *)
MenuEnds == <>(outcome # "none")
=============================================================================
