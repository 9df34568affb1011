------------------------------- MODULE PBoot -------------------------------
(***************************************************************************)
(* The life cycle of a PinePhone that boots through p-boot: power-up, the  *)
(* boot ROM, the 32-bit entry stub (start32.c), main_sram_only() and       *)
(* main() of main.c in both build variants (with and without ENABLE_GUI),  *)
(* the hand-over to the firmware (boot_selection), panic_shutdown, and     *)
(* every way the SoC restarts: soc_reset(), the 10 s watchdog, the OS      *)
(* rebooting and power being cut at any point.  State that survives a      *)
(* restart (two RTC data registers, the PMIC power-up flag, the media) is  *)
(* kept apart from what a restart wipes.                                   *)
(*                                                                         *)
(* Time is counted in units of 100 ms and only where the code can race the *)
(* watchdog.  The boot menu is abstracted to what each of its outcomes     *)
(* does to this state; BootMenu.tla models its event loop.                 *)
(*                                                                         *)
(* A definition X_y in front of X is a faulty variant of X, there only to  *)
(* see that the properties notice it; nothing uses it.                     *)
(***************************************************************************)
EXTENDS Integers, Sequences

CONSTANTS
  NConf,        \* configuration blocks per bootfs (32 in bootfs.h)
  Layouts,      \* what may be on the two media, and which build
  OsOpts,       \* low halves the OS may store in RTC 0x104 under tag 0xb001
  OsDefs,       \* bytes the OS may store in RTC 0x100
  MmcDelays,    \* how long one access to a card may take, 100 ms units
  RsbFaults,    \* may PMIC transactions fail?
  MmcFaults,    \* may a card fail to be probed or read although it holds a bootfs?
  WdogFaults    \* may the watchdog fail to reset the SoC?

Dev      == {"emmc", "sd"}
Conf     == 0 .. NConf - 1
(* "none": no :BFCONF: magic; "good": boots; "bad": an image is missing or *)
(* unusable; "noatf": everything loads but the firmware entry returns.     *)
ConfState == {"none", "good", "bad", "noatf"}
Loaders  == {"pboot", "other", "none"}
Builds   == {"gui", "serial"}
(* build: "gui" for p-boot, "serial" for p-boot-serial and p-boot-tiny.     *)
Layout   == [loader : [Dev -> Loaders], fs : [Dev -> BOOLEAN],
             conf : [Dev -> [Conf -> ConfState]], build : Builds]

(* Boot selections: 0..NConf-1 eMMC, NConf..2*NConf-1 SD, then commands.   *)
BOOTSEL_POWEROFF == 2 * NConf
BOOTSEL_EMMC     == 2 * NConf + 1
BOOTSEL_FEL      == 2 * NConf + 2
(* The gui menu's entry that is no boot selection, and its header lines.   *)
Privacy == 100
Header  == -2

(* RTC 0x104: NoOpt when its upper half is not 0xb001, else its low half.  *)
NoOpt    == -1
FelCode  == 4065        \* 0x0fe1
EmmcCode == 58172       \* 0xe33c
Opt      == {NoOpt} \cup 0 .. 65535

WdogPeriod_short == 60
WdogPeriod == 100       \* wdog_ping(): 10 s
ResetPeriod == 5        \* soc_reset(): 0.5 s ...
ResetWait   == 10       \* ... and how long it waits for the reset
PanicTime   == 77       \* panic_shutdown(): 1.7 + 0.5 + 5 * 1.0 + 0.5 s
NoConf      == [dev |-> "emmc", idx |-> -1]     \* sbc == NULL

ASSUME ConstAssumption ==
  /\ RsbFaults \in BOOLEAN
  /\ MmcFaults \in BOOLEAN /\ WdogFaults \in BOOLEAN
  /\ NConf \in 2 .. 32
  /\ Layouts \subseteq Layout
  /\ OsOpts \subseteq Opt /\ OsDefs \subseteq 0 .. 255
  /\ MmcDelays \subseteq Nat

VARIABLES
  pc,       \* where control is
  layout,   \* the media: bootloaders, bootfs and configurations
  rtcDef,   \* RTC 0x100, low byte: persistent default, plus one
  rtcOpt,   \* RTC 0x104: option for the next boot only
  vbusFlag, \* PMIC register 2, bit 1: powered up by the charger
  wdog,     \* watchdog: 0 = off, else the time left
  src,      \* globals->boot_source
  key,      \* the volume key main() sampled
  tried,    \* globals->mmc_tried
  loaded,   \* globals->emmc, globals->sd: those that are not NULL
  bootsel,  \* main()'s bootsel
  sbc,      \* main()'s fs and sbc
  via,      \* who chose sbc: "auto" (main) or "menu" (boot_gui)
  code,     \* argument of the last panic()
  opt0      \* history: rtcOpt as the 64-bit code found it

persistent == <<layout, rtcDef, rtcOpt, vbusFlag>>
storage    == <<tried, loaded>>
choice     == <<bootsel, sbc, via>>
run        == <<src, key, code, opt0>>
vars       == <<pc, persistent, wdog, storage, choice, run>>
EnableGui  == layout.build = "gui"

Running == {"brom", "start32", "sram", "main", "select", "selected", "up",
            "try_emmc", "try_sd", "boot", "gui_init", "panic", "poweroff",
            "reset"}
Resting == {"os", "other", "fel", "gui", "off", "hung"}

TypeOK ==
  /\ pc \in Running \cup Resting
  /\ layout \in Layouts
  /\ rtcDef \in 0 .. 255 /\ rtcOpt \in Opt /\ opt0 \in Opt
  /\ vbusFlag \in BOOLEAN
  /\ wdog \in 0 .. WdogPeriod
  /\ src \in {"MMC0", "MMC2", "FEL"}
  /\ key \in {"none", "up", "down"}
  /\ tried \subseteq Dev /\ loaded \subseteq Dev
  /\ bootsel \in Int
  /\ sbc \in [dev : Dev, idx : Int]
  /\ via \in {"auto", "menu"}
  /\ code \in Nat
-----------------------------------------------------------------------------
(* The watchdog and restarts. *)

Bites(d)  == wdog # 0 /\ d >= wdog
After_neg(d) == wdog - d
After(d)  == IF wdog = 0 THEN 0 ELSE wdog - d

WdogPing    == wdog' = WdogPeriod
WdogDisable_missing == UNCHANGED wdog
WdogDisable == wdog' = 0

(* What any restart of the SoC wipes: memory and the watchdog. *)
WipeRun ==
  /\ wdog' = 0
  /\ tried' = {} /\ loaded' = {}
  /\ bootsel' = 0 /\ sbc' = NoConf /\ via' = "auto"
  /\ UNCHANGED run

Reset == pc' = "brom" /\ WipeRun

(* The user switches the phone on, by the power key or by a charger. *)
PowerOn ==
  /\ pc = "off"
  /\ pc' = "brom"
  /\ vbusFlag' \in BOOLEAN
  /\ UNCHANGED <<layout, rtcDef, rtcOpt, wdog, storage, choice, run>>

(* The power key held down, or the battery pulled out for a moment. *)
PowerCut ==
  /\ pc # "off"
  /\ pc' = "off" /\ WipeRun
  /\ UNCHANGED persistent

(* Without any battery the RTC loses its data registers. *)
RtcLost ==
  /\ pc = "off"
  /\ rtcDef' = 0 /\ rtcOpt' = NoOpt
  /\ UNCHANGED <<pc, layout, vbusFlag, wdog, storage, choice, run>>

(* wfi forever: only an armed watchdog ends it. *)
WdogReset ==
  /\ pc = "hung" /\ wdog # 0
  /\ Reset /\ UNCHANGED persistent
-----------------------------------------------------------------------------
(* The boot ROM looks for a bootloader on SD, then on eMMC, else FEL. *)
Brom ==
  /\ pc = "brom"
  /\ \/ /\ layout.loader["sd"] = "pboot"
        /\ pc' = "start32" /\ src' = "MMC0"
     \/ /\ layout.loader["sd"] = "none" /\ layout.loader["emmc"] = "pboot"
        /\ pc' = "start32" /\ src' = "MMC2"
     \/ /\ \/ layout.loader["sd"] = "other"
           \/ layout.loader["sd"] = "none" /\ layout.loader["emmc"] = "other"
        /\ pc' = "other" /\ UNCHANGED src
     \/ /\ \A d \in Dev : layout.loader[d] = "none"
        /\ pc' = "fel" /\ UNCHANGED src
  /\ UNCHANGED <<persistent, wdog, storage, choice, key, code, opt0>>

(* Jumping into the boot ROM's eMMC path, which start32 does itself. *)
BromEmmc ==
  CASE layout.loader["emmc"] = "pboot" -> pc' = "start32" /\ src' = "MMC2"
    [] layout.loader["emmc"] = "other" -> pc' = "other" /\ UNCHANGED src
    [] OTHER                           -> pc' = "fel" /\ UNCHANGED src

(* RTC 0x104 is written back to zero. *)
ClearOption_missing == UNCHANGED rtcOpt
ClearOption == rtcOpt' = NoOpt

(* start32.c main(): consume a FEL or eMMC request, else enter aarch64. *)
Start32 ==
  /\ pc = "start32"
  /\ \/ /\ rtcOpt = FelCode
        /\ ClearOption /\ pc' = "fel"
        /\ UNCHANGED <<src, opt0>>
     \/ /\ rtcOpt = EmmcCode
        /\ ClearOption /\ BromEmmc
        /\ UNCHANGED opt0
     \/ /\ rtcOpt \notin {FelCode, EmmcCode}
        /\ pc' = "sram" /\ opt0' = rtcOpt
        /\ UNCHANGED <<rtcOpt, src>>
  /\ UNCHANGED <<layout, rtcDef, vbusFlag, wdog, storage, choice, key, code>>

(* panic(c, ...) *)
Panic(c) == pc' = "panic" /\ code' = c

(* main_sram_only(): the only wdog_ping(), then RSB, PMIC, DRAM. *)
MainSramOnly ==
  /\ pc = "sram"
  /\ WdogPing
  /\ \/ pc' = "main" /\ UNCHANGED code
     \/ RsbFaults /\ Panic(6)
     \/ Panic(3)
  /\ UNCHANGED <<persistent, storage, choice, src, key, opt0>>

(* pmic_read_status(): vb is globals->vbus_powerup, read and then cleared. *)
PmicReadStatus(vb) ==
  \/ vb = vbusFlag /\ vbusFlag' = FALSE
  \/ RsbFaults /\ vb \in {FALSE, vbusFlag} /\ vbusFlag' \in {FALSE, vbusFlag}

(* reboot_to(): a no-op unless it is given FEL or EMMC. *)
Special(id)  == id \in {BOOTSEL_FEL, BOOTSEL_EMMC}
RebootTo_unset(id) == Special(id) /\ pc' = "reset" /\ UNCHANGED rtcOpt
RebootTo_swapped(id) ==
  /\ Special(id)
  /\ rtcOpt' = IF id = BOOTSEL_FEL THEN EmmcCode ELSE FelCode
  /\ pc' = "reset"
RebootTo(id) ==
  /\ Special(id)
  /\ rtcOpt' = IF id = BOOTSEL_FEL THEN FelCode ELSE EmmcCode
  /\ pc' = "reset"

(* main() up to the decision the volume keys make, with ENABLE_GUI. *)
MainGui ==
  /\ pc = "main" /\ EnableGui
  /\ \E vb \in BOOLEAN :
       /\ PmicReadStatus(vb)
       /\ \/ key' = "up" /\ RebootTo(BOOTSEL_FEL)
          \/ /\ \/ key' = "down"
                \/ key' = "none" /\ vb
             /\ pc' = "gui_init" /\ UNCHANGED rtcOpt
          \/ /\ key' = "none" /\ ~vb
             /\ pc' = "select" /\ UNCHANGED rtcOpt
  /\ UNCHANGED <<layout, rtcDef, wdog, storage, choice, src, code, opt0>>

(* The same without ENABLE_GUI. *)
MainNoGui ==
  /\ pc = "main" /\ ~EnableGui
  /\ \E vb \in BOOLEAN : PmicReadStatus(vb)
  /\ \/ key' = "up" /\ pc' = "up" /\ UNCHANGED bootsel
     \/ key' = "down" /\ pc' = "try_emmc" /\ bootsel' = 1
     \/ key' = "none" /\ pc' = "select" /\ UNCHANGED bootsel
  /\ UNCHANGED <<layout, rtcDef, rtcOpt, wdog, storage, sbc, via, src, code, opt0>>
-----------------------------------------------------------------------------
(* Storage. *)

(* mmc_try_load(): each device of ds is probed at most once per run;       *)
(* bootfs_open(mmc_probe()) yields a bootfs where there is one.            *)
Probed(ds) == {d \in ds \ tried : layout.fs[d]}
MmcTryLoad(ds) ==
  /\ tried' = tried \cup ds
  /\ \E got \in SUBSET Probed(ds) :
       /\ MmcFaults \/ got = Probed(ds)
       /\ loaded' = loaded \cup got

(* confs_blocks[i] of a bootfs carries the magic :BFCONF: *)
Marked(ld, d, i) == d \in ld /\ i \in Conf /\ layout.conf[d][i] # "none"

At(d, i) == [dev |-> d, idx |-> i]

(* Device and index a boot selection below 2 * NConf stands for. *)
DevOf(id)  == IF id < NConf THEN "emmc" ELSE "sd"
Target(id) == At(DevOf(id), IF id < NConf THEN id ELSE id - NConf)

(* The card access of a step takes d; the watchdog may bite meanwhile. *)
Survive(d)   == ~Bites(d) /\ wdog' = After(d)
-----------------------------------------------------------------------------
(* bootfs_select_configuration() *)
Requested_default == IF rtcDef > 0 THEN rtcDef - 1 ELSE rtcOpt
Requested == IF rtcOpt # NoOpt THEN rtcOpt ELSE rtcDef - 1

(* The block a selection stands for, if there is one with the magic. *)
Checked(ld, t) == IF Marked(ld, t.dev, t.idx) THEN t ELSE NoConf

Select ==
  /\ pc = "select"
  /\ ClearOption
  /\ \/ /\ Requested \in 0 .. 2 * NConf - 1
        /\ \E d \in MmcDelays :
             \/ Bites(d) /\ Reset
             \/ /\ Survive(d)
                /\ MmcTryLoad({DevOf(Requested)})
                /\ sbc' = Checked(loaded', Target(Requested))
                /\ bootsel' = Requested /\ pc' = "selected"
                /\ UNCHANGED <<via, run>>
     \/ /\ Requested \notin 0 .. 2 * NConf - 1
        /\ bootsel' = Requested /\ sbc' = NoConf /\ pc' = "selected"
        /\ UNCHANGED <<wdog, storage, via, run>>
  /\ UNCHANGED <<layout, rtcDef, vbusFlag>>

(* What main() makes of the result.  With the GUI a splash screen is       *)
(* loaded from the card first.                                             *)
Selected ==
  /\ pc = "selected"
  /\ \/ /\ sbc # NoConf /\ EnableGui
        /\ \E d \in MmcDelays :
             \/ Bites(d) /\ Reset
             \/ Survive(d) /\ pc' = "boot" /\ UNCHANGED <<storage, choice, run>>
        /\ UNCHANGED rtcOpt
     \/ /\ sbc # NoConf /\ ~EnableGui
        /\ pc' = "boot" /\ UNCHANGED <<rtcOpt, wdog, storage, choice, run>>
     \/ /\ sbc = NoConf /\ RebootTo(bootsel)
        /\ UNCHANGED <<wdog, storage, choice, run>>
     \/ /\ sbc = NoConf /\ ~Special(bootsel) /\ EnableGui
        /\ pc' = "gui_init" /\ UNCHANGED <<rtcOpt, wdog, storage, choice, run>>
     \/ /\ sbc = NoConf /\ ~Special(bootsel) /\ ~EnableGui
        /\ pc' = "try_emmc" /\ bootsel' = 0
        /\ UNCHANGED <<rtcOpt, wdog, storage, sbc, via, run>>
  /\ UNCHANGED <<layout, rtcDef, vbusFlag>>

(* KEY_VOLUMEUP without the GUI: configuration 0 of the SD card only. *)
VolumeUp ==
  /\ pc = "up"
  /\ \E d \in MmcDelays :
       \/ Bites(d) /\ Reset
       \/ /\ Survive(d) /\ MmcTryLoad({"sd"})
          /\ sbc' = IF "sd" \in loaded' THEN At("sd", 0) ELSE NoConf
          /\ \/ Marked(loaded', "sd", 0) /\ pc' = "boot" /\ UNCHANGED code
             \/ ~Marked(loaded', "sd", 0) /\ Panic(11)
          /\ UNCHANGED <<bootsel, via, src, key, opt0>>
  /\ UNCHANGED persistent

(* try_conf0: the eMMC half. *)
TryEmmc ==
  /\ pc = "try_emmc"
  /\ \E d \in MmcDelays :
       \/ Bites(d) /\ Reset
       \/ /\ Survive(d) /\ MmcTryLoad({"emmc"})
          /\ sbc' = IF "emmc" \in loaded' THEN At("emmc", bootsel) ELSE NoConf
          /\ pc' = IF Marked(loaded', "emmc", bootsel) THEN "boot" ELSE "try_sd"
          /\ UNCHANGED <<bootsel, via, run>>
  /\ UNCHANGED persistent

(* try_conf0: the SD half, and the way back for the alternate option.  The *)
(* jump to try_conf0 finds sbc set when there is a bootfs on the SD card.  *)
TrySd ==
  /\ pc = "try_sd"
  /\ \E d \in MmcDelays :
       \/ Bites(d) /\ Reset
       \/ /\ Survive(d) /\ MmcTryLoad({"sd"})
          /\ sbc' = IF "sd" \in loaded' THEN At("sd", bootsel) ELSE NoConf
          /\ \/ /\ Marked(loaded', "sd", bootsel)
                /\ pc' = "boot" /\ UNCHANGED <<bootsel, code>>
             \/ /\ ~Marked(loaded', "sd", bootsel) /\ bootsel = 1
                /\ bootsel' = 0
                /\ pc' = IF sbc' = NoConf THEN "try_emmc" ELSE "boot"
                /\ UNCHANGED code
             \/ /\ ~Marked(loaded', "sd", bootsel) /\ bootsel # 1
                /\ Panic(11) /\ UNCHANGED bootsel
          /\ UNCHANGED <<via, src, key, opt0>>
  /\ UNCHANGED persistent

(* boot_prepare() or, after it, boot_finalize() cannot make a bootable     *)
(* image of the configuration.                                             *)
CannotBoot == Panic(12) \/ Panic(13)

(* boot_perform(): the watchdog is stopped and the firmware entered. *)
BootPerform(c) ==
  /\ WdogDisable
  /\ \/ c = "noatf" /\ Panic(5)
     \/ c = "good" /\ pc' = "os" /\ UNCHANGED code

(* boot_selection(): boot_prepare() reads the images, boot_finalize() the  *)
(* tree, then boot_perform().  A card may fail to read any of them.  An    *)
(* unmarked block holds no images; a NULL bootfs is dereferenced.          *)
BootSelection ==
  /\ pc = "boot"
  /\ \E d \in MmcDelays :
       \/ Bites(d) /\ Reset
       \/ /\ ~Bites(d)
          /\ \/ /\ ~Marked(loaded, sbc.dev, sbc.idx)
                /\ Panic(12) /\ wdog' = After(d)
             \/ /\ sbc.dev \notin loaded
                /\ pc' = "hung" /\ wdog' = After(d) /\ UNCHANGED code
             \/ /\ Marked(loaded, sbc.dev, sbc.idx)
                /\ LET c == layout.conf[sbc.dev][sbc.idx] IN
                   \/ (c = "bad" \/ MmcFaults) /\ wdog' = After(d) /\ CannotBoot
                   \/ BootPerform(c)
          /\ UNCHANGED <<storage, choice, src, key, opt0>>
  /\ UNCHANGED persistent
-----------------------------------------------------------------------------
(* Failing and resetting. *)

(* panic_shutdown(): the LED pattern, then power off. *)
PanicShutdown ==
  /\ pc = "panic"
  /\ \/ Bites(PanicTime) /\ Reset
     \/ /\ Survive(PanicTime) /\ pc' = "poweroff"
        /\ UNCHANGED <<storage, choice, run>>
  /\ UNCHANGED persistent

(* pmic_poweroff(): one RSB read-modify-write, then wfi forever. *)
PmicPoweroff_hang ==
  pc = "poweroff" /\ pc' = "hung" /\ UNCHANGED <<persistent, wdog, storage, choice, run>>
PmicPoweroff ==
  /\ pc = "poweroff"
  /\ \/ pc' = "off" /\ WipeRun
     \/ RsbFaults /\ pc' = "hung" /\ UNCHANGED <<wdog, storage, choice, run>>
  /\ UNCHANGED persistent

(* soc_reset(): the shortest watchdog interval, and a longer wait for it. *)
SocReset ==
  /\ pc = "reset"
  /\ \/ ResetWait >= ResetPeriod /\ Reset
     \/ /\ WdogFaults \/ ResetWait < ResetPeriod
        /\ wdog' = 0 /\ Panic(4)
        /\ UNCHANGED <<storage, choice, src, key, opt0>>
  /\ UNCHANGED persistent
-----------------------------------------------------------------------------
(* The boot menu, by outcome. *)

(* mmc_try_load() of both, then boot_gui(): the watchdog is off from here  *)
(* on, and a NULL fs is dereferenced when neither holds a bootfs.          *)
GuiInit ==
  /\ pc = "gui_init"
  /\ \E d \in MmcDelays :
       \/ Bites(d) /\ Reset
       \/ /\ ~Bites(d) /\ MmcTryLoad(Dev)
          /\ WdogDisable
          /\ pc' \in IF loaded' = {} THEN {"gui", "hung"} ELSE {"gui"}
          /\ UNCHANGED <<choice, run>>
  /\ UNCHANGED persistent

(* Ids of the entries boot_gui() adds to the menu. *)
MenuIds ==
  {i \in Conf : Marked(loaded, "emmc", i)}
  \cup {i + NConf : i \in {j \in Conf : Marked(loaded, "sd", j)}}
  \cup (IF src = "MMC2" THEN {} ELSE {BOOTSEL_EMMC})
  \cup {Privacy, BOOTSEL_FEL, BOOTSEL_POWEROFF}

(* Where the cursor is put first; it stays on line 0 if that is not there. *)
InitialSelection ==
  IF rtcDef > 0 THEN rtcDef - 1 ELSE IF "emmc" \in loaded THEN 0 ELSE NConf
(* Line 0 is a header unless the menu starts with the privacy entry. *)
HasHeader == "emmc" \in loaded \/ src # "MMC2" \/ "sd" \in loaded
Selectable ==
  MenuIds \cup IF InitialSelection \notin MenuIds /\ HasHeader THEN {Header} ELSE {}

(* EV_POK_LONG on an entry: it becomes the default (rtc_bootsel_set). *)
MenuSetDefault ==
  /\ pc = "gui"
  /\ \E id \in Selectable \ {Privacy} :
       rtcDef' = ((IF id = BOOTSEL_POWEROFF THEN -1 ELSE id) + 1) % 256
  /\ UNCHANGED <<pc, layout, rtcOpt, vbusFlag, wdog, storage, choice, run>>

(* EV_POK_SHORT, handled after the next vblank when it boots or stops. *)
MenuBoot ==
  /\ pc = "gui"
  /\ \E id \in Selectable :
       /\ id < BOOTSEL_POWEROFF
       /\ sbc' = Target(id)
  /\ via' = "menu" /\ pc' = "boot"
  /\ UNCHANGED <<persistent, wdog, storage, bootsel, run>>

MenuReboot ==
  /\ pc = "gui"
  /\ \E id \in Selectable : RebootTo(id)
  /\ UNCHANGED <<layout, rtcDef, vbusFlag, wdog, storage, choice, run>>

(* The Poweroff entry, or ten seconds without an event. *)
MenuOff ==
  /\ pc = "gui"
  /\ pc' = "poweroff"
  /\ UNCHANGED <<persistent, wdog, storage, choice, run>>
-----------------------------------------------------------------------------
(* The world outside p-boot. *)

(* The OS (or the other bootloader) may leave an option for the next boot  *)
(* or a new default, and restart.                                          *)
OsReboot ==
  /\ pc \in {"os", "other"}
  /\ rtcOpt' \in OsOpts \cup {rtcOpt}
  /\ rtcDef' \in OsDefs \cup {rtcDef}
  /\ Reset
  /\ UNCHANGED <<layout, vbusFlag>>

(* A host loads p-boot over USB. *)
FelBoot ==
  /\ pc = "fel"
  /\ pc' = "start32" /\ src' = "FEL"
  /\ UNCHANGED <<persistent, wdog, storage, choice, key, code, opt0>>

Init ==
  /\ pc = "off" /\ layout \in Layouts
  /\ rtcDef = 0 /\ rtcOpt = NoOpt /\ opt0 = NoOpt /\ vbusFlag = FALSE
  /\ wdog = 0 /\ src = "MMC0" /\ key = "none"
  /\ tried = {} /\ loaded = {}
  /\ bootsel = 0 /\ sbc = NoConf /\ via = "auto" /\ code = 0

(* Steps the SoC takes by itself. *)
SocStep ==
  \/ Brom \/ Start32 \/ MainSramOnly \/ MainGui \/ MainNoGui
  \/ Select \/ Selected \/ VolumeUp \/ TryEmmc \/ TrySd \/ BootSelection
  \/ PanicShutdown \/ PmicPoweroff \/ SocReset \/ WdogReset \/ GuiInit

(* Steps of the user, the OS and a host. *)
UserStep ==
  \/ PowerOn \/ PowerCut \/ RtcLost
  \/ MenuSetDefault \/ MenuBoot \/ MenuReboot \/ MenuOff
  \/ OsReboot \/ FelBoot

Next == SocStep \/ UserStep

Spec     == Init /\ [][Next]_vars
FairSpec == Spec /\ WF_vars(SocStep)
-----------------------------------------------------------------------------
(* Safety. *)

(* The order of preference that the comment before the second half of     *)
(* main() lists, and what bootfs_select_configuration() may ask for.       *)
Candidates ==
  LET req   == IF opt0 # NoOpt THEN opt0 ELSE rtcDef - 1
      asked == IF req \in 0 .. 2 * NConf - 1 THEN <<Target(req)>> ELSE <<>>
      conf(i) == <<At("emmc", i), At("sd", i)>>
  IN CASE EnableGui                  -> asked
       [] ~EnableGui /\ key = "up"   -> <<At("sd", 0)>>
       [] ~EnableGui /\ key = "down" -> conf(1) \o conf(0)
       [] OTHER                      -> asked \o conf(0)

PassedOver(c) == c.dev \in tried /\ ~Marked(loaded, c.dev, c.idx)

(* What main() boots by itself is the first of the list of preferences for *)
(* the keys and registers this boot started with that is there, every      *)
(* entry before it was looked for; and "Nothing to boot" is true.          *)
InOrder ==
  /\ pc = "boot" /\ via = "auto" =>
       \E n \in DOMAIN Candidates :
         /\ Candidates[n] = sbc /\ Marked(loaded, sbc.dev, sbc.idx)
         /\ \A m \in 1 .. n - 1 : PassedOver(Candidates[m])
  /\ pc = "panic" /\ code = 11 =>
       \A n \in DOMAIN Candidates : PassedOver(Candidates[n])

(* Against the order of its comment main() boots the unmarked block 1 of   *)
(* the SD card, when volume down is held without ENABLE_GUI, option 1 is   *)
(* on neither medium, and the card holds a bootfs: sbc still selects that  *)
(* block after the jump back to try_conf0, where configuration 0 is next.  *)
StaleAlternate ==
  /\ ~EnableGui /\ key = "down" /\ pc = "boot" /\ via = "auto" /\ sbc = At("sd", 1)
  /\ PassedOver(At("emmc", 1)) /\ PassedOver(At("sd", 1)) /\ "sd" \in loaded

(* main() keeps to the order of the comment "Boot priority", except there; *)
(* with ENABLE_GUI it boots only blocks with the :BFCONF: magic.           *)
BootPriority == InOrder \/ StaleAlternate

(* From wdog_ping() until main() boots or opens the menu the watchdog is   *)
(* armed, through panics too; whatever takes over the phone finds it off.  *)
WatchdogCovers ==
  /\ \/ pc \in {"main", "select", "selected", "up", "try_emmc", "try_sd",
                 "gui_init"}
     \/ pc = "boot" /\ via = "auto"
     \/ pc = "panic" /\ via = "auto" /\ code \notin {4, 5}
     => wdog # 0
  /\ pc \in Resting \ {"hung"} => wdog = 0

(* p-boot stops for ever with the battery draining only when the PMIC does *)
(* not answer, when there is no bootfs at all, or when the menu booted a   *)
(* line that stands for a missing card.                                    *)
HangsOnlyWhenLost ==
  pc = "hung" /\ wdog = 0 =>
    RsbFaults \/ loaded = {} \/ (via = "menu" /\ sbc.dev \notin loaded)

(* Without a key, the option in RTC 0x104 is gone before anything is done  *)
(* with it, so that a failing boot cannot ask for itself again.            *)
OneShotConsumed ==
  /\ key = "none" /\ via = "auto"
  /\ pc \in {"selected", "try_emmc", "try_sd", "boot", "os"}
  => rtcOpt = NoOpt
-----------------------------------------------------------------------------
(* Liveness, under FairSpec: p-boot's own steps and the hardware's happen. *)

(* Every start comes to rest: in an OS, another bootloader, FEL, the menu, *)
(* off, or in the hang that HangsOnlyWhenLost is about, never in resets    *)
(* that follow each other for ever.                                        *)
Settles == pc = "brom" ~> pc \in Resting

(* A panic ends with the phone powered off.                                *)
PanicPowersOff == pc = "panic" ~> pc = "off"

(* Volume up reaches FEL, and a default or an option that asks for the     *)
(* bootloader on eMMC reaches it (or FEL, if there is none), unless the    *)
(* phone is powered off meanwhile.                                         *)
RebootReaches ==
  /\ (pc = "reset" /\ key = "up") ~> pc \in {"fel", "off"}
  /\ (pc = "reset" /\ bootsel = BOOTSEL_EMMC) ~> pc \in {"other", "fel", "off"}
=============================================================================
