---------------------------- MODULE PBootProofs ----------------------------
(* Proofs about PBoot: type correctness first, then the safety invariants. *)
EXTENDS PBoot, SequenceTheorems, TLAPS

(* mmc_try_load() only ever adds devices. *)
LEMMA MmcTryLoadType ==
  ASSUME tried \subseteq Dev, loaded \subseteq Dev,
         NEW ds \in SUBSET Dev, MmcTryLoad(ds)
  PROVE  tried' \subseteq Dev /\ loaded' \subseteq Dev
<1>1. Probed(ds) \subseteq Dev
  BY DEF Probed
<1>2. PICK got \in SUBSET Probed(ds) : loaded' = loaded \cup got
  BY DEF MmcTryLoad
<1>3. tried' = tried \cup ds
  BY DEF MmcTryLoad
<1> QED
  BY <1>1, <1>2, <1>3

(* A boot selection names a block of a device. *)
LEMMA TargetType ==
  ASSUME NConf \in 2 .. 32, NEW id \in Int
  PROVE  Target(id) \in [dev : Dev, idx : Int] /\ DevOf(id) \in Dev
  BY DEF Target, At, DevOf, Dev

(* The ids the menu's cursor can be on. *)
LEMMA SelectableType ==
  ASSUME NConf \in 2 .. 32, NEW id \in Selectable
  PROVE  id \in {Header, Privacy} \/ id \in 0 .. 2 * NConf + 2
<1>1. CASE id \in {i \in Conf : Marked(loaded, "emmc", i)}
  BY <1>1 DEF Conf
<1>2. CASE id \in {i + NConf : i \in {j \in Conf : Marked(loaded, "sd", j)}}
  BY <1>2 DEF Conf
<1>3. CASE id \in {BOOTSEL_EMMC, BOOTSEL_FEL, BOOTSEL_POWEROFF}
  BY <1>3 DEF BOOTSEL_EMMC, BOOTSEL_FEL, BOOTSEL_POWEROFF
<1>4. CASE id \in {Header, Privacy}
  BY <1>4
<1> QED
  BY <1>1, <1>2, <1>3, <1>4 DEF Selectable, MenuIds

LEMMA WdogType ==
  ASSUME wdog \in 0 .. WdogPeriod, NEW d \in Nat, ~Bites(d)
  PROVE  After(d) \in 0 .. WdogPeriod /\ (wdog # 0 => After(d) # 0)
  BY DEF Bites, After, WdogPeriod

LEMMA RestartType ==
  ASSUME TypeOK, WipeRun, UNCHANGED <<layout>>,
         pc' \in {"brom", "off"}, rtcDef' \in 0 .. 255, rtcOpt' \in Opt,
         vbusFlag' \in BOOLEAN
  PROVE  TypeOK'
  BY DEF TypeOK, WipeRun, run, NoConf, Dev, Running, Resting, WdogPeriod

LEMMA OptType == NoOpt \in Opt /\ FelCode \in Opt /\ EmmcCode \in Opt /\ Opt \subseteq Int
  BY DEF Opt, NoOpt, FelCode, EmmcCode

(* Type correctness of one step. *)
LEMMA TypeStep ==
  ASSUME ConstAssumption, TypeOK, [Next]_vars
  PROVE  TypeOK'
<1>0. NConf \in 2 .. 32 /\ MmcDelays \subseteq Nat /\ OsOpts \subseteq Opt /\ OsDefs \subseteq 0 .. 255
  BY DEF ConstAssumption
<1>a. ASSUME WipeRun, pc' \in {"brom", "off"}, UNCHANGED persistent
      PROVE  TypeOK'
  <2>1. rtcDef' \in 0 .. 255 /\ rtcOpt' \in Opt /\ vbusFlag' \in BOOLEAN /\ UNCHANGED <<layout>>
    BY <1>a DEF TypeOK, persistent
  <2> QED
    BY <1>a, <2>1, RestartType
<1>b. ASSUME NEW d \in MmcDelays, Survive(d)
      PROVE  wdog' \in 0 .. WdogPeriod
  BY <1>0, <1>b, WdogType DEF Survive, TypeOK
<1>c. ASSUME NEW ds \in SUBSET Dev, MmcTryLoad(ds)
      PROVE  tried' \subseteq Dev /\ loaded' \subseteq Dev
  BY <1>c, MmcTryLoadType DEF TypeOK
<1>d. \A d \in Dev, i \in Int : At(d, i) \in [dev : Dev, idx : Int]
  BY DEF At
<1>e. NoConf \in [dev : Dev, idx : Int]
  BY DEF NoConf, Dev
<1>1. CASE PowerOn
  BY <1>1 DEF PowerOn, TypeOK, storage, choice, run, Running
<1>2. CASE PowerCut
  BY <1>2, <1>a DEF PowerCut
<1>3. CASE RtcLost
  BY <1>3, OptType DEF RtcLost, TypeOK, storage, choice, run
<1>4. CASE WdogReset
  BY <1>4, <1>a DEF WdogReset, Reset
<1>5. CASE Brom
  BY <1>5 DEF Brom, TypeOK, persistent, storage, choice, Running, Resting
<1>6. CASE Start32
  BY <1>6, OptType DEF Start32, BromEmmc, ClearOption, TypeOK, storage, choice,
                       Running, Resting
<1>7. CASE MainSramOnly
  BY <1>7 DEF MainSramOnly, WdogPing, Panic, TypeOK, persistent, storage, choice,
              Running, WdogPeriod
<1>8. CASE MainGui
  BY <1>8, OptType DEF MainGui, PmicReadStatus, RebootTo, TypeOK, storage, choice, Running
<1>9. CASE MainNoGui
  <2>1. vbusFlag' \in BOOLEAN
    BY <1>9 DEF MainNoGui, PmicReadStatus, TypeOK
  <2>2. bootsel' \in Int /\ key' \in {"none", "up", "down"} /\ pc' \in Running
    BY <1>9 DEF MainNoGui, TypeOK, Running
  <2> QED
    BY <1>9, <2>1, <2>2 DEF MainNoGui, TypeOK, storage
<1>10. CASE Select
  <2>1. rtcOpt' \in Opt /\ UNCHANGED <<layout, rtcDef, vbusFlag>>
    BY <1>10, OptType DEF Select, ClearOption
  <2>2. Requested \in Int
    BY OptType DEF TypeOK, Requested
  <2>3. ASSUME Reset PROVE TypeOK'
    BY <2>1, <2>3, RestartType DEF Reset, TypeOK
  <2>4. ASSUME NEW d \in MmcDelays, Survive(d), MmcTryLoad({DevOf(Requested)}),
               sbc' = Checked(loaded', Target(Requested)),
               bootsel' = Requested, pc' = "selected", UNCHANGED <<via, run>>
        PROVE  TypeOK'
    <3>1. tried' \subseteq Dev /\ loaded' \subseteq Dev
      BY <1>0, <1>c, <2>2, <2>4, TargetType
    <3>2. sbc' \in [dev : Dev, idx : Int]
      BY <1>0, <1>e, <2>2, <2>4, TargetType DEF Checked
    <3> QED
      BY <1>b, <2>1, <2>2, <2>4, <3>1, <3>2 DEF TypeOK, run, Running
  <2>5. ASSUME bootsel' = Requested, sbc' = NoConf, pc' = "selected",
               UNCHANGED <<wdog, storage, via, run>>
        PROVE  TypeOK'
    BY <1>e, <2>1, <2>2, <2>5 DEF TypeOK, storage, run, Running
  <2> QED
    BY <1>10, <2>3, <2>4, <2>5 DEF Select
<1>11. CASE Selected
  <2>1. UNCHANGED <<layout, rtcDef, vbusFlag>>
    BY <1>11 DEF Selected
  <2>2. ASSUME Reset, UNCHANGED rtcOpt PROVE TypeOK'
    BY <2>1, <2>2, RestartType DEF Reset, TypeOK
  <2>3. ASSUME NEW d \in MmcDelays, Survive(d), pc' = "boot",
               UNCHANGED <<storage, choice, run>>, UNCHANGED rtcOpt
        PROVE  TypeOK'
    BY <1>b, <2>1, <2>3 DEF TypeOK, storage, choice, run, Running
  <2>4. ASSUME RebootTo(bootsel), UNCHANGED <<wdog, storage, choice, run>>
        PROVE  TypeOK'
    BY <2>1, <2>4, OptType DEF RebootTo, TypeOK, storage, choice, run, Running
  <2>5. ASSUME pc' \in {"boot", "gui_init"}, UNCHANGED <<rtcOpt, wdog, storage, choice, run>>
        PROVE  TypeOK'
    BY <2>1, <2>5 DEF TypeOK, storage, choice, run, Running
  <2>6. ASSUME pc' = "try_emmc", bootsel' = 0,
               UNCHANGED <<rtcOpt, wdog, storage, sbc, via, run>>
        PROVE  TypeOK'
    BY <2>1, <2>6 DEF TypeOK, storage, run, Running
  <2> QED
    BY <1>11, <2>2, <2>3, <2>4, <2>5, <2>6 DEF Selected
<1>12. CASE VolumeUp
  <2>1. UNCHANGED persistent
    BY <1>12 DEF VolumeUp
  <2>2. ASSUME Reset PROVE TypeOK'
    BY <1>a, <2>1, <2>2 DEF Reset
  <2>3. ASSUME NEW d \in MmcDelays, Survive(d), MmcTryLoad({"sd"}),
               sbc' = IF "sd" \in loaded' THEN At("sd", 0) ELSE NoConf,
               (pc' = "boot" /\ UNCHANGED code) \/ Panic(11),
               UNCHANGED <<bootsel, via, src, key, opt0>>
        PROVE  TypeOK'
    <3>1. tried' \subseteq Dev /\ loaded' \subseteq Dev
      BY <1>c, <2>3 DEF Dev
    <3>2. sbc' \in [dev : Dev, idx : Int]
      BY <1>d, <1>e, <2>3 DEF Dev
    <3> QED
      BY <1>b, <2>1, <2>3, <3>1, <3>2 DEF TypeOK, Panic, persistent, Running
  <2> QED
    BY <1>12, <2>2, <2>3 DEF VolumeUp
<1>13. CASE TryEmmc
  <2>1. UNCHANGED persistent
    BY <1>13 DEF TryEmmc
  <2>2. ASSUME Reset PROVE TypeOK'
    BY <1>a, <2>1, <2>2 DEF Reset
  <2>3. ASSUME NEW d \in MmcDelays, Survive(d), MmcTryLoad({"emmc"}),
               sbc' = IF "emmc" \in loaded' THEN At("emmc", bootsel) ELSE NoConf,
               pc' \in {"boot", "try_sd"}, UNCHANGED <<bootsel, via, run>>
        PROVE  TypeOK'
    <3>1. tried' \subseteq Dev /\ loaded' \subseteq Dev
      BY <1>c, <2>3 DEF Dev
    <3>2. sbc' \in [dev : Dev, idx : Int]
      BY <1>d, <1>e, <2>3 DEF Dev, TypeOK
    <3> QED
      BY <1>b, <2>1, <2>3, <3>1, <3>2 DEF TypeOK, persistent, run, Running
  <2> QED
    BY <1>13, <2>2, <2>3 DEF TryEmmc
<1>14. CASE TrySd
  <2>1. UNCHANGED persistent
    BY <1>14 DEF TrySd
  <2>2. ASSUME Reset PROVE TypeOK'
    BY <1>a, <2>1, <2>2 DEF Reset
  <2>3. ASSUME NEW d \in MmcDelays, Survive(d), MmcTryLoad({"sd"}),
               sbc' = IF "sd" \in loaded' THEN At("sd", bootsel) ELSE NoConf,
               \/ pc' = "boot" /\ UNCHANGED <<bootsel, code>>
               \/ pc' \in {"try_emmc", "boot"} /\ bootsel' = 0 /\ UNCHANGED code
               \/ Panic(11) /\ UNCHANGED bootsel,
               UNCHANGED <<via, src, key, opt0>>
        PROVE  TypeOK'
    <3>1. tried' \subseteq Dev /\ loaded' \subseteq Dev
      BY <1>c, <2>3 DEF Dev
    <3>2. sbc' \in [dev : Dev, idx : Int]
      BY <1>d, <1>e, <2>3 DEF Dev, TypeOK
    <3> QED
      BY <1>b, <2>1, <2>3, <3>1, <3>2 DEF TypeOK, Panic, persistent, Running
  <2> QED
    BY <1>14, <2>2, <2>3 DEF TrySd
<1>15. CASE BootSelection
  <2>1. UNCHANGED persistent
    BY <1>15 DEF BootSelection
  <2>2. ASSUME Reset PROVE TypeOK'
    BY <1>a, <2>1, <2>2 DEF Reset
  <2>3. ASSUME NEW d \in MmcDelays, ~Bites(d), wdog' = After(d) \/ WdogDisable,
               \/ Panic(12) \/ Panic(13) \/ Panic(5)
               \/ pc' \in {"hung", "os"} /\ UNCHANGED code,
               UNCHANGED <<storage, choice, src, key, opt0>>
        PROVE  TypeOK'
    <3>1. wdog' \in 0 .. WdogPeriod
      BY <1>0, <2>3, WdogType DEF WdogDisable, WdogPeriod, TypeOK
    <3> QED
      BY <2>1, <2>3, <3>1 DEF TypeOK, Panic, persistent, storage, choice, Running, Resting
  <2> QED
    BY <1>15, <2>2, <2>3 DEF BootSelection, BootPerform, CannotBoot
<1>16. CASE PanicShutdown
  <2>1. CASE Bites(PanicTime) /\ Reset
    BY <1>16, <1>a, <2>1 DEF PanicShutdown, Reset
  <2>2. CASE Survive(PanicTime) /\ pc' = "poweroff" /\ UNCHANGED <<storage, choice, run>>
    <3>1. wdog' \in 0 .. WdogPeriod
      BY <2>2, WdogType DEF Survive, PanicTime, TypeOK
    <3> QED
      BY <1>16, <2>2, <3>1
         DEF PanicShutdown, TypeOK, persistent, storage, choice, run, Running
  <2> QED
    BY <1>16, <2>1, <2>2 DEF PanicShutdown
<1>17. CASE PmicPoweroff
  <2>1. CASE pc' = "off" /\ WipeRun
    BY <1>17, <1>a, <2>1 DEF PmicPoweroff
  <2>2. CASE pc' = "hung" /\ UNCHANGED <<wdog, storage, choice, run>>
    BY <1>17, <2>2 DEF PmicPoweroff, TypeOK, persistent, storage, choice, run, Resting
  <2> QED
    BY <1>17, <2>1, <2>2 DEF PmicPoweroff
<1>18. CASE SocReset
  <2>1. CASE Reset
    BY <1>18, <1>a, <2>1 DEF SocReset, Reset
  <2>2. CASE wdog' = 0 /\ Panic(4) /\ UNCHANGED <<storage, choice, src, key, opt0>>
    BY <1>18, <2>2
       DEF SocReset, Panic, TypeOK, persistent, storage, choice, Running, WdogPeriod
  <2> QED
    BY <1>18, <2>1, <2>2 DEF SocReset
<1>19. CASE GuiInit
  <2>1. UNCHANGED persistent
    BY <1>19 DEF GuiInit
  <2>2. ASSUME Reset PROVE TypeOK'
    BY <1>a, <2>1, <2>2 DEF Reset
  <2>3. ASSUME MmcTryLoad(Dev), WdogDisable, pc' \in {"gui", "hung"}, UNCHANGED <<choice, run>>
        PROVE  TypeOK'
    <3>1. tried' \subseteq Dev /\ loaded' \subseteq Dev
      BY <1>c, <2>3
    <3> QED
      BY <2>1, <2>3, <3>1
         DEF TypeOK, WdogDisable, WdogPeriod, persistent, choice, run, Resting
  <2> QED
    BY <1>19, <2>2, <2>3 DEF GuiInit
<1>20. CASE MenuSetDefault
  <2>1. rtcDef' \in 0 .. 255
    BY <1>0, <1>20, SelectableType DEF MenuSetDefault, Header, Privacy, BOOTSEL_POWEROFF
  <2> QED
    BY <1>20, <2>1 DEF MenuSetDefault, TypeOK, storage, choice, run
<1>21. CASE MenuBoot
  <2>1. sbc' \in [dev : Dev, idx : Int]
    BY <1>0, <1>21, SelectableType, TargetType DEF MenuBoot, Header, Privacy
  <2> QED
    BY <1>21, <2>1 DEF MenuBoot, TypeOK, persistent, storage, run, Running
<1>22. CASE MenuReboot
  BY <1>22, OptType DEF MenuReboot, RebootTo, TypeOK, storage, choice, run, Running
<1>23. CASE MenuOff
  BY <1>23 DEF MenuOff, TypeOK, persistent, storage, choice, run, Running
<1>24. CASE OsReboot
  <2>1. rtcOpt' \in Opt /\ rtcDef' \in 0 .. 255 /\ vbusFlag' \in BOOLEAN /\ UNCHANGED <<layout>>
    BY <1>0, <1>24 DEF OsReboot, TypeOK
  <2> QED
    BY <1>24, <2>1, RestartType DEF OsReboot, Reset
<1>25. CASE FelBoot
  BY <1>25 DEF FelBoot, TypeOK, persistent, storage, choice, Running
<1>26. CASE UNCHANGED vars
  BY <1>26 DEF vars, TypeOK, persistent, storage, choice, run
<1> QED
  BY <1>1, <1>2, <1>3, <1>4, <1>5, <1>6, <1>7, <1>8, <1>9, <1>10, <1>11, <1>12, <1>13,
     <1>14, <1>15, <1>16, <1>17, <1>18, <1>19, <1>20, <1>21, <1>22, <1>23, <1>24, <1>25,
     <1>26 DEF Next, SocStep, UserStep

(* The program never leaves its declared states: main()'s selection, its   *)
(* configuration pointer, the watchdog counter and both RTC registers stay *)
(* in their ranges over any number of boots, resets and power cuts.        *)
THEOREM TypeCorrect == Spec => []TypeOK
<1>1. Init => TypeOK
  <2> SUFFICES ASSUME Init PROVE TypeOK
    OBVIOUS
  <2>1. NoConf \in [dev : Dev, idx : Int] /\ sbc = NoConf
    BY DEF Init, NoConf, Dev
  <2>2. rtcOpt \in Opt /\ opt0 \in Opt
    BY OptType DEF Init
  <2>3. wdog \in 0 .. WdogPeriod /\ rtcDef \in 0 .. 255
    BY DEF Init, WdogPeriod
  <2>4. pc \in Running \cup Resting /\ tried \subseteq Dev /\ loaded \subseteq Dev
    BY DEF Init, Resting
  <2>5. bootsel \in Int /\ code \in Nat
    BY DEF Init
  <2>7. vbusFlag \in BOOLEAN /\ layout \in Layouts
    BY Zenon DEF Init
  <2>6. /\ src \in {"MMC0", "MMC2", "FEL"} /\ key \in {"none", "up", "down"}
        /\ via \in {"auto", "menu"}
    BY DEF Init
  <2> QED
    BY <2>1, <2>2, <2>3, <2>4, <2>5, <2>6, <2>7 DEF TypeOK
<1>2. TypeOK /\ [Next]_vars => TypeOK'
  BY ConstAssumption, TypeStep
<1> QED
  BY <1>1, <1>2, PTL DEF Spec
-----------------------------------------------------------------------------
(* The inductive invariant behind the safety theorems.  The first parts    *)
(* say what the properties themselves leave out: that the watchdog is off  *)
(* until wdog_ping(), and that VolumeUp is only reached with the key held. *)
OffUntilPing == pc \in {"brom", "start32", "sram"} => wdog = 0
UpIsPressed  == pc = "up" => key = "up"
WatchInv  == OffUntilPing /\ WatchdogCovers
OptionInv == UpIsPressed /\ OneShotConsumed

(* A card access that the watchdog survives leaves it armed. *)
LEMMA SurviveArmed ==
  ASSUME TypeOK, ConstAssumption, NEW d \in MmcDelays, ~Bites(d), wdog # 0
  PROVE  After(d) # 0
<1>1. d \in Nat
  BY DEF ConstAssumption
<1>2. wdog \in 0 .. WdogPeriod
  BY DEF TypeOK
<1> QED
  BY <1>1, <1>2, WdogType

(* Every way to stop or restart turns the watchdog off. *)
LEMMA WipeWatch ==
  ASSUME WipeRun, pc' \in {"brom", "off"}
  PROVE  WatchInv'
  BY DEF WipeRun, WatchInv, OffUntilPing, WatchdogCovers, Resting

(* The watchdog invariant is preserved by every step. *)
LEMMA WatchStep ==
  ASSUME ConstAssumption, TypeOK, WatchInv, [Next]_vars
  PROVE  WatchInv'
<1> USE DEF WatchInv, OffUntilPing, WatchdogCovers, Resting
<1>1. CASE PowerOn \/ RtcLost \/ Brom \/ FelBoot
  BY <1>1 DEF PowerOn, RtcLost, Brom, FelBoot
<1>2. CASE PowerCut \/ WdogReset \/ OsReboot
  BY <1>2, WipeWatch DEF PowerCut, WdogReset, OsReboot, Reset
<1>3. CASE Start32
  BY <1>3 DEF Start32, BromEmmc
<1>4. CASE MainSramOnly
  BY <1>4 DEF MainSramOnly, WdogPing, WdogPeriod, Panic
<1>5. CASE MainGui
  BY <1>5 DEF MainGui, RebootTo, choice
<1>6. CASE MainNoGui
  BY <1>6 DEF MainNoGui
<1>7. CASE Select
  BY <1>7, WipeWatch, SurviveArmed DEF Select, Reset, Survive
<1>8. CASE Selected
  BY <1>8, WipeWatch, SurviveArmed DEF Selected, Reset, Survive, RebootTo, choice
<1>9. CASE VolumeUp
  BY <1>9, WipeWatch, SurviveArmed DEF VolumeUp, Reset, Survive, Panic
<1>10. CASE TryEmmc
  BY <1>10, WipeWatch, SurviveArmed DEF TryEmmc, Reset, Survive
<1>11. CASE TrySd
  BY <1>11, WipeWatch, SurviveArmed DEF TrySd, Reset, Survive, Panic
<1>12. CASE BootSelection
  BY <1>12, WipeWatch, SurviveArmed DEF BootSelection, BootPerform, CannotBoot, Reset, Panic,
                                           WdogDisable, choice
<1>13. CASE PanicShutdown \/ PmicPoweroff \/ SocReset
  BY <1>13, WipeWatch DEF PanicShutdown, PmicPoweroff, SocReset, Reset, Panic
<1>14. CASE GuiInit
  BY <1>14, WipeWatch DEF GuiInit, Reset, WdogDisable
<1>15. CASE MenuSetDefault \/ MenuBoot \/ MenuReboot \/ MenuOff
  BY <1>15 DEF MenuSetDefault, MenuBoot, MenuReboot, RebootTo, MenuOff
<1>16. CASE UNCHANGED vars
  BY <1>16 DEF vars, choice, run
<1> QED
  BY <1>1, <1>2, <1>3, <1>4, <1>5, <1>6, <1>7, <1>8, <1>9, <1>10, <1>11, <1>12, <1>13,
     <1>14, <1>15, <1>16 DEF Next, SocStep, UserStep

(* From wdog_ping() on, main() never waits for a card, a boot or a panic   *)
(* without the watchdog, and wdog_disable() came before everything that    *)
(* takes the phone over: for any media, delays and faults.                 *)
THEOREM WatchdogAlwaysCovers == Spec => []WatchdogCovers
<1>1. Init => WatchInv
  BY DEF Init, WatchInv, OffUntilPing, WatchdogCovers
<1>2. TypeOK /\ WatchInv /\ [Next]_vars => WatchInv'
  BY ConstAssumption, WatchStep
<1>3. WatchInv => WatchdogCovers
  BY DEF WatchInv
<1> QED
  BY <1>1, <1>2, <1>3, TypeCorrect, PTL DEF Spec
-----------------------------------------------------------------------------
(* The one-shot option. *)
LEMMA OptionStep ==
  ASSUME OptionInv, [Next]_vars
  PROVE  OptionInv'
<1> USE DEF OptionInv, UpIsPressed, OneShotConsumed
<1>1. CASE PowerOn \/ RtcLost \/ Brom \/ FelBoot
  BY <1>1 DEF PowerOn, RtcLost, Brom, FelBoot
<1>2. CASE PowerCut \/ WdogReset \/ OsReboot
  BY <1>2 DEF PowerCut, WdogReset, OsReboot, Reset
<1>3. CASE Start32 \/ MainSramOnly
  BY <1>3 DEF Start32, BromEmmc, MainSramOnly, Panic
<1>4. CASE MainGui
  BY <1>4 DEF MainGui, RebootTo
<1>5. CASE MainNoGui
  BY <1>5 DEF MainNoGui
<1>6. CASE Select
  BY <1>6 DEF Select, ClearOption, Reset
<1>7. CASE Selected
  BY <1>7 DEF Selected, Reset, RebootTo, choice, run
<1>8. CASE VolumeUp
  BY <1>8 DEF VolumeUp, Reset, Panic, persistent
<1>9. CASE TryEmmc
  BY <1>9 DEF TryEmmc, Reset, persistent, run
<1>10. CASE TrySd
  BY <1>10 DEF TrySd, Reset, Panic, persistent
<1>11. CASE BootSelection
  BY <1>11 DEF BootSelection, BootPerform, CannotBoot, Reset, Panic, persistent, choice
<1>12. CASE PanicShutdown \/ PmicPoweroff \/ SocReset \/ GuiInit
  BY <1>12 DEF PanicShutdown, PmicPoweroff, SocReset, GuiInit, Reset, Panic
<1>13. CASE MenuSetDefault \/ MenuBoot \/ MenuReboot \/ MenuOff
  BY <1>13 DEF MenuSetDefault, MenuBoot, MenuReboot, RebootTo, MenuOff
<1>14. CASE UNCHANGED vars
  BY <1>14 DEF vars, persistent, choice, run
<1> QED
  BY <1>1, <1>2, <1>3, <1>4, <1>5, <1>6, <1>7, <1>8, <1>9, <1>10, <1>11, <1>12, <1>13,
     <1>14 DEF Next, SocStep, UserStep

(* Without a key held, bootfs_select_configuration() has cleared RTC 0x104 *)
(* before main() acts on what it held: no crash, reset or watchdog bite    *)
(* can make the same option be tried twice.                                *)
THEOREM OptionTriedOnce == Spec => []OneShotConsumed
<1>1. Init => OptionInv
  BY DEF Init, OptionInv, UpIsPressed, OneShotConsumed
<1>2. OptionInv => OneShotConsumed
  BY DEF OptionInv
<1> QED
  BY <1>1, <1>2, OptionStep, PTL DEF Spec
-----------------------------------------------------------------------------
(* Hanging with the watchdog off: the watchdog invariant excludes it while *)
(* main() boots by itself, so only the listed causes are left.             *)
LEMMA HangStep ==
  ASSUME ConstAssumption, TypeOK, WatchInv, HangsOnlyWhenLost, [Next]_vars
  PROVE  HangsOnlyWhenLost'
<1> USE DEF HangsOnlyWhenLost
<1>1. CASE PowerOn \/ RtcLost \/ Brom \/ FelBoot \/ PowerCut \/ WdogReset \/ OsReboot
  BY <1>1 DEF PowerOn, RtcLost, Brom, FelBoot, PowerCut, WdogReset, OsReboot, Reset
<1>2. CASE Start32 \/ MainSramOnly
  BY <1>2 DEF Start32, BromEmmc, MainSramOnly, Panic
<1>3. CASE MainGui \/ MainNoGui
  BY <1>3 DEF MainGui, MainNoGui, RebootTo
<1>4. CASE Select \/ Selected
  BY <1>4 DEF Select, Selected, Reset, RebootTo
<1>5. CASE VolumeUp \/ TryEmmc \/ TrySd
  BY <1>5 DEF VolumeUp, TryEmmc, TrySd, Reset, Panic
<1>6. CASE BootSelection
  <2>1. ASSUME pc' = "hung"
        PROVE  /\ sbc.dev \notin loaded /\ UNCHANGED <<loaded, sbc, via>>
               /\ \E d \in MmcDelays : ~Bites(d) /\ wdog' = After(d)
    BY <1>6, <2>1 DEF BootSelection, BootPerform, CannotBoot, Reset, Panic, storage, choice
  <2>2. via \in {"auto", "menu"} /\ pc = "boot"
    BY <1>6 DEF TypeOK, BootSelection
  <2>3. ASSUME via = "auto", pc' = "hung" PROVE wdog' # 0
    BY <2>1, <2>2, <2>3, SurviveArmed DEF WatchInv, WatchdogCovers
  <2> QED
    BY <2>1, <2>2, <2>3
<1>7. CASE PanicShutdown \/ PmicPoweroff \/ SocReset
  BY <1>7 DEF PanicShutdown, PmicPoweroff, SocReset, Reset, Panic
<1>8. CASE GuiInit
  BY <1>8 DEF GuiInit, Reset
<1>9. CASE MenuSetDefault \/ MenuBoot \/ MenuReboot \/ MenuOff
  BY <1>9 DEF MenuSetDefault, MenuBoot, MenuReboot, RebootTo, MenuOff
<1>10. CASE UNCHANGED vars
  BY <1>10 DEF vars, storage, choice
<1> QED
  BY <1>1, <1>2, <1>3, <1>4, <1>5, <1>6, <1>7, <1>8, <1>9, <1>10 DEF Next, SocStep, UserStep

(* p-boot drains the battery in a dead loop only if the PMIC failed to     *)
(* power the phone off, no bootfs was found, or the user booted a menu     *)
(* line of a card that is not there.                                       *)
THEOREM HangsExplained == Spec => []HangsOnlyWhenLost
<1>1. Init => WatchInv /\ HangsOnlyWhenLost
  BY DEF Init, WatchInv, OffUntilPing, WatchdogCovers, HangsOnlyWhenLost
<1>2. TypeOK /\ WatchInv /\ [Next]_vars => WatchInv'
  BY ConstAssumption, WatchStep
<1>3. TypeOK /\ WatchInv /\ HangsOnlyWhenLost /\ [Next]_vars => HangsOnlyWhenLost'
  BY ConstAssumption, HangStep
<1> QED
  BY <1>1, <1>2, <1>3, TypeCorrect, PTL DEF Spec
-----------------------------------------------------------------------------
(* The order of preference.  While main() works down the list, everything  *)
(* before the place it has come to was looked for and is not there; what   *)
(* bootfs_select_configuration() asks for is what the registers asked for  *)
(* when this boot started.                                                 *)
Req     == IF opt0 # NoOpt THEN opt0 ELSE rtcDef - 1
IsBlock == Req \in 0 .. 2 * NConf - 1
AskedGone == IsBlock => PassedOver(Target(Req))

SelectsAsked ==
  /\ pc \in {"sram", "main", "select"} => rtcOpt = opt0
  /\ pc \in {"select", "selected"} => key = "none"
  /\ pc = "selected" =>
       IF sbc = NoConf THEN AskedGone
         ELSE IsBlock /\ sbc = Target(Req) /\ Marked(loaded, sbc.dev, sbc.idx)
TriesInOrder ==
  /\ pc = "up" => key = "up" /\ ~EnableGui
  /\ pc \in {"try_emmc", "try_sd"} =>
       /\ ~EnableGui
       /\ \/ key = "none" /\ bootsel = 0 /\ AskedGone
          \/ key = "down" /\ bootsel = 1
          \/ key = "down" /\ bootsel = 0 /\ PassedOver(At("emmc", 1)) /\ PassedOver(At("sd", 1))
  /\ pc = "try_sd" => PassedOver(At("emmc", bootsel))
PriorityInv == SelectsAsked /\ TriesInOrder /\ BootPriority

LEMMA FourTuple ==
  ASSUME NEW a, NEW b, NEW c, NEW d
  PROVE  <<a, b>> \o <<c, d>> = <<a, b, c, d>>
<1> DEFINE S == {a, b, c, d}
<1>1. <<a, b>> \in Seq(S) /\ <<c, d>> \in Seq(S) /\ <<a, b, c, d>> \in Seq(S)
  OBVIOUS
<1> HIDE DEF S
<1>2. \A i \in 1 .. 4 : (<<a, b>> \o <<c, d>>)[i] = <<a, b, c, d>>[i]
  BY <1>1, ConcatProperties
<1>3. Len(<<a, b>> \o <<c, d>>) = 4 /\ <<a, b>> \o <<c, d>> \in Seq(S)
  BY <1>1, ConcatProperties
<1> QED BY <1>1, <1>2, <1>3, SeqEqual

LEMMA Tuples ==
  ASSUME NEW a, NEW c, NEW d
  PROVE  /\ <<a>> \o <<c, d>> = <<a, c, d>>
         /\ <<>> \o <<c, d>> = <<c, d>>
<1> DEFINE S == {a, c, d}
<1>1. <<>> \in Seq(S) /\ <<a>> \in Seq(S) /\ <<c, d>> \in Seq(S) /\ <<a, c, d>> \in Seq(S)
  OBVIOUS
<1> HIDE DEF S
<1>2. <<a>> \o <<c, d>> = <<a, c, d>>
  <2>1. \A i \in 1 .. 3 : (<<a>> \o <<c, d>>)[i] = <<a, c, d>>[i]
    BY <1>1, ConcatProperties
  <2>2. Len(<<a>> \o <<c, d>>) = 3 /\ <<a>> \o <<c, d>> \in Seq(S)
    BY <1>1, ConcatProperties
  <2> QED BY <1>1, <2>1, <2>2, SeqEqual
<1>3. <<>> \o <<c, d>> = <<c, d>>
  BY <1>1, ConcatEmptySeq, Zenon
<1> QED BY <1>2, <1>3

(* The list, case by case. *)
LEMMA CandidateList ==
  /\ EnableGui => Candidates = IF IsBlock THEN <<Target(Req)>> ELSE <<>>
  /\ ~EnableGui /\ key = "up" => Candidates = <<At("sd", 0)>>
  /\ ~EnableGui /\ key = "down" =>
       Candidates = <<At("emmc", 1), At("sd", 1), At("emmc", 0), At("sd", 0)>>
  /\ ~EnableGui /\ key = "none" =>
       Candidates = IF IsBlock THEN <<Target(Req), At("emmc", 0), At("sd", 0)>>
                               ELSE <<At("emmc", 0), At("sd", 0)>>
<1> DEFINE asked == IF IsBlock THEN <<Target(Req)>> ELSE <<>>
<1> DEFINE conf(i) == <<At("emmc", i), At("sd", i)>>
<1>1. Candidates = CASE EnableGui                  -> asked
                     [] ~EnableGui /\ key = "up"   -> <<At("sd", 0)>>
                     [] ~EnableGui /\ key = "down" -> conf(1) \o conf(0)
                     [] OTHER                      -> asked \o conf(0)
  BY DEF Candidates, Req, IsBlock
<1>2. conf(1) \o conf(0) = <<At("emmc", 1), At("sd", 1), At("emmc", 0), At("sd", 0)>>
  BY FourTuple
<1>3. <<Target(Req)>> \o conf(0) = <<Target(Req), At("emmc", 0), At("sd", 0)>> /\ <<>> \o conf(0) = conf(0)
  BY Tuples
<1>4. "up" # "down" /\ "none" # "up" /\ "none" # "down" /\ EnableGui \in BOOLEAN
  BY DEF EnableGui
<1>5. CASE EnableGui
  BY <1>1, <1>5
<1>6. CASE ~EnableGui /\ key = "up"
  BY <1>1, <1>4, <1>6
<1>7. CASE ~EnableGui /\ key = "down"
  <2>1. Candidates = conf(1) \o conf(0)
    BY <1>1, <1>4, <1>7
  <2> QED BY <1>2, <1>4, <1>7, <2>1
<1>8. CASE ~EnableGui /\ key = "none"
  <2>1. Candidates = asked \o conf(0)
    BY <1>1, <1>4, <1>8
  <2>2. asked \o conf(0) = IF IsBlock THEN <<Target(Req), At("emmc", 0), At("sd", 0)>>
                                      ELSE <<At("emmc", 0), At("sd", 0)>>
    BY <1>3
  <2> QED BY <1>4, <1>8, <2>1, <2>2
<1> QED BY <1>5, <1>6, <1>7, <1>8

LEMMA CandidateDomain == DOMAIN Candidates = 1 .. Len(Candidates)
<1> DEFINE S == {Target(Req)} \cup {At(d, i) : d \in Dev, i \in 0 .. 1}
<1>1. Target(Req) \in S /\ \A d \in Dev : At(d, 0) \in S /\ At(d, 1) \in S
  OBVIOUS
<1> DEFINE asked == IF IsBlock THEN <<Target(Req)>> ELSE <<>>
<1> DEFINE conf(i) == <<At("emmc", i), At("sd", i)>>
<1> HIDE DEF S
<1>2. asked \in Seq(S) /\ conf(0) \in Seq(S) /\ conf(1) \in Seq(S) /\ <<At("sd", 0)>> \in Seq(S)
  BY <1>1 DEF Dev
<1> HIDE DEF asked, conf
<1>3. asked \o conf(0) \in Seq(S) /\ conf(1) \o conf(0) \in Seq(S)
  BY <1>2, ConcatProperties
<1>4. Candidates \in {asked, <<At("sd", 0)>>, conf(1) \o conf(0), asked \o conf(0)}
  BY DEF Candidates, Req, IsBlock, asked, conf
<1> QED BY <1>2, <1>3, <1>4

(* What was passed over stays passed over: mmc_try_load() never comes back *)
(* to a device it has tried.                                               *)
LEMMA StaysPassed ==
  ASSUME NEW ds, MmcTryLoad(ds), UNCHANGED layout, NEW c, PassedOver(c)
  PROVE  PassedOver(c)'
<1>1. PICK got \in SUBSET Probed(ds) : loaded' = loaded \cup got
  BY DEF MmcTryLoad
<1>2. c.dev \notin got
  BY DEF Probed, PassedOver
<1>3. c.dev \in tried'
  BY DEF MmcTryLoad, PassedOver
<1> QED
  BY <1>1, <1>2, <1>3 DEF PassedOver, Marked

(* And a block that was looked for and has no magic is passed over. *)
LEMMA NowPassed ==
  ASSUME NEW ds, MmcTryLoad(ds), NEW c, c.dev \in ds, UNCHANGED layout,
         ~Marked(loaded', c.dev, c.idx)
  PROVE  PassedOver(c)'
BY DEF MmcTryLoad, PassedOver, Marked

LEMMA PriorityStep ==
  ASSUME ConstAssumption, TypeOK, PriorityInv, [Next]_vars
  PROVE  PriorityInv'
<1> USE DEF PriorityInv, SelectsAsked, TriesInOrder, BootPriority, InOrder, EnableGui
<1>a. ASSUME pc' \notin {"sram", "main", "select", "selected", "up", "try_emmc", "try_sd", "boot"},
             ~(pc' = "panic" /\ code' = 11)
      PROVE  PriorityInv'
  BY <1>a
<1>b. ASSUME Reset PROVE PriorityInv'
  BY <1>a, <1>b DEF Reset
<1>c. ASSUME UNCHANGED <<opt0, rtcDef, key, layout>>
      PROVE  Req' = Req /\ IsBlock' = IsBlock /\ Candidates' = Candidates
  BY <1>c DEF Req, IsBlock, Candidates
<1>d. \A d, i : At(d, i).dev = d /\ At(d, i).idx = i
  BY DEF At
<1>1. CASE PowerOn \/ RtcLost \/ Brom \/ FelBoot
  BY <1>1, <1>a DEF PowerOn, RtcLost, Brom, FelBoot
<1>2. CASE PowerCut \/ WdogReset \/ OsReboot
  BY <1>2, <1>a DEF PowerCut, WdogReset, OsReboot, Reset
<1>3. CASE Start32
  BY <1>3, <1>a DEF Start32, BromEmmc
<1>4. CASE MainSramOnly
  BY <1>4, <1>a DEF MainSramOnly, Panic, persistent
<1>5. CASE MainGui
  BY <1>5, <1>a DEF MainGui, RebootTo
<1>6. CASE MainNoGui
  BY <1>6 DEF MainNoGui
<1>7. CASE Select
  <2>1. UNCHANGED <<layout, rtcDef>> /\ key = "none" /\ rtcOpt = opt0 /\ Requested = Req
    BY <1>7 DEF Select, Requested, Req
  <2>2. CASE Reset
    BY <2>2, <1>b
  <2>3. ASSUME UNCHANGED run, pc' = "selected", sbc' = NoConf, ~IsBlock
        PROVE  PriorityInv'
    BY <2>1, <2>3, <1>c DEF run, AskedGone
  <2>4. ASSUME IsBlock, MmcTryLoad({DevOf(Req)}), sbc' = Checked(loaded', Target(Req)),
               pc' = "selected", UNCHANGED run
        PROVE  PriorityInv'
    <3>1. UNCHANGED <<opt0, rtcDef, key, layout>>
      BY <2>1, <2>4 DEF run
    <3>2. Target(Req).dev = DevOf(Req)
      BY <1>d DEF Target
    <3>3. CASE Marked(loaded', Target(Req).dev, Target(Req).idx)
      <4>1. sbc' = Target(Req)
        BY <2>4, <3>3 DEF Checked
      <4>2. sbc' # NoConf
        BY <3>3, <4>1 DEF Marked, NoConf, Conf, ConstAssumption
      <4>3. Marked(loaded, sbc.dev, sbc.idx)'
        BY <2>1, <3>3, <4>1 DEF Marked
      <4> QED BY <2>1, <2>4, <3>1, <4>1, <4>2, <4>3, <1>c DEF Target, DevOf
    <3>4. CASE ~Marked(loaded', Target(Req).dev, Target(Req).idx)
      <4>1. sbc' = NoConf
        BY <2>4, <3>4 DEF Checked
      <4>2. PassedOver(Target(Req))'
        BY <2>1, <2>4, <3>1, <3>2, <3>4, <1>c, NowPassed DEF PassedOver, Marked, Target, DevOf, MmcTryLoad
      <4> QED BY <2>1, <2>4, <3>1, <4>1, <4>2, <1>c DEF AskedGone
    <3> QED BY <3>3, <3>4
  <2> QED BY <1>7, <2>1, <2>2, <2>3, <2>4 DEF Select, IsBlock
<1>8. CASE Selected
  <2>1. UNCHANGED <<layout, rtcDef>> /\ key = "none" /\ pc = "selected"
    BY <1>8 DEF Selected
  <2>2. CASE Reset
    BY <2>2, <1>b
  <2>3. ASSUME sbc # NoConf, pc' = "boot", UNCHANGED <<storage, choice, run>>
        PROVE  PriorityInv'
    <3>1. Candidates' = Candidates /\ sbc' = sbc /\ IsBlock /\ sbc = Target(Req)
      BY <2>1, <2>3, <1>c DEF run, choice
    <3>4. Marked(loaded, sbc.dev, sbc.idx)'
      BY <2>1, <2>3 DEF Marked, storage, choice
    <3>2. 1 \in DOMAIN Candidates /\ Candidates[1] = sbc
      BY <2>1, <3>1, CandidateList
    <3>3. \E n \in DOMAIN Candidates' :
            Candidates'[n] = sbc' /\ \A m \in 1 .. n - 1 : PassedOver(Candidates[m])'
      BY <3>1, <3>2
    <3> QED BY <2>3, <3>3, <3>4
  <2>4. ASSUME pc' \in {"reset", "gui_init"} PROVE PriorityInv'
    BY <2>4, <1>a
  <2>5. ASSUME sbc = NoConf, ~EnableGui, pc' = "try_emmc", bootsel' = 0,
               UNCHANGED <<storage, run>>
        PROVE  PriorityInv'
    <3>1. AskedGone' = AskedGone
      BY <2>1, <2>5, <1>c DEF run, storage, AskedGone, PassedOver, Marked, Target, DevOf
    <3> QED BY <2>1, <2>5, <3>1 DEF run
  <2> QED BY <1>8, <2>2, <2>3, <2>4, <2>5 DEF Selected, RebootTo
<1>9. CASE VolumeUp
  <2>1. pc = "up" /\ key = "up" /\ ~EnableGui /\ UNCHANGED <<layout, rtcDef>> /\ Candidates = <<At("sd", 0)>>
    BY <1>9, CandidateList DEF VolumeUp, persistent
  <2>2. CASE Reset
    BY <2>2, <1>b
  <2>3. ASSUME MmcTryLoad({"sd"}), UNCHANGED <<key, opt0>>,
               sbc' = IF "sd" \in loaded' THEN At("sd", 0) ELSE NoConf,
               Marked(loaded', "sd", 0), pc' = "boot"
        PROVE  PriorityInv'
    <3>1. Candidates' = <<At("sd", 0)>> /\ sbc' = At("sd", 0)
      BY <2>1, <2>3, <1>c DEF Marked
    <3>2. Marked(loaded, sbc.dev, sbc.idx)'
      BY <2>1, <2>3, <3>1, <1>d DEF Marked
    <3> QED BY <2>3, <3>1, <3>2
  <2>4. ASSUME MmcTryLoad({"sd"}), UNCHANGED <<key, opt0>>, ~Marked(loaded', "sd", 0), pc' = "panic"
        PROVE  PriorityInv'
    <3>1. PassedOver(At("sd", 0))' /\ Candidates' = <<At("sd", 0)>>
      BY <2>1, <2>4, <1>c, <1>d, NowPassed
    <3>2. \A n \in DOMAIN Candidates' : PassedOver(Candidates[n])'
      BY <3>1
    <3> QED BY <2>4, <3>2
  <2> QED BY <1>9, <2>2, <2>3, <2>4 DEF VolumeUp, Panic
<1>10. CASE TryEmmc
  <2>1. pc = "try_emmc" /\ ~EnableGui /\ UNCHANGED <<layout, rtcDef>>
    BY <1>10 DEF TryEmmc, persistent
  <2>2. CASE Reset
    BY <2>2, <1>b
  <2>3. ASSUME MmcTryLoad({"emmc"}), UNCHANGED <<bootsel, run>>,
               sbc' = IF "emmc" \in loaded' THEN At("emmc", bootsel) ELSE NoConf,
               pc' = IF Marked(loaded', "emmc", bootsel) THEN "boot" ELSE "try_sd"
        PROVE  PriorityInv'
    <3>1. UNCHANGED <<opt0, rtcDef, key, layout>>
      BY <2>1, <2>3 DEF run
    <3>2. \A c : PassedOver(c) => PassedOver(c)'
      BY <2>1, <2>3, StaysPassed
    <3>3. AskedGone => AskedGone'
      BY <3>1, <3>2, <1>c DEF AskedGone, PassedOver, Marked, Target, DevOf, At
    <3>4. CASE Marked(loaded', "emmc", bootsel)
      <4>1. pc' = "boot" /\ sbc' = At("emmc", bootsel) /\ Candidates' = Candidates
        BY <2>3, <3>1, <3>4, <1>c DEF Marked
      <4>2. \E n \in DOMAIN Candidates :
              /\ Candidates[n] = At("emmc", bootsel)
              /\ \A m \in 1 .. n - 1 : PassedOver(Candidates[m])
        <5>1. CASE key = "none" /\ bootsel = 0 /\ AskedGone
          <6>1. CASE IsBlock
            <7>1. Candidates = <<Target(Req), At("emmc", 0), At("sd", 0)>> /\ PassedOver(Target(Req))
              BY <2>1, <5>1, <6>1, CandidateList DEF AskedGone
            <7>2. 2 \in DOMAIN Candidates /\ \A m \in 1 .. 2 - 1 : PassedOver(Candidates[m])
              BY <5>1, <7>1
            <7> QED BY <5>1, <7>1, <7>2
          <6>2. CASE ~IsBlock
            <7>1. Candidates = <<At("emmc", 0), At("sd", 0)>>
              BY <2>1, <5>1, <6>2, CandidateList
            <7>2. 1 \in DOMAIN Candidates /\ \A m \in 1 .. 1 - 1 : PassedOver(Candidates[m])
              BY <5>1, <7>1
            <7> QED BY <5>1, <7>1, <7>2
          <6> QED BY <6>1, <6>2
        <5>2. CASE key = "down"
          <6>1. Candidates = <<At("emmc", 1), At("sd", 1), At("emmc", 0), At("sd", 0)>>
            BY <2>1, <5>2, CandidateList
          <6>2. CASE bootsel = 1
            <7>2. 1 \in DOMAIN Candidates /\ \A m \in 1 .. 1 - 1 : PassedOver(Candidates[m])
              BY <6>1, <6>2
            <7> QED BY <6>1, <6>2, <7>2
          <6>3. CASE bootsel = 0 /\ PassedOver(At("emmc", 1)) /\ PassedOver(At("sd", 1))
            <7>2. 3 \in DOMAIN Candidates /\ \A m \in 1 .. 3 - 1 : PassedOver(Candidates[m])
              BY <6>1, <6>3
            <7> QED BY <6>1, <6>3, <7>2
          <6> QED BY <2>1, <5>2, <6>2, <6>3
        <5> QED BY <2>1, <5>1, <5>2
      <4>3. \E n \in DOMAIN Candidates' :
              Candidates'[n] = sbc' /\ \A m \in 1 .. n - 1 : PassedOver(Candidates[m])'
        BY <4>1, <4>2, <3>2
      <4>4. Marked(loaded, sbc.dev, sbc.idx)'
        BY <2>1, <3>4, <4>1, <1>d DEF Marked
      <4> QED BY <4>1, <4>3, <4>4
    <3>5. CASE ~Marked(loaded', "emmc", bootsel)
      <4>1. pc' = "try_sd" /\ bootsel' = bootsel
        BY <2>3, <3>5
      <4>2. PassedOver(At("emmc", bootsel))'
        BY <2>1, <2>3, <3>5, <4>1, <1>d, NowPassed
      <4>3. (PassedOver(At("emmc", 1)) => PassedOver(At("emmc", 1))') /\ (PassedOver(At("sd", 1)) => PassedOver(At("sd", 1))')
        BY <3>2
      <4> QED BY <2>1, <3>1, <3>3, <4>1, <4>2, <4>3
    <3> QED BY <3>4, <3>5
  <2> QED BY <1>10, <2>2, <2>3 DEF TryEmmc
<1>11. CASE TrySd
  <2>1. pc = "try_sd" /\ ~EnableGui /\ UNCHANGED <<layout, rtcDef>> /\ PassedOver(At("emmc", bootsel))
    BY <1>11 DEF TrySd, persistent
  <2>2. CASE Reset
    BY <2>2, <1>b
  <2>3. ASSUME MmcTryLoad({"sd"}), UNCHANGED <<key, opt0>>,
               sbc' = IF "sd" \in loaded' THEN At("sd", bootsel) ELSE NoConf,
               \/ /\ Marked(loaded', "sd", bootsel) /\ pc' = "boot"
               \/ /\ ~Marked(loaded', "sd", bootsel) /\ bootsel = 1 /\ bootsel' = 0
                  /\ pc' = IF sbc' = NoConf THEN "try_emmc" ELSE "boot"
               \/ ~Marked(loaded', "sd", bootsel) /\ bootsel # 1 /\ pc' = "panic"
        PROVE  PriorityInv'
    <3>1. UNCHANGED <<opt0, rtcDef, key>> /\ Candidates' = Candidates
      BY <2>1, <2>3, <1>c
    <3>2. \A c : PassedOver(c) => PassedOver(c)'
      BY <2>1, <2>3, StaysPassed
    <3>3. ~Marked(loaded', "sd", bootsel) => \A c : c = At("sd", bootsel) => PassedOver(c)'
      BY <2>1, <2>3, <1>d, NowPassed
    <3>4. \E n \in DOMAIN Candidates :
              /\ Candidates[n] = At("sd", bootsel)
              /\ \A m \in 1 .. n - 1 : PassedOver(Candidates[m])
              /\ bootsel = 0 => n = Len(Candidates)
      <4>1. CASE key = "none" /\ bootsel = 0 /\ AskedGone
        <5>1. CASE IsBlock
          <6>1. Candidates = <<Target(Req), At("emmc", 0), At("sd", 0)>> /\ PassedOver(Target(Req))
            BY <2>1, <4>1, <5>1, CandidateList DEF AskedGone
          <6>2. 3 \in DOMAIN Candidates /\ \A m \in 1 .. 3 - 1 : PassedOver(Candidates[m])
            BY <2>1, <4>1, <6>1
          <6> QED BY <2>1, <4>1, <6>1, <6>2
        <5>2. CASE ~IsBlock
          <6>1. Candidates = <<At("emmc", 0), At("sd", 0)>>
            BY <2>1, <4>1, <5>2, CandidateList
          <6>2. 2 \in DOMAIN Candidates /\ \A m \in 1 .. 2 - 1 : PassedOver(Candidates[m])
            BY <2>1, <4>1, <6>1
          <6> QED BY <2>1, <4>1, <6>1, <6>2
        <5> QED BY <5>1, <5>2
      <4>2. CASE key = "down"
        <5>1. Candidates = <<At("emmc", 1), At("sd", 1), At("emmc", 0), At("sd", 0)>>
          BY <2>1, <4>2, CandidateList
        <5>2. CASE bootsel = 1
          <6>2. 2 \in DOMAIN Candidates /\ \A m \in 1 .. 2 - 1 : PassedOver(Candidates[m])
            BY <2>1, <5>1, <5>2
          <6> QED BY <2>1, <5>1, <5>2, <6>2
        <5>3. CASE bootsel = 0 /\ PassedOver(At("emmc", 1)) /\ PassedOver(At("sd", 1))
          <6>2. 4 \in DOMAIN Candidates /\ \A m \in 1 .. 4 - 1 : PassedOver(Candidates[m])
            BY <2>1, <5>1, <5>3
          <6> QED BY <2>1, <5>1, <5>3, <6>2
        <5> QED BY <2>1, <4>2, <5>2, <5>3
      <4> QED BY <2>1, <4>1, <4>2
    <3>5. CASE pc' = "boot"
      <4>1. sbc' = At("sd", bootsel) /\ "sd" \in loaded'
        BY <2>3, <3>5 DEF Marked, NoConf
      <4>2. \E n \in DOMAIN Candidates' :
              Candidates'[n] = sbc' /\ \A m \in 1 .. n - 1 : PassedOver(Candidates[m])'
        BY <3>1, <3>2, <3>4, <4>1
      <4>3. CASE Marked(loaded', "sd", bootsel)
        <5>1. Marked(loaded, sbc.dev, sbc.idx)'
          BY <2>1, <4>1, <4>3, <1>d DEF Marked
        <5> QED BY <3>5, <4>2, <5>1
      <4>4. CASE ~Marked(loaded', "sd", bootsel)
        <5>1. bootsel = 1 /\ key = "down" /\ key' = "down"
          BY <2>1, <2>3, <3>1, <3>5, <4>4
        <5>2. PassedOver(At("emmc", 1))' /\ PassedOver(At("sd", 1))'
          BY <2>1, <3>2, <3>3, <4>4, <5>1
        <5>3. via' = "auto" => StaleAlternate'
          BY <2>1, <3>5, <4>1, <5>1, <5>2 DEF StaleAlternate
        <5> QED BY <3>5, <5>3
      <4> QED BY <4>3, <4>4
    <3>6. CASE pc' = "try_emmc"
      <4>1. bootsel = 1 /\ bootsel' = 0 /\ ~Marked(loaded', "sd", bootsel) /\ key = "down"
        BY <2>1, <2>3, <3>6
      <4>2. PassedOver(At("emmc", 1))' /\ PassedOver(At("sd", 1))'
        BY <2>1, <3>2, <3>3, <4>1
      <4> QED BY <2>1, <3>1, <3>6, <4>1, <4>2
    <3>7. CASE pc' = "panic"
      <4>1. bootsel = 0 /\ ~Marked(loaded', "sd", bootsel)
        BY <2>1, <2>3, <3>7
      <4>2. \A n \in DOMAIN Candidates : PassedOver(Candidates[n])'
        <5>1. PICK n \in DOMAIN Candidates :
                /\ Candidates[n] = At("sd", bootsel)
                /\ \A m \in 1 .. n - 1 : PassedOver(Candidates[m])
                /\ n = Len(Candidates)
          BY <3>4, <4>1
        <5>2. DOMAIN Candidates = 1 .. n
          BY <5>1, CandidateDomain
        <5>3. ASSUME NEW k \in DOMAIN Candidates PROVE PassedOver(Candidates[k])'
          <6>1. CASE k = n
            BY <6>1, <5>1, <4>1, <3>1, <3>3
          <6>2. CASE k # n
            BY <6>2, <5>1, <5>2, <3>1, <3>2
          <6> QED BY <6>1, <6>2
        <5> QED BY <5>3
      <4>3. \A n \in DOMAIN Candidates' : PassedOver(Candidates[n])'
        BY <3>1, <4>2
      <4> QED BY <3>7, <4>3
    <3> QED BY <2>3, <3>5, <3>6, <3>7
  <2> QED BY <1>11, <2>2, <2>3 DEF TrySd, Panic
<1>12. CASE BootSelection \/ PanicShutdown \/ PmicPoweroff \/ SocReset \/ GuiInit
  BY <1>12, <1>a, <1>b DEF BootSelection, BootPerform, CannotBoot, PanicShutdown, PmicPoweroff,
                           SocReset, GuiInit, Reset, Panic
<1>13. CASE MenuSetDefault \/ MenuBoot \/ MenuReboot \/ MenuOff
  BY <1>13, <1>a DEF MenuSetDefault, MenuBoot, MenuReboot, RebootTo, MenuOff
<1>14. CASE UNCHANGED vars
  <2>1. UNCHANGED <<pc, layout, rtcDef, rtcOpt, key, code, opt0, tried, loaded, bootsel, sbc, via>>
    BY <1>14 DEF vars, persistent, storage, choice, run
  <2>2. \A c : PassedOver(c)' = PassedOver(c)
    BY <2>1 DEF PassedOver, Marked
  <2>3. Req' = Req /\ IsBlock' = IsBlock /\ Candidates' = Candidates /\ AskedGone' = AskedGone
    BY <2>1, <1>c DEF AskedGone, PassedOver, Marked, Target, DevOf
  <2>4. SelectsAsked' /\ TriesInOrder'
    BY <2>1, <2>2, <2>3 DEF Marked, Target, DevOf, At
  <2>5. InOrder => InOrder'
    BY <2>1, <2>2, <2>3 DEF Marked
  <2>6. StaleAlternate => StaleAlternate'
    BY <2>1, <2>2 DEF StaleAlternate
  <2> QED BY <2>4, <2>5, <2>6
<1> QED
  BY <1>1, <1>2, <1>3, <1>4, <1>5, <1>6, <1>7, <1>8, <1>9, <1>10, <1>11, <1>12,
     <1>13, <1>14 DEF Next, SocStep, UserStep

(* main() boots by itself only what the order of preference allows for the *)
(* keys and registers this boot started with, everything preferred to it   *)
(* was looked for and is not there, what it boots is there, and it panics  *)
(* with "Nothing to boot" only if that is so: for any media and any        *)
(* failing card, but for the one case of volume down without ENABLE_GUI    *)
(* that StaleAlternate names (main(), the goto try_conf0).                 *)
THEOREM PriorityKept == Spec => []BootPriority
<1>1. Init => PriorityInv
  <2>1. Init => pc = "off"
    BY DEF Init
  <2> QED BY <2>1 DEF PriorityInv, SelectsAsked, TriesInOrder, BootPriority, InOrder
<1>2. TypeOK /\ PriorityInv /\ [Next]_vars => PriorityInv'
  BY ConstAssumption, PriorityStep
<1>3. PriorityInv => BootPriority
  BY DEF PriorityInv
<1> QED
  BY <1>1, <1>2, <1>3, TypeCorrect, PTL DEF Spec
=============================================================================
