----------------------------- MODULE MmcProofs -----------------------------
(***************************************************************************)
(* Proofs about mmc_init() (Mmc): for every card that is what its          *)
(* registers say, any number of lost commands and responses and any limit  *)
(* of the polling loops, what InitSound says; and without a fault, for     *)
(* every card that keeps to its standard, what HealthyCardComesUp says.    *)
(***************************************************************************)
EXTENDS Mmc, TLAPS

Modes == {"MMC_LEGACY", "SD_LEGACY", "MMC_HS", "SD_HS", "MMC_HS_52", "MMC_DDR_52"}
Width == {1, 4, 8}

(* The points of the program, by what is known of the card there. *)
Early  == {"start", "go_idle", "if_cond", "app_cmd", "acmd41", "mmc_idle", "cmd1", "complete_idle", "complete",
           "op_cond_done"}
Ident  == {"all_send_cid", "rca", "csd", "select"}
Trying == {"wide", "timed", "clock", "compare", "undo", "legacy"}
InMmc  == {"ext_csd", "old_mmc", "parts", "modes", "try", "switch", "switch_status"} \cup Trying
InSd   == {"scr_app", "scr", "sd_check", "sd_modes", "sd_try", "sd_width", "sd_wide", "sd_speed", "sd_clock", "sd_error"}
SdBusy == {"sd_width", "sd_wide", "sd_speed", "sd_clock", "sd_error"}
Ends   == {"finish", "ready"}
Places == Early \cup Ident \cup InMmc \cup InSd \cup Ends \cup {"failed"}

CardRec == [st : {"idle", "ready", "ident", "stby", "tran"}, rca : Nat, width : Width, hs : BOOLEAN, ddr : BOOLEAN,
            busy : Nat, app : BOOLEAN]
MmcRec  == [version : Nat, high_capacity : BOOLEAN, rca : Nat, mode : Modes, tran_speed : Nat, legacy_speed : Nat,
            clock : 0 .. f_max, width : {0} \cup Width, capacity_user : Nat, ext_csd : BOOLEAN,
            lba : Nat, has_init : BOOLEAN, verified : BOOLEAN, fatal : BOOLEAN]
HostRec == [width : Width, ddr : BOOLEAN, clock : 0 .. f_max]
SubRec  == [index : {"", "erase_group", "width", "hs", "ddr"}, value : {0} \cup Width,
            ret : {"", "parts", "wide", "timed", "clock", "legacy"}, else : {"", "failed", "undo", "legacy"}]

(* The bus modes that may be tried. *)
MmcMode(a) == a.mode \in {"MMC_LEGACY", "MMC_HS", "MMC_HS_52", "MMC_DDR_52"}
SdMode(a)  == /\ a.mode \in {"SD_LEGACY", "SD_HS"} /\ (a.mode = "SD_HS" => chip.version # SD_VERSION_1_0)
              /\ a.width = 1 \/ (a.width = 4 /\ chip.wide)
AnyMode == [mode : Modes, width : Width]
MmcTodo == {a \in AnyMode : MmcMode(a)}
SdTodo  == {a \in AnyMode : SdMode(a)}

Tries == 0 .. (IF MaxPolls > 5 THEN MaxPolls ELSE 5)
Records ==
  /\ chip \in Chips /\ no \in Numbers /\ faults \in 0 .. MaxFaults /\ pc \in Places /\ tries \in Tries
  /\ card \in CardRec /\ mmc \in MmcRec /\ host \in HostRec /\ sub \in SubRec /\ todo \in Seq(AnyMode)

(* The card is taken for what it is. *)
Identity ==
  /\ pc \in Early => mmc.version \in {0, SD_VERSION_2} /\ (mmc.version # 0 => chip.kind = "sd")
  /\ pc = "op_cond_done" => chip.kind = "mmc"
  /\ pc \in Ident \cup InMmc \cup InSd \cup Ends =>
       chip.kind \in {"sd", "mmc"} /\ mmc.high_capacity = chip.hc /\ (IS_SD(mmc) <=> chip.kind = "sd")
  /\ pc \in {"all_send_cid", "rca", "csd"} => chip.kind = "sd" \/ mmc.version = 0
  /\ pc = "select" => chip.kind = "sd" \/ mmc.version = chip.version
  /\ pc \in InMmc => chip.kind = "mmc"
  /\ pc \in {"ext_csd", "parts", "modes", "try", "switch", "switch_status"} \cup Trying => mmc.version >= MMC_VERSION_4
  /\ pc \in InSd => chip.kind = "sd"
  /\ pc \in {"sd_check", "sd_modes", "sd_try"} \cup SdBusy => mmc.version = chip.version

(* After CMD7 it stays selected; its size is right. *)
Attached == pc \in InMmc \cup InSd \cup Ends => card.st = "tran" /\ card.rca = mmc.rca
Sized ==
  /\ pc \in {"select", "ext_csd", "old_mmc"} \cup InSd => mmc.capacity_user = CsdSectors(chip, chip.hc)
  /\ pc = "ext_csd" => chip.version >= MMC_VERSION_4
  /\ pc = "old_mmc" => chip.version < MMC_VERSION_4
  /\ pc \in (InMmc \ {"ext_csd", "old_mmc"}) \cup Ends => mmc.capacity_user = chip.sectors
  /\ pc \in {"select"} \cup InMmc \cup InSd \cup Ends => mmc.legacy_speed = chip.speed
  /\ mmc.has_init => pc = "ready" /\ mmc.lba = chip.sectors

(* The __mmc_switch() under way and who waits for it. *)
Legacy == Head(todo).mode = "MMC_LEGACY"
Switching ==
  pc \in {"switch", "switch_status"} =>
    /\ sub.index \in {"width", "ddr"} => sub.value # 0
    /\ \/ sub.ret = "parts" /\ sub.index = "erase_group" /\ sub.else = "failed"
       \/ /\ todo # <<>>
          /\ \/ sub.ret = "wide" /\ sub.index = "width" /\ sub.else = "undo"
             \/ /\ sub.ret = "timed" /\ sub.index = "hs" /\ sub.else = "undo" /\ sub.value = (IF Legacy THEN 0 ELSE 1)
                /\ pc = "switch_status" /\ <<sub.index, sub.value>> \notin chip.refuse => (card.hs <=> ~Legacy)
             \/ sub.ret = "clock" /\ sub.index = "ddr" /\ sub.else = "undo" /\ ~Legacy /\ card.hs
             \/ sub.ret = "legacy" /\ sub.index = "width" /\ sub.else = "legacy"

(* The bus: what the card was told, and what the host makes of it. *)
Bus ==
  /\ pc # "start" => mmc.width # 0
  /\ chip.kind = "sd" => ~card.ddr /\ (chip.version = SD_VERSION_1_0 => ~card.hs)
  /\ pc \in InMmc => todo \in Seq(MmcTodo)
  /\ pc \in InSd => todo \in Seq(SdTodo)
  /\ pc \in Early \cup Ident => todo = <<>>
  /\ pc \in Trying \cup SdBusy => todo # <<>>
  /\ pc \in {"timed", "clock", "compare"} => (card.hs <=> ~Legacy)
  /\ pc = "compare" /\ ~mmc.fatal => host.clock <= CardLimit
  /\ pc = "sd_wide" => card.width = Head(todo).width
  /\ pc \in {"sd_speed", "sd_clock"} => card.width = Head(todo).width /\ mmc.width = Head(todo).width
  /\ pc = "sd_speed" => mmc.version # SD_VERSION_1_0
  /\ pc = "sd_clock" => (card.hs <=> Head(todo).mode = "SD_HS") /\ card.width <= chip.wires
  /\ mmc.verified => pc \in Ends
  /\ pc \in Ends /\ mmc.verified /\ ~mmc.fatal => Agree /\ host.clock <= CardLimit

MmcInv == Records /\ Identity /\ Attached /\ Sized /\ Switching /\ Bus
-----------------------------------------------------------------------------
USE DEF Early, Ident, Trying, InMmc, InSd, SdBusy, Ends, Places

(* Arithmetic of the clock: division rounds down, and the divider up. *)
LEMMA Quotient ==
  ASSUME NEW a \in Nat, NEW b \in Nat, b > 0, NEW c \in Nat, a <= b * c
  PROVE  a \div b \in 0 .. c
<1> DEFINE q == a \div b
<1>1. q \in Nat /\ q * b <= a
  OBVIOUS
<1> HIDE DEF q
<1>2. q * b <= b * c
  BY <1>1
<1>3. q <= c
  BY <1>1, <1>2
<1> QED BY <1>1, <1>3 DEF q

LEMMA DividerUp ==
  ASSUME NEW a \in Nat, NEW b \in Nat, a > 0, b > 0
  PROVE  Divider(a, b) \in Nat /\ Divider(a, b) > 0 /\ Divider(a, b) * b >= a
<1> DEFINE q == Divider(a, b)
<1>1. q \in Nat /\ q * b >= a
  BY DEF Divider
<1> HIDE DEF q
<1>2. q # 0
  BY <1>1
<1> QED BY <1>1, <1>2 DEF q

(* The two dividers together never divide by less than asked for. *)
LEMMA SplitUp ==
  ASSUME NEW d \in Nat, d > 0
  PROVE  2 ^ Split(d).n * Split(d).div \in Nat /\ 2 ^ Split(d).n * Split(d).div >= d
<1> DEFINE h == Halved(d)
           i == Halved(h)
           j == Halved(i)
<1>1. h \in Nat /\ i \in Nat /\ j \in Nat /\ 2 * h >= d /\ 2 * i >= h /\ 2 * j >= i
  BY DEF Halved
<1> HIDE DEF h, i, j
<1>2. \/ Split(d).n = 0 /\ Split(d).div = d
      \/ Split(d).n = 1 /\ Split(d).div = h
      \/ Split(d).n = 2 /\ Split(d).div = i
      \/ Split(d).n = 3 /\ Split(d).div = j
  BY <1>1 DEF Split, h, i, j
<1>3. 2 ^ 0 = 1 /\ 2 ^ 1 = 2 /\ 2 ^ 2 = 4 /\ 2 ^ 3 = 8
  OBVIOUS
<1> DEFINE n == Split(d).n
           p == 2 ^ n
<1>4. (n = 0 => p = 2 ^ 0) /\ (n = 1 => p = 2 ^ 1) /\ (n = 2 => p = 2 ^ 2) /\ (n = 3 => p = 2 ^ 3)
  BY Zenon
<1> HIDE DEF p
<1>5. \/ p = 1 /\ Split(d).div = d
      \/ p = 2 /\ Split(d).div = h
      \/ p = 4 /\ Split(d).div = i
      \/ p = 8 /\ Split(d).div = j
  BY <1>2, <1>3, <1>4
<1>6. p * Split(d).div \in Nat /\ p * Split(d).div >= d
  BY <1>1, <1>5
<1> QED BY <1>6 DEF p

(* mmc_set_mod_clk() never gives the card more than was asked for. *)
LEMMA ClockBound ==
  ASSUME NEW ddr \in BOOLEAN, NEW khz \in Nat, khz > 0
  PROVE  ModClk(ddr, khz).rate \in 0 .. khz
<1> DEFINE k   == IF ddr THEN 4 ELSE 2
           hz  == khz * k
           pll == IF hz <= 24000 THEN 24000 ELSE 1200000
           d   == Divider(pll, hz)
           q   == 2 ^ Split(d).n * Split(d).div
<1>1. ModClk(ddr, khz).rate = (pll \div q) \div k
  BY DEF ModClk
<1>2. k \in {2, 4}
  OBVIOUS
<1> HIDE DEF k
<1>3. hz \in Nat /\ hz > 0 /\ hz = k * khz
  BY <1>2
<1> HIDE DEF hz
<1>4. pll \in Nat /\ pll > 0
  OBVIOUS
<1> HIDE DEF pll
<1>5. d \in Nat /\ d > 0 /\ d * hz >= pll
  BY <1>3, <1>4, DividerUp
<1> HIDE DEF d
<1>6. q \in Nat /\ q >= d
  BY <1>5, SplitUp
<1> HIDE DEF q
<1>7. q * hz >= pll
  BY <1>3, <1>4, <1>5, <1>6
<1>8. pll \div q \in 0 .. hz
  BY <1>3, <1>4, <1>5, <1>6, <1>7, Quotient
<1>9. (pll \div q) \div k \in 0 .. khz
  BY <1>2, <1>3, <1>8, Quotient
<1> QED BY <1>1, <1>9
-----------------------------------------------------------------------------
LEMMA CapacityNat ==
  ASSUME NEW c \in Chips
  PROVE  CsdSectors(c, c.hc) \in Nat
<1>1. c.csize \in Nat /\ c.bl \in Nat /\ c.cmult \in 0 .. 7
  BY MmcAssumption
<1> DEFINE e == IF c.hc THEN 8 ELSE c.cmult
<1>2. e \in 0 .. 8
  BY <1>1
<1> HIDE DEF e
<1>3. 2 ^ (e + 2) \in Nat
  <2>1. 2 ^ 2 = 4 /\ 2 ^ 3 = 8 /\ 2 ^ 4 = 16 /\ 2 ^ 5 = 32 /\ 2 ^ 6 = 64 /\ 2 ^ 7 = 128 /\ 2 ^ 8 = 256
        /\ 2 ^ 9 = 512 /\ 2 ^ 10 = 1024
    OBVIOUS
  <2>2. e + 2 \in {2, 3, 4, 5, 6, 7, 8, 9, 10}
    BY <1>2
  <2>3. 2 ^ (e + 2) \in {2 ^ 2, 2 ^ 3, 2 ^ 4, 2 ^ 5, 2 ^ 6, 2 ^ 7, 2 ^ 8, 2 ^ 9, 2 ^ 10}
    BY <2>2, Zenon
  <2> DEFINE p == 2 ^ (e + 2)
  <2> HIDE DEF p
  <2>4. p \in Nat
    BY <2>1, <2>3 DEF p
  <2> QED BY <2>4 DEF p
<1> DEFINE p == 2 ^ (e + 2)
<1>4. CsdSectors(c, c.hc) = (c.csize + 1) * p * c.bl
  BY DEF CsdSectors, e
<1> HIDE DEF p
<1>5. (c.csize + 1) * p * c.bl \in Nat
  BY <1>1, <1>3 DEF p
<1> QED BY <1>4, <1>5

LEMMA Rates == f_min = 400 /\ f_max \in Nat /\ f_max >= 52000
  BY DEF f_min, f_max

(* The records the driver's operations build. *)
LEMMA ModeRecords ==
  ASSUME NEW m \in MmcRec, NEW mode \in Modes, NEW w \in Width, NEW khz \in Nat
  PROVE  /\ mmc_mode2freq(m, mode) \in Nat /\ SelectMode(m, mode) \in MmcRec
         /\ ClampClock(khz) \in f_min .. f_max /\ (khz >= f_min => ClampClock(khz) <= khz)
         /\ WithClock(m, khz) \in MmcRec /\ WithWidth(m, w) \in MmcRec
<1>1. mmc_mode2freq(m, mode) \in Nat
  BY DEF mmc_mode2freq, MmcRec, Modes
<1>2. SelectMode(m, mode) \in MmcRec
  BY <1>1 DEF SelectMode, MmcRec
<1>3. ClampClock(khz) \in f_min .. f_max /\ (khz >= f_min => ClampClock(khz) <= khz)
  <2>1. CASE khz > f_max
    BY <2>1 DEF ClampClock, f_min, f_max
  <2>2. CASE khz < f_min
    BY <2>2 DEF ClampClock, f_min, f_max
  <2>3. CASE khz \in f_min .. f_max
    BY <2>3 DEF ClampClock, f_min, f_max
  <2>4. khz > f_max \/ khz < f_min \/ khz \in f_min .. f_max
    BY DEF f_min, f_max
  <2> QED BY <2>1, <2>2, <2>3, <2>4
<1>4. WithClock(m, khz) \in MmcRec
  BY <1>3, Rates DEF WithClock, MmcRec
<1>5. WithWidth(m, w) \in MmcRec
  BY DEF WithWidth, MmcRec
<1> QED BY <1>1, <1>2, <1>3, <1>4, <1>5

(* The controller's settings for a state of struct mmc. *)
LEMMA HostRecord ==
  ASSUME NEW m \in MmcRec, m.width # 0
  PROVE  Regs(m) \in HostRec /\ Regs(m).clock <= m.clock
<1>1. m.clock \in 0 .. f_max /\ m.width \in Width /\ is_ddr(m.mode) \in BOOLEAN
  BY DEF MmcRec, is_ddr
<1>2. Regs(m).clock \in 0 .. m.clock
  <2>1. CASE m.clock = 0
    BY <2>1 DEF Regs
  <2>2. CASE m.clock # 0
    <3>1. m.clock \in Nat /\ m.clock > 0
      BY <1>1, <2>2, Rates
    <3> DEFINE ddr == is_ddr(m.mode)
               khz == m.clock
    <3> HIDE DEF ddr, khz
    <3>2. ddr \in BOOLEAN /\ khz \in Nat /\ khz > 0
      BY <1>1, <3>1 DEF ddr, khz
    <3>3. ModClk(ddr, khz).rate \in 0 .. khz
      BY <3>2, ClockBound
    <3> QED BY <2>2, <3>3 DEF Regs, ddr, khz
  <2> QED BY <2>1, <2>2
<1>3. Regs(m).width = m.width /\ Regs(m).ddr = is_ddr(m.mode)
  BY DEF Regs
<1>4. Regs(m).clock \in 0 .. f_max /\ Regs(m).clock <= m.clock
  <2> DEFINE r == Regs(m).clock
             khz == m.clock
  <2> HIDE DEF r, khz
  <2>1. khz \in 0 .. f_max /\ r \in 0 .. khz
    BY <1>1, <1>2 DEF r, khz
  <2>2. r \in 0 .. f_max /\ r <= khz
    BY <2>1, Rates
  <2> QED BY <2>2 DEF r, khz
<1>5. Regs(m) = [width |-> Regs(m).width, ddr |-> Regs(m).ddr, clock |-> Regs(m).clock]
  BY DEF Regs
<1> QED BY <1>1, <1>3, <1>4, <1>5 DEF HostRec

LEMMA IosStep ==
  ASSUME NEW m \in MmcRec, m.width # 0, faults \in 0 .. MaxFaults, host \in HostRec, SetIos(m)
  PROVE  /\ mmc' \in MmcRec /\ host' \in HostRec /\ faults' \in 0 .. MaxFaults
         /\ \/ mmc' = m /\ host' = Regs(m) /\ host'.clock <= m.clock
            \/ mmc' = [m EXCEPT !.fatal = TRUE] /\ mmc'.fatal
<1>1. faults' \in 0 .. MaxFaults
  BY MmcAssumption DEF SetIos
<1>2. CASE host' = Regs(m) /\ mmc' = m
  BY <1>1, <1>2, HostRecord
<1>3. CASE mmc' = [m EXCEPT !.fatal = TRUE] /\ UNCHANGED host
  <2>1. mmc' \in MmcRec /\ mmc'.fatal
    BY <1>3 DEF MmcRec
  <2> QED BY <1>1, <1>3, <2>1
<1> QED BY <1>2, <1>3 DEF SetIos
-----------------------------------------------------------------------------
(* The card's own steps.  SameBus: what a command without effect on the    *)
(* bus leaves of the card.                                                 *)
SameBus(c) == c \in CardRec /\ c.width = card.width /\ c.hs = card.hs /\ c.ddr = card.ddr
SameCard(c) == SameBus(c) /\ c.st = card.st /\ c.rca = card.rca

LEMMA CardRecords ==
  ASSUME card \in CardRec
  PROVE  SameCard(card) /\ SameCard(Plain(card)) /\ SameCard([card EXCEPT !.app = TRUE])
<1>1. SameCard(card)
  BY DEF SameCard, SameBus
<1>2. SameCard(Plain(card))
  BY DEF SameCard, SameBus, Plain, CardRec
<1>3. SameCard([card EXCEPT !.app = TRUE])
  BY DEF SameCard, SameBus, CardRec
<1> QED BY <1>1, <1>2, <1>3

LEMMA IdleRecord ==
  ASSUME card \in CardRec
  PROVE  Idle \in CardRec /\ ~Idle.ddr /\ ~Idle.hs
  BY DEF Idle, CardRec, Width

(* A fault is counted. *)
Counted == faults' = faults \/ (faults < MaxFaults /\ faults' = faults + 1)
LEMMA FaultsBounded ==
  ASSUME faults \in 0 .. MaxFaults, Counted
  PROVE  faults' \in 0 .. MaxFaults
  BY MmcAssumption DEF Counted

(* The loop counters stay in bounds. *)
LEMMA TriesBounded == 0 \in Tries /\ 1 \in Tries
  BY MmcAssumption DEF Tries
LEMMA RetryBounded ==
  ASSUME tries \in Tries, NEW n \in {3, 5, MaxPolls}, NEW l, Retry(l, n)
  PROVE  tries' \in Tries /\ pc' \in {l, "failed"} /\ UNCHANGED <<mmc, todo, sub>>
<1>1. n \in Nat /\ n <= (IF MaxPolls > 5 THEN MaxPolls ELSE 5)
  BY MmcAssumption
<1>2. tries' \in {tries, tries + 1} /\ (tries' = tries \/ tries < n)
  BY DEF Retry
<1>3. tries' \in Tries
  BY <1>1, <1>2, MmcAssumption DEF Tries
<1> QED BY <1>3 DEF Retry
-----------------------------------------------------------------------------
(* Up to the relative address: nothing is known of the card but its kind.  *)
LEMMA EarlyStep ==
  ASSUME MmcInv, pc \in Early, pc' \in Early \cup {"failed"}, UNCHANGED <<chip, no, todo, sub>>, tries' \in Tries,
         card' \in CardRec, host' \in HostRec, mmc' \in MmcRec, faults' \in 0 .. MaxFaults,
         chip.kind = "sd" => ~card'.ddr /\ (chip.version = SD_VERSION_1_0 => ~card'.hs),
         mmc'.version = mmc.version \/ (mmc'.version = SD_VERSION_2 /\ chip.kind = "sd"),
         pc' # "start", mmc'.width # 0, ~mmc'.has_init, ~mmc'.verified,
         pc' = "op_cond_done" => chip.kind = "mmc"
  PROVE  MmcInv'
<1>1. Records'
  BY DEF MmcInv, Records
<1>2. Identity'
  BY DEF MmcInv, Identity
<1>3. Attached' /\ Switching' /\ Sized'
  BY DEF Attached, Switching, Sized
<1>4. Bus'
  BY DEF MmcInv, Bus
<1> QED BY <1>1, <1>2, <1>3, <1>4 DEF MmcInv

(* What MmcInv says there, for one-line citations. *)
LEMMA EarlyFacts ==
  ASSUME MmcInv, pc \in Early
  PROVE  /\ card \in CardRec /\ host \in HostRec /\ mmc \in MmcRec /\ faults \in 0 .. MaxFaults /\ tries \in Tries
         /\ ~mmc.has_init /\ ~mmc.verified /\ (pc # "start" => mmc.width # 0) /\ chip \in Chips /\ todo = <<>>
         /\ chip.kind = "sd" => ~card.ddr /\ (chip.version = SD_VERSION_1_0 => ~card.hs)
  BY DEF MmcInv, Records, Sized, Bus, MmcRec

LEMMA StartInitStep == ASSUME MmcInv, StartInit PROVE MmcInv'
<1> DEFINE m == WithClock(WithWidth(SelectMode(mmc, "MMC_LEGACY"), 1), 0)
<1>1. pc = "start" /\ SetIos(m) /\ pc' = "go_idle" /\ tries' = 0 /\ UNCHANGED <<chip, no, card, todo, sub>>
  BY DEF StartInit, Goto, At
<1>2. m \in MmcRec
  BY <1>1, EarlyFacts, ModeRecords DEF Modes, Width
<1>3. m.width = 1 /\ m.version = mmc.version /\ m.has_init = mmc.has_init /\ m.verified = mmc.verified
  BY <1>1, EarlyFacts DEF WithClock, WithWidth, SelectMode, MmcRec
<1> HIDE DEF m
<1>4. mmc' \in MmcRec /\ host' \in HostRec /\ faults' \in 0 .. MaxFaults /\ mmc' \in {m, [m EXCEPT !.fatal = TRUE]}
  BY <1>1, <1>2, <1>3, EarlyFacts, IosStep
<1>5. mmc'.width = 1 /\ mmc'.version = mmc.version /\ ~mmc'.has_init /\ ~mmc'.verified
  BY <1>1, <1>2, <1>3, <1>4, EarlyFacts DEF MmcRec
<1> QED BY <1>1, <1>4, <1>5, EarlyFacts, EarlyStep, TriesBounded

LEMMA GoIdleStep == ASSUME MmcInv, mmc_go_idle PROVE MmcInv'
<1>1. /\ UNCHANGED <<chip, no, host, todo, sub, mmc>> /\ tries' = 0 /\ pc = "go_idle" /\ pc' \in {"if_cond", "failed"}
      /\ card' \in {card, Idle, Plain(card)} /\ Counted
  BY DEF mmc_go_idle, send_cmd, Next1, Fail, Goto, At, Counted
<1>2. card' \in CardRec /\ (chip.kind = "sd" => ~card'.ddr /\ (chip.version = SD_VERSION_1_0 => ~card'.hs))
  BY <1>1, EarlyFacts, CardRecords, IdleRecord DEF SameCard, SameBus
<1> QED BY <1>1, <1>2, EarlyFacts, EarlyStep, FaultsBounded, TriesBounded

LEMMA IfCondStep == ASSUME MmcInv, mmc_send_if_cond PROVE MmcInv'
<1>1. /\ UNCHANGED <<chip, no, host, todo, sub>> /\ tries' = 0 /\ pc = "if_cond" /\ pc' = "app_cmd"
      /\ card' \in {card, Plain(card)} /\ Counted
      /\ mmc' = mmc \/ (chip.kind = "sd" /\ mmc' = [mmc EXCEPT !.version = SD_VERSION_2])
  BY DEF mmc_send_if_cond, send_cmd, Next1, Goto, At, Counted
<1>2. card' \in CardRec /\ (chip.kind = "sd" => ~card'.ddr /\ (chip.version = SD_VERSION_1_0 => ~card'.hs))
  BY <1>1, EarlyFacts, CardRecords DEF SameCard, SameBus
<1>3. /\ mmc' \in MmcRec /\ mmc'.width # 0 /\ ~mmc'.has_init /\ ~mmc'.verified
      /\ mmc'.version = mmc.version \/ (mmc'.version = SD_VERSION_2 /\ chip.kind = "sd")
  BY <1>1, EarlyFacts DEF MmcRec, SD_VERSION_2
<1> QED BY <1>1, <1>2, <1>3, EarlyFacts, EarlyStep, FaultsBounded, TriesBounded

LEMMA AppCmdStep == ASSUME MmcInv, SdAppCmd PROVE MmcInv'
<1>1. /\ UNCHANGED <<chip, no, host, todo, sub, mmc>> /\ tries' \in {tries, 0} /\ pc = "app_cmd"
      /\ pc' \in {"acmd41", "mmc_idle", "failed"}
      /\ card' \in {card, Plain(card), [card EXCEPT !.app = TRUE]} /\ Counted
  BY DEF SdAppCmd, send_cmd, NotSd, Next1, Fail, Goto, At, Counted
<1>2. card' \in CardRec /\ (chip.kind = "sd" => ~card'.ddr /\ (chip.version = SD_VERSION_1_0 => ~card'.hs))
  BY <1>1, EarlyFacts, CardRecords DEF SameCard, SameBus
<1> QED BY <1>1, <1>2, EarlyFacts, EarlyStep, FaultsBounded, TriesBounded

LEMMA MmcIdleStep == ASSUME MmcInv, mmc_send_op_cond PROVE MmcInv'
<1>1. /\ UNCHANGED <<chip, no, host, todo, sub, mmc>> /\ tries' = 0 /\ pc = "mmc_idle" /\ pc' = "cmd1"
      /\ card' \in {card, Idle, Plain(card)} /\ Counted
  BY DEF mmc_send_op_cond, send_cmd, Next1, Goto, At, Counted
<1>2. card' \in CardRec /\ (chip.kind = "sd" => ~card'.ddr /\ (chip.version = SD_VERSION_1_0 => ~card'.hs))
  BY <1>1, EarlyFacts, CardRecords, IdleRecord DEF SameCard, SameBus
<1> QED BY <1>1, <1>2, EarlyFacts, EarlyStep, FaultsBounded, TriesBounded

(* CMD1 of an MMC that is still busy, or has come up. *)
Cmd1Card == IF card.busy = 0 THEN [Plain(card) EXCEPT !.st = "ready"] ELSE [Plain(card) EXCEPT !.busy = @ - 1]
LEMMA Cmd1Record == ASSUME card \in CardRec PROVE SameBus(Cmd1Card)
<1>1. card.busy # 0 => card.busy - 1 \in Nat
  BY DEF CardRec
<1> QED BY <1>1 DEF Cmd1Card, SameBus, Plain, CardRec

LEMMA Cmd1Step == ASSUME MmcInv, mmc_send_op_cond_iter PROVE MmcInv'
<1>1. /\ UNCHANGED <<chip, no, host, todo, sub, mmc>> /\ tries' \in {0, 1} /\ pc = "cmd1"
      /\ pc' \in {"op_cond_done", "cmd1", "complete_idle", "failed"} /\ (pc' # "failed" => chip.kind = "mmc")
      /\ card' \in {card, Plain(card), Cmd1Card} /\ Counted
  BY DEF mmc_send_op_cond_iter, Cmd1, Cmd1Card, send_cmd, Next1, Fail, Goto, At, Counted
<1>2. card' \in CardRec /\ (chip.kind = "sd" => ~card'.ddr /\ (chip.version = SD_VERSION_1_0 => ~card'.hs))
  BY <1>1, EarlyFacts, CardRecords, Cmd1Record DEF SameCard, SameBus
<1> QED BY <1>1, <1>2, EarlyFacts, EarlyStep, FaultsBounded, TriesBounded

LEMMA CompleteStep == ASSUME MmcInv, mmc_complete_op_cond PROVE MmcInv'
<1>1. CASE At("complete_idle")
  <2>1. /\ UNCHANGED <<chip, no, host, todo, sub, mmc>> /\ tries' = 0 /\ pc = "complete_idle" /\ pc' = "complete"
        /\ card' \in {card, Idle, Plain(card)} /\ Counted
    BY <1>1 DEF mmc_complete_op_cond, send_cmd, Next1, Goto, At, Counted
  <2>2. card' \in CardRec /\ (chip.kind = "sd" => ~card'.ddr /\ (chip.version = SD_VERSION_1_0 => ~card'.hs))
    BY <2>1, EarlyFacts, CardRecords, IdleRecord DEF SameCard, SameBus
  <2> QED BY <2>1, <2>2, EarlyFacts, EarlyStep, FaultsBounded, TriesBounded
<1>2. CASE At("complete")
  <2>1. /\ UNCHANGED <<chip, no, host>> /\ pc = "complete" /\ card' \in {card, Plain(card), Cmd1Card} /\ Counted
        /\ \/ chip.kind = "mmc" /\ Next1("op_cond_done")
           \/ Retry("complete", MaxPolls)
           \/ Fail
    BY <1>2 DEF mmc_complete_op_cond, Cmd1, Cmd1Card, send_cmd, At, Counted
  <2>2. /\ UNCHANGED <<todo, sub, mmc>> /\ tries' \in Tries /\ pc' \in {"op_cond_done", "complete", "failed"}
        /\ pc' = "op_cond_done" => chip.kind = "mmc"
    BY <2>1, EarlyFacts, TriesBounded, RetryBounded DEF Next1, Fail, Goto
  <2>3. card' \in CardRec /\ (chip.kind = "sd" => ~card'.ddr /\ (chip.version = SD_VERSION_1_0 => ~card'.hs))
    BY <2>1, EarlyFacts, CardRecords, Cmd1Record DEF SameCard, SameBus
  <2> QED BY <2>1, <2>2, <2>3, EarlyFacts, EarlyStep, FaultsBounded
<1> QED BY <1>1, <1>2 DEF mmc_complete_op_cond

(* Steps between the operating conditions and the selection. *)
LEMMA IdentStep ==
  ASSUME MmcInv, pc \in Early \cup Ident, pc' \in Ident \cup {"failed"}, UNCHANGED <<chip, no, host, todo, sub>>, tries' \in Tries,
         card' \in CardRec, mmc' \in MmcRec, faults' \in 0 .. MaxFaults,
         chip.kind = "sd" => ~card'.ddr /\ (chip.version = SD_VERSION_1_0 => ~card'.hs),
         mmc'.width # 0, ~mmc'.has_init, ~mmc'.verified,
         pc' # "failed" => chip.kind \in {"sd", "mmc"} /\ mmc'.high_capacity = chip.hc /\ (IS_SD(mmc') <=> chip.kind = "sd"),
         pc' \in {"all_send_cid", "rca", "csd"} => chip.kind = "sd" \/ mmc'.version = 0,
         pc' = "select" => /\ chip.kind = "sd" \/ mmc'.version = chip.version
                           /\ mmc'.capacity_user = CsdSectors(chip, chip.hc) /\ mmc'.legacy_speed = chip.speed
  PROVE  MmcInv'
<1>1. Records'
  BY DEF MmcInv, Records
<1>2. Identity'
  BY DEF Identity
<1>3. Attached' /\ Switching' /\ Sized'
  BY DEF Attached, Switching, Sized
<1>4. Bus'
  BY DEF MmcInv, Bus
<1> QED BY <1>1, <1>2, <1>3, <1>4 DEF MmcInv

LEMMA IdentFacts ==
  ASSUME MmcInv, pc \in Ident
  PROVE  /\ card \in CardRec /\ host \in HostRec /\ mmc \in MmcRec /\ faults \in 0 .. MaxFaults /\ tries \in Tries
         /\ ~mmc.has_init /\ ~mmc.verified /\ mmc.width # 0 /\ chip \in Chips /\ todo = <<>>
         /\ chip.kind = "sd" => ~card.ddr /\ (chip.version = SD_VERSION_1_0 => ~card.hs)
         /\ chip.kind \in {"sd", "mmc"} /\ mmc.high_capacity = chip.hc /\ (IS_SD(mmc) <=> chip.kind = "sd")
         /\ pc # "select" => chip.kind = "sd" \/ mmc.version = 0
         /\ pc = "select" => chip.kind = "sd" \/ mmc.version = chip.version
  BY DEF MmcInv, Records, Identity, Sized, Bus, MmcRec

LEMMA OpCondStep == ASSUME MmcInv, SdSendOpCond PROVE MmcInv'
<1> DEFINE ReadyCard == [Plain(card) EXCEPT !.st = "ready"]
           BusyCard == [Plain(card) EXCEPT !.busy = IF @ = 0 THEN 0 ELSE @ - 1]
           m == [mmc EXCEPT !.version = IF HCS THEN @ ELSE SD_VERSION_1_0, !.high_capacity = chip.hc, !.rca = 0]
<1>1. /\ UNCHANGED <<chip, no, host>> /\ pc = "acmd41" /\ card' \in {card, Plain(card), ReadyCard, BusyCard} /\ Counted
      /\ \/ chip.kind = "sd" /\ mmc' = m /\ Goto("all_send_cid")
         \/ Retry("app_cmd", MaxPolls)
         \/ NotSd
  BY DEF SdSendOpCond, send_cmd, At, Counted
<1>2. SameBus(ReadyCard) /\ SameBus(BusyCard)
  <2>1. card.busy # 0 => card.busy - 1 \in Nat
    BY <1>1, EarlyFacts DEF CardRec
  <2>2. SameBus(ReadyCard)
    BY <1>1, EarlyFacts DEF SameBus, Plain, CardRec
  <2>3. SameBus(BusyCard)
    BY <1>1, <2>1, EarlyFacts DEF SameBus, Plain, CardRec
  <2> QED BY <2>2, <2>3
<1>3. card' \in CardRec /\ (chip.kind = "sd" => ~card'.ddr /\ (chip.version = SD_VERSION_1_0 => ~card'.hs))
  BY <1>1, <1>2, EarlyFacts, CardRecords DEF SameCard, SameBus
<1>4. CASE chip.kind = "sd" /\ mmc' = m /\ Goto("all_send_cid")
  <2>1. chip.hc \in BOOLEAN
    BY <1>1, EarlyFacts, MmcAssumption
  <2>2. /\ m \in MmcRec /\ m.width # 0 /\ ~m.has_init /\ ~m.verified /\ m.high_capacity = chip.hc
        /\ m.version \in {SD_VERSION_1_0, SD_VERSION_2}
    BY <1>1, <2>1, EarlyFacts DEF MmcRec, HCS, SD_VERSION_1_0, SD_VERSION_2
  <2>3. IS_SD(m)
    BY <2>2 DEF IS_SD, SD_VERSION_1_0, SD_VERSION_2
  <2>4. pc' = "all_send_cid" /\ tries' = 0 /\ UNCHANGED <<todo, sub>>
    BY <1>4 DEF Goto
  <2> QED BY <1>1, <1>3, <1>4, <2>2, <2>3, <2>4, EarlyFacts, IdentStep, FaultsBounded, TriesBounded
<1>5. CASE Retry("app_cmd", MaxPolls) \/ NotSd
  <2>1. UNCHANGED <<todo, sub, mmc>> /\ tries' \in Tries /\ pc' \in {"app_cmd", "mmc_idle", "failed"}
    BY <1>1, <1>5, EarlyFacts, TriesBounded, RetryBounded DEF NotSd, Next1, Fail, Goto
  <2> QED BY <1>1, <1>3, <2>1, EarlyFacts, EarlyStep, FaultsBounded
<1> QED BY <1>1, <1>4, <1>5

LEMMA OpCondDoneStep == ASSUME MmcInv, OpCondDone PROVE MmcInv'
<1> DEFINE m == [mmc EXCEPT !.version = 0, !.high_capacity = chip.hc, !.rca = 1]
<1>1. /\ UNCHANGED <<chip, no, host, card, faults, todo, sub>> /\ pc = "op_cond_done" /\ pc' = "all_send_cid" /\ tries' = 0
      /\ mmc' = m
  BY DEF OpCondDone, Goto, At
<1>2. chip.kind = "mmc" /\ chip.hc \in BOOLEAN
  BY <1>1, EarlyFacts, MmcAssumption DEF MmcInv, Identity
<1>3. m \in MmcRec /\ m.width # 0 /\ ~m.has_init /\ ~m.verified /\ m.high_capacity = chip.hc /\ m.version = 0
  BY <1>1, <1>2, EarlyFacts DEF MmcRec
<1>4. ~IS_SD(m)
  BY <1>3 DEF IS_SD, SD_VERSION_1_0
<1> QED BY <1>1, <1>2, <1>3, <1>4, EarlyFacts, IdentStep, TriesBounded

LEMMA CidStep == ASSUME MmcInv, SendCid PROVE MmcInv'
<1> DEFINE IdentCard == [Plain(card) EXCEPT !.st = "ident"]
<1>1. /\ UNCHANGED <<chip, no, host>> /\ pc = "all_send_cid" /\ card' \in {card, Plain(card), IdentCard} /\ Counted
      /\ Next1("rca") \/ Retry("all_send_cid", 5)
  BY DEF SendCid, send_cmd, At, Counted
<1>2. SameBus(IdentCard)
  BY <1>1, IdentFacts DEF SameBus, Plain, CardRec
<1>3. card' \in CardRec /\ (chip.kind = "sd" => ~card'.ddr /\ (chip.version = SD_VERSION_1_0 => ~card'.hs))
  BY <1>1, <1>2, IdentFacts, CardRecords DEF SameCard, SameBus
<1>4. UNCHANGED <<todo, sub, mmc>> /\ tries' \in Tries /\ pc' \in {"all_send_cid", "rca", "failed"}
  BY <1>1, IdentFacts, TriesBounded, RetryBounded DEF Next1, Goto
<1> QED BY <1>1, <1>3, <1>4, IdentFacts, IdentStep, FaultsBounded

LEMMA RcaStep == ASSUME MmcInv, SendRelativeAddr PROVE MmcInv'
<1> DEFINE rca == IF chip.kind = "sd" THEN chip.rca ELSE mmc.rca
           StbyCard == [Plain(card) EXCEPT !.st = "stby", !.rca = rca]
           m == [mmc EXCEPT !.rca = IF IS_SD(mmc) THEN chip.rca ELSE @]
<1>1. /\ UNCHANGED <<chip, no, host, todo, sub>> /\ tries' = 0 /\ pc = "rca" /\ card' \in {card, Plain(card), StbyCard} /\ Counted
      /\ (pc' = "csd" /\ mmc' = m) \/ (pc' = "failed" /\ mmc' = mmc)
  BY DEF SendRelativeAddr, send_cmd, Goto, Fail, At, Counted
<1>2. chip.rca \in Nat /\ rca \in Nat
  BY <1>1, IdentFacts, MmcAssumption DEF MmcRec
<1>3. SameBus(StbyCard)
  BY <1>1, <1>2, IdentFacts DEF SameBus, Plain, CardRec
<1>4. card' \in CardRec /\ (chip.kind = "sd" => ~card'.ddr /\ (chip.version = SD_VERSION_1_0 => ~card'.hs))
  BY <1>1, <1>3, IdentFacts, CardRecords DEF SameCard, SameBus
<1>5. /\ m \in MmcRec /\ m.width = mmc.width /\ m.has_init = mmc.has_init /\ m.verified = mmc.verified
      /\ m.high_capacity = mmc.high_capacity /\ m.version = mmc.version
  BY <1>1, <1>2, IdentFacts DEF MmcRec
<1> HIDE DEF m
<1>6. /\ mmc' \in MmcRec /\ mmc'.width # 0 /\ ~mmc'.has_init /\ ~mmc'.verified /\ mmc'.high_capacity = chip.hc
      /\ mmc'.version = mmc.version
  BY <1>1, <1>5, IdentFacts
<1>7. IS_SD(mmc') <=> chip.kind = "sd"
  BY <1>1, <1>6, IdentFacts DEF IS_SD
<1> QED BY <1>1, <1>4, <1>6, <1>7, IdentFacts, IdentStep, FaultsBounded, TriesBounded

LEMMA CsdStep == ASSUME MmcInv, SendCsd PROVE MmcInv'
<1> DEFINE m == [mmc EXCEPT !.version = IF @ = 0 THEN chip.version ELSE @, !.legacy_speed = chip.speed,
                            !.capacity_user = CsdCapacity(mmc)]
           n == SelectMode(m, "MMC_LEGACY")
<1>1. /\ UNCHANGED <<chip, no, host, todo, sub>> /\ tries' = 0 /\ pc = "csd" /\ card' \in {card, Plain(card)} /\ Counted
      /\ (pc' = "select" /\ mmc' = n) \/ (pc' = "failed" /\ mmc' = mmc)
  BY DEF SendCsd, send_cmd, Goto, Fail, At, Counted
<1>2. card' \in CardRec /\ (chip.kind = "sd" => ~card'.ddr /\ (chip.version = SD_VERSION_1_0 => ~card'.hs))
  BY <1>1, IdentFacts, CardRecords DEF SameCard, SameBus
<1>3. chip.version \in Nat /\ chip.speed \in Nat /\ (chip.kind = "sd" <=> chip.version >= SD_VERSION_1_0)
  BY <1>1, IdentFacts, MmcAssumption
<1>4. CsdCapacity(mmc) = CsdSectors(chip, chip.hc) /\ CsdCapacity(mmc) \in Nat
  BY <1>1, IdentFacts, CapacityNat DEF CsdCapacity
<1>5. /\ m \in MmcRec /\ m.width = mmc.width /\ m.has_init = mmc.has_init /\ m.verified = mmc.verified
      /\ m.high_capacity = mmc.high_capacity /\ m.version = (IF mmc.version = 0 THEN chip.version ELSE mmc.version)
      /\ m.legacy_speed = chip.speed /\ m.capacity_user = CsdCapacity(mmc)
  BY <1>1, <1>3, <1>4, IdentFacts DEF MmcRec
<1> HIDE DEF m
<1>6. /\ n \in MmcRec /\ n.width = mmc.width /\ n.has_init = mmc.has_init /\ n.verified = mmc.verified
      /\ n.high_capacity = mmc.high_capacity /\ n.version = m.version
      /\ n.legacy_speed = chip.speed /\ n.capacity_user = CsdCapacity(mmc)
  <2>1. n \in MmcRec
    BY <1>5, ModeRecords DEF Modes, Width
  <2> QED BY <1>5, <2>1 DEF SelectMode, MmcRec
<1> HIDE DEF n
<1>7. /\ chip.kind = "sd" => mmc.version >= SD_VERSION_1_0
      /\ chip.kind = "mmc" => mmc.version = 0
  BY <1>1, IdentFacts DEF IS_SD
<1>8. /\ chip.kind = "sd" => n.version >= SD_VERSION_1_0
      /\ chip.kind = "mmc" => n.version = chip.version
  BY <1>3, <1>5, <1>6, <1>7 DEF SD_VERSION_1_0
<1>9. IS_SD(n) <=> chip.kind = "sd"
  BY <1>1, <1>3, <1>8, IdentFacts DEF IS_SD
<1>10. CASE mmc' = n /\ pc' = "select"
  BY <1>1, <1>2, <1>4, <1>6, <1>8, <1>9, <1>10, IdentFacts, IdentStep, FaultsBounded, TriesBounded
<1>11. CASE mmc' = mmc /\ pc' = "failed"
  BY <1>1, <1>2, <1>11, IdentFacts, IdentStep, FaultsBounded, TriesBounded
<1> QED BY <1>1, <1>10, <1>11

LEMMA SelectStep == ASSUME MmcInv, SelectCard PROVE MmcInv'
<1> DEFINE TranCard == [Plain(card) EXCEPT !.st = "tran"]
<1>1. /\ UNCHANGED <<chip, no, host, todo, sub, mmc>> /\ tries' = 0 /\ pc = "select"
      /\ card' \in {card, Plain(card), TranCard} /\ Counted
      /\ \/ pc' = "failed"
         \/ /\ card.rca = mmc.rca /\ card' = TranCard
            /\ \/ IS_SD(mmc) /\ pc' = "scr_app"
               \/ ~IS_SD(mmc) /\ mmc.version < MMC_VERSION_4 /\ pc' = "old_mmc"
               \/ ~IS_SD(mmc) /\ ~(mmc.version < MMC_VERSION_4) /\ pc' = "ext_csd"
  BY DEF SelectCard, send_cmd, Addressed, Next1, Goto, Fail, At, Counted
<1>2. SameBus(TranCard) /\ TranCard.st = "tran" /\ TranCard.rca = card.rca
  BY <1>1, IdentFacts DEF SameBus, Plain, CardRec
<1>3. card' \in CardRec /\ (chip.kind = "sd" => ~card'.ddr /\ (chip.version = SD_VERSION_1_0 => ~card'.hs))
  BY <1>1, <1>2, IdentFacts, CardRecords DEF SameCard, SameBus
<1>4. CASE pc' = "failed"
  BY <1>1, <1>3, <1>4, IdentFacts, IdentStep, FaultsBounded, TriesBounded
<1>5. CASE pc' \in {"scr_app", "old_mmc", "ext_csd"}
  <2>1. /\ card'.rca = mmc.rca /\ card'.st = "tran" /\ (pc' = "scr_app" <=> chip.kind = "sd")
        /\ pc' = "old_mmc" => mmc.version < MMC_VERSION_4 /\ chip.version < MMC_VERSION_4
        /\ pc' = "ext_csd" => mmc.version >= MMC_VERSION_4 /\ chip.version >= MMC_VERSION_4
    <3>1. card'.rca = mmc.rca /\ card'.st = "tran"
      BY <1>1, <1>2, <1>5
    <3>2. pc' = "scr_app" <=> chip.kind = "sd"
      BY <1>1, <1>5, IdentFacts
    <3>3. mmc.version \in Nat /\ (pc' # "scr_app" => mmc.version = chip.version)
      BY <1>1, <3>2, IdentFacts DEF MmcRec
    <3>4. /\ pc' = "old_mmc" => mmc.version < MMC_VERSION_4
          /\ pc' = "ext_csd" => mmc.version >= MMC_VERSION_4
      BY <1>1, <1>5, <3>3 DEF MMC_VERSION_4
    <3> QED BY <3>1, <3>2, <3>3, <3>4
  <2>2. Records'
    BY <1>1, <1>3, <1>5, FaultsBounded, TriesBounded DEF MmcInv, Records
  <2>3. Identity'
    BY <1>1, <1>5, <2>1, IdentFacts DEF Identity, IS_SD
  <2>4. Attached' /\ Switching'
    BY <1>1, <1>5, <2>1 DEF Attached, Switching
  <2>5. Sized'
    BY <1>1, <1>5, <2>1 DEF MmcInv, Sized
  <2>6. todo' = <<>> /\ <<>> \in Seq(MmcTodo) /\ <<>> \in Seq(SdTodo')
    BY <1>1, IdentFacts
  <2>7. Bus'
    BY <1>1, <1>3, <1>5, <2>6, IdentFacts DEF Bus
  <2> QED BY <2>2, <2>3, <2>4, <2>5, <2>7 DEF MmcInv
<1> QED BY <1>1, <1>4, <1>5
-----------------------------------------------------------------------------
(* The choice of a mode for an eMMC. *)
LEMMA MmcFacts ==
  ASSUME MmcInv, pc \in InMmc
  PROVE  /\ card \in CardRec /\ host \in HostRec /\ mmc \in MmcRec /\ faults \in 0 .. MaxFaults /\ tries \in Tries
         /\ chip \in Chips /\ sub \in SubRec /\ todo \in Seq(MmcTodo) /\ (pc \in Trying => todo # <<>>)
         /\ ~mmc.has_init /\ ~mmc.verified /\ mmc.width # 0 /\ chip.kind = "mmc" /\ mmc.legacy_speed = chip.speed
         /\ card.st = "tran" /\ card.rca = mmc.rca
  BY DEF MmcInv, Records, Identity, Attached, Sized, Bus, MmcRec

LEMMA TodoFacts ==
  ASSUME NEW S, S \subseteq AnyMode, todo \in Seq(S)
  PROVE  /\ todo \in Seq(AnyMode)
         /\ todo # <<>> => Head(todo) \in S /\ Head(todo).mode \in Modes /\ Head(todo).width \in Width /\ Tail(todo) \in Seq(S)
<1>1. todo \in Seq(AnyMode)
  OBVIOUS
<1>2. ASSUME todo # <<>> PROVE Head(todo) \in S /\ Tail(todo) \in Seq(S)
  BY <1>2
<1> QED BY <1>1, <1>2 DEF AnyMode

LEMMA MmcStep ==
  ASSUME MmcInv, pc \in InMmc \ {"ext_csd", "old_mmc"}, pc' \in (InMmc \ {"ext_csd", "old_mmc"}) \cup {"failed", "finish"},
         UNCHANGED <<chip, no>>, tries' \in Tries, faults' \in 0 .. MaxFaults,
         card' \in CardRec, mmc' \in MmcRec, host' \in HostRec, sub' \in SubRec, todo' \in Seq(MmcTodo),
         mmc'.version = mmc.version, mmc'.high_capacity = mmc.high_capacity, mmc'.rca = mmc.rca,
         mmc'.capacity_user = chip.sectors, mmc'.legacy_speed = mmc.legacy_speed,
         mmc'.width # 0, ~mmc'.has_init, ~mmc'.verified, card'.st = card.st, card'.rca = card.rca,
         Switching', pc' \in Trying => todo' # <<>>,
         pc' \in {"timed", "clock", "compare"} => (card'.hs <=> ~Legacy'),
         pc' = "compare" /\ ~mmc'.fatal => host'.clock <= CardLimit'
  PROVE  MmcInv'
<1>1. Records'
  BY DEF MmcInv, Records, MmcTodo
<1>2. Identity'
  BY DEF MmcInv, Identity, IS_SD
<1>3. Attached'
  BY DEF MmcInv, Attached
<1>4. Sized'
  BY DEF MmcInv, Sized
<1>5. Bus'
  BY MmcFacts DEF Bus
<1> QED BY <1>1, <1>2, <1>3, <1>4, <1>5 DEF MmcInv

(* The version decides which size is believed. *)
LEMMA SectorsKnown ==
  ASSUME chip \in Chips, chip.kind \in {"sd", "mmc"},
         CsdSectors(chip, chip.hc) # chip.sectors
  PROVE  chip.kind = "mmc" /\ chip.version >= MMC_VERSION_4 /\ chip.rev >= 2 /\ chip.sectors > TwoGiB
  BY MmcAssumption

LEMMA ExtCsdStep == ASSUME MmcInv, mmc_startup_v4 PROVE MmcInv'
<1> DEFINE v == MMC_VERSION_4 + chip.rev
           m == [mmc EXCEPT !.version = v, !.ext_csd = TRUE, !.capacity_user = ExtCapacity(mmc, v)]
<1>1. /\ UNCHANGED <<chip, no, host, todo>> /\ tries' = 0 /\ pc = "ext_csd" /\ card' \in {card, Plain(card)} /\ Counted
      /\ \/ pc' = "failed" /\ UNCHANGED <<mmc, sub>>
         \/ /\ ~(chip.rev > 8) /\ mmc' = m
            /\ \/ pc' = "switch" /\ sub' = [index |-> "erase_group", value |-> 1, ret |-> "parts", else |-> "failed"]
               \/ pc' = "modes" /\ UNCHANGED sub
  BY DEF mmc_startup_v4, mmc_send_ext_csd, send_cmd, Goto, Fail, At, Counted
<1>2. SameCard(card')
  BY <1>1, MmcFacts, CardRecords
<1>3. chip.rev \in Nat /\ chip.sectors \in Nat /\ chip.version >= MMC_VERSION_4
  BY <1>1, MmcFacts, MmcAssumption DEF MmcInv, Sized
<1>4. sub' \in SubRec
  <2>1. CASE sub' = sub
    BY <1>1, <2>1, MmcFacts
  <2>2. CASE sub' = [index |-> "erase_group", value |-> 1, ret |-> "parts", else |-> "failed"]
    BY <2>2 DEF SubRec, Width
  <2> QED BY <1>1, <2>1, <2>2
<1>5. faults' \in 0 .. MaxFaults /\ tries' \in Tries /\ card' \in CardRec /\ todo' \in Seq(AnyMode)
  BY <1>1, <1>2, MmcFacts, FaultsBounded, TriesBounded DEF SameCard, SameBus, MmcInv, Records
<1>6. CASE pc' = "failed" /\ mmc' = mmc
  <2>1. Records'
    BY <1>1, <1>4, <1>5, <1>6 DEF MmcInv, Records
  <2>2. Identity' /\ Attached' /\ Sized' /\ Switching'
    BY <1>1, <1>6, MmcFacts DEF Identity, Attached, Sized, Switching
  <2>3. Bus'
    BY <1>1, <1>6, MmcFacts DEF Bus
  <2> QED BY <2>1, <2>2, <2>3 DEF MmcInv
<1>7. CASE pc' \in {"switch", "modes"} /\ mmc' = m /\ ~(chip.rev > 8)
  <2>1. v \in Nat /\ v >= MMC_VERSION_4 /\ v < SD_VERSION_1_0 /\ (chip.rev >= 2 => v >= MMC_VERSION_4_2)
    BY <1>3, <1>7 DEF MMC_VERSION_4, MMC_VERSION_4_2, SD_VERSION_1_0
  <2> HIDE DEF v
  <2>2. ExtCapacity(mmc, v) = chip.sectors
    <3>1. mmc.capacity_user = CsdSectors(chip, chip.hc)
      BY <1>1 DEF MmcInv, Sized
    <3>2. CASE CsdSectors(chip, chip.hc) = chip.sectors
      BY <3>1, <3>2 DEF ExtCapacity
    <3>3. CASE CsdSectors(chip, chip.hc) # chip.sectors
      BY <1>1, <2>1, <3>3, MmcFacts, SectorsKnown DEF ExtCapacity
    <3> QED BY <3>2, <3>3
  <2>3. /\ m \in MmcRec /\ m.version = v /\ m.width = mmc.width /\ m.has_init = mmc.has_init
        /\ m.verified = mmc.verified /\ m.high_capacity = mmc.high_capacity /\ m.rca = mmc.rca
        /\ m.legacy_speed = mmc.legacy_speed /\ m.capacity_user = chip.sectors
    BY <1>1, <1>3, <2>1, <2>2, MmcFacts DEF MmcRec
  <2> HIDE DEF m
  <2>4. Records'
    BY <1>1, <1>4, <1>5, <1>7, <2>3 DEF MmcInv, Records
  <2>5. ~IS_SD(mmc')
    BY <1>7, <2>1, <2>3 DEF IS_SD, SD_VERSION_1_0
  <2>6. Identity'
    BY <1>1, <1>7, <2>1, <2>3, <2>5, MmcFacts DEF MmcInv, Identity
  <2>7. Attached' /\ Sized'
    BY <1>1, <1>2, <1>7, <2>3, MmcFacts DEF Attached, Sized, SameCard
  <2>8. Switching'
    BY <1>1, <1>7 DEF Switching
  <2>9. Bus'
    BY <1>1, <1>7, <2>3, MmcFacts DEF Bus
  <2> QED BY <2>4, <2>6, <2>7, <2>8, <2>9 DEF MmcInv
<1> QED BY <1>1, <1>6, <1>7

LEMMA PartsStep == ASSUME MmcInv, StartupParts PROVE MmcInv'
<1> DEFINE m == [mmc EXCEPT !.capacity_user = IF mmc.high_capacity /\ chip.completed THEN chip.sectors ELSE @]
<1>1. UNCHANGED <<chip, no, host, card, todo, sub, faults>> /\ tries' = 0 /\ pc = "parts" /\ pc' = "modes" /\ mmc' = m
  BY DEF StartupParts, Goto, At
<1>2. chip.sectors \in Nat /\ mmc.capacity_user = chip.sectors
  BY <1>1, MmcFacts, MmcAssumption DEF MmcInv, Sized
<1>3. /\ m \in MmcRec /\ m.version = mmc.version /\ m.width = mmc.width /\ m.has_init = mmc.has_init
      /\ m.verified = mmc.verified /\ m.high_capacity = mmc.high_capacity /\ m.rca = mmc.rca
      /\ m.legacy_speed = mmc.legacy_speed /\ m.capacity_user = chip.sectors
  BY <1>1, <1>2, MmcFacts DEF MmcRec
<1> HIDE DEF m
<1>4. Switching'
  BY <1>1 DEF Switching
<1> QED BY <1>1, <1>3, <1>4, MmcFacts, MmcStep, TriesBounded

(* __mmc_switch() comes back to the step that asked for it. *)
LEMMA SwitchedCard ==
  ASSUME card \in CardRec, sub \in SubRec, sub.index \in {"width", "ddr"} => sub.value \in Width
  PROVE  /\ Switched(card) \in CardRec /\ Switched(card).st = card.st /\ Switched(card).rca = card.rca
         /\ sub.index # "hs" => Switched(card).hs = card.hs
         /\ sub.index = "hs" /\ <<sub.index, sub.value>> \notin chip.refuse => (Switched(card).hs <=> sub.value = 1)
<1>1. CASE <<sub.index, sub.value>> \in chip.refuse \/ sub.index \notin {"width", "ddr", "hs"}
  <2>1. Switched(card) = Plain(card)
    BY <1>1 DEF Switched
  <2> QED BY <1>1, <2>1, CardRecords DEF SameCard, SameBus
<1>2. CASE <<sub.index, sub.value>> \notin chip.refuse /\ sub.index \in {"width", "ddr"}
  <2>1. Switched(card) = [Plain(card) EXCEPT !.width = sub.value, !.ddr = (sub.index = "ddr")]
    BY <1>2 DEF Switched
  <2> QED BY <1>2, <2>1 DEF Plain, CardRec
<1>3. CASE <<sub.index, sub.value>> \notin chip.refuse /\ sub.index = "hs"
  <2>1. Switched(card) = [Plain(card) EXCEPT !.hs = (sub.value = 1)]
    BY <1>3 DEF Switched
  <2> QED BY <1>3, <2>1 DEF Plain, CardRec
<1> QED BY <1>1, <1>2, <1>3

LEMMA SwitchStep == ASSUME MmcInv, __mmc_switch PROVE MmcInv'
<1>1. /\ pc \in {"switch", "switch_status"} /\ UNCHANGED <<chip, no, host, todo, sub, mmc>> /\ Counted
      /\ \/ /\ pc = "switch" /\ pc' = "switch_status" /\ card' = Switched(card) /\ tries' = 0
         \/ /\ pc = "switch" /\ pc' = "switch" /\ card' \in {card, Switched(card), Plain(card)}
            /\ tries < 3 /\ tries' = tries + 1
         \/ /\ pc' = sub.else /\ card' \in {card, Switched(card), Plain(card)} /\ tries' = 0
         \/ /\ pc = "switch_status" /\ pc' = "switch_status" /\ card' \in {card, Plain(card)} /\ tries' = 0
         \/ /\ pc = "switch_status" /\ pc' = sub.ret /\ <<sub.index, sub.value>> \notin chip.refuse
            /\ card' = Plain(card) /\ tries' = 0
  <2>1. CASE At("switch")
    BY <2>1 DEF __mmc_switch, send_cmd, Next1, Goto, SubFails, At, Counted
  <2>2. CASE At("switch_status")
    BY <2>2 DEF __mmc_switch, mmc_send_status, send_cmd, Next1, Goto, SubFails, At, Counted
  <2> QED BY <2>1, <2>2 DEF __mmc_switch
<1>2. tries' \in Tries
  BY <1>1, MmcFacts, MmcAssumption DEF Tries
<1>3. /\ Switching /\ (sub.index \in {"width", "ddr"} => sub.value \in Width)
      /\ sub.else \in {"failed", "undo", "legacy"} /\ sub.ret \in {"parts", "wide", "timed", "clock", "legacy"}
  BY <1>1, MmcFacts DEF MmcInv, Switching, SubRec
<1>4. SameCard(Plain(card)) /\ SameCard(card)
  BY <1>1, MmcFacts, CardRecords
<1>5. card' \in CardRec /\ card'.st = card.st /\ card'.rca = card.rca /\ (sub.index # "hs" => card'.hs = card.hs)
  BY <1>1, <1>3, <1>4, MmcFacts, SwitchedCard DEF SameCard, SameBus
<1>6. sub.ret # "parts" => todo # <<>>
  BY <1>1, <1>3 DEF Switching
<1>7. Switching'
  <2> SUFFICES ASSUME pc' \in {"switch", "switch_status"} PROVE Switching'
    BY DEF Switching
  <2>1. CASE sub.index # "hs"
    BY <1>1, <1>3, <1>5, <2>1 DEF Switching, Legacy
  <2>2. CASE sub.index = "hs" /\ pc' = "switch"
    BY <1>1, <1>3, <2>2 DEF Switching, Legacy
  <2>3. CASE sub.index = "hs" /\ pc' = "switch_status"
    <3>1. /\ todo # <<>> /\ sub.ret = "timed" /\ sub.else = "undo" /\ sub.value = (IF Legacy THEN 0 ELSE 1)
          /\ pc = "switch_status" /\ <<sub.index, sub.value>> \notin chip.refuse => (card.hs <=> ~Legacy)
      BY <1>1, <1>3, <2>3 DEF Switching
    <3>2. card' = Switched(card) \/ (pc = "switch_status" /\ card'.hs = card.hs)
      BY <1>1, <1>3, <1>4, <2>3 DEF SameCard, SameBus
    <3>3. <<sub.index, sub.value>> \notin chip.refuse => (card'.hs <=> ~Legacy)
      BY <1>1, <1>3, <2>3, <3>1, <3>2, MmcFacts, SwitchedCard
    <3> QED BY <1>1, <2>3, <3>1, <3>3 DEF Switching, Legacy
  <2> QED BY <2>1, <2>2, <2>3
<1>8. pc' \in {"timed", "clock"} => (card'.hs <=> ~Legacy')
  <2> SUFFICES ASSUME pc' \in {"timed", "clock"} PROVE card'.hs <=> ~Legacy'
    OBVIOUS
  <2>1. pc = "switch_status" /\ pc' = sub.ret /\ <<sub.index, sub.value>> \notin chip.refuse /\ card' = Plain(card)
    BY <1>1, <1>3
  <2>2. card.hs <=> ~Legacy
    BY <1>3, <2>1 DEF Switching
  <2> QED BY <1>1, <1>4, <2>1, <2>2 DEF SameCard, SameBus, Legacy
<1>9. pc' \in (InMmc \ {"ext_csd", "old_mmc", "compare"}) \cup {"failed"} /\ (pc' \in Trying => todo' # <<>>)
  BY <1>1, <1>3, <1>6 DEF Switching
<1>10. mmc.capacity_user = chip.sectors
  BY <1>1 DEF MmcInv, Sized
<1> QED BY <1>1, <1>2, <1>5, <1>7, <1>8, <1>9, <1>10, MmcFacts, MmcStep, FaultsBounded
-----------------------------------------------------------------------------
(* The lists of modes hold modes of the kind. *)
LEMMA AttemptSeq ==
  ASSUME NEW caps, NEW mode, NEW w, NEW S, Fits(caps, mode, w) => [mode |-> mode, width |-> w] \in S
  PROVE  Attempt(caps, mode, w) \in Seq(S)
  BY DEF Attempt

LEMMA MmcModesSeq ==
  ASSUME NEW caps
  PROVE  mmc_modes_by_pref(caps) \in Seq(MmcTodo)
<1> DEFINE Widths(mode) == Attempt(caps, mode, 8) \o Attempt(caps, mode, 4) \o Attempt(caps, mode, 1)
<1>1. ASSUME NEW mode \in {"MMC_LEGACY", "MMC_HS", "MMC_HS_52", "MMC_DDR_52"} PROVE Widths(mode) \in Seq(MmcTodo)
  <2>1. ASSUME NEW w \in Width PROVE [mode |-> mode, width |-> w] \in MmcTodo
    BY <1>1, <2>1 DEF MmcTodo, AnyMode, MmcMode, Modes
  <2>2. Attempt(caps, mode, 8) \in Seq(MmcTodo) /\ Attempt(caps, mode, 4) \in Seq(MmcTodo) /\ Attempt(caps, mode, 1) \in Seq(MmcTodo)
    BY <2>1, AttemptSeq DEF Width
  <2> QED BY <2>2
<1>2. /\ Widths("MMC_DDR_52") \in Seq(MmcTodo) /\ Widths("MMC_HS_52") \in Seq(MmcTodo)
      /\ Widths("MMC_HS") \in Seq(MmcTodo) /\ Widths("MMC_LEGACY") \in Seq(MmcTodo)
  BY <1>1
<1>3. mmc_modes_by_pref(caps) = Widths("MMC_DDR_52") \o Widths("MMC_HS_52") \o Widths("MMC_HS") \o Widths("MMC_LEGACY")
  BY DEF mmc_modes_by_pref
<1> HIDE DEF Widths
<1> QED BY <1>2, <1>3

LEMMA SdModesSeq ==
  ASSUME mmc.version = chip.version, NEW caps, caps \subseteq SdCaps(mmc)
  PROVE  sd_modes_by_pref(caps) \in Seq(SdTodo)
<1>1. ASSUME NEW mode \in {"SD_HS", "SD_LEGACY"}, NEW w \in {1, 4}, Fits(caps, mode, w)
      PROVE  [mode |-> mode, width |-> w] \in SdTodo
  <2>1. mode \in SdCaps(mmc) /\ Cap(w) \in SdCaps(mmc)
    BY <1>1 DEF Fits
  <2>2. (mode = "SD_HS" => chip.version # SD_VERSION_1_0) /\ (w = 4 => chip.wide)
    BY <1>1, <2>1 DEF SdCaps, Cap
  <2> QED BY <1>1, <2>2 DEF SdTodo, SdMode, AnyMode, Modes, Width
<1>2. /\ Attempt(caps, "SD_HS", 4) \in Seq(SdTodo) /\ Attempt(caps, "SD_HS", 1) \in Seq(SdTodo)
      /\ Attempt(caps, "SD_LEGACY", 4) \in Seq(SdTodo) /\ Attempt(caps, "SD_LEGACY", 1) \in Seq(SdTodo)
  BY <1>1, AttemptSeq
<1> QED BY <1>2 DEF sd_modes_by_pref
-----------------------------------------------------------------------------
(* A step of the mode search that sets the controller. *)
LEMMA MmcIos ==
  ASSUME MmcInv, pc \in InMmc, NEW m \in MmcRec, SetIos(m), m.width # 0, m.version = mmc.version,
         m.high_capacity = mmc.high_capacity, m.rca = mmc.rca, m.capacity_user = mmc.capacity_user,
         m.legacy_speed = mmc.legacy_speed, m.has_init = mmc.has_init, m.verified = mmc.verified
  PROVE  /\ mmc' \in MmcRec /\ host' \in HostRec /\ faults' \in 0 .. MaxFaults /\ mmc'.width # 0
         /\ mmc'.version = mmc.version /\ mmc'.high_capacity = mmc.high_capacity /\ mmc'.rca = mmc.rca
         /\ mmc'.capacity_user = mmc.capacity_user /\ mmc'.legacy_speed = mmc.legacy_speed
         /\ ~mmc'.has_init /\ ~mmc'.verified /\ (~mmc'.fatal => host'.clock <= m.clock)
<1>1. /\ mmc' \in MmcRec /\ host' \in HostRec /\ faults' \in 0 .. MaxFaults
      /\ (mmc' = m /\ host'.clock <= m.clock) \/ (mmc' = [m EXCEPT !.fatal = TRUE] /\ mmc'.fatal)
  BY MmcFacts, IosStep
<1>2. CASE mmc' = m /\ host'.clock <= m.clock
  BY <1>1, <1>2, MmcFacts
<1>3. CASE mmc' = [m EXCEPT !.fatal = TRUE] /\ mmc'.fatal
  <2>1. /\ mmc'.width = m.width /\ mmc'.version = m.version /\ mmc'.high_capacity = m.high_capacity
        /\ mmc'.rca = m.rca /\ mmc'.capacity_user = m.capacity_user /\ mmc'.legacy_speed = m.legacy_speed
        /\ mmc'.has_init = m.has_init /\ mmc'.verified = m.verified
    BY <1>3 DEF MmcRec
  <2> QED BY <1>1, <1>3, <2>1, MmcFacts
<1> QED BY <1>1, <1>2, <1>3

(* What the driver's settings leave of struct mmc. *)
LEMMA Settings ==
  ASSUME NEW m \in MmcRec, NEW mode \in Modes, NEW w \in Width, NEW khz \in Nat
  PROVE  /\ \A n \in {SelectMode(m, mode), WithClock(m, khz), WithWidth(m, w)} :
              /\ n \in MmcRec /\ n.version = m.version /\ n.high_capacity = m.high_capacity /\ n.rca = m.rca
              /\ n.capacity_user = m.capacity_user /\ n.legacy_speed = m.legacy_speed /\ n.has_init = m.has_init
              /\ n.verified = m.verified
         /\ SelectMode(m, mode).width = m.width /\ WithClock(m, khz).width = m.width /\ WithWidth(m, w).width = w
         /\ WithClock(m, khz).clock = ClampClock(khz) /\ SelectMode(m, mode).mode = mode
         /\ WithClock(m, khz).mode = m.mode
         /\ SelectMode(m, mode).tran_speed = mmc_mode2freq(m, mode)
<1>1. SelectMode(m, mode) \in MmcRec /\ WithClock(m, khz) \in MmcRec /\ WithWidth(m, w) \in MmcRec
  BY ModeRecords
<1>2. \A n \in {SelectMode(m, mode)} :
              /\ n.version = m.version /\ n.high_capacity = m.high_capacity /\ n.rca = m.rca
              /\ n.capacity_user = m.capacity_user /\ n.legacy_speed = m.legacy_speed /\ n.has_init = m.has_init
              /\ n.verified = m.verified /\ n.width = m.width /\ n.mode = mode /\ n.tran_speed = mmc_mode2freq(m, mode)
  BY DEF SelectMode, MmcRec
<1>3. \A n \in {WithClock(m, khz)} :
              /\ n.version = m.version /\ n.high_capacity = m.high_capacity /\ n.rca = m.rca
              /\ n.capacity_user = m.capacity_user /\ n.legacy_speed = m.legacy_speed /\ n.has_init = m.has_init
              /\ n.verified = m.verified /\ n.width = m.width /\ n.mode = m.mode /\ n.clock = ClampClock(khz)
  BY DEF WithClock, MmcRec
<1>4. \A n \in {WithWidth(m, w)} :
              /\ n.version = m.version /\ n.high_capacity = m.high_capacity /\ n.rca = m.rca
              /\ n.capacity_user = m.capacity_user /\ n.legacy_speed = m.legacy_speed /\ n.has_init = m.has_init
              /\ n.verified = m.verified /\ n.width = w
  BY DEF WithWidth, MmcRec
<1> QED BY <1>1, <1>2, <1>3, <1>4

LEMMA TodoKept == MmcTodo \subseteq AnyMode /\ SdTodo \subseteq AnyMode
  BY DEF MmcTodo, SdTodo

LEMMA CapacityKept ==
  ASSUME MmcInv, pc \in InMmc \ {"ext_csd", "old_mmc"}
  PROVE  mmc.capacity_user = chip.sectors
  BY DEF MmcInv, Sized

LEMMA ModesStep == ASSUME MmcInv, MmcModes PROVE MmcInv'
<1> DEFINE m == WithClock(mmc, mmc.legacy_speed)
<1>1. /\ UNCHANGED <<chip, no, card, sub>> /\ tries' = 0 /\ pc = "modes" /\ pc' = "try" /\ SetIos(m)
      /\ todo' = mmc_modes_by_pref(MmcCaps \cap HostCaps(no))
  BY DEF MmcModes, At
<1>2. todo' \in Seq(MmcTodo)
  BY <1>1, MmcModesSeq
<1>3. /\ m \in MmcRec /\ m.width = mmc.width /\ m.version = mmc.version
      /\ m.high_capacity = mmc.high_capacity /\ m.rca = mmc.rca /\ m.capacity_user = mmc.capacity_user
      /\ m.legacy_speed = mmc.legacy_speed /\ m.has_init = mmc.has_init /\ m.verified = mmc.verified
  <2>1. mmc.legacy_speed \in Nat /\ mmc \in MmcRec /\ 1 \in Width /\ "MMC_LEGACY" \in Modes
    BY <1>1, MmcFacts DEF MmcRec, Width, Modes
  <2> QED BY <2>1, Settings
<1> HIDE DEF m
<1>4. Switching'
  BY <1>1 DEF Switching
<1>5. /\ mmc' \in MmcRec /\ host' \in HostRec /\ faults' \in 0 .. MaxFaults /\ mmc'.width # 0
      /\ mmc'.version = mmc.version /\ mmc'.high_capacity = mmc.high_capacity /\ mmc'.rca = mmc.rca
      /\ mmc'.capacity_user = mmc.capacity_user /\ mmc'.legacy_speed = mmc.legacy_speed
      /\ ~mmc'.has_init /\ ~mmc'.verified
  BY <1>1, <1>3, MmcFacts, MmcIos
<1> QED BY <1>1, <1>2, <1>4, <1>5, MmcFacts, CapacityKept, MmcStep, TriesBounded

(* The record of a switch that is about to begin. *)
LEMMA SwitchRecord ==
  ASSUME NEW i \in {"width", "hs", "ddr"}, NEW v \in {0} \cup Width, NEW r \in {"wide", "timed", "clock", "legacy"},
         NEW e \in {"undo", "legacy"}, Switch(i, v, r, e)
  PROVE  sub' \in SubRec /\ sub'.index = i /\ sub'.value = v /\ sub'.ret = r /\ sub'.else = e /\ pc' = "switch" /\ tries' = 0
  BY DEF Switch, SubRec

LEMMA TryStep == ASSUME MmcInv, MmcTry PROVE MmcInv'
<1>1. UNCHANGED <<chip, no, card, host, faults, mmc, todo>> /\ pc = "try"
  BY DEF MmcTry, At
<1>2. CASE todo = <<>>
  <2>1. pc' = "finish" /\ UNCHANGED <<tries, sub>>
    BY <1>2 DEF MmcTry
  <2>2. Switching'
    BY <2>1 DEF Switching
  <2> QED BY <1>1, <2>1, <2>2, MmcFacts, CapacityKept, MmcStep
<1>3. CASE todo # <<>>
  <2>1. Head(todo).width \in Width /\ Switch("width", Head(todo).width, "wide", "undo")
    BY <1>1, <1>3, MmcFacts, TodoFacts, TodoKept DEF MmcTry
  <2> DEFINE w == Head(todo).width
  <2> HIDE DEF w
  <2>2. w \in Width /\ Switch("width", w, "wide", "undo")
    BY <2>1 DEF w
  <2>3. /\ sub' \in SubRec /\ sub'.index = "width" /\ sub'.value = w /\ sub'.ret = "wide" /\ sub'.else = "undo"
        /\ pc' = "switch" /\ tries' = 0
    BY <2>2, SwitchRecord
  <2>4. Switching'
    BY <1>1, <1>3, <2>2, <2>3 DEF Switching, Width
  <2> QED BY <1>1, <2>3, <2>4, MmcFacts, CapacityKept, MmcStep, TriesBounded
<1> QED BY <1>2, <1>3

LEMMA WideStep == ASSUME MmcInv, MmcWide PROVE MmcInv'
<1> DEFINE m == WithWidth(mmc, Head(todo).width)
           v == IF Legacy THEN 0 ELSE 1
<1>1. UNCHANGED <<chip, no, card, todo>> /\ pc = "wide" /\ SetIos(m) /\ Switch("hs", v, "timed", "undo")
  BY DEF MmcWide, At, Legacy
<1>2. todo # <<>> /\ Head(todo).width \in Width /\ mmc \in MmcRec /\ "MMC_LEGACY" \in Modes
  BY <1>1, MmcFacts, TodoFacts, TodoKept DEF Modes
<1>3. /\ m \in MmcRec /\ m.width = Head(todo).width /\ m.version = mmc.version
      /\ m.high_capacity = mmc.high_capacity /\ m.rca = mmc.rca /\ m.capacity_user = mmc.capacity_user
      /\ m.legacy_speed = mmc.legacy_speed /\ m.has_init = mmc.has_init /\ m.verified = mmc.verified
  BY <1>2, Settings
<1> HIDE DEF m
<1>4. /\ mmc' \in MmcRec /\ host' \in HostRec /\ faults' \in 0 .. MaxFaults /\ mmc'.width # 0
      /\ mmc'.version = mmc.version /\ mmc'.high_capacity = mmc.high_capacity /\ mmc'.rca = mmc.rca
      /\ mmc'.capacity_user = mmc.capacity_user /\ mmc'.legacy_speed = mmc.legacy_speed
      /\ ~mmc'.has_init /\ ~mmc'.verified
  <2>1. m.width # 0
    BY <1>2, <1>3 DEF Width
  <2> QED BY <1>1, <1>3, <2>1, MmcIos
<1>5. v \in {0, 1} /\ v \in {0} \cup Width
  BY DEF Width
<1>6. v = IF Legacy THEN 0 ELSE 1
  OBVIOUS
<1> HIDE DEF v
<1>7. /\ sub' \in SubRec /\ sub'.index = "hs" /\ sub'.value = v /\ sub'.ret = "timed" /\ sub'.else = "undo"
      /\ pc' = "switch" /\ tries' = 0
  BY <1>1, <1>5, SwitchRecord
<1>8. Switching'
  BY <1>1, <1>2, <1>6, <1>7 DEF Switching, Legacy
<1> QED BY <1>1, <1>4, <1>7, <1>8, MmcFacts, CapacityKept, MmcStep, TriesBounded

LEMMA TimedStep == ASSUME MmcInv, MmcTimed PROVE MmcInv'
<1>1. UNCHANGED <<chip, no, host, mmc, todo>> /\ pc = "timed"
  BY DEF MmcTimed, At, send_cmd, mmc_send_ext_csd, Next1, Goto
<1>2. todo # <<>> /\ Head(todo).width \in Width /\ (card.hs <=> ~Legacy)
  BY <1>1, MmcFacts, TodoFacts, TodoKept DEF MmcInv, Bus
<1>3. CASE is_ddr(Head(todo).mode)
  <2> DEFINE w == Head(todo).width
  <2> HIDE DEF w
  <2>1. UNCHANGED <<card, faults>> /\ Switch("ddr", w, "clock", "undo") /\ ~Legacy
    BY <1>3 DEF MmcTimed, is_ddr, Legacy, w
  <2>2. w \in Width
    BY <1>2 DEF w
  <2>3. /\ sub' \in SubRec /\ sub'.index = "ddr" /\ sub'.value = w /\ sub'.ret = "clock" /\ sub'.else = "undo"
        /\ pc' = "switch" /\ tries' = 0
    BY <2>1, <2>2, SwitchRecord
  <2>4. Switching'
    BY <1>1, <1>2, <2>1, <2>2, <2>3 DEF Switching, Width, Legacy
  <2> QED BY <1>1, <2>1, <2>3, <2>4, MmcFacts, CapacityKept, MmcStep, TriesBounded
<1>4. CASE ~is_ddr(Head(todo).mode)
  <2>1. /\ UNCHANGED sub /\ pc' \in {"clock", "undo"} /\ tries' = 0
        /\ card' \in {card, Plain(card)} /\ Counted
    BY <1>4 DEF MmcTimed, is_ddr, send_cmd, mmc_send_ext_csd, Next1, Goto, Counted
  <2>2. SameCard(card')
    BY <1>1, <2>1, MmcFacts, CardRecords
  <2>3. Switching'
    BY <2>1 DEF Switching
  <2>4. card'.hs <=> ~Legacy'
    BY <1>1, <1>2, <2>2 DEF SameCard, SameBus, Legacy
  <2> QED BY <1>1, <1>2, <2>1, <2>2, <2>3, <2>4, MmcFacts, CapacityKept, MmcStep, TriesBounded, FaultsBounded DEF SameCard, SameBus
<1> QED BY <1>3, <1>4

LEMMA ClockStep == ASSUME MmcInv, MmcClock PROVE MmcInv'
<1> DEFINE mode == Head(todo).mode
           n == SelectMode(mmc, mode)
           m == WithClock(n, n.tran_speed)
<1>1. UNCHANGED <<chip, no, card, todo, sub>> /\ pc = "clock" /\ pc' = "compare" /\ tries' = 0 /\ SetIos(m)
  BY DEF MmcClock, At, Goto
<1>2. todo # <<>> /\ Head(todo) \in MmcTodo /\ mode \in Modes /\ (card.hs <=> mode # "MMC_LEGACY")
  BY <1>1, MmcFacts, TodoFacts, TodoKept DEF MmcInv, Bus, Legacy
<1>3. mode \in {"MMC_LEGACY", "MMC_HS", "MMC_HS_52", "MMC_DDR_52"}
  BY <1>2 DEF MmcTodo, MmcMode
<1> HIDE DEF mode
<1>4. /\ n \in MmcRec /\ n.width = mmc.width /\ n.version = mmc.version
      /\ n.high_capacity = mmc.high_capacity /\ n.rca = mmc.rca /\ n.capacity_user = mmc.capacity_user
      /\ n.legacy_speed = mmc.legacy_speed /\ n.has_init = mmc.has_init /\ n.verified = mmc.verified
      /\ n.tran_speed = mmc_mode2freq(mmc, mode)
  <2>1. mmc \in MmcRec /\ 1 \in Width /\ 0 \in Nat
    BY <1>1, MmcFacts DEF Width
  <2> QED BY <1>2, <2>1, Settings
<1> HIDE DEF n
<1>5. n.tran_speed \in Nat /\ n.tran_speed >= 400 /\ n.tran_speed <= CardLimit
  <2>1. chip.speed \in Nat /\ chip.speed >= 400 /\ chip.kind = "mmc" /\ mmc.legacy_speed = chip.speed
    BY <1>1, MmcFacts, MmcAssumption
  <2>2. CASE mode = "MMC_LEGACY"
    BY <1>2, <1>4, <2>1, <2>2 DEF mmc_mode2freq, CardLimit
  <2>3. CASE mode = "MMC_HS"
    BY <1>2, <1>4, <2>1, <2>3 DEF mmc_mode2freq, CardLimit
  <2>4. CASE mode \in {"MMC_HS_52", "MMC_DDR_52"}
    BY <1>2, <1>4, <2>1, <2>4 DEF mmc_mode2freq, CardLimit
  <2> QED BY <1>3, <2>2, <2>3, <2>4
<1>6. /\ m \in MmcRec /\ m.width = mmc.width /\ m.version = mmc.version
      /\ m.high_capacity = mmc.high_capacity /\ m.rca = mmc.rca /\ m.capacity_user = mmc.capacity_user
      /\ m.legacy_speed = mmc.legacy_speed /\ m.has_init = mmc.has_init /\ m.verified = mmc.verified
      /\ m.clock = ClampClock(n.tran_speed)
  <2>1. 1 \in Width
    BY DEF Width
  <2> QED BY <1>2, <1>4, <1>5, <2>1, Settings
<1> HIDE DEF m
<1>7. /\ mmc' \in MmcRec /\ host' \in HostRec /\ faults' \in 0 .. MaxFaults /\ mmc'.width # 0
      /\ mmc'.version = mmc.version /\ mmc'.high_capacity = mmc.high_capacity /\ mmc'.rca = mmc.rca
      /\ mmc'.capacity_user = mmc.capacity_user /\ mmc'.legacy_speed = mmc.legacy_speed
      /\ ~mmc'.has_init /\ ~mmc'.verified /\ (~mmc'.fatal => host'.clock <= m.clock)
  BY <1>1, <1>6, MmcFacts, MmcIos
<1>8. ClampClock(n.tran_speed) \in Nat /\ ClampClock(n.tran_speed) <= n.tran_speed
  <2>1. 1 \in Width
    BY DEF Width
  <2> QED BY <1>2, <1>4, <1>5, <2>1, ModeRecords, Rates
<1>9. ~mmc'.fatal => host'.clock <= CardLimit
  <2>1. host'.clock \in Nat /\ CardLimit \in Nat
    <3>1. chip.speed \in Nat
      BY <1>1, MmcFacts, MmcAssumption
    <3> QED BY <1>7, <3>1, Rates DEF HostRec, CardLimit
  <2> QED BY <1>5, <1>6, <1>7, <1>8, <2>1
<1>10. CardLimit' = CardLimit
  BY <1>1 DEF CardLimit
<1>11. card'.hs <=> ~Legacy'
  BY <1>1, <1>2 DEF Legacy, mode
<1>12. Switching'
  BY <1>1 DEF Switching
<1> QED BY <1>1, <1>2, <1>7, <1>9, <1>10, <1>11, <1>12, MmcFacts, CapacityKept, MmcStep, TriesBounded

(* The extended CSD, read over the new bus, shows that both sides agree. *)
LEMMA CompareStep == ASSUME MmcInv, MmcCompare PROVE MmcInv'
<1> DEFINE m == [mmc EXCEPT !.verified = TRUE]
<1>1. /\ UNCHANGED <<chip, no, host, todo, sub>> /\ pc = "compare" /\ tries' = 0 /\ card' \in {card, Plain(card)} /\ Counted
      /\ \/ pc' = "finish" /\ mmc' = m /\ ~mmc.fatal /\ Agree
         \/ pc' = "undo" /\ mmc' = mmc
  BY DEF MmcCompare, mmc_send_ext_csd, send_cmd, Next1, Goto, At, Counted
<1>2. SameCard(card')
  BY <1>1, MmcFacts, CardRecords
<1>3. CASE pc' = "undo" /\ mmc' = mmc
  <2>1. Switching'
    BY <1>3 DEF Switching
  <2> QED BY <1>1, <1>2, <1>3, <2>1, MmcFacts, CapacityKept, MmcStep, TriesBounded, FaultsBounded DEF SameCard, SameBus
<1>4. CASE pc' = "finish" /\ mmc' = m /\ ~mmc.fatal /\ Agree
  <2>1. /\ m \in MmcRec /\ m.version = mmc.version /\ m.width = mmc.width /\ m.has_init = mmc.has_init
        /\ m.high_capacity = mmc.high_capacity /\ m.rca = mmc.rca
        /\ m.legacy_speed = mmc.legacy_speed /\ m.capacity_user = mmc.capacity_user
    BY <1>1, MmcFacts DEF MmcRec
  <2> HIDE DEF m
  <2>2. faults' \in 0 .. MaxFaults /\ tries' \in Tries /\ card' \in CardRec /\ todo \in Seq(AnyMode)
    BY <1>1, <1>2, MmcFacts, FaultsBounded, TriesBounded, TodoFacts, TodoKept DEF SameCard, SameBus
  <2>3. Records'
    BY <1>1, <1>4, <2>1, <2>2 DEF MmcInv, Records
  <2>4. Identity'
    BY <1>1, <1>4, <2>1 DEF MmcInv, Identity, IS_SD
  <2>5. Attached' /\ Sized' /\ Switching'
    BY <1>1, <1>2, <1>4, <2>1, MmcFacts, CapacityKept DEF Attached, Sized, Switching, SameCard
  <2>6. Agree' /\ CardLimit' = CardLimit
    BY <1>1, <1>2, <1>4 DEF Agree, CardLimit, SameCard, SameBus
  <2>7. host.clock <= CardLimit
    BY <1>1, <1>4 DEF MmcInv, Bus
  <2>8. Bus'
    BY <1>1, <1>4, <2>1, <2>6, <2>7, MmcFacts DEF Bus
  <2> QED BY <2>3, <2>4, <2>5, <2>8 DEF MmcInv
<1> QED BY <1>1, <1>3, <1>4

LEMMA UndoStep == ASSUME MmcInv, MmcUndo PROVE MmcInv'
<1>1. CASE At("undo")
  <2>1. /\ UNCHANGED <<chip, no, card, host, faults, mmc, todo>> /\ pc = "undo" /\ Switch("width", 1, "legacy", "legacy")
    BY <1>1 DEF MmcUndo, At
  <2>2. /\ sub' \in SubRec /\ sub'.index = "width" /\ sub'.value = 1 /\ sub'.ret = "legacy" /\ sub'.else = "legacy"
        /\ pc' = "switch" /\ tries' = 0
    BY <2>1, SwitchRecord DEF Width
  <2>3. Switching'
    BY <2>1, <2>2, MmcFacts DEF Switching
  <2> QED BY <2>1, <2>2, <2>3, MmcFacts, CapacityKept, MmcStep, TriesBounded
<1>2. CASE At("legacy")
  <2> DEFINE n == SelectMode(mmc, "MMC_LEGACY")
             m == WithWidth(n, 1)
  <2>1. UNCHANGED <<chip, no, card, sub>> /\ pc = "legacy" /\ pc' = "try" /\ tries' = 0 /\ SetIos(m) /\ todo' = Tail(todo)
    BY <1>2 DEF MmcUndo, At
  <2>2. todo' \in Seq(MmcTodo)
    BY <2>1, MmcFacts, TodoFacts, TodoKept
  <2>3. mmc \in MmcRec /\ 1 \in Width /\ 0 \in Nat /\ "MMC_LEGACY" \in Modes
    BY <2>1, MmcFacts DEF Width, Modes
  <2>4. /\ n \in MmcRec /\ n.width = mmc.width /\ n.version = mmc.version
        /\ n.high_capacity = mmc.high_capacity /\ n.rca = mmc.rca /\ n.capacity_user = mmc.capacity_user
        /\ n.legacy_speed = mmc.legacy_speed /\ n.has_init = mmc.has_init /\ n.verified = mmc.verified
    BY <2>3, Settings
  <2> HIDE DEF n
  <2>5. /\ m \in MmcRec /\ m.width = 1 /\ m.version = mmc.version
        /\ m.high_capacity = mmc.high_capacity /\ m.rca = mmc.rca /\ m.capacity_user = mmc.capacity_user
        /\ m.legacy_speed = mmc.legacy_speed /\ m.has_init = mmc.has_init /\ m.verified = mmc.verified
    BY <2>3, <2>4, Settings
  <2> HIDE DEF m
  <2>6. /\ mmc' \in MmcRec /\ host' \in HostRec /\ faults' \in 0 .. MaxFaults /\ mmc'.width # 0
        /\ mmc'.version = mmc.version /\ mmc'.high_capacity = mmc.high_capacity /\ mmc'.rca = mmc.rca
        /\ mmc'.capacity_user = mmc.capacity_user /\ mmc'.legacy_speed = mmc.legacy_speed
        /\ ~mmc'.has_init /\ ~mmc'.verified
    BY <2>1, <2>5, MmcIos
  <2>7. Switching'
    BY <2>1 DEF Switching
  <2> QED BY <2>1, <2>2, <2>6, <2>7, MmcFacts, CapacityKept, MmcStep, TriesBounded
<1> QED BY <1>1, <1>2 DEF MmcUndo

LEMMA OldMmcStep == ASSUME MmcInv, OldMmc PROVE MmcInv'
<1>1. UNCHANGED <<chip, no, card, host, faults, mmc, todo, sub>> /\ pc = "old_mmc" /\ pc' = "finish" /\ tries' = 0
  BY DEF OldMmc, At, Next1, Goto
<1>2. mmc.capacity_user = chip.sectors
  <2>1. /\ mmc.capacity_user = CsdSectors(chip, chip.hc) /\ chip.version < MMC_VERSION_4 /\ chip.version \in Nat
    BY <1>1, MmcFacts, MmcAssumption DEF MmcInv, Sized
  <2>2. ~(chip.version >= MMC_VERSION_4)
    BY <2>1 DEF MMC_VERSION_4
  <2> QED BY <1>1, <2>1, <2>2, MmcFacts, SectorsKnown
<1>3. Records'
  BY <1>1, TriesBounded DEF MmcInv, Records
<1>4. Identity'
  BY <1>1 DEF MmcInv, Identity, IS_SD
<1>5. Attached' /\ Sized' /\ Switching'
  BY <1>1, <1>2, MmcFacts DEF Attached, Sized, Switching
<1>6. Bus'
  BY <1>1, MmcFacts DEF Bus
<1> QED BY <1>3, <1>4, <1>5, <1>6 DEF MmcInv
-----------------------------------------------------------------------------
(* The choice of a mode for an SD card. *)
Later == {"sd_check", "sd_modes", "sd_try"} \cup SdBusy

LEMMA SdFacts ==
  ASSUME MmcInv, pc \in InSd
  PROVE  /\ card \in CardRec /\ host \in HostRec /\ mmc \in MmcRec /\ faults \in 0 .. MaxFaults /\ tries \in Tries
         /\ chip \in Chips /\ todo \in Seq(SdTodo) /\ (pc \in SdBusy => todo # <<>>)
         /\ ~mmc.has_init /\ ~mmc.verified /\ mmc.width # 0 /\ chip.kind = "sd" /\ mmc.legacy_speed = chip.speed
         /\ card.st = "tran" /\ card.rca = mmc.rca /\ (pc \in Later => mmc.version = chip.version) /\ IS_SD(mmc)
         /\ ~card.ddr /\ (chip.version = SD_VERSION_1_0 => ~card.hs)
  BY DEF MmcInv, Records, Identity, Attached, Sized, Bus, MmcRec, Later

LEMMA SdStep ==
  ASSUME MmcInv, pc \in InSd, pc' \in InSd \cup {"failed"}, UNCHANGED <<chip, no, sub>>, tries' \in Tries,
         faults' \in 0 .. MaxFaults, card' \in CardRec, mmc' \in MmcRec, host' \in HostRec, todo' \in Seq(SdTodo),
         mmc'.high_capacity = mmc.high_capacity, mmc'.rca = mmc.rca,
         mmc'.capacity_user = mmc.capacity_user, mmc'.legacy_speed = mmc.legacy_speed,
         mmc'.width # 0, ~mmc'.has_init, ~mmc'.verified, card'.st = card.st, card'.rca = card.rca,
         ~card'.ddr, chip.version = SD_VERSION_1_0 => ~card'.hs,
         mmc'.version \in {mmc.version, chip.version}, pc' \in Later => mmc'.version = chip.version,
         pc' \in SdBusy => todo' # <<>>,
         pc' \in {"sd_wide", "sd_speed", "sd_clock"} => card'.width = Head(todo').width,
         pc' \in {"sd_speed", "sd_clock"} => mmc'.width = Head(todo').width,
         pc' = "sd_speed" => mmc'.version # SD_VERSION_1_0,
         pc' = "sd_clock" => (card'.hs <=> Head(todo').mode = "SD_HS") /\ card'.width <= chip.wires
  PROVE  MmcInv'
<1>1. Records'
  BY TodoKept DEF MmcInv, Records
<1>2. IS_SD(mmc')
  <2>1. chip.version >= SD_VERSION_1_0
    BY SdFacts, MmcAssumption
  <2> QED BY <2>1, SdFacts DEF IS_SD
<1>3. Identity'
  BY <1>2, SdFacts DEF MmcInv, Identity, Later
<1>4. Attached' /\ Sized' /\ Switching'
  BY DEF MmcInv, Attached, Sized, Switching
<1>5. SdTodo' = SdTodo
  BY DEF SdTodo, SdMode
<1>6. Bus'
  BY <1>5 DEF Bus
<1> QED BY <1>1, <1>3, <1>4, <1>6 DEF MmcInv

LEMMA SdIos ==
  ASSUME MmcInv, pc \in InSd, NEW m \in MmcRec, SetIos(m), m.width # 0, m.version = mmc.version,
         m.high_capacity = mmc.high_capacity, m.rca = mmc.rca, m.capacity_user = mmc.capacity_user,
         m.legacy_speed = mmc.legacy_speed, m.has_init = mmc.has_init
  PROVE  /\ mmc' \in MmcRec /\ host' \in HostRec /\ faults' \in 0 .. MaxFaults /\ mmc'.width = m.width
         /\ mmc'.version = mmc.version /\ mmc'.high_capacity = mmc.high_capacity /\ mmc'.rca = mmc.rca
         /\ mmc'.capacity_user = mmc.capacity_user /\ mmc'.legacy_speed = mmc.legacy_speed
         /\ ~mmc'.has_init /\ mmc'.verified = m.verified
         /\ ~mmc'.fatal => host' = Regs(m) /\ host'.clock <= m.clock
<1>1. /\ mmc' \in MmcRec /\ host' \in HostRec /\ faults' \in 0 .. MaxFaults
      /\ (mmc' = m /\ host' = Regs(m) /\ host'.clock <= m.clock) \/ (mmc' = [m EXCEPT !.fatal = TRUE] /\ mmc'.fatal)
  BY SdFacts, IosStep
<1>2. CASE mmc' = m /\ host' = Regs(m) /\ host'.clock <= m.clock
  BY <1>1, <1>2, SdFacts
<1>3. CASE mmc' = [m EXCEPT !.fatal = TRUE] /\ mmc'.fatal
  <2>1. /\ mmc'.width = m.width /\ mmc'.version = m.version /\ mmc'.high_capacity = m.high_capacity
        /\ mmc'.rca = m.rca /\ mmc'.capacity_user = m.capacity_user /\ mmc'.legacy_speed = m.legacy_speed
        /\ mmc'.has_init = m.has_init /\ mmc'.verified = m.verified
    BY <1>3 DEF MmcRec
  <2> QED BY <1>1, <1>3, <2>1, SdFacts
<1> QED BY <1>1, <1>2, <1>3

LEMMA ScrAppStep == ASSUME MmcInv, ScrApp PROVE MmcInv'
<1>1. /\ UNCHANGED <<chip, no, host, todo, sub, mmc>> /\ tries' = 0 /\ pc = "scr_app" /\ pc' \in {"scr", "failed"}
      /\ card' \in {card, Plain(card), [card EXCEPT !.app = TRUE]} /\ Counted
  BY DEF ScrApp, send_cmd, Next1, Fail, Goto, At, Counted
<1>2. SameCard(card')
  BY <1>1, SdFacts, CardRecords
<1> QED BY <1>1, <1>2, SdFacts, SdStep, FaultsBounded, TriesBounded DEF SameCard, SameBus, Later

LEMMA ScrStep == ASSUME MmcInv, SendScr PROVE MmcInv'
<1> DEFINE m == [mmc EXCEPT !.version = chip.version]
<1>1. /\ UNCHANGED <<chip, no, host>> /\ pc = "scr" /\ card' \in {card, Plain(card)} /\ Counted
      /\ \/ mmc' = m /\ pc' \in {"sd_modes", "sd_check"} /\ tries' = 0 /\ UNCHANGED <<todo, sub>>
         \/ Retry("scr", 3)
  BY DEF SendScr, send_cmd, Goto, At, Counted
<1>2. SameCard(card')
  BY <1>1, SdFacts, CardRecords
<1>3. CASE mmc' = m /\ pc' \in {"sd_modes", "sd_check"} /\ tries' = 0 /\ UNCHANGED <<todo, sub>>
  <2>1. chip.version \in Nat
    BY <1>1, SdFacts, MmcAssumption
  <2>2. /\ m \in MmcRec /\ m.version = chip.version /\ m.width = mmc.width /\ m.has_init = mmc.has_init
        /\ m.high_capacity = mmc.high_capacity /\ m.rca = mmc.rca /\ m.verified = mmc.verified
        /\ m.legacy_speed = mmc.legacy_speed /\ m.capacity_user = mmc.capacity_user
    BY <1>1, <2>1, SdFacts DEF MmcRec
  <2> HIDE DEF m
  <2> QED BY <1>1, <1>2, <1>3, <2>2, SdFacts, SdStep, FaultsBounded, TriesBounded DEF SameCard, SameBus
<1>4. CASE Retry("scr", 3)
  <2>1. tries' \in Tries /\ pc' \in {"scr", "failed"} /\ UNCHANGED <<mmc, todo, sub>>
    BY <1>1, <1>4, SdFacts, RetryBounded
  <2> QED BY <1>1, <1>2, <2>1, SdFacts, SdStep, FaultsBounded DEF SameCard, SameBus, Later
<1> QED BY <1>1, <1>3, <1>4

LEMMA SdCheckStep == ASSUME MmcInv, SdCheck PROVE MmcInv'
<1>1. /\ UNCHANGED <<chip, no, host, todo, sub, mmc>> /\ tries' = 0 /\ pc = "sd_check" /\ pc' \in {"sd_modes", "failed"}
      /\ card' \in {card, Plain(card)} /\ Counted
  BY DEF SdCheck, sd_switch, send_cmd, Next1, Fail, Goto, At, Counted
<1>2. SameCard(card')
  BY <1>1, SdFacts, CardRecords
<1> QED BY <1>1, <1>2, SdFacts, SdStep, FaultsBounded, TriesBounded DEF SameCard, SameBus, Later

LEMMA SdModesStep == ASSUME MmcInv, SdModes PROVE MmcInv'
<1>1. /\ UNCHANGED <<chip, no, card, host, faults, sub, mmc>> /\ tries' = 0 /\ pc = "sd_modes" /\ pc' = "sd_try"
      /\ todo' = sd_modes_by_pref(SdCaps(mmc) \cap HostCaps(no))
  BY DEF SdModes, At
<1>2. mmc.version = chip.version
  BY <1>1, SdFacts DEF Later
<1>3. todo' \in Seq(SdTodo)
  <2> DEFINE caps == SdCaps(mmc) \cap HostCaps(no)
  <2>1. caps \subseteq SdCaps(mmc)
    OBVIOUS
  <2> HIDE DEF caps
  <2>2. sd_modes_by_pref(caps) \in Seq(SdTodo)
    BY <1>2, <2>1, SdModesSeq
  <2> QED BY <1>1, <2>2 DEF caps
<1> QED BY <1>1, <1>2, <1>3, SdFacts, SdStep, TriesBounded

LEMMA SdTryStep == ASSUME MmcInv, SdTry PROVE MmcInv'
<1>1. /\ UNCHANGED <<chip, no, host, todo, sub, mmc>> /\ tries' = 0 /\ pc = "sd_try"
      /\ pc' \in {"sd_width", "sd_error", "failed"} /\ (pc' # "failed" => todo # <<>>)
      /\ card' \in {card, Plain(card), [card EXCEPT !.app = TRUE]} /\ Counted
  BY DEF SdTry, send_cmd, Next1, Fail, Goto, At, Counted
<1>2. SameCard(card') /\ mmc.version = chip.version
  BY <1>1, SdFacts, CardRecords DEF Later
<1> QED BY <1>1, <1>2, SdFacts, SdStep, FaultsBounded, TriesBounded DEF SameCard, SameBus

(* The attempt under way. *)
LEMMA SdHead ==
  ASSUME MmcInv, pc \in SdBusy
  PROVE  /\ todo # <<>> /\ Head(todo).width \in Width /\ Head(todo).mode \in {"SD_LEGACY", "SD_HS"}
         /\ Head(todo).mode \in Modes /\ Tail(todo) \in Seq(SdTodo)
         /\ Head(todo).mode = "SD_HS" => chip.version # SD_VERSION_1_0
         /\ Head(todo).width = 1 \/ (Head(todo).width = 4 /\ chip.wide)
<1>1. /\ todo # <<>> /\ Head(todo) \in SdTodo /\ Head(todo).width \in Width /\ Head(todo).mode \in Modes
      /\ Tail(todo) \in Seq(SdTodo)
  BY SdFacts, TodoFacts, TodoKept
<1>2. SdMode(Head(todo))
  BY <1>1 DEF SdTodo
<1> QED BY <1>1, <1>2 DEF SdMode

LEMMA SdWidthStep == ASSUME MmcInv, SdWidth PROVE MmcInv'
<1> DEFINE w == Head(todo).width
           WideCard == [Plain(card) EXCEPT !.width = w]
<1>1. /\ UNCHANGED <<chip, no, host, todo, sub, mmc>> /\ tries' = 0 /\ pc = "sd_width" /\ Counted
      /\ card' \in {card, Plain(card), WideCard}
      /\ pc' = "sd_error" \/ (pc' = "sd_wide" /\ card' = WideCard)
  BY DEF SdWidth, send_cmd, Next1, Goto, At, Counted
<1>2. todo # <<>> /\ w \in Width /\ w = Head(todo).width
  BY <1>1, SdHead
<1> HIDE DEF w
<1>3. /\ WideCard \in CardRec /\ WideCard.width = w /\ WideCard.st = card.st /\ WideCard.rca = card.rca
      /\ WideCard.hs = card.hs /\ WideCard.ddr = card.ddr
  BY <1>1, <1>2, SdFacts DEF Plain, CardRec
<1> HIDE DEF WideCard
<1>4. /\ card' \in CardRec /\ card'.st = card.st /\ card'.rca = card.rca /\ card'.hs = card.hs /\ card'.ddr = card.ddr
      /\ pc' = "sd_wide" => card'.width = w
  BY <1>1, <1>3, SdFacts, CardRecords DEF SameCard, SameBus
<1>5. mmc.version = chip.version
  BY <1>1, SdFacts DEF Later
<1> QED BY <1>1, <1>2, <1>4, <1>5, SdFacts, SdStep, FaultsBounded, TriesBounded

LEMMA SdWideStep == ASSUME MmcInv, SdWide PROVE MmcInv'
<1> DEFINE w == Head(todo).width
           m == WithWidth(mmc, w)
<1>1. /\ UNCHANGED <<chip, no, card, todo, sub>> /\ tries' = 0 /\ pc = "sd_wide" /\ SetIos(m)
      /\ \/ mmc.version = SD_VERSION_1_0 /\ pc' = "sd_clock"
         \/ mmc.version # SD_VERSION_1_0 /\ pc' = "sd_speed"
  BY DEF SdWide, Goto, At
<1>2. /\ todo # <<>> /\ w \in Width /\ w = Head(todo).width /\ card.width = w /\ mmc.version = chip.version
      /\ mmc \in MmcRec /\ "SD_HS" \in Modes /\ 0 \in Nat
  BY <1>1, SdHead, SdFacts DEF MmcInv, Bus, Later, Modes
<1>3. pc' = "sd_clock" => ~card.hs /\ Head(todo).mode # "SD_HS" /\ card.width <= chip.wires
  <2> SUFFICES ASSUME pc' = "sd_clock" PROVE ~card.hs /\ Head(todo).mode # "SD_HS" /\ card.width <= chip.wires
    OBVIOUS
  <2>1. chip.version = SD_VERSION_1_0 /\ chip \in Chips
    BY <1>1, <1>2, SdFacts
  <2>2. chip.wires \in Nat /\ chip.wires >= 1 /\ (chip.wide => chip.wires >= 4)
    BY <2>1, MmcAssumption
  <2>3. ~card.hs /\ Head(todo).mode # "SD_HS" /\ (w = 1 \/ (w = 4 /\ chip.wide))
    BY <1>1, <2>1, SdFacts, SdHead
  <2> HIDE DEF w
  <2> QED BY <1>2, <2>2, <2>3
<1> HIDE DEF w
<1>4. /\ m \in MmcRec /\ m.width = w /\ m.version = mmc.version
      /\ m.high_capacity = mmc.high_capacity /\ m.rca = mmc.rca /\ m.capacity_user = mmc.capacity_user
      /\ m.legacy_speed = mmc.legacy_speed /\ m.has_init = mmc.has_init /\ m.verified = mmc.verified
  BY <1>2, Settings
<1> HIDE DEF m
<1>5. m.width # 0
  BY <1>2, <1>4 DEF Width
<1>6. /\ mmc' \in MmcRec /\ host' \in HostRec /\ faults' \in 0 .. MaxFaults /\ mmc'.width = w /\ w # 0
      /\ mmc'.version = mmc.version /\ mmc'.high_capacity = mmc.high_capacity /\ mmc'.rca = mmc.rca
      /\ mmc'.capacity_user = mmc.capacity_user /\ mmc'.legacy_speed = mmc.legacy_speed
      /\ ~mmc'.has_init /\ ~mmc'.verified
  BY <1>1, <1>4, <1>5, SdFacts, SdIos
<1> QED BY <1>1, <1>2, <1>3, <1>6, SdFacts, SdStep, TriesBounded

LEMMA SdSpeedStep == ASSUME MmcInv, SdSpeed PROVE MmcInv'
<1> DEFINE speed == IF Head(todo).mode = "SD_HS" THEN 1 ELSE 0
           refused == <<"speed", speed>> \in chip.refuse
           FastCard == [Plain(card) EXCEPT !.hs = (speed = 1)]
<1>1. /\ UNCHANGED <<chip, no, host, todo, sub, mmc>> /\ tries' = 0 /\ pc = "sd_speed" /\ Counted
      /\ card' \in {card, Plain(card), FastCard}
      /\ pc' = "sd_error" \/ (pc' = "sd_clock" /\ card' = FastCard /\ Agree)
  BY DEF SdSpeed, sd_switch, send_cmd, Next1, Goto, At, Counted
<1>2. /\ todo # <<>> /\ card.width = Head(todo).width /\ mmc.width = Head(todo).width /\ mmc.version = chip.version
      /\ chip.version # SD_VERSION_1_0
  BY <1>1, SdHead, SdFacts DEF MmcInv, Bus, Later
<1>3. /\ FastCard \in CardRec /\ FastCard.width = card.width /\ FastCard.st = card.st /\ FastCard.rca = card.rca
      /\ FastCard.ddr = card.ddr /\ (FastCard.hs <=> Head(todo).mode = "SD_HS")
  <2> DEFINE fast == speed = 1
  <2>1. fast \in BOOLEAN /\ (fast <=> Head(todo).mode = "SD_HS")
    OBVIOUS
  <2> HIDE DEF fast
  <2>2. FastCard = [Plain(card) EXCEPT !.hs = fast]
    BY DEF fast
  <2> HIDE DEF FastCard
  <2>3. card \in CardRec
    BY <1>1, SdFacts
  <2>4. /\ FastCard \in CardRec /\ FastCard.width = card.width /\ FastCard.st = card.st /\ FastCard.rca = card.rca
        /\ FastCard.ddr = card.ddr /\ FastCard.hs = fast
    BY <2>1, <2>2, <2>3 DEF Plain, CardRec
  <2> QED BY <2>1, <2>4
<1> HIDE DEF FastCard
<1>4. /\ card' \in CardRec /\ card'.st = card.st /\ card'.rca = card.rca /\ card'.ddr = card.ddr /\ card'.width = card.width
      /\ pc' = "sd_clock" => (card'.hs <=> Head(todo).mode = "SD_HS")
  BY <1>1, <1>3, SdFacts, CardRecords DEF SameCard, SameBus
<1>5. pc' = "sd_clock" => card.width <= chip.wires
  BY <1>1 DEF Agree
<1> QED BY <1>1, <1>2, <1>4, <1>5, SdFacts, SdStep, FaultsBounded, TriesBounded

LEMMA SdErrorStep == ASSUME MmcInv, SdError PROVE MmcInv'
<1> DEFINE n == SelectMode(mmc, "SD_LEGACY")
           m == WithClock(n, n.tran_speed)
<1>1. UNCHANGED <<chip, no, card, sub>> /\ pc = "sd_error" /\ pc' = "sd_try" /\ tries' = 0 /\ SetIos(m) /\ todo' = Tail(todo)
  BY DEF SdError, At
<1>2. todo' \in Seq(SdTodo) /\ mmc.version = chip.version
  BY <1>1, SdHead, SdFacts DEF Later
<1>3. mmc \in MmcRec /\ 1 \in Width /\ 0 \in Nat /\ "SD_LEGACY" \in Modes
  BY <1>1, SdFacts DEF Width, Modes
<1>4. /\ n \in MmcRec /\ n.width = mmc.width /\ n.version = mmc.version
      /\ n.high_capacity = mmc.high_capacity /\ n.rca = mmc.rca /\ n.capacity_user = mmc.capacity_user
      /\ n.legacy_speed = mmc.legacy_speed /\ n.has_init = mmc.has_init /\ n.verified = mmc.verified
  BY <1>3, Settings
<1>5. n.tran_speed \in Nat
  BY <1>4 DEF MmcRec
<1> HIDE DEF n
<1>6. /\ m \in MmcRec /\ m.width = mmc.width /\ m.version = mmc.version
      /\ m.high_capacity = mmc.high_capacity /\ m.rca = mmc.rca /\ m.capacity_user = mmc.capacity_user
      /\ m.legacy_speed = mmc.legacy_speed /\ m.has_init = mmc.has_init /\ m.verified = mmc.verified
  BY <1>3, <1>4, <1>5, Settings
<1> HIDE DEF m
<1>7. /\ mmc' \in MmcRec /\ host' \in HostRec /\ faults' \in 0 .. MaxFaults /\ mmc'.width # 0
      /\ mmc'.version = mmc.version /\ mmc'.high_capacity = mmc.high_capacity /\ mmc'.rca = mmc.rca
      /\ mmc'.capacity_user = mmc.capacity_user /\ mmc'.legacy_speed = mmc.legacy_speed
      /\ ~mmc'.has_init /\ ~mmc'.verified
  BY <1>1, <1>6, SdFacts, SdIos
<1> QED BY <1>1, <1>2, <1>7, SdFacts, SdStep, TriesBounded

(* The clock ends the search: width and timing have been set on both sides. *)
LEMMA SdClockStep == ASSUME MmcInv, SdClock PROVE MmcInv'
<1> DEFINE mode == Head(todo).mode
           n == SelectMode(mmc, mode)
           k == [n EXCEPT !.verified = TRUE]
           m == WithClock(k, n.tran_speed)
<1>1. UNCHANGED <<chip, no, card, todo, sub>> /\ pc = "sd_clock" /\ pc' = "finish" /\ tries' = 0 /\ SetIos(m)
  BY DEF SdClock, At, Goto
<1>2. /\ mode \in {"SD_LEGACY", "SD_HS"} /\ mode \in Modes /\ (card.hs <=> mode = "SD_HS")
      /\ card.width <= chip.wires /\ card.width = mmc.width /\ mmc.version = chip.version
  BY <1>1, SdHead, SdFacts DEF MmcInv, Bus, Later
<1> HIDE DEF mode
<1>3. mmc \in MmcRec /\ 1 \in Width /\ 0 \in Nat
  BY <1>1, SdFacts DEF Width
<1>4. /\ n \in MmcRec /\ n.width = mmc.width /\ n.version = mmc.version
      /\ n.high_capacity = mmc.high_capacity /\ n.rca = mmc.rca /\ n.capacity_user = mmc.capacity_user
      /\ n.legacy_speed = mmc.legacy_speed /\ n.has_init = mmc.has_init
      /\ n.mode = mode /\ n.tran_speed = mmc_mode2freq(mmc, mode)
  BY <1>2, <1>3, Settings
<1>5. n.tran_speed = IF mode = "SD_HS" THEN 50000 ELSE 25000
  BY <1>2, <1>4 DEF mmc_mode2freq
<1> HIDE DEF n
<1>6. /\ k \in MmcRec /\ k.width = mmc.width /\ k.version = mmc.version
      /\ k.high_capacity = mmc.high_capacity /\ k.rca = mmc.rca /\ k.capacity_user = mmc.capacity_user
      /\ k.legacy_speed = mmc.legacy_speed /\ k.has_init = mmc.has_init /\ k.mode = mode
  BY <1>4 DEF MmcRec
<1> HIDE DEF k
<1>7. n.tran_speed \in Nat /\ n.tran_speed >= f_min
  BY <1>5, Rates
<1>8. /\ m \in MmcRec /\ m.width = mmc.width /\ m.version = mmc.version
      /\ m.high_capacity = mmc.high_capacity /\ m.rca = mmc.rca /\ m.capacity_user = mmc.capacity_user
      /\ m.legacy_speed = mmc.legacy_speed /\ m.has_init = mmc.has_init /\ m.mode = mode
      /\ m.clock = ClampClock(n.tran_speed)
  BY <1>2, <1>3, <1>6, <1>7, Settings
<1> HIDE DEF m
<1>9. ClampClock(n.tran_speed) \in Nat /\ ClampClock(n.tran_speed) <= n.tran_speed
  BY <1>2, <1>3, <1>7, ModeRecords, Rates
<1>10. /\ mmc' \in MmcRec /\ host' \in HostRec /\ faults' \in 0 .. MaxFaults /\ mmc'.width = m.width /\ mmc'.width # 0
       /\ mmc'.version = mmc.version /\ mmc'.high_capacity = mmc.high_capacity /\ mmc'.rca = mmc.rca
       /\ mmc'.capacity_user = mmc.capacity_user /\ mmc'.legacy_speed = mmc.legacy_speed
       /\ ~mmc'.has_init /\ (~mmc'.fatal => host' = Regs(m) /\ host'.clock <= m.clock)
  BY <1>1, <1>8, SdFacts, SdIos
<1>11. mmc'.capacity_user = chip.sectors
  <2>1. mmc.capacity_user = CsdSectors(chip, chip.hc)
    BY <1>1 DEF MmcInv, Sized
  <2> QED BY <1>1, <1>10, <2>1, SdFacts, SectorsKnown
<1>12. ~mmc'.fatal => Agree'
  <2> SUFFICES ASSUME ~mmc'.fatal PROVE Agree'
    OBVIOUS
  <2>1. host'.width = mmc.width /\ ~host'.ddr
    <3>1. host'.width = m.width /\ host'.ddr = is_ddr(m.mode)
      BY <1>10 DEF Regs
    <3>2. ~is_ddr(m.mode)
      BY <1>2, <1>8 DEF is_ddr
    <3> QED BY <1>8, <3>1, <3>2
  <2>2. ~card.ddr /\ card.ddr \in BOOLEAN /\ host'.ddr \in BOOLEAN
    BY <1>1, <1>10, SdFacts DEF CardRec, HostRec
  <2> QED BY <1>1, <1>2, <2>1, <2>2 DEF Agree
<1>13. ~mmc'.fatal => host'.clock <= CardLimit'
  <2>1. CardLimit' = IF mode = "SD_HS" THEN 50000 ELSE 25000
    BY <1>1, <1>2, SdFacts DEF CardLimit
  <2>2. host'.clock \in Nat
    BY <1>10, Rates DEF HostRec
  <2>3. CardLimit' = n.tran_speed
    BY <1>5, <2>1
  <2> QED BY <1>7, <1>8, <1>9, <1>10, <2>2, <2>3
<1>14. Records'
  BY <1>1, <1>10, TriesBounded DEF MmcInv, Records
<1>15. Identity'
  BY <1>1, <1>10 DEF MmcInv, Identity, IS_SD
<1>16. Attached' /\ Sized' /\ Switching'
  BY <1>1, <1>10, <1>11, SdFacts DEF Attached, Sized, Switching
<1>17. Bus'
  BY <1>1, <1>10, <1>12, <1>13, SdFacts DEF Bus
<1> QED BY <1>14, <1>15, <1>16, <1>17 DEF MmcInv

LEMMA FinishStep == ASSUME MmcInv, Finish PROVE MmcInv'
<1> DEFINE m == [mmc_set_capacity(mmc) EXCEPT !.has_init = TRUE]
<1>1. UNCHANGED <<chip, no, card, host, faults, todo, sub>> /\ tries' = 0 /\ pc = "finish" /\ pc' = "ready" /\ mmc' = m
  BY DEF Finish, At, Goto
<1>2. /\ m \in MmcRec /\ m.version = mmc.version /\ m.width = mmc.width /\ m.verified = mmc.verified
      /\ m.high_capacity = mmc.high_capacity /\ m.rca = mmc.rca /\ m.fatal = mmc.fatal
      /\ m.legacy_speed = mmc.legacy_speed /\ m.capacity_user = mmc.capacity_user /\ m.lba = mmc.capacity_user
  BY DEF mmc_set_capacity, MmcRec, MmcInv, Records
<1> HIDE DEF m
<1>3. Records'
  BY <1>1, <1>2, TriesBounded DEF MmcInv, Records
<1>4. Identity'
  BY <1>1, <1>2 DEF MmcInv, Identity, IS_SD
<1>5. Attached' /\ Sized' /\ Switching'
  BY <1>1, <1>2 DEF MmcInv, Attached, Sized, Switching
<1>6. Agree' = Agree /\ CardLimit' = CardLimit
  BY <1>1 DEF Agree, CardLimit
<1>7. Bus'
  BY <1>1, <1>2, <1>6 DEF MmcInv, Bus
<1> QED BY <1>3, <1>4, <1>5, <1>7 DEF MmcInv
-----------------------------------------------------------------------------
LEMMA MmcInit == ASSUME Init PROVE MmcInv
<1>1. card \in CardRec /\ chip \in Chips
  <2>1. chip \in Chips /\ chip.busy \in Nat
    BY MmcAssumption DEF Init
  <2> QED BY <2>1 DEF Init, CardRec, Width
<1>2. 0 \in 0 .. f_max
  BY Rates
<1>3. mmc \in MmcRec
  <2>1. mmc = [version |-> 0, high_capacity |-> FALSE, rca |-> 0, mode |-> "MMC_LEGACY", tran_speed |-> 0,
               legacy_speed |-> 0, clock |-> 0, width |-> 0, capacity_user |-> 0, ext_csd |-> FALSE,
               lba |-> 0, has_init |-> FALSE, verified |-> FALSE, fatal |-> FALSE]
    BY Zenon DEF Init
  <2> QED BY <1>2, <2>1 DEF MmcRec, Modes
<1>4. Records
  <2>1. host = [width |-> 1, ddr |-> FALSE, clock |-> 0] /\ sub = [index |-> "", value |-> 0, ret |-> "", else |-> ""]
    BY Zenon DEF Init
  <2>2. host \in HostRec
    BY <1>2, <2>1 DEF HostRec, Width
  <2>3. sub \in SubRec
    BY <2>1 DEF SubRec
  <2>4. todo = <<>> /\ no \in Numbers /\ faults = 0 /\ pc = "start" /\ tries = 0
    BY Zenon DEF Init
  <2>5. todo \in Seq(AnyMode) /\ faults \in 0 .. MaxFaults
    BY <2>4, MmcAssumption
  <2> QED BY <1>1, <1>3, <2>2, <2>3, <2>4, <2>5, TriesBounded DEF Records
<1>5. Identity /\ Attached /\ Sized /\ Switching
  BY DEF Init, Identity, Attached, Sized, Switching
<1>6. Bus
  BY DEF Init, Bus
<1> QED BY <1>4, <1>5, <1>6 DEF MmcInv

LEMMA MmcNext == ASSUME MmcInv, [Next]_mvars PROVE MmcInv'
<1>1. CASE Next
  BY <1>1, StartInitStep, GoIdleStep, IfCondStep, AppCmdStep, OpCondStep, MmcIdleStep, Cmd1Step, CompleteStep,
     OpCondDoneStep, CidStep, RcaStep, CsdStep, SelectStep, ExtCsdStep, PartsStep, SwitchStep, ModesStep, TryStep,
     WideStep, TimedStep, ClockStep, CompareStep, UndoStep, OldMmcStep, ScrAppStep, ScrStep, SdCheckStep,
     SdModesStep, SdTryStep, SdWidthStep, SdWideStep, SdSpeedStep, SdClockStep, SdErrorStep, FinishStep DEF Next
<1>2. CASE UNCHANGED mvars
  BY <1>2 DEF mvars, MmcInv, Records, Identity, Attached, Sized, Switching, Bus, Legacy, Agree, CardLimit, SdTodo,
     SdMode
<1> QED BY <1>1, <1>2

(* What follows for the user of the card. *)
LEMMA MmcSound == ASSUME MmcInv PROVE InitSound
<1>1. MmcTypeOK
  <2>1. ASSUME NEW i \in 1 .. Len(todo) PROVE todo[i].width \in {1, 4, 8}
    <3>1. todo \in Seq(AnyMode)
      BY DEF MmcInv, Records
    <3>2. todo[i] \in AnyMode
      BY <2>1, <3>1
    <3> QED BY <3>2 DEF AnyMode, Width
  <2>2. card.st \in {"idle", "ready", "ident", "stby", "tran"} /\ card.width \in {1, 4, 8} /\ card.rca \in Nat
        /\ card.hs \in BOOLEAN /\ card.ddr \in BOOLEAN /\ card.app \in BOOLEAN /\ card.busy \in Nat
    BY DEF MmcInv, Records, CardRec, Width
  <2>3. host.width \in {1, 4, 8} /\ host.ddr \in BOOLEAN /\ host.clock \in 0 .. f_max
    BY DEF MmcInv, Records, HostRec, Width
  <2>4. mmc.version \in Nat /\ mmc.clock \in 0 .. f_max /\ mmc.width \in {0, 1, 4, 8}
    BY DEF MmcInv, Records, MmcRec, Width
  <2> QED BY <2>1, <2>2, <2>3, <2>4 DEF MmcInv, Records, MmcTypeOK, Tries
<1>2. ASSUME mmc.has_init
      PROVE  /\ Selected /\ IS_SD(mmc) = (chip.kind = "sd") /\ mmc.lba = chip.sectors
             /\ mmc.high_capacity = chip.hc
             /\ mmc.verified /\ ~mmc.fatal => Agree /\ host.clock <= CardLimit
  <2>1. pc = "ready" /\ mmc.lba = chip.sectors
    BY <1>2 DEF MmcInv, Sized
  <2>2. Selected
    BY <2>1 DEF MmcInv, Attached, Selected, Addressed
  <2>3. mmc.high_capacity = chip.hc /\ (IS_SD(mmc) <=> chip.kind = "sd")
    BY <2>1 DEF MmcInv, Identity
  <2>4. IS_SD(mmc) = (chip.kind = "sd")
    BY <2>3 DEF IS_SD
  <2>5. mmc.verified /\ ~mmc.fatal => Agree /\ host.clock <= CardLimit
    BY <2>1 DEF MmcInv, Bus
  <2> QED BY <2>1, <2>2, <2>3, <2>4, <2>5
<1> QED BY <1>1, <1>2 DEF InitSound

(* When mmc_init() has succeeded, whatever commands and responses were     *)
(* lost on the way, the card is selected and taken for what it is, its     *)
(* size is right, and a mode that was found is one both sides are in, with *)
(* a clock the card's timing allows (mmc_init(), mmc_startup() and         *)
(* the two select_mode_and_width() of mmc.c; mmc_set_mod_clk() of          *)
(* sunxi_mmc.c).                                                           *)
THEOREM CardsAlwaysSound == Spec => []InitSound
<1>1. Init => MmcInv
  BY MmcInit
<1>2. MmcInv /\ [Next]_mvars => MmcInv'
  BY MmcNext
<1>3. MmcInv => InitSound
  BY MmcSound
<1> QED BY <1>1, <1>2, <1>3, PTL DEF Spec
-----------------------------------------------------------------------------
(* Without a fault.  A card that keeps to its standard: a high capacity SD *)
(* card is of version 2, ERASE_GROUP_DEF and the default speed are not     *)
(* refused, and the clock of an MMC is above 12 MHz, below which           *)
(* mmc_set_mod_clk() takes the 24 MHz oscillator and may give half.        *)
Conforming(c) ==
  /\ c.kind = "sd" /\ c.hc => c.v2
  /\ <<"erase_group", 1>> \notin c.refuse /\ <<"speed", 0>> \notin c.refuse
  /\ c.kind = "mmc" => c.speed > 12000

(* The card answers: its state and how long it stays busy, until it is     *)
(* selected.                                                               *)
InSwitch == pc \in {"switch", "switch_status"}
Answers ==
  /\ pc \in {"start", "go_idle", "if_cond"} => card.busy = chip.busy
  /\ pc \in {"app_cmd", "acmd41", "complete"} => tries + card.busy <= chip.busy
  /\ pc \in {"mmc_idle", "cmd1", "complete_idle"} => card.busy <= chip.busy
  /\ pc \in Early \ {"start", "go_idle"} => Present
  /\ pc \in {"if_cond", "app_cmd", "acmd41", "cmd1", "complete"} => card.st = "idle"
  /\ pc \in {"app_cmd", "acmd41"} /\ chip.kind = "sd" /\ chip.v2 => mmc.version = SD_VERSION_2
  /\ pc = "acmd41" => chip.kind = "sd"
  /\ pc \in {"acmd41", "scr", "sd_width"} => card.app
  /\ pc \in {"mmc_idle", "cmd1", "complete_idle", "complete"} => chip.kind = "mmc"
  /\ pc \in {"op_cond_done", "all_send_cid"} => card.st = "ready"
  /\ pc = "rca" => card.st = "ident"
  /\ pc \in {"csd", "select"} => card.st = "stby" /\ Addressed

(* One line and single edges until a mode is tried. *)
Asking == Early \cup Ident \cup {"ext_csd", "old_mmc", "scr_app", "scr", "sd_check"}
Untried ==
  /\ ~mmc.fatal
  /\ pc \in Asking => card.width = 1 /\ ~card.ddr /\ host.width = 1 /\ ~host.ddr
  /\ pc \in Asking \cup {"parts", "modes", "try", "wide", "timed"} \/ (InSwitch /\ sub.ret # "legacy") =>
       mmc.mode \in {"MMC_LEGACY", "SD_LEGACY"}
  /\ pc \in InSd => mmc.mode \in {"MMC_LEGACY", "SD_LEGACY"}
  /\ InSwitch /\ sub.ret = "parts" => sub.value = 1

(* The modes gone through so far were all refused. *)
Wanted == {a \in AnyMode : Willing(a)}
Searching == {"try"} \cup Trying \cup {"sd_try"} \cup SdBusy
Gone(i) ==
  /\ Len(todo) = Len(Offered) - i
  /\ \A j \in 1 .. Len(todo) : todo[j] = Offered[i + j]
  /\ \A j \in 1 .. i : Offered[j] \notin Wanted
Passed == \E i \in 0 .. Len(Offered) : Gone(i)
Refused ==
  /\ pc \in Searching \/ (InSwitch /\ sub.ret # "parts") => Passed
  /\ pc \in {"undo", "legacy", "sd_error"} \/ (InSwitch /\ sub.ret = "legacy") => Head(todo) \notin Wanted

(* What the mode being tried has achieved. *)
Can(index, value) == <<index, value>> \notin chip.refuse
Wide == Can("width", Head(todo).width) /\ card.width = Head(todo).width
BothWide == Wide /\ host.width = Head(todo).width /\ mmc.width = Head(todo).width
Fastened == Can("hs", Fast(Head(todo))) /\ (is_ddr(Head(todo).mode) => Can("ddr", Head(todo).width))
Tried ==
  /\ InSwitch /\ sub.ret = "wide" => 
       /\ sub.value = Head(todo).width
       /\ pc = "switch_status" /\ Can("width", Head(todo).width) => Wide /\ ~card.ddr
  /\ pc = "wide" => Wide /\ ~card.ddr
  /\ (InSwitch /\ sub.ret = "timed") \/ pc = "timed" => BothWide /\ ~card.ddr /\ ~host.ddr
  /\ pc = "timed" => Can("hs", Fast(Head(todo)))
  /\ InSwitch /\ sub.ret = "clock" =>
       /\ BothWide /\ is_ddr(Head(todo).mode) /\ Can("hs", Fast(Head(todo))) /\ sub.value = Head(todo).width
       /\ pc = "switch_status" /\ Can("ddr", Head(todo).width) => card.ddr
  /\ pc = "clock" => BothWide /\ Fastened /\ (card.ddr <=> is_ddr(Head(todo).mode))
  /\ pc = "compare" =>
       /\ BothWide /\ Fastened /\ card.ddr = host.ddr /\ mmc.mode = Head(todo).mode
       /\ host.clock >= (ClampClock(mmc.tran_speed) * 4) \div 5

(* The same for an SD card. *)
SdTried ==
  /\ pc = "sd_wide" => card.width = Head(todo).width
  /\ pc \in {"sd_speed", "sd_clock"} => host.width = Head(todo).width /\ ~host.ddr
  /\ pc = "sd_clock" => Head(todo) \in Wanted

Came ==
  /\ pc = "failed" => ~(Present /\ chip.rev <= 8 /\ chip.busy <= MaxPolls)
  /\ pc \in Ends /\ chip.version >= MMC_VERSION_4 => BestModeFound

Well == Answers /\ Untried /\ Refused /\ Tried /\ SdTried /\ Came
HealthyInv == faults = 0 => Well

USE DEF Asking
-----------------------------------------------------------------------------
(* mmc_set_mod_clk() gives at least four fifths of what was asked for,     *)
(* above 12 MHz.                                                           *)
LEMMA QuotientUp ==
  ASSUME NEW a \in Nat, NEW b \in Nat, b > 0, NEW c \in Nat, b * c <= a
  PROVE  a \div b \in Nat /\ a \div b >= c
<1> DEFINE q == a \div b
<1>1. q \in Nat /\ a < (q + 1) * b
  OBVIOUS
<1> HIDE DEF q
<1>2. c * b < (q + 1) * b
  BY <1>1
<1>3. c < q + 1
  BY <1>1, <1>2
<1> QED BY <1>1, <1>3 DEF q

LEMMA DividerTight ==
  ASSUME NEW a \in Nat, NEW b \in Nat, a > 0, b > 0
  PROVE  (Divider(a, b) - 1) * b < a
<1> DEFINE q == (a + b - 1) \div b
<1>1. q \in Nat /\ q * b <= a + b - 1
  OBVIOUS
<1> HIDE DEF q
<1>2. (q - 1) * b < a
  BY <1>1
<1> QED BY <1>2 DEF q, Divider

(* The divider is rounded up to a multiple of two beyond 16, of four       *)
(* beyond 32.                                                              *)
LEMMA SplitTight ==
  ASSUME NEW d \in Nat, d > 0
  PROVE  LET q == 2 ^ Split(d).n * Split(d).div
         IN  \/ q = d
             \/ q <= d + 1 /\ d >= 17
             \/ q <= d + 3 /\ d >= 33
             \/ d >= 65
<1> DEFINE h == Halved(d)
           i == Halved(h)
           j == Halved(i)
<1>1. h \in Nat /\ i \in Nat /\ j \in Nat
  BY DEF Halved
<1>2. 2 * h <= d + 1
  BY DEF Halved
<1>3. 2 * i <= h + 1
  BY <1>1 DEF i, Halved
<1> HIDE DEF h, i, j
<1>4. \/ Split(d).n = 0 /\ Split(d).div = d
      \/ Split(d).n = 1 /\ Split(d).div = h /\ d > 16
      \/ Split(d).n = 2 /\ Split(d).div = i /\ h > 16
      \/ i > 16
  BY <1>1 DEF Split, h, i, j
<1>5. 2 ^ 0 = 1 /\ 2 ^ 1 = 2 /\ 2 ^ 2 = 4
  OBVIOUS
<1> DEFINE n == Split(d).n
           p == 2 ^ n
           v == Split(d).div
<1>6. (n = 0 => p = 2 ^ 0) /\ (n = 1 => p = 2 ^ 1) /\ (n = 2 => p = 2 ^ 2)
  BY Zenon
<1> HIDE DEF p, v
<1>7. \/ p = 1 /\ v = d
      \/ p = 2 /\ v = h /\ d > 16
      \/ p = 4 /\ v = i /\ h > 16
      \/ i > 16
  BY <1>4, <1>5, <1>6 DEF v
<1>8. \/ p * v = d
      \/ p * v <= d + 1 /\ d >= 17
      \/ p * v <= d + 3 /\ d >= 33
      \/ d >= 65
  BY <1>1, <1>2, <1>3, <1>7
<1> QED BY <1>8 DEF p, v

LEMMA ClockFloor ==
  ASSUME NEW ddr \in BOOLEAN, NEW khz \in Nat, khz > 12000, khz <= 52000
  PROVE  ModClk(ddr, khz).rate >= (khz * 4) \div 5
<1> DEFINE k  == IF ddr THEN 4 ELSE 2
           hz == khz * k
           P  == 1200000
           d  == Divider(P, hz)
           q  == 2 ^ Split(d).n * Split(d).div
           g  == (khz * 4) \div 5
<1>1. k \in {2, 4}
  OBVIOUS
<1> HIDE DEF k
<1>2. hz \in Nat /\ hz > 24000 /\ hz <= 208000
  BY <1>1
<1>3. ModClk(ddr, khz).rate = (P \div q) \div k
  BY <1>2 DEF ModClk, k
<1>4. g \in Nat /\ 5 * g <= 4 * khz
  OBVIOUS
<1> HIDE DEF g
<1>5. 5 * (k * g) <= 4 * hz
  BY <1>1, <1>4
<1> HIDE DEF hz
<1>6. d \in Nat /\ d > 0 /\ (d - 1) * hz < P
  BY <1>2, DividerUp, DividerTight
<1> HIDE DEF d
<1>7. /\ q \in Nat /\ q >= d
      /\ q = d \/ (q <= d + 1 /\ d >= 17) \/ (q <= d + 3 /\ d >= 33) \/ d >= 65
  BY <1>6, SplitUp, SplitTight
<1> HIDE DEF q
<1>8. q * hz < 1408000
  <2>1. \A e \in Nat : d >= e + 1 => e * hz <= (d - 1) * hz
    BY <1>2, <1>6
  <2>2. \A e \in Nat : q <= d + e => q * hz <= (d - 1) * hz + (e + 1) * hz
    BY <1>2, <1>6, <1>7
  <2> DEFINE x == (d - 1) * hz
             y == q * hz
  <2>3. x \in Int /\ y \in Int /\ x < P
    BY <1>2, <1>6, <1>7
  <2>4. CASE q = d
    <3>1. y <= x + hz
      BY <1>2, <1>6, <2>4
    <3> HIDE DEF x, y
    <3>2. y < 1408000
      BY <1>2, <2>3, <3>1
    <3> QED BY <3>2 DEF y
  <2>5. CASE q <= d + 1 /\ d >= 17
    <3>1. 16 * hz <= x /\ y <= x + 2 * hz
      BY <2>1, <2>2, <2>5
    <3> HIDE DEF x, y
    <3>2. y < 1408000
      BY <1>2, <2>3, <3>1
    <3> QED BY <3>2 DEF y
  <2>6. CASE q <= d + 3 /\ d >= 33
    <3>1. 32 * hz <= x /\ y <= x + 4 * hz
      BY <2>1, <2>2, <2>6
    <3> HIDE DEF x, y
    <3>2. y < 1408000
      BY <1>2, <2>3, <3>1
    <3> QED BY <3>2 DEF y
  <2>7. CASE d >= 65
    <3>1. 64 * hz <= x
      BY <2>1, <2>7
    <3> HIDE DEF x, y
    <3> QED BY <1>2, <2>3, <3>1
  <2> QED BY <1>7, <2>4, <2>5, <2>6, <2>7
<1>9. q * (k * g) <= P
  <2> DEFINE x == k * g
  <2>1. x \in Nat /\ 5 * x <= 4 * hz
    BY <1>1, <1>4, <1>5
  <2> HIDE DEF x
  <2>2. 5 * (q * x) <= 4 * (q * hz)
    BY <1>2, <1>7, <2>1
  <2>3. q * x \in Nat /\ q * hz \in Nat
    BY <1>2, <1>7, <2>1
  <2>4. q * x <= P
    BY <1>8, <2>2, <2>3
  <2> QED BY <2>4 DEF x
<1>10. P \div q \in Nat /\ P \div q >= k * g
  BY <1>1, <1>4, <1>6, <1>7, <1>9, QuotientUp
<1>11. (P \div q) \div k >= g
  BY <1>1, <1>4, <1>10, QuotientUp
<1> QED BY <1>3, <1>11 DEF g
-----------------------------------------------------------------------------
(* The modes on offer do not change, and an SD card is always offered the  *)
(* default speed on one line.                                              *)
LEMMA OfferKept ==
  ASSUME UNCHANGED <<chip, no>>
  PROVE  Offered' = Offered /\ Wanted' = Wanted
<1>1. Offered' = Offered
  BY DEF Offered, SdCaps, MmcCaps
<1>2. Wanted' = Wanted
  BY DEF Wanted, Willing
<1> QED BY <1>1, <1>2

LEMMA AttemptAny ==
  ASSUME NEW caps, NEW mode \in {"SD_HS", "SD_LEGACY"}, NEW w \in {1, 4}
  PROVE  Attempt(caps, mode, w) \in Seq(AnyMode)
<1>1. [mode |-> mode, width |-> w] \in AnyMode
  BY DEF AnyMode, Modes, Width
<1> QED BY <1>1, AttemptSeq

LEMMA OfferedSeq == Offered \in Seq(AnyMode)
<1> DEFINE sdCaps == SdCaps([version |-> chip.version]) \cap HostCaps(no)
           mmcCaps == MmcCaps \cap HostCaps(no)
<1> HIDE DEF sdCaps, mmcCaps
<1>1. mmc_modes_by_pref(mmcCaps) \in Seq(AnyMode)
  BY MmcModesSeq, TodoKept
<1>2. sd_modes_by_pref(sdCaps) \in Seq(AnyMode)
  <2> QED BY AttemptAny DEF sd_modes_by_pref
<1> QED BY <1>1, <1>2 DEF Offered, sdCaps, mmcCaps

Default == [mode |-> "SD_LEGACY", width |-> 1]
LEMMA DefaultOffered ==
  ASSUME chip.kind = "sd", no \in Numbers
  PROVE  \E j \in 1 .. Len(Offered) : Offered[j] = Default
<1> DEFINE caps == SdCaps([version |-> chip.version]) \cap HostCaps(no)
           A == Attempt(caps, "SD_HS", 4)
           B == Attempt(caps, "SD_HS", 1)
           C == Attempt(caps, "SD_LEGACY", 4)
           D == Attempt(caps, "SD_LEGACY", 1)
<1>1. "SD_LEGACY" \in caps /\ "w1" \in caps
  BY DEF SdCaps, HostCaps
<1> HIDE DEF caps
<1>2. Offered = A \o B \o C \o D
  BY DEF Offered, sd_modes_by_pref, caps
<1>3. D = <<Default>>
  BY <1>1 DEF Attempt, Fits, Cap, is_ddr, Default
<1>5. A \in Seq(AnyMode) /\ B \in Seq(AnyMode) /\ C \in Seq(AnyMode)
  BY AttemptAny
<1> HIDE DEF A, B, C, D
<1> DEFINE E == A \o B \o C
<1>6. E \in Seq(AnyMode)
  BY <1>5
<1>7. Default \in AnyMode
  BY DEF Default, AnyMode, Modes, Width
<1> HIDE DEF E
<1>8. Offered = E \o <<Default>>
  BY <1>2, <1>3 DEF E
<1>9. Len(Offered) = Len(E) + 1 /\ Len(E) \in Nat /\ Offered[Len(E) + 1] = Default
  BY <1>6, <1>7, <1>8
<1> QED BY <1>9

(* Going through the modes. *)
LEMMA Begun ==
  ASSUME todo' = Offered, UNCHANGED <<chip, no>>
  PROVE  Passed'
<1>1. Offered' = Offered /\ todo' = Offered' /\ Offered' \in Seq(AnyMode)
  BY OfferKept, OfferedSeq
<1> DEFINE l == Offered'
<1> HIDE DEF l
<1>2. todo' = l /\ l = Offered' /\ l \in Seq(AnyMode)
  BY <1>1 DEF l
<1>3. Gone(0)'
  <2>1. Len(todo') = Len(l) - 0 /\ \A j \in 1 .. Len(todo') : todo'[j] = l[0 + j]
    BY <1>2
  <2> QED BY <1>2, <2>1 DEF Gone
<1>4. 0 \in 0 .. Len(Offered')
  BY <1>2
<1> QED BY <1>3, <1>4 DEF Passed

LEMMA OneMoreGone ==
  ASSUME todo \in Seq(AnyMode), Passed, todo # <<>>, Head(todo) \notin Wanted, todo' = Tail(todo), UNCHANGED <<chip, no>>
  PROVE  Passed'
<1>1. PICK i \in 0 .. Len(Offered) : Gone(i)
  BY DEF Passed
<1>2. Offered' = Offered /\ Offered \in Seq(AnyMode) /\ Wanted' = Wanted
  BY OfferKept, OfferedSeq
<1>3. Len(todo) \in Nat /\ Len(todo) > 0 /\ Len(todo') = Len(todo) - 1
      /\ (\A j \in 1 .. Len(todo') : todo'[j] = todo[j + 1]) /\ Head(todo) = todo[1]
  OBVIOUS
<1> DEFINE n == Len(Offered)
           f == Offered
           g == Offered'
<1>4. n \in Nat /\ i \in 0 .. n
  BY <1>1, <1>2
<1> HIDE DEF n, f, g
<1>5. Len(todo) = n - i /\ (\A j \in 1 .. Len(todo) : todo[j] = f[i + j]) /\ (\A j \in 1 .. i : f[j] \notin Wanted)
  BY <1>1, <1>2 DEF Gone, n, f
<1>6. f[i + 1] \notin Wanted
  <2>1. todo[1] = f[i + 1]
    BY <1>3, <1>4, <1>5
  <2> QED BY <1>2, <1>3, <2>1
<1>7. Len(todo') = n - (i + 1) /\ i + 1 \in 0 .. n
  BY <1>3, <1>4, <1>5
<1>8. \A j \in 1 .. Len(todo') : todo'[j] = f[i + 1 + j]
  <2> TAKE j \in 1 .. Len(todo')
  <2>1. j \in Int /\ j + 1 \in 1 .. Len(todo) /\ i \in Int
    BY <1>3, <1>4
  <2>2. todo'[j] = todo[j + 1] /\ todo[j + 1] = f[i + (j + 1)]
    BY <1>3, <1>5, <2>1
  <2>3. i + (j + 1) = i + 1 + j
    BY <2>1
  <2> QED BY <2>2, <2>3
<1>9. \A j \in 1 .. i + 1 : f[j] \notin Wanted
  <2>1. \A j \in 1 .. i + 1 : j \in 1 .. i \/ j = i + 1
    BY <1>4
  <2> QED BY <1>5, <1>6, <2>1
<1>10. f = g /\ n = Len(g)
  BY <1>2 DEF f, g, n
<1>11. Gone(i + 1)'
  BY <1>2, <1>7, <1>8, <1>9, <1>10 DEF Gone, g
<1> QED BY <1>7, <1>10, <1>11 DEF Passed, g

LEMMA AllGone ==
  ASSUME todo = <<>>, Passed, NEW j \in 1 .. Len(Offered)
  PROVE  Offered[j] \notin Wanted
<1>1. PICK i \in 0 .. Len(Offered) : Gone(i)
  BY DEF Passed
<1>2. Len(todo) = 0 /\ Len(Offered) \in Nat
  BY OfferedSeq
<1>3. Len(todo) = Len(Offered) - i /\ \A k \in 1 .. i : Offered[k] \notin Wanted
  BY <1>1 DEF Gone
<1>4. i = Len(Offered)
  BY <1>2, <1>3
<1> QED BY <1>3, <1>4

LEMMA HeadIsBest ==
  ASSUME todo \in Seq(AnyMode), todo # <<>>, Passed, Head(todo) \in Wanted, NEW k \in 1 .. Len(Offered), Best(k)
  PROVE  Offered[k] = Head(todo)
<1>1. PICK i \in 0 .. Len(Offered) : Gone(i)
  BY DEF Passed
<1> DEFINE n == Len(Offered)
           f == Offered
<1>2. n \in Nat /\ i \in 0 .. n /\ k \in 1 .. n
  BY OfferedSeq
<1> HIDE DEF n, f
<1>3. Len(todo) \in Nat /\ Len(todo) > 0 /\ Head(todo) = todo[1]
  OBVIOUS
<1>4. Len(todo) = n - i /\ (\A j \in 1 .. Len(todo) : todo[j] = f[i + j]) /\ (\A j \in 1 .. i : f[j] \notin Wanted)
  BY <1>1 DEF Gone, n, f
<1>5. Head(todo) = f[i + 1] /\ f[i + 1] \in Wanted
  BY <1>2, <1>3, <1>4
<1>6. f[k] \in Wanted /\ \A j \in 1 .. k - 1 : f[j] \notin Wanted
  <2>1. f[k] \in AnyMode
    BY OfferedSeq DEF f
  <2> QED BY <2>1 DEF Best, f, Wanted
<1>7. ~(k <= i) /\ ~(i + 1 <= k - 1)
  BY <1>2, <1>4, <1>5, <1>6
<1>8. k = i + 1
  BY <1>2, <1>7
<1> QED BY <1>5, <1>8 DEF f
-----------------------------------------------------------------------------
(* A step without a fault, and what it needs to establish before a mode is *)
(* tried.                                                                  *)
Healthy == MmcInv /\ Well /\ Conforming(chip) /\ faults = 0 /\ faults' = 0
Supported == Present /\ chip.rev <= 8 /\ chip.busy <= MaxPolls

LEMMA CleanIos ==
  ASSUME NEW m, SetIos(m), faults = 0, faults' = 0
  PROVE  host' = Regs(m) /\ mmc' = m
  BY DEF SetIos

LEMMA WellAsking ==
  ASSUME pc' \in Asking, Answers', ~mmc'.fatal, card'.width = 1, ~card'.ddr, host'.width = 1, ~host'.ddr,
         mmc'.mode \in {"MMC_LEGACY", "SD_LEGACY"}
  PROVE  Well'
<1>1. Untried'
  BY DEF Untried, InSwitch
<1>2. Refused' /\ Tried' /\ SdTried' /\ Came'
  BY DEF Refused, Tried, SdTried, Came, InSwitch, Searching
<1> QED BY <1>1, <1>2 DEF Well

LEMMA WellFailed ==
  ASSUME pc' = "failed", ~mmc'.fatal, ~Supported'
  PROVE  Well'
<1>1. Untried' /\ Answers'
  BY DEF Untried, InSwitch, Answers
<1>2. Refused' /\ Tried' /\ SdTried' /\ Came'
  BY DEF Refused, Tried, SdTried, Came, InSwitch, Searching, Supported
<1> QED BY <1>1, <1>2 DEF Well

LEMMA AskingFacts ==
  ASSUME Healthy, pc \in Asking
  PROVE  /\ ~mmc.fatal /\ card.width = 1 /\ ~card.ddr /\ host.width = 1 /\ ~host.ddr
         /\ mmc.mode \in {"MMC_LEGACY", "SD_LEGACY"} /\ card \in CardRec /\ mmc \in MmcRec /\ host \in HostRec /\ tries \in Nat /\ chip \in Chips /\ MaxPolls \in Nat
         /\ chip.kind \in {"none", "sd", "mmc"} /\ chip.busy \in Nat
<1>1. chip \in Chips /\ MaxPolls \in Nat /\ tries \in Tries
  BY MmcAssumption DEF Healthy, MmcInv, Records
<1>2. chip.kind \in {"none", "sd", "mmc"} /\ chip.busy \in Nat /\ tries \in Nat
  BY <1>1, MmcAssumption DEF Tries
<1>3. card \in CardRec /\ mmc \in MmcRec /\ host \in HostRec
  BY DEF Healthy, MmcInv, Records
<1>4. /\ ~mmc.fatal /\ card.width = 1 /\ ~card.ddr /\ host.width = 1 /\ ~host.ddr
      /\ mmc.mode \in {"MMC_LEGACY", "SD_LEGACY"}
  BY DEF Healthy, Well, Untried
<1> QED BY <1>1, <1>2, <1>3, <1>4

(* The card is asked what it is, with one line.                            *)
LEMMA StartWell == ASSUME Healthy, StartInit PROVE Well'
<1> DEFINE m == WithClock(WithWidth(SelectMode(mmc, "MMC_LEGACY"), 1), 0)
<1>1. pc = "start" /\ SetIos(m) /\ pc' = "go_idle" /\ UNCHANGED <<chip, card>>
  BY DEF StartInit, Goto, At
<1>2. m.width = 1 /\ m.mode = "MMC_LEGACY" /\ m.fatal = mmc.fatal
  BY <1>1, AskingFacts DEF WithClock, WithWidth, SelectMode, MmcRec
<1> HIDE DEF m
<1>3. host' = Regs(m) /\ mmc' = m
  BY <1>1, CleanIos DEF Healthy
<1>4. host'.width = 1 /\ ~host'.ddr
  BY <1>2, <1>3 DEF Regs, is_ddr
<1>5. Answers'
  BY <1>1 DEF Healthy, Well, Answers
<1> QED BY <1>1, <1>2, <1>3, <1>4, <1>5, AskingFacts, WellAsking

LEMMA GoIdleWell == ASSUME Healthy, mmc_go_idle PROVE Well'
<1>1. pc = "go_idle" /\ UNCHANGED <<chip, host, mmc>>
  BY DEF mmc_go_idle, send_cmd, Next1, Fail, Goto, At
<1>2. IF Present THEN pc' = "if_cond" /\ card' = Idle ELSE pc' = "failed"
  BY <1>1, AskingFacts DEF mmc_go_idle, send_cmd, Next1, Fail, Goto, Healthy
<1>3. CASE Present
  <2>1. card'.st = "idle" /\ card'.width = 1 /\ ~card'.ddr /\ card'.busy = card.busy
    BY <1>1, <1>2, <1>3, AskingFacts DEF Idle, CardRec
  <2>2. Answers'
    BY <1>1, <1>2, <1>3, <2>1 DEF Healthy, Well, Answers, Present
  <2> QED BY <1>1, <1>2, <1>3, <2>1, <2>2, AskingFacts, WellAsking
<1>4. CASE ~Present
  BY <1>1, <1>2, <1>4, AskingFacts, WellFailed DEF Supported, Present
<1> QED BY <1>3, <1>4

LEMMA IfCondWell == ASSUME Healthy, mmc_send_if_cond PROVE Well'
<1>1. pc = "if_cond" /\ pc' = "app_cmd" /\ tries' = 0 /\ UNCHANGED <<chip, host>>
  BY DEF mmc_send_if_cond, send_cmd, Next1, Goto, At
<1>2. /\ card' = Plain(card)
      /\ IF chip.kind = "sd" /\ chip.v2 /\ card.st = "idle" THEN mmc' = [mmc EXCEPT !.version = SD_VERSION_2] ELSE mmc' = mmc
  BY <1>1, AskingFacts DEF mmc_send_if_cond, send_cmd, Next1, Healthy
<1>3. card'.st = card.st /\ card'.width = 1 /\ ~card'.ddr /\ card'.busy = card.busy
  BY <1>1, <1>2, AskingFacts DEF Plain, CardRec
<1>4. /\ ~mmc'.fatal /\ mmc'.mode = mmc.mode
      /\ chip.kind = "sd" /\ chip.v2 /\ card.st = "idle" => mmc'.version = SD_VERSION_2
  BY <1>1, <1>2, AskingFacts DEF MmcRec
<1>5. card.busy = chip.busy /\ Present /\ card.st = "idle"
  BY <1>1 DEF Healthy, Well, Answers
<1>6. Answers'
  BY <1>1, <1>3, <1>4, <1>5, AskingFacts DEF Answers, Present
<1> QED BY <1>1, <1>3, <1>4, <1>6, AskingFacts, WellAsking

LEMMA AppCmdWell == ASSUME Healthy, SdAppCmd PROVE Well'
<1>1. pc = "app_cmd" /\ UNCHANGED <<chip, host, mmc>>
  BY DEF SdAppCmd, send_cmd, NotSd, Next1, Fail, Goto, At
<1>2. \/ chip.kind = "sd" /\ card' = [card EXCEPT !.app = TRUE] /\ pc' = "acmd41" /\ tries' = tries
      \/ chip.kind # "sd" /\ card' = Plain(card) /\ pc' = "mmc_idle"
  BY <1>1, AskingFacts DEF SdAppCmd, send_cmd, NotSd, Next1, Goto, Healthy
<1>3. card'.st = card.st /\ card'.width = 1 /\ ~card'.ddr /\ card'.busy = card.busy
  BY <1>1, <1>2, AskingFacts DEF Plain, CardRec
<1>4. pc' = "acmd41" => card'.app
  BY <1>1, <1>2, AskingFacts DEF CardRec
<1>5. /\ tries + card.busy <= chip.busy /\ Present /\ card.st = "idle"
      /\ chip.kind = "sd" /\ chip.v2 => mmc.version = SD_VERSION_2
  BY <1>1 DEF Healthy, Well, Answers
<1>6. card.busy \in Nat /\ card.busy <= chip.busy
  BY <1>1, <1>5, AskingFacts DEF CardRec
<1>7. pc' = "mmc_idle" => chip.kind = "mmc"
  BY <1>1, <1>2, <1>5, AskingFacts DEF Present
<1>8. Answers'
  BY <1>1, <1>2, <1>3, <1>4, <1>5, <1>6, <1>7 DEF Answers, Present
<1> QED BY <1>1, <1>2, <1>3, <1>8, AskingFacts, WellAsking

LEMMA OpCondWell == ASSUME Healthy, SdSendOpCond PROVE Well'
<1> DEFINE ReadyCard == [Plain(card) EXCEPT !.st = "ready"]
           BusyCard == [Plain(card) EXCEPT !.busy = IF @ = 0 THEN 0 ELSE @ - 1]
           m == [mmc EXCEPT !.version = IF HCS THEN @ ELSE SD_VERSION_1_0, !.high_capacity = chip.hc, !.rca = 0]
<1>1. pc = "acmd41"
  BY DEF SdSendOpCond, At
<1>2. /\ tries + card.busy <= chip.busy /\ Present /\ card.st = "idle" /\ chip.kind = "sd" /\ card.app
      /\ chip.v2 => mmc.version = SD_VERSION_2
  BY <1>1 DEF Healthy, Well, Answers
<1>3. /\ UNCHANGED <<chip, host>>
      /\ \/ SdReady /\ card' = ReadyCard /\ mmc' = m /\ Goto("all_send_cid")
         \/ ~SdReady /\ card' = BusyCard /\ Retry("app_cmd", MaxPolls)
  <2>1. chip.kind = "sd" /\ card.app /\ card.st = "idle" /\ ~mmc.fatal /\ ~(faults' = faults + 1)
    BY <1>1, <1>2, AskingFacts DEF Healthy
  <2> QED BY <2>1 DEF SdSendOpCond, send_cmd
<1>4. CASE SdReady
  <2>1. card' = ReadyCard /\ mmc' = m /\ pc' = "all_send_cid"
    BY <1>3, <1>4 DEF Goto
  <2>2. card'.st = "ready" /\ card'.width = 1 /\ ~card'.ddr
    BY <1>1, <2>1, AskingFacts DEF Plain, CardRec
  <2>3. ~mmc'.fatal /\ mmc'.mode = mmc.mode
    BY <1>1, <2>1, AskingFacts DEF MmcRec
  <2>4. Answers'
    BY <2>1, <2>2 DEF Answers
  <2> QED BY <1>1, <1>3, <2>1, <2>2, <2>3, <2>4, AskingFacts, WellAsking
<1>5. CASE ~SdReady
  <2>1. card.busy # 0
    BY <1>2, <1>5, AskingFacts DEF SdReady, HCS, Healthy, Conforming
  <2>2. card' = BusyCard /\ Retry("app_cmd", MaxPolls)
    BY <1>3, <1>5
  <2>3. card'.st = "idle" /\ card'.width = 1 /\ ~card'.ddr /\ card'.busy = card.busy - 1
    BY <1>1, <1>2, <2>1, <2>2, AskingFacts DEF Plain, CardRec
  <2>4. card.busy \in Nat /\ tries \in Nat /\ chip.busy \in Nat /\ MaxPolls \in Nat
    BY <1>1, AskingFacts DEF CardRec
  <2>5. CASE tries < MaxPolls
    <3>1. pc' = "app_cmd" /\ tries' = tries + 1 /\ mmc' = mmc
      BY <2>2, <2>5 DEF Retry
    <3>2. tries' + card'.busy <= chip.busy
      BY <1>2, <2>3, <2>4, <3>1
    <3>3. Answers'
      BY <1>2, <1>3, <2>3, <3>1, <3>2 DEF Answers, Present
    <3> QED BY <1>1, <1>3, <2>3, <3>1, <3>3, AskingFacts, WellAsking
  <2>6. CASE ~(tries < MaxPolls)
    <3>1. pc' = "failed" /\ mmc' = mmc
      BY <2>2, <2>6 DEF Retry
    <3>2. ~(chip.busy <= MaxPolls)
      BY <1>2, <2>1, <2>4, <2>6
    <3> QED BY <1>1, <1>3, <3>1, <3>2, AskingFacts, WellFailed DEF Supported
  <2> QED BY <2>5, <2>6
<1> QED BY <1>4, <1>5

LEMMA MmcIdleWell == ASSUME Healthy, mmc_send_op_cond PROVE Well'
<1>1. pc = "mmc_idle" /\ pc' = "cmd1" /\ UNCHANGED <<chip, host, mmc>>
  BY DEF mmc_send_op_cond, send_cmd, Next1, Goto, At
<1>2. card.busy <= chip.busy /\ Present /\ chip.kind = "mmc"
  BY <1>1 DEF Healthy, Well, Answers
<1>3. card' = Idle
  BY <1>1, <1>2, AskingFacts DEF mmc_send_op_cond, send_cmd, Healthy
<1>4. card'.st = "idle" /\ card'.width = 1 /\ ~card'.ddr /\ card'.busy = card.busy
  BY <1>1, <1>3, AskingFacts DEF Idle, CardRec
<1>5. Answers'
  BY <1>1, <1>2, <1>4 DEF Answers, Present
<1> QED BY <1>1, <1>4, <1>5, AskingFacts, WellAsking

(* CMD1 of an MMC that answers. *)
LEMMA Cmd1Well ==
  ASSUME card \in CardRec
  PROVE  /\ Cmd1Card.width = card.width /\ Cmd1Card.ddr = card.ddr
         /\ card.busy = 0 => Cmd1Card.st = "ready"
         /\ card.busy # 0 => Cmd1Card.st = card.st /\ Cmd1Card.busy = card.busy - 1
  BY DEF Cmd1Card, Plain, CardRec

LEMMA OpCondIterWell == ASSUME Healthy, mmc_send_op_cond_iter PROVE Well'
<1>1. pc = "cmd1"
  BY DEF mmc_send_op_cond_iter, At
<1>2. card.busy <= chip.busy /\ Present /\ chip.kind = "mmc" /\ card.st = "idle"
  BY <1>1 DEF Healthy, Well, Answers
<1>3. /\ card' = Cmd1Card /\ UNCHANGED <<chip, host, mmc>>
      /\ \/ card.busy = 0 /\ pc' = "op_cond_done"
         \/ card.busy # 0 /\ pc' \in {"cmd1", "complete_idle"}
  BY <1>1, <1>2, AskingFacts DEF mmc_send_op_cond_iter, Cmd1, Cmd1Card, send_cmd, Next1, Goto, Healthy
<1>4. /\ card'.width = 1 /\ ~card'.ddr /\ (card.busy = 0 => card'.st = "ready")
      /\ card.busy # 0 => card'.st = "idle" /\ card'.busy = card.busy - 1 /\ card'.busy <= chip.busy
  <2>1. card.busy \in Nat /\ chip.busy \in Nat
    BY <1>1, AskingFacts DEF CardRec
  <2> QED BY <1>1, <1>2, <1>3, <2>1, AskingFacts, Cmd1Well
<1>5. Answers'
  BY <1>2, <1>3, <1>4 DEF Answers, Present
<1> QED BY <1>1, <1>3, <1>4, <1>5, AskingFacts, WellAsking

LEMMA CompleteIdleWell == ASSUME Healthy, At("complete_idle"), mmc_complete_op_cond PROVE Well'
<1>1. pc = "complete_idle" /\ pc' = "complete" /\ tries' = 0 /\ UNCHANGED <<chip, host, mmc>>
  BY DEF mmc_complete_op_cond, send_cmd, Next1, Goto, At
<1>2. card.busy <= chip.busy /\ Present /\ chip.kind = "mmc"
  BY <1>1 DEF Healthy, Well, Answers
<1>3. card' = Idle
  BY <1>1, <1>2, AskingFacts DEF mmc_complete_op_cond, send_cmd, Healthy, At
<1>4. card'.st = "idle" /\ card'.width = 1 /\ ~card'.ddr /\ card'.busy = card.busy /\ card.busy \in Nat
  BY <1>1, <1>3, AskingFacts DEF Idle, CardRec
<1>5. Answers'
  BY <1>1, <1>2, <1>4 DEF Answers, Present
<1> QED BY <1>1, <1>4, <1>5, AskingFacts, WellAsking

LEMMA CompleteWell == ASSUME Healthy, At("complete"), mmc_complete_op_cond PROVE Well'
<1>1. pc = "complete"
  BY DEF At
<1>2. tries + card.busy <= chip.busy /\ Present /\ chip.kind = "mmc" /\ card.st = "idle"
  BY <1>1 DEF Healthy, Well, Answers
<1>3. /\ card' = Cmd1Card /\ UNCHANGED <<chip, host>>
      /\ IF card.busy = 0 THEN Next1("op_cond_done") ELSE Retry("complete", MaxPolls)
  <2>1. ~mmc.fatal /\ chip.kind = "mmc" /\ card.st \in {"idle", "ready"} /\ ~(faults' = faults + 1)
    BY <1>1, <1>2, AskingFacts DEF Healthy
  <2>2. Cmd1(IF card.busy = 0 THEN Next1("op_cond_done") ELSE Retry("complete", MaxPolls))
    BY <1>1 DEF mmc_complete_op_cond, At
  <2> QED BY <2>1, <2>2 DEF Cmd1, Cmd1Card, send_cmd
<1>4. card.busy \in Nat /\ tries \in Nat /\ chip.busy \in Nat /\ MaxPolls \in Nat
  BY <1>1, AskingFacts DEF CardRec
<1>5. /\ card'.width = 1 /\ ~card'.ddr /\ (card.busy = 0 => card'.st = "ready")
      /\ card.busy # 0 => card'.st = "idle" /\ card'.busy = card.busy - 1
  BY <1>1, <1>2, <1>3, AskingFacts, Cmd1Well
<1>6. CASE card.busy = 0
  <2>1. pc' = "op_cond_done" /\ mmc' = mmc
    BY <1>3, <1>6 DEF Next1, Goto
  <2>2. Answers'
    BY <1>2, <1>3, <1>5, <1>6, <2>1 DEF Answers, Present
  <2> QED BY <1>1, <1>3, <1>5, <2>1, <2>2, AskingFacts, WellAsking
<1>7. CASE card.busy # 0 /\ tries < MaxPolls
  <2>1. pc' = "complete" /\ tries' = tries + 1 /\ mmc' = mmc
    BY <1>3, <1>7 DEF Retry
  <2>2. tries' + card'.busy <= chip.busy
    BY <1>2, <1>4, <1>5, <1>7, <2>1
  <2>3. Answers'
    BY <1>2, <1>3, <1>5, <1>7, <2>1, <2>2 DEF Answers, Present
  <2> QED BY <1>1, <1>3, <1>5, <2>1, <2>3, AskingFacts, WellAsking
<1>8. CASE card.busy # 0 /\ ~(tries < MaxPolls)
  <2>1. pc' = "failed" /\ mmc' = mmc
    BY <1>3, <1>8 DEF Retry
  <2>2. ~(chip.busy <= MaxPolls)
    BY <1>2, <1>4, <1>8
  <2> QED BY <1>1, <1>3, <2>1, <2>2, AskingFacts, WellFailed DEF Supported
<1> QED BY <1>6, <1>7, <1>8

LEMMA OpCondDoneWell == ASSUME Healthy, OpCondDone PROVE Well'
<1> DEFINE m == [mmc EXCEPT !.version = 0, !.high_capacity = chip.hc, !.rca = 1]
<1>1. pc = "op_cond_done" /\ pc' = "all_send_cid" /\ mmc' = m /\ UNCHANGED <<chip, card, host>>
  BY DEF OpCondDone, Goto, At
<1>2. ~mmc'.fatal /\ mmc'.mode = mmc.mode
  BY <1>1, AskingFacts DEF MmcRec
<1>3. Answers'
  BY <1>1 DEF Healthy, Well, Answers
<1> QED BY <1>1, <1>2, <1>3, AskingFacts, WellAsking

LEMMA CidWell == ASSUME Healthy, SendCid PROVE Well'
<1>1. pc = "all_send_cid" /\ card.st = "ready"
  BY DEF SendCid, At, Healthy, Well, Answers
<1>2. pc' = "rca" /\ card' = [Plain(card) EXCEPT !.st = "ident"] /\ UNCHANGED <<chip, host, mmc>>
  BY <1>1, AskingFacts DEF SendCid, send_cmd, Next1, Goto, Healthy
<1>3. card'.st = "ident" /\ card'.width = 1 /\ ~card'.ddr
  BY <1>1, <1>2, AskingFacts DEF Plain, CardRec
<1>4. Answers'
  BY <1>2, <1>3 DEF Answers
<1> QED BY <1>1, <1>2, <1>3, <1>4, AskingFacts, WellAsking

LEMMA RcaWell == ASSUME Healthy, SendRelativeAddr PROVE Well'
<1> DEFINE rca == IF chip.kind = "sd" THEN chip.rca ELSE mmc.rca
           m == [mmc EXCEPT !.rca = IF IS_SD(mmc) THEN chip.rca ELSE @]
<1>1. pc = "rca" /\ card.st = "ident"
  BY DEF SendRelativeAddr, At, Healthy, Well, Answers
<1>2. pc' = "csd" /\ card' = [Plain(card) EXCEPT !.st = "stby", !.rca = rca] /\ mmc' = m /\ UNCHANGED <<chip, host>>
  BY <1>1, AskingFacts DEF SendRelativeAddr, send_cmd, Goto, Healthy
<1>3. card'.st = "stby" /\ card'.width = 1 /\ ~card'.ddr /\ card'.rca = rca
  BY <1>1, <1>2, AskingFacts DEF Plain, CardRec
<1>4. IS_SD(mmc) <=> chip.kind = "sd"
  BY <1>1 DEF Healthy, MmcInv, Identity
<1>5. ~mmc'.fatal /\ mmc'.mode = mmc.mode /\ mmc'.rca = rca
  BY <1>1, <1>2, <1>4, AskingFacts DEF MmcRec
<1>6. Answers'
  BY <1>2, <1>3, <1>5 DEF Answers, Addressed
<1> QED BY <1>1, <1>2, <1>3, <1>5, <1>6, AskingFacts, WellAsking

LEMMA CsdWell == ASSUME Healthy, SendCsd PROVE Well'
<1> DEFINE m == [mmc EXCEPT !.version = IF @ = 0 THEN chip.version ELSE @, !.legacy_speed = chip.speed,
                            !.capacity_user = CsdCapacity(mmc)]
<1>1. pc = "csd" /\ card.st = "stby" /\ Addressed
  BY DEF SendCsd, At, Healthy, Well, Answers
<1>2. pc' = "select" /\ card' = Plain(card) /\ mmc' = SelectMode(m, "MMC_LEGACY") /\ UNCHANGED <<chip, host>>
  BY <1>1, AskingFacts DEF SendCsd, send_cmd, Goto, Healthy
<1>3. card'.st = "stby" /\ card'.width = 1 /\ ~card'.ddr /\ card'.rca = card.rca
  BY <1>1, <1>2, AskingFacts DEF Plain, CardRec
<1>4. ~mmc'.fatal /\ mmc'.mode = "MMC_LEGACY" /\ mmc'.rca = mmc.rca
  BY <1>1, <1>2, AskingFacts DEF MmcRec, SelectMode
<1>5. Answers'
  BY <1>1, <1>2, <1>3, <1>4 DEF Answers, Addressed
<1> QED BY <1>1, <1>2, <1>3, <1>4, <1>5, AskingFacts, WellAsking

LEMMA SelectWell == ASSUME Healthy, SelectCard PROVE Well'
<1>1. pc = "select" /\ card.st = "stby" /\ Addressed
  BY DEF SelectCard, At, Healthy, Well, Answers
<1>2. /\ pc' \in {"scr_app", "old_mmc", "ext_csd"} /\ card' = [Plain(card) EXCEPT !.st = "tran"]
      /\ UNCHANGED <<chip, host, mmc>>
  BY <1>1, AskingFacts DEF SelectCard, send_cmd, Next1, Goto, Healthy
<1>3. card'.width = 1 /\ ~card'.ddr
  BY <1>1, <1>2, AskingFacts DEF Plain, CardRec
<1>4. Answers'
  BY <1>2 DEF Answers
<1> QED BY <1>1, <1>2, <1>3, <1>4, AskingFacts, WellAsking
-----------------------------------------------------------------------------
(* An eMMC looks for its mode. *)
Choosing == {"parts", "modes", "try", "switch", "switch_status"} \cup Trying
PlainMode == mmc.mode \in {"MMC_LEGACY", "SD_LEGACY"}
LEMMA WellChoosing ==
  ASSUME pc' \in Choosing, ~mmc'.fatal, Refused', Tried',
         pc' \in {"parts", "modes", "try", "wide", "timed"} \/ (InSwitch' /\ sub'.ret # "legacy") => PlainMode',
         InSwitch' /\ sub'.ret = "parts" => sub'.value = 1
  PROVE  Well'
<1>1. Untried'
  BY DEF Untried, Choosing, InSwitch, PlainMode
<1>2. Answers' /\ SdTried' /\ Came'
  BY DEF Choosing, Answers, SdTried, Came
<1> QED BY <1>1, <1>2 DEF Well

LEMMA PassedKept ==
  ASSUME UNCHANGED <<chip, no, todo>>
  PROVE  Passed' = Passed /\ Wanted' = Wanted
<1>1. Offered' = Offered /\ Wanted' = Wanted
  BY OfferKept
<1>2. todo' = todo
  OBVIOUS
<1>3. Passed' = Passed
  BY <1>1, <1>2 DEF Passed, Gone
<1> QED BY <1>1, <1>3

LEMMA ChoosingFacts ==
  ASSUME Healthy, pc \in Choosing \cup {"ext_csd", "old_mmc"}
  PROVE  /\ ~mmc.fatal /\ card \in CardRec /\ mmc \in MmcRec /\ host \in HostRec /\ chip \in Chips /\ sub \in SubRec
         /\ Selected /\ chip.kind = "mmc" /\ todo \in Seq(MmcTodo) /\ todo \in Seq(AnyMode)
         /\ pc \in Trying => todo # <<>>
         /\ mmc.width # 0 /\ mmc.legacy_speed = chip.speed
<1>1. pc \in InMmc
  BY DEF Choosing
<1>2. ~mmc.fatal
  BY DEF Healthy, Well, Untried
<1>3. Selected
  BY <1>1, MmcFacts DEF Healthy, Selected, Addressed
<1>4. todo \in Seq(MmcTodo)
  BY <1>1, MmcFacts DEF Healthy
<1>5. todo \in Seq(AnyMode)
  BY <1>4, TodoFacts, TodoKept
<1> QED BY <1>1, <1>2, <1>3, <1>4, <1>5, MmcFacts DEF Healthy

(* What it takes of an eMMC to be willing. *)
LEMMA MmcWanted ==
  ASSUME todo \in Seq(MmcTodo), todo # <<>>, chip.kind = "mmc"
  PROVE  /\ Head(todo) \in AnyMode /\ MmcMode(Head(todo)) /\ Head(todo).width \in Width
         /\ Fast(Head(todo)) = (IF Legacy THEN 0 ELSE 1)
         /\ Head(todo) \in Wanted <=>
              Head(todo).width <= chip.wires /\ Can("width", Head(todo).width) /\ Fastened
<1>1. Head(todo) \in MmcTodo
  BY TodoFacts, TodoKept
<1> DEFINE a == Head(todo)
<1>2. a \in AnyMode /\ MmcMode(a) /\ a.width \in Width
  BY <1>1 DEF MmcTodo, AnyMode
<1>3. Fast(a) = (IF Legacy THEN 0 ELSE 1)
  BY <1>2 DEF Fast, MmcMode, Legacy
<1>4. a \in Wanted <=> a.width <= chip.wires /\ Can("width", a.width) /\ Fastened
  BY <1>2 DEF Wanted, Willing, Can, Fastened
<1> QED BY <1>2, <1>3, <1>4

LEMMA ExtCsdWell == ASSUME Healthy, mmc_startup_v4 PROVE Well'
<1> DEFINE v == MMC_VERSION_4 + chip.rev
           m == [mmc EXCEPT !.version = v, !.ext_csd = TRUE, !.capacity_user = ExtCapacity(mmc, v)]
<1>1. pc = "ext_csd"
  BY DEF mmc_startup_v4, At
<1>2. Agree
  <2>1. 1 <= chip.wires
    BY <1>1, AskingFacts, MmcAssumption
  <2>2. card.ddr = host.ddr
    BY <1>1, AskingFacts DEF CardRec, HostRec
  <2> QED BY <1>1, <2>1, <2>2, AskingFacts DEF Agree
<1>3. /\ UNCHANGED <<chip, host>>
      /\ \/ chip.rev > 8 /\ pc' = "failed" /\ mmc' = mmc
         \/ ~(chip.rev > 8) /\ mmc' = m
            /\ \/ pc' = "switch" /\ sub' = [index |-> "erase_group", value |-> 1, ret |-> "parts", else |-> "failed"]
               \/ pc' = "modes"
  BY <1>1, <1>2, ChoosingFacts DEF mmc_startup_v4, mmc_send_ext_csd, send_cmd, Fail, Goto, Healthy
<1>4. CASE chip.rev > 8
  <2>1. chip.rev \in Nat
    BY <1>1, AskingFacts, MmcAssumption
  <2>2. ~(chip.rev <= 8)
    BY <1>4, <2>1
  <2> QED BY <1>1, <1>3, <1>4, <2>2, AskingFacts, WellFailed DEF Supported
<1>5. CASE ~(chip.rev > 8)
  <2>1. ~mmc'.fatal /\ mmc'.mode = mmc.mode
    BY <1>1, <1>3, <1>5, AskingFacts DEF MmcRec
  <2>2. pc' \in {"switch", "modes"} /\ (pc' = "switch" => sub'.ret = "parts" /\ sub'.value = 1)
    BY <1>3, <1>5
  <2>3. Refused' /\ Tried'
    BY <2>2 DEF Refused, Tried, InSwitch, Searching
  <2> QED BY <1>1, <2>1, <2>2, <2>3, AskingFacts, WellChoosing DEF Choosing, PlainMode, InSwitch
<1> QED BY <1>4, <1>5

LEMMA PartsWell == ASSUME Healthy, StartupParts PROVE Well'
<1> DEFINE m == [mmc EXCEPT !.capacity_user = IF mmc.high_capacity /\ chip.completed THEN chip.sectors ELSE @]
<1>1. pc = "parts" /\ pc' = "modes" /\ mmc' = m
  BY DEF StartupParts, Goto, At
<1>2. mmc \in MmcRec /\ ~mmc.fatal
  BY <1>1, ChoosingFacts DEF Choosing
<1>3. ~mmc'.fatal /\ mmc'.mode = mmc.mode
  BY <1>1, <1>2 DEF MmcRec
<1>4. PlainMode
  BY <1>1 DEF Healthy, Well, Untried, PlainMode
<1>5. Refused' /\ Tried'
  BY <1>1 DEF Refused, Tried, InSwitch, Searching
<1> QED BY <1>1, <1>3, <1>4, <1>5, WellChoosing DEF Choosing, PlainMode, InSwitch

LEMMA ModesWell == ASSUME Healthy, MmcModes PROVE Well'
<1> DEFINE m == WithClock(mmc, mmc.legacy_speed)
<1>1. pc = "modes" /\ pc' = "try" /\ SetIos(m) /\ todo' = mmc_modes_by_pref(MmcCaps \cap HostCaps(no)) /\ UNCHANGED <<chip, no>>
  BY DEF MmcModes, At
<1>2. mmc \in MmcRec /\ ~mmc.fatal /\ chip.kind = "mmc"
  BY <1>1, ChoosingFacts DEF Choosing
<1>3. ~m.fatal /\ m.mode = mmc.mode
  BY <1>2 DEF WithClock, MmcRec
<1> HIDE DEF m
<1>4. mmc' = m
  BY <1>1, CleanIos DEF Healthy
<1>5. PlainMode
  BY <1>1 DEF Healthy, Well, Untried, PlainMode
<1>6. Passed'
  <2>1. todo' = Offered
    BY <1>1, <1>2 DEF Offered
  <2> QED BY <1>1, <2>1, Begun
<1>7. Refused' /\ Tried'
  BY <1>1, <1>6 DEF Refused, Tried, InSwitch, Searching
<1> QED BY <1>1, <1>3, <1>4, <1>5, <1>7, WellChoosing DEF Choosing, PlainMode, InSwitch

(* The end of the search. *)
LEMMA WellEnd ==
  ASSUME pc' \in Ends, ~mmc'.fatal, chip'.version >= MMC_VERSION_4 => BestModeFound'
  PROVE  Well'
<1>1. Untried' /\ Answers'
  BY DEF Untried, InSwitch, Answers
<1>2. Refused' /\ Tried' /\ SdTried' /\ Came'
  BY DEF Refused, Tried, SdTried, Came, InSwitch, Searching
<1> QED BY <1>1, <1>2 DEF Well

BestInWanted ==
  \A i \in 1 .. Len(Offered) :
    Best(i) <=> Offered[i] \in Wanted /\ \A j \in 1 .. i - 1 : Offered[j] \notin Wanted
LEMMA BestsWanted == BestInWanted
<1> DEFINE f == Offered
           n == Len(f)
<1>1. f \in Seq(AnyMode) /\ n \in Nat
  BY OfferedSeq
<1>2. \A i \in 1 .. n : f[i] \in AnyMode
  BY <1>1
<1> HIDE DEF f, n
<1>3. \A i \in 1 .. n : f[i] \in Wanted <=> Willing(f[i])
  BY <1>2 DEF Wanted
<1>4. \A i \in 1 .. n : \A j \in 1 .. i - 1 : j \in 1 .. n
  BY <1>1 DEF n
<1> QED BY <1>3, <1>4 DEF BestInWanted, Best, f, n

LEMMA BestStays ==
  ASSUME UNCHANGED <<chip, no>>
  PROVE  \A i \in 1 .. Len(Offered) : Best(i)' <=> Best(i)
<1>1. BestInWanted'
  BY BestsWanted, PTL
<1>2. Offered' = Offered /\ Wanted' = Wanted
  BY OfferKept
<1> QED BY <1>1, <1>2, BestsWanted DEF BestInWanted

LEMMA FoundNone ==
  ASSUME UNCHANGED <<chip, no>>, todo = <<>>, Passed
  PROVE  BestModeFound'
<1>1. \A i \in 1 .. Len(Offered) : ~Best(i)'
  <2> TAKE i \in 1 .. Len(Offered)
  <2>1. Offered[i] \notin Wanted
    BY AllGone
  <2> QED BY <2>1, BestStays, BestsWanted DEF BestInWanted
<1>2. Offered' = Offered
  BY OfferKept
<1> QED BY <1>1, <1>2 DEF BestModeFound

LEMMA FoundHead ==
  ASSUME UNCHANGED <<chip, no>>, todo \in Seq(AnyMode), todo # <<>>, Passed, Head(todo) \in Wanted,
         mmc'.verified, mmc'.mode = Head(todo).mode, mmc'.width = Head(todo).width,
         host'.clock >= (ClampClock(mmc'.tran_speed) * 4) \div 5
  PROVE  BestModeFound'
<1>1. Offered' = Offered
  BY OfferKept
<1>2. \A i \in 1 .. Len(Offered) : Best(i)' => Offered[i] = Head(todo)
  BY BestStays, HeadIsBest
<1> DEFINE c == (ClampClock(mmc'.tran_speed) * 4) \div 5
<1>3. host'.clock >= c
  OBVIOUS
<1> HIDE DEF c
<1>4. \A i \in 1 .. Len(Offered') : Best(i)' =>
        mmc'.verified /\ mmc'.mode = Offered'[i].mode /\ mmc'.width = Offered'[i].width /\ host'.clock >= c
  BY <1>1, <1>2, <1>3
<1> QED BY <1>4 DEF BestModeFound, c

(* The clock set for a mode. *)
LEMMA ModeClock ==
  ASSUME NEW m \in MmcRec, NEW mode \in Modes, mmc_mode2freq(m, mode) > 12000
  PROVE  LET n == SelectMode(m, mode)
         IN  Regs(WithClock(n, n.tran_speed)).clock >= (ClampClock(n.tran_speed) * 4) \div 5
<1> DEFINE n == SelectMode(m, mode)
           f == mmc_mode2freq(m, mode)
           k == ClampClock(f)
<1>1. n.tran_speed = f /\ n.mode = mode /\ f \in Nat /\ n \in MmcRec
  <2>1. 1 \in Width /\ 0 \in Nat
    BY DEF Width
  <2>2. n \in MmcRec /\ f \in Nat
    BY <2>1, ModeRecords
  <2>3. n.tran_speed = f /\ n.mode = mode
    BY DEF SelectMode, MmcRec
  <2> QED BY <2>2, <2>3
<1>2. k \in Nat /\ k > 12000 /\ k <= 52000
  <2> HIDE DEF f
  <2>1. f \in Nat /\ f > 12000
    BY <1>1 DEF f
  <2> QED BY <2>1 DEF k, ClampClock, f_max, f_min
<1>3. WithClock(n, n.tran_speed).clock = k /\ WithClock(n, n.tran_speed).mode = mode
  BY <1>1 DEF WithClock, MmcRec
<1> HIDE DEF k, n, f
<1> DEFINE ddr == is_ddr(mode)
<1>4. ddr \in BOOLEAN
  BY DEF is_ddr
<1> HIDE DEF ddr
<1>5. ModClk(ddr, k).rate >= (k * 4) \div 5
  BY <1>2, <1>4, ClockFloor
<1>6. Regs(WithClock(n, n.tran_speed)).clock = ModClk(ddr, k).rate
  BY <1>2, <1>3 DEF Regs, ddr
<1>7. ClampClock(n.tran_speed) = k
  BY <1>1 DEF k
<1> QED BY <1>5, <1>6, <1>7 DEF n

(* __mmc_switch() without a fault: the switch, and then its status. *)
LEMMA SwitchedBus ==
  ASSUME card \in CardRec
  PROVE  /\ ~Can(sub.index, sub.value) \/ sub.index \notin {"width", "ddr"} =>
              Switched(card).width = card.width /\ Switched(card).ddr = card.ddr
         /\ Can(sub.index, sub.value) /\ sub.index \in {"width", "ddr"} =>
              Switched(card).width = sub.value /\ (Switched(card).ddr <=> sub.index = "ddr")
<1>1. CASE ~Can(sub.index, sub.value) \/ sub.index \notin {"width", "ddr", "hs"}
  <2>1. Switched(card) = Plain(card)
    BY <1>1 DEF Switched, Can
  <2> QED BY <1>1, <2>1 DEF Plain, CardRec
<1>2. CASE Can(sub.index, sub.value) /\ sub.index \in {"width", "ddr"}
  <2>1. Switched(card) = [Plain(card) EXCEPT !.width = sub.value, !.ddr = (sub.index = "ddr")]
    BY <1>2 DEF Switched, Can
  <2> QED BY <1>2, <2>1 DEF Plain, CardRec
<1>3. CASE Can(sub.index, sub.value) /\ sub.index = "hs"
  <2>1. Switched(card) = [Plain(card) EXCEPT !.hs = (sub.value = 1)]
    BY <1>3 DEF Switched, Can
  <2> QED BY <1>3, <2>1 DEF Plain, CardRec
<1> QED BY <1>1, <1>2, <1>3

LEMMA SwitchWell == ASSUME Healthy, At("switch"), __mmc_switch PROVE Well'
<1>1. pc = "switch"
  BY DEF At
<1>2. pc' = "switch_status" /\ card' = Switched(card) /\ UNCHANGED <<chip, no, host, mmc, todo, sub>>
  BY <1>1, ChoosingFacts DEF Choosing, __mmc_switch, send_cmd, Next1, Goto, Healthy, At
<1>3. ~mmc'.fatal /\ (sub'.ret # "legacy" => PlainMode') /\ (sub'.ret = "parts" => sub'.value = 1)
  BY <1>1, <1>2 DEF Healthy, Well, Untried, PlainMode, InSwitch
<1>4. Refused'
  BY <1>1, <1>2, PassedKept DEF Healthy, Well, Refused, InSwitch, Searching
<1>5. /\ sub.ret = "wide" => sub.index = "width"
      /\ sub.ret = "timed" => sub.index = "hs"
      /\ sub.ret = "clock" => sub.index = "ddr"
  BY <1>1 DEF Healthy, MmcInv, Switching
<1>6. /\ card \in CardRec
      /\ sub.ret = "wide" => sub.value = Head(todo).width
      /\ sub.ret = "timed" => BothWide /\ ~card.ddr /\ ~host.ddr
      /\ sub.ret = "clock" => /\ BothWide /\ is_ddr(Head(todo).mode) /\ Can("hs", Fast(Head(todo)))
                              /\ sub.value = Head(todo).width
  BY <1>1, ChoosingFacts DEF Choosing, Healthy, Well, Tried, InSwitch
<1>7. /\ sub.ret = "wide" /\ Can("width", Head(todo).width) => card'.width = Head(todo).width /\ ~card'.ddr
      /\ sub.ret = "timed" => card'.width = card.width /\ card'.ddr = card.ddr
      /\ sub.ret = "clock" => card'.width = Head(todo).width /\ (Can("ddr", Head(todo).width) => card'.ddr)
  BY <1>2, <1>5, <1>6, SwitchedBus DEF BothWide, Wide
<1>8. Tried'
  BY <1>2, <1>6, <1>7 DEF Tried, BothWide, Wide, Can, InSwitch
<1> QED BY <1>2, <1>3, <1>4, <1>8, WellChoosing DEF Choosing, InSwitch

LEMMA StatusWell == ASSUME Healthy, At("switch_status"), __mmc_switch PROVE Well'
<1>1. pc = "switch_status"
  BY DEF At
<1>2. /\ card' = Plain(card) /\ UNCHANGED <<chip, no, host, mmc, todo, sub>>
      /\ pc' = (IF Can(sub.index, sub.value) THEN sub.ret ELSE sub.else)
  BY <1>1, ChoosingFacts DEF Choosing, __mmc_switch, mmc_send_status, send_cmd, SubFails, Healthy, At, Can
<1>3. card'.width = card.width /\ card'.ddr = card.ddr
  BY <1>1, <1>2, ChoosingFacts DEF Choosing, Plain, CardRec
<1>4. ~mmc'.fatal /\ (sub.ret # "legacy" => PlainMode')
  BY <1>1, <1>2 DEF Healthy, Well, Untried, PlainMode, InSwitch
<1>5. sub.ret # "parts" => Passed' /\ Wanted' = Wanted
  BY <1>1, <1>2, PassedKept DEF Healthy, Well, Refused, InSwitch
<1>6. CASE sub.ret = "parts"
  <2>1. sub.index = "erase_group" /\ sub.value = 1
    BY <1>1, <1>6 DEF Healthy, MmcInv, Switching, Well, Untried, InSwitch
  <2>2. pc' = "parts"
    BY <1>2, <1>6, <2>1 DEF Healthy, Conforming, Can
  <2>3. Refused' /\ Tried'
    BY <2>2 DEF Refused, Tried, InSwitch, Searching
  <2> QED BY <1>4, <1>6, <2>2, <2>3, WellChoosing DEF Choosing, InSwitch
<1>7. sub.ret # "parts" => /\ todo \in Seq(MmcTodo) /\ todo # <<>> /\ chip.kind = "mmc"
  BY <1>1, ChoosingFacts DEF Choosing, Healthy, MmcInv, Switching
<1>8. CASE sub.ret = "wide"
  <2>1. sub.index = "width" /\ sub.else = "undo" /\ sub.value = Head(todo).width
    BY <1>1, <1>8 DEF Healthy, MmcInv, Switching, Well, Tried, InSwitch
  <2>2. pc' = "undo" => Head(todo) \notin Wanted
    BY <1>2, <1>7, <1>8, <2>1, MmcWanted
  <2>3. pc' \in {"wide", "undo"} /\ (pc' = "wide" => Wide /\ ~card.ddr)
    BY <1>1, <1>2, <1>8, <2>1 DEF Healthy, Well, Tried, InSwitch
  <2>4. Refused'
    BY <1>2, <1>5, <1>8, <2>2, <2>3 DEF Refused, InSwitch, Searching
  <2>5. Tried'
    BY <1>2, <1>3, <2>3 DEF Tried, Wide, Can, InSwitch
  <2> QED BY <1>4, <1>8, <2>3, <2>4, <2>5, WellChoosing DEF Choosing, InSwitch
<1>9. CASE sub.ret = "timed"
  <2>1. sub.index = "hs" /\ sub.else = "undo" /\ sub.value = Fast(Head(todo))
    BY <1>1, <1>7, <1>9, MmcWanted DEF Healthy, MmcInv, Switching
  <2>2. pc' = "undo" => Head(todo) \notin Wanted
    BY <1>2, <1>7, <1>9, <2>1, MmcWanted DEF Fastened
  <2>3. pc' \in {"timed", "undo"} /\ BothWide /\ ~card.ddr /\ ~host.ddr /\ (pc' = "timed" => Can("hs", Fast(Head(todo))))
    BY <1>1, <1>2, <1>9, <2>1 DEF Healthy, Well, Tried, InSwitch
  <2>4. Refused'
    BY <1>2, <1>5, <1>9, <2>2, <2>3 DEF Refused, InSwitch, Searching
  <2>5. Tried'
    BY <1>2, <1>3, <2>3 DEF Tried, BothWide, Wide, Can, InSwitch
  <2> QED BY <1>4, <1>9, <2>3, <2>4, <2>5, WellChoosing DEF Choosing, InSwitch
<1>10. CASE sub.ret = "clock"
  <2>1. sub.index = "ddr" /\ sub.else = "undo" /\ sub.value = Head(todo).width /\ is_ddr(Head(todo).mode)
    BY <1>1, <1>10 DEF Healthy, MmcInv, Switching, Well, Tried, InSwitch
  <2>2. pc' = "undo" => Head(todo) \notin Wanted
    BY <1>2, <1>7, <1>10, <2>1, MmcWanted DEF Fastened
  <2>3. pc' \in {"clock", "undo"} /\ (pc' = "clock" => BothWide /\ Fastened /\ card.ddr)
    BY <1>1, <1>2, <1>10, <2>1 DEF Healthy, Well, Tried, InSwitch, Fastened
  <2>4. Refused'
    BY <1>2, <1>5, <1>10, <2>2, <2>3 DEF Refused, InSwitch, Searching
  <2>5. Tried'
    BY <1>2, <1>3, <2>1, <2>3 DEF Tried, BothWide, Wide, Can, Fastened, InSwitch
  <2> QED BY <1>4, <1>10, <2>3, <2>4, <2>5, WellChoosing DEF Choosing, InSwitch
<1>11. CASE sub.ret = "legacy"
  <2>1. pc' = "legacy" /\ Head(todo) \notin Wanted
    BY <1>1, <1>2, <1>11 DEF Healthy, MmcInv, Switching, Well, Refused, InSwitch
  <2>2. Refused' /\ Tried'
    BY <1>2, <1>5, <1>11, <2>1 DEF Refused, Tried, InSwitch, Searching
  <2> QED BY <1>4, <1>11, <2>1, <2>2, WellChoosing DEF Choosing, InSwitch
<1>12. sub.ret \in {"parts", "wide", "timed", "clock", "legacy"}
  BY <1>1 DEF Healthy, MmcInv, Switching
<1> QED BY <1>6, <1>8, <1>9, <1>10, <1>11, <1>12

LEMMA TryWell == ASSUME Healthy, MmcTry PROVE Well'
<1>1. pc = "try" /\ UNCHANGED <<chip, no, card, host, mmc, todo>>
  BY DEF MmcTry, At
<1>2. ~mmc'.fatal /\ PlainMode' /\ Passed /\ Passed'
  BY <1>1, PassedKept DEF Healthy, Well, Untried, PlainMode, Refused, Searching
<1>3. CASE todo = <<>>
  <2>1. pc' = "finish"
    BY <1>3 DEF MmcTry
  <2> QED BY <1>1, <1>2, <1>3, <2>1, FoundNone, WellEnd
<1>4. CASE todo # <<>>
  <2>1. pc' = "switch" /\ sub' = [index |-> "width", value |-> Head(todo).width, ret |-> "wide", else |-> "undo"]
    BY <1>4 DEF MmcTry, Switch
  <2>2. sub'.ret = "wide" /\ sub'.value = Head(todo').width
    BY <1>1, <2>1
  <2>3. Refused' /\ Tried'
    BY <1>2, <2>1, <2>2 DEF Refused, Tried, InSwitch, Searching
  <2> QED BY <1>2, <2>1, <2>2, <2>3, WellChoosing DEF Choosing, InSwitch
<1> QED BY <1>3, <1>4

LEMMA WideWell == ASSUME Healthy, MmcWide PROVE Well'
<1> DEFINE m == WithWidth(mmc, Head(todo).width)
           v == IF Head(todo).mode = "MMC_LEGACY" THEN 0 ELSE 1
<1>1. pc = "wide" /\ SetIos(m) /\ Switch("hs", v, "timed", "undo") /\ UNCHANGED <<chip, no, card, todo>>
  BY DEF MmcWide, At
<1>2. mmc \in MmcRec /\ ~mmc.fatal /\ PlainMode /\ Passed' /\ Wide /\ ~card.ddr
  BY <1>1, ChoosingFacts, PassedKept DEF Choosing, Healthy, Well, Untried, PlainMode, Refused, Searching, Tried
<1>3. ~m.fatal /\ m.mode = mmc.mode /\ m.width = Head(todo).width
  BY <1>2 DEF WithWidth, MmcRec
<1> HIDE DEF m
<1>4. mmc' = m /\ host' = Regs(m)
  BY <1>1, CleanIos DEF Healthy
<1>5. host'.width = Head(todo).width /\ ~host'.ddr
  BY <1>2, <1>3, <1>4 DEF Regs, PlainMode, is_ddr
<1>6. pc' = "switch" /\ sub'.ret = "timed"
  BY <1>1 DEF Switch
<1>7. Refused'
  BY <1>2, <1>6 DEF Refused, InSwitch, Searching
<1>8. Tried'
  BY <1>1, <1>2, <1>3, <1>4, <1>5, <1>6 DEF Tried, BothWide, Wide, Can, InSwitch
<1> QED BY <1>2, <1>3, <1>4, <1>6, <1>7, <1>8, WellChoosing DEF Choosing, InSwitch, PlainMode

(* The bus as the card sees it: enough lines. *)
LEMMA AgreeWide ==
  ASSUME BothWide, card \in CardRec, host \in HostRec, ~card.ddr, ~host.ddr
  PROVE  Agree <=> Head(todo).width <= chip.wires
<1>1. card.ddr = host.ddr
  BY DEF CardRec, HostRec
<1> QED BY <1>1 DEF Agree, BothWide, Wide

LEMMA TimedWell == ASSUME Healthy, MmcTimed PROVE Well'
<1>1. pc = "timed" /\ UNCHANGED <<chip, no, host, mmc, todo>>
  BY DEF MmcTimed, mmc_send_ext_csd, send_cmd, Next1, Goto, At
<1>2. /\ card \in CardRec /\ host \in HostRec /\ ~mmc.fatal /\ Selected /\ chip.kind = "mmc"
      /\ todo \in Seq(MmcTodo) /\ todo # <<>>
  BY <1>1, ChoosingFacts DEF Choosing
<1>3. /\ PlainMode /\ PlainMode' /\ Passed' /\ Wanted' = Wanted
      /\ BothWide /\ ~card.ddr /\ ~host.ddr /\ Can("hs", Fast(Head(todo)))
  BY <1>1, PassedKept DEF Choosing, Healthy, Well, Untried, PlainMode, Refused, Searching, Tried
<1>4. MmcMode(Head(todo)) /\ (card.hs <=> ~Legacy)
      /\ (Head(todo) \in Wanted <=> Head(todo).width <= chip.wires /\ Can("width", Head(todo).width) /\ Fastened)
  BY <1>1, <1>2, MmcWanted DEF Healthy, MmcInv, Bus
<1>5. CASE is_ddr(Head(todo).mode)
  <2>1. card' = card /\ pc' = "switch"
        /\ sub' = [index |-> "ddr", value |-> Head(todo).width, ret |-> "clock", else |-> "undo"]
    BY <1>1, <1>5 DEF MmcTimed, Switch, is_ddr
  <2>2. Refused'
    BY <1>3, <2>1 DEF Refused, InSwitch, Searching
  <2>3. sub'.ret = "clock" /\ sub'.value = Head(todo').width
    BY <1>1, <2>1
  <2>4. Tried'
    BY <1>1, <1>3, <1>5, <2>1, <2>3 DEF Tried, BothWide, Wide, Can, InSwitch
  <2> QED BY <1>1, <1>2, <1>3, <2>1, <2>2, <2>3, <2>4, WellChoosing DEF Choosing, InSwitch
<1>6. CASE ~is_ddr(Head(todo).mode)
  <2>1. /\ pc' \in {"clock", "undo"} /\ card' \in {card, Plain(card)}
        /\ pc' = "undo" => ~Legacy /\ ~(Agree /\ card.hs)
    BY <1>1, <1>2, <1>6 DEF MmcTimed, mmc_send_ext_csd, send_cmd, Next1, Goto, Legacy, Healthy
  <2>2. card'.width = card.width /\ card'.ddr = card.ddr
    BY <1>2, <2>1 DEF Plain, CardRec
  <2>3. pc' = "undo" => Head(todo) \notin Wanted
    BY <1>2, <1>3, <1>4, <2>1, AgreeWide
  <2>4. Refused'
    BY <1>1, <1>3, <2>1, <2>3 DEF Refused, InSwitch, Searching
  <2>5. Tried'
    BY <1>1, <1>3, <1>6, <2>1, <2>2 DEF Tried, BothWide, Wide, Can, Fastened, InSwitch
  <2> QED BY <1>1, <1>2, <1>3, <2>1, <2>4, <2>5, WellChoosing DEF Choosing, InSwitch
<1> QED BY <1>5, <1>6

LEMMA ClockWell == ASSUME Healthy, MmcClock PROVE Well'
<1> DEFINE n == SelectMode(mmc, Head(todo).mode)
           m == WithClock(n, n.tran_speed)
<1>1. pc = "clock" /\ pc' = "compare" /\ SetIos(m) /\ UNCHANGED <<chip, no, card, todo>>
  BY DEF MmcClock, Goto, At
<1>2. /\ card \in CardRec /\ mmc \in MmcRec /\ ~mmc.fatal /\ chip.kind = "mmc" /\ mmc.legacy_speed = chip.speed
      /\ todo \in Seq(MmcTodo) /\ todo # <<>>
  BY <1>1, ChoosingFacts DEF Choosing
<1>3. Passed' /\ BothWide /\ Fastened /\ (card.ddr <=> is_ddr(Head(todo).mode))
  BY <1>1, PassedKept DEF Choosing, Healthy, Well, Refused, Searching, Tried
<1>4. MmcMode(Head(todo)) /\ Head(todo).mode \in Modes
  BY <1>2, MmcWanted DEF AnyMode
<1>5. mmc_mode2freq(mmc, Head(todo).mode) > 12000
  <2>1. chip.speed > 12000
    BY <1>2 DEF Healthy, Conforming
  <2> QED BY <1>2, <1>4, <2>1 DEF mmc_mode2freq, MmcMode
<1>6. /\ m.mode = Head(todo).mode /\ m.width = mmc.width /\ ~m.fatal /\ m.tran_speed = n.tran_speed
      /\ Regs(m).clock >= (ClampClock(n.tran_speed) * 4) \div 5
  <2>1. m.mode = Head(todo).mode /\ m.width = mmc.width /\ ~m.fatal /\ m.tran_speed = n.tran_speed
    BY <1>2 DEF WithClock, SelectMode, MmcRec
  <2>2. Regs(m).clock >= (ClampClock(n.tran_speed) * 4) \div 5
    BY <1>2, <1>4, <1>5, ModeClock
  <2> QED BY <2>1, <2>2
<1> HIDE DEF m
<1>7. mmc' = m /\ host' = Regs(m)
  BY <1>1, CleanIos DEF Healthy
<1>8. host'.width = Head(todo).width /\ mmc'.width = Head(todo).width /\ (host'.ddr = is_ddr(Head(todo).mode))
  BY <1>3, <1>6, <1>7 DEF Regs, BothWide
<1>9. card.ddr = is_ddr(Head(todo).mode)
  BY <1>2, <1>3 DEF CardRec, is_ddr
<1>10. host'.clock >= (ClampClock(mmc'.tran_speed) * 4) \div 5
  BY <1>6, <1>7
<1>11. Refused'
  BY <1>1, <1>3 DEF Refused, InSwitch, Searching
<1>12. Tried'
  BY <1>1, <1>3, <1>6, <1>7, <1>8, <1>9, <1>10 DEF Tried, BothWide, Wide, Can, Fastened, InSwitch
<1> QED BY <1>1, <1>6, <1>7, <1>11, <1>12, WellChoosing DEF Choosing, InSwitch

LEMMA CompareWell == ASSUME Healthy, MmcCompare PROVE Well'
<1>1. pc = "compare" /\ UNCHANGED <<chip, no, host, todo>>
  BY DEF MmcCompare, mmc_send_ext_csd, send_cmd, Next1, Goto, At
<1>2. /\ card \in CardRec /\ mmc \in MmcRec /\ host \in HostRec /\ ~mmc.fatal /\ Selected /\ chip.kind = "mmc"
      /\ todo \in Seq(MmcTodo) /\ todo \in Seq(AnyMode) /\ todo # <<>>
  BY <1>1, ChoosingFacts DEF Choosing
<1>3. /\ Passed /\ Passed' /\ Wanted' = Wanted /\ BothWide /\ Fastened /\ card.ddr = host.ddr /\ mmc.mode = Head(todo).mode
      /\ host.clock >= (ClampClock(mmc.tran_speed) * 4) \div 5
  BY <1>1, PassedKept DEF Choosing, Healthy, Well, Refused, Searching, Tried
<1>4. Head(todo) \in Wanted <=> Head(todo).width <= chip.wires
  BY <1>2, <1>3, MmcWanted DEF BothWide, Wide
<1>5. Agree <=> Head(todo).width <= chip.wires
  BY <1>3 DEF Agree, BothWide, Wide
<1>6. /\ Agree => mmc' = [mmc EXCEPT !.verified = TRUE] /\ pc' = "finish"
      /\ ~Agree => mmc' = mmc /\ pc' = "undo"
  BY <1>1, <1>2 DEF MmcCompare, mmc_send_ext_csd, send_cmd, Next1, Goto, Healthy
<1>7. CASE Agree
  <2>1. mmc'.verified /\ mmc'.mode = mmc.mode /\ mmc'.width = mmc.width /\ mmc'.tran_speed = mmc.tran_speed /\ ~mmc'.fatal
    BY <1>2, <1>6, <1>7 DEF MmcRec
  <2>2. BestModeFound'
    BY <1>1, <1>2, <1>3, <1>4, <1>5, <1>7, <2>1, FoundHead DEF BothWide
  <2> QED BY <1>6, <1>7, <2>1, <2>2, WellEnd
<1>8. CASE ~Agree
  <2>1. Refused'
    BY <1>1, <1>3, <1>4, <1>5, <1>6, <1>8 DEF Refused, InSwitch, Searching
  <2>2. Tried'
    BY <1>6, <1>8 DEF Tried, InSwitch
  <2> QED BY <1>2, <1>6, <1>8, <2>1, <2>2, WellChoosing DEF Choosing, InSwitch
<1> QED BY <1>7, <1>8

LEMMA UndoWell == ASSUME Healthy, At("undo"), MmcUndo PROVE Well'
<1>1. pc = "undo" /\ pc' = "switch" /\ UNCHANGED <<chip, no, mmc, todo>>
      /\ sub' = [index |-> "width", value |-> 1, ret |-> "legacy", else |-> "legacy"]
  BY DEF MmcUndo, Switch, At
<1>2. sub'.ret = "legacy"
  BY <1>1
<1>3. Passed' /\ Head(todo) \notin Wanted /\ Wanted' = Wanted /\ ~mmc.fatal
  BY <1>1, PassedKept DEF Healthy, Well, Refused, Searching, Untried
<1>4. Refused' /\ Tried'
  BY <1>1, <1>2, <1>3 DEF Refused, Tried, InSwitch, Searching
<1> QED BY <1>1, <1>2, <1>3, <1>4, WellChoosing DEF Choosing, InSwitch

LEMMA LegacyWell == ASSUME Healthy, At("legacy"), MmcUndo PROVE Well'
<1> DEFINE m == WithWidth(SelectMode(mmc, "MMC_LEGACY"), 1)
<1>1. pc = "legacy" /\ pc' = "try" /\ SetIos(m) /\ todo' = Tail(todo) /\ UNCHANGED <<chip, no>>
  BY DEF MmcUndo, At
<1>2. mmc \in MmcRec /\ ~mmc.fatal /\ todo \in Seq(AnyMode) /\ todo # <<>>
  BY <1>1, ChoosingFacts DEF Choosing
<1>3. ~m.fatal /\ m.mode = "MMC_LEGACY"
  BY <1>2 DEF WithWidth, SelectMode, MmcRec
<1> HIDE DEF m
<1>4. mmc' = m
  BY <1>1, CleanIos DEF Healthy
<1>5. Passed'
  <2>1. Passed /\ Head(todo) \notin Wanted
    BY <1>1 DEF Healthy, Well, Refused, Searching
  <2> QED BY <1>1, <1>2, <2>1, OneMoreGone
<1>6. Refused' /\ Tried'
  BY <1>1, <1>5 DEF Refused, Tried, InSwitch, Searching
<1> QED BY <1>1, <1>3, <1>4, <1>6, WellChoosing DEF Choosing, InSwitch, PlainMode

LEMMA OldMmcWell == ASSUME Healthy, OldMmc PROVE Well'
<1>1. pc = "old_mmc" /\ pc' = "finish" /\ UNCHANGED <<chip, mmc>>
  BY DEF OldMmc, Next1, Goto, At
<1>2. chip.version < MMC_VERSION_4 /\ chip.version \in Nat /\ ~mmc.fatal
  BY <1>1, ChoosingFacts, MmcAssumption DEF Healthy, MmcInv, Sized
<1>3. ~(chip'.version >= MMC_VERSION_4)
  BY <1>1, <1>2 DEF MMC_VERSION_4
<1> QED BY <1>1, <1>2, <1>3, WellEnd
-----------------------------------------------------------------------------
(* An SD card looks for its mode. *)
SdChoosing == {"sd_modes", "sd_try"} \cup SdBusy
LEMMA WellSd ==
  ASSUME pc' \in SdChoosing, ~mmc'.fatal, PlainMode', Refused', SdTried', pc' = "sd_width" => card'.app
  PROVE  Well'
<1>1. Untried'
  BY DEF SdChoosing, Untried, InSwitch, PlainMode
<1>2. Answers' /\ Tried' /\ Came'
  BY DEF SdChoosing, Answers, Tried, Came, InSwitch
<1> QED BY <1>1, <1>2 DEF Well

LEMMA SdChoosingFacts ==
  ASSUME Healthy, pc \in SdChoosing \cup {"scr_app", "scr", "sd_check"}
  PROVE  /\ ~mmc.fatal /\ PlainMode /\ card \in CardRec /\ mmc \in MmcRec /\ host \in HostRec /\ chip \in Chips
         /\ no \in Numbers /\ Selected /\ chip.kind = "sd" /\ ~card.ddr /\ todo \in Seq(SdTodo) /\ todo \in Seq(AnyMode)
         /\ pc \in SdBusy => todo # <<>>
<1>1. pc \in InSd
  BY DEF SdChoosing
<1>2. ~mmc.fatal /\ PlainMode
  BY <1>1 DEF Healthy, Well, Untried, PlainMode
<1>3. card \in CardRec /\ mmc \in MmcRec /\ host \in HostRec /\ chip \in Chips /\ no \in Numbers
  BY DEF Healthy, MmcInv, Records
<1>4. chip.kind = "sd" /\ ~card.ddr /\ todo \in Seq(SdTodo) /\ (pc \in SdBusy => todo # <<>>)
  BY <1>1 DEF Healthy, MmcInv, Identity, Bus
<1>5. Selected
  BY <1>1 DEF Healthy, MmcInv, Attached, Selected, Addressed
<1>6. todo \in Seq(AnyMode)
  BY <1>4, TodoFacts, TodoKept
<1> QED BY <1>2, <1>3, <1>4, <1>5, <1>6

LEMMA SdWanted ==
  ASSUME todo \in Seq(SdTodo), todo # <<>>, chip.kind = "sd"
  PROVE  /\ Head(todo) \in AnyMode /\ SdMode(Head(todo)) /\ Head(todo).width \in Width
         /\ Fast(Head(todo)) = (IF Head(todo).mode = "SD_HS" THEN 1 ELSE 0)
         /\ Head(todo) \in Wanted <=>
              Head(todo).width <= chip.wires /\ (chip.version = SD_VERSION_1_0 \/ Can("speed", Fast(Head(todo))))
<1>1. Head(todo) \in SdTodo
  BY TodoFacts, TodoKept
<1> DEFINE a == Head(todo)
<1>2. a \in AnyMode /\ SdMode(a) /\ a.width \in Width
  BY <1>1 DEF SdTodo, AnyMode
<1>3. Fast(a) = (IF a.mode = "SD_HS" THEN 1 ELSE 0)
  BY <1>2 DEF Fast, SdMode
<1>4. a \in Wanted <=> a.width <= chip.wires /\ (chip.version = SD_VERSION_1_0 \/ Can("speed", Fast(a)))
  BY <1>2 DEF Wanted, Willing, Can
<1> QED BY <1>2, <1>3, <1>4

LEMMA OneLine ==
  ASSUME Healthy, pc \in {"scr", "sd_check"}
  PROVE  Agree
<1>1. 1 <= chip.wires
  BY AskingFacts, MmcAssumption, SdChoosingFacts
<1>2. card.ddr = host.ddr
  BY AskingFacts DEF CardRec, HostRec
<1> QED BY <1>1, <1>2, AskingFacts DEF Agree

LEMMA ScrAppWell == ASSUME Healthy, ScrApp PROVE Well'
<1>1. pc = "scr_app"
  BY DEF ScrApp, At
<1>2. pc' = "scr" /\ card' = [card EXCEPT !.app = TRUE] /\ UNCHANGED <<host, mmc>>
  BY <1>1, SdChoosingFacts DEF ScrApp, send_cmd, Next1, Goto, Healthy
<1>3. card'.app /\ card'.width = 1 /\ ~card'.ddr
  BY <1>1, <1>2, AskingFacts DEF CardRec
<1>4. Answers'
  BY <1>2, <1>3 DEF Answers
<1> QED BY <1>1, <1>2, <1>3, <1>4, AskingFacts, WellAsking

LEMMA ScrWell == ASSUME Healthy, SendScr PROVE Well'
<1> DEFINE m == [mmc EXCEPT !.version = chip.version]
<1>1. pc = "scr" /\ card.app
  BY DEF SendScr, At, Healthy, Well, Answers
<1>2. pc' \in {"sd_modes", "sd_check"} /\ card' = Plain(card) /\ mmc' = m /\ UNCHANGED host
  <2>1. Selected /\ card.app /\ Agree /\ ~mmc.fatal /\ ~(faults' = faults + 1)
    BY <1>1, SdChoosingFacts, OneLine DEF Healthy
  <2> QED BY <2>1 DEF SendScr, send_cmd, Goto
<1>3. card'.width = 1 /\ ~card'.ddr
  BY <1>1, <1>2, AskingFacts DEF Plain, CardRec
<1>4. ~mmc'.fatal /\ mmc'.mode = mmc.mode
  BY <1>1, <1>2, AskingFacts DEF MmcRec
<1>5. CASE pc' = "sd_check"
  <2>1. Answers'
    BY <1>5 DEF Answers
  <2> QED BY <1>1, <1>2, <1>3, <1>4, <1>5, <2>1, AskingFacts, WellAsking
<1>6. CASE pc' = "sd_modes"
  <2>1. Refused' /\ SdTried'
    BY <1>6 DEF Refused, SdTried, InSwitch, Searching
  <2> QED BY <1>1, <1>4, <1>6, <2>1, AskingFacts, WellSd DEF SdChoosing, PlainMode
<1> QED BY <1>2, <1>5, <1>6

LEMMA SdCheckWell == ASSUME Healthy, SdCheck PROVE Well'
<1>1. pc = "sd_check"
  BY DEF SdCheck, At
<1>2. pc' = "sd_modes" /\ mmc' = mmc
  BY <1>1, SdChoosingFacts, OneLine DEF SdCheck, sd_switch, send_cmd, Next1, Goto, Healthy
<1>3. Refused' /\ SdTried'
  BY <1>2 DEF Refused, SdTried, InSwitch, Searching
<1> QED BY <1>1, <1>2, <1>3, SdChoosingFacts, WellSd DEF SdChoosing, PlainMode

LEMMA SdModesWell == ASSUME Healthy, SdModes PROVE Well'
<1>1. /\ pc = "sd_modes" /\ pc' = "sd_try" /\ todo' = sd_modes_by_pref(SdCaps(mmc) \cap HostCaps(no))
      /\ UNCHANGED <<chip, no, mmc>>
  BY DEF SdModes, At
<1>2. SdCaps(mmc) = SdCaps([version |-> chip.version])
  <2>1. mmc.version = chip.version
    BY <1>1 DEF Healthy, MmcInv, Identity
  <2> QED BY <2>1 DEF SdCaps
<1>3. todo' = Offered
  BY <1>1, <1>2, SdChoosingFacts DEF SdChoosing, Offered
<1>4. Refused' /\ SdTried'
  BY <1>1, <1>3, Begun DEF Refused, SdTried, InSwitch, Searching
<1> QED BY <1>1, <1>4, SdChoosingFacts, WellSd DEF SdChoosing, PlainMode

(* The default speed on one line is never refused. *)
LEMMA NotAllGone ==
  ASSUME Healthy, pc = "sd_try", Passed
  PROVE  todo # <<>>
<1>1. chip.kind = "sd" /\ no \in Numbers /\ chip \in Chips
  BY SdChoosingFacts DEF SdChoosing
<1>2. PICK j \in 1 .. Len(Offered) : Offered[j] = Default
  BY <1>1, DefaultOffered
<1>3. Default \in Wanted
  <2>1. Default \in AnyMode /\ Default.width = 1 /\ Fast(Default) = 0
    BY DEF Default, AnyMode, Modes, Width, Fast
  <2>2. 1 <= chip.wires /\ Can("speed", 0)
    BY <1>1, MmcAssumption DEF Healthy, Conforming, Can
  <2> QED BY <1>1, <2>1, <2>2 DEF Wanted, Willing, Can
<1> QED BY <1>2, <1>3, AllGone

LEMMA SdTryWell == ASSUME Healthy, SdTry PROVE Well'
<1>1. pc = "sd_try"
  BY DEF SdTry, At
<1>2. Passed
  BY <1>1 DEF Healthy, Well, Refused, Searching
<1>3. todo # <<>>
  BY <1>1, <1>2, NotAllGone
<1>4. /\ pc' = "sd_width" /\ card' = [card EXCEPT !.app = TRUE] /\ UNCHANGED <<chip, no, mmc, todo>>
  BY <1>1, <1>3, SdChoosingFacts DEF SdChoosing, SdTry, send_cmd, Next1, Goto, Healthy
<1>5. card'.app
  BY <1>1, <1>4, SdChoosingFacts DEF SdChoosing, CardRec
<1>6. Refused' /\ SdTried'
  BY <1>2, <1>4, PassedKept DEF Refused, SdTried, InSwitch, Searching
<1> QED BY <1>1, <1>4, <1>5, <1>6, SdChoosingFacts, WellSd DEF SdChoosing, PlainMode

LEMMA SdWidthWell == ASSUME Healthy, SdWidth PROVE Well'
<1>1. pc = "sd_width" /\ card.app /\ Passed
  BY DEF SdWidth, At, Healthy, Well, Answers, Refused, Searching
<1>2. pc' = "sd_wide" /\ card' = [Plain(card) EXCEPT !.width = Head(todo).width] /\ UNCHANGED <<chip, no, mmc, todo>>
  BY <1>1, SdChoosingFacts DEF SdChoosing, SdWidth, send_cmd, Next1, Goto, Healthy
<1>3. card'.width = Head(todo).width
  BY <1>1, <1>2, SdChoosingFacts DEF SdChoosing, Plain, CardRec
<1>4. Refused'
  BY <1>1, <1>2, PassedKept DEF Refused, InSwitch, Searching
<1>5. SdTried'
  BY <1>2, <1>3 DEF SdTried
<1> QED BY <1>1, <1>2, <1>4, <1>5, SdChoosingFacts, WellSd DEF SdChoosing, PlainMode

LEMMA SdWideWell == ASSUME Healthy, SdWide PROVE Well'
<1> DEFINE m == WithWidth(mmc, Head(todo).width)
<1>1. /\ pc = "sd_wide" /\ SetIos(m) /\ UNCHANGED <<chip, no, card, todo>>
      /\ pc' = IF mmc.version = SD_VERSION_1_0 THEN "sd_clock" ELSE "sd_speed"
  BY DEF SdWide, Goto, At
<1>2. mmc \in MmcRec /\ ~mmc.fatal /\ PlainMode /\ chip \in Chips /\ chip.kind = "sd" /\ todo \in Seq(SdTodo) /\ todo # <<>>
  BY <1>1, SdChoosingFacts DEF SdChoosing
<1>3. Passed' /\ Wanted' = Wanted /\ mmc.version = chip.version
  BY <1>1, PassedKept DEF Healthy, Well, Refused, Searching, MmcInv, Identity
<1>4. ~m.fatal /\ m.mode = mmc.mode /\ m.width = Head(todo).width
  BY <1>2 DEF WithWidth, MmcRec
<1> HIDE DEF m
<1>5. mmc' = m /\ host' = Regs(m)
  BY <1>1, CleanIos DEF Healthy
<1>6. host'.width = Head(todo).width /\ ~host'.ddr
  BY <1>2, <1>4, <1>5 DEF Regs, PlainMode, is_ddr
<1>7. pc' = "sd_clock" => Head(todo) \in Wanted
  <2>1. chip.wires \in Nat /\ chip.wires >= 1 /\ (chip.version = SD_VERSION_1_0 /\ chip.wide => chip.wires >= 4)
    BY <1>2, MmcAssumption
  <2>2. /\ Head(todo).width = 1 \/ (Head(todo).width = 4 /\ chip.wide)
        /\ Head(todo).width <= chip.wires /\ chip.version = SD_VERSION_1_0 => Head(todo) \in Wanted
    BY <1>2, SdWanted DEF SdMode
  <2> QED BY <1>1, <1>3, <2>1, <2>2
<1>8. Refused'
  BY <1>1, <1>3 DEF Refused, InSwitch, Searching
<1>9. SdTried'
  BY <1>1, <1>3, <1>6, <1>7 DEF SdTried
<1> QED BY <1>1, <1>2, <1>4, <1>5, <1>8, <1>9, WellSd DEF SdChoosing, PlainMode

LEMMA SdSpeedWell == ASSUME Healthy, SdSpeed PROVE Well'
<1> DEFINE speed   == IF Head(todo).mode = "SD_HS" THEN 1 ELSE 0
           refused == <<"speed", speed>> \in chip.refuse
<1>1. pc = "sd_speed" /\ UNCHANGED <<chip, no, host, mmc, todo>>
  BY DEF SdSpeed, sd_switch, send_cmd, Next1, Goto, At
<1>2. /\ pc' \in {"sd_clock", "sd_error"}
      /\ pc' = "sd_clock" <=> Agree /\ ~refused
  BY <1>1, SdChoosingFacts DEF SdChoosing, SdSpeed, sd_switch, send_cmd, Next1, Goto, Healthy
<1>3. /\ Passed' /\ Wanted' = Wanted /\ mmc.version = chip.version /\ mmc.version # SD_VERSION_1_0
      /\ host.width = Head(todo).width /\ ~host.ddr /\ card.width = Head(todo).width
  BY <1>1, PassedKept DEF Healthy, Well, Refused, Searching, SdTried, MmcInv, Identity, Bus
<1>4. Agree <=> Head(todo).width <= chip.wires
  <2>1. card.ddr = host.ddr
    BY <1>1, <1>3, SdChoosingFacts DEF SdChoosing, CardRec, HostRec
  <2> QED BY <1>3, <2>1 DEF Agree
<1>5. Head(todo) \in Wanted <=> Head(todo).width <= chip.wires /\ ~refused
  BY <1>1, <1>3, SdChoosingFacts, SdWanted DEF SdChoosing, Can
<1>6. pc' = "sd_clock" <=> Head(todo) \in Wanted
  BY <1>2, <1>4, <1>5
<1>7. Refused'
  BY <1>1, <1>2, <1>3, <1>6 DEF Refused, InSwitch, Searching
<1>8. SdTried'
  BY <1>1, <1>2, <1>3, <1>6 DEF SdTried
<1> QED BY <1>1, <1>2, <1>7, <1>8, SdChoosingFacts, WellSd DEF SdChoosing, PlainMode

LEMMA SdClockWell == ASSUME Healthy, SdClock PROVE Well'
<1> DEFINE n == SelectMode(mmc, Head(todo).mode)
           m == WithClock([n EXCEPT !.verified = TRUE], n.tran_speed)
           w == WithClock(n, n.tran_speed)
<1>1. pc = "sd_clock" /\ pc' = "finish" /\ SetIos(m) /\ UNCHANGED <<chip, no, card, todo>>
  BY DEF SdClock, Goto, At
<1>2. /\ mmc \in MmcRec /\ ~mmc.fatal /\ chip.kind = "sd" /\ todo \in Seq(SdTodo) /\ todo \in Seq(AnyMode) /\ todo # <<>>
  BY <1>1, SdChoosingFacts DEF SdChoosing
<1>3. Passed /\ Head(todo) \in Wanted /\ mmc.width = Head(todo).width
  BY <1>1 DEF Healthy, Well, Refused, Searching, SdTried, MmcInv, Bus
<1>4. Head(todo).mode \in {"SD_HS", "SD_LEGACY"} /\ Head(todo).mode \in Modes
  BY <1>2, SdWanted DEF SdMode, Modes
<1>5. mmc_mode2freq(mmc, Head(todo).mode) > 12000
  BY <1>4 DEF mmc_mode2freq
<1>6. /\ m.mode = Head(todo).mode /\ m.width = mmc.width /\ ~m.fatal /\ m.verified /\ m.tran_speed = n.tran_speed
      /\ m.clock = ClampClock(n.tran_speed) /\ w.clock = ClampClock(n.tran_speed) /\ w.mode = Head(todo).mode
  BY <1>2 DEF WithClock, SelectMode, MmcRec
<1>7. Regs(w).clock >= (ClampClock(n.tran_speed) * 4) \div 5
  BY <1>2, <1>4, <1>5, ModeClock
<1> HIDE DEF m, w
<1>8. Regs(m).clock = Regs(w).clock
  BY <1>6 DEF Regs
<1>9. mmc' = m /\ host' = Regs(m)
  BY <1>1, CleanIos DEF Healthy
<1>10. host'.clock >= (ClampClock(mmc'.tran_speed) * 4) \div 5
  BY <1>6, <1>7, <1>8, <1>9
<1>11. BestModeFound'
  BY <1>1, <1>2, <1>3, <1>6, <1>9, <1>10, FoundHead
<1> QED BY <1>1, <1>6, <1>9, <1>11, WellEnd

LEMMA SdErrorWell == ASSUME Healthy, SdError PROVE Well'
<1> DEFINE n == SelectMode(mmc, "SD_LEGACY")
           m == WithClock(n, n.tran_speed)
<1>1. pc = "sd_error" /\ pc' = "sd_try" /\ SetIos(m) /\ todo' = Tail(todo) /\ UNCHANGED <<chip, no>>
  BY DEF SdError, At
<1>2. mmc \in MmcRec /\ ~mmc.fatal /\ todo \in Seq(AnyMode) /\ todo # <<>>
  BY <1>1, SdChoosingFacts DEF SdChoosing
<1>3. ~m.fatal /\ m.mode = "SD_LEGACY"
  BY <1>2 DEF WithClock, SelectMode, MmcRec
<1> HIDE DEF m
<1>4. mmc' = m
  BY <1>1, CleanIos DEF Healthy
<1>5. Passed'
  <2>1. Passed /\ Head(todo) \notin Wanted
    BY <1>1 DEF Healthy, Well, Refused, Searching
  <2> QED BY <1>1, <1>2, <2>1, OneMoreGone
<1>6. Refused' /\ SdTried'
  BY <1>1, <1>5 DEF Refused, SdTried, InSwitch, Searching
<1> QED BY <1>1, <1>3, <1>4, <1>6, WellSd DEF SdChoosing, PlainMode

(* What was found stays. *)
LEMMA FoundKept ==
  ASSUME BestModeFound, UNCHANGED <<chip, no, host>>, mmc'.verified = mmc.verified, mmc'.mode = mmc.mode,
         mmc'.width = mmc.width, mmc'.tran_speed = mmc.tran_speed
  PROVE  BestModeFound'
<1> DEFINE c == (ClampClock(mmc.tran_speed) * 4) \div 5
<1>1. c = (ClampClock(mmc'.tran_speed) * 4) \div 5
  OBVIOUS
<1> HIDE DEF c
<1>2. \A i \in 1 .. Len(Offered) : Best(i) =>
        mmc.verified /\ mmc.mode = Offered[i].mode /\ mmc.width = Offered[i].width /\ host.clock >= c
  BY DEF BestModeFound, c
<1>3. Offered' = Offered /\ \A i \in 1 .. Len(Offered) : Best(i)' <=> Best(i)
  BY OfferKept, BestStays
<1>4. \A i \in 1 .. Len(Offered') : Best(i)' =>
        mmc'.verified /\ mmc'.mode = Offered'[i].mode /\ mmc'.width = Offered'[i].width /\ host'.clock >= c
  BY <1>2, <1>3
<1> QED BY <1>1, <1>4 DEF BestModeFound

LEMMA FinishWell == ASSUME Healthy, Finish PROVE Well'
<1>1. /\ pc = "finish" /\ pc' = "ready" /\ UNCHANGED <<chip, no, host>>
      /\ mmc' = [mmc_set_capacity(mmc) EXCEPT !.has_init = TRUE]
  BY DEF Finish, Goto, At
<1>2. mmc \in MmcRec /\ ~mmc.fatal /\ (chip.version >= MMC_VERSION_4 => BestModeFound)
  BY <1>1 DEF Healthy, Well, Untried, Came, MmcInv, Records
<1>3. ~mmc'.fatal /\ mmc'.verified = mmc.verified /\ mmc'.mode = mmc.mode /\ mmc'.width = mmc.width
      /\ mmc'.tran_speed = mmc.tran_speed
  BY <1>1, <1>2 DEF MmcRec, mmc_set_capacity
<1> QED BY <1>1, <1>2, <1>3, FoundKept, WellEnd

LEMMA HealthyInit == ASSUME Init, \A c \in Chips : Conforming(c) PROVE HealthyInv
<1>1. pc = "start" /\ chip \in Chips
  BY Zenon DEF Init
<1>2. card = [st |-> "idle", rca |-> 0, width |-> 1, hs |-> FALSE, ddr |-> FALSE, busy |-> chip.busy, app |-> FALSE]
      /\ host = [width |-> 1, ddr |-> FALSE, clock |-> 0]
  BY Zenon DEF Init
<1>3. mmc.mode = "MMC_LEGACY" /\ ~mmc.fatal
  BY DEF Init
<1>4. Answers
  BY <1>1, <1>2 DEF Answers
<1>5. Untried
  BY <1>1, <1>2, <1>3 DEF Untried, InSwitch
<1>6. Refused /\ Tried /\ SdTried /\ Came
  BY <1>1 DEF Refused, Tried, SdTried, Came, InSwitch, Searching
<1> QED BY <1>4, <1>5, <1>6 DEF HealthyInv, Well

(* A step has at most one fault. *)
LEMMA FaultsOnlyGrow == ASSUME Next PROVE faults' = faults \/ faults' = faults + 1
<1>1. CASE \/ mmc_go_idle \/ mmc_send_if_cond \/ SdAppCmd \/ SdSendOpCond \/ mmc_send_op_cond
           \/ mmc_send_op_cond_iter \/ mmc_complete_op_cond \/ SendCid \/ SendRelativeAddr \/ SendCsd \/ SelectCard
  BY <1>1 DEF mmc_go_idle, mmc_send_if_cond, SdAppCmd, SdSendOpCond, mmc_send_op_cond, mmc_send_op_cond_iter,
     mmc_complete_op_cond, SendCid, SendRelativeAddr, SendCsd, SelectCard, Cmd1, send_cmd
<1>2. CASE \/ mmc_startup_v4 \/ __mmc_switch \/ MmcTimed \/ MmcCompare \/ ScrApp \/ SendScr \/ SdCheck
           \/ SdTry \/ SdWidth \/ SdSpeed
  BY <1>2 DEF mmc_startup_v4, __mmc_switch, MmcTimed, MmcCompare, ScrApp, SendScr, SdCheck, SdTry, SdWidth, SdSpeed,
     mmc_send_ext_csd, mmc_send_status, sd_switch, send_cmd
<1>3. CASE StartInit \/ MmcModes \/ MmcWide \/ MmcClock \/ MmcUndo \/ SdWide \/ SdClock \/ SdError
  BY <1>3 DEF StartInit, MmcModes, MmcWide, MmcClock, MmcUndo, SdWide, SdClock, SdError, SetIos
<1>4. CASE OpCondDone \/ StartupParts \/ MmcTry \/ OldMmc \/ SdModes \/ Finish
  BY <1>4 DEF OpCondDone, StartupParts, MmcTry, OldMmc, SdModes, Finish
<1> QED BY <1>1, <1>2, <1>3, <1>4 DEF Next

LEMMA HealthyNext ==
  ASSUME MmcInv, HealthyInv, [Next]_mvars, \A c \in Chips : Conforming(c)
  PROVE  HealthyInv'
<1> SUFFICES ASSUME faults' = 0 PROVE Well'
  BY DEF HealthyInv
<1>1. CASE Next
  <2>1. faults = 0
    <3>1. faults \in Nat
      BY DEF MmcInv, Records
    <3>2. faults' = faults \/ faults' = faults + 1
      BY <1>1, FaultsOnlyGrow
    <3> QED BY <3>1, <3>2
  <2>2. Healthy
    BY <2>1 DEF Healthy, HealthyInv, MmcInv, Records
  <2>3. CASE __mmc_switch
    BY <2>2, <2>3, SwitchWell, StatusWell DEF __mmc_switch
  <2>4. CASE MmcUndo
    BY <2>2, <2>4, UndoWell, LegacyWell DEF MmcUndo
  <2>5. CASE mmc_complete_op_cond
    BY <2>2, <2>5, CompleteIdleWell, CompleteWell DEF mmc_complete_op_cond
  <2> QED BY <1>1, <2>2, <2>3, <2>4, <2>5, StartWell, GoIdleWell, IfCondWell, AppCmdWell, OpCondWell, MmcIdleWell,
             OpCondIterWell, OpCondDoneWell, CidWell, RcaWell, CsdWell, SelectWell, ExtCsdWell, PartsWell, ModesWell,
             TryWell, WideWell, TimedWell, ClockWell, CompareWell, OldMmcWell, ScrAppWell, ScrWell, SdCheckWell,
             SdModesWell, SdTryWell, SdWidthWell, SdWideWell, SdSpeedWell, SdClockWell, SdErrorWell, FinishWell DEF Next
<1>2. CASE UNCHANGED mvars
  <2>1. Well
    BY <1>2 DEF HealthyInv, mvars
  <2>2. Answers' /\ Untried'
    BY <1>2, <2>1 DEF mvars, Well, Answers, Untried, InSwitch, Present, Addressed
  <2>3. Refused' /\ SdTried'
    BY <1>2, <2>1, PassedKept DEF mvars, Well, Refused, SdTried, InSwitch
  <2>4. Tried'
    BY <1>2, <2>1 DEF mvars, Well, Tried, BothWide, Wide, Can, Fastened, InSwitch
  <2>5. Came'
    BY <1>2, <2>1, FoundKept DEF mvars, Well, Came, Present
  <2> QED BY <2>2, <2>3, <2>4, <2>5 DEF Well
<1> QED BY <1>1, <1>2

(* Without a fault, for every card that keeps to its standard, any board   *)
(* wiring, any set of refused values and any limit of the polling loops:   *)
(* a supported card comes up, and in the first mode of the list that card, *)
(* slot and wiring can do, at four fifths of its rate or more (mmc_init(), *)
(* mmc_startup() and the two select_mode_and_width() of mmc.c;             *)
(* mmc_set_mod_clk() of sunxi_mmc.c).                                      *)
THEOREM HealthyCardAlwaysComesUp ==
  ASSUME \A c \in Chips : Conforming(c)
  PROVE  Spec => []HealthyCardComesUp
<1> DEFINE Inv == MmcInv /\ HealthyInv
<1>1. Init => Inv
  BY MmcInit, HealthyInit
<1>2. Inv /\ [Next]_mvars => Inv'
  BY MmcNext, HealthyNext
<1>3. Inv => HealthyCardComesUp
  BY DEF HealthyInv, Well, Came, HealthyCardComesUp
<1> QED BY <1>1, <1>2, <1>3, PTL DEF Spec
=============================================================================
