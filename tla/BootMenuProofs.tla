--------------------------- MODULE BootMenuProofs ---------------------------
(***************************************************************************)
(* Proofs about the boot menu (BootMenu, GuiMenu) for every number of      *)
(* configuration blocks up to 32, every window height, every content of    *)
(* the two media, all times and any number of key presses.                 *)
(***************************************************************************)
EXTENDS BootMenu, FiniteSetTheorems, WellFoundedInduction, SequenceTheorems, TLAPS

-----------------------------------------------------------------------------
(* A set of natural numbers that is not empty has a least element: what    *)
(* the loops of gui.c that search for a first line rely on.                *)
LEMMA LeastNat ==
  ASSUME NEW T \in SUBSET Nat, T # {}
  PROVE  \E x \in T : \A y \in T : x <= y
<1>1. PICK x \in T : \A y \in T : ~(<<y, x>> \in OpToRel(<, Nat))
  BY NatLessThanWellFounded, WFMin
<1>2. \A y \in T : ~(y < x)
  BY <1>1 DEF OpToRel
<1> QED BY <1>2, SMT

(* Each rank below the size of a set of ids is held by one of them, so the *)
(* loops of boot_gui() that add the configurations list members only.      *)
LEMMA RankHeld ==
  ASSUME NEW S, NEW n \in Nat, S \subseteq 0 .. n - 1
  PROVE  /\ IsFiniteSet(S) /\ Cardinality(S) \in Nat
         /\ \A k \in 1 .. Cardinality(S) :
              \E id \in S : Cardinality(Below(S, id)) = k - 1
<1> DEFINE Bad == {m \in Nat : \E X \in SUBSET (0 .. m - 1) :
                     ~ \A k \in 1 .. Cardinality(X) :
                         \E id \in X : Cardinality(Below(X, id)) = k - 1}
<1>0. \A m \in Nat : \A X \in SUBSET (0 .. m - 1) : IsFiniteSet(X) /\ Cardinality(X) \in Nat
  <2> SUFFICES ASSUME NEW m \in Nat, NEW X \in SUBSET (0 .. m - 1)
               PROVE  IsFiniteSet(X) /\ Cardinality(X) \in Nat
    OBVIOUS
  <2>1. IsFiniteSet(0 .. m - 1)
    BY FS_Interval
  <2> QED BY <2>1, FS_Subset, FS_CardinalityType
<1>1. SUFFICES Bad = {}
  BY <1>0
<1>2. SUFFICES ASSUME Bad # {} PROVE FALSE
  OBVIOUS
<1>3. PICK m \in Bad : \A y \in Bad : m <= y
  BY <1>2, LeastNat
<1>4. PICK X \in SUBSET (0 .. m - 1) :
        ~ \A k \in 1 .. Cardinality(X) : \E id \in X : Cardinality(Below(X, id)) = k - 1
  BY <1>3
<1>5. PICK k \in 1 .. Cardinality(X) : \A id \in X : Cardinality(Below(X, id)) # k - 1
  BY <1>4
<1>6. m \in Nat /\ IsFiniteSet(X) /\ Cardinality(X) \in Nat
  BY <1>0, <1>3
<1>7. m # 0
  <2>1. SUFFICES ASSUME m = 0 PROVE FALSE
    OBVIOUS
  <2>2. X = {}
    BY <2>1
  <2> QED BY <2>2, <1>5, FS_EmptySet
<1> DEFINE q == m - 1
           Y == X \ {q}
<1>8. q \in Nat /\ q \notin Bad /\ Y \in SUBSET (0 .. q - 1)
  <2>1. q \in Nat /\ ~(m <= q)
    BY <1>6, <1>7
  <2>2. Y \in SUBSET (0 .. q - 1)
    BY <1>6, <1>7
  <2> QED BY <2>1, <2>2, <1>3
<1>9. \A j \in 1 .. Cardinality(Y) : \E id \in Y : Cardinality(Below(Y, id)) = j - 1
  BY <1>8
<1>10. CASE q \notin X
  <2>1. Y = X
    BY <1>10
  <2> QED BY <2>1, <1>9, <1>5
<1>11. CASE q \in X
  <2>1. Cardinality(Y) = Cardinality(X) - 1
    BY <1>6, <1>11, FS_RemoveElement
  <2>2. CASE k = Cardinality(X)
    <3>0. \A j \in X : j < q <=> j # q
      BY <1>6, <1>4
    <3>1. Below(X, q) = Y
      BY <3>0, Zenon DEF Below
    <3> QED BY <3>1, <2>1, <2>2, <1>11, <1>5
  <2>3. CASE k # Cardinality(X)
    <3>1. k \in 1 .. Cardinality(Y)
      BY <2>1, <2>3, <1>6
    <3>2. PICK id \in Y : Cardinality(Below(Y, id)) = k - 1
      BY <3>1, <1>9
    <3>3. id \in 0 .. q - 1
      BY <1>8
    <3>4. Below(Y, id) = Below(X, id)
      BY <3>3, <1>8 DEF Below
    <3> QED BY <3>2, <3>4, <1>5
  <2> QED BY <2>2, <2>3
<1> QED BY <1>10, <1>11

(* The ids listed in order are members of the set, as many as it has. *)
LEMMA InOrderType ==
  ASSUME NEW S, NEW n \in Nat, S \subseteq 0 .. n - 1
  PROVE  InOrder(S) \in Seq(S)
<1>1. /\ Cardinality(S) \in Nat
      /\ \A k \in 1 .. Cardinality(S) : \E id \in S : Cardinality(Below(S, id)) = k - 1
  BY RankHeld
<1>2. InOrder(S) \in [1 .. Cardinality(S) -> S]
  BY <1>1, Zenon DEF InOrder
<1> QED BY <1>1, <1>2, SeqDef

(* A line's id: a header or one of the selections, all of which fit in the *)
(* byte of the RTC register.                                               *)
LineId == {Header, Privacy} \cup 0 .. BOOTSEL_LAST

(* boot_gui() always fills the menu: whatever the media hold there are the *)
(* three last lines, and each line has an id that is a header's or a       *)
(* selection's.                                                            *)
LEMMA BuildMenuType ==
  ASSUME NEW c \in Card
  PROVE  BuildMenu(c) \in Seq(LineId) /\ Len(BuildMenu(c)) >= 3
<1>0. NConf \in Nat /\ NConf >= 1 /\ NConf <= 32
  BY MenuAssumption
<1>1. \A S : S \subseteq 0 .. 2 * NConf - 1 => InOrder(S) \in Seq(LineId)
  <2> SUFFICES ASSUME NEW S, S \subseteq 0 .. 2 * NConf - 1
               PROVE  InOrder(S) \in Seq(LineId)
    OBVIOUS
  <2>0. 2 * NConf \in Nat
    BY <1>0
  <2>1. InOrder(S) \in Seq(S)
    BY <2>0, InOrderType, Zenon
  <2>2. S \subseteq LineId
    BY <1>0 DEF LineId, BOOTSEL_LAST, BOOTSEL_FEL
  <2> QED BY <2>1, <2>2, SeqMonotonic, Zenon
<1>2. /\ c.fs \in SUBSET Dev /\ c.conf \in [Dev -> SUBSET Conf]
  BY DEF Card
<1>3. ConfIds(c, "emmc", 0) \in Seq(LineId)
  <2>1. \A i \in c.conf["emmc"] : 0 + i \in 0 .. 2 * NConf - 1
    BY <1>0, <1>2 DEF Conf, Dev
  <2> QED BY <2>1, <1>1 DEF ConfIds
<1>4. ConfIds(c, "sd", NConf) \in Seq(LineId)
  <2>1. \A i \in c.conf["sd"] : NConf + i \in 0 .. 2 * NConf - 1
    BY <1>0, <1>2 DEF Conf, Dev
  <2> QED BY <2>1, <1>1 DEF ConfIds
<1>5. {Header, Privacy, BOOTSEL_EMMC, BOOTSEL_FEL, BOOTSEL_POWEROFF} \subseteq LineId
  BY <1>0 DEF LineId, BOOTSEL_LAST, BOOTSEL_EMMC, BOOTSEL_FEL, BOOTSEL_POWEROFF
<1> HIDE DEF LineId
<1> DEFINE a == IF "emmc" \in c.fs \/ c.src # "MMC2"
                  THEN <<Header>> \o ConfIds(c, "emmc", 0)
                       \o (IF c.src # "MMC2" THEN <<BOOTSEL_EMMC>> ELSE <<>>) \o <<Header>>
                  ELSE <<>>
           b == IF "sd" \in c.fs
                  THEN <<Header>> \o ConfIds(c, "sd", NConf) \o <<Header>>
                  ELSE <<>>
           z == <<Privacy, BOOTSEL_FEL, BOOTSEL_POWEROFF>>
<1>6. a \in Seq(LineId) /\ b \in Seq(LineId) /\ z \in Seq(LineId) /\ Len(z) = 3
  BY <1>3, <1>4, <1>5
<1>7. BuildMenu(c) = a \o b \o z
  BY DEF BuildMenu
<1> HIDE DEF a, b, z
<1>8. (a \o b) \in Seq(LineId) /\ Len(a \o b) >= 0
  BY <1>6, ConcatProperties
<1>9. (a \o b) \o z \in Seq(LineId) /\ Len((a \o b) \o z) = Len(a \o b) + Len(z)
  BY <1>6, <1>8, ConcatProperties
<1> QED BY <1>6, <1>7, <1>8, <1>9

(* gui_menu_set_selection() leaves the cursor on a line. *)
LEMMA SetSelectionInside ==
  ASSUME NEW ids \in Seq(LineId), NEW id, NEW sel \in 0 .. Len(ids) - 1
  PROVE  SetSelection(ids, id, sel) \in 0 .. Len(ids) - 1
<1> DEFINE n == Len(ids)
           At == {i \in 1 .. n : ids[i] = id}
<1>0. n \in Nat
  OBVIOUS
<1> HIDE DEF n
<1>1. CASE \E i \in 1 .. n : ids[i] = id
  <2>1. At \in SUBSET Nat /\ At # {}
    BY <1>1, <1>0
  <2>2. PICK x \in At : \A y \in At : x <= y
    BY <2>1, LeastNat
  <2>3. \A j \in 1 .. x - 1 : ids[j] # id
    BY <2>2, <1>0
  <2>4. \E i \in 1 .. n : ids[i] = id /\ \A j \in 1 .. i - 1 : ids[j] # id
    BY <2>2, <2>3
  <2> DEFINE first == CHOOSE i \in 1 .. n : ids[i] = id /\ \A j \in 1 .. i - 1 : ids[j] # id
  <2>5. first \in 1 .. n
    BY <2>4, Zenon
  <2>6. SetSelection(ids, id, sel) = first - 1
    BY <1>1, Zenon DEF SetSelection, n
  <2> HIDE DEF first
  <2> QED BY <2>5, <2>6, <1>0 DEF n
<1>2. CASE ~ \E i \in 1 .. n : ids[i] = id
  BY <1>2, Zenon DEF SetSelection, n
<1> QED BY <1>1, <1>2

(* gui_menu_update() moves the cursor to a line, and to a header only if   *)
(* it stays where it was.                                                  *)
LEMMA MoveSound ==
  ASSUME items \in Seq(LineId), NEW sel \in Line, NEW dir \in {-1, 1}
  PROVE  /\ Move(sel, dir) \in Line
         /\ Move(sel, dir) = sel \/ CanRest(Move(sel, dir))
<1>0. N \in Nat /\ N > 0
  BY DEF N, Line
<1>1. \A k \in 1 .. N : Along(sel, dir, k) \in Line
  BY <1>0 DEF Along, Line
<1>2. Along(sel, dir, N) = sel
  BY <1>0 DEF Along, Line
<1> DEFINE At == {j \in 1 .. N : Stops(sel, Along(sel, dir, j))}
<1>3. At \in SUBSET Nat /\ N \in At
  BY <1>0, <1>2 DEF Stops
<1>4. PICK x \in At : \A y \in At : x <= y
  BY <1>3, LeastNat
<1>5. \A i \in 1 .. x - 1 : ~Stops(sel, Along(sel, dir, i))
  BY <1>4, <1>0
<1>6. \E j \in 1 .. N : /\ Stops(sel, Along(sel, dir, j))
                        /\ \A i \in 1 .. j - 1 : ~Stops(sel, Along(sel, dir, i))
  BY <1>4, <1>5
<1> DEFINE k == CHOOSE j \in 1 .. N :
                  /\ Stops(sel, Along(sel, dir, j))
                  /\ \A i \in 1 .. j - 1 : ~Stops(sel, Along(sel, dir, i))
           new == Along(sel, dir, k)
<1>7. k \in 1 .. N
  BY <1>6, Zenon
<1>8. Move(sel, dir) = IF new # sel /\ CanRest(new) THEN new ELSE sel
  BY Zenon DEF Move
<1> HIDE DEF k
<1>9. new \in Line
  BY <1>1, <1>7
<1> QED BY <1>8, <1>9, Zenon

(* Wherever the window was, after an update it shows the cursor's line.    *)
LEMMA ScrollSound ==
  ASSUME items \in Seq(LineId), NEW top \in Int, NEW sel \in Line
  PROVE  /\ ScrollTop(top, sel) \in Int
         /\ sel \in ScrollTop(top, sel) .. ScrollTop(top, sel) + ScrollHeight - 1
<1>1. N \in Nat /\ sel \in Int /\ 0 <= sel /\ sel < N
  BY DEF N, Line
<1>2. ScrollHeight \in Nat /\ Slack \in Nat /\ ScrollHeight > 2 * Slack
  BY MenuAssumption
<1> QED BY <1>1, <1>2 DEF ScrollTop, MinOf, MaxOf

(* What the other proofs use of the menu's lines and of a key's direction. *)
LEMMA MenuLines ==
  ASSUME TypeOK
  PROVE  items \in Seq(LineId) /\ N \in Nat /\ N >= 3 /\ \A i \in Line : IdAt(i) \in LineId
<1>1. card \in Card
  BY MenuAssumption DEF TypeOK
<1>2. items \in Seq(LineId) /\ Len(items) >= 3
  BY <1>1, BuildMenuType DEF TypeOK
<1> QED BY <1>2 DEF N, Line, IdAt

LEMMA KeyDirType == KeyDir \in {-1, 0, 1}
BY DEF KeyDir

(* gui_menu_update() keeps the cursor on a line of the menu, that line in  *)
(* the window, and the cursor off the headers.                             *)
LEMMA UpdateSound ==
  ASSUME TypeOK, NEW dir \in {-1, 0, 1}, Update(dir)
  PROVE  /\ TypeOK'
         /\ selection' \in Line
         /\ selection' \in scroll_top' .. scroll_top' + ScrollHeight - 1
         /\ CanRest(selection) => CanRest(selection')
<1>1. items \in Seq(LineId) /\ selection \in Line /\ scroll_top \in Int
  BY MenuLines DEF TypeOK
<1>2. selection' \in Line /\ (selection' = selection \/ CanRest(selection'))
  <2>1. CASE dir = 0
    BY <2>1, <1>1 DEF Update
  <2>2. CASE dir # 0
    <3>1. selection' = Move(selection, dir)
      BY <2>2 DEF Update
    <3> QED BY <3>1, <2>2, <1>1, MoveSound
  <2> QED BY <2>1, <2>2
<1>3. /\ scroll_top' \in Int
      /\ selection' \in scroll_top' .. scroll_top' + ScrollHeight - 1
  BY <1>1, <1>2, ScrollSound DEF Update
<1>4. card' = card /\ items' = items /\ selection_changed' \in BOOLEAN
  BY DEF Update
<1>5. Line' = Line
  BY <1>4 DEF Line, N
<1>6. TypeOK'
  BY <1>2, <1>3, <1>4, <1>5 DEF TypeOK
<1> QED BY <1>2, <1>3, <1>6

(* A round leaves the cursor's line, whose id it acts on, a line's id. *)
LEMMA SelType ==
  ASSUME TypeOK, Update(KeyDir)
  PROVE  Sel \in LineId
<1>1. selection' \in Line
  BY KeyDirType, UpdateSound
<1> QED BY <1>1, MenuLines DEF Sel, IdAt

(***************************************************************************)
(* The inductive invariant.  DefaultShown holds the types, and the shown   *)
(* default against the RTC register; the presses are accounted for; and a  *)
(* boot whose deadline is over has its vblank: the tick that ended the     *)
(* time came with a finished frame, and the round after it sees it.        *)
(***************************************************************************)
VblankNext ==
  state = "BOOT" /\ left < 0 => IF phase = "poll" THEN frame ELSE vblank

BootMenuInv == DefaultShown /\ PressesAccounted /\ VblankNext

PmicFlags == PokFlags \cup {"other"}

(* The PMIC's flags are finitely many, so they can be counted. *)
LEMMA FlagsFinite ==
  ASSUME NEW S, S \subseteq PmicFlags
  PROVE  IsFiniteSet(S) /\ Cardinality(S) \in Nat
<1>1. IsFiniteSet({"short"}) /\ IsFiniteSet({"long"}) /\ IsFiniteSet({"down"})
      /\ IsFiniteSet({"other"})
  BY FS_Singleton
<1>2. IsFiniteSet({"short"} \cup {"long"}) /\ IsFiniteSet({"down"} \cup {"other"})
  BY <1>1, FS_Union
<1>3. IsFiniteSet(({"short"} \cup {"long"}) \cup ({"down"} \cup {"other"}))
  BY <1>2, FS_Union
<1>4. PmicFlags = ({"short"} \cup {"long"}) \cup ({"down"} \cup {"other"})
  BY DEF PmicFlags, PokFlags
<1>5. IsFiniteSet(PmicFlags)
  BY <1>3, <1>4
<1> QED BY <1>5, FS_Subset, FS_CardinalityType

(* Counting a part of a set and the rest. *)
LEMMA CardSplit ==
  ASSUME NEW S, IsFiniteSet(S), NEW T, T \subseteq S
  PROVE  /\ Cardinality(S) = Cardinality(T) + Cardinality(S \ T)
         /\ Cardinality(S) \in Nat /\ Cardinality(T) \in Nat /\ Cardinality(S \ T) \in Nat
<1>1. IsFiniteSet(T) /\ IsFiniteSet(S \ T) /\ S \cap T = T
  BY FS_Subset, FS_Difference
<1>2. Cardinality(S \ T) = Cardinality(S) - Cardinality(S \cap T)
  BY FS_Difference
<1>3. Cardinality(S) \in Nat /\ Cardinality(T) \in Nat /\ Cardinality(S \ T) \in Nat
  BY <1>1, FS_CardinalityType
<1>4. \A a, b, c \in Nat : c = a - b => a = b + c
  OBVIOUS
<1>5. Cardinality(S) = Cardinality(T) + Cardinality(S \ T)
  BY <1>1, <1>2, <1>3, <1>4
<1> QED BY <1>3, <1>5

(* The state the menu opens in. *)
LEMMA InitInv == BootMenuInit => BootMenuInv
<1> SUFFICES ASSUME BootMenuInit PROVE BootMenuInv
  OBVIOUS
<1> USE DEF BootMenuInit, LoopInit
<1>1. TypeOK
  <2>1. card \in Cards /\ card \in Card /\ items = BuildMenu(card)
    BY MenuAssumption DEF MenuInit
  <2>2. items \in Seq(LineId) /\ Len(items) >= 3
    BY <2>1, BuildMenuType
  <2>3. 0 \in 0 .. Len(items) - 1
    BY <2>2
  <2>4. selection \in 0 .. Len(items) - 1
    BY <2>2, <2>3, SetSelectionInside DEF MenuInit
  <2>5. scroll_top = 0 /\ selection_changed = FALSE
    BY DEF MenuInit
  <2>6. selection_changed \in BOOLEAN
    BY <2>5, Zenon
  <2>7. scroll_top \in Int
    BY <2>5
  <2> QED BY <2>1, <2>4, <2>6, <2>7, Zenon DEF TypeOK, Line, N
<1>2. rtcDef \in 0 .. 255 /\ rtcDef \in Int /\ IdleTime \in Nat /\ NConf \in 1 .. 32
  BY LoopAssumption, MenuAssumption
<1>3. BootMenuTypeOK
  <2>1. /\ def \in {Header, Undefined} \cup 0 .. 254
        /\ active \in {Header, Undefined} \cup 0 .. 254
        /\ left \in -1 .. IdleTime
    BY <1>2 DEF Undefined
  <2>2. /\ flags \subseteq PokFlags \cup {"other"} /\ got \subseteq PokFlags \cup {"other"}
        /\ {key, last_key} \subseteq {"none", "up", "down"}
        /\ {raised, delivered, presses} \subseteq Nat
    OBVIOUS
  <2>3. /\ rtcPriv \in BOOLEAN /\ privActive \in BOOLEAN /\ pending \in BOOLEAN
        /\ frame \in BOOLEAN /\ vblank \in BOOLEAN /\ auto_repeat \in BOOLEAN
    BY Zenon
  <2> QED BY <1>1, <1>2, <2>1, <2>2, <2>3 DEF BootMenuTypeOK, None
<1>4. active = rtcDef - 1
  BY <1>2 DEF Undefined
<1>5. PressesAccounted
  BY FS_EmptySet DEF PressesAccounted
<1>6. VblankNext
  BY DEF VblankNext
<1> QED BY <1>3, <1>4, <1>5, <1>6 DEF BootMenuInv, DefaultShown

(* What stays when the lines and the cursor do. *)
LEMMA MenuUnchanged ==
  ASSUME TypeOK, UNCHANGED menuVars
  PROVE  TypeOK'
BY DEF TypeOK, menuVars, Line, N

(* The PMIC raising a flag. *)
LEMMA PmicEventInv ==
  ASSUME BootMenuInv, PmicEvent
  PROVE  BootMenuInv'
<1> USE DEF BootMenuInv, DefaultShown, BootMenuTypeOK
<1>1. PICK f \in PmicFlags \ flags :
        raised' = raised + 1 /\ flags' = flags \cup {f} /\ pending' = Latch(flags, flags', pending)
  BY DEF PmicEvent, PmicFlags
<1>2. TypeOK'
  BY MenuUnchanged DEF PmicEvent
<1>3. flags' \subseteq PmicFlags /\ flags' # {} /\ pending' = TRUE
  BY <1>1 DEF Latch, PmicFlags
<1>4. DefaultShown'
  BY <1>1, <1>2, <1>3 DEF PmicEvent, PmicFlags, rtc, shown, keys, counts
<1>5. PressesAccounted'
  <2>1. IsFiniteSet(flags) /\ Cardinality(flags) \in Nat
    BY FlagsFinite DEF PmicFlags
  <2>2. Cardinality(flags') = Cardinality(flags) + 1
    BY <2>1, <1>1, FS_AddElement
  <2>3. delivered' = delivered /\ delivered \in Nat /\ raised \in Nat
    BY DEF PmicEvent
  <2> QED BY <2>1, <2>2, <2>3, <1>1, <1>3 DEF PressesAccounted
<1>6. VblankNext'
  BY DEF PmicEvent, VblankNext
<1> QED BY <1>4, <1>5, <1>6

(* The acknowledgement: what it clears had been read. *)
LEMMA AckIrqInv ==
  ASSUME BootMenuInv, AckIrq
  PROVE  BootMenuInv'
<1> USE DEF BootMenuInv, DefaultShown, BootMenuTypeOK
<1>1. flags' = flags \ got \/ flags' = flags
  BY DEF AckIrq, AckFlags
<1>2. TypeOK'
  BY MenuUnchanged DEF AckIrq
<1>3. (flags # {} => pending)' /\ pending' \in BOOLEAN
  BY DEF AckIrq, Latch
<1>4. /\ Cardinality(flags) = Cardinality(flags') + Cardinality((flags \ flags') \cap got)
      /\ Cardinality(flags) \in Nat /\ Cardinality(flags') \in Nat
      /\ Cardinality((flags \ flags') \cap got) \in Nat
  <2>1. IsFiniteSet(flags) /\ flags' \subseteq flags
    BY <1>1, FlagsFinite DEF PmicFlags
  <2>2. (flags \ flags') \cap got = flags \ flags'
    BY <1>1
  <2>3. /\ Cardinality(flags) = Cardinality(flags') + Cardinality(flags \ flags')
        /\ Cardinality(flags) \in Nat /\ Cardinality(flags') \in Nat
        /\ Cardinality(flags \ flags') \in Nat
    BY <2>1, CardSplit
  <2> QED BY <2>2, <2>3, Zenon
<1>5. delivered' = delivered + Cardinality((flags \ flags') \cap got) /\ raised' = raised
      /\ delivered \in Nat /\ raised \in Nat
  BY DEF AckIrq
<1>6. PressesAccounted'
  BY <1>3, <1>4, <1>5 DEF PressesAccounted
<1>7. DefaultShown'
  <2>1. flags' \subseteq PokFlags \cup {"other"} /\ delivered' \in Nat
    BY <1>1, <1>4, <1>5
  <2>2. UNCHANGED <<rtc, shown, state, boot_sel, left, got, frame, vblank, keys, presses, outcome>>
        /\ phase' = "round"
    BY DEF AckIrq
  <2> QED BY <2>1, <2>2, <1>2, <1>3, <1>5 DEF rtc, shown, keys
<1>8. VblankNext'
  BY DEF AckIrq, VblankNext
<1> QED BY <1>6, <1>7, <1>8

(* The clock, the frames and the fingers. *)
LEMMA WorldInv ==
  ASSUME BootMenuInv, Tick \/ FrameDone \/ PressKey \/ ReleaseKey
  PROVE  BootMenuInv'
<1> USE DEF BootMenuInv, DefaultShown, BootMenuTypeOK
<1>1. TypeOK'
  BY MenuUnchanged DEF Tick, FrameDone, PressKey, ReleaseKey
<1>2. PressesAccounted'
  BY DEF PressesAccounted, Tick, FrameDone, PressKey, ReleaseKey, irq, counts
<1>3. CASE Tick
  <2>1. left' \in -1 .. IdleTime
    BY <1>3, LoopAssumption DEF Tick, Run
  <2>2. keyLeft' \in {None} \cup -1 .. MaxOf(Debounce, MaxOf(FirstRepeat, NextRepeat))
    BY <1>3, LoopAssumption DEF Tick, Run, None, MaxOf
  <2>3. DefaultShown'
    BY <1>1, <1>3, <2>1, <2>2 DEF Tick, rtc, shown, counts
  <2>4. VblankNext'
    BY <1>3 DEF VblankNext, Tick
  <2> QED BY <1>2, <2>3, <2>4
<1>4. CASE FrameDone
  <2>1. DefaultShown'
    BY <1>1, <1>4 DEF FrameDone, rtc, shown, keys, counts
  <2>2. VblankNext'
    BY <1>4 DEF VblankNext, FrameDone
  <2> QED BY <1>2, <2>1, <2>2
<1>5. CASE PressKey \/ ReleaseKey
  <2>1. key' \in {"none", "up", "down"} /\ presses' \in Nat
    BY <1>5 DEF PressKey, ReleaseKey, counts
  <2>2. UNCHANGED <<rtc, shown, state, boot_sel, left, irq, last_key, keyLeft, auto_repeat,
                    raised, delivered, outcome>>
    BY <1>5 DEF PressKey, ReleaseKey, counts
  <2>3. DefaultShown'
    BY <1>1, <2>1, <2>2 DEF rtc, shown, irq
  <2>4. VblankNext'
    BY <2>2 DEF VblankNext, irq
  <2> QED BY <1>2, <2>3, <2>4
<1> QED BY <1>3, <1>4, <1>5

(* Reading the flags: a finished frame becomes the round's vblank. *)
LEMMA ReadIrqInv ==
  ASSUME BootMenuInv, ReadIrq
  PROVE  BootMenuInv'
<1> USE DEF BootMenuInv, DefaultShown, BootMenuTypeOK
<1>1. TypeOK'
  BY MenuUnchanged DEF ReadIrq
<1>2. got' \subseteq PokFlags \cup {"other"} /\ phase' \in {"ack", "round"}
  BY DEF ReadIrq, ErrorFlags, PokFlags
<1>3. vblank' = frame /\ frame' = FALSE
  BY DEF ReadIrq
<1>4. UNCHANGED <<rtc, shown, state, boot_sel, left, flags, pending, keys, counts, outcome>>
      /\ phase = "poll"
  BY DEF ReadIrq
<1>5. DefaultShown'
  <2>1. vblank' \in BOOLEAN /\ frame' \in BOOLEAN
    BY <1>3, Zenon
  <2> QED BY <1>1, <1>2, <1>4, <2>1 DEF rtc, shown, keys, counts
<1>6. PressesAccounted'
  BY <1>4 DEF PressesAccounted, counts
<1>7. VblankNext'
  BY <1>2, <1>3, <1>4 DEF VblankNext
<1> QED BY <1>5, <1>6, <1>7

(* Sampling the keys keeps their types. *)
LEMMA SampleKeysType ==
  ASSUME BootMenuTypeOK, SampleKeys
  PROVE  /\ {key', last_key'} \subseteq {"none", "up", "down"}
         /\ keyLeft' \in {None} \cup -1 .. MaxOf(Debounce, MaxOf(FirstRepeat, NextRepeat))
         /\ auto_repeat' \in BOOLEAN
<1> USE DEF BootMenuTypeOK
<1>1. {key', last_key'} \subseteq {"none", "up", "down"}
  BY DEF SampleKeys
<1>2. auto_repeat' \in BOOLEAN
  BY DEF SampleKeys
<1>3. keyLeft' \in {Debounce, None, NextRepeat, FirstRepeat, keyLeft}
  BY DEF SampleKeys
<1>4. keyLeft' \in {None} \cup -1 .. MaxOf(Debounce, MaxOf(FirstRepeat, NextRepeat))
  BY <1>3, LoopAssumption DEF MaxOf, None
<1> QED BY <1>1, <1>2, <1>4

(* The round that ends in a vblank with something to do. *)
LEMMA SwitchInv ==
  ASSUME BootMenuInv, Switch
  PROVE  BootMenuInv'
<1> USE DEF BootMenuInv, DefaultShown
<1>1. TypeOK'
  BY UpdateSound, KeyDirType DEF BootMenuTypeOK, Switch
<1>2. /\ {key', last_key'} \subseteq {"none", "up", "down"}
      /\ keyLeft' \in {None} \cup -1 .. MaxOf(Debounce, MaxOf(FirstRepeat, NextRepeat))
      /\ auto_repeat' \in BOOLEAN
  BY SampleKeysType DEF Switch
<1>3. UNCHANGED <<rtc, shown, state, boot_sel, left, irq, counts>>
      /\ outcome' \in {"off", "boot"}
  BY DEF Switch
<1>4. DefaultShown'
  BY <1>1, <1>2, <1>3 DEF BootMenuTypeOK, rtc, shown, irq, counts
<1>5. PressesAccounted' /\ VblankNext'
  BY <1>3 DEF PressesAccounted, VblankNext, irq, counts
<1> QED BY <1>4, <1>5

(* A line's id as a byte. *)
LEMMA ByteOfId ==
  ASSUME NEW d \in LineId \cup {-1}
  PROVE  /\ Byte(d) \in 0 .. 255
         /\ d = Byte(d) - 1 \/ d = Header
         /\ d \in {Header, Undefined} \cup 0 .. 254
<1>1. NConf \in Int /\ 1 <= NConf /\ NConf <= 32
  BY MenuAssumption
<1>2. d = Header \/ d = -1 \/ (d \in Int /\ 0 <= d /\ d < 255)
  BY <1>1 DEF LineId, Privacy, BOOTSEL_LAST, BOOTSEL_FEL
<1>3. CASE d = Header
  <2>1. \A a \in Int : a % 256 \in 0 .. 255
    OBVIOUS
  <2>2. d + 1 \in Int
    BY <1>3 DEF Header
  <2> QED BY <1>3, <2>1, <2>2, Zenon DEF Byte
<1>4. CASE d = -1
  BY <1>4 DEF Byte, Undefined
<1>5. CASE d \in Int /\ 0 <= d /\ d < 255
  BY <1>5 DEF Byte
<1> QED BY <1>2, <1>3, <1>4, <1>5

(* A round without a vblank, or with nothing to do at it. *)
LEMMA RoundInv ==
  ASSUME BootMenuInv, Round
  PROVE  BootMenuInv'
<1> USE DEF BootMenuInv, DefaultShown
<1>1. TypeOK'
  BY UpdateSound, KeyDirType DEF BootMenuTypeOK, Round
<1>2. Sel \in LineId
  BY SelType DEF BootMenuTypeOK, Round
<1>3. /\ {key', last_key'} \subseteq {"none", "up", "down"}
      /\ keyLeft' \in {None} \cup -1 .. MaxOf(Debounce, MaxOf(FirstRepeat, NextRepeat))
      /\ auto_repeat' \in BOOLEAN
  BY SampleKeysType DEF Round
<1>4. UNCHANGED <<flags, pending, got, frame, vblank, counts>> /\ phase' = "poll"
  BY DEF Round
<1>5. /\ rtcDef' \in 0 .. 255 /\ rtcPriv' \in BOOLEAN
      /\ def' \in {Header, Undefined} \cup 0 .. 254
      /\ active' \in {Header, Undefined} \cup 0 .. 254
      /\ privActive' \in BOOLEAN
      /\ active' = rtcDef' - 1 \/ active' = Header
  <2>1. CASE "long" \in got /\ Sel = Privacy
    <3>1. privActive' = ~privActive /\ rtcPriv' = privActive' /\ UNCHANGED <<def, active, rtcDef>>
      BY <2>1 DEF Round, PokLong, RtcSetFlag
    <3>2. privActive' \in BOOLEAN /\ rtcPriv' \in BOOLEAN
      BY <3>1, Zenon DEF BootMenuTypeOK
    <3> QED BY <3>1, <3>2 DEF BootMenuTypeOK
  <2>2. CASE "long" \in got /\ Sel # Privacy
    <3>1. def' \in LineId \cup {-1} /\ active' = def' /\ rtcDef' = Byte(def')
      BY <1>2, <2>2 DEF Round, PokLong, RtcBootselSet
    <3>2. rtcPriv' = FALSE /\ privActive' = privActive
      BY <2>2 DEF Round, PokLong, RtcBootselSet
    <3>3. rtcPriv' \in BOOLEAN /\ privActive' \in BOOLEAN
      BY <3>2, Zenon DEF BootMenuTypeOK
    <3>4. /\ Byte(def') \in 0 .. 255
          /\ def' = Byte(def') - 1 \/ def' = Header
          /\ def' \in {Header, Undefined} \cup 0 .. 254
      BY <3>1, ByteOfId
    <3> QED BY <3>1, <3>3, <3>4, Zenon
  <2>3. CASE "long" \notin got
    BY <2>3 DEF Round, PokLong, BootMenuTypeOK, rtc, shown
  <2> QED BY <2>1, <2>2, <2>3
<1>6. /\ state' \in {"MENU", "OFF", "BOOT"}
      /\ boot_sel' \in {Header, -1} \cup 0 .. BOOTSEL_POWEROFF - 1
      /\ outcome' \in {"none", "fel", "emmc"}
  <2>1. BOOTSEL_POWEROFF \in Int
    BY MenuAssumption DEF BOOTSEL_POWEROFF
  <2>2. Sel < BOOTSEL_POWEROFF => Sel \in {Header, -1} \cup 0 .. BOOTSEL_POWEROFF - 1
    BY <1>2, MenuAssumption DEF LineId, BOOTSEL_POWEROFF, BOOTSEL_LAST, BOOTSEL_FEL, Privacy
  <2> QED BY <2>1, <2>2 DEF Round, PokShort, BootMenuTypeOK
<1>7. left' \in -1 .. IdleTime /\ (UserEvent => left' >= 0) /\ (~UserEvent => left' = left)
  BY LoopAssumption DEF Round, BootMenuTypeOK
<1>8. DefaultShown'
  BY <1>1, <1>3, <1>4, <1>5, <1>6, <1>7 DEF BootMenuTypeOK, counts
<1>9. PressesAccounted'
  BY <1>4 DEF PressesAccounted, counts
<1>10. VblankNext'
  <2>1. "short" \in got => UserEvent
    BY DEF UserEvent, PokFlags
  <2>2. "short" \notin got /\ state' = "BOOT" => state = "BOOT" /\ ~vblank
    BY DEF Round, PokShort
  <2>3. state = "BOOT" /\ ~vblank => ~(left < 0)
    BY DEF VblankNext, Round
  <2>4. left \in Int /\ left' \in Int
    BY <1>7, LoopAssumption DEF BootMenuTypeOK
  <2> QED BY <2>1, <2>2, <2>3, <2>4, <1>7 DEF VblankNext
<1> QED BY <1>8, <1>9, <1>10

LEMMA StepInv == BootMenuInv /\ [BootMenuNext]_vars => BootMenuInv'
<1> SUFFICES ASSUME BootMenuInv, [BootMenuNext]_vars PROVE BootMenuInv'
  OBVIOUS
<1>1. CASE UNCHANGED vars
  <2>1. TypeOK'
    BY <1>1, MenuUnchanged DEF vars, BootMenuInv, DefaultShown, BootMenuTypeOK
  <2> QED BY <1>1, <2>1 DEF vars, rtc, shown, irq, keys, counts, BootMenuInv, DefaultShown,
             BootMenuTypeOK, PressesAccounted, VblankNext
<1>2. CASE BootMenuNext
  BY <1>2, WorldInv, PmicEventInv, ReadIrqInv, AckIrqInv, RoundInv, SwitchInv
     DEF BootMenuNext, Loop
<1> QED BY <1>1, <1>2

LEMMA Invariance == BootMenuSpec => []BootMenuInv
BY InitInv, StepInv, PTL DEF BootMenuSpec
-----------------------------------------------------------------------------
(* The line shown as the default is always the one the RTC register holds: *)
(* boot_gui() keeps rtcsel, the coloured line and the register in step     *)
(* whatever is pressed on whatever line.  The types are part of it.        *)
THEOREM DefaultAlwaysShown == BootMenuSpec => []DefaultShown
<1>1. BootMenuInv => DefaultShown
  BY DEF BootMenuInv
<1> QED BY <1>1, Invariance, PTL

(* Every flag the PMIC raises is read by gui_get_events() before it is     *)
(* cleared, or still set with the interrupt pending, also when the PMIC    *)
(* cannot be read or written and when flags come between the two accesses. *)
THEOREM NoPressLost == BootMenuSpec => []PressesAccounted
<1>1. BootMenuInv => PressesAccounted
  BY DEF BootMenuInv
<1> QED BY <1>1, Invariance, PTL

(* The ten second deadline never replaces a boot the user has asked for:   *)
(* the vblank that starts it always comes before the time is over.         *)
THEOREM BootKept == BootMenuSpec => BootNotOverridden
<1>1. BootMenuInv /\ [BootMenuNext]_vars
        => [state = "BOOT" /\ state' = "OFF" => "short" \in got]_vars
  <2> SUFFICES ASSUME BootMenuInv, BootMenuNext, state = "BOOT", state' = "OFF", "short" \notin got
               PROVE  FALSE
    BY DEF vars
  <2>1. Round
    BY DEF BootMenuNext, Loop, ReadIrq, AckIrq, Switch, Tick, FrameDone, PmicEvent, PressKey, ReleaseKey
  <2>2. Expired /\ ~vblank /\ phase = "round"
    BY <2>1 DEF Round, PokShort
  <2>3. left < 0
    BY <2>2 DEF Expired, Past
  <2> QED BY <2>2, <2>3 DEF BootMenuInv, VblankNext
<1> QED BY <1>1, Invariance, PTL DEF BootMenuSpec, BootNotOverridden

(* After each gui_menu_update() the cursor's line is among those drawn,    *)
(* and it has not gone from an entry to a header, for menus of any length. *)
THEOREM CursorAlwaysSound == BootMenuSpec => CursorSound
<1>1. BootMenuInv /\ [BootMenuNext]_vars
        => [/\ selection' \in scroll_top' .. scroll_top' + ScrollHeight - 1
            /\ CanRest(selection) => CanRest(selection')]_menuVars
  <2> SUFFICES ASSUME BootMenuInv, [BootMenuNext]_vars, menuVars' # menuVars
               PROVE  /\ selection' \in scroll_top' .. scroll_top' + ScrollHeight - 1
                      /\ CanRest(selection) => CanRest(selection')
    OBVIOUS
  <2>1. Update(KeyDir)
    BY DEF vars, BootMenuNext, Loop, ReadIrq, AckIrq, Round, Switch, Tick, FrameDone, PmicEvent,
           PressKey, ReleaseKey
  <2>2. TypeOK
    BY DEF BootMenuInv, DefaultShown, BootMenuTypeOK
  <2> QED BY <2>1, <2>2, UpdateSound, KeyDirType
<1> QED BY <1>1, Invariance, PTL DEF BootMenuSpec, CursorSound
=============================================================================
