------------------------------ MODULE GuiMenu ------------------------------
(***************************************************************************)
(* The menu widget of gui.c: a list of lines, some of which are headers    *)
(* (negative id), a cursor the volume keys move over the others, and the   *)
(* window of lines that is drawn.  boot_gui() of main.c fills it; the list *)
(* it makes is BuildMenu.  Lines are numbered from 0 as in the code.       *)
(*                                                                         *)
(* A definition X_y in front of X is a faulty variant of X, there only to  *)
(* see that the properties notice it; nothing uses it.                     *)
(***************************************************************************)
EXTENDS Integers, Sequences, FiniteSets

CONSTANTS
  NConf,         \* configuration blocks per bootfs (32)
  ScrollHeight,  \* lines of the window: gui_menu() sets h - 4 (17)
  Slack,         \* SLACK (2)
  Cards          \* what the two media may hold: see Card

Conf  == 0 .. NConf - 1
Dev   == {"emmc", "sd"}
(* The media as boot_gui() finds them: which bootfs are not NULL, which of *)
(* their blocks carry :BFCONF:, and where p-boot itself was loaded from.   *)
Card  == [fs : SUBSET Dev, conf : [Dev -> SUBSET Conf], src : {"MMC0", "MMC2", "FEL"}]

ASSUME MenuAssumption ==
  /\ NConf \in 1 .. 32
  /\ ScrollHeight \in Nat /\ Slack \in Nat /\ ScrollHeight > 2 * Slack
  /\ Cards \subseteq Card

BOOTSEL_POWEROFF == 2 * NConf
BOOTSEL_EMMC     == 2 * NConf + 1
BOOTSEL_FEL      == 2 * NConf + 2
BOOTSEL_LAST     == BOOTSEL_FEL
Privacy == 100
Header  == -2

VARIABLES
  card,        \* globals->emmc, globals->sd, globals->boot_source
  items,       \* the ids of the lines; items[i + 1] is the code's items[i].id
  selection,   \* the cursor
  scroll_top,  \* first line drawn
  selection_changed

menuVars == <<card, items, selection, scroll_top, selection_changed>>

N          == Len(items)
Line       == 0 .. N - 1
IdAt(i)    == items[i + 1]
CanRest(i) == IdAt(i) >= 0

(* The lines boot_gui() adds, in order; the loops over the configuration   *)
(* blocks leave the marked ones in ascending order.                        *)
Below(S, id) == {j \in S : j < id}
InOrder(S)   == [k \in 1 .. Cardinality(S) |->
                   CHOOSE id \in S : Cardinality(Below(S, id)) = k - 1]
ConfIds(c, d, base) == InOrder(IF d \in c.fs THEN {base + i : i \in c.conf[d]} ELSE {})
BuildMenu(c) ==
  (IF "emmc" \in c.fs \/ c.src # "MMC2"
     THEN <<Header>> \o ConfIds(c, "emmc", 0)
          \o (IF c.src # "MMC2" THEN <<BOOTSEL_EMMC>> ELSE <<>>) \o <<Header>>
     ELSE <<>>)
  \o (IF "sd" \in c.fs
        THEN <<Header>> \o ConfIds(c, "sd", NConf) \o <<Header>>
        ELSE <<>>)
  \o <<Privacy, BOOTSEL_FEL, BOOTSEL_POWEROFF>>

(* gui_menu_set_selection(): the first line with that id, else no change. *)
SetSelection(ids, id, sel) ==
  IF \E i \in 1 .. Len(ids) : ids[i] = id
    THEN (CHOOSE i \in 1 .. Len(ids) :
            ids[i] = id /\ \A j \in 1 .. i - 1 : ids[j] # id) - 1
    ELSE sel

(* gui_menu_update(), moving: one line at a time in direction dir, from    *)
(* the last line to the first and back, until a line that is no header or  *)
(* the cursor's own line comes up.                                         *)
Along(sel, dir, k) ==  \* the line k steps from sel, for k \in 1 .. N
  LET l == sel + dir * k IN IF l >= N THEN l - N ELSE IF l < 0 THEN l + N ELSE l
Stops(sel, l)  == l = sel \/ CanRest(l)
Move(sel, dir) ==
  LET k == CHOOSE j \in 1 .. N :
             /\ Stops(sel, Along(sel, dir, j))
             /\ \A i \in 1 .. j - 1 : ~Stops(sel, Along(sel, dir, i))
      new == Along(sel, dir, k)
  IN IF new # sel /\ CanRest(new) THEN new ELSE sel

(* gui_menu_update(), scrolling: keep Slack lines around the cursor. *)
MinOf(a, b) == IF a < b THEN a ELSE b
MaxOf(a, b) == IF a > b THEN a ELSE b
ScrollTop_noslack(top, sel) ==
  IF sel > top + ScrollHeight THEN sel - ScrollHeight
  ELSE IF sel < top THEN sel ELSE top
ScrollTop(top, sel) ==
  IF sel > top + ScrollHeight - Slack - 1
    THEN MinOf(sel + Slack + 1 - ScrollHeight, N - ScrollHeight)
  ELSE IF sel < top + Slack THEN MaxOf(0, sel - Slack)
  ELSE top

(* gui_menu_update() for the events of one round: dir is 1 for volume      *)
(* down, -1 for volume up, 0 for neither.                                  *)
Update(dir) ==
  /\ selection' = IF dir = 0 THEN selection ELSE Move(selection, dir)
  /\ selection_changed' = (selection' # selection)
  /\ scroll_top' = ScrollTop(scroll_top, selection')
  /\ UNCHANGED <<card, items>>

(* boot_gui() puts the cursor on the line id, if there is one. *)
MenuInit(id) ==
  /\ card \in Cards
  /\ items = BuildMenu(card)
  /\ selection = SetSelection(items, id, 0)
  /\ scroll_top = 0 /\ selection_changed = FALSE
-----------------------------------------------------------------------------
TypeOK ==
  /\ card \in Cards
  /\ items = BuildMenu(card)
  /\ selection \in Line
  /\ scroll_top \in Int
  /\ selection_changed \in BOOLEAN

(* After every gui_menu_update() the cursor's line is among those drawn,   *)
(* and once on an entry the cursor never goes to a header line.            *)
CursorSound ==
  [][/\ selection' \in scroll_top' .. scroll_top' + ScrollHeight - 1
     /\ CanRest(selection) => CanRest(selection')]_menuVars
=============================================================================
