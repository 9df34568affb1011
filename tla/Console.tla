------------------------------ MODULE Console ------------------------------
(***************************************************************************)
(* Text on its way out of p-boot.  printf() writes to the serial port, to  *)
(* the log handed to Linux and to a console in memory, whichever of them   *)
(* the build has; the log starts in SRAM C and moves to DRAM once          *)
(* main_sram_only() has set that up.  The build without any of them shows  *)
(* a menu instead (MenuScreen).                                            *)
(*                                                                         *)
(* Printed characters are one-character strings.  A format is taken apart  *)
(* into directives: a literal character or a conversion with its argument. *)
(*                                                                         *)
(* A definition X_y in front of X is a faulty variant of X, there only to  *)
(* see that the properties notice it; nothing uses it.                     *)
(***************************************************************************)
EXTENDS MenuScreen, SequencesExt

CONSTANTS
  Builds,       \* sets of "SERIAL", "LOG" and "VIDEO": the macros of a build
  Directives,   \* what may be printed: [conv, arg, align, pad0]
  MaxPrints,    \* bound: directives printed in one run
  TtyW, TtyH,   \* size of the system console (45, 45)
  MaxRounds,    \* bound: rounds of the menu's loop
  Defs          \* boot defaults the RTC may hold

NL == "\n"
CR == "\r"
NUL == "nul"
NULL == <<"NULL">>                         \* a log not there yet
NoConsole == [screen |-> <<>>, cursor |-> 0]
HexDigit == <<"0", "1", "2", "3", "4", "5", "6", "7", "8", "9", "a", "b", "c", "d", "e", "f">>

VARIABLES
  build,   \* which outputs there are
  pc,      \* "sram", "globals", "console", "ready"; "events" and "handle" in the menu
  out,     \* what went where: [globals, uart, tmp_log, log, sys_console]
  said,    \* what was printed
  fed,     \* how many directives were printed before the console was there
  rounds

vars == <<build, pc, out, said, fed, rounds, menuVars, screenVars>>
-----------------------------------------------------------------------------
(* vidconsole_putc(): a position runs over the screen; at its end the      *)
(* screen moves up a row.                                                  *)
TtySize == TtyW * TtyH
Scrolled(screen) ==
  memset(memcpy(screen, 0, TtyW, TtyW * (TtyH - 1)), TtyW * (TtyH - 1), NUL, TtyW)
vidconsole_putc(c, ch) ==
  LET next == IF ch = NL THEN c.cursor + (TtyW - (c.cursor % TtyW)) ELSE c.cursor
      s == IF next >= TtySize
             THEN [screen |-> Scrolled(c.screen), cursor |-> TtyW * (TtyH - 1)]
             ELSE [c EXCEPT !.cursor = next]
  IN IF c = NoConsole \/ ch = CR THEN c
     ELSE IF ch = NL THEN s
     ELSE [screen |-> [s.screen EXCEPT ![s.cursor] = ch], cursor |-> s.cursor + 1]

(* append_log(): without CR, to DRAM as soon as there are globals.  What   *)
(* is written through a log_end that is still NULL is lost.                *)
append_log(o, c) ==
  IF c = CR THEN o
  ELSE IF ~o.globals THEN [o EXCEPT !.tmp_log = Append(@, c)]
  ELSE [o EXCEPT !.log = IF @ = NULL THEN NULL ELSE Append(@, c)]

real_putc(o, c) ==
  LET sent == IF "SERIAL" \in build THEN [o EXCEPT !.uart = Append(@, c)] ELSE o
      kept == IF "LOG" \in build THEN append_log(sent, c) ELSE sent
  IN IF "VIDEO" \in build THEN [kept EXCEPT !.sys_console = vidconsole_putc(@, c)] ELSE kept

(* A line feed is sent as CR LF. *)
real_puts(o, s) ==
  FoldLeft(LAMBDA a, c : real_putc(IF c = NL THEN real_putc(a, CR) ELSE a, c), o, s)
Pad(o, n, pad0) == real_puts(o, [k \in 1 .. MaxOf(n, 0) |-> IF pad0 THEN "0" ELSE " "])

put_uint(o, v, align, pad0) ==
  LET d == digits(v, 10)
  IN real_puts(Pad(o, align - Len(d), pad0), [k \in 1 .. Len(d) |-> HexDigit[d[k] + 1]])
put_int(o, v, align, pad0) ==
  IF v < 0 THEN put_uint(real_putc(o, "-"), -v, align - 1, FALSE) ELSE put_uint(o, v, align, FALSE)
put_uint_div_by_1000(o, v) ==
  LET whole == IF v >= 1000 THEN put_uint(o, v \div 1000, 0, FALSE) ELSE real_putc(o, "0")
  IN put_uint(real_putc(whole, "."), v % 1000, 0, FALSE)
real_put_hex(o, v, align, pad0) ==
  LET d == digits(v, 16)
  IN real_puts(Pad(o, align - Len(d), pad0), [k \in 1 .. Len(d) |-> HexDigit[d[k] + 1]])

(* One turn of real_printf()'s loop. *)
real_printf(o, d) ==
  CASE d.conv = "literal" -> real_puts(o, <<d.arg>>)
    [] d.conv = "c" -> real_putc(o, d.arg)
    [] d.conv = "s" -> real_puts(o, d.arg)
    [] d.conv = "u" -> put_uint(o, d.arg, d.align, d.pad0)
    [] d.conv = "x" -> real_put_hex(o, d.arg, d.align, d.pad0)
    [] d.conv = "p" -> real_put_hex(o, d.arg, 8, TRUE)
    [] d.conv = "d" -> put_int(o, d.arg, d.align, d.pad0)
    [] d.conv = "f" -> put_uint_div_by_1000(o, d.arg)
-----------------------------------------------------------------------------
Emit(d) ==
  /\ pc \in {"sram", "ready"} /\ build # {} /\ Len(said) < MaxPrints
  /\ out' = real_printf(out, d) /\ said' = Append(said, d)
  /\ UNCHANGED <<build, pc, fed, rounds, menuVars, screenVars>>

(* main_sram_only(), after DRAM is found: the globals are cleared, so      *)
(* log_end is NULL; then the caches and the MMU are set up, silently.      *)
SetGlobals ==
  /\ pc = "sram" /\ pc' = "globals"
  /\ out' = [out EXCEPT !.globals = TRUE, !.log = NULL]
  /\ UNCHANGED <<build, said, fed, rounds, menuVars, screenVars>>
(* vidconsole_init() of the system console. *)
SetConsole ==
  /\ pc = "globals" /\ pc' = "console"
  /\ out' = IF "VIDEO" \in build
              THEN [out EXCEPT !.sys_console =
                      [screen |-> [p \in 0 .. TtySize - 1 |-> " "], cursor |-> 0]]
              ELSE out
  /\ fed' = IF "LOG" \in build THEN 0 ELSE Len(said)
  /\ UNCHANGED <<build, said, rounds, menuVars, screenVars>>
(* The log moves to DRAM, and what it holds is shown on the console. *)
Moved_empty(o) == [o EXCEPT !.log = <<>>]
Moved(o) == [o EXCEPT !.log = o.tmp_log]
MoveLog ==
  /\ pc = "console" /\ pc' = "ready"
  /\ LET o == Moved(out) IN
     out' = IF "LOG" \notin build THEN out
            ELSE IF "VIDEO" \notin build THEN o
            ELSE [o EXCEPT !.sys_console = FoldLeft(vidconsole_putc, @, o.log)]
  /\ UNCHANGED <<build, said, fed, rounds, menuVars, screenVars>>

OpenMenu ==
  /\ pc = "ready" /\ build = {} /\ pc' = "events"
  /\ \E def \in Defs, flag \in BOOLEAN : boot_gui(def, flag)
  /\ UNCHANGED <<build, out, said, fed, rounds>>
(* gui_get_events() updates the menu, then boot_gui() looks at the keys. *)
Events ==
  /\ pc = "events" /\ rounds < MaxRounds /\ pc' = "handle" /\ rounds' = rounds + 1
  /\ \E dir \in {-1, 0, 1} : gui_menu_update(dir)
  /\ UNCHANGED <<build, out, said, fed>>
Handle ==
  /\ pc = "handle" /\ pc' = "events"
  /\ LongPress \/ UNCHANGED <<menuVars, screenVars>>
  /\ UNCHANGED <<build, out, said, fed, rounds>>

Init ==
  /\ build \in Builds /\ pc = "sram" /\ said = <<>> /\ fed = 0 /\ rounds = 0
  /\ out = [globals |-> FALSE, uart |-> <<>>, tmp_log |-> <<>>, log |-> NULL, sys_console |-> NoConsole]
  /\ NoMenu
Next ==
  \/ \E d \in Directives : Emit(d)
  \/ SetGlobals \/ SetConsole \/ MoveLog
  \/ OpenMenu \/ Events \/ Handle
Spec == Init /\ [][Next]_vars
-----------------------------------------------------------------------------
(* What a directive says: a number's digits by their places, right-        *)
(* justified to the width asked for.                                       *)
Places(v, base) == CHOOSE n \in 1 .. 10 : base ^ n > v /\ (n = 1 \/ base ^ (n - 1) <= v)
Written(v, base) ==
  LET n == Places(v, base)
  IN [k \in 1 .. n |-> HexDigit[((v \div base ^ (n - k)) % base) + 1]]
Justified(s, align, pad) == [k \in 1 .. MaxOf(align - Len(s), 0) |-> pad] \o s
Saying(d) ==
  LET pad == IF d.pad0 THEN "0" ELSE " " IN
  CASE d.conv \in {"literal", "c"} -> <<d.arg>>
    [] d.conv = "s" -> d.arg
    [] d.conv = "u" -> Justified(Written(d.arg, 10), d.align, pad)
    [] d.conv = "x" -> Justified(Written(d.arg, 16), d.align, pad)
    [] d.conv = "p" -> Justified(Written(d.arg, 16), 8, "0")
    [] d.conv = "d" -> (IF d.arg < 0 THEN <<"-">> ELSE <<>>)
                       \o Justified(Written(IF d.arg < 0 THEN -d.arg ELSE d.arg, 10),
                                    IF d.arg < 0 THEN d.align - 1 ELSE d.align, " ")
    [] d.conv = "f" -> Written(d.arg \div 1000, 10) \o <<".">> \o Written(d.arg % 1000, 10)
Said(from) == FoldLeft(LAMBDA a, d : a \o Saying(d), <<>>, SubSeq(said, from, Len(said)))

(* The characters one sees, with the row or the line each is on. *)
Seen(c) == c \notin {" ", NUL, NL}
OnScreen ==
  SelectSeq([p \in 1 .. TtySize |-> [ch |-> out.sys_console.screen[p - 1], at |-> (p - 1) \div TtyW]],
            LAMBDA e : Seen(e.ch))
LineNo(text, k) == Len(SelectSeq(SubSeq(text, 1, k), LAMBDA c : c = NL))
InText(text) ==
  SelectSeq([k \in 1 .. Len(text) |-> [ch |-> text[k], at |-> LineNo(text, k)]],
            LAMBDA e : Seen(e.ch))
(* Rows that the lines from line n on may take. *)
RowsFrom(text, n) ==
  LET l(m) == Cardinality({k \in DOMAIN text : text[k] # NL /\ LineNo(text, k) = m})
      f[m \in n .. LineNo(text, Len(text)) + 1] ==
        IF m > LineNo(text, Len(text)) THEN 0 ELSE (l(m) \div TtyW) + 1 + f[m + 1]
  IN f[n]

(* The screen shows the end of the text, in order, every line on rows of   *)
(* its own, and at least the last lines that fit.                          *)
ScreenShows(text) ==
  LET s == OnScreen   t == InText(text)
      back == Len(t) - Len(s)
  IN /\ back >= 0
     /\ \A k \in DOMAIN s : s[k].ch = t[k + back].ch
     /\ \A j, k \in DOMAIN s : s[j].at = s[k].at => t[j + back].at = t[k + back].at
     /\ \A k \in 1 .. back : RowsFrom(text, t[k].at) > TtyH

(* Nothing printed is lost, changed or reordered: the serial port has it,  *)
(* every line feed after a CR; the log has it without the CRs, in SRAM or, *)
(* from the move on, in DRAM; and the console shows the end of what was    *)
(* printed since it is there, with a log of all of it.                     *)
OutputKept ==
  /\ "SERIAL" \in build =>
       /\ SelectSeq(out.uart, LAMBDA c : c # CR) = Said(1)
       /\ \A k \in DOMAIN out.uart : out.uart[k] = NL => k > 1 /\ out.uart[k - 1] = CR
  /\ "LOG" \in build => Said(1) = IF pc = "ready" THEN out.log ELSE out.tmp_log
  /\ "VIDEO" \in build /\ pc = "ready" => ScreenShows(Said(fed + 1))

(* After every gui_menu_update() the pixels of the menu show what the      *)
(* menu's state and the RTC say (see ScreenRight), and the line of the     *)
(* privacy mode is marked whenever the flag is set in the RTC.  It may be  *)
(* marked when it is not: a long press that stores a default clears the    *)
(* flag (rtc_bootsel_set()) and leaves the line.                           *)
MenuReadable ==
  pc = "handle" => ScreenRight /\ \A i \in Line : IdAt(i) = Privacy /\ priv_flag => active[i]
=============================================================================
