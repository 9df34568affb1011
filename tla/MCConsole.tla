----------------------------- MODULE MCConsole -----------------------------
EXTENDS Console

(* Small fonts: bits of the code and the row; one with long runs of equal  *)
(* rows; one without any.  The last row is not empty.                      *)
Rows(byte(_)) ==
  [ch \in 0 .. 95 |-> [y \in 0 .. 1 |->
     LET b == IF ch = 95 /\ y = 1 THEN 3 ELSE byte(2 * ch + y)
     IN [x \in 0 .. 1 |-> (b \div 2 ^ (1 - x)) % 2 = 1]]]
Mixed(k)  == (k * 7 + (k \div 5)) % 4
Sparse(k) == IF k % 9 = 0 THEN k % 4 ELSE 0
Busy(k)   == (k % 3) + 1
MCFonts == {Rows(Mixed), Rows(Sparse), Rows(Busy)}

(* A short line, one that fits, one that is cut off, one with a code no    *)
(* glyph is for. *)
MCText(id) ==
  CASE id = TitleText -> <<84>> [] id = VersionText -> <<86, 32>> [] id = NoBatText -> <<78, 79>>
    [] id \in {EmmcText, SdText} -> <<69, 58>>
    [] id = 0 -> <<65, 66, 67, 68>> [] id = 1 -> <<97, 48>>
    [] OTHER -> <<70, 71, 72>>

MCCards ==
  {[fs |-> {"sd"}, conf |-> [d \in Dev |-> {}], src |-> "MMC2"],
   [fs |-> {"emmc"}, conf |-> [d \in Dev |-> {0, 1}], src |-> "MMC0"]}
Battery(present, safe, charging, cap) ==
  [present |-> present, safe |-> safe, uvlo |-> FALSE, charging |-> charging, cap |-> cap]
MCBats  == {Battery(FALSE, FALSE, FALSE, -1), Battery(TRUE, TRUE, TRUE, 97)}
MCJunks == {<<>>, <<74>>}
MCDefs  == {-1, 1, 6}

D(conv, arg, align, pad0) == [conv |-> conv, arg |-> arg, align |-> align, pad0 |-> pad0]
MCDirectives ==
  {D("literal", NL, 0, FALSE), D("literal", "o", 0, FALSE), D("s", <<"a", NL, "b", "c">>, 0, FALSE),
   D("u", 10, 3, FALSE), D("d", -7, 3, FALSE), D("x", 26, 3, TRUE), D("f", 1250, 0, FALSE)}
MCBuilds == {{"SERIAL", "LOG"}, {"SERIAL", "VIDEO"}, {"LOG", "VIDEO"}, {}}
=============================================================================
