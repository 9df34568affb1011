----------------------------- MODULE MCConfTool -----------------------------
EXTENDS ConfTool

L(k, v) == [key |-> k, val |-> v]
(* Kernel k, firmware a, device tree d; "k2" is another path of k. *)
RealDef == [k |-> "k", k2 |-> "k", a |-> "a", d |-> "d", s |-> "s", gone |-> "none"]
BodyDef == [k |-> [size |-> 5, uimage |-> TRUE], a |-> [size |-> 3, uimage |-> FALSE],
            d |-> [size |-> 2, uimage |-> TRUE], s |-> [size |-> 0, uimage |-> FALSE]]

One(no, kernel) == << L("no", no), L("name", "x"), L("linux", kernel), L("atf", "a"), L("dtb", "d") >>
Two   == <<L("device_id", "short")>> \o One(0, "k") \o <<L("junk", "")>> \o One(2, "k2") \o <<L("splash", "s"), L("bootargs", "b")>>
Valids == { One(1, "k"), Two, <<>>, One(0, "k") \o One(1, "k") \o One(2, "s") }
(* Every valid one, with a line missing, doubled or replaced. *)
Without(c) == {SubSeq(c, 1, n - 1) \o SubSeq(c, n + 1, Len(c)) : n \in DOMAIN c}
Doubled(c) == {SubSeq(c, 1, n) \o SubSeq(c, n, Len(c)) : n \in DOMAIN c}
Replaced(c) == UNION {{[c EXCEPT ![n] = l] : l \in {L("no", 3), L("name", ""), L("linux", "gone"),
                                                    L("device_id", "long"), L("bootargs", "b")}} : n \in DOMAIN c}
SomeConfs == Valids \cup Without(Two) \cup Doubled(Two) \cup Replaced(Two)

F(n, p, kind) == [name |-> n, path |-> p, kind |-> kind]
SomeDirs == { <<>>, <<F("dot", "a", "other"), F("off", "s", "short"), F("logo", "k2", "short"), F("more", "d", "short")>>,
              <<F("off", "a", "short"), F("off2", "a", "long")>>,
              << F("f1", "a", "short"), F("f2", "d", "short"), F("f3", "k", "short"),
                 F("f4", "k", "short"), F("f5", "s", "short")>> }

(* A partition that holds another bootfs, with another default. *)
OldConf == <<[type |-> "linux", off |-> 8, len |-> 3]>>
OldDev == [x \in Address |-> CASE x = 0 -> SuperBlock(1)
                               [] x \in {TableAt(0), TableAt(1)} -> ConfBlock(OldConf)
                               [] x >= DataStart -> Cell(<<"old", x>>)
                               [] OTHER -> Zeroed]
SomeDevs == {OldDev}
JustOne == {One(1, "k")}
NoDir == {<<>>}
=============================================================================
