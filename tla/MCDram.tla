------------------------------- MODULE MCDram -------------------------------
(* Every geometry the detection looks for, as a single rank of full and    *)
(* half width; two ranks of equal and of unequal sizes around those of the *)
(* PinePhones (2 GiB, 3 GiB); and chips that cannot be trained.            *)
EXTENDS Dram
Single(g, full, sound) == [dual |-> FALSE, full |-> full, sound |-> sound, ranks |-> [k \in Rank |-> g]]
Pair(g, h) == [dual |-> TRUE, full |-> TRUE, sound |-> TRUE, ranks |-> [k \in Rank |-> IF k = 0 THEN g ELSE h]]
Pinephone == {Geometry(15, 3, 3), Geometry(16, 3, 3), Geometry(14, 3, 3), Geometry(15, 2, 2), Geometry(11, 2, 0)}
MCChips ==
  {Single(g, full, TRUE) : g \in {x \in RankPara : mctl_calc_rank_size(x) <= Window}, full \in BOOLEAN}
    \cup {c \in {Pair(g, h) : g \in Pinephone, h \in Pinephone} : TrueSize(c) <= Window}
    \cup {Single(Geometry(15, 3, 3), full, FALSE) : full \in BOOLEAN}
=============================================================================
