-------------------------------- MODULE Fdt --------------------------------
(***************************************************************************)
(* The part of libfdt that p-boot uses, as operators on a flattened device *)
(* tree: reservation entries, structure block and strings block in one     *)
(* buffer of "total" words.  The structure block is a sequence of tags; a  *)
(* structure offset is an index into it, 0 is -FDT_ERR_NOTFOUND.  Every    *)
(* insertion moves what follows, so that offsets and pointers into the     *)
(* blob go stale, as in the code.                                          *)
(*                                                                         *)
(* libfdt is built with FDT_ASSUME_MASK 0xff: no checks of the blob, and   *)
(* no roll back of a string after a failed insertion.                      *)
(*                                                                         *)
(* A definition X_y in front of X is a faulty variant of X, there only to  *)
(* see that the properties notice it; nothing uses it.                     *)
(***************************************************************************)
EXTENDS Integers, Sequences, FiniteSets, SequencesExt, FiniteSetsExt

(* Tags.  A node name has a base and a unit address, "" for none; the      *)
(* length of a value is in words.                                          *)
Begin(base, unit) == [t |-> "begin", base |-> base, unit |-> unit]
Prop(name, val, len) == [t |-> "prop", name |-> name, val |-> val, len |-> len]
EndNode == [t |-> "end"]
Nop == [t |-> "nop"]
Fin == [t |-> "fin"]

TagWords(k) == CASE k.t = "begin" -> 2 [] k.t = "prop" -> 3 + k.len [] OTHER -> 1
Words(st) == FoldLeft(LAMBDA n, k : n + TagWords(k), 0, st)
HeaderWords == 10
RsvWords == 4

(* fdt_data_size_() and the limit fdt_splice_() keeps. *)
fdt_data_size(b) == HeaderWords + RsvWords * (Len(b.rsv) + 1) + Words(b.st) + Len(b.strs)
SpliceOk_sloppy(b, delta) == fdt_data_size(b) <= b.total
SpliceOk(b, delta) == fdt_data_size(b) + delta <= b.total
-----------------------------------------------------------------------------
(* fdt_next_node() with its depth: how many nodes are open at j that were  *)
(* not before i.                                                           *)
Open(st, i, j) ==
  Cardinality({k \in i .. j : st[k].t = "begin"}) - Cardinality({k \in i .. j : st[k].t = "end"})
First(S) == IF S = {} THEN 0 ELSE Min(S)

(* fdt_nodename_eq_(): a name without a unit address matches any. *)
NameEq(k, q) == k.base = q[1] /\ (q[2] = "" \/ k.unit = q[2])
fdt_subnode_offset(st, i, q) ==
  First({j \in i + 1 .. Len(st) :
          /\ st[j].t = "begin" /\ NameEq(st[j], q) /\ Open(st, i, j) = 2
          /\ \A k \in i .. j : Open(st, i, k) >= 1})
fdt_path_offset(st, path) ==
  FoldLeft(LAMBDA off, q : IF off = 0 THEN 0 ELSE fdt_subnode_offset(st, off, q), 1, path)

(* fdt_get_property(): the tags after the name up to the first that is     *)
(* neither a property nor FDT_NOP.                                         *)
Props(st, i) == {j \in i + 1 .. Len(st) : \A k \in i + 1 .. j : st[k].t \in {"prop", "nop"}}
fdt_get_property(st, i, name) == First({j \in Props(st, i) : st[j].t = "prop" /\ st[j].name = name})
fdt_getprop(st, i, name) == LET j == fdt_get_property(st, i, name) IN IF j = 0 THEN "none" ELSE st[j].val

(* fdt_address_cells() and fdt_size_cells() of the root. *)
Cells(st, name, default) == LET v == fdt_getprop(st, 1, name) IN IF v = "none" THEN default ELSE IF v = "1" THEN 1 ELSE 2
fdt_address_cells(st) == Cells(st, "#address-cells", 2)
fdt_size_cells(st) == Cells(st, "#size-cells", 1)

(* fdt_get_alias(): a pointer to the value, that is its place in the blob; *)
(* what it points to later is whatever has come to lie there.              *)
ValuePlace(b, j) == HeaderWords + RsvWords * (Len(b.rsv) + 1) + Words(SubSeq(b.st, 1, j - 1)) + 3
fdt_get_alias(b, name) ==
  LET a == fdt_subnode_offset(b.st, 1, <<"aliases", "">>)
      j == IF a = 0 THEN 0 ELSE fdt_get_property(b.st, a, name)
  IN  IF j = 0 THEN 0 ELSE ValuePlace(b, j)
Pointed(b, place) ==
  LET S == {j \in 1 .. Len(b.st) : b.st[j].t = "prop" /\ ValuePlace(b, j) = place}
  IN  IF S = {} THEN "garbage" ELSE b.st[Min(S)].val
-----------------------------------------------------------------------------
(* Changes return [err, b, off]. *)
Done(b, off) == [err |-> FALSE, b |-> b, off |-> off]
NoSpace(b) == [err |-> TRUE, b |-> b, off |-> 0]

(* fdt_setprop(): resize in place, or find or add the name and insert the  *)
(* property as the node's first.                                           *)
fdt_resize_property(b, j, val, len) ==
  IF SpliceOk(b, len - b.st[j].len)
    THEN Done([b EXCEPT !.st[j].val = val, !.st[j].len = len], j) ELSE NoSpace(b)
fdt_find_add_string(b, name) ==
  CASE Contains(b.strs, name) -> Done(b, 0)
    [] ~Contains(b.strs, name) /\ SpliceOk(b, 1) -> Done([b EXCEPT !.strs = Append(@, name)], 0)
    [] OTHER -> NoSpace(b)
fdt_add_property(b, i, name, val, len) ==
  LET s == fdt_find_add_string(b, name)
  IN  IF s.err \/ ~SpliceOk(s.b, 3 + len) THEN NoSpace(s.b)
      ELSE Done([s.b EXCEPT !.st = InsertAt(@, i + 1, Prop(name, val, len))], i + 1)
fdt_setprop(b, i, name, val, len) ==
  LET j == fdt_get_property(b.st, i, name)
  IN  IF j # 0 THEN fdt_resize_property(b, j, val, len) ELSE fdt_add_property(b, i, name, val, len)

(* fdt_add_subnode(): after the parent's properties. *)
AfterProps(st, i) == i + Cardinality(Props(st, i)) + 1
fdt_add_subnode(b, i, q) ==
  LET at == AfterProps(b.st, i)
  IN  IF ~SpliceOk(b, 3) THEN NoSpace(b)
      ELSE Done([b EXCEPT !.st = InsertAt(InsertAt(@, at, EndNode), at, Begin(q[1], q[2]))], at)
fdt_find_or_add_subnode(b, i, q) ==
  LET off == fdt_subnode_offset(b.st, i, q) IN IF off # 0 THEN Done(b, off) ELSE fdt_add_subnode(b, i, q)

(* fdt_delprop() and fdt_del_node(); the name stays in the strings block. *)
NodeEnd(st, i) == Min({j \in i + 1 .. Len(st) : Open(st, i, j) = 0})
fdt_delprop(b, i, name) ==
  LET j == fdt_get_property(b.st, i, name) IN IF j = 0 THEN b ELSE [b EXCEPT !.st = RemoveAt(@, j)]
fdt_del_node(b, i) ==
  [b EXCEPT !.st = SubSeq(@, 1, i - 1) \o SubSeq(@, NodeEnd(@, i) + 1, Len(@))]

(* Reservations; the list ends at the first entry of size 0. *)
fdt_add_mem_rsv(b, addr, size) ==
  IF SpliceOk(b, RsvWords) THEN Done([b EXCEPT !.rsv = Append(@, <<addr, size>>)], 0) ELSE NoSpace(b)
DelRsvOf(b, addr) ==
  LET n == First({k \in 1 .. Len(b.rsv) : b.rsv[k][1] = addr})
  IN  IF n = 0 THEN b ELSE [b EXCEPT !.rsv = RemoveAt(@, n)]
HasRsv(b, addr) == \E k \in 1 .. Len(b.rsv) : b.rsv[k][1] = addr

(* fdt_increase_size(): fdt_open_into() in place, which reorders nothing.  *)
fdt_increase_size(b, words) == [b EXCEPT !.total = @ + words]
-----------------------------------------------------------------------------
(* What a blob means, for the properties: balanced nodes up to FDT_END,    *)
(* properties before subnodes, no name twice in a node, and every          *)
(* property's name in the strings block.                                   *)
Children(st, i) ==
  {j \in i + 1 .. NodeEnd(st, i) - 1 : st[j].t = "begin" /\ Open(st, i, j) = 2}
WellFormed(b) ==
  LET st == b.st nodes == {i \in 1 .. Len(st) : st[i].t = "begin"}
  IN  /\ st[1].t = "begin" /\ st[Len(st)] = Fin /\ Open(st, 1, Len(st) - 1) = 0
      /\ \A j \in 1 .. Len(st) - 2 : Open(st, 1, j) >= 1
      /\ \A j \in 2 .. Len(st) : st[j].t = "prop" =>
           st[j - 1].t \in {"begin", "prop", "nop"} /\ Contains(b.strs, st[j].name)
      /\ \A i \in nodes :
           /\ \A j, k \in Props(st, i) : st[j].t = "prop" /\ st[k].t = "prop" /\ st[j].name = st[k].name => j = k
           /\ \A j, k \in Children(st, i) : st[j].base = st[k].base /\ st[j].unit = st[k].unit => j = k
      /\ fdt_data_size(b) <= b.total

(* The tree as a set of (path, property, value). *)
PathOf(st, j) ==
  LET up == {i \in 1 .. j - 1 : st[i].t = "begin" /\ NodeEnd(st, i) > j}
  IN  [n \in 1 .. Cardinality(up) - 1 |-> LET k == st[SetToSortSeq(up, <)[n + 1]] IN <<k.base, k.unit>>]
Content(st) == {<<PathOf(st, j), st[j].name, st[j].val>> : j \in {k \in 1 .. Len(st) : st[k].t = "prop"}}
=============================================================================
