------------------------------ MODULE MCBootfs ------------------------------
EXTENDS Bootfs

P(l, ind, c) == [linux |-> l, ind |-> ind, content |-> c]
Kinds == { P(TRUE, "boot", "bootfs"), P(TRUE, "boot", "foreign"),
           P(TRUE, "plain", "bootfs"), P(TRUE, "plain", "foreign"),
           P(FALSE, "boot", "bootfs"), P(FALSE, "invalid", "foreign") }
(* Every table of four such partitions, and a disk without a table. *)
SomeDisks ==
  {[mbr |-> "signed", part |-> p] : p \in [Slot -> Kinds]}
  \cup {[mbr |-> m, part |-> [s \in Slot |-> P(TRUE, "boot", "bootfs")]] :
          m \in {"absent", "unsigned"}}
=============================================================================
