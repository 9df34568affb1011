----------------------------- MODULE MCBootTree -----------------------------
(* Device trees for BootTree: with and without the nodes p-boot looks for, *)
(* aliases before and after the node they name, values of other lengths    *)
(* than the new ones, FDT_NOP tags, and reservations; and room for         *)
(* everything, or for less and less of it.                                 *)
EXTENDS BootTree

WifiPath == <<<<"mmc", "1">>, <<"wifi", "">>>>
Paths == ("wifi0" :> WifiPath) @@ ("wifi1" :> <<<<"soc", "">>, <<"mmc", "1c10000">>, <<"wifi", "">>>>)
Aliases(v) == <<Begin("aliases", ""), Prop("ethernet0", v, 3), EndNode>>
WifiNode(props) ==
  <<Begin("mmc", "1"), Prop("reg", "mmc1", 2), Begin("wifi", ""), Nop>> \o props \o <<EndNode, EndNode>>
Tree(rsv, kids) ==
  LET st == <<Begin("", ""), Prop("#address-cells", "1", 1), Prop("model", "pinephone", 3)>> \o kids \o <<EndNode, Fin>>
      b0 == [rsv |-> rsv, st |-> st, total |-> 0,
             strs |-> FoldLeft(LAMBDA s, k : IF k.t # "prop" THEN s
                                             ELSE IF Contains(s, k.name) THEN s ELSE Append(s, k.name), <<>>, st)]
  IN  [magic |-> TRUE, b |-> [b0 EXCEPT !.total = fdt_data_size(b0)]]
Full ==
  Tree(<<<<"initrd", "oldsize">>, <<"fdt", "oldsize">>>>,
       Aliases("wifi0") \o <<Begin("chosen", ""), Prop("bootargs", "old", 1), EndNode>>
       \o <<Begin("memory", "40000000"), Prop("reg", "old", 2), EndNode>>
       \o WifiNode(<<Prop("mac-address", "old", 1), Prop("local-mac-address", "old", 2)>>))
Late  == Tree(<<>>, WifiNode(<<Prop("mac-address", "old", 2)>>) \o Aliases("wifi0") \o <<Begin("chosen", "x"), EndNode>>)
(* The path lies behind an address that changes its length: a whole word   *)
(* too short, empty, or too long.                                          *)
Moved(len) == Tree(<<>>, WifiNode(<<Prop("mac-address", "old", len)>>) \o Aliases("wifi0"))
(* The nodes boot_selection() and fdt_fixup_wifi() look for, as the phone's *)
(* tree has them; two of the six that privacy disables are left out.        *)
Leaf(base, unit, props) == <<Begin(base, unit)>> \o props \o <<EndNode>>
Phone ==
  Tree(<<>>,
    <<Begin("soc", "")>>
    \o <<Begin("mmc", "1c10000"), Prop("status", "okay", 2)>> \o Leaf("wifi", "", <<>>) \o <<EndNode>>
    \o Leaf("serial", "1c28400", <<>>)
    \o <<Begin("serial", "1c28c00")>> \o Leaf("modem", "", <<Prop("power", "gpio", 2)>>) \o <<EndNode>>
    \o <<Begin("rsb", "1f03400"), Begin("pmic", "3a3")>>
    \o Leaf("adc", "", <<Prop("reg", "adc", 1), Prop("x-powers,ts-as-gpadc", "", 0)>>) \o <<EndNode, EndNode>>
    \o Leaf("csi", "1cb0000", <<Prop("status", "disabled", 3)>>) \o <<EndNode>>
    \o Leaf("sound", "", <<Prop("status", "okay", 2)>>) \o Leaf("vbat-bb", "", <<>>) \o Aliases("wifi1"))
Bare  == Tree(<<<<"atf", "atfsize">>>>, <<>>)
Off   == Tree(<<>>, Aliases("wifi0") \o WifiNode(<<Prop("status", "disabled", 3)>>))
Wrong == Tree(<<>>, Aliases("nowhere") \o WifiNode(<<>>))
NoTree == [magic |-> FALSE]

AllImages == {"atf", "fdt", "linux", "initrd", "fdt2"}
Shown == AllImages \cup {"splash"}
SizesOf(l, f, f2, i) == [linux |-> l, fdt |-> f, fdt2 |-> f2, initrd |-> i, splash |-> 1]
Normal == SizesOf(3, 2, 2, 2)
Base ==
  [images |-> AllImages, sizes |-> Normal, tree |-> Full, tree2 |-> Bare, paths |-> Paths, arm64 |-> TRUE,
   text_offset |-> 0, rev |-> 1, priv |-> FALSE, eg25 |-> FALSE, sid |-> TRUE]
(* Less and less room in the tree: the words it already has too many. *)
Tight(t, n) == [t EXCEPT !.b.total = @ - n]
MCCases ==
  {[Base EXCEPT !.tree = t, !.rev = r, !.text_offset = o, !.images = IF f THEN im \cup {"splash"} ELSE im] :
     t \in {Full, Late, Bare, Off, Wrong}, r \in {1, 2}, f \in BOOLEAN, o \in {0, 1},
     im \in {AllImages, AllImages \ {"fdt2"}, AllImages \ {"initrd"}, {"atf", "fdt"}}}
  \cup {[Base EXCEPT !.tree = Tight(Phone, 10 * n), !.priv = p, !.eg25 = g] :
           n \in 0 .. 10, p \in BOOLEAN, g \in BOOLEAN}
  \cup {[Base EXCEPT !.tree = t, !.sid = FALSE] : t \in {Full, Late, Phone}}
  \cup {[Base EXCEPT !.tree = Moved(n), !.sid = i] : n \in 0 .. 3, i \in BOOLEAN}
  \cup {[Base EXCEPT !.tree = NoTree], [Base EXCEPT !.arm64 = FALSE]}
  \cup {[Base EXCEPT !.sizes = z, !.rev = r, !.images = Shown] : r \in {1, 2},
          z \in {[Normal EXCEPT !.splash = 0], [Normal EXCEPT !.splash = 2], SizesOf(4, 1, 3, 3), SizesOf(7, 1, 1, 1), SizesOf(0, 1, 1, 1), SizesOf(3, 0, 2, 0), SizesOf(3, 2, 4, 1)}}
  \cup {[Base EXCEPT !.tree = Tight(t, 5 * n), !.images = Shown] : t \in {Full, Late, Bare}, n \in 0 .. 20}
=============================================================================
