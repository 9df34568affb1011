--------------------------- MODULE BootTreeProofs ---------------------------
(***************************************************************************)
(* Proofs about the memory map of a boot (BootTree): for every placement   *)
(* of the fixed addresses in their order, every set of images and every    *)
(* kernel offset, what ImagesIntact says.                                  *)
(***************************************************************************)
EXTENDS BootTree, TLAPS

Images == {"linux", "fdt", "fdt2", "initrd", "splash"}
Cell   == 0 .. MemTop - 1

(* The tree that is meant for the board. *)
Tree == IF conf.rev = 2 /\ "fdt2" \in conf.images THEN "fdt2" ELSE "fdt"

MemTypes ==
  /\ conf \in Cases /\ DOMAIN mem = Cell
  /\ pc \in {"splash", "load", "alternate", "kernel", "tree", "framebuffer", "policy", "wifi", "wifi2",
             "pboot", "bootargs", "memory", "initrd", "shrink", "done", "failed"}

(* What no later step moves: the picture and the initramfs. *)
Kept ==
  /\ pc \notin {"splash", "failed"} => (fb => Holds(FbPA, "splash"))
  /\ pc \notin {"splash", "load", "failed"} => atf /\ ("initrd" \in conf.images => Holds(InitrdPA, "initrd"))

(* Where the kernel and the trees are, step by step. *)
Placed ==
  /\ pc \in {"alternate", "kernel"} => Holds(LinuxPA, "linux")
  /\ pc = "alternate" => Holds(FdtPA, "fdt") /\ ("fdt2" \in conf.images => Holds(Fdt2PA, "fdt2"))
  /\ pc \notin {"splash", "load", "alternate", "failed"} => Holds(FdtPA, Tree)
  /\ pc \notin {"splash", "load", "alternate", "kernel", "failed"} =>
       Holds(linux, "linux") /\ linux = LinuxPA + conf.text_offset

MapInv == MemTypes /\ (Enough => Kept /\ Placed)
-----------------------------------------------------------------------------
LEMMA Places ==
  /\ LinuxPA \in Nat /\ FbPA \in Nat /\ FdtPA \in Nat /\ Fdt2PA \in Nat /\ InitrdPA \in Nat
  /\ MemTop \in Nat /\ GrowCells \in Nat
  /\ LinuxPA < FbPA /\ FbPA < FdtPA /\ FdtPA < Fdt2PA /\ Fdt2PA < InitrdPA /\ InitrdPA < MemTop
BY PlacesAssumption

LEMMA Sizes ==
  ASSUME conf \in Cases
  PROVE  conf.text_offset \in Nat /\ \A i \in Images : Size(i) \in Nat
BY PlacesAssumption DEF Size, Images

(* Loading an image puts it where it belongs ... *)
LEMMA StoreHolds ==
  ASSUME NEW m, DOMAIN m = Cell, NEW at \in Nat, NEW n \in Nat, NEW i, at + n <= MemTop
  PROVE  /\ DOMAIN Store(m, at, n, i) = Cell
         /\ \A k \in 0 .. n - 1 : Store(m, at, n, i)[at + k] = <<i, k>>
         /\ \A c \in Cell : c < at \/ c >= at + n => Store(m, at, n, i)[c] = m[c]
<1>1. MemTop \in Nat
  BY Places
<1>2. ASSUME NEW k \in 0 .. n - 1 PROVE Store(m, at, n, i)[at + k] = <<i, k>>
  <2>1. at + k \in Cell /\ at + k \in at .. at + n - 1 /\ at + k - at = k
    BY <1>1 DEF Cell
  <2> QED BY <2>1 DEF Store
<1>3. ASSUME NEW c \in Cell, c < at \/ c >= at + n PROVE Store(m, at, n, i)[c] = m[c]
  <2>1. c \notin at .. at + n - 1
    BY <1>1, <1>3 DEF Cell
  <2> QED BY <2>1 DEF Store
<1> QED BY <1>2, <1>3 DEF Store

(* ... and so does copying it. *)
LEMMA CopyMoves ==
  ASSUME NEW m, DOMAIN m = Cell, NEW to \in Nat, NEW from \in Nat, NEW n \in Nat, to + n <= MemTop,
         NEW k \in 0 .. n - 1
  PROVE  Copy(m, to, from, n)[to + k] = m[from + k]
<1>1. to + k \in Cell /\ to + k \in to .. to + n - 1 /\ from + (to + k) - to = from + k
  BY Places DEF Cell
<1> QED BY <1>1 DEF Copy

LEMMA CopyKeeps ==
  ASSUME NEW m, DOMAIN m = Cell, NEW to \in Nat, NEW from, NEW n \in Nat, NEW c \in Cell, c < to \/ c >= to + n
  PROVE  Copy(m, to, from, n)[c] = m[c]
<1>1. c \notin to .. to + n - 1
  BY Places DEF Cell
<1> QED BY <1>1 DEF Copy
-----------------------------------------------------------------------------
Whole(m, at, i) == \A k \in 0 .. Size(i) - 1 : m[at + k] = <<i, k>>

(* What Enough says, as the proofs use it. *)
LEMMA Fits ==
  ASSUME conf \in Cases, Enough
  PROVE  /\ LinuxPA + conf.text_offset + Size("linux") <= FdtPA
         /\ LinuxPA + Size("linux") <= FdtPA
         /\ fb => /\ LinuxPA + conf.text_offset + Size("linux") <= FbPA /\ LinuxPA + Size("linux") <= FbPA
                  /\ FbPA + Size("splash") <= FdtPA
         /\ FdtPA + Size("fdt") <= Fdt2PA /\ FdtPA + Size("fdt2") <= Fdt2PA
         /\ FdtPA + Size("fdt") + GrowCells <= Fdt2PA /\ FdtPA + Size("fdt2") + GrowCells <= Fdt2PA
         /\ Fdt2PA + Size("fdt2") <= InitrdPA /\ InitrdPA + Size("initrd") <= MemTop
         /\ Size("linux") > 0 /\ Size("fdt") > 0
<1> DEFINE off == conf.text_offset
<1> DEFINE l == Size("linux")
<1> DEFINE f == Size("fdt")
<1> DEFINE g == Size("fdt2")
<1> DEFINE r == Size("initrd")
<1> DEFINE s == Size("splash")
<1>1. off \in Nat /\ l \in Nat /\ f \in Nat /\ g \in Nat /\ r \in Nat /\ s \in Nat
  BY Sizes DEF Images
<1>2. /\ l > 0 /\ f > 0 /\ l + off <= (IF fb THEN FbPA ELSE FdtPA) - LinuxPA
      /\ fb => s <= FdtPA - FbPA
      /\ f + GrowCells <= Fdt2PA - FdtPA /\ g + GrowCells <= Fdt2PA - FdtPA
      /\ g <= InitrdPA - Fdt2PA /\ r <= MemTop - InitrdPA
  BY DEF Enough, Required
<1> HIDE DEF off, l, f, g, r, s
<1>3. /\ LinuxPA + off + l <= FdtPA /\ LinuxPA + l <= FdtPA
      /\ fb => LinuxPA + off + l <= FbPA /\ LinuxPA + l <= FbPA /\ FbPA + s <= FdtPA
      /\ FdtPA + f <= Fdt2PA /\ FdtPA + g <= Fdt2PA
      /\ FdtPA + f + GrowCells <= Fdt2PA /\ FdtPA + g + GrowCells <= Fdt2PA
      /\ Fdt2PA + g <= InitrdPA /\ InitrdPA + r <= MemTop
  BY <1>1, <1>2, Places
<1> QED BY <1>2, <1>3 DEF off, l, f, g, r, s

LEMMA SplashInv ==
  ASSUME MapInv, load_splash
  PROVE  MapInv'
<1>1. pc' = "load" /\ conf' = conf /\ conf \in Cases /\ DOMAIN mem = Cell
  BY DEF load_splash, MapInv, MemTypes
<1>2. \A i \in Images : Size(i) \in Nat /\ Size(i)' = Size(i)
  BY <1>1, Sizes DEF Size
<1>3. DOMAIN mem' = Cell
  BY <1>1 DEF load_splash, Store
<1>4. ASSUME Enough', fb' PROVE Holds(FbPA, "splash")'
  <2>1. mem' = Store(mem, FbPA, Size("splash"), "splash")
    BY <1>4 DEF load_splash
  <2>2. FbPA + Size("splash") <= MemTop
    <3>1. Size("splash") <= FdtPA - FbPA
      BY <1>2, <1>4 DEF Enough, Images
    <3> QED BY <3>1, <1>2, Places DEF Images
  <2>3. \A k \in 0 .. Size("splash") - 1 : mem'[FbPA + k] = <<"splash", k>>
    <3> DEFINE n == Size("splash")
    <3>1. n \in Nat /\ FbPA + n <= MemTop
      BY <1>2, <2>2 DEF Images
    <3> HIDE DEF n
    <3>2. \A k \in 0 .. n - 1 : Store(mem, FbPA, n, "splash")[FbPA + k] = <<"splash", k>>
      BY <1>1, <3>1, Places, StoreHolds
    <3> QED BY <2>1, <3>2 DEF n
  <2>4. Size("splash")' = Size("splash")
    BY <1>2 DEF Images
  <2> QED BY <2>3, <2>4 DEF Holds
<1> QED BY <1>1, <1>3, <1>4 DEF MapInv, MemTypes, Kept, Placed

(* One image of LoadAll(): what was whole and lies elsewhere stays whole. *)
LEMMA LoadOneHolds ==
  ASSUME conf \in Cases, NEW i \in Images \ {"splash"}, NEW m, DOMAIN m = Cell, Dest(i) \in Nat,
         i \in conf.images => Dest(i) + Size(i) <= MemTop
  PROVE  /\ DOMAIN LoadOne(m, i) = Cell
         /\ i \in conf.images => Whole(LoadOne(m, i), Dest(i), i)
         /\ \A j \in Images, at \in Nat :
              /\ Whole(m, at, j) /\ at + Size(j) <= MemTop
              /\ at + Size(j) <= Dest(i) \/ Dest(i) + Size(i) <= at
              => Whole(LoadOne(m, i), at, j)
<1>1. \A j \in Images : Size(j) \in Nat
  BY Sizes
<1>2. CASE i \in conf.images
  <2>1. LoadOne(m, i) = Store(m, Dest(i), Size(i), i)
    BY <1>2 DEF LoadOne
  <2>2. /\ DOMAIN LoadOne(m, i) = Cell
        /\ \A k \in 0 .. Size(i) - 1 : LoadOne(m, i)[Dest(i) + k] = <<i, k>>
        /\ \A c \in Cell : c < Dest(i) \/ c >= Dest(i) + Size(i) => LoadOne(m, i)[c] = m[c]
    <3> DEFINE n == Size(i)
    <3> DEFINE d == Dest(i)
    <3>1. n \in Nat /\ d \in Nat /\ d + n <= MemTop
      BY <1>1, <1>2, Zenon
    <3> HIDE DEF n, d
    <3>2. /\ DOMAIN Store(m, d, n, i) = Cell
          /\ \A k \in 0 .. n - 1 : Store(m, d, n, i)[d + k] = <<i, k>>
          /\ \A c \in Cell : c < d \/ c >= d + n => Store(m, d, n, i)[c] = m[c]
      <4>1. DOMAIN m = Cell
        OBVIOUS
      <4> USE <4>1
      <4>2. DOMAIN Store(m, d, n, i) = Cell
        BY <3>1, StoreHolds
      <4>3. \A k \in 0 .. n - 1 : Store(m, d, n, i)[d + k] = <<i, k>>
        BY <3>1, StoreHolds
      <4>4. \A c \in Cell : c < d \/ c >= d + n => Store(m, d, n, i)[c] = m[c]
        BY <3>1, StoreHolds
      <4> QED BY <4>2, <4>3, <4>4
    <3> QED BY <2>1, <3>2 DEF n, d
  <2>3. ASSUME NEW j \in Images, NEW at \in Nat, Whole(m, at, j), at + Size(j) <= MemTop,
               at + Size(j) <= Dest(i) \/ Dest(i) + Size(i) <= at
        PROVE  Whole(LoadOne(m, i), at, j)
    <3> DEFINE n == Size(j)
    <3> DEFINE lo == Dest(i)
    <3> DEFINE hi == Dest(i) + Size(i)
    <3> DEFINE m2 == LoadOne(m, i)
    <3>1. n \in Nat /\ lo \in Nat /\ hi \in Nat
      BY <1>1
    <3>2. /\ at + n <= MemTop /\ (at + n <= lo \/ hi <= at)
          /\ \A c \in Cell : c < lo \/ c >= hi => m2[c] = m[c]
          /\ \A k \in 0 .. n - 1 : m[at + k] = <<j, k>>
      BY <2>2, <2>3, Zenon DEF Whole
    <3> HIDE DEF n, lo, hi, m2
    <3>3. \A k \in 0 .. n - 1 : m2[at + k] = <<j, k>>
      <4> SUFFICES ASSUME NEW k \in 0 .. n - 1 PROVE m2[at + k] = <<j, k>>
        OBVIOUS
      <4>1. at + k \in Cell /\ (at + k < lo \/ at + k >= hi)
        BY <3>1, <3>2, Places DEF Cell
      <4> QED BY <3>2, <4>1
    <3> QED BY <3>3 DEF Whole, n, m2
  <2> QED BY <2>2, <2>3 DEF Whole
<1>3. CASE i \notin conf.images
  BY <1>3 DEF LoadOne
<1> QED BY <1>2, <1>3

LEMMA LoadInv ==
  ASSUME MapInv, boot_load
  PROVE  MapInv'
<1>1. pc' \in {"alternate", "failed"} /\ UNCHANGED <<conf, fb, linux>> /\ conf \in Cases /\ DOMAIN mem = Cell
      /\ pc = "load"
  BY DEF boot_load, MapInv, MemTypes
<1>2. CASE pc' = "failed"
  <2>1. DOMAIN mem' = Cell
    BY <1>1, <1>2 DEF boot_load
  <2> QED BY <1>1, <1>2, <2>1 DEF MapInv, MemTypes, Kept, Placed
<1>3. CASE pc' = "alternate"
  <2>1. mem' = LoadAll(mem) /\ atf' = TRUE /\ "linux" \in conf.images /\ "fdt" \in conf.images
    BY <1>3 DEF boot_load, Missing, Required
  <2> DEFINE m1 == LoadOne(mem, "fdt")
  <2> DEFINE m2 == LoadOne(m1, "linux")
  <2> DEFINE m3 == LoadOne(m2, "initrd")
  <2> DEFINE m4 == LoadOne(m3, "fdt2")
  <2>2. mem' = m4
    BY <2>1 DEF LoadAll
  <2>3. DOMAIN mem' = Cell
    BY <1>1, <2>2 DEF LoadOne, Store
  <2>4. /\ Dest("fdt") = FdtPA /\ Dest("linux") = LinuxPA /\ Dest("initrd") = InitrdPA /\ Dest("fdt2") = Fdt2PA
        /\ \A i \in Images \ {"splash"} : i = "fdt" \/ i = "linux" \/ i = "initrd" \/ i = "fdt2"
    BY DEF Dest, Images
  <2>5. ASSUME Enough'
        PROVE  /\ fb => Whole(m4, FbPA, "splash")
               /\ "initrd" \in conf.images => Whole(m4, InitrdPA, "initrd")
               /\ Whole(m4, LinuxPA, "linux") /\ Whole(m4, FdtPA, "fdt")
               /\ "fdt2" \in conf.images => Whole(m4, Fdt2PA, "fdt2")
    <3>1. Enough
      BY <1>1, <2>5 DEF Enough, Size
    <3> DEFINE f == Size("fdt")
    <3> DEFINE l == Size("linux")
    <3> DEFINE g == Size("fdt2")
    <3> DEFINE r == Size("initrd")
    <3> DEFINE s == Size("splash")
    <3>2. l \in Nat /\ f \in Nat /\ g \in Nat /\ r \in Nat /\ s \in Nat
      BY <1>1, Sizes DEF Images
    <3>3. /\ LinuxPA + l <= FdtPA /\ (fb => LinuxPA + l <= FbPA /\ FbPA + s <= FdtPA)
          /\ FdtPA + f <= Fdt2PA /\ Fdt2PA + g <= InitrdPA /\ InitrdPA + r <= MemTop
      BY <1>1, <3>1, Fits
    <3> HIDE DEF f, l, g, r, s
    <3>4. /\ LinuxPA + l <= MemTop /\ FdtPA + f <= MemTop /\ Fdt2PA + g <= MemTop
          /\ LinuxPA + l <= Fdt2PA /\ LinuxPA + l <= InitrdPA
          /\ FdtPA + f <= InitrdPA
          /\ fb => FbPA + s <= MemTop /\ FbPA + s <= Fdt2PA /\ FbPA + s <= InitrdPA
      BY <3>2, <3>3, Places
    <3>5. fb => Whole(mem, FbPA, "splash")
      BY <1>1, <3>1 DEF MapInv, Kept, Holds, Whole
    <3>6. /\ DOMAIN m1 = Cell /\ Whole(m1, FdtPA, "fdt")
          /\ fb => Whole(m1, FbPA, "splash")
      BY <1>1, <2>1, <2>4, <3>3, <3>4, <3>5, Places, LoadOneHolds DEF Images, f, s
    <3> HIDE DEF m1
    <3>7. /\ DOMAIN m2 = Cell /\ Whole(m2, FdtPA, "fdt") /\ Whole(m2, LinuxPA, "linux")
          /\ fb => Whole(m2, FbPA, "splash")
      BY <1>1, <2>1, <2>4, <3>3, <3>4, <3>6, Places, LoadOneHolds DEF Images, f, s, l
    <3> HIDE DEF m2
    <3>8. /\ DOMAIN m3 = Cell /\ Whole(m3, FdtPA, "fdt") /\ Whole(m3, LinuxPA, "linux")
          /\ "initrd" \in conf.images => Whole(m3, InitrdPA, "initrd")
          /\ fb => Whole(m3, FbPA, "splash")
      BY <1>1, <2>1, <2>4, <3>3, <3>4, <3>7, Places, LoadOneHolds DEF Images, f, s, l, r
    <3> HIDE DEF m3
    <3> QED BY <1>1, <2>1, <2>4, <3>3, <3>4, <3>8, Places, LoadOneHolds DEF Images, f, s, l, r, g
  <2>6. \A at, i : Whole(m4, at, i) => Holds(at, i)'
    BY <1>1, <2>2 DEF Holds, Whole, Size
  <2> HIDE DEF m4
  <2> QED BY <1>1, <1>3, <2>1, <2>3, <2>5, <2>6 DEF MapInv, MemTypes, Kept, Placed
<1> QED BY <1>1, <1>2, <1>3

(* A step that writes only cells lo .. hi - 1 leaves the others' images. *)
LEMMA OutsideHolds ==
  ASSUME NEW at \in Nat, NEW i, NEW n \in Nat, n = Size(i), conf' = conf, NEW lo \in Nat, NEW hi \in Nat,
         Holds(at, i), at + n <= MemTop, at + n <= lo \/ hi <= at,
         \A c \in Cell : c < lo \/ c >= hi => mem'[c] = mem[c]
  PROVE  Holds(at, i)'
<1>1. Size(i)' = n
  BY DEF Size
<1> SUFFICES ASSUME NEW k \in 0 .. n - 1 PROVE mem'[at + k] = <<i, k>>
  BY <1>1 DEF Holds
<1>2. at + k \in Cell /\ (at + k < lo \/ at + k >= hi)
  BY Places DEF Cell
<1>3. mem[at + k] = <<i, k>>
  BY DEF Holds
<1> QED BY <1>2, <1>3

LEMMA AlternateInv ==
  ASSUME MapInv, boot_alternate
  PROVE  MapInv'
<1>1. pc' = "kernel" /\ UNCHANGED <<conf, fb, linux, atf>> /\ conf \in Cases /\ DOMAIN mem = Cell /\ pc = "alternate"
  BY DEF boot_alternate, MapInv, MemTypes
<1>2. DOMAIN mem' = Cell
  BY <1>1 DEF boot_alternate, Copy
<1>3. (Enough' => Enough) /\ Tree' = Tree /\ \A i : Size(i)' = Size(i)
  BY <1>1 DEF Enough, Size, Tree
<1>4. CASE mem' = mem /\ Tree = "fdt"
  BY <1>1, <1>2, <1>3, <1>4 DEF MapInv, MemTypes, Kept, Placed, Holds
<1>5. CASE "fdt2" \in conf.images /\ Tree = "fdt2" /\ mem' = Copy(mem, FdtPA, Fdt2PA, Size("fdt2"))
  <2> SUFFICES ASSUME Enough PROVE Kept' /\ Placed'
    BY <1>1, <1>2, <1>3 DEF MapInv, MemTypes
  <2> DEFINE g == Size("fdt2")
  <2> DEFINE l == Size("linux")
  <2> DEFINE r == Size("initrd")
  <2> DEFINE s == Size("splash")
  <2>1. l \in Nat /\ g \in Nat /\ r \in Nat /\ s \in Nat
    BY <1>1, Sizes DEF Images
  <2>2. /\ LinuxPA + l <= FdtPA /\ (fb => FbPA + s <= FdtPA) /\ FdtPA + g <= Fdt2PA /\ InitrdPA + r <= MemTop
    BY <1>1, Fits
  <2>3. \A k \in 0 .. g - 1 : mem[Fdt2PA + k] = <<"fdt2", k>>
    BY <1>1, <1>5 DEF MapInv, Placed, Holds
  <2>4. /\ atf /\ Holds(LinuxPA, "linux") /\ (fb => Holds(FbPA, "splash"))
        /\ "initrd" \in conf.images => Holds(InitrdPA, "initrd")
    BY <1>1 DEF MapInv, Kept, Placed
  <2>5. mem' = Copy(mem, FdtPA, Fdt2PA, g)
    BY <1>5
  <2> HIDE DEF g
  <2>6. /\ FdtPA + g <= MemTop /\ LinuxPA + l <= MemTop /\ (fb => FbPA + s <= MemTop) /\ FdtPA + g <= InitrdPA
        /\ FdtPA + g \in Nat
    BY <2>1, <2>2, Places
  <2>7. \A k \in 0 .. g - 1 : mem'[FdtPA + k] = <<"fdt2", k>>
    <3>1. \A k \in 0 .. g - 1 : Copy(mem, FdtPA, Fdt2PA, g)[FdtPA + k] = mem[Fdt2PA + k]
      BY <1>1, <2>1, <2>6, Places, CopyMoves
    <3> QED BY <2>3, <2>5, <3>1
  <2>8. \A c \in Cell : c < FdtPA \/ c >= FdtPA + g => mem'[c] = mem[c]
    BY <1>1, <2>1, <2>5, Places, CopyKeeps
  <2>9. Holds(FdtPA, "fdt2")'
    BY <1>3, <2>7 DEF Holds, g
  <2>10. Holds(LinuxPA, "linux")'
    BY <1>1, <2>1, <2>2, <2>4, <2>6, <2>8, Places, OutsideHolds
  <2>11. fb => Holds(FbPA, "splash")'
    BY <1>1, <2>1, <2>2, <2>4, <2>6, <2>8, Places, OutsideHolds
  <2>12. "initrd" \in conf.images => Holds(InitrdPA, "initrd")'
    BY <1>1, <2>1, <2>2, <2>4, <2>6, <2>8, Places, OutsideHolds
  <2> QED BY <1>1, <1>3, <1>5, <2>4, <2>9, <2>10, <2>11, <2>12 DEF Kept, Placed
<1> QED BY <1>1, <1>4, <1>5 DEF boot_alternate, Alternate, Tree

LEMMA KernelInv ==
  ASSUME MapInv, boot_kernel
  PROVE  MapInv'
<1>1. pc' \in {"tree", "failed"} /\ UNCHANGED <<conf, fb, atf>> /\ conf \in Cases /\ DOMAIN mem = Cell /\ pc = "kernel"
  BY DEF boot_kernel, MapInv, MemTypes
<1>2. DOMAIN mem' = Cell
  BY <1>1 DEF boot_kernel, Copy
<1>3. (Enough' => Enough) /\ Tree' = Tree /\ \A i : Size(i)' = Size(i)
  BY <1>1 DEF Enough, Size, Tree
<1>4. CASE pc' = "failed"
  BY <1>1, <1>2, <1>4 DEF MapInv, MemTypes, Kept, Placed
<1>5. CASE pc' = "tree"
  <2> SUFFICES ASSUME Enough PROVE Kept' /\ Placed'
    BY <1>1, <1>2, <1>3 DEF MapInv, MemTypes
  <2> DEFINE o == LinuxPA + conf.text_offset
  <2> DEFINE l == Size("linux")
  <2> DEFINE r == Size("initrd")
  <2> DEFINE s == Size("splash")
  <2> DEFINE t == Size(Tree)
  <2>1. l \in Nat /\ o \in Nat /\ r \in Nat /\ s \in Nat /\ t \in Nat
    BY <1>1, Sizes, Places DEF Images, Tree
  <2>2. o + l <= FdtPA /\ (fb => o + l <= FbPA /\ FbPA + s <= FdtPA) /\ FdtPA + t <= Fdt2PA /\ InitrdPA + r <= MemTop
    BY <1>1, Fits DEF Tree
  <2>3. \A k \in 0 .. l - 1 : mem[LinuxPA + k] = <<"linux", k>>
    BY <1>1 DEF MapInv, Placed, Holds
  <2>4. /\ atf /\ Holds(FdtPA, Tree) /\ (fb => Holds(FbPA, "splash"))
        /\ "initrd" \in conf.images => Holds(InitrdPA, "initrd")
    BY <1>1 DEF MapInv, Kept, Placed
  <2>5. mem' = Copy(mem, o, LinuxPA, l) /\ linux' = o
    BY <1>5 DEF boot_kernel
  <2> HIDE DEF o, l
  <2>6. /\ o + l <= MemTop /\ (fb => FbPA + s <= MemTop) /\ FdtPA + t <= MemTop /\ o + l <= InitrdPA
        /\ o + l \in Nat
    BY <2>1, <2>2, Places
  <2>7. \A k \in 0 .. l - 1 : mem'[o + k] = <<"linux", k>>
    <3>1. \A k \in 0 .. l - 1 : Copy(mem, o, LinuxPA, l)[o + k] = mem[LinuxPA + k]
      BY <1>1, <2>1, <2>6, Places, CopyMoves
    <3> QED BY <2>3, <2>5, <3>1
  <2>8. \A c \in Cell : c < o \/ c >= o + l => mem'[c] = mem[c]
    BY <1>1, <2>1, <2>5, Places, CopyKeeps
  <2>9. Holds(linux, "linux")'
    BY <1>3, <2>5, <2>7 DEF Holds, l
  <2>10. Holds(FdtPA, Tree)'
    <3>1. \A i : i = Tree => Holds(FdtPA, i)'
      BY <1>1, <2>1, <2>2, <2>4, <2>6, <2>8, Places, OutsideHolds
    <3> QED BY <3>1, <1>3 DEF Holds
  <2>11. fb => Holds(FbPA, "splash")'
    BY <1>1, <2>1, <2>2, <2>4, <2>6, <2>8, Places, OutsideHolds
  <2>12. "initrd" \in conf.images => Holds(InitrdPA, "initrd")'
    BY <1>1, <2>1, <2>2, <2>4, <2>6, <2>8, Places, OutsideHolds
  <2>13. linux' = (LinuxPA + conf.text_offset)'
    BY <1>1, <2>5 DEF o
  <2> QED BY <1>1, <1>3, <1>5, <2>4, <2>9, <2>10, <2>11, <2>12, <2>13 DEF Kept, Placed
<1> QED BY <1>1, <1>4, <1>5

(* fdt_increase_size() writes behind the tree and below the alternative. *)
LEMMA TreeInv ==
  ASSUME MapInv, boot_tree
  PROVE  MapInv'
<1>1. pc' \in {"framebuffer", "failed"} /\ UNCHANGED <<conf, fb, atf, linux>> /\ conf \in Cases /\ DOMAIN mem = Cell
      /\ pc = "tree"
  BY DEF boot_tree, MapInv, MemTypes
<1> DEFINE n == IF mem[FdtPA][1] = "fdt" THEN Size("fdt") ELSE Size("fdt2")
<1>2. (mem' = mem /\ pc' = "failed") \/ mem' = Store(mem, FdtPA + n, GrowCells, "slack")
  BY DEF boot_tree
<1>3. DOMAIN mem' = Cell
  BY <1>1, <1>2 DEF Store
<1>4. (Enough' => Enough) /\ Tree' = Tree /\ \A i : Size(i)' = Size(i)
  BY <1>1 DEF Enough, Size, Tree
<1>5. CASE pc' = "failed"
  BY <1>1, <1>3, <1>5 DEF MapInv, MemTypes, Kept, Placed
<1>6. CASE pc' = "framebuffer"
  <2> SUFFICES ASSUME Enough PROVE Kept' /\ Placed'
    BY <1>1, <1>3, <1>4 DEF MapInv, MemTypes
  <2> DEFINE l == Size("linux")
  <2> DEFINE r == Size("initrd")
  <2> DEFINE s == Size("splash")
  <2> DEFINE t == Size(Tree)
  <2> DEFINE lo == FdtPA + n
  <2> DEFINE hi == FdtPA + n + GrowCells
  <2>1. l \in Nat /\ r \in Nat /\ s \in Nat /\ t \in Nat /\ n \in Nat /\ conf.text_offset \in Nat
    BY <1>1, Sizes DEF Images, Tree
  <2>2. /\ LinuxPA + conf.text_offset + l <= FdtPA /\ (fb => FbPA + s <= FdtPA) /\ InitrdPA + r <= MemTop
        /\ hi <= Fdt2PA
    BY <1>1, Fits
  <2>3. /\ atf /\ Holds(FdtPA, Tree) /\ (fb => Holds(FbPA, "splash")) /\ Holds(linux, "linux")
        /\ "initrd" \in conf.images => Holds(InitrdPA, "initrd")
        /\ linux = LinuxPA + conf.text_offset
    BY <1>1 DEF MapInv, Kept, Placed
  <2>4. mem' = Store(mem, lo, GrowCells, "slack")
    BY <1>2, <1>6
  <2>5. t <= n
    <3>1. CASE t = 0
      BY <2>1, <3>1
    <3>2. CASE t > 0
      <4>1. 0 \in 0 .. t - 1 /\ FdtPA + 0 = FdtPA
        BY <2>1, <3>2, Places
      <4>2. mem[FdtPA + 0] = <<Tree, 0>>
        BY <2>3, <4>1 DEF Holds
      <4>3. mem[FdtPA][1] = Tree
        BY <4>1, <4>2
      <4>4. n = t
        BY <4>3 DEF Tree
      <4> QED BY <4>4, <2>1
    <3> QED BY <2>1, <3>1, <3>2
  <2> HIDE DEF n
  <2>6. /\ lo \in Nat /\ hi \in Nat /\ hi = lo + GrowCells /\ hi <= MemTop /\ hi <= InitrdPA
        /\ linux \in Nat /\ linux + l <= MemTop /\ linux + l <= lo
        /\ fb => FbPA + s <= MemTop /\ FbPA + s <= lo
        /\ FdtPA + t <= lo /\ FdtPA + t <= MemTop
    <3> DEFINE o == conf.text_offset
    <3>1. o \in Nat /\ linux = LinuxPA + o /\ LinuxPA + o + l <= FdtPA
      BY <2>1, <2>2, <2>3
    <3> HIDE DEF o, l, s, t, r
    <3> QED BY <3>1, <2>1, <2>2, <2>5, Places
  <2> HIDE DEF lo, hi
  <2>7. \A c \in Cell : c < lo \/ c >= hi => mem'[c] = mem[c]
    <3>1. \A c \in Cell : c < lo \/ c >= lo + GrowCells => Store(mem, lo, GrowCells, "slack")[c] = mem[c]
      BY <1>1, <2>6, Places, StoreHolds
    <3> QED BY <2>4, <2>6, <3>1
  <2>8. Holds(linux, "linux")'
    <3>1. \A at \in Nat : at = linux => Holds(at, "linux")'
      BY <1>1, <2>1, <2>3, <2>6, <2>7, OutsideHolds
    <3> QED BY <1>1, <2>6, <3>1 DEF Holds
  <2>9. Holds(FdtPA, Tree)'
    <3>1. \A i : i = Tree => Holds(FdtPA, i)'
      BY <1>1, <2>1, <2>3, <2>6, <2>7, Places, OutsideHolds
    <3> QED BY <3>1, <1>4 DEF Holds
  <2>10. fb => Holds(FbPA, "splash")'
    BY <1>1, <2>1, <2>3, <2>6, <2>7, Places, OutsideHolds
  <2>11. "initrd" \in conf.images => Holds(InitrdPA, "initrd")'
    BY <1>1, <2>1, <2>2, <2>3, <2>6, <2>7, Places, OutsideHolds
  <2>12. linux' = (LinuxPA + conf.text_offset)'
    BY <1>1, <2>3
  <2> QED BY <1>1, <1>4, <1>6, <2>3, <2>8, <2>9, <2>10, <2>11, <2>12 DEF Kept, Placed
<1> QED BY <1>1, <1>5, <1>6

(* The edits of the tree stay inside it. *)
Later == {"framebuffer", "policy", "wifi", "wifi2", "pboot", "bootargs", "memory", "initrd", "shrink", "done"}
Edit ==
  \/ fdt_setup_framebuffer \/ boot_policy \/ fdt_fixup_wifi \/ fdt_add_pboot_data \/ boot_bootargs
  \/ fdt_fixup_memory \/ boot_initrd \/ fdt_shrink_to_minimum

LEMMA EditMoves ==
  ASSUME Edit
  PROVE  pc \in Later /\ pc' \in Later \cup {"failed"} /\ UNCHANGED <<conf, fb, mem, atf, linux>>
<1>1. CASE fdt_setup_framebuffer
  BY <1>1 DEF fdt_setup_framebuffer, Later
<1>2. CASE boot_policy
  BY <1>2 DEF boot_policy, Later
<1>3. CASE fdt_fixup_wifi
  BY <1>3 DEF fdt_fixup_wifi, Later
<1>4. CASE fdt_add_pboot_data
  BY <1>4 DEF fdt_add_pboot_data, Later
<1>5. CASE boot_bootargs
  BY <1>5 DEF boot_bootargs, Finish, Later
<1>6. CASE fdt_fixup_memory
  BY <1>6 DEF fdt_fixup_memory, Finish, Later
<1>7. CASE boot_initrd
  BY <1>7 DEF boot_initrd, Finish, Later
<1>8. CASE fdt_shrink_to_minimum
  BY <1>8 DEF fdt_shrink_to_minimum, Finish, Later
<1> QED BY <1>1, <1>2, <1>3, <1>4, <1>5, <1>6, <1>7, <1>8 DEF Edit

LEMMA EditInv ==
  ASSUME MapInv, Edit
  PROVE  MapInv'
<1>1. pc \in Later /\ pc' \in Later \cup {"failed"} /\ UNCHANGED <<conf, fb, mem, atf, linux>>
  BY EditMoves
<1>2. (Enough' => Enough) /\ Tree' = Tree /\ \A at, i : Holds(at, i) => Holds(at, i)'
  BY <1>1 DEF Enough, Tree, Holds, Size
<1>3. MemTypes'
  BY <1>1 DEF MapInv, MemTypes, Later
<1>4. ASSUME Enough' PROVE Kept' /\ Placed'
  <2>1. Kept /\ Placed
    BY <1>2, <1>4 DEF MapInv
  <2> QED BY <1>1, <1>2, <2>1 DEF Kept, Placed, Later
<1> QED BY <1>3, <1>4 DEF MapInv

LEMMA InitMap ==
  ASSUME Init
  PROVE  MapInv
BY DEF Init, MapInv, MemTypes, Kept, Placed, Cell

LEMMA StepMap ==
  ASSUME MapInv, [Next]_vars
  PROVE  MapInv'
<1>1. CASE UNCHANGED vars
  BY <1>1 DEF vars, MapInv, MemTypes, Enough, Kept, Placed, Holds, Size, Tree
<1>2. CASE Edit
  BY <1>2, EditInv
<1> QED BY <1>1, <1>2, SplashInv, LoadInv, AlternateInv, KernelInv, TreeInv DEF Next, Edit

(* Whatever the images' sizes and the kernel's offset, and wherever a      *)
(* build puts the fixed addresses: if boot_prepare() and boot_finalize()   *)
(* come to their end and the images fit, ATF gets the kernel, the          *)
(* initramfs, the board's tree and the picture whole.                      *)
THEOREM ImagesAlwaysIntact == Spec => []ImagesIntact
<1>1. MapInv => ImagesIntact
  <2> SUFFICES ASSUME MapInv, pc = "done", Enough
               PROVE  /\ atf /\ Holds(linux, "linux") /\ ("initrd" \in conf.images => Holds(InitrdPA, "initrd"))
                      /\ Holds(FdtPA, Tree) /\ linux + Size("linux") <= FdtPA /\ (fb => Holds(FbPA, "splash"))
    BY DEF ImagesIntact, Tree
  <2>1. Kept /\ Placed /\ conf \in Cases
    BY DEF MapInv, MemTypes
  <2>2. linux + Size("linux") <= FdtPA
    BY <2>1, Fits DEF Placed
  <2> QED BY <2>1, <2>2 DEF Kept, Placed
<1> QED BY InitMap, StepMap, <1>1, PTL DEF Spec
=============================================================================
