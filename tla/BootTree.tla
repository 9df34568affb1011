------------------------------ MODULE BootTree ------------------------------
(***************************************************************************)
(* From the chosen configuration to the jump to ATF: load_splash() loads a *)
(* picture to show meanwhile, boot_prepare() loads the images to their     *)
(* fixed addresses and opens the device tree, fdt_setup_framebuffer(),     *)
(* boot_selection() itself and boot_finalize() edit it, and jump_to_atf()  *)
(* hands everything over.  What each call leaves behind in the blob is     *)
(* what libfdt (module Fdt) does to it; running out of space may end any   *)
(* of the calls.                                                           *)
(*                                                                         *)
(* Memory is a row of cells, each holding a piece of an image.             *)
(*                                                                         *)
(* A definition X_y in front of X is a faulty variant of X, there only to  *)
(* see that the properties notice it; nothing uses it.                     *)
(***************************************************************************)
EXTENDS Fdt

CONSTANTS
  LinuxPA, FbPA, FdtPA, Fdt2PA, InitrdPA, MemTop,   \* cells, in this order
  Cases,      \* what may be booted: values of conf
  Grow,       \* words fdt_increase_size() adds (256 KiB)
  GrowCells,  \* and the cells that may take
  LogWords    \* length of the log property

ASSUME PlacesAssumption ==
  /\ {LinuxPA, FbPA, FdtPA, Fdt2PA, InitrdPA, MemTop, GrowCells} \subseteq Nat
  /\ LinuxPA < FbPA /\ FbPA < FdtPA /\ FdtPA < Fdt2PA /\ Fdt2PA < InitrdPA /\ InitrdPA < MemTop
  /\ \A c \in Cases : c.text_offset \in Nat /\ c.sizes \in [{"linux", "fdt", "fdt2", "initrd", "splash"} -> Nat]

VARIABLES
  conf,     \* what is booted: the images listed, their sizes in cells, the trees in
            \* the images ([magic, b]), the paths their aliases name, the kernel's
            \* magic and text_offset, the board's revision, the privacy
            \* flag, eg25-manager among the boot arguments, whether the SoC has an id
  fb,       \* a splash screen is shown
  mem,      \* cell -> <<image, piece>>
  atf,      \* ATF is in SRAM
  blob,     \* the device tree at FdtPA
  linux,    \* globals->linux_image_pa
  path,     \* fdt_fixup_wifi(): its pointer into the blob, 0 is NULL
  pc

vars == <<conf, fb, mem, atf, blob, linux, path, pc>>
-----------------------------------------------------------------------------
Required == {"atf", "fdt", "linux"}
Dest(i) == CASE i = "linux" -> LinuxPA [] i = "fdt" -> FdtPA [] i = "fdt2" -> Fdt2PA [] i = "initrd" -> InitrdPA
Size(i) == conf.sizes[i]
(* bootfs_load_image() and memmove(): n cells from piece 0 of an image. *)
Store(m, at, n, i) == [c \in DOMAIN m |-> IF c \in at .. at + n - 1 THEN <<i, c - at>> ELSE m[c]]
Copy(m, to, from, n) == [c \in DOMAIN m |-> IF c \in to .. to + n - 1 THEN m[from + c - to] ELSE m[c]]

(* load_splash(): a picture in memory is not shown when it is empty or     *)
(* could not be read.                                                      *)
load_splash ==
  /\ pc = "splash" /\ pc' = "load" /\ UNCHANGED <<conf, atf, blob, linux, path>>
  /\ \/ /\ "splash" \in conf.images /\ fb' = (Size("splash") > 0)
        /\ mem' = Store(mem, FbPA, Size("splash"), "splash")
     \/ fb' = FALSE /\ UNCHANGED mem

(* boot_prepare(): all required images must be listed; then they are       *)
(* loaded, in the order of their numbers, whatever they overwrite.         *)
Missing == ~(Required \subseteq conf.images)
LoadOne(m, i) == IF i \in conf.images THEN Store(m, Dest(i), Size(i), i) ELSE m
LoadAll(m) == LoadOne(LoadOne(LoadOne(LoadOne(m, "fdt"), "linux"), "initrd"), "fdt2")   \* ATF goes to SRAM
boot_load ==
  /\ pc = "load" /\ UNCHANGED <<conf, fb, blob, linux, path>>
  /\ \/ Missing /\ pc' = "failed" /\ UNCHANGED <<mem, atf>>
     \/ ~Missing /\ mem' = LoadAll(mem) /\ atf' = TRUE /\ pc' = "alternate"
     \* reading an image fails: some were loaded
     \/ ~Missing /\ pc' = "failed" /\ mem' = mem /\ atf' \in {TRUE, FALSE}

(* On PinePhone 1.2 the alternative tree replaces the first. *)
Alternate_always == TRUE
Alternate == conf.rev = 2
boot_alternate ==
  /\ pc = "alternate" /\ pc' = "kernel" /\ UNCHANGED <<conf, fb, atf, blob, linux, path>>
  /\ mem' = IF "fdt2" \in conf.images /\ Alternate THEN Copy(mem, FdtPA, Fdt2PA, Size("fdt2")) ELSE mem

(* The kernel's magic, then its relocation by text_offset.  An empty image *)
(* leaves in its place what was there.                                     *)
KernelThere == mem[LinuxPA] \in {<<"linux", 0>>, <<"stale", 0>>}
boot_kernel ==
  /\ pc = "kernel" /\ UNCHANGED <<conf, fb, atf, blob, path>>
  /\ IF KernelThere /\ conf.arm64
       THEN /\ linux' = LinuxPA + conf.text_offset /\ pc' = "tree"
            /\ mem' = Copy(mem, LinuxPA + conf.text_offset, LinuxPA, Size("linux"))
       ELSE pc' = "failed" /\ UNCHANGED <<mem, linux>>

(* fdt_check_header() looks at the magic only.  fdt_increase_size(), and   *)
(* the first look for /chosen.                                             *)
TreeThere == CASE mem[FdtPA] = <<"fdt", 0>> -> conf.tree [] mem[FdtPA] = <<"fdt2", 0>> -> conf.tree2
               [] OTHER -> [magic |-> FALSE]
Chosen == <<"chosen", "">>
boot_tree ==
  /\ pc = "tree" /\ UNCHANGED <<conf, fb, atf, linux, path>>
  /\ IF ~TreeThere.magic THEN pc' = "failed" /\ UNCHANGED <<mem, blob>>
     ELSE LET r == fdt_find_or_add_subnode(fdt_increase_size(TreeThere.b, Grow), 1, Chosen)
              n == IF mem[FdtPA][1] = "fdt" THEN Size("fdt") ELSE Size("fdt2")
          IN  /\ blob' = r.b /\ pc' = IF r.err THEN "failed" ELSE "framebuffer"
              /\ mem' = Store(mem, FdtPA + n, GrowCells, "slack")
-----------------------------------------------------------------------------
(* One edit after the other; the rest is left out after a failure.  An     *)
(* edit is an operator from a blob to [err, b, off].                       *)
Chain(b, e1(_), e2(_)) == LET r == e1(b) IN IF r.err THEN r ELSE e2(r.b)
InNode(b, q, edit(_, _)) == LET r == fdt_find_or_add_subnode(b, 1, q) IN IF r.err THEN r ELSE edit(r.b, r.off)

(* fdt_setup_framebuffer(), only after the splash screen; its result is    *)
(* not looked at.                                                          *)
fdt_setup_framebuffer ==
  /\ pc = "framebuffer" /\ pc' = "policy" /\ UNCHANGED <<conf, fb, mem, atf, linux, path>>
  /\ LET e1(b, off) == Chain(b, LAMBDA x : fdt_setprop(x, off, "p-boot,framebuffer", "fb", 2),
                                LAMBDA x : Chain(x, LAMBDA y : fdt_setprop(y, off, "p-boot,framebuffer-start", "fb", 1),
                                                    LAMBDA y : fdt_add_mem_rsv(y, "fb", "fbsize")))
     IN  blob' = IF fb THEN InNode(blob, Chosen, e1).b ELSE blob

(* boot_selection()'s own edits: the thermal sensor goes to the PMIC, and   *)
(* privacy disables what listens, or a user space driver gets the modem to  *)
(* itself.  Missing nodes are skipped, errors are not looked at.            *)
Soc == <<"soc", "">>
adc == <<Soc, <<"rsb", "1f03400">>, <<"pmic", "3a3">>, <<"adc", "">>>>
modem == <<Soc, <<"serial", "1c28c00">>, <<"modem", "">>>>
vbat_bb == <<<<"vbat-bb", "">>>>
priv_nodes ==
  <<<<Soc, <<"mmc", "1c10000">>>>, <<<<"sound", "">>>>, <<Soc, <<"serial", "1c28400">>>>,
    <<Soc, <<"i2c", "1c2b000">>>>, <<<<"i2c-csi", "">>>>, <<Soc, <<"csi", "1cb0000">>>>>>
AtPath(b, p, edit(_, _)) == LET off == fdt_path_offset(b.st, p) IN IF off = 0 THEN b ELSE edit(b, off)
fdt_path_disable(b, p) == AtPath(b, p, LAMBDA x, off : fdt_setprop(x, off, "status", "disabled", 3).b)
boot_policy ==
  /\ pc = "policy" /\ pc' = "wifi" /\ UNCHANGED <<conf, fb, mem, atf, linux, path>>
  /\ LET b == AtPath(blob, adc, LAMBDA x, off : fdt_delprop(x, off, "x-powers,ts-as-gpadc"))
     IN  blob' = CASE conf.priv ->
                        AtPath(FoldLeft(fdt_path_disable, b, priv_nodes), modem,
                               LAMBDA x, off : fdt_setprop(x, off, "blocked", "1", 1).b)
                   [] ~conf.priv /\ conf.eg25 ->
                        AtPath(AtPath(b, modem, fdt_del_node), vbat_bb,
                               LAMBDA x, off : fdt_setprop(x, off, "regulator-always-on", "", 0).b)
                   [] OTHER -> b

(* fdt_fixup_wifi(): the path stays a pointer into the blob across the     *)
(* first change.  Errors are printed only.                                 *)
PathNode(b, place) ==
  LET p == Pointed(b, place) IN IF p \in DOMAIN conf.paths THEN fdt_path_offset(b.st, conf.paths[p]) ELSE 0
(* get_mac_address(): made of the SoC's id, which may be blank.            *)
get_mac_address == IF conf.sid THEN "mac" ELSE "none"
Disabled(b, off) == fdt_getprop(b.st, off, "status") = "disabled"
fdt_fixup_wifi ==
  \/ /\ pc = "wifi" /\ UNCHANGED <<conf, fb, mem, atf, linux>>
     /\ LET place == fdt_get_alias(blob, "ethernet0")
            off   == IF place = 0 THEN 0 ELSE PathNode(blob, place)
        IN  IF off = 0 \/ (off # 0 /\ Disabled(blob, off)) \/ get_mac_address = "none" THEN pc' = "pboot" /\ UNCHANGED <<blob, path>>
            ELSE /\ path' = place /\ pc' = "wifi2"
                 /\ blob' = IF fdt_get_property(blob.st, off, "mac-address") = 0 THEN blob
                            ELSE fdt_setprop(blob, off, "mac-address", get_mac_address, 2).b
  \/ /\ pc = "wifi2" /\ pc' = "pboot" /\ path' = 0 /\ UNCHANGED <<conf, fb, mem, atf, linux>>
     /\ LET off == PathNode(blob, path)
        IN  blob' = IF off = 0 THEN blob ELSE fdt_setprop(blob, off, "local-mac-address", get_mac_address, 2).b

(* fdt_add_pboot_data(): /p-boot with the list of configurations and the   *)
(* log; errors are not looked at.                                          *)
fdt_add_pboot_data ==
  /\ pc = "pboot" /\ pc' = "bootargs" /\ UNCHANGED <<conf, fb, mem, atf, linux, path>>
  /\ LET r == fdt_find_or_add_subnode(blob, 1, <<"p-boot", "">>)
         c == fdt_setprop(r.b, r.off, "configs", "configs", 2).b
     IN  blob' = IF r.err THEN r.b ELSE fdt_setprop(c, r.off, "log", "log", LogWords).b

Finish(r, next) == blob' = r.b /\ pc' = IF r.err THEN "failed" ELSE next
boot_bootargs ==
  /\ pc = "bootargs" /\ UNCHANGED <<conf, fb, mem, atf, linux, path>>
  /\ LET e(b, off) == fdt_setprop(b, off, "bootargs", "args", 3)
     IN  Finish(InNode(blob, Chosen, e), "memory")

(* fdt_fixup_memory_banks() with one bank that is never empty. *)
RegWords(b) == fdt_address_cells(b.st) + fdt_size_cells(b.st)
fdt_fixup_memory ==
  /\ pc = "memory" /\ UNCHANGED <<conf, fb, mem, atf, linux, path>>
  /\ LET e(b, off) == Chain(b, LAMBDA x : fdt_setprop(x, off, "device_type", "memory", 2),
                               LAMBDA x : fdt_setprop(x, off, "reg", "dram", RegWords(x)))
     IN  Finish(InNode(blob, <<"memory", "">>, e), "initrd")

(* fdt_initrd(): nothing for an empty one; an old reservation is replaced. *)
DelOld_not(b, addr) == b
DelOld(b, addr) == DelRsvOf(b, addr)
fdt_initrd(b0) ==
  LET e(b, off) ==
        Chain(DelOld(b, "initrd"), LAMBDA x : fdt_add_mem_rsv(x, "initrd", "initrdsize"),
              LAMBDA x : Chain(x, LAMBDA y : fdt_setprop(y, off, "linux,initrd-start", "start", fdt_address_cells(y.st)),
                                  LAMBDA y : fdt_setprop(y, off, "linux,initrd-end", "end", fdt_address_cells(y.st))))
  IN  InNode(b0, Chosen, e)
boot_initrd ==
  /\ pc = "initrd" /\ UNCHANGED <<conf, fb, mem, atf, linux, path>>
  /\ IF "initrd" \in conf.images /\ Size("initrd") # 0 THEN Finish(fdt_initrd(blob), "shrink")
     ELSE pc' = "shrink" /\ UNCHANGED blob

(* fdt_shrink_to_minimum(): the size becomes what is used and room for     *)
(* five reservations; one for the blob itself is renewed, if there is one. *)
fdt_shrink_to_minimum ==
  /\ pc = "shrink" /\ UNCHANGED <<conf, fb, mem, atf, linux, path>>
  /\ LET b == DelRsvOf(blob, "fdt")
         s == [b EXCEPT !.total = fdt_data_size(b) + 5 * RsvWords]
     IN  Finish(IF HasRsv(blob, "fdt") THEN fdt_add_mem_rsv(s, "fdt", "fdtsize") ELSE Done(s, 0), "done")

Init ==
  /\ conf \in Cases
  \* DRAM may still hold the images of an earlier boot
  /\ \E old \in {"free", "stale"} :
       mem = [c \in 0 .. MemTop - 1 |-> <<IF c = LinuxPA THEN old ELSE "free", 0>>]
  /\ atf = FALSE /\ linux = 0 /\ path = 0 /\ fb = FALSE /\ pc = "splash"
  /\ blob = [rsv |-> <<>>, st |-> <<>>, strs |-> <<>>, total |-> 0]
Next ==
  \/ load_splash \/ boot_load \/ boot_alternate \/ boot_kernel \/ boot_tree \/ fdt_setup_framebuffer \/ boot_policy
  \/ fdt_fixup_wifi \/ fdt_add_pboot_data \/ boot_bootargs \/ fdt_fixup_memory \/ boot_initrd \/ fdt_shrink_to_minimum
Spec == Init /\ [][Next]_vars
-----------------------------------------------------------------------------
(* The blob is a proper device tree within its size after every call,      *)
(* whatever it was given and wherever space ran out.                       *)
BootTreeTypeOK ==
  /\ linux \in 0 .. MemTop /\ fb \in BOOLEAN /\ atf \in BOOLEAN /\ path \in Nat
  /\ pc \notin {"splash", "load", "alternate", "kernel", "tree"} /\ blob.st # <<>> => WellFormed(blob)

(* Sizes that fit between the fixed addresses, with the tree's growth.     *)
Enough ==
  /\ \A i \in Required \ {"atf"} : Size(i) > 0
  /\ Size("linux") + conf.text_offset <= (IF fb THEN FbPA ELSE FdtPA) - LinuxPA
  /\ fb => Size("splash") <= FdtPA - FbPA
  /\ Size("fdt") + GrowCells <= Fdt2PA - FdtPA /\ Size("fdt2") + GrowCells <= Fdt2PA - FdtPA
  /\ Size("fdt2") <= InitrdPA - Fdt2PA /\ Size("initrd") <= MemTop - InitrdPA
Holds(at, i) == \A k \in 0 .. Size(i) - 1 : mem[at + k] = <<i, k>>

(* What ATF and the kernel get: when the images fit and none is empty, the *)
(* kernel is whole where it is started, the initramfs is whole where the   *)
(* tree says, the tree is the one for this board, and the picture on the   *)
(* screen is still in the memory reserved for it.                          *)
ImagesIntact ==
  pc = "done" /\ Enough =>
    /\ atf /\ Holds(linux, "linux") /\ ("initrd" \in conf.images => Holds(InitrdPA, "initrd"))
    /\ Holds(FdtPA, IF conf.rev = 2 /\ "fdt2" \in conf.images THEN "fdt2" ELSE "fdt")
    /\ linux + Size("linux") <= FdtPA
    /\ fb => Holds(FbPA, "splash")

TheTree == IF conf.rev = 2 /\ "fdt2" \in conf.images THEN conf.tree2.b ELSE conf.tree.b
At(q, name) == LET off == fdt_subnode_offset(blob.st, 1, q) IN IF off = 0 THEN "none" ELSE fdt_getprop(blob.st, off, name)
Count(addr) == Cardinality({k \in 1 .. Len(blob.rsv) : blob.rsv[k][1] = addr})
Wifi(b) ==
  LET place == fdt_get_alias(b, "ethernet0") IN IF place = 0 THEN 0 ELSE PathNode(b, place)
(* The properties p-boot means to change. *)
Touched ==
  {<<"chosen", n>> : n \in {"bootargs", "linux,initrd-start", "linux,initrd-end", "p-boot,framebuffer", "p-boot,framebuffer-start"}}
  \cup {<<"memory", n>> : n \in {"device_type", "reg"}} \cup {<<"p-boot", n>> : n \in {"configs", "log"}}
  \cup {<<"wifi", n>> : n \in IF conf.sid THEN {"mac-address", "local-mac-address"} ELSE {}}
  \cup {<<"adc", "x-powers,ts-as-gpadc">>}
  \cup CASE conf.priv -> {<<p[Len(p)][1], "status">> : p \in Range(priv_nodes)} \cup {<<"modem", "blocked">>}
         [] ~conf.priv /\ conf.eg25 -> {<<"modem", "power">>, <<"vbat-bb", "regulator-always-on">>}
         [] OTHER -> {}
Rest(st) == {x \in Content(st) : x[1] = <<>> \/ <<x[1][Len(x[1])][1], x[2]>> \notin Touched}
Has(p) == fdt_path_offset(TheTree.st, p) # 0
Value(p, name) == LET off == fdt_path_offset(blob.st, p) IN IF off = 0 THEN "no node" ELSE fdt_getprop(blob.st, off, name)

(* The size in the tree's header covers the tree, as every compiler of     *)
(* trees has it: then fdt_increase_size() has made room for every edit.    *)
Sized == fdt_data_size(TheTree) <= TheTree.total

(* The interface p-boot gives an address to, at the end. *)
WifiOn == LET w == Wifi(blob) IN w # 0 /\ ~Disabled(blob, w) /\ conf.sid
(* fdt_fixup_wifi() has moved the path it still uses: the alias lies       *)
(* behind a mac-address that changes its length.                           *)
StalePath ==
  LET b == TheTree
      w == Wifi(b)
      j == IF w = 0 THEN 0 ELSE fdt_get_property(b.st, w, "mac-address")
  IN  j # 0 /\ b.st[j].len # 2 /\ ValuePlace(b, j) < fdt_get_alias(b, "ethernet0")

(* The tree the kernel gets has the command line, the memory and the       *)
(* initramfs with exactly one reservation, the interface's address under   *)
(* both names, every node there that privacy is about disabled, the        *)
(* thermal sensor left to the PMIC, and everything else as it was.  Where  *)
(* the path to the interface has gone stale, fdt_fixup_wifi() does not set *)
(* local-mac-address, and still does no harm to another node.              *)
TreeHandedOver ==
  pc = "done" /\ Enough =>
    /\ At(Chosen, "bootargs") = "args" /\ At(<<"memory", "">>, "reg") = "dram"
    /\ "initrd" \in conf.images /\ Size("initrd") > 0 =>
         /\ At(Chosen, "linux,initrd-start") = "start" /\ At(Chosen, "linux,initrd-end") = "end"
         /\ Count("initrd") = 1
    /\ Rest(blob.st) = Rest(TheTree.st)
    /\ WifiOn /\ Sized =>
         /\ fdt_getprop(blob.st, Wifi(blob), "mac-address") \in {"none", "mac"}
         /\ StalePath <=> fdt_getprop(blob.st, Wifi(blob), "local-mac-address") # "mac"
    /\ Value(adc, "x-powers,ts-as-gpadc") \in {"none", "no node"}
    /\ conf.priv /\ Sized =>
         /\ \A p \in Range(priv_nodes) : Has(p) => Value(p, "status") = "disabled"
         /\ Has(modem) => Value(modem, "blocked") = "1"
    /\ ~conf.priv /\ conf.eg25 /\ Has(modem) => Value(modem, "power") = "no node"
=============================================================================
