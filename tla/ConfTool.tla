------------------------------ MODULE ConfTool ------------------------------
(***************************************************************************)
(* p-boot-conf (conf.c): it parses boot.conf, lists the files/ directory,  *)
(* and writes a bootfs onto a partition or into an image file: superblock, *)
(* data, then the blocks of the table.  Nothing is flushed before the      *)
(* sync() at the end, so a kill leaves a prefix of the writes and a power  *)
(* loss any part of them.                                                  *)
(*                                                                         *)
(* boot.conf is a sequence of [key, val] (what is left of a line after     *)
(* trimming); comments, empty lines and lines without '=' have key "junk". *)
(*                                                                         *)
(* A definition X_y in front of X is a faulty variant of X, there only to  *)
(* see that the properties notice it; nothing uses it.                     *)
(***************************************************************************)
EXTENDS BootfsLayout, SequencesExt

CONSTANTS
  BootConfs,   \* the boot.conf files to try
  Dirs,        \* the files/ directories: sequences of [name, path, kind]
  Real,        \* realpath(): path -> file, "none" if it cannot be resolved
  Body,        \* file -> [size, uimage], size 0 .. and an uImage header or not
  Header,      \* units of an uImage header (64 bytes)
  MaxFiles,    \* size of files[] (400)
  Targets,     \* "block": O_TRUNC has no effect; "regular": it empties the file
  OldDevs      \* what the target held before

image_types == {"linux", "initramfs", "atf", "dtb", "dtb2", "splash"}
Optional    == {"initramfs", "dtb2", "splash"}

(* Sequences of lines, and of directory entries with names of their own,   *)
(* whose paths Real knows; a file that was just listed can be resolved.    *)
ASSUME InputAssumption ==
  /\ MaxFiles \in Nat /\ Header \in Nat
  /\ \A f \in DOMAIN Body : Body[f].size \in Nat /\ Body[f].uimage \in BOOLEAN
  /\ "none" \notin DOMAIN Body /\ \A p \in DOMAIN Real : Real[p] \in DOMAIN Body \cup {"none"}
  /\ \A c \in BootConfs :
       /\ Len(c) \in Nat /\ DOMAIN c = 1 .. Len(c)
       /\ \A k \in DOMAIN c : c[k].key \in image_types => c[k].val \in DOMAIN Real
  /\ \A d \in Dirs :
       /\ Len(d) \in Nat /\ DOMAIN d = 1 .. Len(d)
       /\ \A k \in DOMAIN d : d[k].kind = "short" => d[k].path \in DOMAIN Real /\ Real[d[k].path] # "none"
       /\ \A j, k \in DOMAIN d : d[j].name = d[k].name => j = k
  /\ \A o \in OldDevs : DOMAIN o = Address

VARIABLES
  input,       \* [conf, dir, target, old]: what the tool was started on
  pc,          \* "parse", "include", "data", "tables", "done", "failed", "lost"
  line,        \* next line, directory entry, byte run or slot of the current loop
  conf,        \* configuration being parsed, NoConf before the first no=
  device_id,   \* was there a device_id line?
  confs,       \* the completed ones
  data_list,   \* files to store, in the order met
  files,       \* entries of files/
  dev,         \* the target as programs see it
  medium,      \* the target as of the last sync()
  pending,     \* the writes since
  off_i,       \* next free data offset
  extent       \* file -> [off, len] once stored

cvars == <<input, pc, line, conf, device_id, confs, data_list, files, dev, medium, pending,
           off_i, extent>>
parsed == <<conf, device_id, confs, data_list, files>>
written == <<dev, medium, pending, off_i, extent>>

NoConf == [index |-> -1]
NewConf(no) == [index |-> no, name |-> FALSE, images |-> <<>>]

exit1 == pc' = "failed" /\ UNCHANGED <<line, parsed, written>>

(* data_add_file(): a file stored once is shared.  Fails on "none". *)
data_add_file(list, f) == IF f \in Range(list) THEN list ELSE Append(list, f)

(* complete_conf(): what it accepts. *)
Complete_any(c) == c.name /\ confs[c.index] = NoConf
Complete(c) ==
  /\ confs[c.index] = NoConf
  /\ c.name
  /\ \A t \in image_types \ Optional : \E k \in DOMAIN c.images : c.images[k].type = t
complete_conf == IF conf = NoConf THEN confs ELSE [confs EXCEPT ![conf.index] = conf]
CanComplete == conf # NoConf => Complete(conf)

(* One line of boot.conf: the code calls exit(1) on what Accepts rejects. *)
(* The value of a no= line is what atoi() makes of it.                     *)
Accepts(l) ==
  CASE l.key = "junk"         -> TRUE
    [] l.key = "device_id"    -> ~device_id /\ l.val = "short"
    [] l.key = "no"           -> CanComplete /\ l.val \in Slots
    [] l.key \in image_types -> /\ conf # NoConf /\ Real[l.val] # "none"
                                /\ \A k \in DOMAIN conf.images : conf.images[k].type # l.key
    [] OTHER                  -> conf # NoConf

parse_line(l) ==
  /\ device_id' = (device_id \/ l.key = "device_id")
  /\ confs' = IF l.key = "no" THEN complete_conf ELSE confs
  /\ data_list' = IF l.key \in image_types THEN data_add_file(data_list, Real[l.val]) ELSE data_list
  /\ conf' = CASE l.key = "no"   -> NewConf(l.val)
              [] l.key = "name" -> [conf EXCEPT !.name = (l.val # "")]
              [] l.key \in image_types ->
                   [conf EXCEPT !.images = Append(@, [type |-> l.key, file |-> Real[l.val]])]
              [] OTHER          -> conf

parse_conf ==
  /\ pc = "parse" /\ line <= Len(input.conf)
  /\ \/ /\ Accepts(input.conf[line]) /\ parse_line(input.conf[line])
        /\ line' = line + 1 /\ UNCHANGED <<pc, files, written>>
     \/ ~Accepts(input.conf[line]) /\ exit1
  /\ UNCHANGED input

parse_end ==
  /\ pc = "parse" /\ line = Len(input.conf) + 1
  /\ \/ /\ CanComplete
        /\ confs' = complete_conf /\ conf' = NoConf
        /\ pc' = "include" /\ line' = 1
        /\ UNCHANGED <<device_id, data_list, files, written>>
     \/ ~CanComplete /\ exit1
  /\ UNCHANGED input

(* One entry of files/; only regular files with a short name are taken. *)
include_files ==
  /\ pc = "include" /\ line <= Len(input.dir)
  /\ LET e == input.dir[line]
         take == e.kind = "short" /\ Len(files) < MaxFiles
     IN  \/ /\ e.kind = "other"
            /\ line' = line + 1 /\ UNCHANGED <<pc, parsed, written>>
         \/ /\ take
            /\ files' = Append(files, [name |-> e.name, file |-> Real[e.path]])
            /\ data_list' = data_add_file(data_list, Real[e.path])
            /\ line' = line + 1 /\ UNCHANGED <<pc, conf, device_id, confs, written>>
         \/ e.kind # "other" /\ ~take /\ exit1
  /\ UNCHANGED input

(* write(): a whole run of cells, or an error (or a short count), which is *)
(* the end of the tool.                                                    *)
Cells(a, seq) == [b \in a .. a + Len(seq) - 1 |-> seq[b - a + 1]]
BlockCells(a, blk) == Cells(a, [k \in 1 .. Block |-> IF k = 1 THEN blk ELSE Zeroed])
Put(d, cells) == [a \in DOMAIN d |-> IF a \in DOMAIN cells THEN cells[a] ELSE d[a]]
write_checked(cells) ==
  /\ DOMAIN cells \subseteq Address
  /\ dev' = Put(dev, cells) /\ pending' = pending \cup {cells} /\ UNCHANGED medium

(* open() and the superblock: default_conf is always 0. *)
write_sb ==
  /\ pc = "include" /\ line = Len(input.dir) + 1
  /\ LET opened == IF input.target = "regular" THEN [a \in Address |-> Zeroed] ELSE dev
         cells  == BlockCells(0, SuperBlock(0))
     IN  dev' = Put(opened, cells) /\ pending' = {cells}
  /\ pc' = "data" /\ line' = 1
  /\ UNCHANGED <<input, parsed, medium, off_i, extent>>

(* write_fd_checked() and the loop around it: one file.  A file that starts *)
(* with an uImage header is stored without it.                             *)
Payload(f) ==
  LET skip == IF Body[f].uimage /\ Body[f].size >= Header THEN Header ELSE 0
  IN  [k \in 1 .. Body[f].size - skip |-> Cell(<<f, skip + k>>)]
NextOffset(off, len) == Roundup(off + len)
write_data ==
  /\ pc = "data" /\ line <= Len(data_list)
  /\ LET f == data_list[line]
         p == Payload(f)
     IN  /\ IF p = <<>> THEN UNCHANGED <<dev, medium, pending>> ELSE write_checked(Cells(off_i, p))
         /\ extent' = [extent EXCEPT ![f] = [off |-> off_i, len |-> Len(p)]]
         /\ off_i' = NextOffset(off_i, Len(p))
  /\ line' = line + 1
  /\ UNCHANGED <<input, pc, parsed>>
data_end_early ==
  /\ pc = "data" /\ line >= Len(data_list)
  /\ pc' = "tables" /\ line' = 0
  /\ UNCHANGED <<input, parsed, written>>
data_end ==
  /\ pc = "data" /\ line = Len(data_list) + 1
  /\ pc' = "tables" /\ line' = 0
  /\ UNCHANGED <<input, parsed, written>>

(* The block of slot n: its configuration, or the next files, or zeroes. *)
FreeBefore(n) == Cardinality({m \in 0 .. n - 1 : confs[m] = NoConf})
FirstFile(n) == FreeBefore(n) * PerBlock + 1
TableBlock(n) ==
  IF confs[n] # NoConf
    THEN ConfBlock([k \in DOMAIN confs[n].images |->
           LET im == confs[n].images[k]
           IN  [type |-> im.type, off |-> extent[im.file].off, len |-> extent[im.file].len]])
  ELSE IF FirstFile(n) <= Len(files)
    THEN LET some == SubSeq(files, FirstFile(n), Min({FirstFile(n) + PerBlock - 1, Len(files)}))
         IN  FilesBlock([k \in DOMAIN some |->
               [name |-> some[k].name, off |-> extent[some[k].file].off,
                len |-> extent[some[k].file].len]])
  ELSE Zeroed
write_table ==
  /\ pc = "tables" /\ line \in Slots
  /\ write_checked(BlockCells(TableAt(line), TableBlock(line)))
  /\ line' = line + 1
  /\ UNCHANGED <<input, pc, parsed, off_i, extent>>

(* close() and sync(). *)
finish_early == pc = "tables" /\ line = NSlots /\ pc' = "done" /\ UNCHANGED <<input, line, parsed, written>>
finish ==
  /\ pc = "tables" /\ line = NSlots
  /\ pc' = "done" /\ pending' = {} /\ medium' = dev
  /\ UNCHANGED <<input, line, parsed, dev, off_i, extent>>

(* A write fails, or the tool is killed: what was written stays. *)
Killed ==
  /\ pc \in {"data", "tables"}
  /\ pc' = "failed" /\ UNCHANGED <<input, line, parsed, written>>

(* Power fails, before or after the tool ended: of the writes not flushed  *)
(* yet some are on the medium.  No two of them touch the same address.     *)
Flushed(d, kept) ==
  [a \in DOMAIN d |-> IF \E w \in kept : a \in DOMAIN w THEN (CHOOSE w \in kept : a \in DOMAIN w)[a] ELSE d[a]]
PowerLoss ==
  /\ pc \in {"data", "tables", "failed", "done"} /\ input.target = "block"
  /\ pc = "failed" => pending # {}
  /\ \E kept \in SUBSET pending : dev' = Flushed(medium, kept)
  /\ pc' = IF pc = "done" THEN "done" ELSE "lost"
  /\ medium' = dev' /\ pending' = {} /\ UNCHANGED <<input, line, parsed, off_i, extent>>

Init ==
  /\ input \in [conf : BootConfs, dir : Dirs, target : Targets, old : OldDevs]
  /\ pc = "parse" /\ line = 1
  /\ conf = NoConf /\ device_id = FALSE
  /\ confs = [n \in Slots |-> NoConf] /\ data_list = <<>> /\ files = <<>>
  /\ dev = input.old /\ medium = input.old /\ pending = {}
  /\ off_i = DataStart /\ extent = [f \in DOMAIN Body |-> [off |-> 0, len |-> 0]]

Next == \/ parse_conf \/ parse_end \/ include_files
        \/ write_sb \/ write_data \/ data_end \/ write_table \/ finish
        \/ Killed \/ PowerLoss
Spec == Init /\ [][Next]_cvars
-----------------------------------------------------------------------------
(* What a boot.conf asks for, read as a whole. *)
Numbers(c) == {k \in DOMAIN c : c[k].key = "no"}
Section(c, n) == {k \in DOMAIN c : k > n /\ \A m \in Numbers(c) : m > n => k < m}
Images(c, n)  == {k \in Section(c, n) : c[k].key \in image_types}
Named(c, n)   == \E k \in Section(c, n) : c[k].key = "name" /\ c[k].val # ""
                   /\ \A j \in Section(c, n) : c[j].key = "name" => j <= k
ValidSection(c, n) ==
  /\ Named(c, n)
  /\ \A t \in image_types \ Optional : \E k \in Images(c, n) : c[k].key = t
  /\ \A j, k \in Images(c, n) : c[j].key = c[k].key => j = k
  /\ \A k \in Images(c, n) : Real[c[k].val] # "none"
Valid(c) ==
  /\ \A k \in DOMAIN c : c[k].key \notin {"junk", "device_id"} => \E n \in Numbers(c) : n <= k
  /\ \A j, k \in DOMAIN c : c[j].key = "device_id" /\ c[k].key = "device_id" => j = k /\ c[j].val = "short"
  /\ \A m, n \in Numbers(c) : c[n].val \in Slots /\ (c[m].val = c[n].val => m = n)
  /\ \A n \in Numbers(c) : ValidSection(c, n)
ValidDir(d) ==
  LET some == {k \in DOMAIN d : d[k].kind # "other"}
  IN  Cardinality(some) <= MaxFiles /\ \A k \in some : d[k].kind = "short"

ConfToolTypeOK ==
  /\ pc \in {"parse", "include", "data", "tables", "done", "failed", "lost"}
  /\ line \in Nat /\ device_id \in BOOLEAN
  /\ confs \in [Slots -> {NoConf} \cup [index : Slots, name : {TRUE},
                                        images : Seq([type : image_types, file : DOMAIN Body])]]
  /\ data_list \in Seq(DOMAIN Body) /\ Len(files) <= MaxFiles
  /\ DOMAIN dev = Address /\ off_i \in Nat /\ off_i % Sector = 0

(* p-boot-conf refuses exactly the configurations that are wrong as a      *)
(* whole, and refuses them before it touches the target: a typing error    *)
(* does not cost the bootable partition (exit(1) before open()).           *)
RefusesUntouched ==
  /\ ~Valid(input.conf) \/ ~ValidDir(input.dir) => dev = input.old /\ pending = {}
  /\ pc = "failed" /\ pending = {} => ~Valid(input.conf) \/ ~ValidDir(input.dir)

(* The images of line n's section as boot_prepare() should find them. *)
Wanted(n) == {<<input.conf[k].key, Payload(Real[input.conf[k].val])>> : k \in Images(input.conf, n)}
Room == PerBlock * (NSlots - Cardinality(Numbers(input.conf)))

(* Once p-boot-conf has returned 0 the bootloader finds every              *)
(* configuration at its number with exactly the images it names, nothing   *)
(* in the other slots, and every file there was room for; losing power     *)
(* afterwards changes nothing (write_fd_checked(), off_i, sync()).         *)
RoundTrip ==
  /\ ConfToolTypeOK
  /\ pc = "done" =>
    /\ dev[0].magic = ":BOOTFS:"
    /\ \A n \in Numbers(input.conf) :
         LET no == input.conf[n].val IN ConfAt(dev, no) /\ LoadConf(dev, no) = Wanted(n)
    /\ \A s \in Slots : ConfAt(dev, s) => \E n \in Numbers(input.conf) : input.conf[n].val = s
    /\ \A k \in 1 .. Min({Room, Len(files)}) : LoadFile(dev, files[k].name) = Payload(files[k].file)

Fresh(s) == input.target = "regular" \/ \E w \in pending : TableAt(s) \in DOMAIN w

(* Killed at any point, the tool leaves no block of its own that leads to  *)
(* data it has not written: the blocks come after the data (the loops of   *)
(* main()).  In a fresh image file that goes for every block there is; an  *)
(* old block of a partition may by then lead to new data.                  *)
KilledSound ==
  pc \in {"data", "tables", "failed"} /\ pending # {} =>
    /\ \A s \in Slots : ConfAt(dev, s) /\ Fresh(s) =>
         \E n \in Numbers(input.conf) : input.conf[n].val = s /\ LoadConf(dev, s) = Wanted(n)
    /\ input.target = "regular" =>
         \A k \in DOMAIN files : LoadFile(dev, files[k].name) \in {Failed, Payload(files[k].file)}

(* An image where every cell is the new one or was on the partition.       *)
Partly(got, want) ==
  /\ Len(got) = Len(want)
  /\ \A x \in DOMAIN want : got[x] = want[x] \/ \E a \in Address : got[x] = input.old[a]

(* Power fails before sync() (main() has no other barrier): the blocks may *)
(* be on the partition and the data not.  Of the new blocks that are, each *)
(* still leads, at its number, to the places of the files it asks for and  *)
(* in place of a file to no other one: what the bootloader finds there is  *)
(* the file, what the partition held before, or a mixture.                 *)
PowerLossSound ==
  pc = "lost" => \A s \in Slots :
    ConfAt(dev, s) /\ dev[TableAt(s)] # input.old[TableAt(s)] =>
      \E n \in Numbers(input.conf) :
        /\ input.conf[n].val = s
        /\ {got[1] : got \in LoadConf(dev, s)} = {want[1] : want \in Wanted(n)}
        /\ \A got \in LoadConf(dev, s) : \E want \in Wanted(n) : got[1] = want[1] /\ Partly(got[2], want[2])
=============================================================================
