---------------------------- MODULE BootfsLayout ----------------------------
(***************************************************************************)
(* The bootfs file system of bootfs.h, seen by its reader: a superblock,   *)
(* NSlots blocks that hold a boot configuration, a list of files or        *)
(* nothing, and data in contiguous runs that start on a sector.            *)
(*                                                                         *)
(* A device is a function from addresses to cells.  A block fills Block    *)
(* addresses and is stored whole in the first of them; a cell of data is   *)
(* <<file, k>>, the k-th unit of the file's content.  Sizes are scaled     *)
(* down: the code has NSlots = 32, Block = 2048, Sector = 512 and          *)
(* PerBlock = 51.                                                          *)
(***************************************************************************)
EXTENDS Integers, Sequences, FiniteSets

CONSTANTS
  NSlots,     \* blocks after the superblock
  Block,      \* addresses of a block
  Sector,     \* alignment of data
  PerBlock,   \* files a block can list
  DevSize,    \* addresses of the partition
  MaxImage    \* bootfs_load_image() loads no more than this

ASSUME LayoutAssumption ==
  /\ {NSlots, Block, Sector, PerBlock, DevSize, MaxImage} \subseteq Nat \ {0}
  /\ Block % Sector = 0 /\ DevSize % Sector = 0 /\ (NSlots + 1) * Block <= DevSize

Slots    == 0 .. NSlots - 1
Address  == 0 .. DevSize - 1
TableAt(n) == (n + 1) * Block
DataStart  == (NSlots + 1) * Block

Zeroed  == [magic |-> "none"]           \* zeroes, or a block without magic
Failed  == <<[magic |-> "error"]>>      \* the reader's -1
SuperBlock(default) == [magic |-> ":BOOTFS:", default |-> default]
ConfBlock(images)   == [magic |-> ":BFCONF:", images |-> images]
FilesBlock(files)   == [magic |-> ":BFILES:", files |-> files]
Cell(what) == [magic |-> "data", what |-> what]

Roundup(n) == ((n + Sector - 1) \div Sector) * Sector

(* bootfs_load_image(): the bytes it leaves at dest, <<>> for the empty    *)
(* image it takes for loaded, or Failed.  mmc_read_data() reads whole     *)
(* sectors and fails behind the end of the card.                           *)
LoadImage(dev, off, len) ==
  IF len = 0 THEN <<>>
  ELSE IF off % Sector # 0 \/ len > MaxImage \/ off + Roundup(len) > DevSize THEN Failed
  ELSE [k \in 1 .. len |-> dev[off + k - 1]]

(* bootfs_load_file(): the first entry of that name in the files blocks. *)
Listed(dev, name) ==
  {p \in Slots \X (1 .. PerBlock) :
     LET b == dev[TableAt(p[1])]
     IN  b.magic = ":BFILES:" /\ p[2] <= Len(b.files) /\ b.files[p[2]].name = name}
LoadFile(dev, name) ==
  IF Listed(dev, name) = {} THEN Failed
  ELSE LET first == CHOOSE p \in Listed(dev, name) : \A q \in Listed(dev, name) :
                      p[1] < q[1] \/ (p[1] = q[1] /\ p[2] <= q[2])
           e == dev[TableAt(first[1])].files[first[2]]
       IN  LoadImage(dev, e.off, e.len)

(* The images of configuration n as boot_prepare() loads them. *)
ConfAt(dev, n) == dev[TableAt(n)].magic = ":BFCONF:"
LoadConf(dev, n) ==
  LET images == dev[TableAt(n)].images
  IN  {<<images[j].type, LoadImage(dev, images[j].off, images[j].len)>> : j \in DOMAIN images}
=============================================================================
