----------------------------- MODULE DramProofs -----------------------------
(***************************************************************************)
(* Dram finds the chip that is there, for every chip whose geometry the    *)
(* code looks for: DramInv says what each training and each probe has      *)
(* established, and an address determines its cell.                        *)
(***************************************************************************)
EXTENDS Dram, TLAPS

(* The powers of two that occur, 1 << 0 to 1 << 23. *)
LEMMA Bits ==
  /\ Bit(0) = 1 /\ Bit(1) = 2 /\ Bit(2) = 4 /\ Bit(3) = 8 /\ Bit(4) = 16 /\ Bit(5) = 32 /\ Bit(6) = 64
  /\ Bit(7) = 128 /\ Bit(8) = 256 /\ Bit(9) = 512 /\ Bit(10) = 1024 /\ Bit(11) = 2048 /\ Bit(12) = 4096
  /\ Bit(13) = 8192 /\ Bit(14) = 16384 /\ Bit(15) = 32768 /\ Bit(16) = 65536 /\ Bit(17) = 131072
  /\ Bit(18) = 262144 /\ Bit(19) = 524288 /\ Bit(20) = 1048576 /\ Bit(21) = 2097152 /\ Bit(22) = 4194304
  /\ Bit(23) = 8388608
  BY DEF Bit

LEMMA BitPositive ==
  ASSUME NEW n \in 0 .. 23
  PROVE  Bit(n) \in Nat /\ Bit(n) >= 1
<1>1. CASE n \in 0 .. 11
  BY <1>1, Bits
<1>2. CASE n \in 12 .. 23
  BY <1>2, Bits
<1> QED BY <1>1, <1>2

(* Line i of the probed row does nothing in a chip of r row lines exactly  *)
(* when it is not one of them; so for the bank and the column lines.       *)
LEMMA RowLine ==
  ASSUME NEW i \in 11 .. 15, NEW r \in 11 .. 16
  PROVE  ((Bit(i + 2) \div Bit(2)) % Bit(16)) % Bit(r) = 0 <=> i >= r
<1> DEFINE a == Bit(i + 2)
           b == Bit(r)
<1>1. (i = 11 => a = 8192) /\ (i = 12 => a = 16384) /\ (i = 13 => a = 32768) /\ (i = 14 => a = 65536) /\ (i = 15 => a = 131072)
  BY Bits
<1>2. /\ (r = 11 => b = 2048) /\ (r = 12 => b = 4096) /\ (r = 13 => b = 8192) /\ (r = 14 => b = 16384)
      /\ (r = 15 => b = 32768) /\ (r = 16 => b = 65536)
  BY Bits
<1> HIDE DEF a, b
<1>3. ((a \div 4) % 65536) % b = 0 <=> i >= r
  BY <1>1, <1>2
<1>4. ((a \div Bit(2)) % Bit(16)) % b = 0 <=> i >= r
  BY <1>3, Bits
<1> QED BY <1>4 DEF a, b

LEMMA ColumnLine ==
  ASSUME NEW i \in 0 .. 3, NEW p \in 0 .. 4
  PROVE  (Bit(i) % Bit(4)) % Bit(p) = 0 <=> i >= p
<1> DEFINE a == Bit(i)
           b == Bit(p)
<1>1. (i = 0 => a = 1) /\ (i = 1 => a = 2) /\ (i = 2 => a = 4) /\ (i = 3 => a = 8)
  BY Bits
<1>2. (p = 0 => b = 1) /\ (p = 1 => b = 2) /\ (p = 2 => b = 4) /\ (p = 3 => b = 8) /\ (p = 4 => b = 16)
  BY Bits
<1> HIDE DEF a, b
<1>3. (a % 16) % b = 0 <=> i >= p
  BY <1>1, <1>2
<1>4. (a % Bit(4)) % b = 0 <=> i >= p
  BY <1>3, Bits
<1> QED BY <1>4 DEF a, b

(* The search ends at t when exactly the lines from t on are aliases.      *)
LEMMA FirstMatchIs ==
  ASSUME NEW from \in Int, NEW to \in Int, NEW S, NEW t \in from .. to,
         \A i \in from .. to - 1 : i \in S <=> i >= t
  PROVE  FirstMatch(from, to, S) = t
<1> DEFINE P(n) == (n = to \/ n \in S) /\ \A m \in from .. n - 1 : m \notin S
<1>1. P(t)
  OBVIOUS
<1>2. ASSUME NEW n \in from .. to, P(n) PROVE n = t
  <2>1. CASE n < t
    BY <1>2, <2>1
  <2>2. CASE n > t
    <3>1. t \in from .. n - 1 /\ t \in from .. to - 1
      BY <2>2
    <3>2. t \in S
      BY <3>1
    <3> QED BY <3>1, <3>2, <1>2
  <2> QED BY <2>1, <2>2
<1> HIDE DEF P
<1>3. (CHOOSE n \in from .. to : P(n)) = t
  BY <1>1, <1>2
<1> QED BY <1>3 DEF P, FirstMatch

(* The chip's answer to address v of a rank configured as geo.             *)
Sel(k, geo, c, v) ==
  [rank |-> k, col |-> (v % Bit(geo.page)) % Bit(c.page),
   bank |-> ((v \div Bit(geo.page)) % Bit(geo.bank)) % Bit(c.bank),
   row |-> ((v \div Bit(geo.page + geo.bank)) % Bit(geo.row)) % Bit(c.row)]

Start(cfg, k) == IF k = 0 THEN 0 ELSE mctl_calc_rank_size(cfg.ranks[0])

LEMMA CellIs ==
  ASSUME NEW cfg, NEW k \in Rank, NEW v \in Nat, mctl_calc_rank_size(cfg.ranks[0]) \in Nat,
         cfg.dual \in BOOLEAN, k = 1 => cfg.dual,
         k = 0 => ~cfg.dual \/ v < mctl_calc_rank_size(cfg.ranks[0])
  PROVE  Cell(cfg, Start(cfg, k) + v) = Sel(k, cfg.ranks[k], chip.ranks[k], v)
<1> DEFINE first == mctl_calc_rank_size(cfg.ranks[0])
<1> HIDE DEF first
<1>0. first \in Nat /\ (k = 0 => ~cfg.dual \/ v < first)
  BY DEF first
<1>1. CASE k = 0
  <2>1. Start(cfg, k) + v = v
    BY <1>1 DEF Start
  <2>2. ~(cfg.dual /\ v >= first)
    BY <1>0, <1>1
  <2> QED BY <2>1, <2>2, <1>1 DEF Cell, Sel, Split, first
<1>2. CASE k = 1
  <2> DEFINE u == Start(cfg, k) + v
  <2>1. u = first + v
    BY <1>2 DEF Start, first
  <2> HIDE DEF u
  <2>2. cfg.dual /\ u >= first /\ u - first = v
    BY <1>0, <1>2, <2>1
  <2>3. Cell(cfg, u) = Sel(k, cfg.ranks[k], chip.ranks[k], v)
    BY <2>2, <1>2 DEF Cell, Sel, Split, first
  <2> QED BY <2>3 DEF u
<1> QED BY <1>1, <1>2 DEF Rank

LEMMA ZeroDivides ==
  ASSUME NEW p \in Nat, p >= 1
  PROVE  0 % p = 0 /\ 0 \div p = 0
  OBVIOUS

LEMMA RankBits ==
  ASSUME NEW r \in RankPara
  PROVE  /\ r.row \in 11 .. 16 /\ r.bank \in 2 .. 3 /\ r.page \in 0 .. 4
         /\ Bit(r.row) \in Nat /\ Bit(r.row) >= 1 /\ Bit(r.bank) \in Nat /\ Bit(r.bank) >= 1
         /\ Bit(r.page) \in Nat /\ Bit(r.page) >= 1
         /\ Bit(r.page + r.bank) \in Nat /\ Bit(r.page + r.bank) >= 1
         /\ mctl_calc_rank_size(r) \in Nat /\ mctl_calc_rank_size(r) >= 1
<1>1. r.row \in 11 .. 16 /\ r.bank \in 2 .. 3 /\ r.page \in 0 .. 4
  BY DEF RankPara
<1>2. r.row \in 0 .. 23 /\ r.bank \in 0 .. 23 /\ r.page \in 0 .. 23 /\ r.page + r.bank \in 0 .. 23
      /\ r.row + r.bank + r.page \in 0 .. 23
  BY <1>1
<1> QED BY <1>1, <1>2, BitPositive DEF mctl_calc_rank_size

LEMMA ZeroSel ==
  ASSUME NEW k, NEW geo \in RankPara, NEW c \in RankPara
  PROVE  Sel(k, geo, c, 0) = [rank |-> k, col |-> 0, bank |-> 0, row |-> 0]
<1>1. (0 % Bit(geo.page)) % Bit(c.page) = 0
  BY RankBits, ZeroDivides
<1>2. ((0 \div Bit(geo.page)) % Bit(geo.bank)) % Bit(c.bank) = 0
  BY RankBits, ZeroDivides
<1>3. ((0 \div Bit(geo.page + geo.bank)) % Bit(geo.row)) % Bit(c.row) = 0
  BY RankBits, ZeroDivides
<1> QED BY <1>1, <1>2, <1>3, Zenon DEF Sel

(* When an address v gives the cell of address 0.                          *)
LEMMA SameSel ==
  ASSUME NEW k, NEW geo \in RankPara, NEW c \in RankPara, NEW v \in Nat
  PROVE  Sel(k, geo, c, 0) = Sel(k, geo, c, v)
           <=> /\ (v % Bit(geo.page)) % Bit(c.page) = 0
               /\ ((v \div Bit(geo.page)) % Bit(geo.bank)) % Bit(c.bank) = 0
               /\ ((v \div Bit(geo.page + geo.bank)) % Bit(geo.row)) % Bit(c.row) = 0
<1> DEFINE x == (v % Bit(geo.page)) % Bit(c.page)
           y == ((v \div Bit(geo.page)) % Bit(geo.bank)) % Bit(c.bank)
           z == ((v \div Bit(geo.page + geo.bank)) % Bit(geo.row)) % Bit(c.row)
<1>1. Sel(k, geo, c, v) = [rank |-> k, col |-> x, bank |-> y, row |-> z]
  BY Zenon DEF Sel
<1> HIDE DEF x, y, z
<1>2. Sel(k, geo, c, 0) = Sel(k, geo, c, v) <=> x = 0 /\ y = 0 /\ z = 0
  BY <1>1, ZeroSel
<1> QED BY <1>2 DEF x, y, z

LEMMA RowProbe ==
  ASSUME NEW k, NEW c \in RankPara, NEW i \in 11 .. 15
  PROVE  Sel(k, Geometry(16, 2, 0), c, 0) = Sel(k, Geometry(16, 2, 0), c, Bit(i + 2)) <=> i >= c.row
<1> DEFINE geo == Geometry(16, 2, 0)
           v == Bit(i + 2)
<1>1. geo \in RankPara /\ geo.row = 16 /\ geo.bank = 2 /\ geo.page = 0 /\ geo.page + geo.bank = 2
  BY DEF Geometry, RankPara
<1>2. v \in Nat /\ v % 4 = 0
  BY Bits
<1>3. ((v \div Bit(2)) % Bit(16)) % Bit(c.row) = 0 <=> i >= c.row
  BY RowLine, RankBits
<1> HIDE DEF geo, v
<1>4. v % Bit(0) = 0 /\ (v \div Bit(0)) % Bit(2) = 0
  BY <1>2, Bits
<1>5. (v % Bit(0)) % Bit(c.page) = 0 /\ ((v \div Bit(0)) % Bit(2)) % Bit(c.bank) = 0
  BY <1>4, RankBits, ZeroDivides
<1>6. Sel(k, geo, c, 0) = Sel(k, geo, c, v) <=> i >= c.row
  BY <1>1, <1>2, <1>3, <1>5, SameSel
<1> QED BY <1>6 DEF geo, v

LEMMA BankProbe ==
  ASSUME NEW k, NEW c \in RankPara, NEW g \in RankPara, g.bank = 3, g.page = 0
  PROVE  Sel(k, g, c, 0) = Sel(k, g, c, Bit(2)) <=> 2 >= c.bank
<1> DEFINE v == Bit(2)
<1>1. g.row \in 11 .. 16 /\ g.page + g.bank = 3 /\ v = 4
  BY Bits DEF RankPara
<1> HIDE DEF v
<1>2. v % Bit(0) = 0 /\ v \div Bit(3) = 0 /\ (v \div Bit(0)) % Bit(3) = 4
  BY <1>1, Bits
<1>3. (v % Bit(0)) % Bit(c.page) = 0 /\ ((v \div Bit(3)) % Bit(g.row)) % Bit(c.row) = 0
  BY <1>2, RankBits, ZeroDivides
<1>4. 4 % Bit(c.bank) = 0 <=> 2 >= c.bank
  BY Bits, RankBits
<1>5. Sel(k, g, c, 0) = Sel(k, g, c, v) <=> 2 >= c.bank
  BY <1>1, <1>2, <1>3, <1>4, SameSel
<1> QED BY <1>5 DEF v

LEMMA PageProbe ==
  ASSUME NEW k, NEW c \in RankPara, NEW g \in RankPara, g.page = 4, NEW i \in 0 .. 3
  PROVE  Sel(k, g, c, 0) = Sel(k, g, c, Bit(i)) <=> i >= c.page
<1> DEFINE v == Bit(i)
<1>1. v \in 1 .. 8 /\ g.bank \in 2 .. 3
  BY Bits, RankBits
<1>2. (v % Bit(4)) % Bit(c.page) = 0 <=> i >= c.page
  BY ColumnLine, RankBits
<1> HIDE DEF v
<1>3. v \div Bit(4) = 0
  BY <1>1, Bits
<1>4. v \div Bit(4 + g.bank) = 0
  BY <1>1, Bits
<1>5. ((v \div Bit(4)) % Bit(g.bank)) % Bit(c.bank) = 0 /\ ((v \div Bit(4 + g.bank)) % Bit(g.row)) % Bit(c.row) = 0
  BY <1>3, <1>4, RankBits, ZeroDivides
<1>6. Sel(k, g, c, 0) = Sel(k, g, c, v) <=> i >= c.page
  BY <1>1, <1>2, <1>5, SameSel
<1> QED BY <1>6 DEF v
-----------------------------------------------------------------------------
Para == [dual : BOOLEAN, full : BOOLEAN, ranks : [Rank -> RankPara]]
Trained == [dual : BOOLEAN, full : BOOLEAN, norank : BOOLEAN, nolanes : BOOLEAN, ok : BOOLEAN]
Places == {"sys", "channel", "trained", "ready", "row", "bank", "page", "size", "layout", "up",
           "panic1", "panic3", "hung"}
Before == {"sys", "channel", "trained"}
Settled == {"ready", "row", "bank", "page", "size", "layout", "up"}
Probing == {"row", "bank", "page"}

(* The state has its types ...                                             *)
StateTypes ==
  /\ chip \in Chips /\ clk \in Clks
  /\ para \in Para /\ cr \in Para /\ trained \in Trained
  /\ regs \subseteq Settings \cup {"maer", "odtmap", "credit"}
  /\ clocks \in {"off", "pll", "on"}
  /\ pc[1] \in Places /\ (pc[1] \in Probing => pc[2] \in Rank)
(* ... training settles ranks and width ...                                *)
TrainingRight ==
  /\ pc[1] \in Before => para.dual /\ para.full
  /\ pc[1] = "trained" => trained = Training(TRUE, TRUE)
  /\ pc[1] = "panic3" => ~chip.sound
  /\ pc[1] \in Settled => chip.sound /\ para.dual = chip.dual /\ para.full = chip.full
(* ... and each probe adds one part of a rank's geometry to the ones       *)
(* before it, the first rank before the second.                            *)
GeometryRight ==
  /\ pc[1] \in Probing /\ pc[2] = 1 => chip.dual /\ para.ranks[0] = chip.ranks[0]
  /\ pc[1] = "bank" => para.ranks[pc[2]] = Geometry(chip.ranks[pc[2]].row, 2, 0)
  /\ pc[1] = "page" => para.ranks[pc[2]] = Geometry(chip.ranks[pc[2]].row, chip.ranks[pc[2]].bank, 0)
  /\ pc[1] \in {"size", "layout", "up"} =>
       para.ranks[0] = chip.ranks[0] /\ (chip.dual => para.ranks[1] = chip.ranks[1])
ReportRight ==
  /\ IF pc[1] \in {"layout", "up"} THEN size = TrueSize(chip) /\ cr = para ELSE size = 0
  /\ pc[1] = "up" => use = [heap |-> size - HeapBack, tables |-> TableStart, told |-> size % MiB(4096)]
DramInv == StateTypes /\ TrainingRight /\ GeometryRight /\ ReportRight

LEMMA ChipFacts ==
  ASSUME NEW c \in Chips
  PROVE  /\ c.dual \in BOOLEAN /\ c.full \in BOOLEAN /\ c.sound \in BOOLEAN
         /\ c.ranks \in [Rank -> RankPara] /\ TrueSize(c) <= Window
  BY ChipAssumption

(* A probe compares two addresses of the rank it is about: the first of    *)
(* them is where the rank starts in the configuration it has just set.     *)
LEMMA ProbeCell ==
  ASSUME StateTypes, NEW k \in Rank, NEW geo \in RankPara, k = 1 => para.dual, NEW v \in Nat,
         k = 0 => v < mctl_calc_rank_size(geo)
  PROVE  mctl_mem_matches_base(Probe(k, geo), v, Base(k))
           <=> Sel(k, geo, chip.ranks[k], 0) = Sel(k, geo, chip.ranks[k], v)
<1> DEFINE cfg == Probe(k, geo)
<1>1. /\ para.dual \in BOOLEAN /\ para.ranks \in [Rank -> RankPara]
      /\ cfg.dual = para.dual /\ cfg.ranks = [para.ranks EXCEPT ![k] = geo]
  BY DEF StateTypes, Para, Probe
<1> HIDE DEF cfg
<1>2. cfg.ranks[k] = geo /\ cfg.ranks[0] \in RankPara /\ (k = 1 => cfg.ranks[0] = para.ranks[0])
  BY <1>1 DEF Rank
<1>3. Base(k) = Start(cfg, k) /\ (k = 0 => cfg.ranks[0] = geo)
  BY <1>2 DEF Base, Start, Rank
<1> DEFINE first == mctl_calc_rank_size(cfg.ranks[0])
<1>4. first \in Nat /\ first >= 1
  BY <1>2, RankBits
<1>5. k = 0 => v < first
  BY <1>3, Zenon
<1>6. Base(k) \in Nat
  BY <1>3, <1>4 DEF Start
<1> HIDE DEF first
<1>7. cfg.dual \in BOOLEAN /\ (k = 1 => cfg.dual) /\ (k = 0 => ~cfg.dual \/ v < first) /\ (k = 0 => ~cfg.dual \/ 0 < first)
  BY <1>1, <1>4, <1>5
<1>8. Cell(cfg, Start(cfg, k) + v) = Sel(k, cfg.ranks[k], chip.ranks[k], v)
  BY <1>7, <1>4, CellIs DEF first
<1>9. Cell(cfg, Start(cfg, k) + 0) = Sel(k, cfg.ranks[k], chip.ranks[k], 0)
  BY <1>7, <1>4, CellIs DEF first
<1>10. Base(k) + 0 = Base(k)
  BY <1>6
<1> QED BY <1>2, <1>3, <1>8, <1>9, <1>10, Zenon DEF mctl_mem_matches_base, cfg

RowAliases(k) == {i \in 11 .. RowTop : mctl_mem_matches_base(Probe(k, Geometry(16, 2, 0)), Bit(i + 2), Base(k))}
LEMMA RowFound ==
  ASSUME StateTypes, NEW k \in Rank, k = 1 => para.dual
  PROVE  FirstMatch(11, RowTop, RowAliases(k)) = chip.ranks[k].row
<1> DEFINE geo == Geometry(16, 2, 0)
           c == chip.ranks[k]
<1>1. c \in RankPara /\ c.row \in 11 .. 16
  BY ChipFacts, RankBits DEF StateTypes
<1>2. geo \in RankPara /\ geo.row + geo.bank + geo.page = 18
  BY DEF Geometry, RankPara
<1>3. ASSUME NEW i \in 11 .. 15
      PROVE  i \in RowAliases(k) <=> i >= c.row
  <2> DEFINE v == Bit(i + 2)
  <2>1. v \in Nat /\ v < Bit(18)
    BY Bits
  <2>2. mctl_calc_rank_size(geo) = Bit(18)
    BY <1>2 DEF mctl_calc_rank_size
  <2>3. Sel(k, geo, c, 0) = Sel(k, geo, c, v) <=> i >= c.row
    BY <1>1, RowProbe
  <2> HIDE DEF geo, v, c
  <2>4. mctl_mem_matches_base(Probe(k, geo), v, Base(k)) <=> Sel(k, geo, chip.ranks[k], 0) = Sel(k, geo, chip.ranks[k], v)
    BY <1>2, <2>1, <2>2, ProbeCell
  <2>5. mctl_mem_matches_base(Probe(k, geo), v, Base(k)) <=> i >= c.row
    BY <2>3, <2>4 DEF c
  <2>6. i \in 11 .. RowTop
    BY DEF RowTop
  <2> QED BY <2>5, <2>6 DEF RowAliases, geo, v
<1> HIDE DEF c
<1>4. FirstMatch(11, 16, RowAliases(k)) = c.row
  BY <1>1, <1>3, FirstMatchIs
<1> QED BY <1>4 DEF RowTop, c

Aliases(k, geo, from, to) == {i \in from .. to : mctl_mem_matches_base(Probe(k, geo), Bit(i), Base(k))}
LEMMA BankFound ==
  ASSUME StateTypes, NEW k \in Rank, k = 1 => para.dual, NEW geo \in RankPara, geo.bank = 3, geo.page = 0
  PROVE  FirstMatch(2, 3, Aliases(k, geo, 2, 3)) = chip.ranks[k].bank
<1> DEFINE c == chip.ranks[k]
<1>1. c \in RankPara /\ c.bank \in 2 .. 3
  BY ChipFacts, RankBits DEF StateTypes
<1>2. Bit(2) \in Nat /\ Bit(2) < mctl_calc_rank_size(geo)
  BY Bits, RankBits DEF mctl_calc_rank_size
<1>3. mctl_mem_matches_base(Probe(k, geo), Bit(2), Base(k)) <=> 2 >= c.bank
  BY <1>1, <1>2, ProbeCell, BankProbe
<1> HIDE DEF c
<1>4. \A i \in 2 .. 3 - 1 : i \in Aliases(k, geo, 2, 3) <=> i >= c.bank
  BY <1>3 DEF Aliases
<1>5. FirstMatch(2, 3, Aliases(k, geo, 2, 3)) = c.bank
  BY <1>1, <1>4, FirstMatchIs
<1> QED BY <1>5 DEF c

LEMMA PageFound ==
  ASSUME StateTypes, NEW k \in Rank, k = 1 => para.dual, NEW geo \in RankPara, geo.page = 4
  PROVE  FirstMatch(0, 4, Aliases(k, geo, 0, 4)) = chip.ranks[k].page
<1> DEFINE c == chip.ranks[k]
<1>1. c \in RankPara /\ c.page \in 0 .. 4
  BY ChipFacts, RankBits DEF StateTypes
<1>2. mctl_calc_rank_size(geo) \in Nat /\ 8 < mctl_calc_rank_size(geo)
  BY Bits, RankBits DEF mctl_calc_rank_size
<1>3. ASSUME NEW i \in 0 .. 3
      PROVE  i \in Aliases(k, geo, 0, 4) <=> i >= c.page
  <2>1. Bit(i) \in Nat /\ Bit(i) <= 8
    BY Bits
  <2>2. Bit(i) < mctl_calc_rank_size(geo)
    BY <1>2, <2>1
  <2>3. mctl_mem_matches_base(Probe(k, geo), Bit(i), Base(k)) <=> i >= c.page
    BY <1>1, <2>1, <2>2, ProbeCell, PageProbe
  <2> QED BY <2>3 DEF Aliases
<1> HIDE DEF c
<1>4. FirstMatch(0, 4, Aliases(k, geo, 0, 4)) = c.page
  BY <1>1, <1>3, FirstMatchIs
<1> QED BY <1>4 DEF c
-----------------------------------------------------------------------------
LEMMA ProbePara ==
  ASSUME StateTypes, NEW k \in Rank, NEW geo \in RankPara
  PROVE  /\ Probe(k, geo) \in Para
         /\ Probe(k, geo).dual = para.dual /\ Probe(k, geo).full = para.full
         /\ Probe(k, geo).ranks[k] = geo /\ (k = 1 => Probe(k, geo).ranks[0] = para.ranks[0])
  BY DEF StateTypes, Para, Probe, Rank

LEMMA InitHolds == Init => DramInv
<1> SUFFICES ASSUME Init PROVE DramInv
  OBVIOUS
<1>1. /\ pc = <<"sys">> /\ chip \in Chips /\ clk \in Clks
      /\ para = [dual |-> TRUE, full |-> TRUE, ranks |-> [k \in Rank |-> Geometry(15, 3, 3)]]
      /\ cr = para /\ regs = {} /\ clocks = "off"
      /\ trained = [dual |-> FALSE, full |-> FALSE, norank |-> FALSE, nolanes |-> FALSE, ok |-> FALSE]
      /\ size = 0
  BY Zenon DEF Init
<1>2. pc[1] = "sys"
  BY <1>1
<1>3. para \in Para /\ para.dual /\ para.full
  BY <1>1 DEF Para, Geometry, RankPara
<1>4. trained \in Trained
  BY <1>1 DEF Trained
<1>5. StateTypes
  BY <1>1, <1>2, <1>3, <1>4 DEF StateTypes, Places, Probing
<1>6. TrainingRight
  BY <1>2, <1>3 DEF TrainingRight, Settled
<1>7. GeometryRight
  BY <1>2 DEF GeometryRight, Probing
<1>8. ReportRight
  BY <1>1, <1>2 DEF ReportRight
<1> QED BY <1>5, <1>6, <1>7, <1>8 DEF DramInv

LEMMA TrainingTypes ==
  ASSUME NEW c \in Chips, chip = c, NEW d \in BOOLEAN, NEW f \in BOOLEAN
  PROVE  Training(d, f) \in Trained
<1>1. c.dual \in BOOLEAN /\ c.full \in BOOLEAN /\ c.sound \in BOOLEAN
  BY ChipFacts
<1>2. (d /\ ~chip.dual) \in BOOLEAN /\ (f /\ ~chip.full) \in BOOLEAN
      /\ (chip.sound /\ (d => chip.dual) /\ (f => chip.full)) \in BOOLEAN
  BY <1>1, Zenon
<1> QED BY <1>2, Zenon DEF Training, Trained

LEMMA SysStep ==
  ASSUME DramInv, mctl_sys_init
  PROVE  DramInv'
<1>1. /\ pc[1] = "sys" /\ pc'[1] \in {"channel", "panic1", "hung"} /\ clocks' \in {"on", "pll", "off"}
      /\ UNCHANGED <<chip, clk, para, cr, regs, trained, size, use>>
  BY DEF mctl_sys_init, Awaits, hw
<1>2. StateTypes'
  BY <1>1 DEF DramInv, StateTypes, Places, Probing
<1>3. TrainingRight'
  BY <1>1 DEF DramInv, TrainingRight, Before, Settled
<1>4. GeometryRight'
  BY <1>1 DEF GeometryRight, Probing
<1>5. ReportRight'
  BY <1>1 DEF DramInv, ReportRight
<1> QED BY <1>2, <1>3, <1>4, <1>5 DEF DramInv

LEMMA ChannelStep ==
  ASSUME DramInv, mctl_channel_init
  PROVE  DramInv'
<1>1. /\ pc[1] = "channel" /\ pc' \in {<<"trained">>, <<"panic1">>}
      /\ cr' = para /\ regs' = Settings
      /\ trained' = IF pc' = <<"trained">> THEN Training(para.dual, para.full) ELSE trained
      /\ UNCHANGED <<chip, clk, para, clocks, size, use>>
  BY DEF mctl_channel_init, Awaits, hw
<1>2. (pc'[1] = "trained" /\ pc' = <<"trained">>) \/ pc'[1] = "panic1"
  BY <1>1
<1>3. para.dual = TRUE /\ para.full = TRUE /\ para \in Para /\ trained \in Trained /\ chip \in Chips /\ size = 0
  BY <1>1 DEF DramInv, TrainingRight, Before, StateTypes, ReportRight, Para
<1>4. Training(TRUE, TRUE) \in Trained
  BY <1>3, TrainingTypes
<1>5. trained' \in Trained /\ (pc'[1] = "trained" => trained' = Training(TRUE, TRUE))
  BY <1>1, <1>2, <1>3, <1>4, Zenon
<1>6. StateTypes'
  BY <1>1, <1>2, <1>3, <1>5 DEF DramInv, StateTypes, Places, Probing
<1>7. TrainingRight'
  <2>1. Training(TRUE, TRUE)' = Training(TRUE, TRUE)
    BY <1>1 DEF Training
  <2> QED BY <1>1, <1>2, <1>3, <1>5, <2>1 DEF TrainingRight, Before, Settled
<1>8. GeometryRight'
  BY <1>2 DEF GeometryRight, Probing
<1>9. ReportRight'
  BY <1>1, <1>2, <1>3 DEF ReportRight
<1> QED BY <1>6, <1>7, <1>8, <1>9 DEF DramInv

LEMMA RetrainStep ==
  ASSUME DramInv, retrain
  PROVE  DramInv'
<1>1. /\ pc = <<"trained">> /\ ~trained.ok
      /\ para' = Found(trained) /\ cr' = para'
      /\ trained' = Training(para'.dual, para'.full)
      /\ pc' = (IF trained'.ok THEN <<"ready">> ELSE <<"panic3">>) \/ pc' = <<"panic1">>
      /\ UNCHANGED <<chip, clk, regs, clocks, size, use>>
  BY Zenon DEF retrain, hw
<1>2. pc[1] = "trained"
  BY <1>1
<1>3. para.dual = TRUE /\ para.full = TRUE /\ para \in Para /\ trained = Training(TRUE, TRUE) /\ chip \in Chips /\ size = 0
  BY <1>2 DEF DramInv, TrainingRight, Before, StateTypes, ReportRight, Para
<1>4. chip.dual \in BOOLEAN /\ chip.full \in BOOLEAN /\ chip.sound \in BOOLEAN
  BY <1>3, ChipFacts
<1>5. trained.norank = ~chip.dual /\ trained.nolanes = ~chip.full
  BY <1>3, <1>4 DEF Training
<1>6. para'.dual = (TRUE /\ ~trained.norank) /\ para'.full = (TRUE /\ ~trained.nolanes) /\ para'.ranks = para.ranks
  BY <1>1, <1>3 DEF Found, Para
<1>7. para'.dual = chip.dual /\ para'.full = chip.full
  BY <1>4, <1>5, <1>6, Zenon
<1>8. para' \in Para
  <2>1. para' = [para EXCEPT !.dual = para.dual /\ ~trained.norank, !.full = para.full /\ ~trained.nolanes]
    BY <1>1, Zenon DEF Found
  <2>2. (para.dual /\ ~trained.norank) \in BOOLEAN /\ (para.full /\ ~trained.nolanes) \in BOOLEAN
    BY Zenon
  <2> DEFINE x == para.dual /\ ~trained.norank
             y == para.full /\ ~trained.nolanes
  <2> HIDE DEF x, y
  <2>3. para' = [para EXCEPT !.dual = x, !.full = y] /\ x \in BOOLEAN /\ y \in BOOLEAN
    BY <2>1, <2>2, Zenon DEF x, y
  <2> QED BY <2>3, <1>3 DEF Para
<1>9. trained' = Training(chip.dual, chip.full)
  BY <1>1, <1>7, Zenon
<1>10. trained'.ok = chip.sound
  <2>1. trained'.ok = (chip.sound /\ (chip.dual => chip.dual) /\ (chip.full => chip.full))
    BY <1>9 DEF Training
  <2> QED BY <2>1, <1>4, Zenon
<1>11. trained' \in Trained
  BY <1>9, <1>3, <1>4, TrainingTypes
<1>12. (pc'[1] = "ready" /\ chip.sound) \/ (pc'[1] = "panic3" /\ ~chip.sound) \/ pc'[1] = "panic1"
  <2>1. (pc' = <<"ready">> /\ chip.sound) \/ (pc' = <<"panic3">> /\ ~chip.sound) \/ pc' = <<"panic1">>
    <3>1. (trained'.ok /\ pc' = <<"ready">>) \/ (~trained'.ok /\ pc' = <<"panic3">>) \/ pc' = <<"panic1">>
      BY <1>1, Zenon
    <3>2. trained'.ok <=> chip.sound
      BY <1>10, Zenon
    <3> QED BY <3>1, <3>2, Zenon
  <2> QED BY <2>1
<1>13. StateTypes'
  BY <1>1, <1>8, <1>11, <1>12 DEF DramInv, StateTypes, Places, Probing
<1>14. TrainingRight'
  BY <1>1, <1>7, <1>12 DEF TrainingRight, Before, Settled
<1>15. GeometryRight'
  BY <1>12 DEF GeometryRight, Probing
<1>16. ReportRight'
  BY <1>1, <1>3, <1>12 DEF ReportRight
<1> QED BY <1>13, <1>14, <1>15, <1>16 DEF DramInv

LEMMA AcceptStep ==
  ASSUME DramInv, accept
  PROVE  DramInv'
<1>1. pc[1] = "trained" /\ trained.ok /\ pc'[1] = "ready" /\ UNCHANGED <<chip, clk, para, cr, regs, clocks, trained, size, use>>
  BY DEF accept, hw
<1>2. para.dual = TRUE /\ para.full = TRUE /\ trained = Training(TRUE, TRUE) /\ chip \in Chips /\ size = 0
  BY <1>1 DEF DramInv, TrainingRight, Before, StateTypes, ReportRight, Para
<1>3. chip.dual \in BOOLEAN /\ chip.full \in BOOLEAN /\ chip.sound \in BOOLEAN
  BY <1>2, ChipFacts
<1>4. chip.sound /\ chip.dual = TRUE /\ chip.full = TRUE
  BY <1>1, <1>2, <1>3 DEF Training
<1>5. StateTypes'
  BY <1>1 DEF DramInv, StateTypes, Places, Probing
<1>6. TrainingRight'
  BY <1>1, <1>2, <1>4 DEF TrainingRight, Before, Settled
<1>7. GeometryRight'
  BY <1>1 DEF GeometryRight, Probing
<1>8. ReportRight'
  BY <1>1, <1>2 DEF ReportRight
<1> QED BY <1>5, <1>6, <1>7, <1>8 DEF DramInv

LEMMA AccessStep ==
  ASSUME DramInv, enable_access
  PROVE  DramInv'
<1>1. /\ pc[1] = "ready" /\ (pc' = <<"row", 0>> \/ pc' = <<"panic1">>)
      /\ regs' = (IF pc' = <<"row", 0>> THEN regs \cup {"maer", "odtmap", "credit"} ELSE regs)
      /\ UNCHANGED <<chip, clk, para, cr, clocks, trained, size, use>>
  BY DEF enable_access, Awaits, hw
<1>2. (pc'[1] = "row" /\ pc'[2] = 0) \/ pc'[1] = "panic1"
  BY <1>1
<1>3. StateTypes'
  BY <1>1, <1>2 DEF DramInv, StateTypes, Places, Probing, Rank
<1>4. TrainingRight'
  BY <1>1, <1>2 DEF DramInv, TrainingRight, Before, Settled
<1>5. GeometryRight'
  BY <1>2 DEF GeometryRight, Probing
<1>6. ReportRight'
  BY <1>1, <1>2 DEF DramInv, ReportRight
<1> QED BY <1>3, <1>4, <1>5, <1>6 DEF DramInv

LEMMA RowStep ==
  ASSUME DramInv, NEW k \in Rank, rank_row(k)
  PROVE  DramInv'
<1> DEFINE geo == Geometry(16, 2, 0)
           new == Geometry(chip.ranks[k].row, 2, 0)
<1>1. /\ pc = <<"row", k>> /\ pc' = <<"bank", k>> /\ cr' = Probe(k, geo)
      /\ para' = Probe(k, Geometry(FirstMatch(11, RowTop, RowAliases(k)), 2, 0))
      /\ UNCHANGED <<chip, clk, regs, clocks, trained, size, use>>
  BY Zenon DEF rank_row, RowAliases, hw
<1>2. pc[1] = "row" /\ pc[2] = k /\ pc'[1] = "bank" /\ pc'[2] = k
  BY <1>1
<1>3. /\ StateTypes /\ chip.sound /\ para.dual = chip.dual /\ para.full = chip.full /\ size = 0
      /\ (k = 1 => chip.dual /\ para.ranks[0] = chip.ranks[0])
  BY <1>2 DEF DramInv, TrainingRight, Settled, GeometryRight, Probing, ReportRight
<1>4. k = 1 => para.dual
  BY <1>3
<1>5. para' = Probe(k, new)
  BY <1>1, <1>3, <1>4, RowFound
<1>6. geo \in RankPara /\ new \in RankPara
  <2>1. chip.ranks[k] \in RankPara
    BY <1>3, ChipFacts DEF StateTypes
  <2>2. chip.ranks[k].row \in 11 .. 16
    BY <2>1, RankBits
  <2> QED BY <2>2 DEF Geometry, RankPara
<1> HIDE DEF geo, new
<1>7. /\ para' \in Para /\ cr' \in Para /\ para'.dual = para.dual /\ para'.full = para.full
      /\ para'.ranks[k] = new /\ (k = 1 => para'.ranks[0] = para.ranks[0])
  BY <1>1, <1>3, <1>5, <1>6, ProbePara
<1>8. StateTypes'
  BY <1>1, <1>2, <1>3, <1>7 DEF StateTypes, Places, Probing
<1>9. TrainingRight'
  BY <1>1, <1>2, <1>3, <1>7 DEF TrainingRight, Before, Settled
<1>10. GeometryRight'
  BY <1>1, <1>2, <1>3, <1>7 DEF GeometryRight, Probing, new
<1>11. ReportRight'
  BY <1>1, <1>2, <1>3 DEF ReportRight
<1> QED BY <1>8, <1>9, <1>10, <1>11 DEF DramInv

LEMMA BankStep ==
  ASSUME DramInv, NEW k \in Rank, rank_bank(k)
  PROVE  DramInv'
<1> DEFINE geo == [para.ranks[k] EXCEPT !.bank = 3]
           new == Geometry(chip.ranks[k].row, chip.ranks[k].bank, 0)
<1>1. /\ pc = <<"bank", k>> /\ pc' = <<"page", k>> /\ cr' = Probe(k, geo)
      /\ para' = Probe(k, [para.ranks[k] EXCEPT !.bank = FirstMatch(2, 3, Aliases(k, geo, 2, 3))])
      /\ UNCHANGED <<chip, clk, regs, clocks, trained, size, use>>
  BY Zenon DEF rank_bank, Aliases, hw
<1>2. pc[1] = "bank" /\ pc[2] = k /\ pc'[1] = "page" /\ pc'[2] = k
  BY <1>1
<1>3. /\ StateTypes /\ chip.sound /\ para.dual = chip.dual /\ para.full = chip.full /\ size = 0
      /\ (k = 1 => chip.dual /\ para.ranks[0] = chip.ranks[0])
      /\ para.ranks[k] = Geometry(chip.ranks[k].row, 2, 0)
  BY <1>2 DEF DramInv, TrainingRight, Settled, GeometryRight, Probing, ReportRight
<1>4. k = 1 => para.dual
  BY <1>3
<1>5. chip.ranks[k] \in RankPara /\ chip.ranks[k].row \in 11 .. 16 /\ chip.ranks[k].bank \in 2 .. 3
  <2>1. chip.ranks[k] \in RankPara
    BY <1>3, ChipFacts DEF StateTypes
  <2> QED BY <2>1, RankBits
<1>6. geo \in RankPara /\ geo.bank = 3 /\ geo.page = 0 /\ new \in RankPara
  BY <1>3, <1>5 DEF Geometry, RankPara
<1>7. [para.ranks[k] EXCEPT !.bank = chip.ranks[k].bank] = new
  BY <1>3 DEF Geometry
<1> HIDE DEF geo, new
<1>8. FirstMatch(2, 3, Aliases(k, geo, 2, 3)) = chip.ranks[k].bank
  BY <1>3, <1>4, <1>6, BankFound
<1>9. para' = Probe(k, new)
  BY <1>1, <1>7, <1>8
<1>10. /\ para' \in Para /\ cr' \in Para /\ para'.dual = para.dual /\ para'.full = para.full
       /\ para'.ranks[k] = new /\ (k = 1 => para'.ranks[0] = para.ranks[0])
  BY <1>1, <1>3, <1>9, <1>6, ProbePara
<1>11. StateTypes'
  BY <1>1, <1>2, <1>3, <1>10 DEF StateTypes, Places, Probing
<1>12. TrainingRight'
  BY <1>1, <1>2, <1>3, <1>10 DEF TrainingRight, Before, Settled
<1>13. GeometryRight'
  BY <1>1, <1>2, <1>3, <1>10 DEF GeometryRight, Probing, new
<1>14. ReportRight'
  BY <1>1, <1>2, <1>3 DEF ReportRight
<1> QED BY <1>11, <1>12, <1>13, <1>14 DEF DramInv

LEMMA PageStep ==
  ASSUME DramInv, NEW k \in Rank, rank_page(k)
  PROVE  DramInv'
<1> DEFINE geo == [para.ranks[k] EXCEPT !.page = 4]
           new == chip.ranks[k]
<1>1. /\ pc = <<"page", k>> /\ pc' = (IF k = 0 /\ para.dual THEN <<"row", 1>> ELSE <<"size">>) /\ cr' = Probe(k, geo)
      /\ para' = Probe(k, [para.ranks[k] EXCEPT !.page = FirstMatch(0, 4, Aliases(k, geo, 0, 4))])
      /\ UNCHANGED <<chip, clk, regs, clocks, trained, size, use>>
  BY Zenon DEF rank_page, Aliases, hw
<1>2. pc[1] = "page" /\ pc[2] = k
  BY <1>1
<1>3. /\ StateTypes /\ chip.sound /\ para.dual = chip.dual /\ para.full = chip.full /\ size = 0
      /\ (k = 1 => chip.dual /\ para.ranks[0] = chip.ranks[0])
      /\ para.ranks[k] = Geometry(chip.ranks[k].row, chip.ranks[k].bank, 0)
  BY <1>2 DEF DramInv, TrainingRight, Settled, GeometryRight, Probing, ReportRight
<1>4. k = 1 => para.dual
  BY <1>3
<1>5. chip.ranks[k] \in RankPara /\ chip.ranks[k].row \in 11 .. 16 /\ chip.ranks[k].bank \in 2 .. 3
  <2>1. chip.ranks[k] \in RankPara
    BY <1>3, ChipFacts DEF StateTypes
  <2> QED BY <2>1, RankBits
<1>6. geo \in RankPara /\ geo.page = 4
  BY <1>3, <1>5 DEF Geometry, RankPara
<1>7. [para.ranks[k] EXCEPT !.page = new.page] = new
  BY <1>3, <1>5 DEF Geometry, RankPara
<1> HIDE DEF geo
<1>8. FirstMatch(0, 4, Aliases(k, geo, 0, 4)) = new.page
  BY <1>3, <1>4, <1>6, PageFound
<1>9. para' = Probe(k, new)
  BY <1>1, <1>7, <1>8, Zenon
<1> HIDE DEF new
<1>10. /\ para' \in Para /\ cr' \in Para /\ para'.dual = para.dual /\ para'.full = para.full
       /\ para'.ranks[k] = new /\ (k = 1 => para'.ranks[0] = para.ranks[0])
  BY <1>1, <1>3, <1>5, <1>9, <1>6, ProbePara DEF new
<1>11. \/ pc'[1] = "row" /\ pc'[2] = 1 /\ k = 0 /\ chip.dual
       \/ pc'[1] = "size" /\ ~(k = 0 /\ chip.dual)
  <2>1. CASE k = 0 /\ para.dual
    BY <1>1, <1>3, <2>1
  <2>2. CASE ~(k = 0 /\ para.dual)
    BY <1>1, <1>3, <2>2
  <2> QED BY <2>1, <2>2
<1>12. StateTypes'
  BY <1>1, <1>11, <1>3, <1>10 DEF StateTypes, Places, Probing, Rank
<1>13. TrainingRight'
  BY <1>1, <1>11, <1>3, <1>10 DEF TrainingRight, Before, Settled
<1>14. GeometryRight'
  BY <1>1, <1>11, <1>3, <1>10 DEF GeometryRight, Probing, new, Rank
<1>15. ReportRight'
  BY <1>1, <1>11, <1>3 DEF ReportRight
<1> QED BY <1>12, <1>13, <1>14, <1>15 DEF DramInv

LEMMA SizeStep ==
  ASSUME DramInv, sunxi_dram_init
  PROVE  DramInv'
<1>1. /\ pc[1] = "size" /\ pc'[1] = "layout" /\ cr' = para
      /\ size' = mctl_calc_rank_size(para.ranks[0]) + (IF para.dual THEN mctl_calc_rank_size(para.ranks[1]) ELSE 0)
      /\ UNCHANGED <<chip, clk, para, regs, clocks, trained, use>>
  BY DEF sunxi_dram_init, FinalCr, hw
<1>2. /\ StateTypes /\ chip.sound /\ para.dual = chip.dual /\ para.full = chip.full
      /\ para.ranks[0] = chip.ranks[0] /\ (chip.dual => para.ranks[1] = chip.ranks[1])
  BY <1>1 DEF DramInv, TrainingRight, Settled, GeometryRight
<1>3. size' = TrueSize(chip)
  <2>1. CASE chip.dual
    BY <1>1, <1>2, <2>1 DEF TrueSize
  <2>2. CASE ~chip.dual
    BY <1>1, <1>2, <2>2 DEF TrueSize
  <2> QED BY <2>1, <2>2
<1>4. StateTypes'
  BY <1>1, <1>2 DEF StateTypes, Places, Probing
<1>5. TrainingRight'
  BY <1>1, <1>2 DEF TrainingRight, Before, Settled
<1>6. GeometryRight'
  BY <1>1, <1>2 DEF GeometryRight, Probing
<1>7. ReportRight'
  <2>1. TrueSize(chip)' = TrueSize(chip)
    BY <1>1
  <2> QED BY <1>1, <1>3, <2>1 DEF ReportRight
<1> QED BY <1>4, <1>5, <1>6, <1>7 DEF DramInv

LEMMA LayoutStep ==
  ASSUME DramInv, main_sram_only
  PROVE  DramInv'
<1>1. /\ pc[1] = "layout" /\ pc'[1] = "up"
      /\ use' = [heap |-> size - HeapBack, tables |-> TableStart, told |-> size % MiB(4096)]
      /\ UNCHANGED <<chip, clk, para, cr, regs, clocks, trained, size>>
  BY DEF main_sram_only, hw
<1>2. /\ StateTypes /\ TrainingRight /\ GeometryRight /\ size = TrueSize(chip) /\ cr = para
  BY <1>1 DEF DramInv, ReportRight
<1>3. StateTypes'
  BY <1>1, <1>2 DEF StateTypes, Places, Probing
<1>4. TrainingRight'
  BY <1>1, <1>2 DEF TrainingRight, Before, Settled
<1>5. GeometryRight'
  BY <1>1, <1>2 DEF GeometryRight, Probing
<1>6. ReportRight'
  <2>1. TrueSize(chip)' = TrueSize(chip) /\ TableStart' = TableStart
    BY <1>1 DEF TableStart
  <2> QED BY <1>1, <1>2, <2>1 DEF ReportRight
<1> QED BY <1>3, <1>4, <1>5, <1>6 DEF DramInv

LEMMA DramInvHolds == Spec => []DramInv
<1>1. ASSUME DramInv, [Next]_vars PROVE DramInv'
  <2>1. CASE UNCHANGED vars
    <3>1. UNCHANGED <<pc, chip, clk, para, cr, regs, clocks, trained, size, use>>
      BY <2>1 DEF vars
    <3>2. StateTypes' /\ GeometryRight'
      BY <1>1, <3>1 DEF DramInv, StateTypes, GeometryRight
    <3>3. TrainingRight'
      BY <1>1, <3>1 DEF DramInv, TrainingRight, Training
    <3>4. ReportRight'
      BY <1>1, <3>1 DEF DramInv, ReportRight, TableStart
    <3> QED BY <3>2, <3>3, <3>4 DEF DramInv
  <2>2. CASE \E k \in Rank : rank_row(k) \/ rank_bank(k) \/ rank_page(k)
    BY <1>1, <2>2, RowStep, BankStep, PageStep
  <2> QED BY <1>1, <2>1, <2>2, SysStep, ChannelStep, RetrainStep, AcceptStep, AccessStep, SizeStep, LayoutStep DEF Next
<1> QED BY <1>1, InitHolds, PTL DEF Spec
-----------------------------------------------------------------------------
(* A remainder below the modulus, and taking a remainder twice.            *)
LEMMA SmallRemainder ==
  ASSUME NEW p \in Nat, p >= 1, NEW x \in Nat
  PROVE  x % p \in 0 .. p - 1 /\ (x % p) % p = x % p /\ (x < p => x % p = x)
<1>1. x % p \in 0 .. p - 1
  OBVIOUS
<1>2. ASSUME NEW y \in 0 .. p - 1 PROVE y % p = y
  OBVIOUS
<1> QED BY <1>1, <1>2

(* Column, bank and row of an address of the rank, with p columns, b banks *)
(* and q = p b, determine it.                                              *)
LEMMA PartsDetermine ==
  ASSUME NEW p \in {1, 2, 4, 8, 16}, NEW b \in {4, 8}, NEW q \in Nat, q = p * b, NEW u \in Nat, NEW v \in Nat,
         u % p = v % p, (u \div p) % b = (v \div p) % b, u \div q = v \div q
  PROVE  u = v
<1>1. CASE b = 4
  <2>1. CASE p = 1
    BY <1>1, <2>1
  <2>2. CASE p = 2
    BY <1>1, <2>2
  <2>3. CASE p = 4
    BY <1>1, <2>3
  <2>4. CASE p = 8
    BY <1>1, <2>4
  <2>5. CASE p = 16
    BY <1>1, <2>5
  <2> QED BY <2>1, <2>2, <2>3, <2>4, <2>5
<1>2. CASE b = 8
  <2>1. CASE p = 1
    BY <1>2, <2>1
  <2>2. CASE p = 2
    BY <1>2, <2>2
  <2>3. CASE p = 4
    BY <1>2, <2>3
  <2>4. CASE p = 8
    BY <1>2, <2>4
  <2>5. CASE p = 16
    BY <1>2, <2>5
  <2> QED BY <2>1, <2>2, <2>3, <2>4, <2>5
<1> QED BY <1>1, <1>2

(* The size of a rank is rows times what one row holds.                    *)
LEMMA RankIsRows ==
  ASSUME NEW g \in RankPara
  PROVE  /\ Bit(g.page) \in {1, 2, 4, 8, 16} /\ Bit(g.bank) \in {4, 8}
         /\ Bit(g.page + g.bank) = Bit(g.page) * Bit(g.bank)
         /\ Bit(g.page + g.bank) \in {4, 8, 16, 32, 64, 128}
         /\ mctl_calc_rank_size(g) = Bit(g.page + g.bank) * Bit(g.row)
         /\ mctl_calc_rank_size(g) % 8 = 0
<1> DEFINE r == g.row
           n == g.page + g.bank
<1>1. g.row \in 11 .. 16 /\ g.bank \in 2 .. 3 /\ g.page \in 0 .. 4
  BY RankBits
<1>2. Bit(g.page) \in {1, 2, 4, 8, 16} /\ Bit(g.bank) \in {4, 8} /\ Bit(g.page + g.bank) = Bit(g.page) * Bit(g.bank)
  BY <1>1, Bits
<1>3. n \in 2 .. 7 /\ r \in 11 .. 16 /\ mctl_calc_rank_size(g) = Bit(n + r)
  <2>1. g.row + g.bank + g.page = n + r
    BY <1>1
  <2> QED BY <1>1, <2>1 DEF mctl_calc_rank_size
<1> HIDE DEF n, r
<1>4. Bit(n) \in {4, 8, 16, 32, 64, 128}
  BY <1>3, Bits
<1>5. Bit(n + r) = Bit(n) * Bit(r) /\ Bit(n + r) % 8 = 0
  <2>1. CASE n = 2
    BY <1>3, <2>1, Bits
  <2>2. CASE n = 3
    BY <1>3, <2>2, Bits
  <2>3. CASE n = 4
    BY <1>3, <2>3, Bits
  <2>4. CASE n = 5
    BY <1>3, <2>4, Bits
  <2>5. CASE n = 6
    BY <1>3, <2>5, Bits
  <2>6. CASE n = 7
    BY <1>3, <2>6, Bits
  <2> QED BY <1>3, <2>1, <2>2, <2>3, <2>4, <2>5, <2>6
<1> QED BY <1>2, <1>3, <1>4, <1>5 DEF n, r

(* A rank configured as it is built gives each of its addresses a cell of  *)
(* its own.                                                                *)
LEMMA SelDetermines ==
  ASSUME NEW k, NEW g \in RankPara, NEW u \in Nat, NEW v \in Nat,
         u < mctl_calc_rank_size(g), v < mctl_calc_rank_size(g), Sel(k, g, g, u) = Sel(k, g, g, v)
  PROVE  u = v
<1> DEFINE p == Bit(g.page)
           b == Bit(g.bank)
           q == Bit(g.page + g.bank)
           r == Bit(g.row)
<1>1. /\ (u % p) % p = (v % p) % p /\ ((u \div p) % b) % b = ((v \div p) % b) % b
      /\ ((u \div q) % r) % r = ((v \div q) % r) % r
  BY DEF Sel
<1>2. /\ p \in {1, 2, 4, 8, 16} /\ b \in {4, 8} /\ q = p * b /\ q \in {4, 8, 16, 32, 64, 128}
      /\ mctl_calc_rank_size(g) = q * r
  BY RankIsRows
<1>3. r \in Nat /\ r >= 1
  BY RankBits
<1> HIDE DEF p, b, q, r
<1>4. p \in Nat /\ p >= 1 /\ b \in Nat /\ b >= 1 /\ q \in Nat /\ q >= 1
  BY <1>2
<1>5. u < q * r /\ v < q * r
  BY <1>2
<1>6. ASSUME NEW x \in Nat, x < q * r
      PROVE  x \div p \in Nat /\ x \div q \in Nat /\ x \div q < r
  BY <1>2, <1>3, <1>6
<1>7. u % p = v % p
  BY <1>1, <1>4, SmallRemainder
<1>8. (u \div p) % b = (v \div p) % b
  BY <1>1, <1>4, <1>5, <1>6, SmallRemainder
<1>9. u \div q = v \div q
  BY <1>1, <1>3, <1>5, <1>6, SmallRemainder
<1> QED BY <1>2, <1>4, <1>7, <1>8, <1>9, PartsDetermine
-----------------------------------------------------------------------------
Reported == pc \in {<<"layout">>, <<"up">>}

LEMMA ReportedFacts ==
  ASSUME DramInv, Reported
  PROVE  /\ StateTypes /\ chip.sound /\ para.dual = chip.dual /\ para.full = chip.full
         /\ para.ranks[0] = chip.ranks[0] /\ (chip.dual => para.ranks[1] = chip.ranks[1])
         /\ size = TrueSize(chip) /\ cr = para
<1>1. pc[1] \in {"layout", "up"}
  BY DEF Reported
<1> QED BY <1>1 DEF DramInv, TrainingRight, Settled, GeometryRight, ReportRight

LEMMA WindowIsNat == Window \in Nat
  BY DEF Window, MiB

LEMMA TrueSizeFacts ==
  ASSUME NEW c \in Chips
  PROVE  TrueSize(c) \in 0 .. Window /\ TrueSize(c) % 8 = 0
<1> DEFINE a == mctl_calc_rank_size(c.ranks[0])
           b == mctl_calc_rank_size(c.ranks[1])
<1>1. c.ranks[0] \in RankPara /\ c.ranks[1] \in RankPara /\ TrueSize(c) <= Window
  BY ChipFacts DEF Rank
<1>2. a \in Nat /\ a % 8 = 0 /\ b \in Nat /\ b % 8 = 0
  BY <1>1, RankBits, RankIsRows
<1>3. TrueSize(c) = IF c.dual THEN a + b ELSE a + 0
  BY Zenon DEF TrueSize
<1> HIDE DEF a, b
<1>4. TrueSize(c) \in Nat /\ TrueSize(c) % 8 = 0
  BY <1>2, <1>3
<1> QED BY <1>1, <1>4, WindowIsNat

(* Whatever chip is fitted, a bring-up that gets to report a size reports  *)
(* the chip's, for the ranks and the width it has, and "panic 3" means     *)
(* that it cannot be trained: for every set of chips whose geometry the    *)
(* code looks for.  (sunxi_dram_init, mctl_channel_init and                *)
(* mctl_auto_detect_dram_size of dram_sunxi_dw.c)                          *)
THEOREM SizeAlwaysRight == Spec => []SizeRight
<1>1. ASSUME DramInv PROVE SizeRight
  <2>1. chip \in Chips /\ para \in Para /\ cr \in Para
    BY <1>1 DEF DramInv, StateTypes
  <2>2. size \in 0 .. Window
    <3>1. size = TrueSize(chip) \/ size = 0
      BY <1>1 DEF DramInv, ReportRight
    <3>2. 0 \in 0 .. Window
      BY WindowIsNat
    <3> QED BY <2>1, <3>1, <3>2, TrueSizeFacts
  <2>3. DramTypeOK
    BY <1>1, <2>1, <2>2 DEF DramInv, StateTypes, Para, DramTypeOK
  <2>4. pc = <<"panic3">> => ~chip.sound
    <3>1. pc = <<"panic3">> => pc[1] = "panic3"
      OBVIOUS
    <3> QED BY <1>1, <3>1 DEF DramInv, TrainingRight
  <2>5. Reported => chip.sound /\ size = TrueSize(chip) /\ para.dual = chip.dual /\ para.full = chip.full
    BY <1>1, ReportedFacts
  <2> QED BY <2>3, <2>4, <2>5 DEF SizeRight, Reported
<1> QED BY <1>1, DramInvHolds, PTL

(* Every two addresses of the reported memory select different cells.      *)
OwnCells == Reported => \A u, v \in 0 .. size - 1 : u # v => Cell(cr, u) # Cell(cr, v)

LEMMA ReportedCell ==
  ASSUME DramInv, Reported, NEW u \in 0 .. size - 1
  PROVE  \E k \in Rank : \E x \in Nat : /\ x < mctl_calc_rank_size(chip.ranks[k])
                                      /\ u = (IF k = 0 THEN 0 ELSE mctl_calc_rank_size(chip.ranks[0])) + x
                                      /\ Cell(cr, u) = Sel(k, chip.ranks[k], chip.ranks[k], x)
<1>1. /\ StateTypes /\ cr.dual = chip.dual /\ cr.ranks[0] = chip.ranks[0] /\ (chip.dual => cr.ranks[1] = chip.ranks[1])
      /\ size = TrueSize(chip) /\ chip \in Chips
  BY ReportedFacts DEF StateTypes
<1>2. chip.ranks[0] \in RankPara /\ chip.ranks[1] \in RankPara /\ chip.dual \in BOOLEAN
  BY <1>1, ChipFacts DEF Rank
<1> DEFINE a == mctl_calc_rank_size(chip.ranks[0])
           b == mctl_calc_rank_size(chip.ranks[1])
<1>3. a \in Nat /\ b \in Nat
  BY <1>2, RankBits
<1>4. size = IF chip.dual THEN a + b ELSE a + 0
  BY <1>1, Zenon DEF TrueSize
<1>5. mctl_calc_rank_size(cr.ranks[0]) = a
  BY <1>1
<1> HIDE DEF a, b
<1>6. CASE chip.dual /\ u >= a
  <2> DEFINE x == u - a
  <2>1. x \in Nat /\ x < b /\ u = a + x /\ size = a + b
    BY <1>3, <1>4, <1>6
  <2> HIDE DEF x
  <2>2. Start(cr, 1) = a /\ 1 \in Rank
    BY <1>5 DEF Start, Rank
  <2>3. Cell(cr, Start(cr, 1) + x) = Sel(1, cr.ranks[1], chip.ranks[1], x)
    <3>1. mctl_calc_rank_size(cr.ranks[0]) \in Nat /\ cr.dual \in BOOLEAN /\ cr.dual
      BY <1>1, <1>2, <1>3, <1>5, <1>6
    <3>2. 1 \in Rank /\ 1 # 0
      BY <2>2
    <3> HIDE DEF x
    <3> QED BY <3>1, <3>2, <2>1, CellIs
  <2>4. Cell(cr, u) = Sel(1, chip.ranks[1], chip.ranks[1], x)
    BY <1>1, <1>6, <2>1, <2>2, <2>3
  <2>5. x < mctl_calc_rank_size(chip.ranks[1]) /\ u = (IF 1 = 0 THEN 0 ELSE mctl_calc_rank_size(chip.ranks[0])) + x
    BY <2>1 DEF a, b
  <2> QED BY <2>1, <2>2, <2>4, <2>5
<1>7. CASE ~(chip.dual /\ u >= a)
  <2>1. u \in Nat /\ u < a /\ u = 0 + u
    BY <1>3, <1>4, <1>7
  <2>2. Start(cr, 0) = 0 /\ 0 \in Rank
    BY DEF Start, Rank
  <2>3. Cell(cr, Start(cr, 0) + u) = Sel(0, cr.ranks[0], chip.ranks[0], u)
    BY <1>1, <1>2, <1>3, <1>5, <1>7, <2>1, <2>2, CellIs
  <2>4. Cell(cr, u) = Sel(0, chip.ranks[0], chip.ranks[0], u)
    BY <1>1, <2>1, <2>2, <2>3
  <2>5. u < mctl_calc_rank_size(chip.ranks[0]) /\ u = (IF 0 = 0 THEN 0 ELSE mctl_calc_rank_size(chip.ranks[0])) + u
    BY <2>1 DEF a
  <2> QED BY <2>1, <2>2, <2>4, <2>5
<1> QED BY <1>6, <1>7

LEMMA OwnCellsFollows ==
  ASSUME DramInv
  PROVE  OwnCells
<1> SUFFICES ASSUME Reported, NEW u \in 0 .. size - 1, NEW v \in 0 .. size - 1, Cell(cr, u) = Cell(cr, v)
             PROVE  u = v
  BY DEF OwnCells
<1> DEFINE At(k) == IF k = 0 THEN 0 ELSE mctl_calc_rank_size(chip.ranks[0])
<1>1. PICK k \in Rank, x \in Nat : /\ x < mctl_calc_rank_size(chip.ranks[k]) /\ u = At(k) + x
                                   /\ Cell(cr, u) = Sel(k, chip.ranks[k], chip.ranks[k], x)
  BY ReportedCell
<1>2. PICK l \in Rank, y \in Nat : /\ y < mctl_calc_rank_size(chip.ranks[l]) /\ v = At(l) + y
                                   /\ Cell(cr, v) = Sel(l, chip.ranks[l], chip.ranks[l], y)
  BY ReportedCell
<1>3. Sel(k, chip.ranks[k], chip.ranks[k], x) = Sel(l, chip.ranks[l], chip.ranks[l], y)
  BY <1>1, <1>2
<1>4. k = l
  BY <1>3 DEF Sel
<1>5. chip.ranks[k] \in RankPara
  <2>1. chip \in Chips
    BY DEF DramInv, StateTypes
  <2> QED BY <2>1, ChipFacts
<1>6. x = y
  BY <1>1, <1>2, <1>3, <1>4, <1>5, SelDetermines
<1> QED BY <1>1, <1>2, <1>4, <1>6

(* Once a size is reported, no two different addresses of the reported     *)
(* memory, one line or many apart, in the same rank or in different ones,  *)
(* share a storage cell.  (mctl_set_cr, mctl_auto_detect_dram_size)        *)
THEOREM EveryAddressItsOwnCell == Spec => []OwnCells
  BY DramInvHolds, OwnCellsFollows, PTL

LEMMA LinesInside ==
  ASSUME NEW n \in 0 .. 23, NEW i \in 0 .. n - 1
  PROVE  Bit(i) \in Nat /\ Bit(i) < Bit(n)
<1>1. CASE n <= 8
  BY <1>1, Bits
<1>2. CASE n > 8 /\ n <= 13
  BY <1>2, Bits
<1>3. CASE n > 13 /\ n <= 18
  BY <1>3, Bits
<1>4. CASE n > 18
  BY <1>4, Bits
<1> QED BY <1>1, <1>2, <1>3, <1>4

(* The one-line form that the model checker looks at.                      *)
THEOREM NeverAliases == Spec => []NoAliases
<1>1. ASSUME DramInv PROVE NoAliases
  <2> SUFFICES ASSUME Reported, NEW k \in IF para.dual THEN Rank ELSE {0},
                      NEW x \in Lines(para, k)
               PROVE  /\ Base(k) + x < size
                      /\ \A y \in Lines(para, k) \cup {0} : x # y => Cell(cr, Base(k) + x) # Cell(cr, Base(k) + y)
    BY DEF NoAliases, Reported
  <2>1. /\ StateTypes /\ para.dual = chip.dual /\ para.ranks[0] = chip.ranks[0] /\ (chip.dual => para.ranks[1] = chip.ranks[1])
        /\ size = TrueSize(chip) /\ chip \in Chips
    BY <1>1, ReportedFacts DEF StateTypes
  <2>2. k \in Rank /\ (k = 1 => chip.dual) /\ para.ranks[k] = chip.ranks[k]
    BY <2>1 DEF Rank
  <2>3. chip.ranks[0] \in RankPara /\ chip.ranks[1] \in RankPara /\ chip.ranks[k] \in RankPara
    BY <2>1, <2>2, ChipFacts DEF Rank
  <2> DEFINE a == mctl_calc_rank_size(chip.ranks[0])
             b == mctl_calc_rank_size(chip.ranks[1])
             s == mctl_calc_rank_size(chip.ranks[k])
  <2>4. a \in Nat /\ b \in Nat /\ s \in Nat /\ s >= 1 /\ (k = 0 => s = a) /\ (k = 1 => s = b)
    BY <2>3, RankBits
  <2>5. size = (IF chip.dual THEN a + b ELSE a + 0) /\ Base(k) = IF k = 0 THEN 0 ELSE a
    BY <2>1, Zenon DEF TrueSize, Base
  <2>6. ASSUME NEW y \in Lines(para, k) \cup {0} PROVE y \in Nat /\ y < s
    <3>1. CASE y = 0
      BY <2>4, <3>1
    <3>2. CASE y \in Lines(para, k)
      <4> DEFINE c == chip.ranks[k]
                 n == c.row + c.bank + c.page
                 m == c.row + c.bank + c.page - 1
      <4>0. Lines(para, k) = {Bit(i) : i \in 0 .. m} /\ m = n - 1
        <5>1. Lines(para, k) = {Bit(i) : i \in 0 .. m}
          BY <2>2, Zenon DEF Lines
        <5>2. m = n - 1
          BY <2>3, RankBits
        <5> QED BY <5>1, <5>2
      <4> HIDE DEF m
      <4>1. PICK i \in 0 .. n - 1 : y = Bit(i)
        BY <3>2, <4>0
      <4>2. n \in 0 .. 23 /\ s = Bit(n)
        BY <2>3, RankBits DEF mctl_calc_rank_size
      <4> QED BY <4>1, <4>2, LinesInside
    <3> QED BY <3>1, <3>2
  <2> HIDE DEF a, b, s
  <2>7. ASSUME NEW y \in Lines(para, k) \cup {0} PROVE Base(k) + y \in 0 .. size - 1 /\ y \in Nat /\ Base(k) \in Nat
    <3>1. y \in Nat /\ y < s
      BY <2>6
    <3> QED BY <3>1, <2>2, <2>4, <2>5 DEF Rank
  <2>8. size \in Nat
    BY <2>4, <2>5
  <2>9. ASSUME NEW y \in Lines(para, k) \cup {0}, x # y PROVE Cell(cr, Base(k) + x) # Cell(cr, Base(k) + y)
    <3>1. /\ Base(k) + x \in 0 .. size - 1 /\ Base(k) + y \in 0 .. size - 1
          /\ x \in Nat /\ y \in Nat /\ Base(k) \in Nat
      BY <2>7
    <3>2. Base(k) + x # Base(k) + y
      BY <3>1, <2>9
    <3> QED BY <1>1, <3>1, <3>2, OwnCellsFollows DEF OwnCells
  <2> QED BY <2>7, <2>8, <2>9
<1> QED BY <1>1, DramInvHolds, PTL

(* What main_sram_only() and mmu_setup() place at the end of the memory is *)
(* inside it, apart, aligned and cacheable, for every chip of 512 MiB or   *)
(* more; and clear of all that is loaded to the fixed addresses when there *)
(* is 1 GiB or more, of 2 MiB at each of them when there is less.          *)
THEOREM LayoutAlwaysSound == Spec => []LayoutSound
<1>1. ASSUME DramInv PROVE LayoutSound
  <2> SUFFICES ASSUME pc = <<"up">>, size >= MiB(512) PROVE LayoutSound
    BY DEF LayoutSound
  <2>1. pc[1] = "up" /\ Reported
    BY DEF Reported
  <2>2. chip \in Chips /\ size = TrueSize(chip)
    BY <1>1, <2>1, ReportedFacts DEF StateTypes
  <2>3. use = [heap |-> size - HeapBack, tables |-> TableStart, told |-> size % MiB(4096)]
    BY <1>1, <2>1 DEF DramInv, ReportRight
  <2>4. size \in Nat /\ size <= Window /\ size % 8 = 0
    BY <2>2, TrueSizeFacts, WindowIsNat
  <2>5. use.heap = size - 524288 /\ use.tables = size - 16 /\ use.told = size % 8388608
    BY <2>3 DEF HeapBack, TableStart, TableSize, KiB, MiB
  <2>6. size <= 6291456 /\ size >= 1048576
    BY <2>4 DEF Window, MiB
  <2>7. use.heap \in Nat /\ use.heap >= 524288 /\ use.heap + 131072 <= use.tables /\ use.tables + 16 = size /\ use.tables % 8 = 0
    BY <2>4, <2>5, <2>6
  <2>8. \A u \in {use.heap, use.tables} : mmu_attr(1024 + u \div 2048) = "mem"
    <3>1. ASSUME NEW u \in Nat PROVE mmu_attr(1024 + u \div 2048) = "mem"
      <4>1. u \div 2048 \in Nat
        OBVIOUS
      <4> DEFINE m == 1024 + u \div 2048
      <4>2. m \in Nat /\ m >= 1024
        BY <4>1
      <4> HIDE DEF m
      <4>3. ~(m < 2) /\ ~(m \in 2 .. 1023)
        BY <4>2
      <4>4. mmu_attr(m) = "mem"
        BY <4>3 DEF mmu_attr
      <4> QED BY <4>4 DEF m
    <3> QED BY <3>1, <2>4, <2>5, <2>6, <2>7
  <2>9. use.told = TrueSize(chip)
    BY <2>2, <2>4, <2>5, <2>6
  <2>10. \A at \in LoadPlaces : at + (IF size >= MiB(1024) THEN LoadLimit ELSE MiB(2)) <= use.heap
    <3>1. \A at \in LoadPlaces : at \in Nat /\ at <= 520192
      BY DEF LoadPlaces, MiB
    <3>2. CASE size >= 2097152
      BY <2>4, <2>5, <3>1, <3>2 DEF LoadLimit, MiB
    <3>3. CASE ~(size >= 2097152)
      BY <2>4, <2>5, <2>6, <3>1, <3>3 DEF MiB
    <3> QED BY <3>2, <3>3
  <2> QED BY <2>7, <2>8, <2>9, <2>10 DEF LayoutSound, HeapUsed, TableSize, KiB, MiB
<1> QED BY <1>1, DramInvHolds, PTL
-----------------------------------------------------------------------------
MHz == 100 .. 1000
Times == {8, 10, 15, 24, 27, 42, 50, 70, 210}
Widths == {256, 65536}

(* The PLL makes at most the clock asked for, when it is below 780 MHz:    *)
(* above, its six-bit multiplier wraps, to still less.                     *)
LEMMA PllFacts ==
  ASSUME NEW c \in MHz
  PROVE  DramClk(c) \in Nat /\ DramClk(c) <= c /\ DramClk(c) <= 2 * (c \div 2)
<1> DEFINE m == (2 * c) \div 24
<1>1. m \in Nat /\ m >= 1 /\ 24 * m <= 2 * c
  BY DEF MHz
<1> HIDE DEF m
<1>2. ((m - 1) % 64) + 1 \in Nat /\ ((m - 1) % 64) + 1 <= m
  BY <1>1
<1> DEFINE h == ((m - 1) % 64) + 1
<1>3. clock_set_pll11(2 * c) = 24 * h
  BY DEF clock_set_pll11, m
<1>4. h \in Nat /\ h <= m
  BY <1>2
<1> HIDE DEF h
<1>5. DramClk(c) = 12 * h
  BY <1>3, <1>4 DEF DramClk
<1> QED BY <1>1, <1>4, <1>5 DEF MHz

CyclesCover(c) == \A t \in DOMAIN MinTimes : Cycles(c, t) * 2000 >= DramClk(c) * MinTimes[t]

Covered(c, ns, n, w) == (AtLeast(ns_to_t(c, ns), n) % w) * 2000 >= DramClk(c) * ns

(* A time of ns nanoseconds, as the code rounds it, in a field that holds  *)
(* less than w cycles.                                                     *)
LEMMA TimeCovered ==
  ASSUME NEW c \in MHz, NEW ns \in Times, NEW n \in 0 .. 4, NEW w \in Widths
  PROVE  Covered(c, ns, n, w)
<1> DEFINE h == c \div 2
           d == DramClk(c)
<1>1. h \in 50 .. 500 /\ d \in Nat /\ d <= 2 * h
  <2>1. d \in Nat /\ d <= 2 * h
    BY PllFacts
  <2>2. h \in 50 .. 500
    BY DEF MHz
  <2> QED BY <2>1, <2>2
<1> HIDE DEF h, d
<1> DEFINE t == (h * ns + 999) \div 1000
<1>2. t \in 0 .. 200 /\ t * 2000 >= d * ns
  <2>1. CASE ns = 8
    BY <1>1, <2>1
  <2>2. CASE ns = 10
    BY <1>1, <2>2
  <2>3. CASE ns = 15
    BY <1>1, <2>3
  <2>4. CASE ns = 24
    BY <1>1, <2>4
  <2>5. CASE ns = 27
    BY <1>1, <2>5
  <2>6. CASE ns = 42
    BY <1>1, <2>6
  <2>7. CASE ns = 50
    BY <1>1, <2>7
  <2>8. CASE ns = 70
    BY <1>1, <2>8
  <2>9. CASE ns = 210
    BY <1>1, <2>9
  <2> QED BY <2>1, <2>2, <2>3, <2>4, <2>5, <2>6, <2>7, <2>8, <2>9 DEF Times
<1>3. ns_to_t(c, ns) = t
  BY DEF ns_to_t, h
<1> HIDE DEF t
<1> DEFINE a == AtLeast(t, n)
<1>4. a \in 0 .. 200 /\ a >= t
  BY <1>2 DEF AtLeast
<1> HIDE DEF a
<1>5. a % w = a
  BY <1>4 DEF Widths
<1>6. a * 2000 >= d * ns
  <2>1. a * 2000 >= t * 2000 /\ t * 2000 \in Int
    BY <1>2, <1>4
  <2>2. d * ns \in Int
    BY <1>1 DEF Times
  <2> QED BY <1>2, <1>4, <2>1, <2>2
<1>7. AtLeast(ns_to_t(c, ns), n) % w = a
  BY <1>3, <1>5 DEF a
<1> QED BY <1>6, <1>7 DEF d, Covered

LEMMA AllCovered ==
  ASSUME NEW c \in MHz
  PROVE  CyclesCover(c)
<1> SUFFICES ASSUME NEW t \in DOMAIN MinTimes PROVE Cycles(c, t) * 2000 >= DramClk(c) * MinTimes[t]
  BY DEF CyclesCover
<1> DEFINE w == IF t = "trfc" THEN 65536 ELSE 256
           ns == MinTimes[t]
           n == MinCycles[t]
<1>0. t \in {"tfaw", "trrd", "trcd", "trc", "txp", "twtr", "trtp", "twr", "trp", "tras", "trfc"}
  BY DEF MinTimes
<1>1. ns \in Times /\ n \in 0 .. 4
  <2>1. CASE t = "tfaw"
    BY <2>1 DEF MinTimes, MinCycles, Times
  <2>2. CASE t = "trrd"
    BY <2>2 DEF MinTimes, MinCycles, Times
  <2>3. CASE t = "trcd"
    BY <2>3 DEF MinTimes, MinCycles, Times
  <2>4. CASE t = "trc"
    BY <2>4 DEF MinTimes, MinCycles, Times
  <2>5. CASE t = "txp"
    BY <2>5 DEF MinTimes, MinCycles, Times
  <2>6. CASE t = "twtr"
    BY <2>6 DEF MinTimes, MinCycles, Times
  <2>7. CASE t = "trtp"
    BY <2>7 DEF MinTimes, MinCycles, Times
  <2>8. CASE t = "twr"
    BY <2>8 DEF MinTimes, MinCycles, Times
  <2>9. CASE t = "trp"
    BY <2>9 DEF MinTimes, MinCycles, Times
  <2>10. CASE t = "tras"
    BY <2>10 DEF MinTimes, MinCycles, Times
  <2>11. CASE t = "trfc"
    BY <2>11 DEF MinTimes, MinCycles, Times
  <2> QED BY <1>0, <2>1, <2>2, <2>3, <2>4, <2>5, <2>6, <2>7, <2>8, <2>9, <2>10, <2>11
<1>2. w \in Widths
  <2>1. CASE t = "trfc"
    BY <2>1 DEF Widths
  <2>2. CASE t # "trfc"
    BY <2>2 DEF Widths
  <2> QED BY <2>1, <2>2
<1>3. Cycles(c, t) = AtLeast(ns_to_t(c, ns), n) % w
  BY DEF Cycles
<1> HIDE DEF w, ns, n
<1>4. Covered(c, ns, n, w)
  BY <1>1, <1>2, TimeCovered
<1> QED BY <1>3, <1>4 DEF ns, Covered

(* At every clock from 100 to 1000 MHz the cycles in the timing registers  *)
(* last as long as the chip needs, none cut off by the width of its field, *)
(* at the clock the PLL makes of the one asked for.  (ns_to_t and          *)
(* mctl_set_timing_params of lpddr3_stock.c, clock_set_pll11)              *)
THEOREM CyclesAlwaysCover == Spec => [](DramClk(clk) <= clk /\ CyclesCover(clk))
<1>1. ASSUME DramInv PROVE DramClk(clk) <= clk /\ CyclesCover(clk)
  <2>1. clk \in MHz
    BY <1>1, ClkAssumption DEF DramInv, StateTypes, MHz
  <2> QED BY <2>1, PllFacts, AllCovered
<1> QED BY <1>1, DramInvHolds, PTL

(* With the clock the build configures, refresh also comes in time.  It    *)
(* does not at every other one: at 492 MHz the interval is rounded up by   *)
(* more than the rounding down to 32 cycles takes back.  (trefi of         *)
(* mctl_set_timing_params, CONFIG_DRAM_CLK of configure.php)               *)
THEOREM TimingsAlwaysCover ==
  ASSUME Clks = {552}
  PROVE  Spec => []TimingsCover
<1>1. ASSUME DramInv PROVE TimingsCover
  <2>1. clk = 552
    BY <1>1 DEF DramInv, StateTypes
  <2>2. DramClk(clk) = 552
    BY <2>1 DEF DramClk, clock_set_pll11
  <2>3. trefi(clk) = 33
    BY <2>1 DEF trefi, ns_to_t
  <2>4. CyclesCover(clk)
    BY <2>1, AllCovered DEF MHz
  <2>5. trefi(clk) * 32 * 2000 <= DramClk(clk) * 3900 /\ trefi(clk) > 0 /\ DramClk(clk) <= clk
    BY <2>1, <2>2, <2>3
  <2> QED BY <2>4, <2>5 DEF TimingsCover, CyclesCover
<1> QED BY <1>1, DramInvHolds, PTL
=============================================================================
