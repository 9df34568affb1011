--------------------------- MODULE ConfToolProofs ---------------------------
(***************************************************************************)
(* Proofs about p-boot-conf (ConfTool): for every boot.conf and files/     *)
(* directory the tool, which reads one line after the other, refuses       *)
(* exactly what is wrong as a whole, before it opens the target; stopped   *)
(* anywhere it leaves no block that leads to data it has not written; and  *)
(* once it returns 0 the bootloader reads back what the tool was told.     *)
(***************************************************************************)
EXTENDS ConfTool, FiniteSetTheorems, WellFoundedInduction, SequenceTheorems, TLAPS

(* The sections that lines 1 .. l - 1 of c open, and those they close. *)
Opened(c, l) == {n \in Numbers(c) : n < l}
Closed(c, l) == {n \in Numbers(c) : \E m \in Numbers(c) : n < m /\ m < l}

Span(n, l) == n + 1 .. l - 1

(* The last name= of lines n + 1 .. l - 1 is not empty. *)
NameIn(c, n, l) ==
  \E k \in Span(n, l) : /\ c[k].key = "name" /\ c[k].val # ""
                            /\ \A j \in Span(n, l) : c[j].key = "name" => j <= k

ImageOf  == [type : image_types, file : {Real[p] : p \in DOMAIN Real}]
ConfType == [index : Slots, name : BOOLEAN, images : Seq(ImageOf)]

(* conf is what lines n .. l - 1 say, n being the last no= before l. *)
Reads(c, n, l) ==
  /\ conf \in ConfType /\ conf.index = c[n].val
  /\ conf.name <=> NameIn(c, n, l)
  /\ \A t \in image_types : (\E k \in DOMAIN conf.images : conf.images[k].type = t)
                              <=> (\E k \in Span(n, l) : c[k].key = t)
  /\ \A j, k \in Span(n, l) : c[j].key \in image_types /\ c[j].key = c[k].key => j = k
  /\ \A k \in Span(n, l) : c[k].key \in image_types => Real[c[k].val] # "none"

(* The parts of what is known of the lines read so far. *)
Prologue(c, l) == conf = NoConf => \A k \in 1 .. l - 1 : c[k].key \in {"junk", "device_id"}
DeviceIds(c, l) ==
  /\ device_id <=> \E k \in 1 .. l - 1 : c[k].key = "device_id"
  /\ \A j, k \in 1 .. l - 1 : c[j].key = "device_id" /\ c[k].key = "device_id" => j = k /\ c[j].val = "short"
LinesOwned(c, l) == \A k \in 1 .. l - 1 : c[k].key \notin {"junk", "device_id"} => \E n \in Numbers(c) : n <= k
LastSection(c, l) == conf # NoConf => \E n \in Opened(c, l) : (\A m \in Opened(c, l) : m <= n) /\ Reads(c, n, l)
Completed(c, l) ==
  /\ \A n \in Opened(c, l) : c[n].val \in Slots
  /\ \A n \in Closed(c, l) : ValidSection(c, n)
  /\ \A m, n \in Closed(c, l) : c[m].val = c[n].val => m = n
  /\ DOMAIN confs = Slots
  /\ \A s \in Slots : confs[s] # NoConf <=> \E n \in Closed(c, l) : c[n].val = s
Parsed(c, l) == Prologue(c, l) /\ DeviceIds(c, l) /\ LinesOwned(c, l) /\ LastSection(c, l) /\ Completed(c, l)

(* The entries of files/ taken among the first l - 1. *)
Taken(d, l) == {k \in 1 .. l - 1 : d[k].kind # "other"}
Listing(d, l) ==
  /\ files \in Seq([name : {d[k].name : k \in DOMAIN d}, file : {Real[d[k].path] : k \in DOMAIN d}])
  /\ Len(files) = Cardinality(Taken(d, l)) /\ Len(files) <= MaxFiles
  /\ \A k \in Taken(d, l) : d[k].kind = "short"

Accepted == Valid(input.conf) /\ ValidDir(input.dir)
Untouched == dev = input.old /\ pending = {}

ToolTypes ==
  /\ input \in [conf : BootConfs, dir : Dirs, target : Targets, old : OldDevs]
  /\ pc \in {"parse", "include", "data", "tables", "done", "failed", "lost"}
Parsing == pc = "parse" =>
  Untouched /\ files = <<>> /\ line \in 1 .. Len(input.conf) + 1 /\ Parsed(input.conf, line)
Including == pc = "include" =>
  Untouched /\ line \in 1 .. Len(input.dir) + 1 /\ Valid(input.conf) /\ Listing(input.dir, line)
Writing == pc \in {"data", "tables"} => Accepted /\ pending # {}
Ended ==
  /\ pc \in {"done", "lost"} => Accepted
  /\ pc = "failed" => (~Accepted /\ Untouched) \/ (Accepted /\ pending # {})
RefuseInv == ToolTypes /\ Parsing /\ Including /\ Writing /\ Ended
-----------------------------------------------------------------------------
IsConf(c) ==
  /\ Len(c) \in Nat /\ DOMAIN c = 1 .. Len(c)
  /\ \A k \in DOMAIN c : c[k].key \in image_types => c[k].val \in DOMAIN Real

LEMMA SlotNumbers == NSlots \in Nat /\ Slots \subseteq Nat /\ \A s \in Slots : s # -1
BY LayoutAssumption DEF Slots

LEMMA NoConfOpen ==
  ASSUME NEW x \in ConfType
  PROVE  x # NoConf /\ x.index \in Slots
<1>1. x.index \in Slots /\ x.index # -1
  BY SlotNumbers DEF ConfType
<1> QED BY <1>1 DEF NoConf

(* A section reaches from its no= to the next, or to the end. *)
LEMMA SectionRange ==
  ASSUME NEW c, IsConf(c), NEW n \in Numbers(c), NEW e \in 1 .. Len(c) + 1, n < e,
         e \in Numbers(c) \/ e = Len(c) + 1, \A m \in Opened(c, e) : m <= n
  PROVE  Section(c, n) = n + 1 .. e - 1
<1>1. Len(c) \in Nat /\ DOMAIN c = 1 .. Len(c) /\ Numbers(c) \subseteq 1 .. Len(c)
  BY DEF IsConf, Numbers
<1>2. ASSUME NEW k \in Section(c, n) PROVE k \in n + 1 .. e - 1
  <2>1. k \in 1 .. Len(c) /\ k > n /\ \A m \in Numbers(c) : m > n => k < m
    BY <1>1 DEF Section
  <2>2. k < e
    BY <1>1, <2>1
  <2> QED BY <1>1, <2>1, <2>2
<1>3. ASSUME NEW k \in n + 1 .. e - 1 PROVE k \in Section(c, n)
  <2>1. k \in 1 .. Len(c) /\ k > n /\ k < e
    BY <1>1
  <2>2. ASSUME NEW m \in Numbers(c), m > n PROVE k < m
    <3>1. m \notin Opened(c, e)
      BY <1>1, <2>2
    <3>2. m >= e
      BY <1>1, <3>1 DEF Opened
    <3> QED BY <1>1, <2>1, <3>2
  <2> QED BY <1>1, <2>1, <2>2 DEF Section
<1> QED BY <1>2, <1>3

(* complete_conf() accepts exactly a valid section with an unused number. *)
LEMMA CompleteIff ==
  ASSUME NEW c, IsConf(c), NEW e \in 1 .. Len(c) + 1, NEW n \in Opened(c, e),
         e \in Numbers(c) \/ e = Len(c) + 1, \A m \in Opened(c, e) : m <= n,
         Reads(c, n, e), Completed(c, e)
  PROVE  Complete(conf) <=> ValidSection(c, n) /\ \A m \in Closed(c, e) : c[m].val # c[n].val
<1>1. n \in Numbers(c) /\ n < e
  BY DEF Opened
<1>2. Section(c, n) = Span(n, e)
  BY <1>1, SectionRange DEF Span
<1>3. Named(c, n) <=> conf.name
  BY <1>2 DEF Named, NameIn, Reads
<1>4. Images(c, n) = {k \in Span(n, e) : c[k].key \in image_types}
  BY <1>2 DEF Images
<1>5. /\ \A j, k \in Images(c, n) : c[j].key = c[k].key => j = k
      /\ \A k \in Images(c, n) : Real[c[k].val] # "none"
  BY <1>4 DEF Reads
<1>6. (\A t \in image_types \ Optional : \E k \in Images(c, n) : c[k].key = t)
        <=> (\A t \in image_types \ Optional : \E k \in DOMAIN conf.images : conf.images[k].type = t)
  <2>1. \A t \in image_types : (\E k \in Images(c, n) : c[k].key = t) <=> (\E k \in Span(n, e) : c[k].key = t)
    BY <1>4
  <2> QED BY <2>1 DEF Reads
<1>7. ValidSection(c, n)
        <=> conf.name /\ \A t \in image_types \ Optional : \E k \in DOMAIN conf.images : conf.images[k].type = t
  BY <1>3, <1>5, <1>6 DEF ValidSection
<1>8. confs[conf.index] = NoConf <=> \A m \in Closed(c, e) : c[m].val # c[n].val
  <2>1. conf.index \in Slots /\ conf.index = c[n].val
    BY NoConfOpen DEF Reads
  <2> QED BY <2>1 DEF Completed
<1> QED BY <1>7, <1>8 DEF Complete

(* At the end of a section only the one just read is not closed yet. *)
LEMMA OneOpen ==
  ASSUME NEW c, IsConf(c), NEW e, NEW n \in Opened(c, e), e \in Nat, \A m \in Opened(c, e) : m <= n
  PROVE  Opened(c, e) = Closed(c, e) \cup {n} /\ n \notin Closed(c, e)
<1>1. Numbers(c) \subseteq Nat
  BY DEF Numbers, IsConf
<1> QED BY <1>1 DEF Opened, Closed

LEMMA NoOpen ==
  ASSUME NEW c, IsConf(c), NEW l \in 1 .. Len(c) + 1, conf = NoConf, Prologue(c, l)
  PROVE  Opened(c, l) = {} /\ Closed(c, l) = {}
<1>1. Numbers(c) \subseteq 1 .. Len(c) /\ Len(c) \in Nat
  BY DEF Numbers, IsConf
<1>2. ASSUME NEW n \in Opened(c, l) PROVE FALSE
  <2>1. n \in 1 .. l - 1 /\ c[n].key = "no"
    BY <1>1 DEF Opened, Numbers
  <2> QED BY <2>1 DEF Prologue
<1>3. Closed(c, l) \subseteq Opened(c, l)
  BY <1>1 DEF Opened, Closed
<1> QED BY <1>2, <1>3
-----------------------------------------------------------------------------
(* What a line does to the sections. *)
LEMMA SameSections ==
  ASSUME NEW c, IsConf(c), NEW l \in 1 .. Len(c), c[l].key # "no"
  PROVE  Opened(c, l + 1) = Opened(c, l) /\ Closed(c, l + 1) = Closed(c, l)
<1>1. Numbers(c) \subseteq 1 .. Len(c) /\ Len(c) \in Nat /\ l \notin Numbers(c)
  BY DEF Numbers, IsConf
<1>2. \A m \in Numbers(c) : m < l + 1 <=> m < l
  BY <1>1
<1> QED BY <1>2 DEF Opened, Closed

LEMMA NewSection ==
  ASSUME NEW c, IsConf(c), NEW l \in 1 .. Len(c), c[l].key = "no"
  PROVE  Opened(c, l + 1) = Opened(c, l) \cup {l} /\ Closed(c, l + 1) = Opened(c, l)
<1>1. Numbers(c) \subseteq 1 .. Len(c) /\ Len(c) \in Nat /\ l \in Numbers(c)
  BY DEF Numbers, IsConf
<1>2. \A m \in Numbers(c) : m < l + 1 <=> m < l \/ m = l
  BY <1>1
<1>3. Opened(c, l + 1) = Opened(c, l) \cup {l}
  BY <1>1, <1>2 DEF Opened
<1>4. ASSUME NEW n \in Numbers(c) PROVE (\E m \in Numbers(c) : n < m /\ m < l + 1) <=> n < l
  BY <1>1, <1>2
<1>5. Closed(c, l + 1) = Opened(c, l)
  BY <1>4 DEF Opened, Closed
<1> QED BY <1>3, <1>5

LEMMA PrologueStep ==
  ASSUME NEW c, IsConf(c), NEW l \in 1 .. Len(c), Prologue(c, l), LastSection(c, l), Accepts(c[l]), parse_line(c[l])
  PROVE  Prologue(c, l + 1)'
<1> SUFFICES ASSUME conf' = NoConf, NEW k \in 1 .. l PROVE c[k].key \in {"junk", "device_id"}
  BY DEF Prologue, IsConf
<1>1. conf = NoConf => \A j \in 1 .. l - 1 : c[j].key \in {"junk", "device_id"}
  BY DEF Prologue
<1>2. conf # NoConf => conf \in ConfType
  BY DEF LastSection, Reads
<1>3. c[l].key # "no"
  <2> SUFFICES ASSUME c[l].key = "no" PROVE FALSE
    OBVIOUS
  <2>1. conf' = NewConf(c[l].val) /\ c[l].val \in Slots
    BY DEF parse_line, Accepts, image_types
  <2>2. conf'.index = c[l].val /\ conf'.index = -1
    BY <2>1 DEF NewConf, NoConf
  <2> QED BY <2>1, <2>2, SlotNumbers
<1>4. conf # NoConf => conf'.index = conf.index
  BY <1>2, <1>3 DEF parse_line, ConfType, image_types
<1>5. conf = NoConf
  BY <1>2, <1>4, NoConfOpen, SlotNumbers DEF NoConf
<1>6. c[l].key \in {"junk", "device_id"}
  BY <1>3, <1>5 DEF Accepts, image_types
<1>7. k = l \/ k \in 1 .. l - 1
  BY DEF IsConf
<1> QED BY <1>1, <1>5, <1>6, <1>7

LEMMA DeviceStep ==
  ASSUME NEW c, IsConf(c), NEW l \in 1 .. Len(c), DeviceIds(c, l), Accepts(c[l]), parse_line(c[l])
  PROVE  DeviceIds(c, l + 1)'
<1>1. 1 .. l + 1 - 1 = (1 .. l - 1) \cup {l} /\ l \notin 1 .. l - 1
  BY DEF IsConf
<1>2. device_id' <=> device_id \/ c[l].key = "device_id"
  BY DEF parse_line
<1>3. c[l].key = "device_id" => ~device_id /\ c[l].val = "short"
  BY DEF Accepts, image_types
<1>4. device_id <=> \E k \in 1 .. l - 1 : c[k].key = "device_id"
  BY DEF DeviceIds
<1>5. \A j, k \in 1 .. l - 1 : c[j].key = "device_id" /\ c[k].key = "device_id" => j = k /\ c[j].val = "short"
  BY DEF DeviceIds
<1>6. device_id' <=> \E k \in 1 .. l + 1 - 1 : c[k].key = "device_id"
  BY <1>1, <1>2, <1>4
<1>7. \A j, k \in 1 .. l + 1 - 1 : c[j].key = "device_id" /\ c[k].key = "device_id" => j = k /\ c[j].val = "short"
  BY <1>1, <1>3, <1>4, <1>5
<1> QED BY <1>6, <1>7 DEF DeviceIds

LEMMA OwnedStep ==
  ASSUME NEW c, IsConf(c), NEW l \in 1 .. Len(c), LinesOwned(c, l), LastSection(c, l), Accepts(c[l])
  PROVE  LinesOwned(c, l + 1)
<1> SUFFICES ASSUME NEW k \in 1 .. l, c[k].key \notin {"junk", "device_id"} PROVE \E n \in Numbers(c) : n <= k
  BY DEF LinesOwned, IsConf
<1>1. CASE k \in 1 .. l - 1
  BY <1>1 DEF LinesOwned
<1>2. CASE k = l /\ c[l].key = "no"
  BY <1>2 DEF Numbers, IsConf
<1>3. CASE k = l /\ c[l].key # "no"
  <2>1. conf # NoConf
    BY <1>3 DEF Accepts, image_types
  <2>2. PICK n \in Numbers(c) : n < l
    BY <2>1 DEF LastSection, Opened
  <2> QED BY <1>3, <2>2 DEF Numbers, IsConf
<1> QED BY <1>1, <1>2, <1>3 DEF IsConf

(* A line of a section adds to its configuration. *)
LEMMA ReadsStep ==
  ASSUME NEW c, IsConf(c), NEW l \in 1 .. Len(c), NEW n \in Opened(c, l), Reads(c, n, l), c[l].key # "no",
         Accepts(c[l]), parse_line(c[l])
  PROVE  Reads(c, n, l + 1)'
<1> DEFINE R == Span(n, l)
<1> DEFINE S == Span(n, l + 1)
<1> DEFINE key == c[l].key
<1>1. S = R \cup {l} /\ l \notin R /\ \A k \in R : k < l /\ ~(l <= k)
  BY DEF Opened, Numbers, IsConf, Span
<1>2. /\ conf \in ConfType /\ conf.index = c[n].val /\ (conf.name <=> NameIn(c, n, l))
      /\ \A t \in image_types : (\E k \in DOMAIN conf.images : conf.images[k].type = t) <=> (\E k \in R : c[k].key = t)
      /\ \A j, k \in R : c[j].key \in image_types /\ c[j].key = c[k].key => j = k
      /\ \A k \in R : c[k].key \in image_types => Real[c[k].val] # "none"
  BY DEF Reads
<1>3. /\ conf.name \in BOOLEAN /\ conf.images \in Seq(ImageOf)
      /\ conf = [index |-> conf.index, name |-> conf.name, images |-> conf.images]
  BY <1>2 DEF ConfType
<1>4. key \in image_types => /\ Real[c[l].val] # "none" /\ c[l].val \in DOMAIN Real
                             /\ \A k \in DOMAIN conf.images : conf.images[k].type # key
  BY DEF Accepts, image_types, IsConf
<1>5. /\ \A k \in S : c[k].key \in image_types => Real[c[k].val] # "none"
      /\ \A j, k \in S : c[j].key \in image_types /\ c[j].key = c[k].key => j = k
  <2>1. \A k \in S : c[k].key \in image_types => Real[c[k].val] # "none"
    BY <1>1, <1>2, <1>4
  <2>2. key \in image_types => \A k \in R : c[k].key # key
    BY <1>2, <1>4
  <2> QED BY <1>1, <1>2, <2>1, <2>2
<1> DEFINE Named2(T) == \E k \in T : c[k].key = "name" /\ c[k].val # "" /\ \A j \in T : c[j].key = "name" => j <= k
<1>8. (NameIn(c, n, l) <=> Named2(R)) /\ (NameIn(c, n, l + 1) <=> Named2(S))
  BY DEF NameIn
<1> HIDE DEF R, S
<1>6. CASE key \in image_types
  <2> DEFINE new == [type |-> key, file |-> Real[c[l].val]]
  <2>1. conf' = [conf EXCEPT !.images = Append(conf.images, new)]
    BY <1>6 DEF parse_line, image_types
  <2>2. new \in ImageOf
    BY <1>4, <1>6 DEF ImageOf
  <2>3. conf'.index = conf.index /\ conf'.name = conf.name /\ conf'.images = Append(conf.images, new)
    BY <1>3, <2>1
  <2>4. conf' \in ConfType
    <3> HIDE DEF new
    <3>1. Append(conf.images, new) \in Seq(ImageOf)
      BY <1>3, <2>2
    <3> QED BY <1>2, <2>1, <3>1 DEF ConfType
  <2>5. NameIn(c, n, l + 1) <=> NameIn(c, n, l)
    <3>1. key # "name"
      BY <1>6 DEF image_types
    <3> QED BY <1>1, <1>8, <3>1
  <2>6. ASSUME NEW t \in image_types
        PROVE  (\E k \in DOMAIN conf'.images : conf'.images[k].type = t) <=> (\E k \in S : c[k].key = t)
    <3> DEFINE old == conf.images
    <3>1. old \in Seq(ImageOf) /\ new.type = key /\ conf'.images = Append(old, new)
      BY <1>3, <2>3
    <3>2. (\E k \in DOMAIN old : old[k].type = t) <=> (\E k \in R : c[k].key = t)
      BY <1>2
    <3> HIDE DEF old, new
    <3>3. (\E k \in DOMAIN Append(old, new) : Append(old, new)[k].type = t)
            <=> (\E k \in DOMAIN old : old[k].type = t) \/ key = t
      <4>1. Len(old) \in Nat /\ DOMAIN old = 1 .. Len(old) /\ DOMAIN Append(old, new) = 1 .. Len(old) + 1
        BY <3>1
      <4>2. \A k \in 1 .. Len(old) : Append(old, new)[k] = old[k]
        BY <3>1
      <4>3. Append(old, new)[Len(old) + 1] = new
        BY <3>1
      <4>4. DOMAIN Append(old, new) = (DOMAIN old) \cup {Len(old) + 1}
        BY <4>1
      <4> QED BY <3>1, <4>1, <4>2, <4>3, <4>4
    <3> QED BY <1>1, <3>1, <3>2, <3>3
  <2> QED BY <1>2, <1>5, <2>3, <2>4, <2>5, <2>6 DEF Reads, S
<1>7. CASE key \notin image_types
  <2>1. \A t \in image_types : (\E k \in S : c[k].key = t) <=> (\E k \in R : c[k].key = t)
    BY <1>1, <1>7
  <2>2. CASE key = "name"
    <3>1. conf' = [conf EXCEPT !.name = (c[l].val # "")]
      BY <1>7, <2>2 DEF parse_line
    <3>2. conf'.index = conf.index /\ conf'.images = conf.images /\ (conf'.name <=> c[l].val # "")
      BY <1>3, <3>1
    <3>3. conf' \in ConfType
      BY <1>2, <3>1 DEF ConfType
    <3>4. NameIn(c, n, l + 1) <=> c[l].val # ""
      <4>1. \A k \in S : k <= l
        BY DEF S, Span, IsConf, Opened, Numbers
      <4>2. ASSUME Named2(S) PROVE c[l].val # ""
        BY <1>1, <2>2, <4>2
      <4>3. ASSUME c[l].val # "" PROVE Named2(S)
        BY <1>1, <2>2, <4>1, <4>3
      <4> QED BY <1>8, <4>2, <4>3
    <3>5. conf'.name <=> NameIn(c, n, l + 1)
      BY <3>2, <3>4
    <3>6. \A t \in image_types : (\E k \in DOMAIN conf'.images : conf'.images[k].type = t) <=> (\E k \in S : c[k].key = t)
      <4> DEFINE old == conf.images
      <4>1. conf'.images = old /\ \A t \in image_types : (\E k \in DOMAIN old : old[k].type = t) <=> (\E k \in R : c[k].key = t)
        BY <1>2, <3>2
      <4> HIDE DEF old, key, Named2
      <4> QED BY <2>1, <4>1, Zenon
    <3> HIDE DEF key, Named2
    <3> QED BY <1>2, <1>5, <3>2, <3>3, <3>5, <3>6, Zenon DEF Reads, S
  <2>3. CASE key # "name"
    <3>1. conf' = conf
      BY <1>7, <2>3 DEF parse_line
    <3>2. NameIn(c, n, l + 1) <=> NameIn(c, n, l)
      BY <1>1, <1>8, <2>3
    <3> QED BY <1>2, <1>5, <2>1, <3>1, <3>2 DEF Reads, S
  <2> QED BY <2>2, <2>3
<1> QED BY <1>6, <1>7

LEMMA LastStep ==
  ASSUME NEW c, IsConf(c), NEW l \in 1 .. Len(c), LastSection(c, l), Accepts(c[l]), parse_line(c[l])
  PROVE  LastSection(c, l + 1)'
<1>1. CASE c[l].key = "no"
  <2>1. conf' = NewConf(c[l].val) /\ c[l].val \in Slots
    BY <1>1 DEF parse_line, Accepts, image_types
  <2>2. l \in Opened(c, l + 1) /\ \A m \in Opened(c, l + 1) : m <= l
    BY <1>1, NewSection DEF Opened, Numbers, IsConf
  <2>3. Span(l, l + 1) = {}
    BY DEF IsConf, Span
  <2>4. conf' \in ConfType
    BY <2>1 DEF NewConf, ConfType
  <2>5. conf'.index = c[l].val /\ conf'.name = FALSE /\ conf'.images = <<>>
    BY <2>1 DEF NewConf
  <2>6. Reads(c, l, l + 1)'
    <3>1. ~NameIn(c, l, l + 1)
      BY <2>3 DEF NameIn
    <3>2. DOMAIN conf'.images = {}
      BY <2>5
    <3>3. conf'.name <=> NameIn(c, l, l + 1)
      BY <2>5, <3>1
    <3> QED BY <2>3, <2>4, <2>5, <3>2, <3>3, Zenon DEF Reads
  <2> QED BY <2>2, <2>6 DEF LastSection
<1>2. CASE c[l].key # "no"
  <2> SUFFICES ASSUME conf' # NoConf
               PROVE  \E n \in Opened(c, l + 1) : (\A m \in Opened(c, l + 1) : m <= n) /\ Reads(c, n, l + 1)'
    BY DEF LastSection, Opened
  <2>1. conf # NoConf
    <3>1. c[l].key \in image_types \/ c[l].key = "name" => conf # NoConf
      BY DEF Accepts, image_types
    <3>2. c[l].key \notin image_types /\ c[l].key # "name" => conf' = conf
      BY <1>2 DEF parse_line
    <3> QED BY <3>1, <3>2
  <2>2. PICK n \in Opened(c, l) : (\A m \in Opened(c, l) : m <= n) /\ Reads(c, n, l)
    BY <2>1 DEF LastSection
  <2>3. Reads(c, n, l + 1)'
    BY <1>2, <2>2, ReadsStep
  <2> QED BY <1>2, <2>2, <2>3, SameSections
<1> QED BY <1>1, <1>2

LEMMA CompletedStep ==
  ASSUME NEW c, IsConf(c), NEW l \in 1 .. Len(c), Prologue(c, l), LastSection(c, l), Completed(c, l),
         Accepts(c[l]), parse_line(c[l])
  PROVE  Completed(c, l + 1)'
<1>1. CASE c[l].key # "no"
  <2>1. confs' = confs /\ Opened(c, l + 1) = Opened(c, l) /\ Closed(c, l + 1) = Closed(c, l)
    BY <1>1, SameSections DEF parse_line
  <2> QED BY <2>1 DEF Completed
<1>2. CASE c[l].key = "no"
  <2>1. CanComplete /\ c[l].val \in Slots /\ confs' = complete_conf
    BY <1>2 DEF parse_line, Accepts, image_types
  <2>2. Opened(c, l + 1) = Opened(c, l) \cup {l} /\ Closed(c, l + 1) = Opened(c, l)
    BY <1>2, NewSection
  <2>3. CASE conf = NoConf
    <3>1. Opened(c, l) = {} /\ Closed(c, l) = {} /\ confs' = confs
      BY <2>1, <2>3, NoOpen DEF complete_conf, IsConf
    <3> QED BY <2>1, <2>2, <3>1 DEF Completed
  <2>4. CASE conf # NoConf
    <3>1. PICK n \in Opened(c, l) : (\A m \in Opened(c, l) : m <= n) /\ Reads(c, n, l)
      BY <2>4 DEF LastSection
    <3>2. l \in Numbers(c) /\ l \in 1 .. Len(c) + 1 /\ l \in Nat
      BY <1>2 DEF Numbers, IsConf
    <3>3. Complete(conf) <=> ValidSection(c, n) /\ \A m \in Closed(c, l) : c[m].val # c[n].val
      BY <3>1, <3>2, CompleteIff
    <3>4. ValidSection(c, n) /\ \A m \in Closed(c, l) : c[m].val # c[n].val
      BY <2>1, <2>4, <3>3 DEF CanComplete
    <3>5. Opened(c, l) = Closed(c, l) \cup {n}
      BY <3>1, <3>2, OneOpen
    <3>6. confs' = [confs EXCEPT ![c[n].val] = conf]
      BY <2>1, <2>4, <3>1 DEF complete_conf, Reads
    <3>7. \A s \in Slots : confs'[s] # NoConf <=> \E m \in Closed(c, l + 1) : c[m].val = s
      BY <2>2, <2>4, <3>5, <3>6 DEF Completed
    <3>8. /\ \A m \in Closed(c, l + 1) : ValidSection(c, m)
          /\ \A m, k \in Closed(c, l + 1) : c[m].val = c[k].val => m = k
          /\ \A m \in Opened(c, l + 1) : c[m].val \in Slots
          /\ DOMAIN confs' = Slots
      BY <2>1, <2>2, <3>4, <3>5, <3>6 DEF Completed
    <3> QED BY <3>7, <3>8 DEF Completed
  <2> QED BY <2>3, <2>4
<1> QED BY <1>1, <1>2
-----------------------------------------------------------------------------
(* What is refused is wrong. *)
LEMMA InSection ==
  ASSUME NEW c, IsConf(c), NEW l \in 1 .. Len(c), c[l].key # "no", NEW n \in Opened(c, l),
         \A m \in Opened(c, l) : m <= n
  PROVE  l \in Section(c, n) /\ Span(n, l) \subseteq Section(c, n)
<1>1. Len(c) \in Nat /\ DOMAIN c = 1 .. Len(c) /\ Numbers(c) \subseteq 1 .. Len(c) /\ l \notin Numbers(c)
  BY DEF IsConf, Numbers
<1>2. n \in Numbers(c) /\ n < l
  BY DEF Opened
<1>3. ASSUME NEW m \in Numbers(c), m > n PROVE l < m
  <2>1. m \notin Opened(c, l)
    BY <1>1, <1>2, <1>3
  <2> QED BY <1>1, <2>1 DEF Opened
<1>4. ASSUME NEW k \in n + 1 .. l PROVE k \in Section(c, n)
  <2>1. k \in 1 .. Len(c) /\ k > n /\ k <= l
    BY <1>1, <1>2
  <2>2. \A m \in Numbers(c) : m > n => k < m
    BY <1>1, <1>3, <2>1
  <2> QED BY <1>1, <2>1, <2>2 DEF Section
<1>5. Span(n, l) \subseteq n + 1 .. l /\ l \in n + 1 .. l
  BY <1>1, <1>2 DEF Span
<1> QED BY <1>4, <1>5

LEMMA RejectedSection ==
  ASSUME NEW c, IsConf(c), NEW e \in 1 .. Len(c) + 1, e \in Numbers(c) \/ e = Len(c) + 1, Parsed(c, e), ~CanComplete
  PROVE  ~Valid(c)
<1>1. conf # NoConf /\ ~Complete(conf)
  BY DEF CanComplete
<1>2. PICK n \in Opened(c, e) : (\A m \in Opened(c, e) : m <= n) /\ Reads(c, n, e)
  BY <1>1 DEF Parsed, LastSection
<1>3. Complete(conf) <=> ValidSection(c, n) /\ \A m \in Closed(c, e) : c[m].val # c[n].val
  BY <1>2, CompleteIff DEF Parsed
<1>4. n \in Numbers(c) /\ n \notin Closed(c, e) /\ \A m \in Closed(c, e) : m \in Numbers(c)
  BY <1>2, OneOpen DEF Opened, Closed, IsConf
<1> QED BY <1>1, <1>3, <1>4 DEF Valid

LEMMA RejectedLine ==
  ASSUME NEW c, IsConf(c), NEW l \in 1 .. Len(c), Parsed(c, l), ~Accepts(c[l])
  PROVE  ~Valid(c)
<1> SUFFICES ASSUME Valid(c) PROVE FALSE
  OBVIOUS
<1>1. l \in DOMAIN c /\ DOMAIN c = 1 .. Len(c) /\ 1 .. l - 1 \subseteq DOMAIN c /\ l \notin 1 .. l - 1 /\ l \in 1 .. Len(c) + 1
  BY DEF IsConf
<1>2. c[l].key # "junk"
  BY DEF Accepts, image_types
<1>3. CASE c[l].key = "device_id"
  <2>1. device_id \/ c[l].val # "short"
    BY <1>3 DEF Accepts, image_types
  <2>2. \A j, k \in DOMAIN c : c[j].key = "device_id" /\ c[k].key = "device_id" => j = k /\ c[j].val = "short"
    BY DEF Valid
  <2>3. device_id => \E k \in 1 .. l - 1 : c[k].key = "device_id"
    BY DEF Parsed, DeviceIds
  <2> QED BY <1>1, <1>3, <2>1, <2>2, <2>3
<1>4. CASE c[l].key = "no"
  <2>1. ~CanComplete \/ c[l].val \notin Slots
    BY <1>4 DEF Accepts, image_types
  <2>2. l \in Numbers(c)
    BY <1>1, <1>4 DEF Numbers
  <2>3. c[l].val \in Slots
    BY <2>2 DEF Valid
  <2> QED BY <1>1, <2>1, <2>2, <2>3, RejectedSection
<1>5. CASE c[l].key \notin {"device_id", "no"}
  <2>1. conf # NoConf
    <3> SUFFICES ASSUME conf = NoConf PROVE FALSE
      OBVIOUS
    <3>1. Opened(c, l) = {}
      BY <1>1, NoOpen DEF Parsed
    <3>2. PICK n \in Numbers(c) : n <= l
      BY <1>1, <1>2, <1>5 DEF Valid
    <3>3. n # l /\ n \in 1 .. Len(c) /\ Len(c) \in Nat
      BY <1>5 DEF Numbers, IsConf
    <3> QED BY <3>1, <3>2, <3>3 DEF Opened
  <2>2. /\ c[l].key \in image_types
        /\ Real[c[l].val] = "none" \/ \E k \in DOMAIN conf.images : conf.images[k].type = c[l].key
    BY <1>2, <1>5, <2>1 DEF Accepts
  <2>3. PICK n \in Opened(c, l) : (\A m \in Opened(c, l) : m <= n) /\ Reads(c, n, l)
    BY <2>1 DEF Parsed, LastSection
  <2>4. l \in Section(c, n) /\ Span(n, l) \subseteq Section(c, n)
    BY <1>5, <2>3, InSection
  <2>5. ValidSection(c, n)
    BY DEF Valid, Opened
  <2>6. l \in Images(c, n) /\ \A k \in Span(n, l) : c[k].key = c[l].key => k \in Images(c, n)
    BY <2>2, <2>4 DEF Images
  <2>7. Real[c[l].val] # "none"
    BY <2>5, <2>6 DEF ValidSection
  <2>8. PICK k \in Span(n, l) : c[k].key = c[l].key
    BY <2>2, <2>3, <2>7 DEF Reads
  <2>9. k = l
    BY <2>5, <2>6, <2>8 DEF ValidSection
  <2>10. k < l
    BY <2>8 DEF Span, IsConf
  <2> QED BY <2>9, <2>10 DEF IsConf
<1> QED BY <1>3, <1>4, <1>5

(* What is accepted to the last line is right. *)
LEMMA AcceptedConf ==
  ASSUME NEW c, IsConf(c), Parsed(c, Len(c) + 1), CanComplete
  PROVE  Valid(c)
<1> DEFINE e == Len(c) + 1
<1>1. e \in 1 .. Len(c) + 1 /\ e \in Nat /\ DOMAIN c = 1 .. e - 1
  BY DEF IsConf
<1>2. Opened(c, e) = Numbers(c)
  BY DEF Opened, Numbers, IsConf
<1> HIDE DEF e
<1>3. Parsed(c, e) /\ e = Len(c) + 1
  BY DEF e
<1>4. /\ \A n \in Numbers(c) : ValidSection(c, n)
      /\ \A m, n \in Numbers(c) : c[m].val = c[n].val => m = n
  <2>1. CASE conf = NoConf
    BY <1>1, <1>2, <1>3, <2>1, NoOpen DEF Parsed
  <2>2. CASE conf # NoConf
    <3>1. PICK n \in Opened(c, e) : (\A m \in Opened(c, e) : m <= n) /\ Reads(c, n, e)
      BY <1>3, <2>2 DEF Parsed, LastSection
    <3>2. Complete(conf) <=> ValidSection(c, n) /\ \A m \in Closed(c, e) : c[m].val # c[n].val
      BY <1>1, <1>3, <3>1, CompleteIff DEF Parsed
    <3>3. ValidSection(c, n) /\ \A m \in Closed(c, e) : c[m].val # c[n].val
      BY <2>2, <3>2 DEF CanComplete
    <3>4. Numbers(c) = Closed(c, e) \cup {n}
      BY <1>1, <1>2, <3>1, OneOpen
    <3>5. /\ \A m \in Closed(c, e) : ValidSection(c, m)
          /\ \A m, k \in Closed(c, e) : c[m].val = c[k].val => m = k
      BY <1>3 DEF Parsed, Completed
    <3> QED BY <3>3, <3>4, <3>5
  <2> QED BY <2>1, <2>2
<1>5. \A n \in Numbers(c) : c[n].val \in Slots
  BY <1>2, <1>3 DEF Parsed, Completed
<1>6. \A k \in DOMAIN c : c[k].key \notin {"junk", "device_id"} => \E n \in Numbers(c) : n <= k
  BY <1>1, <1>3 DEF Parsed, LinesOwned
<1>7. \A j, k \in DOMAIN c : c[j].key = "device_id" /\ c[k].key = "device_id" => j = k /\ c[j].val = "short"
  BY <1>1, <1>3 DEF Parsed, DeviceIds
<1> QED BY <1>4, <1>5, <1>6, <1>7 DEF Valid
-----------------------------------------------------------------------------
(* files/: every entry read is taken or not a file. *)
IsDir(d) == Len(d) \in Nat /\ DOMAIN d = 1 .. Len(d)

LEMMA TakenMore ==
  ASSUME NEW d, IsDir(d), NEW l \in 1 .. Len(d)
  PROVE  /\ IsFiniteSet(Taken(d, l)) /\ Cardinality(Taken(d, l)) \in Nat
         /\ d[l].kind = "other" => Taken(d, l + 1) = Taken(d, l)
         /\ d[l].kind # "other" => /\ Taken(d, l + 1) = Taken(d, l) \cup {l}
                                   /\ Cardinality(Taken(d, l + 1)) = Cardinality(Taken(d, l)) + 1
<1>1. 1 .. (l + 1) - 1 = (1 .. l - 1) \cup {l} /\ l \notin 1 .. l - 1 /\ l \in Int /\ l - 1 \in Int
  BY DEF IsDir
<1>2. IsFiniteSet(1 .. l - 1)
  BY <1>1, FS_Interval
<1>3. IsFiniteSet(Taken(d, l))
  <2>1. Taken(d, l) \subseteq 1 .. l - 1
    BY DEF Taken
  <2> QED BY <1>2, <2>1, FS_Subset
<1>4. Cardinality(Taken(d, l)) \in Nat
  BY <1>3, FS_CardinalityType
<1>5. d[l].kind = "other" => Taken(d, l + 1) = Taken(d, l)
  BY <1>1 DEF Taken
<1>6. d[l].kind # "other" => Taken(d, l + 1) = Taken(d, l) \cup {l}
  BY <1>1 DEF Taken
<1>7. l \notin Taken(d, l)
  BY <1>1 DEF Taken
<1>8. Cardinality(Taken(d, l) \cup {l}) = Cardinality(Taken(d, l)) + 1
  BY <1>3, <1>7, FS_AddElement
<1> QED BY <1>3, <1>4, <1>5, <1>6, <1>8

LEMMA TakenAll ==
  ASSUME NEW d, IsDir(d)
  PROVE  Taken(d, Len(d) + 1) = {k \in DOMAIN d : d[k].kind # "other"} /\ Taken(d, 1) = {}
BY DEF Taken, IsDir

(* An entry that is refused makes the directory wrong. *)
LEMMA RejectedEntry ==
  ASSUME NEW d, IsDir(d), NEW l \in 1 .. Len(d), Listing(d, l), d[l].kind # "other",
         ~(d[l].kind = "short" /\ Len(files) < MaxFiles)
  PROVE  ~ValidDir(d)
<1> DEFINE some == {k \in DOMAIN d : d[k].kind # "other"}
<1>1. l \in some /\ Taken(d, l + 1) \subseteq some
  BY DEF Taken, IsDir
<1>2. CASE d[l].kind # "short"
  BY <1>1, <1>2 DEF ValidDir
<1>3. CASE ~(Len(files) < MaxFiles)
  <2>1. IsFiniteSet(some)
    <3>1. some \subseteq 1 .. Len(d) /\ IsFiniteSet(1 .. Len(d))
      BY FS_Interval DEF IsDir
    <3> QED BY <3>1, FS_Subset
  <2>2. Cardinality(Taken(d, l + 1)) <= Cardinality(some)
    BY <1>1, <2>1, FS_Subset
  <2>3. Cardinality(Taken(d, l + 1)) = Len(files) + 1 /\ Len(files) \in Nat
    BY TakenMore DEF Listing
  <2>4. Cardinality(some) \in Nat
    BY <2>1, FS_CardinalityType
  <2>5. ~(Cardinality(some) <= MaxFiles)
    BY <1>3, <2>2, <2>3, <2>4, InputAssumption
  <2> QED BY <2>5 DEF ValidDir
<1> QED BY <1>2, <1>3

LEMMA AcceptedDir ==
  ASSUME NEW d, IsDir(d), Listing(d, Len(d) + 1)
  PROVE  ValidDir(d)
BY TakenAll DEF Listing, ValidDir

LEMMA Inputs ==
  ASSUME ToolTypes
  PROVE  IsConf(input.conf) /\ IsDir(input.dir)
BY InputAssumption DEF ToolTypes, IsConf, IsDir
-----------------------------------------------------------------------------
LEMMA FileLimit == MaxFiles \in Nat
BY InputAssumption

LEMMA InitRefuse ==
  ASSUME Init
  PROVE  RefuseInv
<1>1. ToolTypes /\ pc = "parse" /\ Untouched /\ files = <<>> /\ line = 1
  BY DEF Init, ToolTypes, Untouched
<1>2. IsConf(input.conf)
  BY <1>1, Inputs
<1> DEFINE c == input.conf
<1>3. 1 .. 1 - 1 = {} /\ 1 \in 1 .. Len(c) + 1
  BY <1>2 DEF IsConf
<1>4. Opened(c, 1) = {} /\ Closed(c, 1) = {}
  BY <1>2 DEF Opened, Closed, Numbers, IsConf
<1>5. conf = NoConf /\ device_id = FALSE /\ confs = [n \in Slots |-> NoConf]
  BY DEF Init
<1> HIDE DEF c
<1>6. Prologue(c, 1) /\ DeviceIds(c, 1) /\ LinesOwned(c, 1) /\ LastSection(c, 1)
  BY <1>3, <1>5 DEF Prologue, DeviceIds, LinesOwned, LastSection
<1>7. Completed(c, 1)
  BY <1>4, <1>5 DEF Completed
<1>8. Parsed(c, 1)
  BY <1>6, <1>7 DEF Parsed
<1> QED BY <1>1, <1>3, <1>8 DEF RefuseInv, Parsing, Including, Writing, Ended, c

LEMMA ParseLineInv ==
  ASSUME RefuseInv, parse_conf
  PROVE  RefuseInv'
<1>1. /\ pc = "parse" /\ line \in 1 .. Len(input.conf) /\ input' = input
      /\ Untouched /\ files = <<>> /\ Parsed(input.conf, line) /\ IsConf(input.conf) /\ ToolTypes
  BY Inputs DEF parse_conf, RefuseInv, Parsing, ToolTypes, IsConf
<1>2. CASE ~Accepts(input.conf[line])
  <2>1. ~Valid(input.conf)
    BY <1>1, <1>2, RejectedLine
  <2>2. pc' = "failed" /\ dev' = dev /\ pending' = pending
    BY <1>2 DEF parse_conf, exit1, written
  <2> QED BY <1>1, <2>1, <2>2 DEF RefuseInv, ToolTypes, Parsing, Including, Writing, Ended, Accepted, Untouched
<1>3. CASE Accepts(input.conf[line])
  <2>1. /\ parse_line(input.conf[line]) /\ line' = line + 1 /\ pc' = pc /\ files' = files
        /\ dev' = dev /\ pending' = pending
    BY <1>3 DEF parse_conf, written
  <2>2. \A c, l : c = input.conf /\ l = line => Parsed(c, l + 1)'
    <3> SUFFICES ASSUME NEW c, NEW l, c = input.conf, l = line PROVE Parsed(c, l + 1)'
      OBVIOUS
    <3>1. /\ IsConf(c) /\ l \in 1 .. Len(c) /\ Accepts(c[l]) /\ parse_line(c[l])
          /\ Prologue(c, l) /\ DeviceIds(c, l) /\ LinesOwned(c, l) /\ LastSection(c, l) /\ Completed(c, l)
      BY <1>1, <1>3, <2>1 DEF Parsed
    <3>2. Prologue(c, l + 1)'
      BY <3>1, PrologueStep
    <3>3. DeviceIds(c, l + 1)'
      BY <3>1, DeviceStep
    <3>4. LinesOwned(c, l + 1)'
      BY <3>1, OwnedStep DEF LinesOwned, Numbers
    <3>5. LastSection(c, l + 1)'
      BY <3>1, LastStep
    <3>6. Completed(c, l + 1)'
      BY <3>1, CompletedStep
    <3> QED BY <3>2, <3>3, <3>4, <3>5, <3>6 DEF Parsed
  <2>3. Parsed(input.conf, line)'
    BY <1>1, <2>1, <2>2
  <2>4. line' \in 1 .. Len(input.conf) + 1
    BY <1>1, <2>1 DEF IsConf
  <2> QED BY <1>1, <2>1, <2>3, <2>4 DEF RefuseInv, ToolTypes, Parsing, Including, Writing, Ended, Untouched
<1> QED BY <1>2, <1>3

LEMMA ParseEndInv ==
  ASSUME RefuseInv, parse_end
  PROVE  RefuseInv'
<1>1. /\ pc = "parse" /\ line = Len(input.conf) + 1 /\ input' = input
      /\ Untouched /\ files = <<>> /\ Parsed(input.conf, line) /\ IsConf(input.conf) /\ IsDir(input.dir) /\ ToolTypes
  BY Inputs DEF parse_end, RefuseInv, Parsing
<1>2. CASE ~CanComplete
  <2>1. ~Valid(input.conf)
    <3>1. line \in 1 .. Len(input.conf) + 1
      BY <1>1 DEF IsConf
    <3> QED BY <1>1, <1>2, <3>1, RejectedSection
  <2>2. pc' = "failed" /\ dev' = dev /\ pending' = pending
    BY <1>2 DEF parse_end, exit1, written
  <2> QED BY <1>1, <2>1, <2>2 DEF RefuseInv, ToolTypes, Parsing, Including, Writing, Ended, Accepted, Untouched
<1>3. CASE CanComplete
  <2>1. Valid(input.conf)
    BY <1>1, <1>3, AcceptedConf
  <2>2. pc' = "include" /\ line' = 1 /\ files' = <<>> /\ dev' = dev /\ pending' = pending
    BY <1>1, <1>3 DEF parse_end, written
  <2>3. Listing(input.dir, line)'
    <3>1. Taken(input.dir, 1) = {} /\ Cardinality({}) = 0
      BY <1>1, TakenAll, FS_EmptySet
    <3>2. Taken(input.dir, line)' = {} /\ Len(files') = 0
      BY <1>1, <2>2, <3>1 DEF Taken
    <3>3. files' = <<>> /\ Len(files') <= MaxFiles
      BY <2>2, <3>2, FileLimit
    <3>4. \A d : files' \in Seq([name : {d[k].name : k \in DOMAIN d}, file : {Real[d[k].path] : k \in DOMAIN d}])
      BY <3>3
    <3>5. Len(files') = Cardinality(Taken(input.dir, line)')
      BY <3>1, <3>2
    <3> QED BY <3>2, <3>3, <3>4, <3>5 DEF Listing
  <2>4. line' \in 1 .. Len(input.dir) + 1
    BY <1>1, <2>2 DEF IsDir
  <2>5. Untouched'
    BY <1>1, <2>2 DEF Untouched
  <2> QED BY <1>1, <2>1, <2>2, <2>3, <2>4, <2>5 DEF RefuseInv, ToolTypes, Parsing, Including, Writing, Ended
<1> QED BY <1>2, <1>3

LEMMA IncludeInv ==
  ASSUME RefuseInv, include_files
  PROVE  RefuseInv'
<1> DEFINE d == input.dir
<1> DEFINE e == input.dir[line]
<1>1. /\ pc = "include" /\ line \in 1 .. Len(d) /\ input' = input
      /\ Untouched /\ Valid(input.conf) /\ Listing(d, line) /\ IsDir(d) /\ ToolTypes
  BY Inputs DEF include_files, RefuseInv, Including, IsDir
<1>2. CASE pc' = "failed" /\ e.kind # "other" /\ ~(e.kind = "short" /\ Len(files) < MaxFiles) /\ UNCHANGED <<dev, pending>>
  <2>1. ~ValidDir(d)
    BY <1>1, <1>2, RejectedEntry
  <2> QED BY <1>1, <1>2, <2>1 DEF RefuseInv, ToolTypes, Parsing, Including, Writing, Ended, Accepted, Untouched
<1>3. CASE pc' = pc /\ line' = line + 1 /\ UNCHANGED <<dev, pending>> /\ Listing(input.dir, line)'
  <2>1. line' \in 1 .. Len(d) + 1
    BY <1>1, <1>3 DEF IsDir
  <2> QED BY <1>1, <1>3, <2>1 DEF RefuseInv, ToolTypes, Parsing, Including, Writing, Ended, Accepted, Untouched
<1>4. CASE e.kind = "other" /\ line' = line + 1 /\ UNCHANGED <<pc, parsed, written>>
  <2>1. Taken(d, line + 1) = Taken(d, line) /\ files' = files /\ dev' = dev /\ pending' = pending
    BY <1>1, <1>4, TakenMore DEF parsed, written
  <2>2. Listing(input.dir, line)'
    BY <1>1, <1>4, <2>1 DEF Listing
  <2> QED BY <1>3, <1>4, <2>1, <2>2
<1>5. CASE /\ e.kind = "short" /\ Len(files) < MaxFiles /\ files' = Append(files, [name |-> e.name, file |-> Real[e.path]])
           /\ line' = line + 1 /\ UNCHANGED <<pc, written>>
  <2> DEFINE new == [name |-> e.name, file |-> Real[e.path]]
  <2> DEFINE T == [name : {d[k].name : k \in DOMAIN d}, file : {Real[d[k].path] : k \in DOMAIN d}]
  <2>1. files \in Seq(T) /\ new \in T
    BY <1>1 DEF Listing, IsDir
  <2>2. dev' = dev /\ pending' = pending /\ files' = Append(files, new)
    BY <1>5 DEF written
  <2>3. /\ Taken(d, line + 1) = Taken(d, line) \cup {line}
        /\ Cardinality(Taken(d, line + 1)) = Cardinality(Taken(d, line)) + 1
    <3>1. e.kind # "other"
      BY <1>5
    <3> QED BY <1>1, <3>1, TakenMore
  <2>4. files' \in Seq(T) /\ Len(files') = Len(files) + 1 /\ Len(files) \in Nat
    <3> HIDE DEF new, T
    <3> QED BY <2>1, <2>2
  <2>5. Len(files) = Cardinality(Taken(d, line)) /\ \A k \in Taken(d, line) : d[k].kind = "short"
    BY <1>1 DEF Listing
  <2>6. Taken(input.dir, line)' = Taken(d, line + 1)
    BY <1>1, <1>5 DEF Taken
  <2>7. Len(files') <= MaxFiles
    <3>1. Len(files) < MaxFiles /\ MaxFiles \in Nat
      BY <1>5, InputAssumption
    <3> QED BY <2>4, <3>1
  <2>8. Listing(input.dir, line)'
    <3>1. files' \in Seq(T')
      BY <1>1, <2>4
    <3>2. Len(files') = Cardinality(Taken(input.dir, line)')
      BY <2>3, <2>4, <2>5, <2>6
    <3>3. \A k \in Taken(input.dir, line)' : input'.dir[k].kind = "short"
      BY <1>1, <1>5, <2>3, <2>5, <2>6
    <3> QED BY <2>7, <3>1, <3>2, <3>3 DEF Listing
  <2> QED BY <1>3, <1>5, <2>2, <2>8
<1>6. \/ /\ e.kind = "other" /\ line' = line + 1 /\ UNCHANGED <<pc, parsed, written>>
      \/ /\ e.kind = "short" /\ Len(files) < MaxFiles /\ files' = Append(files, [name |-> e.name, file |-> Real[e.path]])
         /\ line' = line + 1 /\ UNCHANGED <<pc, written>>
      \/ /\ pc' = "failed" /\ e.kind # "other" /\ ~(e.kind = "short" /\ Len(files) < MaxFiles)
         /\ UNCHANGED <<dev, pending>>
  BY DEF include_files, exit1, written
<1> QED BY <1>2, <1>4, <1>5, <1>6

LEMMA WriteSbInv ==
  ASSUME RefuseInv, write_sb
  PROVE  RefuseInv'
<1>1. /\ pc = "include" /\ line = Len(input.dir) + 1 /\ input' = input /\ pc' = "data"
      /\ Valid(input.conf) /\ Listing(input.dir, line) /\ IsDir(input.dir) /\ ToolTypes
  BY Inputs DEF write_sb, RefuseInv, Including
<1>2. pending' # {}
  BY DEF write_sb
<1>3. ValidDir(input.dir)
  BY <1>1, AcceptedDir
<1> QED BY <1>1, <1>2, <1>3 DEF RefuseInv, ToolTypes, Parsing, Including, Writing, Ended, Accepted

(* Once the target is open nothing is refused any more. *)
LEMMA WriteInv ==
  ASSUME RefuseInv, write_data \/ data_end \/ write_table \/ finish \/ Killed \/ PowerLoss
  PROVE  RefuseInv'
<1>1. /\ pc \in {"data", "tables", "done"} \/ (pc = "failed" /\ pending # {})
      /\ input' = input /\ pc' \in {"data", "tables", "done", "failed", "lost"}
      /\ pc' \in {"data", "tables", "failed"} => pc \in {"data", "tables"}
  BY DEF write_data, data_end, write_table, finish, Killed, PowerLoss
<1>2. Accepted /\ Accepted'
  <2>1. Accepted
    BY <1>1 DEF RefuseInv, Writing, Ended, Untouched
  <2> QED BY <1>1, <2>1 DEF Accepted
<1>3. pc' \in {"data", "tables", "failed"} => pending' # {}
  <2>1. pc' \in {"data", "tables", "failed"} => pending # {}
    BY <1>1 DEF RefuseInv, Writing
  <2>2. CASE PowerLoss
    BY <2>2 DEF PowerLoss
  <2> QED BY <2>1, <2>2 DEF write_data, data_end, write_table, finish, Killed, write_checked, written
<1> QED BY <1>1, <1>2, <1>3 DEF RefuseInv, ToolTypes, Parsing, Including, Writing, Ended

LEMMA StepRefuse ==
  ASSUME RefuseInv, [Next]_cvars
  PROVE  RefuseInv'
<1>1. CASE UNCHANGED cvars
  <2>1. UNCHANGED <<input, pc, line, conf, device_id, confs, files, dev, pending>>
    BY <1>1 DEF cvars
  <2>2. Parsed(input.conf, line)' <=> Parsed(input.conf, line)
    BY <2>1 DEF Parsed, Prologue, DeviceIds, LinesOwned, LastSection, Reads, Completed
  <2>3. Listing(input.dir, line)' <=> Listing(input.dir, line)
    BY <2>1 DEF Listing
  <2> QED BY <2>1, <2>2, <2>3 DEF RefuseInv, ToolTypes, Parsing, Including, Writing, Ended, Accepted, Untouched
<1> QED BY <1>1, ParseLineInv, ParseEndInv, IncludeInv, WriteSbInv, WriteInv DEF Next

(* For every boot.conf, directory and target: parse_conf() and             *)
(* include_files() refuse exactly what is not valid as a whole, and what   *)
(* they refuse has cost nothing, the target was not opened.                *)
THEOREM RefusesExactly == Spec => []RefusesUntouched
<1>1. RefuseInv => RefusesUntouched
  BY DEF RefuseInv, ToolTypes, Parsing, Including, Writing, Ended, Accepted, Untouched, RefusesUntouched
<1> QED BY InitRefuse, StepRefuse, <1>1, PTL DEF Spec
-----------------------------------------------------------------------------
(* The layout: where the table and the data lie.                           *)
LEMMA Sizes ==
  /\ NSlots \in Nat /\ NSlots >= 1 /\ Block \in Nat /\ Block >= 1 /\ Sector \in Nat /\ Sector >= 1
  /\ PerBlock \in Nat /\ PerBlock >= 1 /\ DevSize \in Nat /\ DevSize >= 1 /\ MaxImage \in Nat
  /\ Block % Sector = 0 /\ DevSize % Sector = 0 /\ (NSlots + 1) * Block <= DevSize
  BY LayoutAssumption

(* Products are monotone in their first factor. *)
LEMMA Products ==
  ASSUME NEW a \in Nat, NEW b \in Nat, NEW c \in Nat, a < b
  PROVE  a * c \in Nat /\ b * c \in Nat /\ a * c + c <= b * c
<1>1. a * c \in Nat /\ b * c \in Nat /\ (b - a) \in Nat /\ b - a >= 1
  OBVIOUS
<1>2. b * c = a * c + (b - a) * c
  OBVIOUS
<1>3. (b - a) * c >= c
  BY <1>1
<1> QED BY <1>1, <1>2, <1>3

LEMMA TablePlaces ==
  ASSUME NEW s \in Slots
  PROVE  /\ TableAt(s) \in Nat /\ TableAt(s) >= Block /\ TableAt(s) + Block <= DataStart
         /\ DataStart \in Nat /\ DataStart <= DevSize
<1>1. s \in Nat /\ s + 1 \in Nat /\ NSlots + 1 \in Nat /\ s + 1 < NSlots + 1 /\ 0 < s + 1
  BY Sizes DEF Slots
<1>2. (s + 1) * Block \in Nat /\ (NSlots + 1) * Block \in Nat /\ (s + 1) * Block + Block <= (NSlots + 1) * Block
  BY <1>1, Sizes, Products
<1>3. 0 * Block + Block <= (s + 1) * Block /\ 0 * Block = 0
  BY <1>1, Sizes, Products
<1> QED BY <1>2, <1>3, Sizes DEF TableAt, DataStart

LEMMA TablesApart ==
  ASSUME NEW s \in Slots, NEW t \in Slots, s < t
  PROVE  TableAt(s) + Block <= TableAt(t)
<1>1. s + 1 \in Nat /\ t + 1 \in Nat /\ s + 1 < t + 1
  BY Sizes DEF Slots
<1> QED BY <1>1, Sizes, Products DEF TableAt

(* Division by the sector. *)
LEMMA Divided ==
  ASSUME NEW x \in Nat
  PROVE  /\ x \div Sector \in Nat /\ x = Sector * (x \div Sector) + (x % Sector) /\ x % Sector \in 0 .. Sector - 1
         /\ (x % Sector = 0 => x = (x \div Sector) * Sector)
<1>1. Sector \in Nat /\ Sector >= 1
  BY Sizes
<1>2. x \div Sector \in Nat
  BY <1>1
<1>3. x % Sector \in 0 .. Sector - 1
  BY <1>1
<1>4. x = Sector * (x \div Sector) + (x % Sector)
  BY <1>1
<1> QED BY <1>1, <1>2, <1>3, <1>4

LEMMA WholeSectors ==
  ASSUME NEW q \in Nat
  PROVE  q * Sector \in Nat /\ (q * Sector) % Sector = 0
<1>1. Sector \in Nat /\ Sector >= 1
  BY Sizes
<1> QED BY <1>1

LEMMA RoundupFacts ==
  ASSUME NEW n \in Nat
  PROVE  Roundup(n) \in Nat /\ Roundup(n) % Sector = 0 /\ Roundup(n) >= n
<1> DEFINE x == n + Sector - 1
           q == x \div Sector
<1>1. Sector \in Nat /\ Sector >= 1 /\ x \in Nat
  BY Sizes
<1>2. q \in Nat /\ x < Sector * q + Sector
  BY <1>1
<1> HIDE DEF q
<1>3. q * Sector \in Nat /\ (q * Sector) % Sector = 0 /\ q * Sector = Sector * q
  BY <1>1, <1>2, WholeSectors
<1>4. q * Sector >= n
  BY <1>1, <1>2, <1>3
<1> QED BY <1>3, <1>4 DEF Roundup, q

(* Whole sectors from a sector boundary on stay on the device.             *)
LEMMA RoundupInside ==
  ASSUME NEW off \in Nat, off % Sector = 0, NEW len \in Nat, off + len <= DevSize
  PROVE  off + Roundup(len) <= DevSize
<1> DEFINE x == len + Sector - 1
           q == x \div Sector
           a == off \div Sector
           b == DevSize \div Sector
<1>1. Sector \in Nat /\ Sector >= 1 /\ x \in Nat /\ DevSize \in Nat /\ DevSize % Sector = 0
  BY Sizes
<1>2. q \in Nat /\ Sector * q <= x
  BY <1>1
<1>3. a \in Nat /\ b \in Nat /\ off = a * Sector /\ DevSize = b * Sector
  BY <1>1, Divided
<1> HIDE DEF q, a, b
<1>4. (a + q) * Sector = a * Sector + q * Sector /\ q * Sector = Sector * q /\ a + q \in Nat
  BY <1>1, <1>2, <1>3
<1>5. a + q <= b
  <2>1. CASE b < a + q
    <3>1. b * Sector + Sector <= (a + q) * Sector
      BY <1>1, <1>3, <1>4, <2>1, Products
    <3> QED BY <1>1, <1>2, <1>3, <1>4, <3>1
  <2> QED BY <2>1, <1>3, <1>4
<1>6. (a + q) * Sector <= b * Sector
  <2>1. CASE a + q = b
    BY <2>1, <1>1, <1>3
  <2>2. CASE a + q < b
    BY <2>2, <1>1, <1>3, <1>4, Products
  <2> QED BY <1>5, <2>1, <2>2, <1>3, <1>4
<1>7. off + q * Sector <= DevSize
  BY <1>3, <1>4, <1>6
<1> QED BY <1>7 DEF Roundup, q

LEMMA DataStartAligned == DataStart \in Nat /\ DataStart % Sector = 0 /\ DataStart <= DevSize
<1> DEFINE b == Block \div Sector
<1>1. Block \in Nat /\ Sector \in Nat /\ NSlots + 1 \in Nat /\ b \in Nat /\ Block = b * Sector
  BY Sizes, Divided
<1> HIDE DEF b
<1>2. (NSlots + 1) * b \in Nat /\ (NSlots + 1) * Block = ((NSlots + 1) * b) * Sector
  BY <1>1
<1>3. (((NSlots + 1) * b) * Sector) % Sector = 0 /\ ((NSlots + 1) * b) * Sector \in Nat
  BY <1>2, WholeSectors
<1> QED BY <1>2, <1>3, Sizes DEF DataStart
-----------------------------------------------------------------------------
(* What is stored where.  FileType: the images of a configuration.         *)
FileType == [type : image_types, file : DOMAIN Body]
OpenType == [index : Slots, name : BOOLEAN, images : Seq(FileType)]
Names == UNION {{d[k].name : k \in DOMAIN d} : d \in Dirs}
DoneType == [index : Slots, name : {TRUE}, images : Seq(FileType)]
ImageAt(c, k) == [type |-> c[k].key, file |-> Real[c[k].val]]

(* The images of x are those that the lines S of c name.                   *)
ImageLines(c, S, x) ==
  /\ \A j \in DOMAIN x.images : \E k \in S : c[k].key \in image_types /\ x.images[j] = ImageAt(c, k)
  /\ \A k \in S : c[k].key \in image_types => \E j \in DOMAIN x.images : x.images[j] = ImageAt(c, k)
LastImages(c, l) ==
  conf # NoConf => /\ conf.images \in Seq(FileType)
                   /\ \A n \in Opened(c, l) : (\A m \in Opened(c, l) : m <= n) => ImageLines(c, Span(n, l), conf)
KeptImages(c, l) == \A n \in Closed(c, l) : ImageLines(c, Section(c, n), confs[c[n].val])
KeptAll(c) ==
  /\ \A s \in Slots : confs[s] # NoConf <=> \E n \in Numbers(c) : c[n].val = s
  /\ \A n \in Numbers(c) : c[n].val \in Slots /\ ImageLines(c, Section(c, n), confs[c[n].val])

(* Every file a configuration or the list of files names is to be stored.  *)
Stock == {data_list[i] : i \in DOMAIN data_list}
Stocked(x) == x # NoConf => \A j \in DOMAIN x.images : x.images[j].file \in Stock
FilesFrom(d, l) ==
  /\ \A i \in DOMAIN files : \E k \in Taken(d, l) : files[i] = [name |-> d[k].name, file |-> Real[d[k].path]]
  /\ \A i, j \in DOMAIN files : files[i].name = files[j].name => i = j
Supplied ==
  /\ \A s \in Slots : Stocked(confs[s])
  /\ \A i \in DOMAIN files : files[i].file \in Stock
  /\ \A i, j \in DOMAIN files : files[i].name = files[j].name => i = j

(* File f is where extent says, below the next free offset.                *)
Holds(f) ==
  LET e == extent[f] IN
  /\ e.off \in Nat /\ e.off >= DataStart /\ e.off % Sector = 0
  /\ e.len = Len(Payload(f)) /\ e.off + e.len <= off_i /\ e.off + e.len <= DevSize
  /\ \A k \in 1 .. e.len : dev[e.off + k - 1] = Payload(f)[k]
DataIn(n) == \A i \in 1 .. n : Holds(data_list[i])

(* The first m blocks of the table are this run's, the others untouched.   *)
Written(m) ==
  /\ \A s \in 0 .. m - 1 : dev[TableAt(s)] = TableBlock(s)
  /\ \A s \in m .. NSlots - 1 : /\ input.target = "regular" => dev[TableAt(s)] = Zeroed
                                /\ \A w \in pending : TableAt(s) \notin DOMAIN w

StoreTypes ==
  /\ device_id \in BOOLEAN /\ line \in Nat /\ conf \in {NoConf} \cup OpenType
  /\ confs \in [Slots -> {NoConf} \cup DoneType] /\ data_list \in Seq(DOMAIN Body)
  /\ files \in Seq([name : Names, file : DOMAIN Body]) /\ Len(files) <= MaxFiles
  /\ DOMAIN dev = Address /\ DOMAIN medium = Address /\ DOMAIN extent = DOMAIN Body
  /\ off_i \in Nat /\ off_i >= DataStart /\ off_i <= DevSize /\ off_i % Sector = 0
StoreParse == pc = "parse" =>
  /\ LastImages(input.conf, line) /\ KeptImages(input.conf, line)
  /\ Stocked(conf) /\ \A s \in Slots : Stocked(confs[s])
StoreInclude == pc = "include" => KeptAll(input.conf) /\ FilesFrom(input.dir, line) /\ Supplied
StoreData == pc = "data" =>
  /\ KeptAll(input.conf) /\ Supplied /\ dev[0] = SuperBlock(0)
  /\ line \in 1 .. Len(data_list) + 1 /\ Written(0) /\ DataIn(line - 1)
StoreTables == pc = "tables" =>
  /\ KeptAll(input.conf) /\ Supplied /\ dev[0] = SuperBlock(0)
  /\ line \in 0 .. NSlots /\ Written(line) /\ DataIn(Len(data_list))
StoreFailed == pc = "failed" /\ pending # {} =>
  /\ KeptAll(input.conf) /\ Supplied
  /\ \E m \in 0 .. NSlots : Written(m) /\ (m > 0 => DataIn(Len(data_list)))
StoreDone == pc = "done" =>
  /\ KeptAll(input.conf) /\ Supplied /\ dev[0] = SuperBlock(0)
  /\ Written(NSlots) /\ DataIn(Len(data_list)) /\ pending = {} /\ medium = dev
StoreInv == StoreTypes /\ StoreParse /\ StoreInclude /\ StoreData /\ StoreTables /\ StoreFailed /\ StoreDone
-----------------------------------------------------------------------------
LEMMA AddFile ==
  ASSUME NEW list \in Seq(DOMAIN Body), NEW f \in DOMAIN Body
  PROVE  /\ data_add_file(list, f) \in Seq(DOMAIN Body)
         /\ \E i \in DOMAIN data_add_file(list, f) : data_add_file(list, f)[i] = f
         /\ \A j \in DOMAIN list : \E i \in DOMAIN data_add_file(list, f) : data_add_file(list, f)[i] = list[j]
<1>1. CASE f \in Range(list)
  <2>1. data_add_file(list, f) = list
    BY <1>1 DEF data_add_file
  <2> QED BY <1>1, <2>1 DEF Range
<1>2. CASE f \notin Range(list)
  <2>1. data_add_file(list, f) = Append(list, f)
    BY <1>2 DEF data_add_file
  <2>2. /\ Append(list, f) \in Seq(DOMAIN Body) /\ Append(list, f)[Len(list) + 1] = f /\ Len(list) + 1 \in DOMAIN Append(list, f)
        /\ \A j \in DOMAIN list : j \in DOMAIN Append(list, f) /\ Append(list, f)[j] = list[j]
    OBVIOUS
  <2> QED BY <2>1, <2>2
<1> QED BY <1>1, <1>2

(* The images a line adds, and that the files they name are to be stored.  *)
LEMMA ImageLineStep ==
  ASSUME NEW c, IsConf(c), NEW l \in 1 .. Len(c), c[l].key \in image_types, Accepts(c[l]), parse_line(c[l]),
         StoreTypes, Stocked(conf), \A s \in Slots : Stocked(confs[s])
  PROVE  /\ conf # NoConf /\ conf \in OpenType /\ conf' \in OpenType /\ confs' = confs
         /\ conf'.images = Append(conf.images, ImageAt(c, l)) /\ conf'.name = conf.name /\ conf'.index = conf.index
         /\ data_list' \in Seq(DOMAIN Body) /\ Stocked(conf)' /\ (\A s \in Slots : Stocked(confs[s]))'
<1> DEFINE new == ImageAt(c, l)
           f == Real[c[l].val]
<1>1. conf # NoConf /\ f # "none" /\ c[l].val \in DOMAIN Real
  BY DEF Accepts, image_types, IsConf
<1>2. conf' = [conf EXCEPT !.images = Append(conf.images, new)] /\ confs' = confs /\ data_list' = data_add_file(data_list, f)
  BY DEF parse_line, image_types, ImageAt
<1>3. f \in DOMAIN Body
  BY <1>1, InputAssumption
<1>4. new \in FileType /\ new.file = f
  BY <1>3 DEF FileType, ImageAt
<1>5. conf \in OpenType /\ data_list \in Seq(DOMAIN Body)
  BY <1>1 DEF StoreTypes
<1>6. conf.images \in Seq(FileType) /\ conf.index \in Slots /\ conf.name \in BOOLEAN
  BY <1>5 DEF OpenType
<1> HIDE DEF new, f
<1>7. Append(conf.images, new) \in Seq(FileType)
  BY <1>4, <1>6
<1>8. /\ conf' \in OpenType /\ conf'.images = Append(conf.images, new)
      /\ conf'.name = conf.name /\ conf'.index = conf.index
  BY <1>2, <1>5, <1>7 DEF OpenType
<1>9. data_list' \in Seq(DOMAIN Body) /\ f \in Stock' /\ Stock \subseteq Stock'
  <2>1. data_list \in Seq(DOMAIN Body) /\ f \in DOMAIN Body
    BY <1>3, <1>5
  <2> DEFINE new2 == data_add_file(data_list, f)
  <2>2. /\ new2 \in Seq(DOMAIN Body) /\ (\E i \in DOMAIN new2 : new2[i] = f)
        /\ \A j \in DOMAIN data_list : \E i \in DOMAIN new2 : new2[i] = data_list[j]
    BY <2>1, AddFile
  <2>3. data_list' = new2
    BY <1>2
  <2> HIDE DEF new2
  <2>4. f \in Stock'
    BY <2>2, <2>3 DEF Stock
  <2>5. Stock \subseteq Stock'
    BY <2>2, <2>3 DEF Stock
  <2> QED BY <2>2, <2>3, <2>4, <2>5
<1>10. Stocked(conf)'
  <2>1. ASSUME NEW j \in DOMAIN conf'.images PROVE conf'.images[j].file \in Stock'
    <3> DEFINE old == conf.images
    <3>1. old \in Seq(FileType) /\ conf'.images = Append(old, new)
      BY <1>6, <1>8
    <3>2. \A i \in DOMAIN old : old[i].file \in Stock
      BY <1>1 DEF Stocked
    <3> HIDE DEF old
    <3>3. j \in DOMAIN Append(old, new)
      BY <3>1
    <3>4. (j \in DOMAIN old /\ Append(old, new)[j] = old[j]) \/ Append(old, new)[j] = new
      BY <3>1, <3>3
    <3> QED BY <1>4, <1>9, <3>1, <3>2, <3>4
  <2> QED BY <2>1 DEF Stocked
<1>11. (\A s \in Slots : Stocked(confs[s]))'
  BY <1>2, <1>9 DEF Stocked
<1> QED BY <1>1, <1>2, <1>5, <1>8, <1>9, <1>10, <1>11 DEF new

LEMMA OpenConf ==
  ASSUME NEW x \in OpenType
  PROVE  x # NoConf /\ x.index \in Slots /\ x.images \in Seq(FileType)
<1>1. x.index \in Slots /\ x.index # -1 /\ x.images \in Seq(FileType)
  BY SlotNumbers DEF OpenType
<1> QED BY <1>1 DEF NoConf

(* What complete_conf() keeps: the images of the section just read.        *)
LEMMA CompleteStore ==
  ASSUME NEW c, IsConf(c), NEW e \in 1 .. Len(c) + 1, e \in Numbers(c) \/ e = Len(c) + 1,
         Prologue(c, e), LastSection(c, e), Completed(c, e), CanComplete,
         conf \in {NoConf} \cup OpenType, confs \in [Slots -> {NoConf} \cup DoneType],
         LastImages(c, e), KeptImages(c, e), Stocked(conf), \A s \in Slots : Stocked(confs[s])
  PROVE  /\ complete_conf \in [Slots -> {NoConf} \cup DoneType]
         /\ \A s \in Slots : Stocked(complete_conf[s])
         /\ \A n \in Opened(c, e) : ImageLines(c, Section(c, n), complete_conf[c[n].val])
<1>1. CASE conf = NoConf
  <2>1. Opened(c, e) = {} /\ complete_conf = confs
    BY <1>1, NoOpen DEF complete_conf
  <2> QED BY <2>1
<1>2. CASE conf # NoConf
  <2>1. PICK n \in Opened(c, e) : (\A m \in Opened(c, e) : m <= n) /\ Reads(c, n, e)
    BY <1>2 DEF LastSection
  <2>2. conf \in OpenType /\ Complete(conf)
    BY <1>2 DEF CanComplete
  <2>3. conf.index \in Slots /\ conf.index = c[n].val
    BY <2>1, <2>2, OpenConf DEF Reads
  <2>4. complete_conf = [confs EXCEPT ![c[n].val] = conf]
    BY <1>2, <2>3 DEF complete_conf
  <2>5. conf \in DoneType
    BY <2>2 DEF OpenType, DoneType, Complete
  <2>6. complete_conf \in [Slots -> {NoConf} \cup DoneType]
    BY <2>3, <2>4, <2>5
  <2>7. \A s \in Slots : complete_conf[s] = conf \/ complete_conf[s] = confs[s]
    BY <2>4
  <2>8. \A s \in Slots : Stocked(complete_conf[s])
    BY <2>7
  <2>9. e \in Nat /\ n \in Numbers(c) /\ n < e
    BY <2>1 DEF Opened, IsConf
  <2>10. Section(c, n) = Span(n, e)
    BY <2>1, <2>9, SectionRange DEF Span
  <2>11. Opened(c, e) = Closed(c, e) \cup {n}
    BY <2>1, <2>9, OneOpen
  <2>12. ImageLines(c, Section(c, n), complete_conf[c[n].val])
    <3>1. ImageLines(c, Span(n, e), conf)
      BY <1>2, <2>1 DEF LastImages
    <3>2. complete_conf[c[n].val] = conf
      BY <2>3, <2>4
    <3> QED BY <2>10, <3>1, <3>2
  <2>13. ASSUME NEW m \in Closed(c, e) PROVE ImageLines(c, Section(c, m), complete_conf[c[m].val])
    <3>1. \A k \in Closed(c, e) : c[k].val # c[n].val
      BY <2>1, <2>2, CompleteIff
    <3>2. c[m].val \in Slots /\ c[m].val # c[n].val
      BY <2>11, <2>13, <3>1 DEF Completed
    <3>3. complete_conf[c[m].val] = confs[c[m].val]
      BY <2>4, <3>2
    <3> QED BY <2>13, <3>3 DEF KeptImages
  <2> QED BY <2>6, <2>8, <2>11, <2>12, <2>13
<1> QED BY <1>1, <1>2

(* The lines of a section one line later.                                  *)
LEMMA LongerSpan ==
  ASSUME NEW c, IsConf(c), NEW l \in 1 .. Len(c), NEW n \in Opened(c, l)
  PROVE  Span(n, l + 1) = Span(n, l) \cup {l}
<1>1. n \in Nat /\ l \in Nat /\ n < l
  BY DEF Opened, Numbers, IsConf
<1> QED BY <1>1 DEF Span

LEMMA LastImagesStep ==
  ASSUME NEW c, IsConf(c), NEW l \in 1 .. Len(c), Accepts(c[l]), parse_line(c[l]), c[l].key \in image_types,
         conf \in OpenType, conf'.images = Append(conf.images, ImageAt(c, l)),
         LastImages(c, l), ImageAt(c, l) \in FileType
  PROVE  LastImages(c, l + 1)'
<1> DEFINE old == conf.images
           new == ImageAt(c, l)
<1>1. conf # NoConf /\ old \in Seq(FileType)
  BY OpenConf
<1>2. c[l].key # "no" /\ Opened(c, l + 1) = Opened(c, l)
  BY SameSections DEF image_types
<1>3. new \in FileType /\ conf'.images = Append(old, new)
  OBVIOUS
<1>4. ASSUME NEW n \in Opened(c, l + 1), \A m \in Opened(c, l + 1) : m <= n
      PROVE  ImageLines(c, Span(n, l + 1), conf)'
  <2>1. ImageLines(c, Span(n, l), conf) /\ Span(n, l + 1) = Span(n, l) \cup {l}
    BY <1>1, <1>2, <1>4, LongerSpan DEF LastImages
  <2> HIDE DEF old, new
  <2>2. /\ \A j \in DOMAIN old : j \in DOMAIN Append(old, new) /\ Append(old, new)[j] = old[j]
        /\ Len(old) + 1 \in DOMAIN Append(old, new) /\ Append(old, new)[Len(old) + 1] = new
        /\ \A j \in DOMAIN Append(old, new) : (j \in DOMAIN old /\ Append(old, new)[j] = old[j]) \/ Append(old, new)[j] = new
    BY <1>1, <1>3
  <2>3. /\ \A j \in DOMAIN old : \E k \in Span(n, l) : c[k].key \in image_types /\ old[j] = ImageAt(c, k)
        /\ \A k \in Span(n, l) : c[k].key \in image_types => \E j \in DOMAIN old : old[j] = ImageAt(c, k)
    BY <2>1 DEF ImageLines, old
  <2>4. \A j \in DOMAIN Append(old, new) : \E k \in Span(n, l + 1) : c[k].key \in image_types /\ Append(old, new)[j] = ImageAt(c, k)
    BY <2>1, <2>2, <2>3 DEF new
  <2>5. \A k \in Span(n, l + 1) : c[k].key \in image_types => \E j \in DOMAIN Append(old, new) : Append(old, new)[j] = ImageAt(c, k)
    BY <2>1, <2>2, <2>3 DEF new
  <2> QED BY <1>3, <2>4, <2>5 DEF ImageLines
<1>5. conf'.images \in Seq(FileType)
  BY <1>1, <1>3
<1> QED BY <1>4, <1>5 DEF LastImages

(* A line that names no image.                                             *)
LEMMA PlainLineStep ==
  ASSUME NEW c, IsConf(c), NEW l \in 1 .. Len(c), c[l].key \notin image_types \cup {"no"},
         Accepts(c[l]), parse_line(c[l]), conf \in {NoConf} \cup OpenType, LastImages(c, l)
  PROVE  /\ confs' = confs /\ data_list' = data_list /\ conf' \in {NoConf} \cup OpenType
         /\ conf' # NoConf => conf # NoConf /\ conf'.images = conf.images
         /\ LastImages(c, l + 1)'
<1>1. confs' = confs /\ data_list' = data_list
  BY DEF parse_line
<1>2. conf' \in {NoConf} \cup OpenType /\ (conf' # NoConf => conf # NoConf /\ conf'.images = conf.images)
  <2>1. CASE c[l].key = "name"
    <3>1. conf # NoConf
      BY <2>1 DEF Accepts, image_types
    <3>2. conf' = [conf EXCEPT !.name = (c[l].val # "")] /\ (c[l].val # "") \in BOOLEAN
      BY <2>1 DEF parse_line
    <3>3. conf \in OpenType
      BY <3>1
    <3> QED BY <3>1, <3>2, <3>3 DEF OpenType
  <2>2. CASE c[l].key # "name"
    <3>1. conf' = conf
      BY <2>2 DEF parse_line
    <3> QED BY <3>1
  <2> QED BY <2>1, <2>2
<1>3. Opened(c, l + 1) = Opened(c, l)
  BY SameSections
<1>4. ASSUME conf' # NoConf, NEW n \in Opened(c, l + 1), \A m \in Opened(c, l + 1) : m <= n
      PROVE  ImageLines(c, Span(n, l + 1), conf)'
  <2>1. ImageLines(c, Span(n, l), conf) /\ Span(n, l + 1) = Span(n, l) \cup {l} /\ conf'.images = conf.images
    BY <1>2, <1>3, <1>4, LongerSpan DEF LastImages
  <2> QED BY <2>1 DEF ImageLines
<1>5. conf' # NoConf => conf'.images \in Seq(FileType)
  BY <1>2 DEF LastImages
<1>6. LastImages(c, l + 1)'
  BY <1>4, <1>5 DEF LastImages
<1> QED BY <1>1, <1>2, <1>6

(* A no= line.                                                             *)
LEMMA NumberLineStep ==
  ASSUME NEW c, IsConf(c), NEW l \in 1 .. Len(c), c[l].key = "no", Accepts(c[l]), parse_line(c[l])
  PROVE  /\ CanComplete /\ confs' = complete_conf /\ data_list' = data_list
         /\ conf' \in OpenType /\ conf'.images = <<>> /\ LastImages(c, l + 1)'
<1>1. CanComplete /\ c[l].val \in Slots /\ confs' = complete_conf /\ data_list' = data_list /\ conf' = NewConf(c[l].val)
  BY DEF Accepts, parse_line, image_types
<1>2. conf'.images = <<>> /\ conf' \in OpenType
  BY <1>1 DEF NewConf, OpenType
<1>3. ASSUME NEW n \in Opened(c, l + 1), \A m \in Opened(c, l + 1) : m <= n
      PROVE  ImageLines(c, Span(n, l + 1), conf)'
  <2>1. n \in Nat /\ n < l + 1 /\ l \in Nat /\ l \in Opened(c, l + 1)
    BY <1>3 DEF Opened, Numbers, IsConf
  <2>2. Span(n, l + 1) = {}
    BY <1>3, <2>1 DEF Span
  <2>3. DOMAIN conf'.images = {}
    BY <1>2
  <2> QED BY <2>2, <2>3 DEF ImageLines
<1> QED BY <1>1, <1>2, <1>3 DEF LastImages

(* What every line of boot.conf preserves.                                 *)
ParseStore(c, l) ==
  /\ conf \in {NoConf} \cup OpenType /\ confs \in [Slots -> {NoConf} \cup DoneType] /\ data_list \in Seq(DOMAIN Body)
  /\ LastImages(c, l) /\ KeptImages(c, l) /\ Stocked(conf) /\ \A s \in Slots : Stocked(confs[s])
LEMMA ParseLineStore ==
  ASSUME NEW c, IsConf(c), NEW l \in 1 .. Len(c), Parsed(c, l), Accepts(c[l]), parse_line(c[l]), StoreTypes, ParseStore(c, l)
  PROVE  ParseStore(c, l + 1)'
<1>1. CASE c[l].key \in image_types
  <2>1. /\ conf # NoConf /\ conf \in OpenType /\ conf' \in OpenType /\ confs' = confs
        /\ conf'.images = Append(conf.images, ImageAt(c, l))
        /\ data_list' \in Seq(DOMAIN Body) /\ Stocked(conf)' /\ (\A s \in Slots : Stocked(confs[s]))'
    BY <1>1, ImageLineStep DEF ParseStore
  <2>2. Closed(c, l + 1) = Closed(c, l)
    BY <1>1, SameSections DEF image_types
  <2>3. ImageAt(c, l) \in FileType
    <3>1. Real[c[l].val] # "none" /\ c[l].val \in DOMAIN Real
      BY <1>1 DEF Accepts, image_types, IsConf
    <3>2. Real[c[l].val] \in DOMAIN Body
      BY <3>1, InputAssumption
    <3> QED BY <1>1, <3>2 DEF ImageAt, FileType
  <2>4. LastImages(c, l + 1)'
    BY <1>1, <2>1, <2>3, LastImagesStep DEF ParseStore
  <2>5. KeptImages(c, l + 1)'
    BY <2>1, <2>2 DEF KeptImages, ParseStore
  <2> QED BY <2>1, <2>4, <2>5 DEF ParseStore
<1>2. CASE c[l].key = "no"
  <2>1. /\ CanComplete /\ confs' = complete_conf /\ data_list' = data_list
        /\ conf' \in OpenType /\ conf'.images = <<>> /\ LastImages(c, l + 1)'
    BY <1>2, NumberLineStep
  <2>2. l \in Numbers(c) /\ l \in 1 .. Len(c) + 1
    BY <1>2 DEF Numbers, IsConf
  <2>3. /\ complete_conf \in [Slots -> {NoConf} \cup DoneType]
        /\ \A s \in Slots : Stocked(complete_conf[s])
        /\ \A n \in Opened(c, l) : ImageLines(c, Section(c, n), complete_conf[c[n].val])
    BY <2>1, <2>2, CompleteStore DEF Parsed, ParseStore
  <2>4. Closed(c, l + 1) = Opened(c, l)
    BY <1>2, NewSection
  <2>5. KeptImages(c, l + 1)'
    BY <2>1, <2>3, <2>4 DEF KeptImages
  <2>6. Stock' = Stock
    BY <2>1 DEF Stock
  <2>7. (\A s \in Slots : Stocked(confs[s]))'
    BY <2>1, <2>3, <2>6 DEF Stocked
  <2>8. DOMAIN conf'.images = {}
    BY <2>1
  <2>9. Stocked(conf)'
    BY <2>8 DEF Stocked
  <2> QED BY <2>1, <2>3, <2>5, <2>7, <2>9 DEF ParseStore
<1>3. CASE c[l].key \notin image_types \cup {"no"}
  <2>1. /\ confs' = confs /\ data_list' = data_list /\ conf' \in {NoConf} \cup OpenType
        /\ conf' # NoConf => conf # NoConf /\ conf'.images = conf.images
        /\ LastImages(c, l + 1)'
    BY <1>3, PlainLineStep DEF ParseStore
  <2>2. Closed(c, l + 1) = Closed(c, l)
    BY <1>3, SameSections
  <2>3. KeptImages(c, l + 1)'
    BY <2>1, <2>2 DEF KeptImages, ParseStore
  <2>4. Stock' = Stock
    BY <2>1 DEF Stock
  <2>5. Stocked(conf)' /\ (\A s \in Slots : Stocked(confs[s]))'
    BY <2>1, <2>4 DEF Stocked, ParseStore
  <2> QED BY <2>1, <2>3, <2>5 DEF ParseStore
<1> QED BY <1>1, <1>2, <1>3

(* At the end of boot.conf every section is kept.                          *)
LEMMA ParseEndStore ==
  ASSUME NEW c, IsConf(c), NEW l, l = Len(c) + 1, Parsed(c, l), CanComplete, ParseStore(c, l),
         Completed(c, l), Valid(c)
  PROVE  /\ complete_conf \in [Slots -> {NoConf} \cup DoneType]
         /\ \A s \in Slots : Stocked(complete_conf[s])
         /\ \A s \in Slots : complete_conf[s] # NoConf <=> \E n \in Numbers(c) : c[n].val = s
         /\ \A n \in Numbers(c) : c[n].val \in Slots /\ ImageLines(c, Section(c, n), complete_conf[c[n].val])
<1>1. l \in 1 .. Len(c) + 1 /\ l \in Nat
  BY DEF IsConf
<1>2. /\ complete_conf \in [Slots -> {NoConf} \cup DoneType]
      /\ \A s \in Slots : Stocked(complete_conf[s])
      /\ \A n \in Opened(c, l) : ImageLines(c, Section(c, n), complete_conf[c[n].val])
  BY <1>1, CompleteStore DEF Parsed, ParseStore
<1>3. Opened(c, l) = Numbers(c)
  BY DEF Opened, Numbers, IsConf
<1>4. \A n \in Numbers(c) : c[n].val \in Slots
  BY <1>3 DEF Completed
<1>5. \A s \in Slots : complete_conf[s] # NoConf <=> \E n \in Numbers(c) : c[n].val = s
  <2>1. CASE conf = NoConf
    <3>1. Opened(c, l) = {} /\ Closed(c, l) = {} /\ complete_conf = confs
      BY <2>1, <1>1, NoOpen DEF complete_conf, Parsed
    <3> QED BY <1>3, <3>1 DEF Completed
  <2>2. CASE conf # NoConf
    <3>1. PICK n \in Opened(c, l) : (\A m \in Opened(c, l) : m <= n) /\ Reads(c, n, l)
      BY <2>2 DEF LastSection, Parsed
    <3>2. Numbers(c) = Closed(c, l) \cup {n}
      BY <1>1, <1>3, <3>1, OneOpen
    <3>3. complete_conf = [confs EXCEPT ![c[n].val] = conf]
      BY <2>2, <3>1 DEF complete_conf, Reads
    <3>4. c[n].val \in Slots
      BY <1>3, <1>4
    <3> QED BY <2>2, <3>2, <3>3, <3>4 DEF Completed
  <2> QED BY <2>1, <2>2
<1> QED BY <1>2, <1>3, <1>4, <1>5
-----------------------------------------------------------------------------
LEMMA StoreInit ==
  ASSUME Init
  PROVE  StoreInv
<1>1. input.old \in OldDevs /\ IsConf(input.conf)
  BY Inputs DEF Init, ToolTypes
<1>2. dev = input.old /\ DOMAIN dev = Address /\ DOMAIN medium = Address
  BY <1>1, InputAssumption DEF Init
<1>3. Opened(input.conf, 1) = {} /\ Closed(input.conf, 1) = {}
  BY <1>1 DEF Opened, Closed, Numbers, IsConf
<1>4. /\ pc = "parse" /\ line = 1 /\ conf = NoConf /\ device_id = FALSE /\ confs = [n \in Slots |-> NoConf]
      /\ data_list = <<>> /\ files = <<>> /\ off_i = DataStart /\ extent = [f \in DOMAIN Body |-> [off |-> 0, len |-> 0]]
  BY DEF Init
<1>5. Len(files) <= MaxFiles /\ files \in Seq([name : Names, file : DOMAIN Body])
  BY <1>4, FileLimit
<1>6. off_i \in Nat /\ off_i >= DataStart /\ off_i <= DevSize /\ off_i % Sector = 0
  BY <1>4, DataStartAligned
<1>7. StoreTypes
  <2>1. device_id \in BOOLEAN /\ line \in Nat /\ conf \in {NoConf} \cup OpenType /\ DOMAIN extent = DOMAIN Body
    BY <1>4
  <2>2. confs \in [Slots -> {NoConf} \cup DoneType]
    BY <1>4
  <2>3. data_list \in Seq(DOMAIN Body)
    BY <1>4
  <2> QED BY <1>2, <1>5, <1>6, <2>1, <2>2, <2>3 DEF StoreTypes
<1>8. StoreParse
  BY <1>3, <1>4 DEF StoreParse, LastImages, KeptImages, Stocked
<1> QED BY <1>4, <1>7, <1>8 DEF StoreInv, StoreInclude, StoreData, StoreTables, StoreFailed, StoreDone

LEMMA ParseLineStoreInv ==
  ASSUME RefuseInv, StoreInv, parse_conf
  PROVE  StoreInv'
<1>1. /\ pc = "parse" /\ line \in 1 .. Len(input.conf) /\ input' = input /\ line \in Nat
      /\ Untouched /\ Parsed(input.conf, line) /\ IsConf(input.conf)
  BY Inputs DEF parse_conf, RefuseInv, Parsing, ToolTypes, IsConf
<1>2. StoreTypes /\ ParseStore(input.conf, line)
  BY <1>1 DEF StoreInv, StoreParse, ParseStore, StoreTypes
<1>3. CASE ~Accepts(input.conf[line])
  <2>1. pc' = "failed" /\ pending' = {} /\ UNCHANGED <<line, parsed, written>>
    BY <1>1, <1>3 DEF parse_conf, exit1, written, Untouched
  <2>2. StoreTypes'
    BY <1>2, <2>1 DEF StoreTypes, parsed, written
  <2> QED BY <2>1, <2>2 DEF StoreInv, StoreParse, StoreInclude, StoreData, StoreTables, StoreFailed, StoreDone
<1>4. CASE Accepts(input.conf[line])
  <2>1. parse_line(input.conf[line]) /\ line' = line + 1 /\ pc' = "parse" /\ UNCHANGED <<files, dev, medium, off_i, extent>>
    BY <1>1, <1>4 DEF parse_conf, written
  <2>2. \A c, l : c = input.conf /\ l = line => ParseStore(c, l + 1)'
    <3> SUFFICES ASSUME NEW c, NEW l, c = input.conf, l = line PROVE ParseStore(c, l + 1)'
      OBVIOUS
    <3>1. IsConf(c) /\ l \in 1 .. Len(c) /\ Parsed(c, l) /\ Accepts(c[l]) /\ parse_line(c[l]) /\ ParseStore(c, l)
      BY <1>1, <1>2, <1>4, <2>1
    <3> QED BY <1>2, <3>1, ParseLineStore
  <2>3. ParseStore(input.conf, line)'
    BY <1>1, <2>1, <2>2
  <2>4. device_id' \in BOOLEAN
    BY <1>2, <2>1, Zenon DEF parse_line, StoreTypes
  <2>5. line' \in Nat
    BY <1>1, <2>1
  <2>6. StoreTypes'
    BY <1>2, <2>1, <2>3, <2>4, <2>5 DEF StoreTypes, ParseStore
  <2>7. StoreParse'
    BY <2>3 DEF StoreParse, ParseStore
  <2> QED BY <2>1, <2>6, <2>7 DEF StoreInv, StoreInclude, StoreData, StoreTables, StoreFailed, StoreDone
<1> QED BY <1>3, <1>4

LEMMA ParseEndStoreInv ==
  ASSUME RefuseInv, StoreInv, parse_end
  PROVE  StoreInv'
<1>1. /\ pc = "parse" /\ line = Len(input.conf) + 1 /\ input' = input
      /\ Untouched /\ files = <<>> /\ Parsed(input.conf, line) /\ IsConf(input.conf)
  BY Inputs DEF parse_end, RefuseInv, Parsing
<1>2. StoreTypes /\ ParseStore(input.conf, line)
  BY <1>1 DEF StoreInv, StoreParse, ParseStore, StoreTypes
<1>3. CASE ~CanComplete
  <2>1. pc' = "failed" /\ pending' = {} /\ UNCHANGED <<line, parsed, written>>
    BY <1>1, <1>3 DEF parse_end, exit1, written, Untouched
  <2>2. StoreTypes'
    BY <1>2, <2>1 DEF StoreTypes, parsed, written
  <2> QED BY <2>1, <2>2 DEF StoreInv, StoreParse, StoreInclude, StoreData, StoreTables, StoreFailed, StoreDone
<1>4. CASE CanComplete
  <2>1. /\ confs' = complete_conf /\ conf' = NoConf /\ pc' = "include" /\ line' = 1
        /\ UNCHANGED <<device_id, data_list, files, dev, medium, off_i, extent>>
    BY <1>1, <1>4 DEF parse_end, written
  <2>2. Valid(input.conf) /\ Completed(input.conf, line)
    BY <1>1, <1>4, AcceptedConf DEF Parsed
  <2>3. /\ complete_conf \in [Slots -> {NoConf} \cup DoneType]
        /\ \A s \in Slots : Stocked(complete_conf[s])
        /\ \A s \in Slots : complete_conf[s] # NoConf <=> \E n \in Numbers(input.conf) : input.conf[n].val = s
        /\ \A n \in Numbers(input.conf) : /\ input.conf[n].val \in Slots
                                          /\ ImageLines(input.conf, Section(input.conf, n), complete_conf[input.conf[n].val])
    BY <1>1, <1>2, <1>4, <2>2, ParseEndStore
  <2>4. StoreTypes'
    BY <1>2, <2>1, <2>3 DEF StoreTypes
  <2>5. KeptAll(input.conf)'
    BY <1>1, <2>1, <2>3 DEF KeptAll
  <2>6. DOMAIN files' = {} /\ Stock' = Stock
    BY <1>1, <2>1 DEF Stock
  <2>7. (\A s \in Slots : Stocked(confs[s]))'
    BY <2>1, <2>3, <2>6 DEF Stocked
  <2>8. Supplied' /\ FilesFrom(input.dir, line)'
    BY <2>6, <2>7 DEF Supplied, FilesFrom
  <2> QED BY <2>1, <2>4, <2>5, <2>8 DEF StoreInv, StoreParse, StoreInclude, StoreData, StoreTables, StoreFailed, StoreDone
<1> QED BY <1>3, <1>4
-----------------------------------------------------------------------------
LEMMA Appended ==
  ASSUME NEW S, NEW s \in Seq(S), NEW x \in S
  PROVE  /\ Append(s, x) \in Seq(S) /\ Len(Append(s, x)) = Len(s) + 1
         /\ \A j \in DOMAIN Append(s, x) : \/ j \in DOMAIN s /\ Append(s, x)[j] = s[j]
                                           \/ j = Len(s) + 1 /\ Append(s, x)[j] = x
OBVIOUS

FileEntry == [name : Names, file : DOMAIN Body]
LEMMA EntryFacts ==
  ASSUME NEW d \in Dirs, NEW l \in DOMAIN d, d[l].kind = "short"
  PROVE  Real[d[l].path] \in DOMAIN Body /\ [name |-> d[l].name, file |-> Real[d[l].path]] \in FileEntry
<1>1. d[l].path \in DOMAIN Real /\ Real[d[l].path] # "none"
  BY InputAssumption
<1>2. Real[d[l].path] \in DOMAIN Body
  BY <1>1, InputAssumption
<1>3. d[l].name \in Names
  BY DEF Names
<1> QED BY <1>2, <1>3 DEF FileEntry

(* A file more in the list.                                                *)
LEMMA IncludeStep ==
  ASSUME NEW d \in Dirs, IsDir(d), NEW l \in 1 .. Len(d), d[l].kind = "short", FilesFrom(d, l), Supplied,
         files \in Seq(FileEntry), data_list \in Seq(DOMAIN Body), confs' = confs,
         files' = Append(files, [name |-> d[l].name, file |-> Real[d[l].path]]),
         data_list' = data_add_file(data_list, Real[d[l].path])
  PROVE  files' \in Seq(FileEntry) /\ data_list' \in Seq(DOMAIN Body) /\ FilesFrom(d, l + 1)' /\ Supplied'
<1> DEFINE new == [name |-> d[l].name, file |-> Real[d[l].path]]
           f == Real[d[l].path]
           list == data_add_file(data_list, f)
<1>1. l \in DOMAIN d /\ f \in DOMAIN Body /\ new \in FileEntry /\ new.file = f /\ new.name = d[l].name
  BY EntryFacts DEF IsDir
<1>2. files' = Append(files, new) /\ data_list' = list
  OBVIOUS
<1>3. /\ list \in Seq(DOMAIN Body) /\ (\E i \in DOMAIN list : list[i] = f)
      /\ \A j \in DOMAIN data_list : \E i \in DOMAIN list : list[i] = data_list[j]
  BY <1>1, AddFile
<1>4. \A j \in DOMAIN d : d[j].name = d[l].name => j = l
  BY <1>1, InputAssumption
<1>5. ASSUME NEW k \in Taken(d, l) PROVE k \in DOMAIN d /\ k < l /\ k \in Taken(d, l + 1)
  BY <1>5 DEF Taken, IsDir
<1>6. l \in Taken(d, l + 1)
  BY DEF Taken, IsDir
<1> HIDE DEF new, f, list
<1>7. f \in Stock' /\ Stock \subseteq Stock'
  BY <1>2, <1>3 DEF Stock
<1>8. /\ files' \in Seq(FileEntry)
      /\ \A j \in DOMAIN files' : \/ j \in DOMAIN files /\ files'[j] = files[j]
                                  \/ j = Len(files) + 1 /\ files'[j] = new
  BY <1>1, <1>2, Appended
<1>9. \A i \in DOMAIN files : files[i].name # new.name
  BY <1>1, <1>4, <1>5 DEF FilesFrom
<1>10. \A i, j \in DOMAIN files' : files'[i].name = files'[j].name => i = j
  BY <1>8, <1>9 DEF FilesFrom
<1>11. \A i \in DOMAIN files' : \E k \in Taken(d, l + 1) : files'[i] = [name |-> d[k].name, file |-> Real[d[k].path]]
  <2> SUFFICES ASSUME NEW i \in DOMAIN files'
               PROVE  \E k \in Taken(d, l + 1) : files'[i] = [name |-> d[k].name, file |-> Real[d[k].path]]
    OBVIOUS
  <2>1. CASE files'[i] = new
    BY <1>6, <2>1 DEF new
  <2>2. CASE i \in DOMAIN files /\ files'[i] = files[i]
    <3>1. PICK k \in Taken(d, l) : files[i] = [name |-> d[k].name, file |-> Real[d[k].path]]
      BY <2>2 DEF FilesFrom
    <3> QED BY <1>5, <2>2, <3>1
  <2> QED BY <1>8, <2>1, <2>2
<1>12. \A i \in DOMAIN files' : files'[i].file \in Stock'
  BY <1>1, <1>7, <1>8 DEF Supplied
<1>13. (\A s \in Slots : Stocked(confs[s]))'
  BY <1>7 DEF Supplied, Stocked
<1>14. FilesFrom(d, l + 1)'
  BY <1>10, <1>11 DEF FilesFrom
<1>15. Supplied'
  BY <1>10, <1>12, <1>13 DEF Supplied
<1> QED BY <1>2, <1>3, <1>8, <1>14, <1>15

(* An entry that is not taken.                                             *)
LEMMA SkipStep ==
  ASSUME NEW d, IsDir(d), NEW l \in 1 .. Len(d), FilesFrom(d, l), files' = files
  PROVE  FilesFrom(d, l + 1)'
<1>1. Taken(d, l) \subseteq Taken(d, l + 1)
  BY DEF Taken, IsDir
<1> QED BY <1>1 DEF FilesFrom

LEMMA IncludeStoreInv ==
  ASSUME RefuseInv, StoreInv, include_files
  PROVE  StoreInv'
<1>1. /\ pc = "include" /\ line \in 1 .. Len(input.dir) /\ input' = input /\ line \in Nat
      /\ Untouched /\ IsDir(input.dir) /\ input.dir \in Dirs
  BY Inputs DEF include_files, RefuseInv, Including, ToolTypes, IsDir
<1>2. StoreTypes /\ KeptAll(input.conf) /\ FilesFrom(input.dir, line) /\ Supplied
  BY <1>1 DEF StoreInv, StoreInclude
<1> DEFINE e == input.dir[line]
<1>3. CASE e.kind = "other"
  <2>1. pc' = "include" /\ line' = line + 1 /\ UNCHANGED <<parsed, written>>
    BY <1>1, <1>3 DEF include_files
  <2>2. \A d, l : d = input.dir /\ l = line => FilesFrom(d, l + 1)'
    BY <1>1, <1>2, <2>1, SkipStep DEF parsed
  <2>3. FilesFrom(input.dir, line)'
    BY <1>1, <2>1, <2>2
  <2>4. StoreTypes'
    BY <1>1, <1>2, <2>1 DEF StoreTypes, parsed, written
  <2>5. KeptAll(input.conf)' /\ Supplied'
    BY <1>1, <1>2, <2>1 DEF KeptAll, Supplied, Stocked, Stock, parsed
  <2> QED BY <2>1, <2>3, <2>4, <2>5 DEF StoreInv, StoreParse, StoreInclude, StoreData, StoreTables, StoreFailed, StoreDone
<1>4. CASE e.kind = "short" /\ Len(files) < MaxFiles
  <2>1. /\ files' = Append(files, [name |-> e.name, file |-> Real[e.path]])
        /\ data_list' = data_add_file(data_list, Real[e.path])
        /\ pc' = "include" /\ line' = line + 1 /\ UNCHANGED <<conf, device_id, confs, dev, medium, off_i, extent>>
    BY <1>1, <1>4 DEF include_files, written
  <2>2. files \in Seq(FileEntry) /\ data_list \in Seq(DOMAIN Body)
    BY <1>2 DEF StoreTypes, FileEntry
  <2>3. \A d, l : d = input.dir /\ l = line =>
          files' \in Seq(FileEntry) /\ data_list' \in Seq(DOMAIN Body) /\ FilesFrom(d, l + 1)' /\ Supplied'
    <3> SUFFICES ASSUME NEW d, NEW l, d = input.dir, l = line
                 PROVE  files' \in Seq(FileEntry) /\ data_list' \in Seq(DOMAIN Body) /\ FilesFrom(d, l + 1)' /\ Supplied'
      OBVIOUS
    <3>1. /\ d \in Dirs /\ IsDir(d) /\ l \in 1 .. Len(d) /\ d[l].kind = "short" /\ FilesFrom(d, l) /\ confs' = confs
          /\ files' = Append(files, [name |-> d[l].name, file |-> Real[d[l].path]])
          /\ data_list' = data_add_file(data_list, Real[d[l].path])
      BY <1>1, <1>2, <1>4, <2>1
    <3> QED BY <1>2, <2>2, <3>1, IncludeStep
  <2>4. files' \in Seq(FileEntry) /\ data_list' \in Seq(DOMAIN Body) /\ FilesFrom(input.dir, line)' /\ Supplied'
    BY <1>1, <2>1, <2>3
  <2>5. Len(files') <= MaxFiles
    BY <1>4, <2>1, <2>2, FileLimit
  <2>6. StoreTypes'
    BY <1>1, <1>2, <2>1, <2>4, <2>5 DEF StoreTypes, FileEntry
  <2>7. KeptAll(input.conf)'
    BY <1>1, <1>2, <2>1 DEF KeptAll
  <2> QED BY <2>1, <2>4, <2>6, <2>7 DEF StoreInv, StoreParse, StoreInclude, StoreData, StoreTables, StoreFailed, StoreDone
<1>5. CASE e.kind # "other" /\ ~(e.kind = "short" /\ Len(files) < MaxFiles)
  <2>1. pc' = "failed" /\ pending' = {} /\ UNCHANGED <<line, parsed, written>>
    BY <1>1, <1>5 DEF include_files, exit1, written, Untouched
  <2>2. StoreTypes'
    BY <1>2, <2>1 DEF StoreTypes, parsed, written
  <2> QED BY <2>1, <2>2 DEF StoreInv, StoreParse, StoreInclude, StoreData, StoreTables, StoreFailed, StoreDone
<1> QED BY <1>3, <1>4, <1>5
-----------------------------------------------------------------------------
(* write(): the addresses a run of cells covers and what they hold then.   *)
LEMMA CellFacts ==
  ASSUME NEW a \in Nat, NEW seq, NEW n \in Nat, Len(seq) = n
  PROVE  /\ DOMAIN Cells(a, seq) = a .. a + n - 1
         /\ \A k \in 1 .. n : a + k - 1 \in DOMAIN Cells(a, seq) /\ Cells(a, seq)[a + k - 1] = seq[k]
<1>1. DOMAIN Cells(a, seq) = a .. a + n - 1
  BY DEF Cells
<1>2. ASSUME NEW k \in 1 .. n PROVE a + k - 1 \in DOMAIN Cells(a, seq) /\ Cells(a, seq)[a + k - 1] = seq[k]
  <2>1. a + k - 1 \in a .. a + n - 1 /\ (a + k - 1) - a + 1 = k
    OBVIOUS
  <2> QED BY <2>1 DEF Cells
<1> QED BY <1>1, <1>2

LEMMA BlockFacts ==
  ASSUME NEW a \in Nat, NEW blk
  PROVE  DOMAIN BlockCells(a, blk) = a .. a + Block - 1 /\ BlockCells(a, blk)[a] = blk
<1> DEFINE seq == [k \in 1 .. Block |-> IF k = 1 THEN blk ELSE Zeroed]
<1>1. Block \in Nat /\ 1 \in 1 .. Block
  BY Sizes
<1>2. seq \in Seq({blk, Zeroed}) /\ Len(seq) = Block /\ seq[1] = blk
  BY <1>1
<1>3. BlockCells(a, blk) = Cells(a, seq)
  BY DEF BlockCells
<1> HIDE DEF seq
<1>4. DOMAIN Cells(a, seq) = a .. a + Block - 1 /\ Cells(a, seq)[a + 1 - 1] = seq[1]
  BY <1>1, <1>2, CellFacts
<1> QED BY <1>2, <1>3, <1>4

LEMMA PutFacts ==
  ASSUME NEW d, NEW cells
  PROVE  /\ DOMAIN Put(d, cells) = DOMAIN d
         /\ \A a \in DOMAIN d : Put(d, cells)[a] = IF a \in DOMAIN cells THEN cells[a] ELSE d[a]
BY DEF Put

LEMMA TableAddress ==
  ASSUME NEW s \in Slots
  PROVE  /\ TableAt(s) \in Address /\ TableAt(s) \in Nat /\ TableAt(s) >= Block /\ TableAt(s) + Block <= DataStart
         /\ 0 \in Address /\ DataStart \in Nat
BY TablePlaces, Sizes DEF Address

LEMMA WriteSbStoreInv ==
  ASSUME RefuseInv, StoreInv, write_sb
  PROVE  StoreInv'
<1> DEFINE opened == IF input.target = "regular" THEN [a \in Address |-> Zeroed] ELSE dev
           cells == BlockCells(0, SuperBlock(0))
<1>1. /\ pc = "include" /\ pc' = "data" /\ line' = 1 /\ dev' = Put(opened, cells) /\ pending' = {cells}
      /\ input' = input /\ UNCHANGED <<conf, device_id, confs, data_list, files, medium, off_i, extent>>
  BY DEF write_sb, parsed
<1>2. StoreTypes /\ KeptAll(input.conf) /\ Supplied
  BY <1>1 DEF StoreInv, StoreInclude
<1>3. DOMAIN opened = Address /\ (input.target = "regular" => \A a \in Address : opened[a] = Zeroed)
  BY <1>2 DEF StoreTypes
<1>4. DOMAIN cells = 0 .. 0 + Block - 1 /\ cells[0] = SuperBlock(0)
  BY BlockFacts
<1> HIDE DEF opened, cells
<1>5. DOMAIN dev' = Address /\ \A a \in Address : dev'[a] = IF a \in DOMAIN cells THEN cells[a] ELSE opened[a]
  BY <1>1, <1>3, PutFacts
<1>6. 0 \in Address /\ 0 \in DOMAIN cells
  BY <1>4, Sizes DEF Address
<1>7. dev'[0] = SuperBlock(0)
  BY <1>4, <1>5, <1>6
<1>8. \A s \in Slots : TableAt(s) \in Address /\ TableAt(s) \notin DOMAIN cells
  BY <1>4, TableAddress, Sizes
<1>9. Written(0)'
  <2>1. 0 .. 0 - 1 = {} /\ 0 .. NSlots - 1 = Slots
    BY Sizes DEF Slots
  <2>2. \A s \in Slots : input'.target = "regular" => dev'[TableAt(s)] = Zeroed
    BY <1>1, <1>3, <1>5, <1>8
  <2>3. \A s \in Slots : \A w \in pending' : TableAt(s) \notin DOMAIN w
    BY <1>1, <1>8
  <2> QED BY <2>1, <2>2, <2>3 DEF Written
<1>10. StoreTypes'
  BY <1>1, <1>2, <1>5 DEF StoreTypes
<1>11. Len(data_list) \in Nat
  BY <1>2 DEF StoreTypes
<1>12. line' \in 1 .. Len(data_list') + 1 /\ DataIn(line - 1)'
  <2>1. line' - 1 = 0 /\ 1 .. 0 = {}
    BY <1>1
  <2>2. DataIn(line - 1)'
    BY <2>1 DEF DataIn
  <2> QED BY <1>1, <1>11, <2>2
<1>13. KeptAll(input.conf)' /\ Supplied'
  BY <1>1, <1>2 DEF KeptAll, Supplied, Stocked, Stock
<1> QED BY <1>1, <1>7, <1>9, <1>10, <1>12, <1>13 DEF StoreInv, StoreParse, StoreInclude, StoreData, StoreTables, StoreFailed, StoreDone
-----------------------------------------------------------------------------
LEMMA DataStartPositive == DataStart \in Nat /\ DataStart > 0
<1>1. NSlots + 1 \in Nat /\ 0 < NSlots + 1
  BY Sizes
<1>2. 0 * Block + Block <= (NSlots + 1) * Block /\ 0 * Block = 0
  BY <1>1, Sizes, Products
<1> QED BY <1>2, Sizes, DataStartAligned DEF DataStart

LEMMA PayloadFacts ==
  ASSUME NEW f \in DOMAIN Body
  PROVE  /\ Len(Payload(f)) \in Nat /\ DOMAIN Payload(f) = 1 .. Len(Payload(f)) /\ (Len(Payload(f)) = 0 => Payload(f) = <<>>)
         /\ Len(Payload(f)) <= Body[f].size /\ Payload(f) = [k \in 1 .. Len(Payload(f)) |-> Payload(f)[k]]
<1> DEFINE skip == IF Body[f].uimage /\ Body[f].size >= Header THEN Header ELSE 0
           n == Body[f].size - skip
           fun == [k \in 1 .. n |-> Cell(<<f, skip + k>>)]
<1>1. Body[f].size \in Nat /\ Header \in Nat
  BY InputAssumption
<1>2. n \in Nat /\ n <= Body[f].size
  BY <1>1
<1>3. Payload(f) = fun
  BY DEF Payload
<1> HIDE DEF n, skip
<1>4. fun \in Seq({fun[k] : k \in 1 .. n}) /\ Len(fun) = n
  BY <1>2
<1>5. DOMAIN fun = 1 .. n /\ fun = [k \in 1 .. n |-> fun[k]]
  OBVIOUS
<1> HIDE DEF fun
<1>6. n = 0 => fun = <<>>
  BY <1>4
<1> QED BY <1>2, <1>3, <1>4, <1>5, <1>6

(* A write elsewhere leaves the data where it is.                          *)
LEMMA HoldsKept ==
  ASSUME NEW g, Holds(g), extent'[g] = extent[g], off_i \in Nat, off_i' \in Nat, off_i' >= off_i, Len(Payload(g)) \in Nat,
         \A a \in Address : DataStart <= a /\ a < off_i => dev'[a] = dev[a]
  PROVE  Holds(g)'
<1> DEFINE o == extent[g].off
           n == extent[g].len
<1>1. /\ o \in Nat /\ o >= DataStart /\ o % Sector = 0 /\ n = Len(Payload(g)) /\ o + n <= off_i /\ o + n <= DevSize
      /\ \A k \in 1 .. n : dev[o + k - 1] = Payload(g)[k]
  BY DEF Holds
<1>2. extent'[g].off = o /\ extent'[g].len = n /\ n \in Nat /\ DataStart \in Nat /\ DevSize \in Nat
  BY <1>1, DataStartAligned, Sizes
<1> HIDE DEF o, n
<1>3. \A k \in 1 .. n : o + k - 1 \in Address /\ DataStart <= o + k - 1 /\ o + k - 1 < off_i
  BY <1>1, <1>2 DEF Address
<1>4. \A k \in 1 .. n : dev'[o + k - 1] = Payload(g)[k]
  BY <1>1, <1>3
<1>5. o + n <= off_i'
  BY <1>1, <1>2
<1> QED BY <1>1, <1>2, <1>4, <1>5 DEF Holds

(* One file.                                                               *)
LEMMA WriteFile ==
  ASSUME NEW f \in DOMAIN Body, StoreTypes, extent' = [extent EXCEPT ![f] = [off |-> off_i, len |-> Len(Payload(f))]],
         off_i' = NextOffset(off_i, Len(Payload(f))),
         IF Payload(f) = <<>> THEN UNCHANGED <<dev, medium, pending>> ELSE write_checked(Cells(off_i, Payload(f)))
  PROVE  /\ DOMAIN dev' = Address /\ Holds(f)' /\ off_i' \in Nat /\ off_i' >= off_i /\ off_i' <= DevSize /\ off_i' % Sector = 0
         /\ \A a \in Address : a < off_i => dev'[a] = dev[a]
         /\ \A w \in pending' \ pending : \A a \in DOMAIN w : a \in Nat /\ a >= off_i
<1> DEFINE p == Payload(f)
           n == Len(p)
           cells == Cells(off_i, p)
<1>1. n \in Nat /\ (n = 0 => p = <<>>)
  BY PayloadFacts
<1>2. off_i \in Nat /\ off_i >= DataStart /\ off_i <= DevSize /\ off_i % Sector = 0 /\ DOMAIN dev = Address /\ DOMAIN extent = DOMAIN Body
  BY DEF StoreTypes
<1>3. extent'[f].off = off_i /\ extent'[f].len = n
  BY <1>2
<1>4. off_i' = Roundup(off_i + n)
  BY DEF NextOffset
<1>5. DataStart \in Nat /\ DevSize \in Nat /\ Sector \in Nat
  BY DataStartAligned, Sizes
<1>6. CASE p = <<>>
  <2>1. n = 0 /\ dev' = dev /\ pending' = pending
    BY <1>6
  <2>2. off_i + n <= DevSize /\ off_i + n \in Nat
    BY <1>2, <2>1
  <2> HIDE DEF p, n
  <2>3. off_i' \in Nat /\ off_i' % Sector = 0 /\ off_i' >= off_i + n /\ off_i' <= DevSize
    <3>1. Roundup(off_i + n) \in Nat /\ Roundup(off_i + n) % Sector = 0 /\ Roundup(off_i + n) >= off_i + n
      BY <2>2, RoundupFacts
    <3>2. 0 \in Nat /\ 0 % Sector = 0 /\ 0 + (off_i + n) <= DevSize
      BY <2>2, Sizes
    <3>3. 0 + Roundup(off_i + n) <= DevSize
      BY <2>2, <3>2, RoundupInside
    <3> QED BY <1>4, <3>1, <3>3
  <2>4. Holds(f)'
    BY <1>2, <1>3, <2>1, <2>2, <2>3 DEF Holds, p, n
  <2>5. off_i' >= off_i
    BY <1>2, <2>1, <2>3
  <2> QED BY <1>2, <2>1, <2>3, <2>4, <2>5
<1>7. CASE p # <<>>
  <2>1. DOMAIN cells \subseteq Address /\ dev' = Put(dev, cells) /\ pending' = pending \cup {cells} /\ n >= 1
    BY <1>1, <1>7 DEF write_checked
  <2> HIDE DEF p, n, cells
  <2>2. DOMAIN cells = off_i .. off_i + n - 1 /\ \A k \in 1 .. n : off_i + k - 1 \in DOMAIN cells /\ cells[off_i + k - 1] = p[k]
    BY <1>1, <1>2, CellFacts DEF cells, n
  <2>3. off_i + n <= DevSize /\ off_i + n \in Nat
    <3>1. off_i + n - 1 \in Address
      BY <1>1, <1>2, <2>1, <2>2
    <3> QED BY <1>1, <1>2, <1>5, <3>1 DEF Address
  <2>4. off_i' \in Nat /\ off_i' % Sector = 0 /\ off_i' >= off_i + n /\ off_i' <= DevSize
    <3>1. Roundup(off_i + n) \in Nat /\ Roundup(off_i + n) % Sector = 0 /\ Roundup(off_i + n) >= off_i + n
      BY <2>3, RoundupFacts
    <3>2. 0 \in Nat /\ 0 % Sector = 0 /\ 0 + (off_i + n) <= DevSize
      BY <2>3, Sizes
    <3>3. 0 + Roundup(off_i + n) <= DevSize
      BY <2>3, <3>2, RoundupInside
    <3> QED BY <1>4, <3>1, <3>3
  <2>5. DOMAIN dev' = Address /\ \A a \in Address : dev'[a] = IF a \in DOMAIN cells THEN cells[a] ELSE dev[a]
    BY <1>2, <2>1, PutFacts
  <2>6. \A k \in 1 .. n : dev'[off_i + k - 1] = p[k]
    BY <2>1, <2>2, <2>5
  <2>7. Holds(f)'
    BY <1>2, <1>3, <2>3, <2>4, <2>6 DEF Holds, p, n
  <2>8. \A a \in Address : a < off_i => dev'[a] = dev[a]
    BY <1>1, <1>2, <2>2, <2>5 DEF Address
  <2>9. \A w \in pending' \ pending : \A a \in DOMAIN w : a \in Nat /\ a >= off_i
    BY <1>1, <1>2, <2>1, <2>2
  <2>10. off_i' >= off_i
    BY <1>1, <1>2, <2>4
  <2> QED BY <2>4, <2>5, <2>7, <2>8, <2>9, <2>10
<1> QED BY <1>6, <1>7

LEMMA WriteDataStoreInv ==
  ASSUME RefuseInv, StoreInv, write_data
  PROVE  StoreInv'
<1> DEFINE f == data_list[line]
<1>1. /\ pc = "data" /\ pc' = "data" /\ line' = line + 1 /\ line <= Len(data_list) /\ input' = input
      /\ UNCHANGED <<conf, device_id, confs, data_list, files>>
      /\ extent' = [extent EXCEPT ![f] = [off |-> off_i, len |-> Len(Payload(f))]]
      /\ off_i' = NextOffset(off_i, Len(Payload(f)))
      /\ IF Payload(f) = <<>> THEN UNCHANGED <<dev, medium, pending>> ELSE write_checked(Cells(off_i, Payload(f)))
  BY DEF write_data, parsed
<1>2. /\ StoreTypes /\ KeptAll(input.conf) /\ Supplied /\ dev[0] = SuperBlock(0)
      /\ line \in 1 .. Len(data_list) + 1 /\ Written(0) /\ DataIn(line - 1)
  BY <1>1 DEF StoreInv, StoreData
<1>3. data_list \in Seq(DOMAIN Body) /\ Len(data_list) \in Nat /\ line \in 1 .. Len(data_list)
  BY <1>1, <1>2 DEF StoreTypes
<1>4. f \in DOMAIN Body
  BY <1>3
<1>5. medium' = medium
  BY <1>1 DEF write_checked
<1> DEFINE Result(g) ==
      /\ DOMAIN dev' = Address /\ Holds(g)' /\ off_i' \in Nat /\ off_i' >= off_i /\ off_i' <= DevSize /\ off_i' % Sector = 0
      /\ \A a \in Address : a < off_i => dev'[a] = dev[a]
      /\ \A w \in pending' \ pending : \A a \in DOMAIN w : a \in Nat /\ a >= off_i
<1>6. \A g : g = f => Result(g)
  <2> SUFFICES ASSUME NEW g, g = f PROVE Result(g)
    OBVIOUS
  <2>1. /\ g \in DOMAIN Body /\ extent' = [extent EXCEPT ![g] = [off |-> off_i, len |-> Len(Payload(g))]]
        /\ off_i' = NextOffset(off_i, Len(Payload(g)))
        /\ IF Payload(g) = <<>> THEN UNCHANGED <<dev, medium, pending>> ELSE write_checked(Cells(off_i, Payload(g)))
    BY <1>1, <1>4
  <2> HIDE DEF f
  <2> QED BY <1>2, <2>1, WriteFile
<1>7. /\ DOMAIN dev' = Address /\ off_i' \in Nat /\ off_i' >= off_i /\ off_i' <= DevSize /\ off_i' % Sector = 0
      /\ \A a \in Address : a < off_i => dev'[a] = dev[a]
      /\ \A w \in pending' \ pending : \A a \in DOMAIN w : a \in Nat /\ a >= off_i
  BY <1>6
<1>8. \A g : g = f => Holds(g)'
  BY <1>6
<1> HIDE DEF Result
<1>9. DataStart \in Nat /\ off_i \in Nat /\ off_i >= DataStart
  BY <1>2, DataStartAligned DEF StoreTypes
<1>10. DOMAIN extent = DOMAIN Body /\ \A g : g # f => extent'[g] = extent[g]
  BY <1>1, <1>2 DEF StoreTypes
<1>11. \A i \in 1 .. line : \A g : g = data_list[i] => Holds(g)'
  <2> SUFFICES ASSUME NEW i \in 1 .. line, NEW g, g = data_list[i] PROVE Holds(g)'
    OBVIOUS
  <2>1. CASE g = f
    BY <1>8, <2>1
  <2>2. CASE g # f
    <3>1. i \in 1 .. line - 1 /\ g \in DOMAIN Body
      BY <1>3, <2>2
    <3>2. Holds(g) /\ Len(Payload(g)) \in Nat
      BY <1>2, <3>1, PayloadFacts DEF DataIn
    <3>3. extent'[g] = extent[g]
      BY <1>10, <2>2
    <3> QED BY <1>7, <1>9, <3>2, <3>3, HoldsKept
  <2> QED BY <2>1, <2>2
<1>12. DataIn(line - 1)'
  <2>1. line' - 1 = line /\ data_list' = data_list
    BY <1>1, <1>3
  <2> QED BY <1>11, <2>1 DEF DataIn
<1>13. Written(0)'
  <2>1. 0 .. 0 - 1 = {} /\ 0 .. NSlots - 1 = Slots
    BY Sizes DEF Slots
  <2>2. \A s \in Slots : TableAt(s) \in Address /\ TableAt(s) < off_i
    BY <1>9, TableAddress, Sizes
  <2>3. \A s \in Slots : input.target = "regular" => dev'[TableAt(s)] = Zeroed
    BY <1>2, <1>7, <2>1, <2>2 DEF Written
  <2>4. ASSUME NEW s \in Slots, NEW w \in pending' PROVE TableAt(s) \notin DOMAIN w
    <3>1. CASE w \in pending
      BY <1>2, <2>1, <3>1 DEF Written
    <3>2. CASE w \notin pending
      BY <1>7, <1>9, <2>2, <3>2
    <3> QED BY <3>1, <3>2
  <2> QED BY <1>1, <2>1, <2>3, <2>4 DEF Written
<1>14. dev'[0] = SuperBlock(0)
  <2>1. 0 \in Address /\ 0 < off_i
    BY <1>9, Sizes, DataStartPositive DEF Address
  <2> QED BY <1>2, <1>7, <2>1
<1>15. StoreTypes'
  <2>1. off_i' >= DataStart /\ line' \in Nat
    BY <1>1, <1>3, <1>7, <1>9
  <2>2. DOMAIN extent' = DOMAIN Body
    BY <1>1, <1>10
  <2> QED BY <1>1, <1>2, <1>5, <1>7, <2>1, <2>2 DEF StoreTypes
<1>16. line' \in 1 .. Len(data_list') + 1
  BY <1>1, <1>3
<1>17. KeptAll(input.conf)' /\ Supplied'
  BY <1>1, <1>2 DEF KeptAll, Supplied, Stocked, Stock
<1> QED BY <1>1, <1>12, <1>13, <1>14, <1>15, <1>16, <1>17
        DEF StoreInv, StoreParse, StoreInclude, StoreData, StoreTables, StoreFailed, StoreDone

LEMMA DataEndStoreInv ==
  ASSUME RefuseInv, StoreInv, data_end
  PROVE  StoreInv'
<1>1. /\ pc = "data" /\ pc' = "tables" /\ line' = 0 /\ line = Len(data_list) + 1 /\ input' = input
      /\ UNCHANGED <<conf, device_id, confs, data_list, files, dev, medium, pending, off_i, extent>>
  BY DEF data_end, parsed, written
<1>2. /\ StoreTypes /\ KeptAll(input.conf) /\ Supplied /\ dev[0] = SuperBlock(0) /\ Written(0) /\ DataIn(line - 1)
  BY <1>1 DEF StoreInv, StoreData
<1>3. Len(data_list) \in Nat /\ line - 1 = Len(data_list)
  BY <1>1, <1>2 DEF StoreTypes
<1>4. DataIn(Len(data_list))'
  <2>1. DataIn(Len(data_list))
    BY <1>2, <1>3
  <2> QED BY <1>1, <2>1 DEF DataIn, Holds
<1>5. Written(line)'
  <2>1. 0 .. 0 - 1 = {}
    OBVIOUS
  <2> QED BY <1>1, <1>2, <2>1 DEF Written
<1>6. StoreTypes'
  BY <1>1, <1>2 DEF StoreTypes
<1>7. KeptAll(input.conf)' /\ Supplied'
  BY <1>1, <1>2 DEF KeptAll, Supplied, Stocked, Stock
<1>8. line' \in 0 .. NSlots
  BY <1>1, Sizes
<1> QED BY <1>1, <1>2, <1>4, <1>5, <1>6, <1>7, <1>8
        DEF StoreInv, StoreParse, StoreInclude, StoreData, StoreTables, StoreFailed, StoreDone

LEMMA WriteTableStoreInv ==
  ASSUME RefuseInv, StoreInv, write_table
  PROVE  StoreInv'
<1> DEFINE blk == TableBlock(line)
           cells == BlockCells(TableAt(line), blk)
<1>1. /\ pc = "tables" /\ pc' = "tables" /\ line' = line + 1 /\ line \in Slots /\ input' = input
      /\ UNCHANGED <<conf, device_id, confs, data_list, files, medium, off_i, extent>>
      /\ dev' = Put(dev, cells) /\ pending' = pending \cup {cells}
  BY DEF write_table, write_checked, parsed
<1>2. /\ StoreTypes /\ KeptAll(input.conf) /\ Supplied /\ dev[0] = SuperBlock(0)
      /\ line \in 0 .. NSlots /\ Written(line) /\ DataIn(Len(data_list))
  BY <1>1 DEF StoreInv, StoreTables
<1>3. TableAt(line) \in Nat /\ TableAt(line) \in Address /\ TableAt(line) >= Block /\ TableAt(line) + Block <= DataStart
      /\ DataStart \in Nat /\ 0 \in Address
  BY <1>1, TableAddress
<1>4. DOMAIN cells = TableAt(line) .. TableAt(line) + Block - 1 /\ cells[TableAt(line)] = blk
  BY <1>3, BlockFacts
<1>5. \A s \in Slots : TableBlock(s)' = TableBlock(s)
  BY <1>1 DEF TableBlock, FirstFile, FreeBefore
<1> HIDE DEF cells
<1>6. DOMAIN dev' = Address /\ \A a \in Address : dev'[a] = IF a \in DOMAIN cells THEN cells[a] ELSE dev[a]
  <2>1. DOMAIN dev = Address
    BY <1>2 DEF StoreTypes
  <2> QED BY <1>1, <2>1, PutFacts
<1>7. Block \in Nat /\ Block >= 1 /\ NSlots \in Nat
  BY Sizes
<1>8. TableAt(line) \in DOMAIN cells /\ dev'[TableAt(line)] = blk
  BY <1>3, <1>4, <1>6, <1>7
<1>9. ASSUME NEW s \in Slots, s # line PROVE TableAt(s) \in Address /\ TableAt(s) \notin DOMAIN cells
  <2>1. TableAt(s) \in Nat /\ TableAt(s) \in Address
    BY TableAddress
  <2>2. s \in Nat /\ line \in Nat
    BY <1>1, SlotNumbers
  <2>3. TableAt(s) + Block <= TableAt(line) \/ TableAt(line) + Block <= TableAt(s)
    <3>1. CASE s < line
      BY <1>1, <3>1, TablesApart
    <3>2. CASE line < s
      BY <1>1, <3>2, TablesApart
    <3> QED BY <1>9, <2>2, <3>1, <3>2
  <2> QED BY <1>3, <1>4, <1>7, <2>1, <2>3
<1>10. line \in Nat /\ line < NSlots /\ 0 .. (line + 1) - 1 = 0 .. line /\ Slots = 0 .. NSlots - 1
  BY <1>1, <1>7 DEF Slots
<1>11. Written(line)'
  <2>1. ASSUME NEW s \in 0 .. line PROVE dev'[TableAt(s)] = TableBlock(s)'
    <3>1. s \in Slots
      BY <1>7, <1>10, <2>1
    <3>2. CASE s = line
      BY <1>5, <1>8, <3>1, <3>2
    <3>3. CASE s # line
      <4>1. TableAt(s) \in Address /\ TableAt(s) \notin DOMAIN cells
        BY <1>9, <3>1, <3>3
      <4>2. s \in 0 .. line - 1
        BY <1>10, <2>1, <3>3
      <4>3. dev[TableAt(s)] = TableBlock(s)
        BY <1>2, <4>2 DEF Written
      <4>4. dev'[TableAt(s)] = dev[TableAt(s)]
        BY <1>6, <4>1
      <4> QED BY <1>5, <3>1, <4>3, <4>4
    <3> QED BY <3>2, <3>3
  <2>2. ASSUME NEW s \in line + 1 .. NSlots - 1
        PROVE  /\ input.target = "regular" => dev'[TableAt(s)] = Zeroed
               /\ \A w \in pending' : TableAt(s) \notin DOMAIN w
    <3>1. s \in Slots /\ s # line /\ s \in line .. NSlots - 1
      BY <1>7, <1>10, <2>2
    <3>2. TableAt(s) \in Address /\ TableAt(s) \notin DOMAIN cells
      BY <1>9, <3>1
    <3>3. (input.target = "regular" => dev[TableAt(s)] = Zeroed) /\ \A w \in pending : TableAt(s) \notin DOMAIN w
      BY <1>2, <3>1 DEF Written
    <3>4. dev'[TableAt(s)] = dev[TableAt(s)]
      BY <1>6, <3>2
    <3> QED BY <1>1, <3>2, <3>3, <3>4
  <2>3. \A m : m = line + 1 => Written(m)'
    BY <1>1, <1>10, <2>1, <2>2 DEF Written
  <2> QED BY <1>1, <2>3
<1>12. DataIn(Len(data_list))'
  <2>1. \A a \in Address : DataStart <= a /\ a < off_i => dev'[a] = dev[a]
    BY <1>3, <1>4, <1>6, <1>7 DEF Address
  <2>2. off_i \in Nat /\ data_list \in Seq(DOMAIN Body)
    BY <1>2 DEF StoreTypes
  <2>3. \A i \in 1 .. Len(data_list) : \A g : g = data_list[i] => Holds(g)'
    <3> SUFFICES ASSUME NEW i \in 1 .. Len(data_list), NEW g, g = data_list[i] PROVE Holds(g)'
      OBVIOUS
    <3>1. g \in DOMAIN Body /\ Holds(g)
      BY <1>2, <2>2 DEF DataIn
    <3>2. Len(Payload(g)) \in Nat
      BY <3>1, PayloadFacts
    <3>3. extent'[g] = extent[g] /\ off_i' = off_i /\ off_i' \in Nat /\ off_i' >= off_i
      BY <1>1, <2>2
    <3> QED BY <2>1, <2>2, <3>1, <3>2, <3>3, HoldsKept
  <2> QED BY <1>1, <2>3 DEF DataIn
<1>13. dev'[0] = SuperBlock(0)
  BY <1>2, <1>3, <1>4, <1>6, <1>7
<1>14. StoreTypes' /\ line' \in 0 .. NSlots
  BY <1>1, <1>2, <1>6, <1>10, <1>7 DEF StoreTypes
<1>15. KeptAll(input.conf)' /\ Supplied'
  BY <1>1, <1>2 DEF KeptAll, Supplied, Stocked, Stock
<1> QED BY <1>1, <1>11, <1>12, <1>13, <1>14, <1>15
        DEF StoreInv, StoreParse, StoreInclude, StoreData, StoreTables, StoreFailed, StoreDone

(* Steps after which programs see the same device.                         *)
LEMMA SameStore ==
  ASSUME StoreTypes, UNCHANGED <<input, parsed, off_i, extent>>, DOMAIN dev' = Address, \A a \in Address : dev'[a] = dev[a]
  PROVE  /\ KeptAll(input.conf) => KeptAll(input.conf)'
         /\ Supplied => Supplied'
         /\ dev'[0] = dev[0] /\ (\A s \in Slots : dev'[TableAt(s)] = dev[TableAt(s)] /\ TableBlock(s)' = TableBlock(s))
         /\ DataIn(Len(data_list)) => DataIn(Len(data_list))'
<1>1. input' = input /\ UNCHANGED <<conf, device_id, confs, data_list, files, off_i, extent>>
  BY DEF parsed
<1>2. \A s \in Slots : TableAt(s) \in Address /\ TableBlock(s)' = TableBlock(s)
  BY <1>1, TableAddress DEF TableBlock, FirstFile, FreeBefore
<1>3. 0 \in Address
  BY Sizes DEF Address
<1>4. ASSUME DataIn(Len(data_list)) PROVE DataIn(Len(data_list))'
  <2>1. off_i \in Nat /\ data_list \in Seq(DOMAIN Body)
    BY DEF StoreTypes
  <2>2. \A i \in 1 .. Len(data_list) : \A g : g = data_list[i] => Holds(g)'
    <3> SUFFICES ASSUME NEW i \in 1 .. Len(data_list), NEW g, g = data_list[i] PROVE Holds(g)'
      OBVIOUS
    <3>1. g \in DOMAIN Body /\ Holds(g)
      BY <1>4, <2>1 DEF DataIn
    <3>2. Len(Payload(g)) \in Nat
      BY <3>1, PayloadFacts
    <3>3. extent'[g] = extent[g] /\ off_i' = off_i /\ off_i' \in Nat /\ off_i' >= off_i
      BY <1>1, <2>1
    <3> QED BY <2>1, <3>1, <3>2, <3>3, HoldsKept
  <2> QED BY <1>1, <2>2 DEF DataIn
<1>5. KeptAll(input.conf) => KeptAll(input.conf)'
  BY <1>1 DEF KeptAll
<1>6. Supplied => Supplied'
  BY <1>1 DEF Supplied, Stocked, Stock
<1> QED BY <1>2, <1>3, <1>4, <1>5, <1>6

LEMMA FinishStoreInv ==
  ASSUME RefuseInv, StoreInv, finish
  PROVE  StoreInv'
<1>1. /\ pc = "tables" /\ pc' = "done" /\ line = NSlots /\ line' = line /\ pending' = {} /\ medium' = dev
      /\ dev' = dev /\ UNCHANGED <<input, parsed, off_i, extent>>
  BY DEF finish
<1>2. /\ StoreTypes /\ KeptAll(input.conf) /\ Supplied /\ dev[0] = SuperBlock(0) /\ Written(NSlots) /\ DataIn(Len(data_list))
  BY <1>1 DEF StoreInv, StoreTables
<1>3. DOMAIN dev' = Address /\ \A a \in Address : dev'[a] = dev[a]
  BY <1>1, <1>2 DEF StoreTypes
<1>4. /\ KeptAll(input.conf)' /\ Supplied' /\ dev'[0] = SuperBlock(0) /\ DataIn(Len(data_list))'
      /\ \A s \in Slots : dev'[TableAt(s)] = dev[TableAt(s)] /\ TableBlock(s)' = TableBlock(s)
  BY <1>1, <1>2, <1>3, SameStore
<1>5. Written(NSlots)'
  <2>1. NSlots .. NSlots - 1 = {} /\ Slots = 0 .. NSlots - 1
    BY Sizes DEF Slots
  <2> QED BY <1>2, <1>4, <2>1 DEF Written
<1>6. StoreTypes'
  BY <1>1, <1>2, <1>3 DEF StoreTypes, parsed
<1>7. medium' = dev'
  BY <1>1
<1> QED BY <1>1, <1>4, <1>5, <1>6, <1>7 DEF StoreInv, StoreParse, StoreInclude, StoreData, StoreTables, StoreFailed, StoreDone

LEMMA KilledStoreInv ==
  ASSUME RefuseInv, StoreInv, Killed
  PROVE  StoreInv'
<1>1. /\ pc \in {"data", "tables"} /\ pc' = "failed"
      /\ UNCHANGED <<input, line, conf, device_id, confs, data_list, files, dev, medium, pending, off_i, extent>>
  BY DEF Killed, parsed, written
<1>2. StoreTypes /\ KeptAll(input.conf) /\ Supplied
  BY <1>1 DEF StoreInv, StoreData, StoreTables
<1>3. StoreTypes' /\ KeptAll(input.conf)' /\ Supplied'
  BY <1>1, <1>2 DEF StoreTypes, KeptAll, Supplied, Stocked, Stock
<1>4. \E m \in 0 .. NSlots : Written(m) /\ (m > 0 => DataIn(Len(data_list)))
  <2>1. CASE pc = "data"
    <3>1. Written(0) /\ 0 \in 0 .. NSlots /\ ~(0 > 0)
      BY <2>1, Sizes DEF StoreInv, StoreData
    <3> QED BY <3>1
  <2>2. CASE pc = "tables"
    BY <2>2 DEF StoreInv, StoreTables
  <2> QED BY <1>1, <2>1, <2>2
<1>5. (\E m \in 0 .. NSlots : Written(m) /\ (m > 0 => DataIn(Len(data_list))))'
  <2>1. PICK m \in 0 .. NSlots : Written(m) /\ (m > 0 => DataIn(Len(data_list)))
    BY <1>4
  <2>2. Written(m)'
    BY <1>1, <2>1 DEF Written, TableBlock, FirstFile, FreeBefore
  <2>3. m > 0 => DataIn(Len(data_list))'
    BY <1>1, <2>1 DEF DataIn, Holds
  <2> QED BY <2>2, <2>3
<1> QED BY <1>1, <1>3, <1>5 DEF StoreInv, StoreParse, StoreInclude, StoreData, StoreTables, StoreFailed, StoreDone

LEMMA PowerLossStoreInv ==
  ASSUME RefuseInv, StoreInv, PowerLoss
  PROVE  StoreInv'
<1>1. /\ pc \in {"data", "tables", "failed", "done"} /\ pc' = (IF pc = "done" THEN "done" ELSE "lost")
      /\ medium' = dev' /\ pending' = {} /\ UNCHANGED <<input, line, parsed, off_i, extent>>
  BY DEF PowerLoss
<1>2. StoreTypes
  BY DEF StoreInv
<1>3. PICK kept \in SUBSET pending : dev' = Flushed(medium, kept)
  BY DEF PowerLoss
<1>4. DOMAIN dev' = Address /\ DOMAIN medium' = Address
  BY <1>1, <1>2, <1>3 DEF Flushed, StoreTypes
<1>5. StoreTypes'
  BY <1>1, <1>2, <1>4 DEF StoreTypes, parsed
<1>6. CASE pc # "done"
  BY <1>1, <1>5, <1>6 DEF StoreInv, StoreParse, StoreInclude, StoreData, StoreTables, StoreFailed, StoreDone
<1>7. CASE pc = "done"
  <2>1. /\ KeptAll(input.conf) /\ Supplied /\ dev[0] = SuperBlock(0)
        /\ Written(NSlots) /\ DataIn(Len(data_list)) /\ pending = {} /\ medium = dev
    BY <1>7 DEF StoreInv, StoreDone
  <2>2. kept = {} /\ DOMAIN medium = Address
    BY <1>2, <1>3, <2>1 DEF StoreTypes
  <2>3. \A a \in Address : dev'[a] = dev[a]
    BY <1>3, <2>1, <2>2 DEF Flushed
  <2>4. /\ KeptAll(input.conf)' /\ Supplied' /\ dev'[0] = SuperBlock(0) /\ DataIn(Len(data_list))'
        /\ \A s \in Slots : dev'[TableAt(s)] = dev[TableAt(s)] /\ TableBlock(s)' = TableBlock(s)
    BY <1>1, <1>2, <1>4, <2>1, <2>3, SameStore
  <2>5. Written(NSlots)'
    <3>1. NSlots .. NSlots - 1 = {} /\ Slots = 0 .. NSlots - 1
      BY Sizes DEF Slots
    <3> QED BY <2>1, <2>4, <3>1 DEF Written
  <2> QED BY <1>1, <1>5, <1>7, <2>4, <2>5 DEF StoreInv, StoreParse, StoreInclude, StoreData, StoreTables, StoreFailed, StoreDone
<1> QED BY <1>6, <1>7

(* What is on the target, at every moment.                                 *)
LEMMA StoreStep ==
  ASSUME RefuseInv, StoreInv, [Next]_cvars
  PROVE  StoreInv'
<1>1. CASE UNCHANGED cvars
  <2>1. UNCHANGED <<input, pc, line, conf, device_id, confs, data_list, files, dev, medium, pending, off_i, extent>>
    BY <1>1 DEF cvars
  <2>2. Stock' = Stock /\ (KeptAll(input.conf)' <=> KeptAll(input.conf)) /\ (FilesFrom(input.dir, line)' <=> FilesFrom(input.dir, line))
    BY <2>1 DEF Stock, KeptAll, FilesFrom
  <2>3. Stocked(conf)' = Stocked(conf) /\ \A s \in Slots : Stocked(confs[s])' = Stocked(confs[s])
    BY <2>1, <2>2 DEF Stocked
  <2>4. Supplied' = Supplied
    BY <2>1, <2>2, <2>3 DEF Supplied
  <2>5. LastImages(input.conf, line)' = LastImages(input.conf, line) /\ KeptImages(input.conf, line)' = KeptImages(input.conf, line)
    BY <2>1 DEF LastImages, KeptImages
  <2>6. \A s : TableBlock(s)' = TableBlock(s)
    BY <2>1 DEF TableBlock, FirstFile, FreeBefore
  <2>7. \A m : Written(m)' = Written(m)
    BY <2>1, <2>6 DEF Written
  <2>9. StoreTypes'
    BY <2>1 DEF StoreInv, StoreTypes
  <2>10. StoreParse' /\ StoreInclude'
    BY <2>1, <2>2, <2>3, <2>4, <2>5 DEF StoreInv, StoreParse, StoreInclude
  <2>11. Written(0)' = Written(0) /\ DataIn(line - 1)' = DataIn(line - 1) /\ Written(line)' = Written(line)
         /\ DataIn(Len(data_list))' = DataIn(Len(data_list))
    BY <2>1 DEF Written, DataIn, Holds, TableBlock, FirstFile, FreeBefore
  <2>12. StoreData'
    BY <2>1, <2>2, <2>4, <2>11 DEF StoreInv, StoreData
  <2>13. StoreTables'
    BY <2>1, <2>2, <2>4, <2>11 DEF StoreInv, StoreTables
  <2>14. StoreFailed'
    BY <2>1, <2>2, <2>4, <2>7, <2>11 DEF StoreInv, StoreFailed
  <2>15. StoreDone'
    BY <2>1, <2>2, <2>4, <2>7, <2>11 DEF StoreInv, StoreDone
  <2> QED BY <2>9, <2>10, <2>12, <2>13, <2>14, <2>15 DEF StoreInv
<1> QED BY <1>1, ParseLineStoreInv, ParseEndStoreInv, IncludeStoreInv, WriteSbStoreInv, WriteDataStoreInv,
        DataEndStoreInv, WriteTableStoreInv, FinishStoreInv, KilledStoreInv, PowerLossStoreInv DEF Next

LEMMA StoreAlways == Spec => [](RefuseInv /\ StoreInv)
<1>1. Init => RefuseInv /\ StoreInv
  BY InitRefuse, StoreInit
<1>2. RefuseInv /\ StoreInv /\ [Next]_cvars => (RefuseInv /\ StoreInv)'
  BY StepRefuse, StoreStep
<1> QED BY <1>1, <1>2, PTL DEF Spec
-----------------------------------------------------------------------------
(* Reading back what was stored.                                           *)
LEMMA LoadHeld ==
  ASSUME NEW f \in DOMAIN Body, Holds(f), Body[f].size <= MaxImage
  PROVE  LoadImage(dev, extent[f].off, extent[f].len) = Payload(f)
<1> DEFINE o == extent[f].off
           n == extent[f].len
           p == Payload(f)
<1>1. Len(p) \in Nat /\ (Len(p) = 0 => p = <<>>) /\ Len(p) <= Body[f].size /\ p = [k \in 1 .. Len(p) |-> p[k]]
      /\ Body[f].size \in Nat
  BY PayloadFacts, InputAssumption
<1>2. /\ o \in Nat /\ o % Sector = 0 /\ n = Len(p) /\ o + n <= DevSize
      /\ \A k \in 1 .. n : dev[o + k - 1] = p[k]
  BY DEF Holds
<1>3. n \in Nat /\ n <= MaxImage /\ MaxImage \in Nat /\ DevSize \in Nat
  BY <1>1, <1>2, Sizes
<1> HIDE DEF o, n, p
<1>4. CASE n = 0
  <2>1. LoadImage(dev, o, n) = <<>>
    BY <1>4 DEF LoadImage
  <2> QED BY <1>1, <1>2, <1>4, <2>1 DEF o, n, p
<1>5. CASE n # 0
  <2>1. o + Roundup(n) <= DevSize
    BY <1>2, <1>3, RoundupInside
  <2>2. ~(o + Roundup(n) > DevSize) /\ ~(n > MaxImage)
    <3>1. Roundup(n) \in Nat
      BY <1>3, RoundupFacts
    <3> QED BY <1>2, <1>3, <2>1, <3>1
  <2>3. LoadImage(dev, o, n) = [k \in 1 .. n |-> dev[o + k - 1]]
    BY <1>2, <1>5, <2>2 DEF LoadImage
  <2>4. [k \in 1 .. n |-> dev[o + k - 1]] = [k \in 1 .. n |-> p[k]]
    BY <1>2
  <2> QED BY <1>1, <1>2, <2>3, <2>4 DEF o, n, p
<1> QED BY <1>4, <1>5

Loadable == \A f \in DOMAIN Body : Body[f].size <= MaxImage
LEMMA StockLoads ==
  ASSUME Loadable, StoreTypes, DataIn(Len(data_list)), NEW f \in Stock
  PROVE  f \in DOMAIN Body /\ LoadImage(dev, extent[f].off, extent[f].len) = Payload(f)
<1>1. data_list \in Seq(DOMAIN Body)
  BY DEF StoreTypes
<1>2. f \in DOMAIN Body /\ Holds(f)
  BY <1>1 DEF Stock, DataIn
<1> QED BY <1>2, LoadHeld DEF Loadable

(* A block of the table with a configuration gives the images asked for.   *)
LEMMA ConfLoads ==
  ASSUME Loadable, StoreTypes, DataIn(Len(data_list)), KeptAll(input.conf), Supplied,
         NEW n \in Numbers(input.conf), NEW s \in Slots, s = input.conf[n].val, dev[TableAt(s)] = TableBlock(s)
  PROVE  ConfAt(dev, s) /\ LoadConf(dev, s) = Wanted(n)
<1> DEFINE c == input.conf
           x == confs[s]
<1>1. x # NoConf /\ ImageLines(c, Section(c, n), x)
  BY DEF KeptAll
<1>2. x \in DoneType /\ x.images \in Seq(FileType)
  BY <1>1 DEF StoreTypes, DoneType
<1> DEFINE ims == x.images
           Table == [k \in DOMAIN ims |-> [type |-> ims[k].type, off |-> extent[ims[k].file].off, len |-> extent[ims[k].file].len]]
<1>3. TableBlock(s) = ConfBlock(Table)
  BY <1>1 DEF TableBlock
<1>4. dev[TableAt(s)].magic = ":BFCONF:" /\ dev[TableAt(s)].images = Table
  <2> HIDE DEF Table
  <2> QED BY <1>3 DEF ConfBlock
<1>5. \A j \in DOMAIN ims : ims[j].file \in Stock
  BY <1>1 DEF Supplied, Stocked
<1>6. \A j \in DOMAIN ims : LoadImage(dev, extent[ims[j].file].off, extent[ims[j].file].len) = Payload(ims[j].file)
  BY <1>5, StockLoads
<1> HIDE DEF x, ims
<1>7. DOMAIN Table = DOMAIN ims /\ \A j \in DOMAIN ims :
        Table[j].type = ims[j].type /\ LoadImage(dev, Table[j].off, Table[j].len) = Payload(ims[j].file)
  BY <1>6
<1> HIDE DEF Table
<1>8. LoadConf(dev, s) = {<<Table[j].type, LoadImage(dev, Table[j].off, Table[j].len)>> : j \in DOMAIN Table}
  BY <1>4 DEF LoadConf
<1>9. LoadConf(dev, s) = {<<ims[j].type, Payload(ims[j].file)>> : j \in DOMAIN ims}
  BY <1>7, <1>8
<1> DEFINE Lines == Images(c, n)
           Asked == {<<c[k].key, Payload(Real[c[k].val])>> : k \in Lines}
<1>10. Wanted(n) = Asked
  BY DEF Wanted
<1>11. /\ \A j \in DOMAIN ims : \E k \in Lines : ims[j] = ImageAt(c, k)
       /\ \A k \in Lines : \E j \in DOMAIN ims : ims[j] = ImageAt(c, k)
  BY <1>1 DEF ImageLines, Images, ims
<1> HIDE DEF Lines, c
<1>12. ASSUME NEW j \in DOMAIN ims PROVE <<ims[j].type, Payload(ims[j].file)>> \in Asked
  <2>1. PICK k \in Lines : ims[j] = ImageAt(c, k)
    BY <1>11
  <2>2. ims[j].type = c[k].key /\ ims[j].file = Real[c[k].val]
    BY <2>1 DEF ImageAt
  <2> QED BY <2>2
<1>13. ASSUME NEW k \in Lines PROVE <<c[k].key, Payload(Real[c[k].val])>> \in LoadConf(dev, s)
  <2>1. PICK j \in DOMAIN ims : ims[j] = ImageAt(c, k)
    BY <1>11
  <2>2. ims[j].type = c[k].key /\ ims[j].file = Real[c[k].val]
    BY <2>1 DEF ImageAt
  <2> QED BY <1>9, <2>2
<1>14. LoadConf(dev, s) = Asked
  BY <1>9, <1>12, <1>13
<1> QED BY <1>4, <1>10, <1>14 DEF ConfAt

(* Only such a block has the magic of one.                                 *)
LEMMA ConfBlockOnly ==
  ASSUME NEW s \in Slots, dev[TableAt(s)] = TableBlock(s), ConfAt(dev, s)
  PROVE  confs[s] # NoConf
<1>1. TableBlock(s).magic = ":BFCONF:"
  BY DEF ConfAt
<1>2. CASE confs[s] = NoConf
  BY <1>1, <1>2 DEF TableBlock, FilesBlock, Zeroed
<1> QED BY <1>2
-----------------------------------------------------------------------------
(* The least number of a set.                                              *)
LEMMA MinimalIn ==
  ASSUME NEW R, IsWellFoundedOn(R, Nat), NEW T, T \subseteq Nat, T # {}
  PROVE  \E x \in T : \A y \in T : ~(<<y, x>> \in R)
BY WFMin

LEMMA LeastBelow ==
  ASSUME NEW R, \A m, n \in Nat : m < n => <<m, n>> \in R, IsWellFoundedOn(R, Nat), NEW T, T \subseteq Nat, T # {}
  PROVE  \E x \in T : \A y \in T : x <= y
<1>1. \E x \in T : \A y \in T : ~(<<y, x>> \in R)
  BY MinimalIn, Zenon
<1>2. PICK x \in T : \A y \in T : ~(<<y, x>> \in R)
  BY <1>1, Zenon
<1>3. ASSUME NEW y \in T PROVE x <= y
  <2>1. x \in Nat /\ y \in Nat
    OBVIOUS
  <2>2. ~(<<y, x>> \in R)
    BY <1>2, Zenon
  <2>3. ~(y < x)
    BY <2>1, <2>2, Zenon
  <2> QED BY <2>1, <2>3
<1> QED BY <1>3

LEMMA LeastNatural ==
  ASSUME NEW T, T \subseteq Nat, T # {}
  PROVE  \E x \in T : \A y \in T : x <= y
<1>1. ASSUME NEW m \in Nat, NEW n \in Nat, m < n PROVE <<m, n>> \in OpToRel(<, Nat)
  BY <1>1, Zenon DEF OpToRel
<1>2. IsWellFoundedOn(OpToRel(<, Nat), Nat)
  BY NatLessThanWellFounded, Zenon
<1> DEFINE R == OpToRel(<, Nat)
<1>3. (\A m, n \in Nat : m < n => <<m, n>> \in R) /\ IsWellFoundedOn(R, Nat)
  BY <1>1, <1>2, Zenon
<1> HIDE DEF R
<1> QED BY <1>3, LeastBelow, Zenon

(* The first of a set of entries in the order of bootfs_load_file().       *)
LEMMA FirstEntry ==
  ASSUME NEW L, L \subseteq Nat \X Nat, L # {}
  PROVE  \E p \in L : \A q \in L : p[1] < q[1] \/ (p[1] = q[1] /\ p[2] <= q[2])
<1> DEFINE A == {p[1] : p \in L}
<1>1. A \subseteq Nat /\ A # {}
  OBVIOUS
<1>2. PICK a \in A : \A y \in A : a <= y
  <2> HIDE DEF A
  <2> QED BY <1>1, LeastNatural
<1> DEFINE B == {p[2] : p \in {q \in L : q[1] = a}}
<1>3. B \subseteq Nat /\ B # {}
  BY <1>2
<1>4. PICK b \in B : \A y \in B : b <= y
  <2> HIDE DEF A, B
  <2> QED BY <1>3, LeastNatural
<1>5. PICK p \in L : p[1] = a /\ p[2] = b
  BY <1>4
<1>6. ASSUME NEW q \in L PROVE p[1] < q[1] \/ (p[1] = q[1] /\ p[2] <= q[2])
  <2>1. q[1] \in A /\ q[1] \in Nat /\ a \in Nat /\ a <= q[1]
    BY <1>1, <1>2, <1>6
  <2>2. CASE q[1] = a
    BY <1>4, <1>5, <2>2
  <2>3. CASE q[1] # a
    BY <1>5, <2>1, <2>3
  <2> QED BY <2>2, <2>3
<1> QED BY <1>5, <1>6
-----------------------------------------------------------------------------
(* The list of files, block by block.                                      *)
EntryOf(x) == [name |-> x.name, off |-> extent[x.file].off, len |-> extent[x.file].len]
LEMMA FreeCount ==
  ASSUME NEW n \in Nat
  PROVE  FreeBefore(n) \in Nat /\ FirstFile(n) \in Nat /\ FirstFile(n) >= 1 /\ FirstFile(n) = FreeBefore(n) * PerBlock + 1
<1>1. IsFiniteSet(0 .. n - 1)
  BY FS_Interval
<1>2. IsFiniteSet({m \in 0 .. n - 1 : confs[m] = NoConf})
  BY <1>1, FS_Subset
<1>3. FreeBefore(n) \in Nat
  BY <1>2, FS_CardinalityType DEF FreeBefore
<1>4. FreeBefore(n) * PerBlock \in Nat
  BY <1>3, Sizes
<1> QED BY <1>3, <1>4 DEF FirstFile

LEMMA FilesBlockFacts ==
  ASSUME StoreTypes, NEW s \in Slots
  PROVE  /\ TableBlock(s).magic = ":BFILES:" <=> (confs[s] = NoConf /\ FirstFile(s) <= Len(files))
         /\ TableBlock(s).magic = ":BFILES:" => \A i \in 1 .. PerBlock :
              /\ i <= Len(TableBlock(s).files) <=> FirstFile(s) + i - 1 <= Len(files)
              /\ i <= Len(TableBlock(s).files) => FirstFile(s) + i - 1 \in DOMAIN files
                   /\ TableBlock(s).files[i] = EntryOf(files[FirstFile(s) + i - 1])
<1> DEFINE F == FirstFile(s)
           U == Min({F + PerBlock - 1, Len(files)})
           some == SubSeq(files, F, U)
           list == [k \in DOMAIN some |-> EntryOf(some[k])]
<1>1. F \in Nat /\ F >= 1 /\ PerBlock \in Nat /\ PerBlock >= 1
  BY FreeCount, SlotNumbers, Sizes
<1>2. files \in Seq(FileEntry) /\ Len(files) \in Nat /\ DOMAIN files = 1 .. Len(files)
  BY DEF StoreTypes, FileEntry
<1>3. CASE confs[s] # NoConf
  BY <1>3 DEF TableBlock, ConfBlock
<1>4. CASE confs[s] = NoConf /\ ~(F <= Len(files))
  BY <1>4 DEF TableBlock, Zeroed
<1>5. CASE confs[s] = NoConf /\ F <= Len(files)
  <2>1. TableBlock(s) = FilesBlock(list)
    BY <1>5 DEF TableBlock, EntryOf
  <2>2. TableBlock(s).magic = ":BFILES:" /\ TableBlock(s).files = list
    <3> HIDE DEF list
    <3> QED BY <2>1 DEF FilesBlock
  <2>3. U \in Nat /\ U <= Len(files) /\ U <= F + PerBlock - 1 /\ (U = Len(files) \/ U = F + PerBlock - 1)
    <3> DEFINE a == F + PerBlock - 1
               b == Len(files)
    <3>1. a \in Nat /\ b \in Nat
      BY <1>1, <1>2
    <3> HIDE DEF a, b
    <3>2. \E x \in {a, b} : \A y \in {a, b} : x <= y
      BY <3>1
    <3>3. Min({a, b}) \in {a, b} /\ \A y \in {a, b} : Min({a, b}) <= y
      BY <3>2 DEF Min
    <3> QED BY <3>1, <3>3 DEF a, b
  <2> HIDE DEF F, U
  <2>4. F <= U /\ \A i \in F .. U : files[i] \in FileEntry
    <3> DEFINE N == Len(files)
    <3>1. N \in Nat /\ U \in Nat /\ U <= N /\ F <= N /\ (U = N \/ U = F + PerBlock - 1)
      BY <1>2, <1>5, <2>3
    <3> HIDE DEF N
    <3>2. F <= U /\ \A i \in F .. U : i \in 1 .. N
      BY <1>1, <3>1
    <3> QED BY <1>2, <3>2 DEF N
  <2>5. /\ some \in Seq(FileEntry) /\ Len(some) = U - F + 1
        /\ \A i \in 1 .. U - F + 1 : some[i] = files[F + i - 1]
    BY <1>1, <2>3, <2>4, SubSeqProperties
  <2> HIDE DEF some
  <2>6. DOMAIN some = 1 .. U - F + 1 /\ U - F + 1 \in Nat
    BY <1>1, <2>3, <2>4, <2>5
  <2>7. list \in Seq({list[k] : k \in 1 .. U - F + 1}) /\ Len(list) = U - F + 1 /\ \A i \in DOMAIN some : list[i] = EntryOf(some[i])
    BY <2>6
  <2> HIDE DEF list
  <2>8. ASSUME NEW i \in 1 .. PerBlock
        PROVE  /\ i <= Len(list) <=> F + i - 1 <= Len(files)
               /\ i <= Len(list) => F + i - 1 \in DOMAIN files /\ list[i] = EntryOf(files[F + i - 1])
    <3>1. i <= Len(list) <=> F + i - 1 <= Len(files)
      <4> DEFINE N == Len(files)
                 M == Len(list)
      <4>1. N \in Nat /\ U \in Nat /\ U <= N /\ U <= F + PerBlock - 1 /\ (U = N \/ U = F + PerBlock - 1)
        BY <1>2, <2>3
      <4>2. M = U - F + 1
        BY <2>7
      <4> HIDE DEF N, M
      <4>3. i <= M <=> F + i - 1 <= N
        BY <1>1, <4>1, <4>2
      <4> QED BY <4>3 DEF N, M
    <3>2. ASSUME i <= Len(list) PROVE F + i - 1 \in DOMAIN files /\ list[i] = EntryOf(files[F + i - 1])
      <4>1. i \in 1 .. U - F + 1 /\ F + i - 1 >= 1 /\ F + i - 1 \in Nat
        BY <1>1, <2>3, <2>7, <3>2
      <4>2. i \in DOMAIN some /\ some[i] = files[F + i - 1]
        BY <2>5, <2>6, <4>1
      <4>3. F + i - 1 \in DOMAIN files
        BY <1>2, <3>1, <3>2, <4>1
      <4> QED BY <2>7, <4>2, <4>3
    <3> QED BY <3>1, <3>2
  <2> QED BY <1>5, <2>2, <2>8 DEF F
<1> QED BY <1>3, <1>4, <1>5

(* A file of the list that the reader finds is loaded as it was stored.    *)
LEMMA ListedLoads ==
  ASSUME Loadable, StoreTypes, Supplied, DataIn(Len(data_list)), NEW k \in DOMAIN files,
         Listed(dev, files[k].name) # {},
         \A p \in Listed(dev, files[k].name) : dev[TableAt(p[1])] = TableBlock(p[1])
  PROVE  LoadFile(dev, files[k].name) = Payload(files[k].file)
<1> DEFINE name == files[k].name
           L == Listed(dev, name)
           Least(p) == \A q \in L : p[1] < q[1] \/ (p[1] = q[1] /\ p[2] <= q[2])
           first == CHOOSE p \in L : Least(p)
<1>1. L # {} /\ L \subseteq Nat \X Nat
  <2>1. L \subseteq Slots \X (1 .. PerBlock) /\ L # {}
    BY DEF Listed
  <2>2. Slots \subseteq Nat /\ 1 .. PerBlock \subseteq Nat
    BY SlotNumbers
  <2> HIDE DEF L
  <2> QED BY <2>1, <2>2
<1>2. first \in L
  <2>1. \E p \in L : Least(p)
    <3> HIDE DEF L
    <3> QED BY <1>1, FirstEntry
  <2> HIDE DEF L, Least
  <2> QED BY <2>1
<1>3. LoadFile(dev, name) = LoadImage(dev, dev[TableAt(first[1])].files[first[2]].off, dev[TableAt(first[1])].files[first[2]].len)
  BY DEF LoadFile
<1>4. /\ first[1] \in Slots /\ first[2] \in 1 .. PerBlock /\ dev[TableAt(first[1])].magic = ":BFILES:"
      /\ first[2] <= Len(dev[TableAt(first[1])].files) /\ dev[TableAt(first[1])].files[first[2]].name = name
      /\ dev[TableAt(first[1])] = TableBlock(first[1])
  <2> HIDE DEF first
  <2>1. first \in Listed(dev, name)
    BY <1>2
  <2> QED BY <2>1 DEF Listed
<1> HIDE DEF first, L
<1> DEFINE j == FirstFile(first[1]) + first[2] - 1
<1>5. j \in DOMAIN files /\ dev[TableAt(first[1])].files[first[2]] = EntryOf(files[j])
  BY <1>4, FilesBlockFacts
<1> HIDE DEF j
<1>6. files[j].name = name
  BY <1>4, <1>5 DEF EntryOf
<1>7. j = k
  BY <1>5, <1>6 DEF Supplied
<1>8. files[k].file \in Stock
  BY DEF Supplied
<1>9. LoadImage(dev, extent[files[k].file].off, extent[files[k].file].len) = Payload(files[k].file)
  BY <1>8, StockLoads
<1> QED BY <1>3, <1>5, <1>7, <1>9 DEF EntryOf

(* In a fresh image file only the blocks written so far list files.        *)
LEMMA OnlyWritten ==
  ASSUME NEW m \in 0 .. NSlots, Written(m), input.target = "regular", NEW name, NEW p \in Listed(dev, name)
  PROVE  m > 0 /\ dev[TableAt(p[1])] = TableBlock(p[1])
<1>1. p[1] \in Slots /\ dev[TableAt(p[1])].magic = ":BFILES:"
  BY DEF Listed
<1>2. m \in Nat /\ NSlots \in Nat
  BY Sizes
<1> DEFINE s == p[1]
<1>3. s \in Slots /\ dev[TableAt(s)].magic = ":BFILES:"
  BY <1>1
<1> HIDE DEF s
<1>4. CASE s \in 0 .. m - 1
  BY <1>2, <1>4 DEF Written, s
<1>5. CASE s \in m .. NSlots - 1
  BY <1>3, <1>5 DEF Written, Zeroed
<1> QED BY <1>2, <1>3, <1>4, <1>5 DEF Slots

LEMMA SoundBlocks ==
  ASSUME Loadable, StoreTypes, KeptAll(input.conf), Supplied,
         NEW m \in 0 .. NSlots, Written(m), m > 0 => DataIn(Len(data_list))
  PROVE  /\ \A s \in Slots : ConfAt(dev, s) /\ Fresh(s) =>
              \E n \in Numbers(input.conf) : input.conf[n].val = s /\ LoadConf(dev, s) = Wanted(n)
         /\ input.target = "regular" =>
              \A k \in DOMAIN files : LoadFile(dev, files[k].name) \in {Failed, Payload(files[k].file)}
<1>1. m \in Nat /\ NSlots \in Nat
  BY Sizes
<1>2. ASSUME NEW s \in Slots, ConfAt(dev, s), Fresh(s)
      PROVE  \E n \in Numbers(input.conf) : input.conf[n].val = s /\ LoadConf(dev, s) = Wanted(n)
  <2>1. CASE s \in m .. NSlots - 1
    <3>1. input.target = "regular"
      BY <1>2, <2>1 DEF Written, Fresh
    <3>2. dev[TableAt(s)] = Zeroed
      BY <2>1, <3>1 DEF Written
    <3> QED BY <1>2, <3>2 DEF ConfAt, Zeroed
  <2>2. CASE s \in 0 .. m - 1
    <3>1. dev[TableAt(s)] = TableBlock(s) /\ m > 0
      BY <1>1, <2>2 DEF Written
    <3>2. confs[s] # NoConf
      BY <1>2, <3>1, ConfBlockOnly
    <3>3. PICK n \in Numbers(input.conf) : input.conf[n].val = s
      BY <3>2 DEF KeptAll
    <3>4. LoadConf(dev, s) = Wanted(n)
      BY <3>1, <3>3, ConfLoads
    <3> QED BY <3>3, <3>4
  <2> QED BY <1>1, <2>1, <2>2 DEF Slots
<1>3. ASSUME input.target = "regular", NEW k \in DOMAIN files
      PROVE  LoadFile(dev, files[k].name) \in {Failed, Payload(files[k].file)}
  <2>1. CASE Listed(dev, files[k].name) = {}
    BY <2>1 DEF LoadFile
  <2>2. CASE Listed(dev, files[k].name) # {}
    <3>1. m > 0 /\ \A p \in Listed(dev, files[k].name) : dev[TableAt(p[1])] = TableBlock(p[1])
      BY <1>3, <2>2, OnlyWritten
    <3>2. LoadFile(dev, files[k].name) = Payload(files[k].file)
      BY <2>2, <3>1, ListedLoads
    <3> QED BY <3>2
  <2> QED BY <2>1, <2>2
<1> QED BY <1>2, <1>3

(* Wherever p-boot-conf is killed, the blocks it has written lead only to *)
(* data it has written (data first, then the table), for every boot.conf,  *)
(* directory, geometry and device, provided that no file is larger than    *)
(* what the bootloader loads: bootfs_load_image() refuses more than 512    *)
(* MiB, which the tool does not look at.                                   *)
THEOREM InterruptionSafe ==
  ASSUME \A f \in DOMAIN Body : Body[f].size <= MaxImage
  PROVE  Spec => []KilledSound
<1>1. Loadable
  BY DEF Loadable
<1>2. ASSUME RefuseInv, StoreInv, pc \in {"data", "tables", "failed"}, pending # {}
      PROVE  /\ StoreTypes /\ KeptAll(input.conf) /\ Supplied
             /\ \E m \in 0 .. NSlots : Written(m) /\ (m > 0 => DataIn(Len(data_list)))
  <2>1. CASE pc = "data"
    <3>1. 0 \in 0 .. NSlots /\ ~(0 > 0)
      BY Sizes
    <3> QED BY <1>2, <2>1, <3>1 DEF StoreInv, StoreData
  <2>2. CASE pc = "tables"
    BY <1>2, <2>2 DEF StoreInv, StoreTables
  <2>3. CASE pc = "failed"
    BY <1>2, <2>3 DEF StoreInv, StoreFailed
  <2> QED BY <1>2, <2>1, <2>2, <2>3
<1>3. RefuseInv /\ StoreInv => KilledSound
  BY <1>1, <1>2, SoundBlocks DEF KilledSound
<1> QED BY <1>3, StoreAlways, PTL
-----------------------------------------------------------------------------
(* Room for the files: the slots that no configuration takes.              *)
Unused(t) == {m \in 0 .. t - 1 : confs[m] = NoConf}
LEMMA FreeStep ==
  ASSUME NEW t \in Nat
  PROVE  FreeBefore(t + 1) = IF confs[t] = NoConf THEN FreeBefore(t) + 1 ELSE FreeBefore(t)
<1>1. IsFiniteSet(Unused(t)) /\ t \notin Unused(t) /\ FreeBefore(t) = Cardinality(Unused(t))
      /\ FreeBefore(t + 1) = Cardinality(Unused(t + 1))
  <2>1. IsFiniteSet(0 .. t - 1)
    BY FS_Interval
  <2>2. Unused(t) \in SUBSET (0 .. t - 1) /\ t \notin 0 .. t - 1
    BY DEF Unused
  <2>3. FreeBefore(t) = Cardinality(Unused(t)) /\ FreeBefore(t + 1) = Cardinality(Unused(t + 1))
    BY DEF FreeBefore, Unused
  <2> QED BY <2>1, <2>2, <2>3, FS_Subset
<1>2. 0 .. (t + 1) - 1 = (0 .. t - 1) \cup {t}
  OBVIOUS
<1>3. CASE confs[t] = NoConf
  <2>1. Unused(t + 1) = Unused(t) \cup {t}
    BY <1>2, <1>3 DEF Unused
  <2> QED BY <1>1, <1>3, <2>1, FS_AddElement
<1>4. CASE confs[t] # NoConf
  <2>1. Unused(t + 1) = Unused(t)
    BY <1>2, <1>4 DEF Unused
  <2> QED BY <1>1, <1>4, <2>1
<1> QED BY <1>3, <1>4

LEMMA NoneBefore == FreeBefore(0) = 0
<1>1. {m \in 0 .. 0 - 1 : confs[m] = NoConf} = {}
  OBVIOUS
<1> QED BY <1>1, FS_EmptySet DEF FreeBefore

(* Between none and q + 1 free slots there is the (q + 1)-st.              *)
LEMMA FreeSlot ==
  ASSUME NEW q \in Nat, FreeBefore(NSlots) > q
  PROVE  \E s \in Slots : confs[s] = NoConf /\ FreeBefore(s) = q
<1> DEFINE T == {t \in Nat : t <= NSlots /\ FreeBefore(t) > q}
<1>1. NSlots \in Nat /\ NSlots \in T
  BY Sizes
<1>2. T \subseteq Nat /\ T # {}
  BY <1>1
<1>3. PICK t \in T : \A y \in T : t <= y
  <2> HIDE DEF T
  <2> QED BY <1>2, LeastNatural
<1>4. t \in Nat /\ t <= NSlots /\ FreeBefore(t) > q
  BY <1>3
<1>5. t # 0
  BY <1>4, NoneBefore
<1> DEFINE s == t - 1
<1>6. s \in Nat /\ s < t /\ s + 1 = t
  BY <1>4, <1>5
<1>7. s \in Slots
  BY <1>1, <1>4, <1>6 DEF Slots
<1> HIDE DEF s
<1>8. FreeBefore(s) \in Nat /\ FreeBefore(t) \in Nat
  BY <1>4, <1>6, FreeCount
<1>9. ~(FreeBefore(s) > q)
  <2>1. s <= NSlots
    BY <1>1, <1>4, <1>6
  <2>2. s \notin T
    <3> HIDE DEF T
    <3>1. s \in T => t <= s
      BY <1>3
    <3> QED BY <1>4, <1>6, <3>1
  <2> QED BY <1>6, <2>1, <2>2
<1>10. FreeBefore(t) = IF confs[s] = NoConf THEN FreeBefore(s) + 1 ELSE FreeBefore(s)
  BY <1>6, FreeStep
<1>11. confs[s] = NoConf /\ FreeBefore(s) = q
  BY <1>4, <1>8, <1>9, <1>10
<1> QED BY <1>7, <1>11

(* Every number of boot.conf takes one slot.                               *)
LEMMA FreeSlots ==
  ASSUME RefuseInv, Valid(input.conf), KeptAll(input.conf)
  PROVE  Cardinality(Numbers(input.conf)) \in Nat /\ FreeBefore(NSlots) = NSlots - Cardinality(Numbers(input.conf))
<1> DEFINE c == input.conf
           Nums == Numbers(c)
           Used == {s \in Slots : confs[s] # NoConf}
           f == [n \in Nums |-> c[n].val]
<1>1. IsConf(c)
  BY Inputs DEF RefuseInv
<1>2. IsFiniteSet(Nums)
  <2>1. Len(c) \in Nat /\ Nums \in SUBSET (1 .. Len(c))
    BY <1>1 DEF IsConf, Numbers
  <2>2. IsFiniteSet(1 .. Len(c))
    BY <2>1, FS_Interval
  <2> HIDE DEF Nums, c
  <2> QED BY <2>1, <2>2, FS_Subset
<1>3. /\ \A n \in Nums : c[n].val \in Used
      /\ \A s \in Used : \E n \in Nums : c[n].val = s
      /\ \A m, n \in Nums : c[m].val = c[n].val => m = n
  BY DEF KeptAll, Valid
<1> HIDE DEF Nums, c, Used
<1>4. f \in Surjection(Nums, Used) /\ f \in Injection(Nums, Used)
  BY <1>3 DEF Surjection, Injection, IsInjective
<1>5. Cardinality(Used) = Cardinality(Nums)
  <2> HIDE DEF f
  <2> QED BY <1>2, <1>4, FS_Surjection
<1>6. IsFiniteSet(Slots) /\ Cardinality(Slots) = NSlots
  <2>1. NSlots \in Nat /\ NSlots >= 1
    BY Sizes
  <2>2. IsFiniteSet(0 .. NSlots - 1) /\ Cardinality(0 .. NSlots - 1) = (NSlots - 1) - 0 + 1
    BY <2>1, FS_Interval
  <2> QED BY <2>1, <2>2 DEF Slots
<1>7. Slots \cap Used = Used /\ Slots \ Used = {m \in Slots : confs[m] = NoConf}
  BY DEF Used
<1>8. Cardinality(Slots \ Used) = Cardinality(Slots) - Cardinality(Slots \cap Used)
  BY <1>6, FS_Difference
<1>9. FreeBefore(NSlots) = Cardinality(Slots \ Used)
  BY <1>7 DEF FreeBefore, Slots
<1>10. Cardinality(Nums) \in Nat
  BY <1>2, FS_CardinalityType
<1> QED BY <1>5, <1>6, <1>7, <1>8, <1>9, <1>10 DEF Nums, c

(* The place of file k of the list.                                        *)
LEMMA FilePlace ==
  ASSUME StoreTypes, Written(NSlots), NEW k \in DOMAIN files, NEW free \in Nat, free = FreeBefore(NSlots), k <= PerBlock * free
  PROVE  Listed(dev, files[k].name) # {}
<1> DEFINE q == (k - 1) \div PerBlock
           r == (k - 1) % PerBlock
<1>1. k \in Nat /\ k >= 1 /\ k <= Len(files) /\ Len(files) \in Nat /\ k - 1 \in Nat
  BY DEF StoreTypes
<1>2. PerBlock \in Nat /\ PerBlock >= 1
  BY Sizes
<1>3. q \in Nat /\ r \in 0 .. PerBlock - 1 /\ k - 1 = PerBlock * q + r
  <2> DEFINE x == k - 1
  <2>1. x \in Nat /\ q = x \div PerBlock /\ r = x % PerBlock
    BY <1>1
  <2> HIDE DEF x, q, r
  <2>2. x \div PerBlock \in Nat
    BY <1>2, <2>1
  <2>3. x % PerBlock \in 0 .. PerBlock - 1
    BY <1>2, <2>1
  <2>4. x = PerBlock * (x \div PerBlock) + (x % PerBlock)
    BY <1>2, <2>1
  <2> QED BY <2>1, <2>2, <2>3, <2>4 DEF x
<1> HIDE DEF q, r
<1>4. q < free
  <2>1. CASE free <= q
    <3>1. free * PerBlock <= q * PerBlock
      <4>1. CASE free = q
        BY <1>2, <1>3, <4>1
      <4>2. CASE free < q
        BY <1>2, <1>3, <4>2, Products
      <4> QED BY <1>3, <2>1, <4>1, <4>2
    <3>2. PerBlock * free = free * PerBlock /\ PerBlock * q = q * PerBlock /\ PerBlock * free \in Nat /\ PerBlock * q \in Nat
      BY <1>2, <1>3
    <3> QED BY <1>1, <1>2, <1>3, <3>1, <3>2
  <2> QED BY <1>3, <2>1
<1>5. PICK s \in Slots : confs[s] = NoConf /\ FreeBefore(s) = q
  BY <1>3, <1>4, FreeSlot
<1>6. FirstFile(s) = q * PerBlock + 1 /\ FirstFile(s) \in Nat
  BY <1>5, FreeCount, SlotNumbers
<1> DEFINE i == r + 1
<1>7. q * PerBlock = PerBlock * q /\ PerBlock * q \in Nat
  BY <1>2, <1>3
<1>8. i \in 1 .. PerBlock /\ FirstFile(s) + i - 1 = k /\ FirstFile(s) <= Len(files)
  BY <1>1, <1>2, <1>3, <1>6, <1>7
<1> HIDE DEF i
<1>9. TableBlock(s).magic = ":BFILES:"
  BY <1>5, <1>8, FilesBlockFacts
<1>10. i <= Len(TableBlock(s).files) /\ TableBlock(s).files[i] = EntryOf(files[k])
  BY <1>1, <1>8, <1>9, FilesBlockFacts
<1>11. dev[TableAt(s)] = TableBlock(s)
  BY Sizes DEF Written, Slots
<1>12. TableBlock(s).files[i].name = files[k].name
  BY <1>10 DEF EntryOf
<1>13. <<s, i>> \in Slots \X (1 .. PerBlock) /\ <<s, i>>[1] = s /\ <<s, i>>[2] = i
  BY <1>8
<1>14. <<s, i>> \in Listed(dev, files[k].name)
  BY <1>9, <1>10, <1>11, <1>12, <1>13 DEF Listed
<1> QED BY <1>14

(* Once p-boot-conf has returned 0 the bootloader finds all it was told,   *)
(* for every boot.conf, directory, geometry and device, with or without a  *)
(* power loss after the final sync(); files as in InterruptionSafe.        *)
THEOREM StoredAsAsked ==
  ASSUME \A f \in DOMAIN Body : Body[f].size <= MaxImage
  PROVE  Spec => []RoundTrip
<1>1. Loadable
  BY DEF Loadable
<1>2. RefuseInv /\ StoreInv => ConfToolTypeOK
  BY DEF RefuseInv, ToolTypes, StoreInv, StoreTypes, ConfToolTypeOK, DoneType, FileType
<1>3. ASSUME RefuseInv, StoreInv, pc = "done"
      PROVE  /\ dev[0].magic = ":BOOTFS:"
             /\ \A n \in Numbers(input.conf) :
                  LET no == input.conf[n].val IN ConfAt(dev, no) /\ LoadConf(dev, no) = Wanted(n)
             /\ \A s \in Slots : ConfAt(dev, s) => \E n \in Numbers(input.conf) : input.conf[n].val = s
             /\ \A k \in 1 .. Min({Room, Len(files)}) : LoadFile(dev, files[k].name) = Payload(files[k].file)
  <2>1. /\ StoreTypes /\ KeptAll(input.conf) /\ Supplied /\ dev[0] = SuperBlock(0)
        /\ Written(NSlots) /\ DataIn(Len(data_list)) /\ Valid(input.conf)
    BY <1>3 DEF StoreInv, StoreDone, RefuseInv, Ended, Accepted
  <2>2. \A s \in Slots : dev[TableAt(s)] = TableBlock(s)
    BY <2>1 DEF Written, Slots
  <2>3. dev[0].magic = ":BOOTFS:"
    BY <2>1 DEF SuperBlock
  <2>4. ASSUME NEW n \in Numbers(input.conf)
        PROVE  ConfAt(dev, input.conf[n].val) /\ LoadConf(dev, input.conf[n].val) = Wanted(n)
    <3>1. input.conf[n].val \in Slots
      BY <2>1 DEF KeptAll
    <3> QED BY <1>1, <2>1, <2>2, <3>1, ConfLoads
  <2>5. ASSUME NEW s \in Slots, ConfAt(dev, s) PROVE \E n \in Numbers(input.conf) : input.conf[n].val = s
    <3>1. confs[s] # NoConf
      BY <2>2, <2>5, ConfBlockOnly
    <3> QED BY <2>1, <3>1 DEF KeptAll
  <2>6. ASSUME NEW k \in 1 .. Min({Room, Len(files)}) PROVE LoadFile(dev, files[k].name) = Payload(files[k].file)
    <3> DEFINE free == NSlots - Cardinality(Numbers(input.conf))
               N == Len(files)
    <3>1. free = FreeBefore(NSlots) /\ free \in Nat /\ N \in Nat /\ DOMAIN files = 1 .. N
      BY <1>3, <2>1, FreeSlots, FreeCount, Sizes DEF StoreTypes
    <3>2. Room = PerBlock * free
      BY DEF Room
    <3> HIDE DEF free, N
    <3>3. Room \in Nat
      BY <3>1, <3>2, Sizes
    <3>4. k \in Nat /\ k >= 1 /\ k <= Room /\ k <= N
      <4>1. \E x \in {Room, N} : \A y \in {Room, N} : x <= y
        BY <3>1, <3>3
      <4>2. Min({Room, N}) \in {Room, N} /\ \A y \in {Room, N} : Min({Room, N}) <= y
        BY <4>1 DEF Min
      <4>3. k \in 1 .. Min({Room, N})
        BY <2>6 DEF N
      <4> QED BY <3>1, <3>3, <4>2, <4>3
    <3>5. k \in DOMAIN files /\ k <= PerBlock * free
      BY <3>1, <3>2, <3>4
    <3>6. Listed(dev, files[k].name) # {}
      BY <2>1, <3>1, <3>5, FilePlace
    <3>7. \A p \in Listed(dev, files[k].name) : p[1] \in Slots /\ dev[TableAt(p[1])] = TableBlock(p[1])
      BY <2>2 DEF Listed
    <3> QED BY <1>1, <2>1, <3>5, <3>6, <3>7, ListedLoads
  <2> QED BY <2>3, <2>4, <2>5, <2>6
<1>4. RefuseInv /\ StoreInv => RoundTrip
  BY <1>2, <1>3 DEF RoundTrip
<1> QED BY <1>4, StoreAlways, PTL
=============================================================================
