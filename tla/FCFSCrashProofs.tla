--------------------------- MODULE FCFSCrashProofs ---------------------------
(***************************************************************************)
(* The device under a volume whose process may be killed between any two   *)
(* writes: volumes, files and numbers of kills of every size.              *)
(***************************************************************************)
EXTENDS FCFSCrash, FCFSAllocProofs, SequenceTheorems

(* The kinds of write. *)
OwnW     == [w : {"own"}, p : Block, f : File, i : Nat]
DropW    == [w : {"drop"}, c : Cluster, f : File]
BitW     == [w : {"bit"}, c : Cluster]
TakeW    == [w : {"take"}, f : File, c : Cluster, kept : BOOLEAN]
ListW    == [w : {"list"}, f : File, c : Cluster]
ReleaseW == [w : {"release"}, f : File]
DirW     == [w : {"dir"}, i : 1..BPC, len : 0..(PerBlock * BPC), slot : [RootSlot -> 0..(NF - 1)]]
HeadW    == [w : {"head"}, p : Block, x : Content]
DataW    == [w : {"data"}, p : Block, x : Content]
SizeW    == [w : {"size"}, p : Block, n : Nat]
WildW    == [w : {"wild"}]

\* A write is of one of these kinds.
LEMMA WriteKinds ==
  Writes = OwnW \cup DropW \cup BitW \cup TakeW \cup ListW \cup ReleaseW
             \cup DirW \cup HeadW \cup DataW \cup SizeW \cup WildW
<1>1. [w : {"head", "data"}, p : Block, x : Content] = HeadW \cup DataW
  BY DEF HeadW, DataW
<1>2. QED
  BY <1>1, Zenon DEF Writes, OwnW, DropW, BitW, TakeW, ListW, ReleaseW, DirW, SizeW, WildW

\* The sizes are numbers.
LEMMA Sizes ==
  /\ NC \in Nat /\ BPC \in Nat \ {0} /\ NF \in Nat \ {0}
  /\ File \subseteq Nat \ {0} /\ File \subseteq 0..(NF - 1)
  /\ Cluster \subseteq Nat /\ Slot \subseteq Nat
  BY SizeAssumption, CrashAssumption DEF File, Cluster, Slot

\* The root directory has a number of slots.
LEMMA RootSize == PerBlock * BPC \in Nat
<1>1. PerBlock \in Nat /\ BPC \in Nat
  BY SizeAssumption, CrashAssumption
<1>2. QED
  BY <1>1

-----------------------------------------------------------------------------
(* What each kind of write does to the device.                              *)

\* The device a table of blocks, a bitmap, ... make.
LEMMA DeviceFields ==
  ASSUME NEW d \in Volume
  PROVE  /\ d.table \in [File -> [lnk : {0, 1}, clrs : Seq(Cluster)]]
         /\ d.ctab \in [Block -> [fid : 0..(NF - 1), num : Nat]]
         /\ d.bitmap \in [Cluster -> {0, 1}]
         /\ d.root \in [len : 0..(PerBlock * BPC), slot : [RootSlot -> 0..(NF - 1)]]
         /\ d.data \in [Block -> Content]
  BY DEF Volume, Table

\* Own: one entry of the cluster tables.
LEMMA AfterOwn ==
  ASSUME NEW d \in Volume, NEW w \in OwnW
  PROVE  After(d, w) = [d EXCEPT !.ctab[w.p] = [fid |-> w.f, num |-> w.i]]
  BY DEF After, OwnW

\* Drop: the blocks of one file in one cluster.
LEMMA AfterDrop ==
  ASSUME NEW d \in Volume, NEW w \in DropW
  PROVE  After(d, w) = [d EXCEPT !.ctab = [p \in Block |->
                          IF p[1] = w.c /\ d.ctab[p].fid = w.f THEN FreeEntry ELSE d.ctab[p]]]
  BY DEF After, DropW, Volume, Table

\* Bit: one bit.
LEMMA AfterBit ==
  ASSUME NEW d \in Volume, NEW w \in BitW
  PROVE  After(d, w) = [d EXCEPT !.bitmap = dev_upd_bitmap(d.bitmap, d.ctab, {w.c})]
  BY DEF After, BitW, Volume, Table

\* Take: an entry of the file table.
LEMMA AfterTake ==
  ASSUME NEW d \in Volume, NEW w \in TakeW
  PROVE  After(d, w) = [d EXCEPT !.table[w.f] = [lnk |-> 1, clrs |-> <<w.c>>]]
  BY DEF After, TakeW

\* List: the clusters of an entry of the file table.
LEMMA AfterList ==
  ASSUME NEW d \in Volume, NEW w \in ListW
  PROVE  After(d, w) = [d EXCEPT !.table[w.f].clrs =
                          IF w.c \in Range(d.table[w.f].clrs) THEN d.table[w.f].clrs
                          ELSE Append(d.table[w.f].clrs, w.c)]
  BY DEF After, ListW, Volume, Table

\* Release: the link count of an entry of the file table.
LEMMA AfterRelease ==
  ASSUME NEW d \in Volume, NEW w \in ReleaseW
  PROVE  After(d, w) = [d EXCEPT !.table[w.f].lnk = 0]
  BY DEF After, ReleaseW

\* Dir: the length and one block of the root directory.
LEMMA AfterDir ==
  ASSUME NEW d \in Volume, NEW w \in DirW
  PROVE  After(d, w) = [d EXCEPT !.root = [len |-> w.len, slot |-> [s \in RootSlot |->
                          IF DirBlock(s) = w.i THEN w.slot[s] ELSE d.root.slot[s]]]]
  BY DEF After, DirW, Volume, Table

\* Head, Data and Size: one block.
LEMMA AfterHead ==
  ASSUME NEW d \in Volume, NEW w \in HeadW
  PROVE  After(d, w) = [d EXCEPT !.data[w.p] = w.x]
  BY DEF After, HeadW

\* A block of payload keeps the size field of block 0.
LEMMA AfterData ==
  ASSUME NEW d \in Volume, NEW w \in DataW
  PROVE  After(d, w) = [d EXCEPT !.data[w.p] =
                          [w.x EXCEPT !.size = IF w.x.num = 0 THEN d.data[w.p].size ELSE 0]]
  BY DEF After, DataW

\* The size only grows.
LEMMA AfterSize ==
  ASSUME NEW d \in Volume, NEW w \in SizeW
  PROVE  After(d, w) = [d EXCEPT !.data[w.p].size = IF d.data[w.p].size < w.n THEN w.n ELSE d.data[w.p].size]
  BY DEF After, SizeW, Volume, Table

\* Wild: nothing that is followed.
LEMMA AfterWild ==
  ASSUME NEW d \in Volume, NEW w \in WildW
  PROVE  After(d, w) = d
  BY DEF After, WildW

(* The parts of a device. *)
Tables   == [File -> [lnk : {0, 1}, clrs : Seq(Cluster)]]
Ctabs    == [Block -> [fid : 0..(NF - 1), num : Nat]]
Bitmaps  == [Cluster -> {0, 1}]
Roots    == [len : 0..(PerBlock * BPC), slot : [RootSlot -> 0..(NF - 1)]]
Contents == [Block -> Content]

\* A device with one part replaced is a device that differs in this part.
LEMMA DeviceWith ==
  ASSUME NEW d \in Volume
  PROVE  /\ \A x \in Tables : LET e == [d EXCEPT !.table = x]
              IN e \in Volume /\ e.table = x /\ e.ctab = d.ctab /\ e.bitmap = d.bitmap /\ e.root = d.root /\ e.data = d.data
         /\ \A x \in Ctabs : LET e == [d EXCEPT !.ctab = x]
              IN e \in Volume /\ e.ctab = x /\ e.table = d.table /\ e.bitmap = d.bitmap /\ e.root = d.root /\ e.data = d.data
         /\ \A x \in Bitmaps : LET e == [d EXCEPT !.bitmap = x]
              IN e \in Volume /\ e.bitmap = x /\ e.ctab = d.ctab /\ e.table = d.table /\ e.root = d.root /\ e.data = d.data
         /\ \A x \in Roots : LET e == [d EXCEPT !.root = x]
              IN e \in Volume /\ e.root = x /\ e.ctab = d.ctab /\ e.bitmap = d.bitmap /\ e.table = d.table /\ e.data = d.data
         /\ \A x \in Contents : LET e == [d EXCEPT !.data = x]
              IN e \in Volume /\ e.data = x /\ e.ctab = d.ctab /\ e.bitmap = d.bitmap /\ e.root = d.root /\ e.table = d.table
<1>1. Volume = [table : Tables, ctab : Ctabs, bitmap : Bitmaps, root : Roots, data : Contents]
  BY DEF Volume, Table, Tables, Ctabs, Bitmaps, Roots, Contents
<1>2. d \in [table : Tables, ctab : Ctabs, bitmap : Bitmaps, root : Roots, data : Contents]
  BY <1>1
<1>3. QED
  BY <1>1, <1>2

\* Own writes the cluster tables only: one entry.
LEMMA OwnDoes ==
  ASSUME NEW d \in Volume, NEW w \in OwnW
  PROVE  LET e == After(d, w)
         IN /\ e \in Volume /\ e.table = d.table /\ e.bitmap = d.bitmap /\ e.root = d.root /\ e.data = d.data
            /\ e.ctab = [d.ctab EXCEPT ![w.p] = [fid |-> w.f, num |-> w.i]]
<1>1. w.p \in Block /\ [fid |-> w.f, num |-> w.i] \in [fid : 0..(NF - 1), num : Nat]
  BY Sizes DEF OwnW
<1>2. [d.ctab EXCEPT ![w.p] = [fid |-> w.f, num |-> w.i]] \in Ctabs
  BY <1>1, DeviceFields DEF Ctabs
<1>3. After(d, w) = [d EXCEPT !.ctab = [d.ctab EXCEPT ![w.p] = [fid |-> w.f, num |-> w.i]]]
  BY AfterOwn
<1>4. QED
  BY <1>2, <1>3, DeviceWith

\* Drop writes the cluster tables only: the blocks of one file in one cluster.
LEMMA DropDoes ==
  ASSUME NEW d \in Volume, NEW w \in DropW
  PROVE  LET e == After(d, w)
         IN /\ e \in Volume /\ e.table = d.table /\ e.bitmap = d.bitmap /\ e.root = d.root /\ e.data = d.data
            /\ e.ctab = [p \in Block |-> IF p[1] = w.c /\ d.ctab[p].fid = w.f THEN FreeEntry ELSE d.ctab[p]]
<1>1. FreeEntry \in [fid : 0..(NF - 1), num : Nat]
  BY Sizes DEF FreeEntry
<1> DEFINE x == [p \in Block |-> IF p[1] = w.c /\ d.ctab[p].fid = w.f THEN FreeEntry ELSE d.ctab[p]]
<1>2. x \in Ctabs
  BY <1>1, DeviceFields DEF Ctabs
<1>3. After(d, w) = [d EXCEPT !.ctab = x]
  BY AfterDrop
<1> HIDE DEF x
<1>4. LET e == [d EXCEPT !.ctab = x]
      IN e \in Volume /\ e.ctab = x /\ e.table = d.table /\ e.bitmap = d.bitmap /\ e.root = d.root /\ e.data = d.data
  BY <1>2, DeviceWith
<1>5. QED
  BY <1>3, <1>4, Zenon DEF x

\* Bit writes the bitmap only: one bit.
LEMMA BitDoes ==
  ASSUME NEW d \in Volume, NEW w \in BitW
  PROVE  LET e == After(d, w)
         IN /\ e \in Volume /\ e.table = d.table /\ e.ctab = d.ctab /\ e.root = d.root /\ e.data = d.data
            /\ e.bitmap = dev_upd_bitmap(d.bitmap, d.ctab, {w.c})
<1> DEFINE x == dev_upd_bitmap(d.bitmap, d.ctab, {w.c})
<1>1. x \in Bitmaps
  BY DeviceFields DEF dev_upd_bitmap, Bitmaps
<1>2. After(d, w) = [d EXCEPT !.bitmap = x]
  BY AfterBit
<1> HIDE DEF x
<1>3. LET e == [d EXCEPT !.bitmap = x]
      IN e \in Volume /\ e.bitmap = x /\ e.ctab = d.ctab /\ e.table = d.table /\ e.root = d.root /\ e.data = d.data
  BY <1>1, DeviceWith
<1>4. QED
  BY <1>2, <1>3, Zenon DEF x

\* Take, List and Release write the file table only: one entry.
LEMMA TakeDoes ==
  ASSUME NEW d \in Volume, NEW w \in TakeW
  PROVE  LET e == After(d, w)
         IN /\ e \in Volume /\ e.ctab = d.ctab /\ e.bitmap = d.bitmap /\ e.root = d.root /\ e.data = d.data
            /\ e.table = [d.table EXCEPT ![w.f] = [lnk |-> 1, clrs |-> <<w.c>>]]
<1>1. [lnk |-> 1, clrs |-> <<w.c>>] \in [lnk : {0, 1}, clrs : Seq(Cluster)]
  BY DEF TakeW
<1>2. [d.table EXCEPT ![w.f] = [lnk |-> 1, clrs |-> <<w.c>>]] \in Tables
  BY <1>1, DeviceFields DEF Tables
<1>3. After(d, w) = [d EXCEPT !.table = [d.table EXCEPT ![w.f] = [lnk |-> 1, clrs |-> <<w.c>>]]]
  BY AfterTake
<1>4. QED
  BY <1>2, <1>3, DeviceWith

\* A cluster is listed once.
LEMMA ListDoes ==
  ASSUME NEW d \in Volume, NEW w \in ListW
  PROVE  LET e == After(d, w)
             l == d.table[w.f].clrs
             m == IF w.c \in Range(l) THEN l ELSE Append(l, w.c)
         IN /\ e \in Volume /\ e.ctab = d.ctab /\ e.bitmap = d.bitmap /\ e.root = d.root /\ e.data = d.data
            /\ e.table = [d.table EXCEPT ![w.f] = [lnk |-> d.table[w.f].lnk, clrs |-> m]]
            /\ m \in Seq(Cluster)
<1> DEFINE l == d.table[w.f].clrs
           m == IF w.c \in Range(l) THEN l ELSE Append(l, w.c)
<1>1. w.f \in File /\ w.c \in Cluster /\ d.table[w.f] \in [lnk : {0, 1}, clrs : Seq(Cluster)]
  BY DeviceFields DEF ListW
<1>2. m \in Seq(Cluster)
  BY <1>1
<1>3. After(d, w) = [d EXCEPT !.table = [d.table EXCEPT ![w.f].clrs = m]]
  BY AfterList
<1> HIDE DEF m
<1>4. [d.table EXCEPT ![w.f].clrs = m] = [d.table EXCEPT ![w.f] = [d.table[w.f] EXCEPT !.clrs = m]]
  BY Zenon
<1>5. [d.table[w.f] EXCEPT !.clrs = m] = [lnk |-> d.table[w.f].lnk, clrs |-> m]
  BY <1>1
<1>6. [lnk |-> d.table[w.f].lnk, clrs |-> m] \in [lnk : {0, 1}, clrs : Seq(Cluster)]
  BY <1>1, <1>2
<1>7. [d.table EXCEPT ![w.f] = [lnk |-> d.table[w.f].lnk, clrs |-> m]] \in Tables
  BY <1>6, DeviceFields DEF Tables
<1>8. After(d, w) = [d EXCEPT !.table = [d.table EXCEPT ![w.f] = [lnk |-> d.table[w.f].lnk, clrs |-> m]]]
  BY <1>3, <1>4, <1>5, Zenon
<1>9. QED
  BY <1>2, <1>7, <1>8, DeviceWith DEF m

\* Release keeps the list of clusters.
LEMMA ReleaseDoes ==
  ASSUME NEW d \in Volume, NEW w \in ReleaseW
  PROVE  LET e == After(d, w)
         IN /\ e \in Volume /\ e.ctab = d.ctab /\ e.bitmap = d.bitmap /\ e.root = d.root /\ e.data = d.data
            /\ e.table = [d.table EXCEPT ![w.f] = [lnk |-> 0, clrs |-> d.table[w.f].clrs]]
<1>1. w.f \in File /\ d.table[w.f] \in [lnk : {0, 1}, clrs : Seq(Cluster)]
  BY DeviceFields DEF ReleaseW
<1>2. [d.table[w.f] EXCEPT !.lnk = 0] = [lnk |-> 0, clrs |-> d.table[w.f].clrs]
  BY <1>1
<1>3. [lnk |-> 0, clrs |-> d.table[w.f].clrs] \in [lnk : {0, 1}, clrs : Seq(Cluster)]
  BY <1>1
<1>4. [d.table EXCEPT ![w.f] = [lnk |-> 0, clrs |-> d.table[w.f].clrs]] \in Tables
  BY <1>3, DeviceFields DEF Tables
<1>5. After(d, w) = [d EXCEPT !.table = [d.table EXCEPT ![w.f].lnk = 0]]
  BY AfterRelease
<1>6. [d.table EXCEPT ![w.f].lnk = 0] = [d.table EXCEPT ![w.f] = [d.table[w.f] EXCEPT !.lnk = 0]]
  BY Zenon
<1>7. After(d, w) = [d EXCEPT !.table = [d.table EXCEPT ![w.f] = [lnk |-> 0, clrs |-> d.table[w.f].clrs]]]
  BY <1>2, <1>5, <1>6, Zenon
<1>8. QED
  BY <1>4, <1>7, DeviceWith

\* Dir writes the root directory only.
LEMMA DirDoes ==
  ASSUME NEW d \in Volume, NEW w \in DirW
  PROVE  LET e == After(d, w)
         IN /\ e \in Volume /\ e.table = d.table /\ e.ctab = d.ctab /\ e.bitmap = d.bitmap /\ e.data = d.data
            /\ e.root.len = w.len
            /\ \A s \in RootSlot : e.root.slot[s] = IF DirBlock(s) = w.i THEN w.slot[s] ELSE d.root.slot[s]
<1> DEFINE x == [s \in RootSlot |-> IF DirBlock(s) = w.i THEN w.slot[s] ELSE d.root.slot[s]]
           y == [len |-> w.len, slot |-> x]
<1>1. w.len \in 0..(PerBlock * BPC) /\ w.slot \in [RootSlot -> 0..(NF - 1)]
  BY DEF DirW
<1>2. x \in [RootSlot -> 0..(NF - 1)]
  BY <1>1, DeviceFields
<1>3. y \in Roots
  BY <1>1, <1>2 DEF Roots
<1>4. y.len = w.len /\ \A s \in RootSlot : y.slot[s] = IF DirBlock(s) = w.i THEN w.slot[s] ELSE d.root.slot[s]
  OBVIOUS
<1>5. After(d, w) = [d EXCEPT !.root = y]
  BY AfterDir
<1> HIDE DEF y
<1>6. QED
  BY <1>3, <1>4, <1>5, DeviceWith

\* Head, Data and Size write one block.
LEMMA DataDoes ==
  ASSUME NEW d \in Volume, NEW w \in HeadW \cup DataW \cup SizeW
  PROVE  LET e == After(d, w)
             x == IF w \in HeadW THEN w.x
                  ELSE IF w \in DataW
                       THEN [w.x EXCEPT !.size = IF w.x.num = 0 THEN d.data[w.p].size ELSE 0]
                       ELSE [d.data[w.p] EXCEPT !.size = IF d.data[w.p].size < w.n THEN w.n ELSE d.data[w.p].size]
         IN /\ e \in Volume /\ e.table = d.table /\ e.ctab = d.ctab /\ e.bitmap = d.bitmap /\ e.root = d.root
            /\ w.p \in Block /\ x \in Content
            /\ e.data = [d.data EXCEPT ![w.p] = x]
<1> DEFINE x == IF w \in HeadW THEN w.x
                ELSE IF w \in DataW
                     THEN [w.x EXCEPT !.size = IF w.x.num = 0 THEN d.data[w.p].size ELSE 0]
                     ELSE [d.data[w.p] EXCEPT !.size = IF d.data[w.p].size < w.n THEN w.n ELSE d.data[w.p].size]
<1>1. w.p \in Block /\ (w \in HeadW \cup DataW => w.x \in Content) /\ (w \in SizeW => w.n \in Nat) /\ d.data[w.p] \in Content
  BY DeviceFields DEF HeadW, DataW, SizeW
<1>2. x \in Content
  BY <1>1 DEF Content
<1>3. After(d, w) = [d EXCEPT !.data = [d.data EXCEPT ![w.p] = x]]
  <2>1. CASE w \in HeadW
    BY <2>1, AfterHead
  <2>2. CASE w \in DataW
    <3>1. w \notin HeadW
      BY <2>2 DEF HeadW, DataW
    <3>2. QED
      BY <2>2, <3>1, AfterData
  <2>3. CASE w \in SizeW
    <3>1. w \notin HeadW /\ w \notin DataW
      BY <2>3 DEF HeadW, DataW, SizeW
    <3>2. [d.data EXCEPT ![w.p].size = IF d.data[w.p].size < w.n THEN w.n ELSE d.data[w.p].size]
            = [d.data EXCEPT ![w.p] = [d.data[w.p] EXCEPT !.size = IF d.data[w.p].size < w.n THEN w.n ELSE d.data[w.p].size]]
      BY Zenon
    <3>3. QED
      BY <2>3, <3>1, <3>2, AfterSize
  <2>4. QED
    BY <2>1, <2>2, <2>3
<1> HIDE DEF x
<1>4. [d.data EXCEPT ![w.p] = x] \in Contents
  BY <1>1, <1>2, DeviceFields DEF Contents
<1>5. QED
  BY <1>1, <1>2, <1>3, <1>4, DeviceWith DEF x

\* A device stays a device.
LEMMA AfterTyped ==
  ASSUME NEW d \in Volume, NEW w \in Writes
  PROVE  After(d, w) \in Volume
  BY WriteKinds, OwnDoes, DropDoes, BitDoes, TakeDoes, ListDoes, ReleaseDoes, DirDoes, DataDoes, AfterWild, ZenonT(30)

-----------------------------------------------------------------------------
(* Lists of blocks.                                                         *)

\* The elements of a finite set of pairs, in order: a list of all of them, none
\* twice.
LEMMA InOrderLists ==
  ASSUME NEW S \in SUBSET (Int \X Int), IsFiniteSet(S)
  PROVE  /\ Cardinality(S) \in Nat
         /\ InOrder(S) \in [1..Cardinality(S) -> S]
         /\ \A p \in S : \E i \in 1..Cardinality(S) : InOrder(S)[i] = p
         /\ \A i, j \in 1..Cardinality(S) : InOrder(S)[i] = InOrder(S)[j] => i = j
<1> DEFINE n == Cardinality(S)
<1>1. n \in Nat
  BY FS_CardinalityType
<1>2. {Rank(S, p) : p \in S} = 0..(n - 1) /\ \A p, q \in S : Rank(S, p) = Rank(S, q) => p = q
  BY PairRanks
<1> HIDE DEF n
<1>3. InOrder(S) = [i \in 1..n |-> CHOOSE p \in S : Rank(S, p) = i - 1]
  BY DEF InOrder, n
<1>4. ASSUME NEW i \in 1..n PROVE InOrder(S)[i] \in S /\ Rank(S, InOrder(S)[i]) = i - 1
  <2>1. i - 1 \in 0..(n - 1)
    BY <1>1
  <2>2. \E p \in S : Rank(S, p) = i - 1
    BY <1>2, <2>1
  <2>3. InOrder(S)[i] = CHOOSE p \in S : Rank(S, p) = i - 1
    BY <1>3
  <2>4. QED
    BY <2>2, <2>3
<1>5. ASSUME NEW p \in S PROVE \E i \in 1..n : InOrder(S)[i] = p
  <2>1. PICK r \in 0..(n - 1) : r = Rank(S, p)
    BY <1>2
  <2>2. r + 1 \in 1..n /\ r + 1 - 1 = r
    BY <1>1, <2>1
  <2>3. Rank(S, InOrder(S)[r + 1]) = r /\ InOrder(S)[r + 1] \in S
    BY <1>4, <2>2
  <2>4. QED
    BY <1>2, <2>1, <2>2, <2>3
<1>6. ASSUME NEW i \in 1..n, NEW j \in 1..n, InOrder(S)[i] = InOrder(S)[j] PROVE i = j
  <2>1. i - 1 = j - 1
    BY <1>4, <1>6
  <2>2. QED
    BY <1>1, <2>1
<1>7. QED
  BY <1>1, <1>3, <1>4, <1>5, <1>6 DEF n

\* The places of a file's blocks in its clusters.
Places(d, f) ==
  {q \in (DOMAIN d.table[f].clrs) \X Slot : d.ctab[<<d.table[f].clrs[q[1]], q[2]>>].fid = f}

\* The list of a file's blocks: each is its own and in a cluster it lists, with
\* the number the cluster table has, and each of these blocks is in the list.
LEMMA BlocksOfAre ==
  ASSUME NEW d \in Volume, NEW f \in File
  PROVE  /\ BlocksOf(d, f) \in Seq(BlkInfo)
         /\ \A k \in DOMAIN BlocksOf(d, f) :
              LET b == BlocksOf(d, f)[k]
              IN /\ b.at \in Block /\ d.ctab[b.at].fid = f /\ b.num = d.ctab[b.at].num
                 /\ b.at[1] \in Range(d.table[f].clrs)
         /\ \A p \in Block : d.ctab[p].fid = f /\ p[1] \in Range(d.table[f].clrs)
              => \E k \in DOMAIN BlocksOf(d, f) : BlocksOf(d, f)[k].at = p
<1>1. PICK clrs, k : /\ clrs = d.table[f].clrs /\ clrs \in Seq(Cluster) /\ k \in Nat /\ k = Len(clrs)
                     /\ DOMAIN clrs = 1..k /\ \A i \in 1..k : clrs[i] \in Cluster
  <2>1. d.table[f].clrs \in Seq(Cluster)
    BY DEF Volume, Table
  <2>2. QED
    BY <2>1
<1>2. PICK S : S = Places(d, f)
  OBVIOUS
<1>3. S = {q \in (1..k) \X Slot : d.ctab[<<clrs[q[1]], q[2]>>].fid = f}
  BY <1>1, <1>2, ZenonT(30) DEF Places
<1>4. S \in SUBSET (Int \X Int) /\ IsFiniteSet(S)
  <2>1. IsFiniteSet(1..k) /\ IsFiniteSet(Slot)
    BY <1>1, FS_Interval, FiniteVolume
  <2>2. IsFiniteSet((1..k) \X Slot)
    BY <2>1, FS_Product
  <2>3. S \in SUBSET ((1..k) \X Slot)
    BY <1>3
  <2>4. (1..k) \X Slot \subseteq Int \X Int
    <3>1. 1..k \subseteq Int /\ Slot \subseteq Int
      BY <1>1, Sizes
    <3>2. \A A, B : A \subseteq Int /\ B \subseteq Int => A \X B \subseteq Int \X Int
      BY Zenon
    <3>3. QED
      BY <3>1, <3>2
  <2>5. QED
    BY <2>2, <2>3, <2>4, FS_Subset
<1>5. PICK n, o : n = Cardinality(S) /\ o = InOrder(S)
  OBVIOUS
<1>6. n \in Nat /\ o \in [1..n -> S] /\ \A p \in S : \E i \in 1..n : o[i] = p
  BY <1>4, <1>5, InOrderLists
<1>7. PICK l : l = BlocksOf(d, f)
  OBVIOUS
<1>8. l = [i \in 1..n |-> [at |-> <<clrs[o[i][1]], o[i][2]>>, num |-> d.ctab[<<clrs[o[i][1]], o[i][2]>>].num]]
  BY <1>1, <1>2, <1>5, <1>7, Zenon DEF BlocksOf, Places
<1>9. ASSUME NEW q \in S
      PROVE  \E p \in Block : /\ p = <<clrs[q[1]], q[2]>> /\ d.ctab[p].fid = f
                             /\ p[1] \in Range(clrs) /\ d.ctab[p].num \in Nat
  <2>1. q[1] \in 1..k /\ q[2] \in Slot /\ d.ctab[<<clrs[q[1]], q[2]>>].fid = f
    BY <1>3
  <2>2. PICK p : p = <<clrs[q[1]], q[2]>>
    OBVIOUS
  <2>3. clrs[q[1]] \in Cluster
    BY <1>1, <2>1
  <2>4. p \in Block /\ p[1] = clrs[q[1]]
    BY <2>1, <2>2, <2>3 DEF Block
  <2>5. p[1] \in Range(clrs)
    BY <1>1, <2>1, <2>4 DEF Range
  <2>6. d.ctab[p].num \in Nat
    BY <2>4 DEF Volume, Table
  <2>7. QED
    BY <2>1, <2>2, <2>4, <2>5, <2>6
<1>10. ASSUME NEW i \in 1..n
       PROVE  /\ l[i] \in BlkInfo /\ l[i].at \in Block /\ d.ctab[l[i].at].fid = f
              /\ l[i].num = d.ctab[l[i].at].num /\ l[i].at[1] \in Range(clrs)
  <2>1. PICK q \in S : q = o[i]
    BY <1>6
  <2>2. PICK p \in Block : /\ p = <<clrs[q[1]], q[2]>> /\ d.ctab[p].fid = f
                          /\ p[1] \in Range(clrs) /\ d.ctab[p].num \in Nat
    BY <1>9
  <2>3. PICK x \in Nat : x = d.ctab[p].num
    BY <2>2
  <2>4. l[i] = [at |-> p, num |-> x]
    BY <1>8, <2>1, <2>2, <2>3
  <2>5. l[i].at = p /\ l[i].num = x /\ l[i] \in BlkInfo
    BY <2>4 DEF BlkInfo
  <2>6. QED
    BY <2>2, <2>3, <2>5
<1>11. l \in Seq(BlkInfo) /\ DOMAIN l = 1..n
  <2>1. l \in [1..n -> BlkInfo]
    BY <1>8, <1>10
  <2>2. QED
    BY <1>6, <2>1, SeqDef
<1>12. ASSUME NEW p \in Block, d.ctab[p].fid = f, p[1] \in Range(clrs) PROVE \E i \in 1..n : l[i].at = p
  <2>1. PICK j \in 1..k : clrs[j] = p[1]
    BY <1>1, <1>12 DEF Range
  <2>2. p = <<p[1], p[2]>> /\ p[2] \in Slot
    BY DEF Block
  <2>3. PICK q : q = <<j, p[2]>>
    OBVIOUS
  <2>4. q[1] = j /\ q[2] = p[2] /\ q \in (1..k) \X Slot
    BY <2>2, <2>3
  <2>5. <<clrs[q[1]], q[2]>> = p
    BY <2>1, <2>2, <2>4
  <2>6. q \in S
    BY <1>3, <1>12, <2>4, <2>5
  <2>7. PICK i \in 1..n : o[i] = q
    BY <1>6, <2>6
  <2>8. l[i] = [at |-> p, num |-> d.ctab[p].num]
    BY <1>8, <2>5, <2>7
  <2>9. QED
    BY <2>8
<1>13. QED
  BY <1>1, <1>7, <1>10, <1>11, <1>12

-----------------------------------------------------------------------------
(* The requests, write by write.                                            *)

\* Each write is of its kind.
LEMMA WritesTyped ==
  ASSUME NEW f \in File, NEW c \in Cluster, NEW p \in Block, NEW i \in Nat, NEW x \in Content
  PROVE  /\ Own(p, f, i) \in OwnW /\ Drop(c, f) \in DropW /\ Bit(c) \in BitW
         /\ Take(f, c) \in TakeW /\ List(f, c) \in ListW /\ Release(f) \in ReleaseW
         /\ Header(p, x) \in HeadW /\ Data(p, x) \in DataW /\ Size(p, i) \in SizeW
         /\ Note(f, c) \in TakeW /\ Wild \in WildW
<1>1. /\ Own(p, f, i) \in OwnW /\ Drop(c, f) \in DropW /\ Bit(c) \in BitW
      /\ Take(f, c) \in TakeW /\ List(f, c) \in ListW /\ Release(f) \in ReleaseW
  BY DEF Own, OwnW, Drop, DropW, Bit, BitW, Take, TakeW, List, ListW, Release, ReleaseW
<1>2. /\ Header(p, x) \in HeadW /\ Data(p, x) \in DataW /\ Size(p, i) \in SizeW
      /\ Note(f, c) \in TakeW /\ Wild \in WildW
  BY DEF Header, HeadW, Data, DataW, Size, SizeW, Note, TakeW, Wild, WildW
<1>3. QED
  BY <1>1, <1>2

\* The fields of the writes that are built.
LEMMA FieldsAre ==
  ASSUME NEW p, NEW f, NEW c, NEW i, NEW x
  PROVE  /\ Own(p, f, i).w = "own" /\ Own(p, f, i).p = p /\ Own(p, f, i).f = f /\ Own(p, f, i).i = i
         /\ Drop(c, f).w = "drop" /\ Drop(c, f).c = c /\ Drop(c, f).f = f
         /\ Bit(c).w = "bit" /\ Bit(c).c = c
         /\ Take(f, c).w = "take" /\ Take(f, c).f = f /\ Take(f, c).c = c
         /\ List(f, c).w = "list" /\ List(f, c).f = f /\ List(f, c).c = c
         /\ Release(f).w = "release" /\ Release(f).f = f
         /\ Header(p, x).w = "head" /\ Header(p, x).p = p /\ Header(p, x).x = x
         /\ Data(p, x).w = "data" /\ Data(p, x).p = p /\ Data(p, x).x = x
         /\ Size(p, i).w = "size" /\ Size(p, i).p = p /\ Size(p, i).n = i
         /\ Dir(i, f, x).w = "dir" /\ Dir(i, f, x).i = i /\ Dir(i, f, x).len = f /\ Dir(i, f, x).slot = x
         /\ Note(f, c).w = "take" /\ Note(f, c).f = f /\ Note(f, c).c = c /\ ~Note(f, c).kept
         /\ Take(f, c).kept /\ Wild.w = "wild"
  BY DEF Own, Drop, Bit, Take, List, Release, Header, Data, Size, Dir, Note, Wild

\* The fields of an own, by themselves.
LEMMA OwnFields ==
  ASSUME NEW p, NEW f, NEW i
  PROVE  Own(p, f, i).w = "own" /\ Own(p, f, i).p = p /\ Own(p, f, i).f = f /\ Own(p, f, i).i = i
  BY DEF Own

\* The fields of the writes of payload and size.
LEMMA PayFields ==
  ASSUME NEW p, NEW x
  PROVE  /\ Data(p, x).w = "data" /\ Data(p, x).p = p /\ Data(p, x).x = x
         /\ Size(p, x).w = "size" /\ Size(p, x).p = p /\ Size(p, x).n = x
  BY DEF Data, Size

\* The fields of a write of the directory.
LEMMA DirFields ==
  ASSUME NEW i, NEW n, NEW s
  PROVE  Dir(i, n, s).w = "dir" /\ Dir(i, n, s).i = i /\ Dir(i, n, s).len = n /\ Dir(i, n, s).slot = s
  BY DEF Dir

\* The fields of the write of a header.
LEMMA HeadFields ==
  ASSUME NEW p, NEW x
  PROVE  Header(p, x).w = "head" /\ Header(p, x).p = p /\ Header(p, x).x = x
  BY DEF Header

\* A function on 1..n is a sequence of length n.
LEMMA SequenceOf ==
  ASSUME NEW S, NEW n \in Nat, NEW g \in [1..n -> S]
  PROVE  g \in Seq(S) /\ Len(g) = n /\ DOMAIN g = 1..n
<1>1. g \in Seq(S)
  BY SeqDef
<1>2. QED
  BY <1>1, LenProperties

\* Odd and even places.
LEMMA Halves ==
  ASSUME NEW m \in Nat
  PROVE  /\ \A i \in 1..(2 * m) : /\ (i + 1) \div 2 \in 1..m
                                  /\ i = 2 * ((i + 1) \div 2) - 1 \/ i = 2 * ((i + 1) \div 2)
         /\ \A k \in 1..m : /\ 2 * k - 1 \in 1..(2 * m) /\ 2 * k \in 1..(2 * m)
                            /\ (2 * k - 1) % 2 = 1 /\ (2 * k) % 2 = 0
                            /\ (2 * k - 1 + 1) \div 2 = k /\ (2 * k + 1) \div 2 = k
<1>1. \A i \in 1..(2 * m) : (i + 1) \div 2 \in 1..m
  OBVIOUS
<1>2. \A i \in 1..(2 * m) : i = 2 * ((i + 1) \div 2) - 1 \/ i = 2 * ((i + 1) \div 2)
  OBVIOUS
<1>3. \A k \in 1..m : 2 * k - 1 \in 1..(2 * m) /\ 2 * k \in 1..(2 * m)
  OBVIOUS
<1>4. \A k \in 1..m : (2 * k - 1) % 2 = 1 /\ (2 * k) % 2 = 0
  OBVIOUS
<1>5. \A k \in 1..m : (2 * k - 1 + 1) \div 2 = k /\ (2 * k + 1) \div 2 = k
  OBVIOUS
<1>6. QED
  BY <1>1, <1>2, <1>3, <1>4, <1>5

(* In r, 2 m writes long, those of A and of B take turns. *)
TakesTurns(r, m, A, B) ==
  /\ r = [i \in 1..(2 * m) |-> r[i]]
  /\ \A i \in 1..(2 * m) : r[i] = IF i % 2 = 1 THEN A[(i + 1) \div 2] ELSE B[(i + 1) \div 2]

Turns(r, m, A, B) ==
  /\ r \in Seq(Writes) /\ Len(r) = 2 * m
  /\ \A k \in 1..m : r[2 * k - 1] = A[k] /\ r[2 * k] = B[k]
  /\ \A i \in 1..(2 * m) : \E k \in 1..m : i = 2 * k - 1 \/ i = 2 * k

\* Two kinds of write in turn.
LEMMA InTurn ==
  ASSUME NEW m \in Nat, NEW A \in [1..m -> Writes], NEW B \in [1..m -> Writes],
         NEW r, TakesTurns(r, m, A, B)
  PROVE  Turns(r, m, A, B)
<1>1. r \in [1..(2 * m) -> Writes]
  <2>1. ASSUME NEW i \in 1..(2 * m) PROVE r[i] \in Writes
    <3>1. PICK h \in 1..m : h = (i + 1) \div 2
      BY Halves
    <3>2. r[i] = IF i % 2 = 1 THEN A[h] ELSE B[h]
      BY <3>1 DEF TakesTurns
    <3>3. A[h] \in Writes /\ B[h] \in Writes
      OBVIOUS
    <3>4. QED
      BY <3>2, <3>3
  <2>2. QED
    BY <2>1 DEF TakesTurns
<1>2. r \in Seq(Writes) /\ Len(r) = 2 * m
  <2>1. 2 * m \in Nat
    OBVIOUS
  <2>2. QED
    BY <1>1, <2>1, SequenceOf
<1>3. ASSUME NEW k \in 1..m PROVE r[2 * k - 1] = A[k] /\ r[2 * k] = B[k]
  <2>1. /\ 2 * k - 1 \in 1..(2 * m) /\ 2 * k \in 1..(2 * m)
        /\ (2 * k - 1) % 2 = 1 /\ (2 * k) % 2 = 0
        /\ (2 * k - 1 + 1) \div 2 = k /\ (2 * k + 1) \div 2 = k
    BY Halves
  <2>2. PICK a, z : a = 2 * k - 1 /\ z = 2 * k
    OBVIOUS
  <2>3. r[a] = A[(a + 1) \div 2] /\ r[z] = B[(z + 1) \div 2]
    BY <2>1, <2>2 DEF TakesTurns
  <2>4. QED
    BY <2>1, <2>2, <2>3
<1>4. ASSUME NEW i \in 1..(2 * m) PROVE \E k \in 1..m : i = 2 * k - 1 \/ i = 2 * k
  BY Halves
<1>5. QED
  BY <1>2, <1>3, <1>4 DEF Turns

(* r is m writes of s and n of t, in this order. *)
IsJoined(r, s, m, t, n) ==
  /\ r \in Seq(Writes) /\ Len(r) = m + n
  /\ \A i \in 1..m : r[i] = s[i]
  /\ \A i \in 1..n : r[m + i] = t[i]

\* Two sequences of writes, one after the other.
LEMMA Joined ==
  ASSUME NEW s \in Seq(Writes), NEW t \in Seq(Writes), NEW m \in Nat, NEW n \in Nat,
         Len(s) = m, Len(t) = n
  PROVE  IsJoined(s \o t, s, m, t, n)
<1>1. /\ s \o t \in Seq(Writes) /\ Len(s \o t) = m + n
      /\ \A i \in 1..(m + n) : (s \o t)[i] = IF i <= m THEN s[i] ELSE t[i - m]
  BY ConcatProperties
<1>2. \A i \in 1..m : i \in 1..(m + n) /\ i <= m
  OBVIOUS
<1>3. \A i \in 1..n : m + i \in 1..(m + n) /\ ~(m + i <= m) /\ (m + i) - m = i
  OBVIOUS
<1>4. QED
  BY <1>1, <1>2, <1>3 DEF IsJoined

(* r writes the root directory with the entries es, from its first write on. *)
WritesRoot(r, es) ==
  \E new \in [RootSlot -> 0..(NF - 1)] :
    /\ r = [i \in 1..BPC |-> Dir(i, Len(es), new)]
    /\ \A s \in RootSlot : s <= Len(es) => new[s] = es[s]

\* dev_write_dir writes all blocks of the directory, in order.
LEMMA RootWritten ==
  ASSUME NEW es \in Seq(0..(NF - 1)), Len(es) <= PerBlock * BPC, NEW junk \in Junk
  PROVE  /\ WritesRoot(WriteRoot(es, junk), es)
         /\ WriteRoot(es, junk) \in Seq(DirW) /\ Len(WriteRoot(es, junk)) = BPC
<1> DEFINE need == (Len(es) + PerBlock - 1) \div PerBlock
           new  == [s \in RootSlot |-> IF s <= Len(es) THEN es[s]
                                  ELSE IF DirBlock(s) <= need \/ DirBlock(s) = 1 THEN 0 ELSE junk]
           r    == WriteRoot(es, junk)
<1>1. r = [i \in 1..BPC |-> Dir(i, Len(es), new)]
  BY Zenon DEF WriteRoot
<1>2. new \in [RootSlot -> 0..(NF - 1)]
  <2>1. junk \in 0..(NF - 1) /\ 0 \in 0..(NF - 1)
    BY CrashAssumption, Sizes
  <2>2. ASSUME NEW s \in RootSlot, s <= Len(es) PROVE es[s] \in 0..(NF - 1)
    <3>1. PICK n \in Nat : n = PerBlock * BPC
      BY RootSize
    <3>2. s \in 1..n
      BY <3>1 DEF RootSlot
    <3>3. s \in 1..Len(es)
      BY <2>2, <3>2
    <3>4. QED
      BY <3>3, ElementOfSeq
  <2> HIDE DEF need
  <2>3. QED
    BY <2>1, <2>2
<1>3. \A s \in RootSlot : s <= Len(es) => new[s] = es[s]
  OBVIOUS
<1> HIDE DEF new
<1>4. WritesRoot(r, es)
  BY <1>1, <1>2, <1>3 DEF WritesRoot
<1>5. Len(es) \in 0..(PerBlock * BPC)
  BY RootSize
<1>6. r \in [1..BPC -> DirW]
  BY <1>1, <1>2, <1>5 DEF Dir, DirW
<1>7. QED
  BY <1>4, <1>6, Sizes, SequenceOf

\* dev_read_by_id finds the first block in the list with the number asked for.
LEMMA FoundIs ==
  ASSUME NEW l \in Seq(BlkInfo), NEW i \in Nat, Has(l, i)
  PROVE  \E k \in DOMAIN l : Found(l, i) = l[k].at /\ l[k].num = i
<1> DEFINE K == {k \in DOMAIN l : l[k].num = i}
<1>1. DOMAIN l = 1..Len(l) /\ Len(l) \in Nat
  OBVIOUS
<1>2. IsFiniteSet(DOMAIN l) /\ DOMAIN l \subseteq Int
  BY <1>1, FS_Interval
<1>3. K # {} /\ K \in SUBSET Int /\ IsFiniteSet(K)
  BY <1>2, FS_Subset DEF Has
<1>4. PICK a \in K : \A y \in K : a <= y
  BY <1>3, LeastExists
<1>5. a \in DOMAIN l /\ l[a].num = i /\ \A j \in 1..(a - 1) : l[j].num # i
  <2>1. \A j \in 1..(a - 1) : j \in DOMAIN l /\ ~(a <= j)
    BY <1>1, <1>4
  <2>2. QED
    BY <1>4, <2>1
<1>6. PICK k \in DOMAIN l : /\ l[k].num = i /\ Found(l, i) = l[k].at
  <2> DEFINE first(k) == l[k].num = i /\ \A j \in 1..(k - 1) : l[j].num # i
             k0 == CHOOSE k \in DOMAIN l : first(k)
  <2>1. k0 \in DOMAIN l /\ first(k0)
    BY <1>5
  <2>2. Found(l, i) = l[k0].at
    BY DEF Found
  <2>3. QED
    BY <2>1, <2>2
<1>7. QED
  BY <1>6

(* The writes of a creation: f gets block b of cluster c. *)
CreateQueue(r, f, c, b) ==
  /\ r \in Seq(Writes) /\ Len(r) = BPC + 4
  /\ r[1] = Own(<<c, b>>, f, 0) /\ r[2] = Bit(c) /\ r[3] = Take(f, c)
  /\ \E new \in [RootSlot -> 0..(NF - 1)] :
       /\ \A i \in 1..BPC : r[i + 3] = Dir(i, vol.root.len + 1, new)
       /\ \A s \in RootSlot : s <= vol.root.len + 1
            => new[s] = IF s = vol.root.len + 1 THEN f ELSE vol.root.slot[s]
  /\ \E p \in Block :
       /\ r[BPC + 4] = Header(p, [f |-> f, gen |-> gen[f] + 1, num |-> 0, size |-> 0])
       /\ p[1] = c /\ (p = <<c, b>> \/ vol.ctab[p].fid = f)

\* The parts of the state that its type speaks of.
LEMMA StateTyped ==
  ASSUME TypeOK
  PROVE  /\ vol \in Volume /\ vol.root.len \in 0..(PerBlock * BPC)
         /\ vol.root.slot \in [RootSlot -> 0..(NF - 1)]
         /\ todo \in Seq(Writes) /\ seqs \in [File -> Seq(BlkInfo)] /\ gen \in [File -> Nat]
  BY DEF TypeOK, Volume, Table

\* The entries of the root directory as a sequence.
LEMMA NamedIs ==
  ASSUME TypeOK
  PROVE  /\ Named(vol) \in Seq(0..(NF - 1)) /\ Len(Named(vol)) = vol.root.len
         /\ \A s \in 1..vol.root.len : s \in RootSlot /\ Named(vol)[s] = vol.root.slot[s]
<1>1. PICK n \in Nat : n = PerBlock * BPC
  BY RootSize
<1> DEFINE len == vol.root.len
           slot == vol.root.slot
<1>2. len \in 0..n /\ slot \in [1..n -> 0..(NF - 1)] /\ RootSlot = 1..n
  BY <1>1, StateTyped DEF RootSlot
<1>3. \A s \in 1..len : s \in 1..n /\ slot[s] \in 0..(NF - 1)
  BY <1>2
<1>4. Named(vol) = SubSeq(slot, 1, len)
  BY DEF Named
<1> HIDE DEF len, slot
<1>5. len \in Int /\ len >= 0
  BY <1>2
<1>6. SubSeq(slot, 1, len) \in Seq(0..(NF - 1)) /\ Len(SubSeq(slot, 1, len)) = len
      /\ \A s \in 1..len : SubSeq(slot, 1, len)[s] = slot[s]
  BY <1>3, <1>5, SubSeqProperties
<1>7. QED
  BY <1>2, <1>3, <1>4, <1>6 DEF len, slot

\* What ops_create writes.
LEMMA CreateQueued ==
  ASSUME TypeOK, NEW f \in File, NEW c \in Cluster, NEW b \in Slot, NEW junk \in Junk,
         vol.root.len < PerBlock * BPC
  PROVE  CreateQueue(CreateWrites(f, c, b, junk), f, c, b)
<1> DEFINE L  == vol.root.len
           es == Append(Named(vol), f)
           x  == [f |-> f, gen |-> gen[f] + 1, num |-> 0, size |-> 0]
           hs == HeaderSlot(f, c, b)
           A  == <<Own(<<c, b>>, f, 0), Bit(c), Take(f, c)>>
           W  == WriteRoot(es, junk)
           Z  == <<Header(<<c, hs>>, x)>>
<1>1. L \in Nat /\ L + 1 <= PerBlock * BPC
  BY StateTyped, RootSize
<1>2. es \in Seq(0..(NF - 1)) /\ Len(es) = L + 1 /\ \A s \in 1..(L + 1) : es[s] = IF s = L + 1 THEN f ELSE vol.root.slot[s]
  <2>1. PICK n \in Nat : n = vol.root.len
    BY <1>1
  <2>2. PICK ns \in Seq(0..(NF - 1)) : ns = Named(vol)
    BY NamedIs
  <2>3. Len(ns) = n /\ \A s \in 1..n : ns[s] = vol.root.slot[s]
    BY <2>1, <2>2, NamedIs
  <2>4. f \in 0..(NF - 1)
    BY Sizes
  <2>5. PICK z : z = Append(ns, f)
    OBVIOUS
  <2>6. z \in Seq(0..(NF - 1)) /\ Len(z) = n + 1
    BY <2>2, <2>3, <2>4, <2>5
  <2>7. z[n + 1] = f /\ \A s \in 1..n : z[s] = ns[s]
    BY <2>2, <2>3, <2>4, <2>5
  <2>8. \A s \in 1..(n + 1) : s = n + 1 \/ (s \in 1..n /\ s # n + 1)
    BY <2>1
  <2>9. \A s \in 1..(n + 1) : z[s] = IF s = n + 1 THEN f ELSE vol.root.slot[s]
    BY <2>3, <2>7, <2>8
  <2>10. QED
    BY <2>1, <2>2, <2>5, <2>6, <2>9
<1> HIDE DEF es
<1>3. WritesRoot(W, es) /\ W \in Seq(DirW) /\ Len(W) = BPC
  BY <1>1, <1>2, RootWritten
<1>4. hs \in Slot /\ (hs = b \/ vol.ctab[<<c, hs>>].fid = f)
  <2> DEFINE S == {i \in Slot : i = b \/ vol.ctab[<<c, i>>].fid = f}
  <2>1. S # {} /\ S \in SUBSET Int /\ S \in SUBSET Slot
    BY Sizes
  <2>. IsFiniteSet(S)
    BY <2>1, FiniteVolume, FS_Subset
  <2>2. Least(S) \in S
    BY <2>1, LeastExists
  <2>3. QED
    BY <2>2 DEF HeaderSlot
<1>5. x \in Content /\ <<c, hs>> \in Block /\ <<c, b>> \in Block
  BY <1>4, StateTyped, Sizes DEF Content, Block
<1>6. /\ Own(<<c, b>>, f, 0) \in Writes /\ Bit(c) \in Writes /\ Take(f, c) \in Writes
      /\ Header(<<c, hs>>, x) \in Writes
  BY <1>5, WritesTyped, WriteKinds
<1> HIDE DEF hs, x
<1>7. A \in Seq(Writes) /\ Len(A) = 3 /\ A[1] = Own(<<c, b>>, f, 0) /\ A[2] = Bit(c) /\ A[3] = Take(f, c)
  BY <1>6
<1>8. Z \in Seq(Writes) /\ Len(Z) = 1 /\ Z[1] = Header(<<c, hs>>, x)
  BY <1>6
<1>9. W \in Seq(Writes)
  BY <1>3, WriteKinds, SeqMonotonic
<1>10. PICK r : r = CreateWrites(f, c, b, junk) /\ r = (A \o W) \o Z
  BY DEF CreateWrites, hs, x, es
<1> HIDE DEF A, W, Z
<1> DEFINE X == A \o W
<1>11. IsJoined(X, A, 3, W, BPC)
  <2>1. A \in Seq(Writes) /\ Len(A) = 3 /\ W \in Seq(Writes) /\ Len(W) = BPC /\ 3 \in Nat /\ BPC \in Nat
    BY <1>3, <1>7, <1>9, Sizes
  <2>2. QED
    BY <2>1, Joined
<1> HIDE DEF X
<1>12. IsJoined(r, X, 3 + BPC, Z, 1)
  <2>1. Z \in Seq(Writes) /\ Len(Z) = 1 /\ X \in Seq(Writes) /\ Len(X) = 3 + BPC /\ 3 + BPC \in Nat
    BY <1>8, <1>11, Sizes DEF IsJoined
  <2>2. X \o Z = r
    BY <1>10 DEF X
  <2>3. QED
    BY <2>1, <2>2, Joined
<1>13. r[1] = Own(<<c, b>>, f, 0) /\ r[2] = Bit(c) /\ r[3] = Take(f, c)
  <2>1. \A i \in 1..3 : i \in 1..(3 + BPC)
    BY Sizes
  <2>2. \A i \in 1..3 : r[i] = A[i]
    BY <1>11, <1>12, <2>1 DEF IsJoined
  <2>3. QED
    BY <1>7, <2>2
<1>14. \A i \in 1..BPC : r[i + 3] = W[i]
  <2>1. \A i \in 1..BPC : 3 + i \in 1..(3 + BPC) /\ 3 + i = i + 3
    BY Sizes
  <2>2. QED
    BY <1>11, <1>12, <2>1 DEF IsJoined
<1>15. r[BPC + 4] = Header(<<c, hs>>, x)
  <2>1. BPC + 4 = 3 + BPC + 1
    BY Sizes
  <2>2. QED
    BY <1>8, <1>12, <2>1 DEF IsJoined
<1>16. PICK new \in [RootSlot -> 0..(NF - 1)] :
         W = [i \in 1..BPC |-> Dir(i, Len(es), new)] /\ \A s \in RootSlot : s <= Len(es) => new[s] = es[s]
  BY <1>3 DEF WritesRoot
<1>17. \A i \in 1..BPC : r[i + 3] = Dir(i, vol.root.len + 1, new)
  BY <1>2, <1>14, <1>16
<1>18. ASSUME NEW s \in RootSlot, s <= vol.root.len + 1
       PROVE  new[s] = IF s = vol.root.len + 1 THEN f ELSE vol.root.slot[s]
  <2>1. s \in 1..(L + 1)
    <3>1. PICK n \in Nat : n = PerBlock * BPC
      BY RootSize
    <3>2. s \in 1..n
      BY <3>1 DEF RootSlot
    <3>3. QED
      BY <1>1, <1>18, <3>2
  <2>2. QED
    BY <1>2, <1>16, <1>18, <2>1
<1>19. BPC + 4 = 3 + BPC + 1
  BY Sizes
<1>20. \E p \in Block :
       /\ r[BPC + 4] = Header(p, [f |-> f, gen |-> gen[f] + 1, num |-> 0, size |-> 0])
       /\ p[1] = c /\ (p = <<c, b>> \/ vol.ctab[p].fid = f)
  BY <1>4, <1>5, <1>15 DEF x
<1>21. CreateQueue(r, f, c, b)
  BY <1>12, <1>13, <1>17, <1>18, <1>19, <1>20 DEF IsJoined, CreateQueue
<1>22. QED
  BY <1>10, <1>21

(* A write of a creation of f that got no block: f is noted, the directory is *)
(* written, the header goes to a block of f or anywhere.                      *)
NotedAt(r, f, i)  == r[i].w = "take" /\ r[i].f = f /\ ~r[i].kept
HeadedAt(r, f, i) == \E p \in Block :
  /\ r[i] = Header(p, [f |-> f, gen |-> gen[f] + 1, num |-> 0, size |-> 0])
  /\ vol.ctab[p].fid = f

(* The writes of the directory are of the contents new, the first block first. *)
DirsOf(r, new) ==
  /\ \A i \in DOMAIN r : r[i].w = "dir" =>
       /\ r[i].len = vol.root.len + 1 /\ r[i].slot = new
       /\ r[i].i = 1 \/ \E j \in 1..(i - 1) : r[j].w = "dir" /\ r[j].i = 1
  /\ \E i \in DOMAIN r : r[i].w = "dir" /\ r[i].i = 1

(* The slots new hold the listing with f as one entry more. *)
OneMore(new, f) ==
  \A s \in RootSlot : s <= vol.root.len + 1
    => new[s] = IF s = vol.root.len + 1 THEN f ELSE vol.root.slot[s]

(* All of them. *)
GiveUpQueue(r, f) ==
  /\ r \in Seq(Writes) /\ r # <<>>
  /\ \A i \in DOMAIN r : NotedAt(r, f, i) \/ r[i].w = "dir" \/ HeadedAt(r, f, i) \/ r[i].w = "wild"
  /\ \E new \in [RootSlot -> 0..(NF - 1)] : OneMore(new, f) /\ DirsOf(r, new)

\* The directory with an entry more, f, as it is written.
LEMMA NamedMore ==
  ASSUME TypeOK, NEW f \in File, NEW junk \in Junk, vol.root.len < PerBlock * BPC
  PROVE  LET W == WriteRoot(Append(Named(vol), f), junk)
         IN /\ W \in Seq(DirW) /\ W \in Seq(Writes) /\ Len(W) = BPC
            /\ \E new \in [RootSlot -> 0..(NF - 1)] :
                 /\ \A i \in 1..BPC : W[i] = Dir(i, vol.root.len + 1, new)
                 /\ \A s \in RootSlot : s <= vol.root.len + 1
                      => new[s] = IF s = vol.root.len + 1 THEN f ELSE vol.root.slot[s]
<1> DEFINE L  == vol.root.len
           es == Append(Named(vol), f)
           W  == WriteRoot(es, junk)
<1>1. L \in Nat /\ L + 1 <= PerBlock * BPC
  BY StateTyped, RootSize
<1>2. es \in Seq(0..(NF - 1)) /\ Len(es) = L + 1 /\ \A s \in 1..(L + 1) : es[s] = IF s = L + 1 THEN f ELSE vol.root.slot[s]
  <2>1. PICK n \in Nat : n = vol.root.len
    BY <1>1
  <2>2. PICK ns \in Seq(0..(NF - 1)) : ns = Named(vol)
    BY NamedIs
  <2>3. Len(ns) = n /\ \A s \in 1..n : ns[s] = vol.root.slot[s]
    BY <2>1, <2>2, NamedIs
  <2>4. f \in 0..(NF - 1)
    BY Sizes
  <2>5. PICK z : z = Append(ns, f)
    OBVIOUS
  <2>6. z \in Seq(0..(NF - 1)) /\ Len(z) = n + 1
    BY <2>2, <2>3, <2>4, <2>5
  <2>7. z[n + 1] = f /\ \A s \in 1..n : z[s] = ns[s]
    BY <2>2, <2>3, <2>4, <2>5
  <2>8. \A s \in 1..(n + 1) : s = n + 1 \/ (s \in 1..n /\ s # n + 1)
    BY <2>1
  <2>9. \A s \in 1..(n + 1) : z[s] = IF s = n + 1 THEN f ELSE vol.root.slot[s]
    BY <2>3, <2>7, <2>8
  <2>10. QED
    BY <2>1, <2>2, <2>5, <2>6, <2>9
<1> HIDE DEF es
<1>3. WritesRoot(W, es) /\ W \in Seq(DirW) /\ Len(W) = BPC
  BY <1>1, <1>2, RootWritten
<1>4. W \in Seq(Writes)
  BY <1>3, WriteKinds, SeqMonotonic
<1>5. PICK new \in [RootSlot -> 0..(NF - 1)] :
         W = [i \in 1..BPC |-> Dir(i, Len(es), new)] /\ \A s \in RootSlot : s <= Len(es) => new[s] = es[s]
  BY <1>3 DEF WritesRoot
<1>6. \A i \in 1..BPC : W[i] = Dir(i, L + 1, new)
  BY <1>2, <1>5
<1>7. ASSUME NEW s \in RootSlot, s <= L + 1
      PROVE  new[s] = IF s = L + 1 THEN f ELSE vol.root.slot[s]
  <2>1. s \in 1..(L + 1)
    <3>1. PICK n \in Nat : n = PerBlock * BPC
      BY RootSize
    <3>2. s \in 1..n
      BY <3>1 DEF RootSlot
    <3>3. QED
      BY <1>1, <1>7, <3>2
  <2>2. QED
    BY <1>2, <1>5, <1>7, <2>1
<1> HIDE DEF W
<1>8. QED
  BY <1>3, <1>4, <1>6, <1>7 DEF W, es

\* Writes before and after those of the directory.
LEMMA AroundRoot ==
  ASSUME TypeOK, NEW f \in File, NEW junk \in Junk, vol.root.len < PerBlock * BPC,
         NEW A \in Seq(Writes), \A i \in DOMAIN A : NotedAt(A, f, i),
         NEW Z \in Seq(Writes), Len(Z) = 1, HeadedAt(Z, f, 1) \/ Z[1].w = "wild"
  PROVE  GiveUpQueue((A \o WriteRoot(Append(Named(vol), f), junk)) \o Z, f)
<1>1. PICK W : W = WriteRoot(Append(Named(vol), f), junk)
  OBVIOUS
<1>2. W \in Seq(Writes) /\ Len(W) = BPC
  BY <1>1, NamedMore
<1>3. PICK new \in [RootSlot -> 0..(NF - 1)] :
        /\ \A i \in 1..BPC : W[i] = Dir(i, vol.root.len + 1, new)
        /\ \A s \in RootSlot : s <= vol.root.len + 1
             => new[s] = IF s = vol.root.len + 1 THEN f ELSE vol.root.slot[s]
  BY <1>1, NamedMore
<1>4. PICK h \in Nat : h = Len(A)
  OBVIOUS
<1>5. PICK X : X = A \o W
  OBVIOUS
<1>6. IsJoined(X, A, h, W, BPC)
  BY <1>2, <1>4, <1>5, Sizes, Joined
<1>7. PICK r : r = X \o Z
  OBVIOUS
<1>8. IsJoined(r, X, h + BPC, Z, 1)
  <2>1. X \in Seq(Writes) /\ Len(X) = h + BPC /\ h + BPC \in Nat
    BY <1>4, <1>6, Sizes DEF IsJoined
  <2>2. QED
    BY <1>7, <2>1, Joined
<1>9. BPC \in Nat /\ BPC > 0
  BY Sizes
<1>10. r \in Seq(Writes) /\ Len(r) = h + BPC + 1 /\ DOMAIN r = 1..(h + BPC + 1)
  BY <1>4, <1>8, <1>9 DEF IsJoined
<1>11. ASSUME NEW i \in 1..h PROVE NotedAt(r, f, i)
  <2>1. i \in 1..(h + BPC) /\ i \in DOMAIN A
    BY <1>4, <1>9
  <2>2. r[i] = A[i]
    BY <1>6, <1>8, <2>1 DEF IsJoined
  <2>3. NotedAt(A, f, i)
    BY <2>1
  <2>4. QED
    BY <2>2, <2>3 DEF NotedAt
<1>12. ASSUME NEW k \in 1..BPC PROVE r[h + k] = Dir(k, vol.root.len + 1, new)
  <2>1. h + k \in 1..(h + BPC)
    BY <1>4, <1>9
  <2>2. r[h + k] = X[h + k]
    BY <1>8, <2>1 DEF IsJoined
  <2>3. X[h + k] = W[k]
    BY <1>6 DEF IsJoined
  <2>4. QED
    BY <1>3, <2>2, <2>3
<1>13. r[h + BPC + 1] = Z[1]
  BY <1>8 DEF IsJoined
<1>14. HeadedAt(r, f, h + BPC + 1) \/ r[h + BPC + 1].w = "wild"
  BY <1>13 DEF HeadedAt
<1>15. \A i \in DOMAIN r : i \in 1..h \/ (i - h \in 1..BPC /\ h + (i - h) = i) \/ i = h + BPC + 1
  BY <1>4, <1>9, <1>10
<1>16. ASSUME NEW i \in DOMAIN r, i - h \in 1..BPC, h + (i - h) = i
       PROVE  /\ r[i].w = "dir" /\ r[i].len = vol.root.len + 1 /\ r[i].slot = new
              /\ r[i].i = 1 \/ \E j \in 1..(i - 1) : r[j].w = "dir" /\ r[j].i = 1
  <2>1. PICK k \in 1..BPC : k = i - h /\ h + k = i
    BY <1>16
  <2>2. PICK v : v = r[i] /\ v = r[h + k]
    BY <2>1
  <2>3. v = Dir(k, vol.root.len + 1, new)
    BY <1>12, <2>2
  <2>4. v.w = "dir" /\ v.len = vol.root.len + 1 /\ v.slot = new /\ v.i = k
    BY <2>3, FieldsAre
  <2>5. k = 1 \/ h + 1 \in 1..(i - 1)
    BY <1>4, <2>1
  <2>6. r[h + 1].w = "dir" /\ r[h + 1].i = 1
    <3>1. 1 \in 1..BPC
      BY <1>9
    <3>2. r[h + 1] = Dir(1, vol.root.len + 1, new)
      BY <1>12, <3>1
    <3>3. QED
      BY <3>2, FieldsAre
  <2>7. QED
    BY <2>2, <2>4, <2>5, <2>6
<1>17. \A i \in DOMAIN r : NotedAt(r, f, i) \/ r[i].w = "dir" \/ HeadedAt(r, f, i) \/ r[i].w = "wild"
  BY <1>11, <1>14, <1>15, <1>16
<1>18. ASSUME NEW i \in DOMAIN r, r[i].w = "dir"
       PROVE  /\ r[i].len = vol.root.len + 1 /\ r[i].slot = new
              /\ r[i].i = 1 \/ \E j \in 1..(i - 1) : r[j].w = "dir" /\ r[j].i = 1
  <2>1. ~NotedAt(r, f, i)
    BY <1>18 DEF NotedAt
  <2>2. ~HeadedAt(r, f, i)
    <3>1. \A p, x : Header(p, x).w = "head"
      BY DEF Header
    <3>2. QED
      BY <1>18, <3>1, Zenon DEF HeadedAt
  <2>3. i - h \in 1..BPC /\ h + (i - h) = i
    BY <1>11, <1>14, <1>15, <1>18, <2>1, <2>2
  <2>4. QED
    BY <1>16, <2>3
<1>19. \E i \in DOMAIN r : r[i].w = "dir" /\ r[i].i = 1
  <2>1. h + 1 \in DOMAIN r /\ 1 \in 1..BPC
    BY <1>4, <1>9, <1>10
  <2>2. r[h + 1] = Dir(1, vol.root.len + 1, new)
    BY <1>12, <2>1
  <2>3. QED
    BY <2>1, <2>2, FieldsAre
<1>20. r # <<>>
  BY <1>19
<1>21. GiveUpQueue(r, f)
  BY <1>3, <1>10, <1>17, <1>18, <1>19, <1>20 DEF GiveUpQueue, OneMore, DirsOf
<1>22. QED
  BY <1>1, <1>5, <1>7, <1>21

\* What ops_create writes when it got no block but finds one of f.
LEMMA GiveUpQueued ==
  ASSUME TypeOK, NEW f \in File, NEW c \in Cluster, NEW junk \in Junk,
         vol.root.len < PerBlock * BPC, \E b \in Slot : vol.ctab[<<c, b>>].fid = f
  PROVE  GiveUpQueue(GiveUpWrites(f, c, junk), f)
<1>0. PICK S : S = {i \in Slot : vol.ctab[<<c, i>>].fid = f}
  OBVIOUS
<1> DEFINE x == [f |-> f, gen |-> gen[f] + 1, num |-> 0, size |-> 0]
           A == <<Note(f, c)>>
           W == WriteRoot(Append(Named(vol), f), junk)
<1>1. PICK b : b = Least(S)
  OBVIOUS
<1>2. b \in Slot /\ vol.ctab[<<c, b>>].fid = f
  <2>1. S # {} /\ S \in SUBSET Int /\ S \in SUBSET Slot
    <3>1. S # {}
      BY <1>0
    <3>2. S \subseteq Slot
      BY <1>0
    <3>3. Slot \subseteq Nat
      BY Sizes
    <3>4. QED
      BY <3>1, <3>2, <3>3
  <2>2. IsFiniteSet(S)
    BY <2>1, FiniteVolume, FS_Subset
  <2>3. Least(S) \in S
    BY <2>1, <2>2, LeastExists
  <2>4. QED
    BY <1>0, <1>1, <2>3
<1>3. x \in Content /\ <<c, b>> \in Block
  BY <1>2, StateTyped, Sizes DEF Content, Block
<1>4. Note(f, c) \in Writes /\ Header(<<c, b>>, x) \in Writes
  BY <1>3, WritesTyped, WriteKinds
<1>5. GiveUpWrites(f, c, junk) = (A \o W) \o <<Header(<<c, b>>, x)>>
  BY <1>0, <1>1, Zenon DEF GiveUpWrites
<1>6. HeadedAt(<<Header(<<c, b>>, x)>>, f, 1)
  BY <1>2, <1>3 DEF HeadedAt
<1> HIDE DEF x
<1>7. A \in Seq(Writes) /\ \A i \in DOMAIN A : NotedAt(A, f, i)
  <2>1. A \in Seq(Writes) /\ \A i \in DOMAIN A : A[i] = Note(f, c)
    BY <1>4
  <2>2. QED
    BY <2>1, FieldsAre DEF NotedAt
<1> HIDE DEF A
<1>8. PICK Z : Z = <<Header(<<c, b>>, x)>>
  OBVIOUS
<1>9. Z \in Seq(Writes) /\ Len(Z) = 1 /\ HeadedAt(Z, f, 1)
  BY <1>4, <1>6, <1>8
<1>10. GiveUpQueue((A \o W) \o Z, f)
  BY <1>7, <1>9, AroundRoot
<1>11. QED
  BY <1>5, <1>8, <1>10

\* What it writes when it finds none.
LEMMA LostQueued ==
  ASSUME TypeOK, NEW f \in File, NEW junk \in Junk, vol.root.len < PerBlock * BPC
  PROVE  GiveUpQueue(LostWrites(f, junk), f)
<1>1. PICK W : W = WriteRoot(Append(Named(vol), f), junk)
  OBVIOUS
<1>2. W \in Seq(Writes)
  BY <1>1, NamedMore
<1>3. <<>> \o W = W
  BY <1>2, ConcatEmptySeq
<1>4. PICK Z : Z = <<Wild>>
  OBVIOUS
<1>5. Wild \in Writes /\ Wild.w = "wild"
  BY WriteKinds DEF Wild, WildW
<1>6. Z \in Seq(Writes) /\ Len(Z) = 1 /\ Z[1].w = "wild"
  BY <1>4, <1>5
<1>7. PICK A : A = <<>>
  OBVIOUS
<1>8. A \in Seq(Writes) /\ \A i \in DOMAIN A : NotedAt(A, f, i)
  BY <1>7
<1>9. GiveUpQueue((A \o W) \o Z, f)
  BY <1>1, <1>6, <1>8, AroundRoot
<1>10. QED
  BY <1>1, <1>3, <1>4, <1>7, <1>9 DEF LostWrites

(* The writes of a removal: f loses its blocks in the clusters cl, its entry, *)
(* its identifier.                                                            *)
UnlinkQueue(r, f) ==
  \E m \in Nat : \E cl \in [1..m -> Cluster] :
    /\ r \in Seq(Writes) /\ Len(r) = 2 * m + BPC + 1
    /\ \A i \in 1..(2 * m) : \E k \in 1..m : i = 2 * k - 1 \/ i = 2 * k
    /\ \A k \in 1..m : r[2 * k - 1] = Drop(cl[k], f) /\ r[2 * k] = Bit(cl[k])
    /\ \E new \in [RootSlot -> 0..(NF - 1)] :
         /\ \A i \in 1..BPC : r[2 * m + i] = Dir(i, vol.root.len - 1, new)
         /\ \A s \in RootSlot : s <= vol.root.len - 1 => new[s] = Without(f)[s]
    /\ r[2 * m + BPC + 1] = Release(f)
    /\ \A p \in Block : vol.ctab[p].fid = f /\ p[1] \in Range(vol.table[f].clrs)
         => \E k \in 1..m : cl[k] = p[1]

\* The entries that are left when one is removed.
LEMMA WithoutIs ==
  ASSUME TypeOK, NEW f \in File, f \in Entries(vol)
  PROVE  /\ Without(f) \in Seq(0..(NF - 1)) /\ vol.root.len \in Nat \ {0}
         /\ Len(Without(f)) = vol.root.len - 1
         /\ \E at \in 1..vol.root.len :
              /\ vol.root.slot[at] = f
              /\ \A s \in 1..(vol.root.len - 1) :
                   Without(f)[s] = IF s = at THEN vol.root.slot[vol.root.len] ELSE vol.root.slot[s]
<1>1. PICK n : n = vol.root.len
  OBVIOUS
<1>2. n \in Nat /\ \A s \in 1..n : s \in RootSlot /\ vol.root.slot[s] \in 0..(NF - 1)
  <2>1. PICK N \in Nat : N = PerBlock * BPC
    BY RootSize
  <2>2. n \in 0..N /\ RootSlot = 1..N
    BY <1>1, <2>1, StateTyped DEF RootSlot
  <2>3. n \in Nat /\ \A s \in 1..n : s \in RootSlot
    BY <2>1, <2>2
  <2>4. QED
    BY <2>3, StateTyped
<1>3. \E s \in 1..n : vol.root.slot[s] = f
  BY <1>1 DEF Entries
<1>4. n \in Nat \ {0} /\ n \in 1..n
  BY <1>2, <1>3
<1> DEFINE S == {s \in 1..n : vol.root.slot[s] = f}
           first(s) == vol.root.slot[s] = f /\ \A t \in 1..(s - 1) : vol.root.slot[t] # f
           at == CHOOSE s \in 1..n : first(s)
<1>5. at \in 1..n /\ vol.root.slot[at] = f
  <2>1. S # {} /\ S \in SUBSET Int /\ S \in SUBSET (1..n)
    BY <1>3, <1>4
  <2>. IsFiniteSet(1..n)
    BY <1>4, FS_Interval
  <2>2. IsFiniteSet(S)
    BY <2>1, FS_Subset
  <2>3. PICK a \in S : \A y \in S : a <= y
    BY <2>1, <2>2, LeastExists
  <2>4. \A t \in 1..(a - 1) : t \in 1..n /\ ~(a <= t)
    BY <1>4, <2>3
  <2>5. first(a) /\ a \in 1..n
    BY <2>3, <2>4
  <2>6. at \in 1..n /\ first(at)
    BY <2>5
  <2>7. QED
    BY <2>6
<1>6. Without(f) = [s \in 1..(n - 1) |-> IF s = at THEN vol.root.slot[n] ELSE vol.root.slot[s]]
  BY <1>1 DEF Without
<1> HIDE DEF at
<1>7. n - 1 \in Nat /\ \A s \in 1..(n - 1) : s \in 1..n
  BY <1>4
<1>8. Without(f) \in [1..(n - 1) -> 0..(NF - 1)]
  BY <1>2, <1>4, <1>6, <1>7
<1>9. Without(f) \in Seq(0..(NF - 1)) /\ Len(Without(f)) = n - 1
  BY <1>7, <1>8, SequenceOf
<1>10. QED
  BY <1>1, <1>4, <1>5, <1>6, <1>9

\* The clusters a removal frees blocks in.
LEMMA HeldIs ==
  ASSUME TypeOK, NEW f \in File
  PROVE  \E m \in Nat : \E cl \in [1..m -> Cluster] :
           /\ m = Len(Held(f)) /\ \A k \in 1..m : cl[k] = Held(f)[k][2]
           /\ \A p \in Block : vol.ctab[p].fid = f /\ p[1] \in Range(vol.table[f].clrs)
                => \E k \in 1..m : cl[k] = p[1]
<1>1. PICK clrs, k : /\ clrs = vol.table[f].clrs /\ clrs \in Seq(Cluster) /\ k \in Nat /\ k = Len(clrs)
                     /\ DOMAIN clrs = 1..k /\ \A i \in 1..k : clrs[i] \in Cluster
  <2>1. vol.table[f].clrs \in Seq(Cluster)
    BY StateTyped DEF Volume, Table
  <2>2. QED
    BY <2>1
<1>2. PICK J : J = {j \in DOMAIN clrs : \E b \in Slot : vol.ctab[<<clrs[j], b>>].fid = f}
  OBVIOUS
<1>3. PICK S : S = {<<j, clrs[j]>> : j \in J}
  OBVIOUS
<1>4. PICK n, o : n = Cardinality(S) /\ o = InOrder(S)
  OBVIOUS
<1>5. Held(f) = o
  BY <1>1, <1>2, <1>3, <1>4, ZenonT(30) DEF Held
<1>6. \A j \in J : j \in 1..k /\ clrs[j] \in Cluster
  BY <1>1, <1>2
<1>7. IsFiniteSet(J)
  <2>1. J \in SUBSET (1..k)
    BY <1>6
  <2>2. IsFiniteSet(1..k)
    BY <1>1, FS_Interval
  <2>3. QED
    BY <2>1, <2>2, FS_Subset
<1>8. S \in SUBSET (Int \X Int) /\ \A q \in S : q[2] \in Cluster
  <2>1. Cluster \subseteq Int
    BY Sizes
  <2>2. ASSUME NEW q \in S PROVE q \in Int \X Int /\ q[2] \in Cluster
    <3>1. PICK j \in J : q = <<j, clrs[j]>>
      BY <1>3
    <3>2. PICK c \in Cluster : c = clrs[j]
      BY <1>6
    <3>3. j \in Int /\ c \in Int
      BY <1>6, <2>1
    <3>4. q = <<j, c>>
      BY <3>1, <3>2
    <3>5. QED
      BY <3>3, <3>4
  <2>3. QED
    BY <2>2
<1>9. IsFiniteSet(S)
  <2>1. PICK g : g = [j \in J |-> <<j, clrs[j]>>]
    OBVIOUS
  <2>2. g \in [J -> S] /\ \A p \in S : \E j \in J : g[j] = p
    BY <1>3, <2>1, ZenonT(30)
  <2>3. g \in Surjection(J, S)
    BY <2>2 DEF Surjection
  <2>4. QED
    BY <1>7, <2>3, FS_Surjection
<1>10. n \in Nat /\ o \in [1..n -> S] /\ \A p \in S : \E i \in 1..n : o[i] = p
  BY <1>4, <1>8, <1>9, InOrderLists
<1>11. PICK cl : cl = [i \in 1..n |-> o[i][2]]
  OBVIOUS
<1>12. cl \in [1..n -> Cluster]
  BY <1>8, <1>10, <1>11
<1>13. ASSUME NEW p \in Block, vol.ctab[p].fid = f, p[1] \in Range(clrs)
       PROVE  \E i \in 1..n : cl[i] = p[1]
  <2>1. PICK j \in 1..k : clrs[j] = p[1]
    BY <1>1, <1>13 DEF Range
  <2>2. p = <<p[1], p[2]>> /\ p[2] \in Slot
    BY DEF Block
  <2>3. PICK c : c = p[1]
    OBVIOUS
  <2>4. j \in J
    BY <1>1, <1>2, <1>13, <2>1, <2>2
  <2>5. PICK q : q = <<j, c>>
    OBVIOUS
  <2>6. q \in S /\ q[2] = c
    BY <1>3, <2>1, <2>3, <2>4, <2>5
  <2>7. PICK i \in 1..n : o[i] = q
    BY <1>10, <2>6
  <2>8. cl[i] = c
    BY <1>11, <2>6, <2>7
  <2>9. QED
    BY <2>3, <2>8
<1>14. n = Len(Held(f)) /\ \A i \in 1..n : cl[i] = Held(f)[i][2]
  <2>1. Len(o) = n
    BY <1>10, SequenceOf
  <2>2. QED
    BY <1>5, <1>11, <2>1
<1>15. \A p \in Block : vol.ctab[p].fid = f /\ p[1] \in Range(vol.table[f].clrs) => \E i \in 1..n : cl[i] = p[1]
  BY <1>1, <1>13
<1>16. QED
  BY <1>10, <1>12, <1>14, <1>15

\* What ops_unlink writes.
LEMMA UnlinkQueued ==
  ASSUME TypeOK, NEW f \in File, f \in Entries(vol), NEW junk \in Junk
  PROVE  UnlinkQueue(UnlinkWrites(f, junk), f)
<1>0. PICK m \in Nat : \E cl \in [1..m -> Cluster] :
        /\ m = Len(Held(f)) /\ \A k \in 1..m : cl[k] = Held(f)[k][2]
        /\ \A p \in Block : vol.ctab[p].fid = f /\ p[1] \in Range(vol.table[f].clrs)
             => \E k \in 1..m : cl[k] = p[1]
  BY HeldIs
<1>1. PICK cl \in [1..m -> Cluster] :
        /\ m = Len(Held(f)) /\ \A k \in 1..m : cl[k] = Held(f)[k][2]
        /\ \A p \in Block : vol.ctab[p].fid = f /\ p[1] \in Range(vol.table[f].clrs)
             => \E k \in 1..m : cl[k] = p[1]
  BY <1>0
<1> DEFINE h  == Held(f)
           D  == [i \in 1..(2 * m) |->
                    LET k == (i + 1) \div 2 IN IF i % 2 = 1 THEN Drop(h[k][2], f) ELSE Bit(h[k][2])]
           da == [k \in 1..m |-> Drop(cl[k], f)]
           ba == [k \in 1..m |-> Bit(cl[k])]
           W  == WriteRoot(Without(f), junk)
           Z  == <<Release(f)>>
           X  == D \o W
<1>2. da \in [1..m -> Writes] /\ ba \in [1..m -> Writes] /\ Release(f) \in Writes
  <2>1. \A c \in Cluster : Drop(c, f) \in Writes /\ Bit(c) \in Writes /\ Release(f) \in Writes
    BY WriteKinds DEF Drop, DropW, Bit, BitW, Release, ReleaseW
  <2>2. 0 \in Cluster
    BY SizeAssumption DEF Cluster
  <2>3. QED
    BY <2>1, <2>2
<1>3. D = [i \in 1..(2 * m) |-> LET k == (i + 1) \div 2 IN IF i % 2 = 1 THEN da[k] ELSE ba[k]]
  <2>1. \A i \in 1..(2 * m) : (i + 1) \div 2 \in 1..m
    OBVIOUS
  <2>2. \A k \in 1..m : da[k] = Drop(h[k][2], f) /\ ba[k] = Bit(h[k][2])
    BY <1>1
  <2> HIDE DEF da, ba, h
  <2>3. QED
    BY <2>1, <2>2
<1>4. Turns(D, m, da, ba)
  <2>1. \A i \in 1..(2 * m) : D[i] = IF i % 2 = 1 THEN da[(i + 1) \div 2] ELSE ba[(i + 1) \div 2]
    BY <1>3
  <2>2. D = [i \in 1..(2 * m) |-> D[i]]
    OBVIOUS
  <2> HIDE DEF D, da, ba
  <2>3. TakesTurns(D, m, da, ba)
    BY <2>1, <2>2 DEF TakesTurns
  <2>4. QED
    BY <1>2, <2>3, InTurn
<1>5. /\ Without(f) \in Seq(0..(NF - 1)) /\ vol.root.len \in Nat \ {0}
      /\ Len(Without(f)) = vol.root.len - 1 /\ Len(Without(f)) <= PerBlock * BPC
  BY WithoutIs, StateTyped, RootSize
<1>6. WritesRoot(W, Without(f)) /\ W \in Seq(DirW) /\ Len(W) = BPC
  BY <1>5, RootWritten
<1>7. W \in Seq(Writes)
  BY <1>6, WriteKinds, SeqMonotonic
<1>8. Z \in Seq(Writes) /\ Len(Z) = 1 /\ Z[1] = Release(f)
  BY <1>2
<1>9. PICK r : r = UnlinkWrites(f, junk) /\ r = X \o Z
  BY <1>1 DEF UnlinkWrites
<1> HIDE DEF D, W, Z
<1>10. IsJoined(X, D, 2 * m, W, BPC)
  <2>1. BPC \in Nat /\ 2 * m \in Nat
    BY Sizes
  <2>2. QED
    BY <1>4, <1>6, <1>7, <2>1, Joined DEF Turns
<1> HIDE DEF X
<1>11. IsJoined(r, X, 2 * m + BPC, Z, 1)
  <2>1. Z \in Seq(Writes) /\ Len(Z) = 1 /\ X \in Seq(Writes) /\ Len(X) = 2 * m + BPC /\ 2 * m + BPC \in Nat
    BY <1>8, <1>10, Sizes DEF IsJoined
  <2>2. QED
    BY <1>9, <2>1, Joined
<1>12. \A k \in 1..m : r[2 * k - 1] = Drop(cl[k], f) /\ r[2 * k] = Bit(cl[k])
  <2>1. \A k \in 1..m : /\ 2 * k - 1 \in 1..(2 * m) /\ 2 * k \in 1..(2 * m)
                        /\ 2 * k - 1 \in 1..(2 * m + BPC) /\ 2 * k \in 1..(2 * m + BPC)
    BY Sizes
  <2>2. \A k \in 1..m : r[2 * k - 1] = D[2 * k - 1] /\ r[2 * k] = D[2 * k]
    <3>1. \A i \in 1..(2 * m) : X[i] = D[i]
      BY <1>10 DEF IsJoined
    <3>2. \A i \in 1..(2 * m + BPC) : r[i] = X[i]
      BY <1>11 DEF IsJoined
    <3>3. QED
      BY <2>1, <3>1, <3>2
  <2>3. QED
    BY <1>4, <2>2 DEF Turns
<1>13. \A i \in 1..BPC : r[2 * m + i] = W[i]
  <2>1. \A i \in 1..BPC : 2 * m + i \in 1..(2 * m + BPC)
    BY Sizes
  <2>2. QED
    BY <1>10, <1>11, <2>1 DEF IsJoined
<1>14. r[2 * m + BPC + 1] = Release(f) /\ r \in Seq(Writes) /\ Len(r) = 2 * m + BPC + 1
  BY <1>8, <1>11 DEF IsJoined
<1>15. PICK new \in [RootSlot -> 0..(NF - 1)] :
         /\ W = [i \in 1..BPC |-> Dir(i, Len(Without(f)), new)]
         /\ \A s \in RootSlot : s <= Len(Without(f)) => new[s] = Without(f)[s]
  BY <1>6 DEF WritesRoot
<1>16. /\ \A i \in 1..BPC : r[2 * m + i] = Dir(i, vol.root.len - 1, new)
       /\ \A s \in RootSlot : s <= vol.root.len - 1 => new[s] = Without(f)[s]
  BY <1>5, <1>13, <1>15
<1>17. UnlinkQueue(r, f)
  <2>1. \A i \in 1..(2 * m) : \E k \in 1..m : i = 2 * k - 1 \/ i = 2 * k
    BY <1>4 DEF Turns
  <2>2. \E u \in [RootSlot -> 0..(NF - 1)] :
          /\ \A i \in 1..BPC : r[2 * m + i] = Dir(i, vol.root.len - 1, u)
          /\ \A s \in RootSlot : s <= vol.root.len - 1 => u[s] = Without(f)[s]
    BY <1>16
  <2>3. \A p \in Block : vol.ctab[p].fid = f /\ p[1] \in Range(vol.table[f].clrs)
                        => \E k \in 1..m : cl[k] = p[1]
    BY <1>1
  <2>4. m \in Nat /\ cl \in [1..m -> Cluster]
    BY <1>1
  <2>5. QED
    BY <1>12, <1>14, <2>1, <2>2, <2>3, <2>4, ZenonT(30) DEF UnlinkQueue
<1>18. QED
  BY <1>9, <1>17

(* What ops_write(f, n) reserves, and the list it has then. *)
Lack(f, n)    == IF n > Len(seqs[f]) THEN n - Len(seqs[f]) ELSE 0
NewOnes(f, n) == InOrder(dev_free_blocks(vol.bitmap, vol.ctab, Lack(f, n)))
NewList(f, n) == seqs[f] \o [k \in 1..Len(NewOnes(f, n)) |->
                               [at |-> NewOnes(f, n)[k], num |-> Len(seqs[f]) + k - 1]]

(* m blocks that are free, none twice. *)
FreeOnes(ps, m) ==
  /\ ps \in [1..m -> Block] /\ Len(ps) = m
  /\ \A k \in 1..m : vol.ctab[ps[k]].fid = 0
  /\ \A j, k \in 1..m : ps[j] = ps[k] => j = k

\* The blocks a write gets are free, and all different.
LEMMA NewOnesAre ==
  ASSUME TypeOK, NEW f \in File, NEW n \in Nat
  PROVE  \E m \in Nat : FreeOnes(NewOnes(f, n), m)
<1> DEFINE P == dev_free_blocks(vol.bitmap, vol.ctab, Lack(f, n))
           m == Cardinality(P)
           ps == InOrder(P)
<1>1. P \in SUBSET Block /\ \A p \in P : vol.ctab[p].fid = 0
  BY FreeBlocksAreFree
<1>2. IsFiniteSet(P) /\ P \in SUBSET (Int \X Int)
  <2>1. Block \subseteq Int \X Int
    BY SizeAssumption DEF Block, Cluster, Slot
  <2>2. IsFiniteSet(P)
    BY <1>1, FiniteVolume, FS_Subset
  <2> HIDE DEF P
  <2>3. QED
    BY <1>1, <2>1, <2>2
<1> HIDE DEF P
<1>3. /\ m \in Nat /\ ps \in [1..m -> P]
      /\ \A i, j \in 1..m : ps[i] = ps[j] => i = j
  BY <1>2, InOrderLists
<1> HIDE DEF m, ps
<1>4. ps \in [1..m -> Block] /\ \A k \in 1..m : vol.ctab[ps[k]].fid = 0
  BY <1>1, <1>3
<1>5. Len(ps) = m
  BY <1>3, <1>4, SequenceOf
<1>6. ps = NewOnes(f, n)
  BY DEF ps, P, NewOnes
<1>7. FreeOnes(ps, m)
  BY <1>3, <1>4, <1>5 DEF FreeOnes
<1>8. QED
  BY <1>3, <1>6, <1>7

(* The list l is the cached list of f with the blocks ps behind. *)
Longer(l, f, ps, m) ==
  /\ l \in Seq(BlkInfo) /\ Len(l) = Len(seqs[f]) + m /\ DOMAIN l = 1..(Len(seqs[f]) + m)
  /\ \A k \in 1..Len(seqs[f]) : l[k] = seqs[f][k]
  /\ \A k \in 1..m : l[Len(seqs[f]) + k] = [at |-> ps[k], num |-> Len(seqs[f]) + k - 1]

\* The list grows at its end.
LEMMA NewListIs ==
  ASSUME TypeOK, NEW f \in File, NEW n \in Nat, NEW m \in Nat, FreeOnes(NewOnes(f, n), m)
  PROVE  Longer(NewList(f, n), f, NewOnes(f, n), m) /\ Len(seqs[f]) \in Nat
<1>0. PICK ps : ps = NewOnes(f, n)
  OBVIOUS
<1>1. PICK s \in Seq(BlkInfo), len \in Nat : s = seqs[f] /\ len = Len(s)
  BY StateTyped
<1> DEFINE t == [k \in 1..m |-> [at |-> ps[k], num |-> len + k - 1]]
<1>2. t \in [1..m -> BlkInfo]
  <2>1. \A k \in 1..m : ps[k] \in Block /\ len + k - 1 \in Nat
    BY <1>0, <1>1 DEF FreeOnes
  <2>2. QED
    BY <2>1 DEF BlkInfo
<1>3. t \in Seq(BlkInfo) /\ Len(t) = m
  BY <1>2, SequenceOf
<1>4. PICK l : l = NewList(f, n)
  OBVIOUS
<1>5. l = s \o t
  BY <1>0, <1>1, <1>4 DEF NewList, FreeOnes
<1>6. \A k \in 1..m : t[k] = [at |-> ps[k], num |-> len + k - 1]
  OBVIOUS
<1> HIDE DEF t
<1>7. /\ l \in Seq(BlkInfo) /\ Len(l) = len + m
      /\ \A i \in 1..(len + m) : l[i] = IF i <= len THEN s[i] ELSE t[i - len]
  <2>1. PICK u \in Seq(BlkInfo) : u = t
    BY <1>3
  <2>2. /\ s \o u \in Seq(BlkInfo) /\ Len(s \o u) = Len(s) + Len(u)
        /\ \A i \in 1..(Len(s) + Len(u)) : (s \o u)[i] = IF i <= Len(s) THEN s[i] ELSE u[i - Len(s)]
    BY ConcatProperties
  <2>3. l = s \o u /\ len = Len(s) /\ m = Len(u) /\ t = u
    BY <1>1, <1>3, <1>5, <2>1
  <2>4. QED
    BY <2>2, <2>3
<1>8. DOMAIN l = 1..(len + m)
  BY <1>7, LenProperties
<1>9. \A k \in 1..len : k \in 1..(len + m) /\ k <= len
  BY <1>1
<1>10. \A k \in 1..m : len + k \in 1..(len + m) /\ ~(len + k <= len) /\ (len + k) - len = k
  BY <1>1
<1>11. \A k \in 1..len : l[k] = s[k]
  BY <1>7, <1>9
<1>12. \A k \in 1..m : l[len + k] = t[k]
  BY <1>7, <1>10
<1>13. \A k \in 1..m : l[len + k] = [at |-> ps[k], num |-> len + k - 1]
  BY <1>6, <1>12
<1>14. Longer(l, f, ps, m)
  BY <1>1, <1>7, <1>8, <1>11, <1>13 DEF Longer
<1>15. QED
  BY <1>0, <1>1, <1>4, <1>14

(* The writes of payload, and of the size: those of blocks s .. n - 1. *)
PayloadQueue(r, i0, f, l, s, n) ==
  /\ s \in Nat /\ s < n
  /\ \A i \in s..(n - 1) : Has(l, i)
  /\ Has(l, 0)
  /\ \A k \in 1..(n - s) : r[i0 + k] = Data(Found(l, s + k - 1), Tag(f, s + k - 1))
  /\ r[i0 + (n - s) + 1] = Size(Found(l, 0), n)

(* The writes of a write request: m new blocks, and the payload if all its *)
(* numbers are there.                                                      *)
WriteQueue(r, f, n, l, ps, m) ==
  \E q \in Nat :
    /\ r \in Seq(Writes) /\ Len(r) = 3 * m + q
    /\ \A i \in 1..(2 * m) : \E k \in 1..m : i = 2 * k - 1 \/ i = 2 * k
    /\ \A k \in 1..m : r[2 * k - 1] = Own(ps[k], f, Len(seqs[f]) + k - 1) /\ r[2 * k] = Bit(ps[k][1])
    /\ \A k \in 1..m : r[2 * m + k] = List(f, ps[k][1])
    /\ \/ q = 0
       \/ q = n - SizeOf(vol, seqs[f]) + 1 /\ PayloadQueue(r, 3 * m, f, l, SizeOf(vol, seqs[f]), n)

(* The writes of a reservation. *)
ReserveQueue(r, f, ps, len, m) ==
  /\ r \in Seq(Writes) /\ Len(r) = 3 * m
  /\ \A k \in 1..m : r[2 * k - 1] = Own(ps[k], f, len + k - 1) /\ r[2 * k] = Bit(ps[k][1])
  /\ \A k \in 1..m : r[2 * m + k] = List(f, ps[k][1])

\* What is reserved, write by write.
LEMMA ReserveQueued ==
  ASSUME TypeOK, NEW f \in File, NEW ps, NEW m \in Nat, FreeOnes(ps, m), NEW len \in Nat
  PROVE  ReserveQueue(Reserve(f, ps, len), f, ps, len, m)
<1> DEFINE D  == [i \in 1..(2 * m) |->
                    LET k == (i + 1) \div 2 IN IF i % 2 = 1 THEN Own(ps[k], f, len + k - 1) ELSE Bit(ps[k][1])]
           W  == [k \in 1..m |-> List(f, ps[k][1])]
           oa == [k \in 1..m |-> Own(ps[k], f, len + k - 1)]
           ba == [k \in 1..m |-> Bit(ps[k][1])]
<1>1. oa \in [1..m -> Writes] /\ ba \in [1..m -> Writes] /\ W \in [1..m -> Writes]
  <2>1. \A k \in 1..m : ps[k] \in Block /\ ps[k][1] \in Cluster /\ len + k - 1 \in Nat
    BY DEF FreeOnes, Block
  <2>2. \A p \in Block, i \in Nat : Own(p, f, i) \in Writes
    BY WriteKinds DEF Own, OwnW
  <2>3. \A c \in Cluster : Bit(c) \in Writes /\ List(f, c) \in Writes
    BY WriteKinds DEF Bit, BitW, List, ListW
  <2>4. QED
    BY <2>1, <2>2, <2>3
<1>2. PICK r : r = Reserve(f, ps, len)
  OBVIOUS
<1>3. r = D \o W
  BY <1>2 DEF Reserve, FreeOnes
<1>4. Turns(D, m, oa, ba)
  <2>1. \A i \in 1..(2 * m) : (i + 1) \div 2 \in 1..m
    BY Halves
  <2>2. \A i \in 1..(2 * m) : D[i] = IF i % 2 = 1 THEN oa[(i + 1) \div 2] ELSE ba[(i + 1) \div 2]
    BY <2>1
  <2>3. D = [i \in 1..(2 * m) |-> D[i]]
    OBVIOUS
  <2> HIDE DEF D, oa, ba
  <2>4. TakesTurns(D, m, oa, ba)
    BY <2>2, <2>3 DEF TakesTurns
  <2>5. QED
    BY <1>1, <2>4, InTurn
<1>5. W \in Seq(Writes) /\ Len(W) = m
  BY <1>1, SequenceOf
<1>6. \A k \in 1..m : oa[k] = Own(ps[k], f, len + k - 1) /\ ba[k] = Bit(ps[k][1]) /\ W[k] = List(f, ps[k][1])
  OBVIOUS
<1> HIDE DEF D, W, oa, ba
<1>7. IsJoined(r, D, 2 * m, W, m)
  <2>1. 2 * m \in Nat
    OBVIOUS
  <2>2. QED
    BY <1>3, <1>4, <1>5, <2>1, Joined DEF Turns
<1>8. \A k \in 1..m : r[2 * k - 1] = oa[k] /\ r[2 * k] = ba[k]
  <2>1. \A k \in 1..m : 2 * k - 1 \in 1..(2 * m) /\ 2 * k \in 1..(2 * m)
    BY Halves
  <2>2. QED
    BY <1>4, <1>7, <2>1 DEF IsJoined, Turns
<1>9. \A k \in 1..m : r[2 * m + k] = W[k]
  BY <1>7 DEF IsJoined
<1>10. r \in Seq(Writes) /\ Len(r) = 3 * m
  BY <1>7 DEF IsJoined
<1>11. QED
  BY <1>2, <1>6, <1>8, <1>9, <1>10 DEF ReserveQueue

\* What is written, block by block.
LEMMA PayloadQueued ==
  ASSUME TypeOK, NEW f \in File, NEW l \in Seq(BlkInfo), NEW s \in Nat, NEW n \in Nat, s < n,
         \A i \in s..(n - 1) : Has(l, i), Has(l, 0)
  PROVE  LET r == Payload(f, l, s, n)
         IN r \in Seq(Writes) /\ Len(r) = (n - s) + 1 /\ PayloadQueue(r, 0, f, l, s, n)
<1>1. PICK k \in Nat : k = n - s
  OBVIOUS
<1> DEFINE D == [j \in 1..k |-> Data(Found(l, s + j - 1), Tag(f, s + j - 1))]
           Z == <<Size(Found(l, 0), n)>>
<1>2. \A i \in Nat : Has(l, i) => Found(l, i) \in Block
  <2>1. ASSUME NEW i \in Nat, Has(l, i) PROVE Found(l, i) \in Block
    <3>1. PICK j \in DOMAIN l : Found(l, i) = l[j].at
      BY <2>1, FoundIs
    <3>2. l[j] \in BlkInfo
      BY <3>1
    <3>3. QED
      BY <3>1, <3>2 DEF BlkInfo
  <2>2. QED
    BY <2>1
<1>3. \A j \in 1..k : s + j - 1 \in s..(n - 1) /\ s + j - 1 \in Nat
  BY <1>1
<1>4. \A i \in Nat : Tag(f, i) \in Content
  BY StateTyped, Sizes DEF Tag, Content
<1>5. \A j \in 1..k : Data(Found(l, s + j - 1), Tag(f, s + j - 1)) \in Writes
  <2>1. \A p \in Block, x \in Content : Data(p, x) \in Writes
    BY WriteKinds DEF Data, DataW
  <2>2. QED
    BY <1>2, <1>3, <1>4, <2>1
<1>6. D \in [1..k -> Writes]
  BY <1>5
<1>7. D \in Seq(Writes) /\ Len(D) = k
  BY <1>6, SequenceOf
<1>8. Size(Found(l, 0), n) \in Writes
  BY <1>2, WriteKinds DEF Size, SizeW
<1>9. Z \in Seq(Writes) /\ Len(Z) = 1 /\ Z[1] = Size(Found(l, 0), n)
  BY <1>8
<1>10. PICK r : r = Payload(f, l, s, n)
  OBVIOUS
<1>11. r = D \o Z
  BY <1>1, <1>10 DEF Payload
<1>12. \A j \in 1..k : D[j] = Data(Found(l, s + j - 1), Tag(f, s + j - 1))
  OBVIOUS
<1> HIDE DEF D, Z
<1>13. IsJoined(r, D, k, Z, 1)
  BY <1>7, <1>9, <1>11, Joined
<1>14. \A j \in 1..k : r[0 + j] = Data(Found(l, s + j - 1), Tag(f, s + j - 1))
  BY <1>12, <1>13 DEF IsJoined
<1>15. r[0 + k + 1] = Size(Found(l, 0), n) /\ r \in Seq(Writes) /\ Len(r) = k + 1
  BY <1>9, <1>13 DEF IsJoined
<1>16. PayloadQueue(r, 0, f, l, s, n)
  BY <1>1, <1>14, <1>15 DEF PayloadQueue
<1>17. QED
  BY <1>1, <1>10, <1>15, <1>16

(* What ops_write(f, n) writes. *)
WriteWrites(f, n) ==
  Reserve(f, NewOnes(f, n), Len(seqs[f]))
    \o (IF \A i \in SizeOf(vol, seqs[f])..(n - 1) : Has(NewList(f, n), i)
        THEN Payload(f, NewList(f, n), SizeOf(vol, seqs[f]), n) ELSE <<>>)

\* The size in a header is a number.
LEMMA SizeIs ==
  ASSUME TypeOK, NEW f \in File
  PROVE  SizeOf(vol, seqs[f]) \in Nat
<1>1. PICK l \in Seq(BlkInfo) : l = seqs[f]
  BY StateTyped
<1>2. CASE Has(l, 0)
  <2>1. PICK k \in DOMAIN l : Found(l, 0) = l[k].at
    BY <1>2, FoundIs
  <2>2. l[k] \in BlkInfo
    BY <2>1
  <2>3. Found(l, 0) \in Block
    BY <2>1, <2>2 DEF BlkInfo
  <2>4. vol.data[Found(l, 0)] \in Content
    BY <2>3, StateTyped, DeviceFields
  <2>5. QED
    BY <1>1, <1>2, <2>4 DEF SizeOf, Content
<1>3. CASE ~Has(l, 0)
  BY <1>1, <1>3 DEF SizeOf
<1>4. QED
  BY <1>2, <1>3

\* A list that got longer has what it had.
LEMMA LongerHas ==
  ASSUME TypeOK, NEW f \in File, NEW l, NEW ps, NEW m \in Nat, Longer(l, f, ps, m),
         NEW i \in Nat, Has(seqs[f], i)
  PROVE  Has(l, i)
<1>1. PICK s \in Seq(BlkInfo) : s = seqs[f]
  BY StateTyped
<1>2. PICK k \in DOMAIN s : s[k].num = i
  BY <1>1 DEF Has
<1>3. k \in 1..Len(s) /\ k \in 1..(Len(s) + m)
  BY <1>1, <1>2
<1>4. QED
  BY <1>1, <1>2, <1>3 DEF Longer, Has

\* The writes of a request that writes to a file.
LEMMA WriteQueued ==
  ASSUME TypeOK, NEW f \in File, NEW n \in Nat, NEW m \in Nat, FreeOnes(NewOnes(f, n), m),
         Has(seqs[f], 0), SizeOf(vol, seqs[f]) < n
  PROVE  WriteQueue(WriteWrites(f, n), f, n, NewList(f, n), NewOnes(f, n), m)
<1>1. PICK l : l = NewList(f, n)
  OBVIOUS
<1>2. PICK ps : ps = NewOnes(f, n)
  OBVIOUS
<1>3. Longer(l, f, ps, m) /\ Len(seqs[f]) \in Nat /\ l \in Seq(BlkInfo)
  BY <1>1, <1>2, NewListIs DEF Longer
<1>4. PICK s \in Nat : s = SizeOf(vol, seqs[f])
  BY SizeIs
<1>5. s < n
  BY <1>4
<1>6. Has(l, 0)
  BY <1>3, LongerHas
<1>7. PICK A : A = Reserve(f, ps, Len(seqs[f]))
  OBVIOUS
<1>8. /\ A \in Seq(Writes) /\ Len(A) = 3 * m
      /\ \A k \in 1..m : A[2 * k - 1] = Own(ps[k], f, Len(seqs[f]) + k - 1) /\ A[2 * k] = Bit(ps[k][1])
      /\ \A k \in 1..m : A[2 * m + k] = List(f, ps[k][1])
  <2>1. PICK len \in Nat : len = Len(seqs[f])
    BY <1>3
  <2>2. ReserveQueue(A, f, ps, len, m)
    BY <1>2, <1>7, <2>1, ReserveQueued
  <2>3. QED
    BY <2>1, <2>2 DEF ReserveQueue
<1>9. PICK r : r = WriteWrites(f, n)
  OBVIOUS
<1>10. r = A \o (IF \A i \in s..(n - 1) : Has(l, i) THEN Payload(f, l, s, n) ELSE <<>>)
  BY <1>1, <1>2, <1>4, <1>7, <1>9 DEF WriteWrites
<1>11. \E q \in Nat, B \in Seq(Writes) :
          /\ r = A \o B /\ Len(B) = q
          /\ \/ q = 0
             \/ q = n - s + 1 /\ PayloadQueue(B, 0, f, l, s, n)
  <2>1. CASE \A i \in s..(n - 1) : Has(l, i)
    <3>1. PICK B : B = Payload(f, l, s, n)
      OBVIOUS
    <3>2. B \in Seq(Writes) /\ Len(B) = (n - s) + 1 /\ PayloadQueue(B, 0, f, l, s, n)
      <4>1. /\ Payload(f, l, s, n) \in Seq(Writes) /\ Len(Payload(f, l, s, n)) = (n - s) + 1
            /\ PayloadQueue(Payload(f, l, s, n), 0, f, l, s, n)
        BY <1>3, <1>5, <1>6, <2>1, PayloadQueued
      <4>2. QED
        BY <3>1, <4>1
    <3>3. r = A \o B
      BY <1>10, <2>1, <3>1
    <3>4. (n - s) + 1 \in Nat
      BY <1>5
    <3>5. QED
      BY <3>2, <3>3, <3>4
  <2>2. CASE ~ \A i \in s..(n - 1) : Has(l, i)
    <3>1. r = A \o <<>>
      BY <1>10, <2>2
    <3>2. <<>> \in Seq(Writes) /\ Len(<<>>) = 0
      OBVIOUS
    <3>3. QED
      BY <3>1, <3>2
  <2>3. QED
    BY <2>1, <2>2
<1>12. PICK q \in Nat, B \in Seq(Writes) :
          /\ r = A \o B /\ Len(B) = q
          /\ \/ q = 0
             \/ q = n - s + 1 /\ PayloadQueue(B, 0, f, l, s, n)
  BY <1>11
<1>13. PICK m3 \in Nat : m3 = 3 * m
  OBVIOUS
<1>14. IsJoined(r, A, m3, B, q)
  BY <1>8, <1>12, <1>13, Joined
<1>15. r \in Seq(Writes) /\ Len(r) = 3 * m + q
  BY <1>13, <1>14 DEF IsJoined
<1>16. \A k \in 1..m : r[2 * k - 1] = A[2 * k - 1] /\ r[2 * k] = A[2 * k] /\ r[2 * m + k] = A[2 * m + k]
  <2>1. \A k \in 1..m : 2 * k - 1 \in 1..m3 /\ 2 * k \in 1..m3 /\ 2 * m + k \in 1..m3
    BY <1>13
  <2>2. QED
    BY <1>14, <2>1 DEF IsJoined
<1>17. \/ q = 0
       \/ q = n - s + 1 /\ PayloadQueue(r, 3 * m, f, l, s, n)
  <2>1. CASE q = n - s + 1 /\ PayloadQueue(B, 0, f, l, s, n)
    <3>1. \A k \in 1..(n - s) : k \in 1..q /\ 0 + k = k
      BY <1>5, <2>1
    <3>2. n - s + 1 \in 1..q /\ 0 + (n - s) + 1 = n - s + 1
      BY <1>5, <2>1
    <3>3. \A i \in 1..q : r[m3 + i] = B[i]
      BY <1>14 DEF IsJoined
    <3>4. \A k \in 1..(n - s) : r[m3 + k] = Data(Found(l, s + k - 1), Tag(f, s + k - 1))
      BY <2>1, <3>1, <3>3 DEF PayloadQueue
    <3>5. r[m3 + (n - s + 1)] = Size(Found(l, 0), n)
      BY <2>1, <3>2, <3>3 DEF PayloadQueue
    <3>6. m3 + (n - s + 1) = m3 + (n - s) + 1
      BY <1>5
    <3>7. PayloadQueue(r, m3, f, l, s, n)
      BY <2>1, <3>4, <3>5, <3>6 DEF PayloadQueue
    <3>8. QED
      BY <1>13, <2>1, <3>7
  <2>2. QED
    BY <1>12, <2>1
<1>18. \A i \in 1..(2 * m) : \E k \in 1..m : i = 2 * k - 1 \/ i = 2 * k
  BY Halves
<1>19. WriteQueue(r, f, n, l, ps, m)
  BY <1>4, <1>8, <1>15, <1>16, <1>17, <1>18 DEF WriteQueue
<1>20. QED
  BY <1>1, <1>2, <1>9, <1>19

-----------------------------------------------------------------------------
(* The steps, with the writes they make due.                                *)

Rest == <<vol, saved, seqs, todo, busy, gen, cut, crashes>>

(* The process is lost before the request writes anything. *)
Loses == status' \in {"hung", "undefined"} /\ todo = <<>> /\ UNCHANGED Rest

(* A creation starts: f gets block b of cluster c. *)
Creates(f, c, b) ==
  /\ status = "up" /\ todo = <<>>
  /\ f \in File /\ c \in Cluster /\ b \in Slot
  /\ vol.table[f].lnk = 0 /\ seqs[f] = <<>> /\ vol.ctab[<<c, b>>].fid = 0
  /\ vol.root.len < PerBlock * BPC
  /\ CreateQueue(todo', f, c, b) /\ todo' # <<>>
  /\ busy' = <<"create", f>> /\ gen' = [gen EXCEPT ![f] = @ + 1]
  /\ cut' = cut \cup Again(f) \cup Twice(f)
  /\ UNCHANGED <<vol, saved, seqs, status, crashes>>

(* A creation starts that got no block. *)
GivesUp(f) ==
  /\ status = "up" /\ todo = <<>>
  /\ f \in File /\ vol.table[f].lnk = 0 /\ seqs[f] = <<>>
  /\ vol.root.len < PerBlock * BPC
  /\ GiveUpQueue(todo', f) /\ todo' # <<>>
  /\ busy' = <<"create", f>> /\ gen' = [gen EXCEPT ![f] = @ + 1]
  /\ cut' = cut \cup Again(f) \cup Twice(f) \cup {<<"gaveup", f>>}
  /\ UNCHANGED <<vol, saved, seqs, status, crashes>>

(* The list of f is built. *)
Gets(f) ==
  /\ status = "up" /\ todo = <<>>
  /\ f \in File /\ f \in Entries(vol)
  /\ seqs' = [seqs EXCEPT ![f] = BlocksOf(vol, f)]
  /\ UNCHANGED <<vol, saved, todo, busy, status, gen, cut, crashes>>

(* A write starts: f gets m new blocks. *)
Extends(f, n, m) ==
  /\ status = "up" /\ todo = <<>>
  /\ f \in File /\ f \in Entries(vol) /\ n \in Nat /\ m \in Nat /\ Has(seqs[f], 0)
  /\ FreeOnes(NewOnes(f, n), m)
  /\ Longer(NewList(f, n), f, NewOnes(f, n), m)
  /\ WriteQueue(todo', f, n, NewList(f, n), NewOnes(f, n), m)
  /\ seqs' = [seqs EXCEPT ![f] = NewList(f, n)]
  /\ busy' = IF todo' = <<>> THEN Idle ELSE <<"write", f>>
  /\ cut' = cut \cup Again(f)
  /\ UNCHANGED <<vol, saved, status, gen, crashes>>

(* A removal starts. *)
Unlinks(f) ==
  /\ status = "up" /\ todo = <<>>
  /\ f \in File /\ f \in Entries(vol) /\ vol.table[f].lnk = 1
  /\ UnlinkQueue(todo', f) /\ todo' # <<>>
  /\ busy' = <<"unlink", f>>
  /\ UNCHANGED <<vol, saved, seqs, status, gen, cut, crashes>>

\* Between requests nothing is due.
LEMMA ReadyRests ==
  ASSUME TypeOK, Ready
  PROVE  todo = <<>> /\ status = "up"
<1>1. \A x \in {"create", "write", "unlink"} \X File : x # Idle
  BY Sizes DEF Idle
<1>2. QED
  BY <1>1 DEF TypeOK, Ready

\* ops_create makes the writes of a creation due, with a block or without one.
LEMMA CreateSteps ==
  ASSUME TypeOK, ops_create
  PROVE  (\E f, c, b : Creates(f, c, b)) \/ \E f : GivesUp(f)
<1> DEFINE f == Least(FreeFids)
           C == FreeClusters(vol.bitmap)
           c == Least(C)
           F == {b \in Slot : vol.ctab[<<c, b>>].fid = 0}
<1>1. Ready /\ todo = <<>> /\ status = "up"
  BY ReadyRests DEF ops_create
<1>2. f \in File /\ vol.table[f].lnk = 0
  <2>1. FreeFids # {} /\ FreeFids \in SUBSET File
    BY DEF ops_create, FreeFids
  <2>2. IsFiniteSet(File) /\ File \in SUBSET Int
    BY CrashAssumption, FS_Interval DEF File
  <2>3. IsFiniteSet(FreeFids) /\ FreeFids \in SUBSET Int
    BY <2>1, <2>2, FS_Subset
  <2>4. f \in FreeFids
    BY <2>1, <2>3, LeastExists
  <2>5. QED
    BY <2>4 DEF FreeFids
<1>0. C # {}
  BY Zenon DEF ops_create
<1>3. c \in Cluster
  <2>1. C # {} /\ C \in SUBSET Cluster
    BY <1>0, FreeIsCluster
  <2>2. IsFiniteSet(C) /\ C \in SUBSET Int
    <3>1. IsFiniteSet(C)
      BY <2>1, FiniteVolume, FS_Subset
    <3>2. Cluster \subseteq Int
      BY Sizes
    <3>3. QED
      BY <2>1, <3>1, <3>2, Zenon
  <2>3. QED
    BY <2>1, <2>2, LeastExists
<1>4. /\ seqs[f] = <<>> /\ vol.root.len < PerBlock * BPC
      /\ gen' = [gen EXCEPT ![f] = @ + 1] /\ UNCHANGED seqs
  BY DEF ops_create
<1>5. PICK junk \in Junk :
        \/ /\ F # {}
           /\ Begin("create", f, CreateWrites(f, c, Least(F), junk))
           /\ cut' = cut \cup Again(f) \cup Twice(f)
        \/ /\ F = {}
           /\ \E b \in Slot : vol.ctab[<<c, b>>].fid = f
           /\ Begin("create", f, GiveUpWrites(f, c, junk))
           /\ cut' = cut \cup Again(f) \cup Twice(f) \cup {<<"gaveup", f>>}
        \/ /\ Begin("create", f, LostWrites(f, junk))
           /\ cut' = cut \cup Again(f) \cup Twice(f) \cup {<<"gaveup", f>>}
  BY Zenon DEF ops_create
<1>6. CASE /\ F # {}
           /\ Begin("create", f, CreateWrites(f, c, Least(F), junk))
           /\ cut' = cut \cup Again(f) \cup Twice(f)
  <2>2. Least(F) \in F
    <3>0. Slot \subseteq Int
      BY Sizes
    <3>1. F \in SUBSET Slot /\ F \in SUBSET Int
      BY <3>0, Zenon
    <3>2. IsFiniteSet(F)
      BY <3>1, FiniteVolume, FS_Subset
    <3>3. QED
      BY <1>6, <3>1, <3>2, LeastExists
  <2>3. PICK b : b = Least(F)
    OBVIOUS
  <2>4. b \in Slot /\ vol.ctab[<<c, b>>].fid = 0 /\ c \in Cluster
    BY <1>3, <1>6, <2>2, <2>3
  <2>5. Begin("create", f, CreateWrites(f, c, b, junk))
    BY <1>6, <2>3
  <2>55. cut' = cut \cup Again(f) \cup Twice(f)
    BY <1>6
  <2> HIDE DEF f, c, F
  <2>6. CreateQueue(CreateWrites(f, c, b, junk), f, c, b)
    BY <1>2, <1>4, <2>4, CreateQueued
  <2>7. todo' = CreateWrites(f, c, b, junk)
        /\ busy' = (IF CreateWrites(f, c, b, junk) = <<>> THEN Idle ELSE <<"create", f>>)
        /\ UNCHANGED <<vol, saved, status, crashes>>
    BY <2>5 DEF Begin
  <2>8. CreateQueue(todo', f, c, b)
    BY <2>6, <2>7
  <2>9. todo' # <<>>
    BY <2>8, Sizes DEF CreateQueue
  <2>10. QED
    BY <1>1, <1>2, <1>4, <2>4, <2>55, <2>7, <2>8, <2>9 DEF Creates
<1>7. ASSUME NEW r, GiveUpQueue(r, f), Begin("create", f, r),
             cut' = cut \cup Again(f) \cup Twice(f) \cup {<<"gaveup", f>>}
      PROVE  GivesUp(f)
  <2> HIDE DEF f, c, F
  <2>1. todo' = r /\ r # <<>> /\ UNCHANGED <<vol, saved, status, crashes>>
    BY <1>7 DEF Begin, GiveUpQueue
  <2>2. busy' = <<"create", f>>
    BY <1>7, <2>1 DEF Begin
  <2>3. QED
    BY <1>1, <1>2, <1>4, <1>7, <2>1, <2>2 DEF GivesUp
<1>8. CASE /\ F = {}
           /\ \E b \in Slot : vol.ctab[<<c, b>>].fid = f
           /\ Begin("create", f, GiveUpWrites(f, c, junk))
           /\ cut' = cut \cup Again(f) \cup Twice(f) \cup {<<"gaveup", f>>}
  <2>1. GiveUpQueue(GiveUpWrites(f, c, junk), f)
    BY <1>2, <1>3, <1>4, <1>8, GiveUpQueued
  <2>2. QED
    BY <1>7, <1>8, <2>1
<1>9. CASE /\ Begin("create", f, LostWrites(f, junk))
           /\ cut' = cut \cup Again(f) \cup Twice(f) \cup {<<"gaveup", f>>}
  <2>1. GiveUpQueue(LostWrites(f, junk), f)
    BY <1>2, <1>4, LostQueued
  <2>2. QED
    BY <1>7, <1>9, <2>1
<1>10. QED
  BY <1>5, <1>6, <1>8, <1>9

\* ops_getattr builds a list, or ends in undefined behaviour.
LEMMA GetSteps ==
  ASSUME TypeOK, NEW f \in File, ops_getattr(f)
  PROVE  Loses \/ Gets(f)
  BY ReadyRests DEF ops_getattr, Lose, Loses, Rest, Gets

\* ops_unlink makes the writes of a removal due.
LEMMA UnlinkSteps ==
  ASSUME TypeOK, NEW f \in File, ops_unlink(f)
  PROVE  Unlinks(f)
<1>1. todo = <<>> /\ status = "up" /\ f \in Entries(vol) /\ vol.table[f].lnk = 1
      /\ UNCHANGED <<seqs, gen, cut>>
  BY ReadyRests DEF ops_unlink
<1>2. PICK junk \in Junk : Begin("unlink", f, UnlinkWrites(f, junk))
  BY DEF ops_unlink
<1>3. UnlinkQueue(UnlinkWrites(f, junk), f)
  BY <1>1, UnlinkQueued
<1>4. todo' = UnlinkWrites(f, junk)
      /\ busy' = (IF UnlinkWrites(f, junk) = <<>> THEN Idle ELSE <<"unlink", f>>)
      /\ UNCHANGED <<vol, saved, status, crashes>>
  BY <1>2 DEF Begin
<1>5. UnlinkQueue(todo', f)
  BY <1>3, <1>4
<1>6. todo' # <<>>
  <2>1. PICK m \in Nat : Len(todo') = 2 * m + BPC + 1
    BY <1>5 DEF UnlinkQueue
  <2>2. Len(todo') > 0
    BY <2>1, Sizes
  <2>3. QED
    BY <2>2
<1>7. QED
  BY <1>1, <1>4, <1>5, <1>6 DEF Unlinks

\* ops_write makes the writes of the new blocks and of the payload due, or hangs.
LEMMA WriteSteps ==
  ASSUME TypeOK, NEW f \in File, NEW n \in 1..MaxBlocks, ops_write(f, n)
  PROVE  Loses \/ \E m : Extends(f, n, m)
<1>1. todo = <<>> /\ status = "up" /\ f \in Entries(vol) /\ Has(seqs[f], 0) /\ n \in Nat
  BY ReadyRests DEF ops_write
<1> DEFINE lack == IF n > Len(seqs[f]) THEN n - Len(seqs[f]) ELSE 0
           end  == SearchOutcome(vol.bitmap, vol.ctab, lack)
<1>2. SizeOf(vol, seqs[f]) < n
  BY DEF ops_write
<1>3. CASE end = "hung"
  <2>1. Lose("hung")
    BY <1>3, Zenon DEF ops_write
  <2>2. QED
    BY <1>1, <2>1 DEF Lose, Loses, Rest
<1>4. CASE end # "hung"
  <2>1. /\ Begin("write", f, WriteWrites(f, n))
        /\ seqs' = [seqs EXCEPT ![f] = NewList(f, n)]
        /\ cut' = cut \cup Again(f)
        /\ UNCHANGED gen
    BY <1>4, Zenon DEF ops_write, WriteWrites, NewList, NewOnes, Lack
  <2>2. PICK m \in Nat : FreeOnes(NewOnes(f, n), m)
    BY <1>1, NewOnesAre
  <2>3. Longer(NewList(f, n), f, NewOnes(f, n), m)
    BY <1>1, <2>2, NewListIs
  <2>4. WriteQueue(WriteWrites(f, n), f, n, NewList(f, n), NewOnes(f, n), m)
    BY <1>1, <1>2, <2>2, WriteQueued
  <2>5. /\ todo' = WriteWrites(f, n)
        /\ busy' = (IF WriteWrites(f, n) = <<>> THEN Idle ELSE <<"write", f>>)
        /\ UNCHANGED <<vol, saved, status, crashes>>
    BY <2>1 DEF Begin
  <2>6. WriteQueue(todo', f, n, NewList(f, n), NewOnes(f, n), m)
    BY <2>4, <2>5
  <2>7. busy' = IF todo' = <<>> THEN Idle ELSE <<"write", f>>
    BY <2>5
  <2>8. QED
    BY <1>1, <2>1, <2>2, <2>3, <2>5, <2>6, <2>7 DEF Extends
<1>5. QED
  BY <1>3, <1>4

\* What a step is.
LEMMA StepIs ==
  ASSUME TypeOK, [Next]_vars
  PROVE  \/ Loses \/ \E f, c, b : Creates(f, c, b)
         \/ \E f : GivesUp(f)
         \/ \E f : Gets(f)
         \/ \E f, n, m : Extends(f, n, m)
         \/ \E f : Unlinks(f)
         \/ Write \/ Crash \/ Remount \/ UNCHANGED vars
  BY CreateSteps, GetSteps, UnlinkSteps, WriteSteps, Zenon DEF Next

\* The writes that are due, when the first of them was performed.
LEMMA Due ==
  ASSUME TypeOK, Write
  PROVE  /\ Head(todo) \in Writes /\ Head(todo) = todo[1] /\ todo' \in Seq(Writes)
         /\ \A i \in DOMAIN todo : i = 1 \/ i - 1 \in DOMAIN todo'
         /\ \A i \in DOMAIN todo' : i \in Nat /\ i + 1 \in DOMAIN todo /\ todo'[i] = todo[i + 1]
         /\ vol' \in Volume /\ vol' = After(vol, Head(todo)) /\ saved' = SavedAfter(Head(todo), vol')
<1>1. PICK s \in Seq(Writes) : s = todo
  BY StateTyped
<1>2. s # <<>> /\ todo' = Tail(s)
  BY <1>1 DEF Write
<1>3. Head(s) \in Writes /\ Head(s) = s[1]
  BY <1>2
<1>4. /\ Tail(s) \in Seq(Writes) /\ Len(Tail(s)) = Len(s) - 1 /\ Len(s) \in Nat
      /\ \A i \in 1..Len(Tail(s)) : Tail(s)[i] = s[i + 1]
  BY <1>2
<1>5. DOMAIN s = 1..Len(s) /\ DOMAIN Tail(s) = 1..(Len(s) - 1)
  BY <1>4
<1>6. \A i \in 1..(Len(s) - 1) : i \in Nat /\ i + 1 \in 1..Len(s)
  BY <1>4
<1>7. \A i \in 1..Len(s) : i = 1 \/ i - 1 \in 1..(Len(s) - 1)
  BY <1>4
<1>8. vol' \in Volume
  BY <1>1, <1>3, StateTyped, AfterTyped DEF Write
<1>9. vol' = After(vol, Head(todo)) /\ saved' = SavedAfter(Head(todo), vol')
  BY DEF Write
<1>10. QED
  BY <1>1, <1>2, <1>3, <1>4, <1>5, <1>6, <1>7, <1>8, <1>9

\* What is remembered of a request after a cut.
LEMMA AgainTyped ==
  ASSUME NEW f \in File
  PROVE  /\ Again(f) \subseteq CutKinds \X File /\ Twice(f) \subseteq CutKinds \X File
         /\ <<"gaveup", f>> \in CutKinds \X File
  BY DEF Again, Twice, CutKinds

\* The volume as a mount reads it differs in table and bitmap.
LEMMA MountIs ==
  ASSUME TypeOK
  PROVE  /\ OnDevice \in Volume /\ OnDevice.table = saved.table /\ OnDevice.bitmap = saved.bitmap
         /\ OnDevice.ctab = vol.ctab /\ OnDevice.root = vol.root /\ OnDevice.data = vol.data
<1>1. vol \in Volume /\ saved.table \in Tables /\ saved.bitmap \in Bitmaps
  BY DEF TypeOK, Table, Tables, Bitmaps
<1>2. PICK d, t, b : d = vol /\ t = saved.table /\ b = saved.bitmap
  OBVIOUS
<1>3. PICK e : e = [d EXCEPT !.table = t]
  OBVIOUS
<1>4. e \in Volume /\ e.table = t /\ e.ctab = d.ctab /\ e.bitmap = d.bitmap /\ e.root = d.root /\ e.data = d.data
  BY <1>1, <1>2, <1>3, DeviceWith
<1>5. PICK o : o = [e EXCEPT !.bitmap = b]
  OBVIOUS
<1>6. o \in Volume /\ o.bitmap = b /\ o.ctab = e.ctab /\ o.table = e.table /\ o.root = e.root /\ o.data = e.data
  BY <1>1, <1>2, <1>4, <1>5, DeviceWith
<1>7. o = OnDevice
  BY <1>2, <1>3, <1>5 DEF OnDevice
<1>8. QED
  BY <1>2, <1>4, <1>6, <1>7

\* What is saved of a volume is a file table and a bitmap.
LEMMA SavedTyped ==
  ASSUME TypeOK, NEW w, NEW e \in Volume
  PROVE  SavedAfter(w, e) \in [table : Table, bitmap : [Cluster -> {0, 1}]]
<1>1. saved.table \in Table /\ saved.bitmap \in [Cluster -> {0, 1}]
  BY DEF TypeOK
<1>2. e.table \in Table /\ e.bitmap \in [Cluster -> {0, 1}]
  BY DEF Volume, Table
<1>3. dev_write_bitmap(e.bitmap) \in [Cluster -> {0, 1}]
  BY <1>2 DEF dev_write_bitmap
<1>4. QED
  BY <1>1, <1>2, <1>3 DEF SavedAfter

\* Types are kept.
LEMMA TypeStep ==
  ASSUME TypeOK, [Next]_vars
  PROVE  TypeOK'
<1>1. CASE Loses
  BY <1>1 DEF Loses, Rest, TypeOK
<1>2. ASSUME NEW f, NEW c, NEW b, Creates(f, c, b) PROVE TypeOK'
  <2>1. todo' \in Seq(Writes) /\ todo' # <<>> /\ f \in File
    BY <1>2 DEF Creates, CreateQueue
  <2>2. gen' \in [File -> Nat]
    BY <1>2 DEF Creates, TypeOK
  <2>3. busy' \in {"create", "write", "unlink"} \X File
    BY <1>2 DEF Creates
  <2>4. cut' \subseteq CutKinds \X File
    BY <1>2, AgainTyped DEF Creates, TypeOK
  <2>5. vol' \in Volume /\ saved' = saved /\ status' = status /\ seqs' = seqs /\ crashes' = crashes
    BY <1>2, StateTyped DEF Creates
  <2>6. QED
    BY <2>1, <2>2, <2>3, <2>4, <2>5 DEF TypeOK
<1>25. ASSUME NEW f, GivesUp(f) PROVE TypeOK'
  <2>1. todo' \in Seq(Writes) /\ todo' # <<>> /\ f \in File
    BY <1>25 DEF GivesUp, GiveUpQueue
  <2>2. gen' \in [File -> Nat]
    BY <1>25 DEF GivesUp, TypeOK
  <2>3. busy' \in {"create", "write", "unlink"} \X File
    BY <1>25 DEF GivesUp
  <2>4. cut' \subseteq CutKinds \X File
    BY <1>25, AgainTyped DEF GivesUp, TypeOK
  <2>5. vol' \in Volume /\ saved' = saved /\ status' = status /\ seqs' = seqs /\ crashes' = crashes
    BY <1>25, StateTyped DEF GivesUp
  <2>6. QED
    BY <2>1, <2>2, <2>3, <2>4, <2>5 DEF TypeOK
<1>3. ASSUME NEW f, Gets(f) PROVE TypeOK'
  <2>1. BlocksOf(vol, f) \in Seq(BlkInfo)
    BY <1>3, StateTyped, BlocksOfAre DEF Gets
  <2>2. seqs' \in [File -> Seq(BlkInfo)]
    BY <1>3, <2>1 DEF Gets, TypeOK
  <2>3. QED
    BY <1>3, <2>2 DEF Gets, TypeOK
<1>4. ASSUME NEW f, NEW n, NEW m, Extends(f, n, m) PROVE TypeOK'
  <2>1. todo' \in Seq(Writes) /\ NewList(f, n) \in Seq(BlkInfo) /\ f \in File
    BY <1>4 DEF Extends, WriteQueue, Longer
  <2>2. seqs' \in [File -> Seq(BlkInfo)]
    BY <1>4, <2>1 DEF Extends, TypeOK
  <2>3. cut' \subseteq CutKinds \X File
    BY <1>4, AgainTyped DEF Extends, TypeOK
  <2>4. IF todo' = <<>> THEN busy' = Idle ELSE busy' \in {"create", "write", "unlink"} \X File
    BY <1>4 DEF Extends
  <2>5. /\ vol' \in Volume /\ saved' = saved /\ status' = status
        /\ gen' \in [File -> Nat] /\ crashes' \in 0..MaxCrash
    BY <1>4 DEF Extends, TypeOK
  <2>6. QED
    BY <2>1, <2>2, <2>3, <2>4, <2>5 DEF TypeOK
<1>5. ASSUME NEW f, Unlinks(f) PROVE TypeOK'
  <2>1. todo' \in Seq(Writes) /\ todo' # <<>> /\ busy' \in {"create", "write", "unlink"} \X File
    BY <1>5 DEF Unlinks, UnlinkQueue
  <2>2. QED
    BY <1>5, <2>1 DEF Unlinks, TypeOK
<1>6. CASE Write
  <2>1. todo' \in Seq(Writes) /\ vol' \in Volume
    BY <1>6, Due
  <2>2. todo # <<>> /\ busy' = (IF todo' = <<>> THEN Idle ELSE busy) /\ UNCHANGED <<seqs, gen, cut, crashes>>
    BY <1>6 DEF Write
  <2>3. status' \in {"up", "hung", "undefined"}
    BY <1>6 DEF Write, TypeOK
  <2>4. saved' \in [table : Table, bitmap : [Cluster -> {0, 1}]]
    BY <1>6, <2>1, Due, SavedTyped
  <2>5. QED
    BY <2>1, <2>2, <2>3, <2>4 DEF TypeOK
<1>7. CASE Crash \/ Remount
  <2>1. cut' \subseteq CutKinds \X File
    BY <1>7 DEF Crash, Remount, TypeOK, CutKinds
  <2>2. crashes' \in 0..MaxCrash
    BY <1>7, CrashAssumption DEF Crash, Remount, TypeOK
  <2>3. /\ seqs' = [f \in File |-> <<>>] /\ todo' = <<>> /\ busy' = Idle
        /\ vol' \in Volume /\ UNCHANGED <<saved, status, gen>>
    BY <1>7, MountIs DEF Crash, Remount, Mounted
  <2>4. QED
    BY <2>1, <2>2, <2>3 DEF TypeOK
<1>9. CASE UNCHANGED vars
  BY <1>9 DEF vars, TypeOK
<1>10. QED
  BY <1>1, <1>2, <1>25, <1>3, <1>4, <1>5, <1>6, <1>7, <1>9, StepIs

\* The formatted volume is typed.
LEMMA TypeInit ==
  ASSUME Init
  PROVE  TypeOK
<1>1. 0 \in Nat /\ 0 \in 0..(NF - 1) /\ 0 \in 0..(PerBlock * BPC)
  BY Sizes, RootSize
<1>2. \A p \in Block : p[2] - 1 \in Nat /\ p[2] - 1 \in Nat
  BY SizeAssumption DEF Block, Slot
<1>3. Formatted.table \in Tables
  BY DEF Formatted, Tables
<1>4. Formatted.ctab \in Ctabs
  <2>1. \A p \in Block : (IF p[1] = 0 THEN [fid |-> 0, num |-> p[2] - 1] ELSE FreeEntry) \in [fid : 0..(NF - 1), num : Nat]
    BY <1>1, <1>2 DEF FreeEntry
  <2>2. QED
    BY <2>1 DEF Formatted, Ctabs
<1>5. Formatted.bitmap \in Bitmaps
  BY DEF Formatted, Bitmaps
<1>6. Formatted.root \in Roots
  BY <1>1 DEF Formatted, Roots
<1>7. Formatted.data \in Contents
  <2>1. Never \in Content
    BY <1>1 DEF Never, Content
  <2>2. QED
    BY <2>1 DEF Formatted, Contents
<1>8. Formatted \in Volume
  <2>1. Volume = [table : Tables, ctab : Ctabs, bitmap : Bitmaps, root : Roots, data : Contents]
    BY DEF Volume, Table, Tables, Ctabs, Bitmaps, Roots, Contents
  <2>2. Formatted = [table |-> Formatted.table, ctab |-> Formatted.ctab, bitmap |-> Formatted.bitmap,
                     root |-> Formatted.root, data |-> Formatted.data]
    BY DEF Formatted
  <2>3. QED
    BY <1>3, <1>4, <1>5, <1>6, <1>7, <2>1, <2>2
<1>9. 0 \in 0..MaxCrash
  BY CrashAssumption
<1>10. saved \in [table : Table, bitmap : [Cluster -> {0, 1}]]
  <2>1. Formatted.table \in Table /\ Formatted.bitmap \in [Cluster -> {0, 1}]
    BY <1>3, <1>5 DEF Tables, Table, Bitmaps
  <2>2. QED
    BY <2>1 DEF Init
<1>11. QED
  BY <1>8, <1>9, <1>10 DEF Init, TypeOK

\* The device, the cached lists and the writes due are what their types say, for
\* volumes, directories and numbers of kills of every size.
THEOREM CrashTypes == Spec => []TypeOK
<1>1. Init => TypeOK
  BY TypeInit
<1>2. TypeOK /\ [Next]_vars => TypeOK'
  BY TypeStep
<1>3. QED
  BY <1>1, <1>2, PTL DEF Spec

-----------------------------------------------------------------------------
(* The places of the writes.                                                *)

\* A write of a kind has the fields of its kind.
LEMMA KindIs ==
  ASSUME NEW w \in Writes
  PROVE  /\ w.w = "own" => w \in OwnW
         /\ w.w = "drop" => w \in DropW
         /\ w.w = "bit" => w \in BitW
         /\ w.w = "take" => w \in TakeW
         /\ w.w = "list" => w \in ListW
         /\ w.w = "release" => w \in ReleaseW
         /\ w.w = "dir" => w \in DirW
         /\ w.w = "head" => w \in HeadW
         /\ w.w = "data" => w \in DataW
         /\ w.w = "size" => w \in SizeW
         /\ w.w = "wild" => w \in WildW
         /\ w.w \in {"own", "drop", "bit", "take", "list", "release", "dir", "head", "data", "size", "wild"}
  BY WriteKinds DEF OwnW, DropW, BitW, TakeW, ListW, ReleaseW, DirW, HeadW, DataW, SizeW, WildW

\* The writes of a creation, one after the other.
LEMMA CreatePlaces ==
  ASSUME NEW r, NEW f, NEW c, NEW b, CreateQueue(r, f, c, b)
  PROVE  /\ DOMAIN r = 1..(BPC + 4)
         /\ \A i \in DOMAIN r :
              \/ i = 1 /\ r[i] = Own(<<c, b>>, f, 0)
              \/ i = 2 /\ r[i] = Bit(c)
              \/ i = 3 /\ r[i] = Take(f, c)
              \/ i - 3 \in 1..BPC /\ r[i].w = "dir" /\ r[i].i = i - 3
              \/ i = BPC + 4 /\ r[i].w = "head"
<1>1. r \in Seq(Writes) /\ Len(r) = BPC + 4
  BY DEF CreateQueue
<1>2. DOMAIN r = 1..(BPC + 4)
  BY <1>1
<1>3. \A i \in 1..(BPC + 4) : i = 1 \/ i = 2 \/ i = 3 \/ i - 3 \in 1..BPC \/ i = BPC + 4
  BY Sizes
<1>4. r[1] = Own(<<c, b>>, f, 0) /\ r[2] = Bit(c) /\ r[3] = Take(f, c)
  BY DEF CreateQueue
<1>5. ASSUME NEW i \in 1..(BPC + 4), i - 3 \in 1..BPC PROVE r[i].w = "dir" /\ r[i].i = i - 3
  <2>1. PICK j \in 1..BPC : j = i - 3 /\ i = j + 3
    BY <1>5, Sizes
  <2>2. \E new : r[j + 3] = Dir(j, vol.root.len + 1, new)
    BY <2>1 DEF CreateQueue
  <2>3. r[j + 3].w = "dir" /\ r[j + 3].i = j
    BY <2>2, FieldsAre
  <2>4. QED
    BY <2>1, <2>3
<1>6. r[BPC + 4].w = "head"
  <2>1. \E p : \E x : r[BPC + 4] = Header(p, x)
    BY DEF CreateQueue
  <2>2. QED
    BY <2>1, FieldsAre
<1>7. QED
  BY <1>2, <1>3, <1>4, <1>5, <1>6

(* Write i of a removal that goes through m clusters. *)
FreesAt(r, f, m, cl, i) ==
  \/ \E k \in 1..m : i = 2 * k - 1 /\ r[i] = Drop(cl[k], f) /\ i + 1 \in DOMAIN r /\ r[i + 1] = Bit(cl[k])
  \/ \E k \in 1..m : i = 2 * k /\ r[i] = Bit(cl[k])
DirAt(r, i, j)  == r[i].w = "dir" /\ r[i].i = j
EndsAt(r, f, i) == r[i] = Release(f)

\* The kinds of the writes of a creation.
LEMMA CreateKinds ==
  ASSUME NEW r, NEW f, NEW c, NEW b, CreateQueue(r, f, c, b), NEW i \in DOMAIN r
  PROVE  \/ i = 1 /\ r[i].w = "own"
         \/ i = 2 /\ r[i].w = "bit"
         \/ i = 3 /\ r[i].w = "take"
         \/ i - 3 \in 1..BPC /\ r[i].w = "dir" /\ r[i].i = i - 3
         \/ i = BPC + 4 /\ r[i].w = "head"
<1>1. CASE r[i] = Own(<<c, b>>, f, 0) /\ i = 1
  BY <1>1, FieldsAre
<1>2. CASE r[i] = Bit(c) /\ i = 2
  BY <1>2, FieldsAre
<1>3. CASE r[i] = Take(f, c) /\ i = 3
  BY <1>3, FieldsAre
<1>4. QED
  BY <1>1, <1>2, <1>3, CreatePlaces

\* The writes of a removal, one after the other.
LEMMA UnlinkPlaces ==
  ASSUME NEW r, NEW f, UnlinkQueue(r, f)
  PROVE  \E m \in Nat : \E cl \in [1..m -> Cluster] :
           /\ DOMAIN r = 1..(2 * m + BPC + 1)
           /\ \A i \in DOMAIN r :
                \/ i \in 1..(2 * m) /\ FreesAt(r, f, m, cl, i)
                \/ i - 2 * m \in 1..BPC /\ DirAt(r, i, i - 2 * m)
                \/ i = 2 * m + BPC + 1 /\ EndsAt(r, f, i)
<1>0. PICK m \in Nat : \E cl \in [1..m -> Cluster] :
    /\ r \in Seq(Writes) /\ Len(r) = 2 * m + BPC + 1
    /\ \A i \in 1..(2 * m) : \E k \in 1..m : i = 2 * k - 1 \/ i = 2 * k
    /\ \A k \in 1..m : r[2 * k - 1] = Drop(cl[k], f) /\ r[2 * k] = Bit(cl[k])
    /\ \E new : \A i \in 1..BPC : r[2 * m + i] = Dir(i, vol.root.len - 1, new)
    /\ r[2 * m + BPC + 1] = Release(f)
  BY DEF UnlinkQueue
<1>1. PICK cl \in [1..m -> Cluster] :
    /\ r \in Seq(Writes) /\ Len(r) = 2 * m + BPC + 1
    /\ \A i \in 1..(2 * m) : \E k \in 1..m : i = 2 * k - 1 \/ i = 2 * k
    /\ \A k \in 1..m : r[2 * k - 1] = Drop(cl[k], f) /\ r[2 * k] = Bit(cl[k])
    /\ \E new : \A i \in 1..BPC : r[2 * m + i] = Dir(i, vol.root.len - 1, new)
    /\ r[2 * m + BPC + 1] = Release(f)
  BY <1>0
<1>2. DOMAIN r = 1..(2 * m + BPC + 1)
  BY <1>1
<1>3. \A i \in 1..(2 * m + BPC + 1) : i \in 1..(2 * m) \/ i - 2 * m \in 1..BPC \/ i = 2 * m + BPC + 1
  BY Sizes
<1>4. ASSUME NEW i \in 1..(2 * m)
      PROVE  FreesAt(r, f, m, cl, i)
  <2>1. PICK k \in 1..m : i = 2 * k - 1 \/ i = 2 * k
    BY <1>1
  <2>2. CASE i = 2 * k - 1
    <3>1. i + 1 = 2 * k /\ i + 1 \in 1..(2 * m + BPC + 1)
      BY <2>2, Sizes
    <3>2. QED
      BY <1>1, <1>2, <2>2, <3>1 DEF FreesAt
  <2>3. CASE i = 2 * k
    BY <1>1, <2>3 DEF FreesAt
  <2>4. QED
    BY <2>1, <2>2, <2>3
<1>5. ASSUME NEW i \in 1..(2 * m + BPC + 1), i - 2 * m \in 1..BPC PROVE DirAt(r, i, i - 2 * m)
  <2>1. PICK j \in 1..BPC : j = i - 2 * m /\ i = 2 * m + j
    BY <1>5, Sizes
  <2>2. \E new : r[2 * m + j] = Dir(j, vol.root.len - 1, new)
    BY <1>1, <2>1
  <2>3. r[2 * m + j].w = "dir" /\ r[2 * m + j].i = j
    BY <2>2, FieldsAre
  <2>4. QED
    BY <2>1, <2>3 DEF DirAt
<1>6. EndsAt(r, f, 2 * m + BPC + 1)
  BY <1>1 DEF EndsAt
<1>7. \A i \in DOMAIN r :
         \/ i \in 1..(2 * m) /\ FreesAt(r, f, m, cl, i)
         \/ i - 2 * m \in 1..BPC /\ DirAt(r, i, i - 2 * m)
         \/ i = 2 * m + BPC + 1 /\ EndsAt(r, f, i)
  BY <1>2, <1>3, <1>4, <1>5, <1>6
<1>8. QED
  BY <1>2, <1>7

(* Write i of a request that writes: of the new blocks, the list, the payload. *)
ReservesAt(r, f, ps, m, i) ==
  \/ \E k \in 1..m : /\ i = 2 * k - 1 /\ r[i] = Own(ps[k], f, Len(seqs[f]) + k - 1)
                     /\ i + 1 \in DOMAIN r /\ r[i + 1] = Bit(ps[k][1])
  \/ \E k \in 1..m : i = 2 * k /\ r[i] = Bit(ps[k][1])
ListsAt(r, f, ps, m, i) == \E k \in 1..m : i = 2 * m + k /\ r[i] = List(f, ps[k][1])
PaysAt(r, f, n, l, i) ==
  \E j \in Nat : Has(l, j) /\ (r[i] = Data(Found(l, j), Tag(f, j)) \/ r[i] = Size(Found(l, j), n))

\* The writes of a write request, one after the other.
LEMMA WritePlaces ==
  ASSUME NEW r, NEW f, NEW n \in Nat, NEW l, NEW ps, NEW m \in Nat, WriteQueue(r, f, n, l, ps, m)
  PROVE  \A i \in DOMAIN r :
           \/ i \in 1..(2 * m) /\ ReservesAt(r, f, ps, m, i)
           \/ ListsAt(r, f, ps, m, i)
           \/ i > 3 * m /\ PaysAt(r, f, n, l, i)
<1>1. PICK s \in Nat, q \in Nat :
    /\ r \in Seq(Writes) /\ Len(r) = 3 * m + q
    /\ \A i \in 1..(2 * m) : \E k \in 1..m : i = 2 * k - 1 \/ i = 2 * k
    /\ \A k \in 1..m : r[2 * k - 1] = Own(ps[k], f, Len(seqs[f]) + k - 1) /\ r[2 * k] = Bit(ps[k][1])
    /\ \A k \in 1..m : r[2 * m + k] = List(f, ps[k][1])
    /\ \/ q = 0
       \/ q = n - s + 1 /\ PayloadQueue(r, 3 * m, f, l, s, n)
  BY DEF WriteQueue, PayloadQueue
<1>2. DOMAIN r = 1..(3 * m + q)
  BY <1>1
<1>3. \A i \in 1..(3 * m + q) : i \in 1..(2 * m) \/ (\E k \in 1..m : i = 2 * m + k) \/ (\E k \in 1..q : i = 3 * m + k)
  <2>1. \A i \in 1..(3 * m + q) : i \in 1..(2 * m) \/ i - 2 * m \in 1..m \/ i - 3 * m \in 1..q
    OBVIOUS
  <2>2. \A i \in 1..(3 * m + q) : i = 2 * m + (i - 2 * m) /\ i = 3 * m + (i - 3 * m)
    OBVIOUS
  <2>3. QED
    BY <2>1, <2>2
<1>4. ASSUME NEW i \in 1..(2 * m)
      PROVE  ReservesAt(r, f, ps, m, i)
  <2>1. PICK k \in 1..m : i = 2 * k - 1 \/ i = 2 * k
    BY <1>1
  <2>2. CASE i = 2 * k - 1
    <3>1. i + 1 = 2 * k /\ i + 1 \in 1..(3 * m + q)
      BY <2>2
    <3>2. QED
      BY <1>1, <1>2, <2>2, <3>1 DEF ReservesAt
  <2>3. CASE i = 2 * k
    BY <1>1, <2>3 DEF ReservesAt
  <2>4. QED
    BY <2>1, <2>2, <2>3
<1>5. ASSUME NEW i \in 1..(3 * m + q), NEW k \in 1..q, i = 3 * m + k
      PROVE  i > 3 * m /\ PaysAt(r, f, n, l, i)
  <2>0. q = n - s + 1 /\ PayloadQueue(r, 3 * m, f, l, s, n)
    BY <1>1
  <2>1. CASE k \in 1..(n - s)
    <3>1. s + k - 1 \in s..(n - 1) /\ s + k - 1 \in Nat
      BY <2>1
    <3>2. r[3 * m + k] = Data(Found(l, s + k - 1), Tag(f, s + k - 1)) /\ Has(l, s + k - 1)
      BY <2>0, <2>1, <3>1 DEF PayloadQueue
    <3>3. i > 3 * m
      BY <1>5
    <3>4. QED
      BY <1>5, <3>1, <3>2, <3>3 DEF PaysAt
  <2>2. CASE k = n - s + 1
    <3>1. i = 3 * m + (n - s) + 1 /\ i > 3 * m
      BY <1>5, <2>0, <2>2
    <3>2. r[i] = Size(Found(l, 0), n) /\ Has(l, 0)
      BY <2>0, <3>1 DEF PayloadQueue
    <3>3. QED
      BY <3>1, <3>2 DEF PaysAt
  <2>3. k \in 1..(n - s) \/ k = n - s + 1
    BY <2>0 DEF PayloadQueue
  <2>4. QED
    BY <2>1, <2>2, <2>3
<1>6. \A i \in 1..(3 * m + q), k \in 1..m : i = 2 * m + k => ListsAt(r, f, ps, m, i)
  BY <1>1 DEF ListsAt
<1>7. QED
  BY <1>2, <1>3, <1>4, <1>5, <1>6

-----------------------------------------------------------------------------
(* What the device holds of the file table and the bitmap.                  *)

SavedBits == saved.bitmap = dev_write_bitmap(vol.bitmap)

(* The file of a creation that got no block is the only one whose entry was not *)
(* written.                                                                  *)
SavedTables == \A f \in File : GaveUp(f) \/ saved.table[f] = vol.table[f]

(* A write that notes a file is due for one that got no block. *)
Notes(w) == w.w = "take" /\ ~w.kept
NotesGaveUp == \A i \in DOMAIN todo : Notes(todo[i]) => GaveUp(todo[i].f)

SavedInv == SavedBits /\ SavedTables /\ NotesGaveUp

\* What a write does to an entry of the file table.
LEMMA TableAfter ==
  ASSUME NEW d \in Volume, NEW w \in Writes, NEW e, e = After(d, w), NEW g \in File
  PROVE  /\ w.w \notin {"take", "list", "release"} \/ g # w.f => e.table[g] = d.table[g]
         /\ w.w = "take" /\ g = w.f => e.table[g].lnk = 1
         /\ w.w = "list" => e.table[g].lnk = d.table[g].lnk
<1>1. d.table \in Tables /\ d.table[g] \in [lnk : {0, 1}, clrs : Seq(Cluster)]
  BY DeviceFields DEF Tables
<1>2. CASE w.w = "take"
  <2>1. e.table = [d.table EXCEPT ![w.f] = [lnk |-> 1, clrs |-> <<w.c>>]]
    BY <1>2, KindIs, TakeDoes
  <2>2. QED
    BY <1>1, <1>2, <2>1 DEF Tables
<1>3. CASE w.w = "list"
  <2>0. w \in ListW
    BY <1>3, KindIs
  <2>1. PICK m : e.table = [d.table EXCEPT ![w.f] = [lnk |-> d.table[w.f].lnk, clrs |-> m]]
    <3>1. PICK m : m = IF w.c \in Range(d.table[w.f].clrs) THEN d.table[w.f].clrs
                       ELSE Append(d.table[w.f].clrs, w.c)
      OBVIOUS
    <3>2. e.table = [d.table EXCEPT ![w.f] = [lnk |-> d.table[w.f].lnk, clrs |-> m]]
      BY <2>0, <3>1, ListDoes
    <3>3. QED
      BY <3>2, Zenon
  <2>2. QED
    BY <1>1, <1>3, <2>1 DEF Tables
<1>4. CASE w.w = "release"
  <2>1. e.table = [d.table EXCEPT ![w.f] = [lnk |-> 0, clrs |-> d.table[w.f].clrs]]
    BY <1>4, KindIs, ReleaseDoes
  <2>2. QED
    BY <1>1, <1>4, <2>1 DEF Tables
<1>5. CASE w.w \notin {"take", "list", "release"}
  <2>1. CASE w \in OwnW
    BY <1>5, <2>1, OwnDoes
  <2>2. CASE w \in DropW
    BY <1>5, <2>2, DropDoes
  <2>3. CASE w \in BitW
    BY <1>5, <2>3, BitDoes
  <2>4. CASE w \in DirW
    BY <1>5, <2>4, DirDoes
  <2>5. CASE w \in HeadW \cup DataW \cup SizeW
    BY <1>5, <2>5, DataDoes
  <2>6. CASE w \in WildW
    BY <1>5, <2>6, AfterWild
  <2>7. QED
    BY <1>5, <2>1, <2>2, <2>3, <2>4, <2>5, <2>6, KindIs
<1>6. QED
  BY <1>2, <1>3, <1>4, <1>5

\* Only the write of a bit changes the bitmap.
LEMMA BitsSame ==
  ASSUME NEW d \in Volume, NEW w \in Writes, NEW e, e = After(d, w), w.w # "bit"
  PROVE  e.bitmap = d.bitmap
<1>1. CASE w \in OwnW
  BY <1>1, OwnDoes
<1>2. CASE w \in DropW
  BY <1>2, DropDoes
<1>3. CASE w \in TakeW
  BY <1>3, TakeDoes
<1>4. CASE w \in ListW
  BY <1>4, ListDoes
<1>5. CASE w \in ReleaseW
  BY <1>5, ReleaseDoes
<1>6. CASE w \in DirW
  BY <1>6, DirDoes
<1>7. CASE w \in HeadW \cup DataW \cup SizeW
  BY <1>7, DataDoes
<1>8. CASE w \in WildW
  BY <1>8, AfterWild
<1>9. QED
  BY <1>1, <1>2, <1>3, <1>4, <1>5, <1>6, <1>7, <1>8, KindIs

\* Of the requests only the one that gives up notes a file, its own.
LEMMA RequestsNote ==
  ASSUME TypeOK
  PROVE  /\ \A r, f, c, b : CreateQueue(r, f, c, b) => \A i \in DOMAIN r : ~Notes(r[i])
         /\ \A r, f : UnlinkQueue(r, f) => \A i \in DOMAIN r : ~Notes(r[i])
         /\ \A r, f, l, ps : \A n, m \in Nat : WriteQueue(r, f, n, l, ps, m) => \A i \in DOMAIN r : ~Notes(r[i])
         /\ \A r, f : GiveUpQueue(r, f) => \A i \in DOMAIN r : Notes(r[i]) => r[i].f = f
<1>1. ASSUME NEW r, NEW f, NEW c, NEW b, CreateQueue(r, f, c, b), NEW i \in DOMAIN r PROVE ~Notes(r[i])
  <2>1. r[i] = Take(f, c) \/ r[i].w # "take"
    <3>1. i = 3 \/ r[i].w # "take"
      BY <1>1, CreateKinds
    <3>2. r[3] = Take(f, c)
      BY <1>1 DEF CreateQueue
    <3>3. QED
      BY <3>1, <3>2
  <2>2. Take(f, c).kept
    BY DEF Take
  <2>3. QED
    BY <2>1, <2>2, Zenon DEF Notes
<1>2. ASSUME NEW r, NEW f, UnlinkQueue(r, f), NEW i \in DOMAIN r PROVE ~Notes(r[i])
  <2>1. PICK m \in Nat : \E cl \in [1..m -> Cluster] :
           \A j \in DOMAIN r :
                \/ j \in 1..(2 * m) /\ FreesAt(r, f, m, cl, j)
                \/ j - 2 * m \in 1..BPC /\ DirAt(r, j, j - 2 * m)
                \/ j = 2 * m + BPC + 1 /\ EndsAt(r, f, j)
    BY <1>2, UnlinkPlaces
  <2>2. PICK cl \in [1..m -> Cluster] : FreesAt(r, f, m, cl, i) \/ DirAt(r, i, i - 2 * m) \/ EndsAt(r, f, i)
    BY <1>2, <2>1
  <2>3. r[i].w # "take"
    <3>1. CASE FreesAt(r, f, m, cl, i)
      <4>1. (\E k : r[i] = Drop(cl[k], f)) \/ (\E k : r[i] = Bit(cl[k]))
        BY <3>1 DEF FreesAt
      <4>2. QED
        BY <4>1, FieldsAre
    <3>2. CASE DirAt(r, i, i - 2 * m)
      BY <3>2 DEF DirAt
    <3>3. CASE EndsAt(r, f, i)
      BY <3>3, FieldsAre DEF EndsAt
    <3>4. QED
      BY <2>2, <3>1, <3>2, <3>3
  <2>4. QED
    BY <2>3, Zenon DEF Notes
<1>3. ASSUME NEW r, NEW f, NEW l, NEW ps, NEW n \in Nat, NEW m \in Nat, WriteQueue(r, f, n, l, ps, m), NEW i \in DOMAIN r
      PROVE  ~Notes(r[i])
  <2>1. ReservesAt(r, f, ps, m, i) \/ ListsAt(r, f, ps, m, i) \/ PaysAt(r, f, n, l, i)
    BY <1>3, WritePlaces
  <2>2. r[i].w # "take"
    <3>1. CASE ReservesAt(r, f, ps, m, i)
      <4>1. (\E p, k : r[i] = Own(p, f, k)) \/ (\E k : r[i] = Bit(ps[k][1]))
        BY <3>1 DEF ReservesAt
      <4>2. QED
        BY <4>1, FieldsAre
    <3>2. CASE ListsAt(r, f, ps, m, i)
      BY <3>2, FieldsAre DEF ListsAt
    <3>3. CASE PaysAt(r, f, n, l, i)
      BY <3>3, FieldsAre DEF PaysAt
    <3>4. QED
      BY <2>1, <3>1, <3>2, <3>3
  <2>3. QED
    BY <2>2, Zenon DEF Notes
<1>4. ASSUME NEW r, NEW f, GiveUpQueue(r, f), NEW i \in DOMAIN r, Notes(r[i]) PROVE r[i].f = f
  <2>1. NotedAt(r, f, i) \/ r[i].w = "dir" \/ HeadedAt(r, f, i) \/ r[i].w = "wild"
    BY <1>4, Zenon DEF GiveUpQueue
  <2>2. r[i].w = "take"
    BY <1>4, Zenon DEF Notes
  <2>3. ~HeadedAt(r, f, i)
    <3>1. \A p, x : Header(p, x).w = "head"
      BY DEF Header
    <3>2. QED
      BY <2>2, <3>1 DEF HeadedAt
  <2>4. QED
    BY <2>1, <2>2, <2>3, Zenon DEF NotedAt
<1>5. QED
  BY <1>1, <1>2, <1>3, <1>4, Zenon

\* A performed write leaves the device with what memory has, but for the files
\* whose creation got no block.
LEMMA SavedWrite ==
  ASSUME TypeOK, SavedInv, Write
  PROVE  SavedInv'
<1>1. PICK w \in Writes : w = Head(todo) /\ w = todo[1] /\ 1 \in DOMAIN todo
  <2>1. 1 \in DOMAIN todo
    BY StateTyped DEF Write
  <2>2. QED
    BY <2>1, Due
<1>2. PICK d \in Volume, e \in Volume : d = vol /\ e = vol' /\ e = After(d, w)
  BY <1>1, StateTyped, Due
<1>3. saved' = SavedAfter(w, e) /\ cut' = cut
  BY <1>1, <1>2, Due DEF Write
<1>4. SavedBits'
  <2>1. CASE w.w = "bit"
    <3>1. saved'.bitmap = dev_write_bitmap(e.bitmap)
      BY <1>3, <2>1 DEF SavedAfter
    <3>2. QED
      BY <1>2, <3>1 DEF SavedBits
  <2>2. CASE w.w # "bit"
    <3>1. saved'.bitmap = saved.bitmap
      BY <1>3, <2>2 DEF SavedAfter
    <3>2. e.bitmap = d.bitmap
      BY <1>2, <2>2, BitsSame
    <3>3. saved.bitmap = dev_write_bitmap(d.bitmap)
      BY <1>2 DEF SavedInv, SavedBits
    <3>4. saved'.bitmap = dev_write_bitmap(e.bitmap)
      BY <3>1, <3>2, <3>3
    <3>5. QED
      BY <1>2, <3>4 DEF SavedBits
  <2>3. QED
    BY <2>1, <2>2
<1>5. SavedTables'
  <2>1. ASSUME NEW f \in File, ~GaveUp(f) PROVE saved'.table[f] = e.table[f]
    <3>1. saved.table[f] = d.table[f]
      BY <1>2, <2>1 DEF SavedInv, SavedTables
    <3>2. CASE w.w \in {"list", "release"} \/ (w.w = "take" /\ w.kept)
      BY <1>3, <3>2 DEF SavedAfter
    <3>3. CASE ~(w.w \in {"list", "release"} \/ (w.w = "take" /\ w.kept))
      <4>1. saved'.table = saved.table
        BY <1>3, <3>3 DEF SavedAfter
      <4>2. w.w \notin {"take", "list", "release"} \/ Notes(w)
        BY <3>3, Zenon DEF Notes
      <4>3. ASSUME Notes(w) PROVE f # w.f
        <5>1. GaveUp(w.f)
          BY <1>1, <4>3 DEF SavedInv, NotesGaveUp
        <5>2. QED
          BY <2>1, <5>1
      <4>4. w.w \notin {"take", "list", "release"} \/ f # w.f
        BY <4>2, <4>3
      <4>5. e.table[f] = d.table[f]
        BY <1>2, <4>4, TableAfter
      <4>6. QED
        BY <3>1, <4>1, <4>5
    <3>4. QED
      BY <3>2, <3>3
  <2>2. \A f : GaveUp(f)' <=> GaveUp(f)
    BY <1>3 DEF GaveUp
  <2>3. QED
    BY <1>2, <2>1, <2>2 DEF SavedTables
<1>6. NotesGaveUp'
  <2>1. ASSUME NEW i \in DOMAIN todo', Notes(todo'[i]) PROVE <<"gaveup", todo'[i].f>> \in cut'
    <3>1. i + 1 \in DOMAIN todo /\ todo'[i] = todo[i + 1]
      BY <2>1, Due
    <3>2. GaveUp(todo[i + 1].f)
      BY <2>1, <3>1 DEF SavedInv, NotesGaveUp
    <3>3. QED
      BY <1>3, <3>1, <3>2 DEF GaveUp
  <2>2. QED
    BY <2>1, Zenon DEF NotesGaveUp, Notes, GaveUp
<1>7. QED
  BY <1>4, <1>5, <1>6 DEF SavedInv

\* When nothing is done to volume and device, it is about the writes due.
LEMMA SavedStarts ==
  ASSUME SavedInv, vol' = vol, saved' = saved, cut \subseteq cut',
         \A i \in DOMAIN todo' : Notes(todo'[i]) => <<"gaveup", todo'[i].f>> \in cut'
  PROVE  SavedInv'
<1>1. SavedBits'
  BY DEF SavedInv, SavedBits
<1>2. SavedTables'
  BY DEF SavedInv, SavedTables, GaveUp
<1>3. NotesGaveUp'
  BY DEF NotesGaveUp, Notes, GaveUp
<1>4. QED
  BY <1>1, <1>2, <1>3 DEF SavedInv

\* A mount reads what is saved.
LEMMA SavedMounts ==
  ASSUME TypeOK, SavedInv, vol' = OnDevice, saved' = saved, cut \subseteq cut', todo' = <<>>
  PROVE  SavedInv'
<1>1. OnDevice.table = saved.table /\ OnDevice.bitmap = saved.bitmap
  BY MountIs
<1>2. SavedBits'
  <2>1. saved.bitmap = dev_write_bitmap(vol.bitmap)
    BY DEF SavedInv, SavedBits
  <2>2. dev_write_bitmap(saved.bitmap) = dev_write_bitmap(vol.bitmap)
    <3>1. \A c \in Cluster : saved.bitmap[c] = IF c \in Kept THEN vol.bitmap[c] ELSE 0
      BY <2>1 DEF dev_write_bitmap
    <3>2. \A c \in Cluster : (IF c \in Kept THEN saved.bitmap[c] ELSE 0) = (IF c \in Kept THEN vol.bitmap[c] ELSE 0)
      BY <3>1
    <3>3. QED
      BY <3>2 DEF dev_write_bitmap
  <2>3. QED
    BY <1>1, <2>1, <2>2 DEF SavedBits
<1>3. SavedTables'
  BY <1>1 DEF SavedTables
<1>4. NotesGaveUp'
  BY DEF NotesGaveUp
<1>5. QED
  BY <1>2, <1>3, <1>4 DEF SavedInv

\* Each step keeps it.
LEMMA SavedStep ==
  ASSUME TypeOK, SavedInv, [Next]_vars
  PROVE  SavedInv'
<1>1. CASE Loses
  <2>1. vol' = vol /\ saved' = saved /\ todo' = todo /\ cut' = cut
    BY <1>1 DEF Loses, Rest
  <2>2. QED
    BY <2>1, SavedStarts DEF SavedInv, NotesGaveUp, GaveUp
<1>2. ASSUME NEW f, NEW c, NEW b, Creates(f, c, b) PROVE SavedInv'
  <2>1. vol' = vol /\ saved' = saved /\ cut \subseteq cut' /\ CreateQueue(todo', f, c, b)
    BY <1>2 DEF Creates
  <2>2. \A i \in DOMAIN todo' : ~Notes(todo'[i])
    BY <2>1, RequestsNote
  <2>3. QED
    BY <2>1, <2>2, SavedStarts
<1>3. ASSUME NEW f, GivesUp(f) PROVE SavedInv'
  <2>1. vol' = vol /\ saved' = saved /\ cut \subseteq cut' /\ GiveUpQueue(todo', f) /\ <<"gaveup", f>> \in cut'
    BY <1>3 DEF GivesUp
  <2>2. \A i \in DOMAIN todo' : Notes(todo'[i]) => todo'[i].f = f
    BY <2>1, RequestsNote
  <2>3. QED
    BY <2>1, <2>2, SavedStarts
<1>4. ASSUME NEW f, Gets(f) PROVE SavedInv'
  <2>1. vol' = vol /\ saved' = saved /\ todo' = todo /\ cut' = cut
    BY <1>4 DEF Gets
  <2>2. QED
    BY <2>1, SavedStarts DEF SavedInv, NotesGaveUp, GaveUp
<1>5. ASSUME NEW f, NEW n, NEW m, Extends(f, n, m) PROVE SavedInv'
  <2>1. /\ vol' = vol /\ saved' = saved /\ cut \subseteq cut' /\ n \in Nat /\ m \in Nat
        /\ WriteQueue(todo', f, n, NewList(f, n), NewOnes(f, n), m)
    BY <1>5 DEF Extends
  <2>2. \A i \in DOMAIN todo' : ~Notes(todo'[i])
    BY <2>1, RequestsNote
  <2>3. QED
    BY <2>1, <2>2, SavedStarts
<1>6. ASSUME NEW f, Unlinks(f) PROVE SavedInv'
  <2>1. vol' = vol /\ saved' = saved /\ cut' = cut /\ UnlinkQueue(todo', f)
    BY <1>6 DEF Unlinks
  <2>2. \A i \in DOMAIN todo' : ~Notes(todo'[i])
    BY <2>1, RequestsNote
  <2>3. QED
    BY <2>1, <2>2, SavedStarts
<1>7. CASE Crash \/ Remount
  <2>1. vol' = OnDevice /\ saved' = saved /\ cut \subseteq cut' /\ todo' = <<>>
    BY <1>7 DEF Crash, Remount, Mounted
  <2>2. QED
    BY <2>1, SavedMounts
<1>8. CASE UNCHANGED vars
  BY <1>8 DEF vars, SavedInv, SavedBits, SavedTables, NotesGaveUp, GaveUp
<1>9. QED
  BY <1>1, <1>2, <1>3, <1>4, <1>5, <1>6, <1>7, <1>8, SavedWrite, StepIs

\* The formatted volume is saved as it is.
LEMMA SavedInit ==
  ASSUME Init
  PROVE  SavedInv
<1>1. vol = Formatted /\ saved.table = vol.table /\ saved.bitmap = vol.bitmap /\ todo = <<>>
  BY DEF Init
<1>2. Formatted.bitmap = [c \in Cluster |-> 0]
  BY DEF Formatted
<1>3. dev_write_bitmap([c \in Cluster |-> 0]) = [c \in Cluster |-> 0]
  BY DEF dev_write_bitmap
<1>4. QED
  BY <1>1, <1>2, <1>3 DEF SavedInv, SavedBits, SavedTables, NotesGaveUp

-----------------------------------------------------------------------------
(* The bits that are wrong.                                                 *)

(* The cluster whose table an own or a drop writes. *)
TableOf(w) == IF w.w = "own" THEN w.p[1] ELSE w.c

(* Behind each write of a cluster table there is the one of its bit. *)
Paired(r) ==
  \A i \in DOMAIN r : r[i].w \in {"own", "drop"} => i + 1 \in DOMAIN r /\ r[i + 1] = Bit(TableOf(r[i]))

(* The clusters whose bit is wrong, and the one whose bit is written next. *)
WrongBits == {c \in Kept : vol.bitmap[c] = 1 <=> HasFree(vol.ctab, c)}
NextBit   == {c \in Cluster : todo # <<>> /\ todo[1] = Bit(c)}

BitsInv == Paired(todo) /\ Cardinality(WrongBits \ NextBit) <= crashes

\* The three requests write table and bit in this order.
LEMMA RequestsPaired ==
  ASSUME TypeOK
  PROVE  /\ \A r, f, c, b : CreateQueue(r, f, c, b) => Paired(r)
         /\ \A r, f : UnlinkQueue(r, f) => Paired(r)
         /\ \A r, f : GiveUpQueue(r, f) => Paired(r)
         /\ \A r, f, l, ps : \A n, m \in Nat : WriteQueue(r, f, n, l, ps, m) => Paired(r)
<1>1. ASSUME NEW r, NEW f, NEW c, NEW b, CreateQueue(r, f, c, b) PROVE Paired(r)
  <2>1. ASSUME NEW i \in DOMAIN r, r[i].w \in {"own", "drop"}
        PROVE  i + 1 \in DOMAIN r /\ r[i + 1] = Bit(TableOf(r[i]))
    <3>1. i = 1 /\ r[1] = Own(<<c, b>>, f, 0)
      BY <1>1, <2>1, CreatePlaces, FieldsAre
    <3>2. r[2] = Bit(c) /\ DOMAIN r = 1..(BPC + 4) /\ 2 \in 1..(BPC + 4)
      BY <1>1, CreatePlaces, Sizes DEF CreateQueue
    <3>3. TableOf(r[1]) = c
      BY <3>1, FieldsAre DEF TableOf
    <3>4. QED
      BY <3>1, <3>2, <3>3
  <2>2. QED
    BY <2>1 DEF Paired
<1>2. ASSUME NEW r, NEW f, UnlinkQueue(r, f) PROVE Paired(r)
  <2>1. PICK m \in Nat : \E cl \in [1..m -> Cluster] :
           \A i \in DOMAIN r :
                \/ i \in 1..(2 * m) /\ FreesAt(r, f, m, cl, i)
                \/ i - 2 * m \in 1..BPC /\ DirAt(r, i, i - 2 * m)
                \/ i = 2 * m + BPC + 1 /\ EndsAt(r, f, i)
    BY <1>2, UnlinkPlaces
  <2>2. PICK cl \in [1..m -> Cluster] :
           \A i \in DOMAIN r : FreesAt(r, f, m, cl, i) \/ DirAt(r, i, i - 2 * m) \/ EndsAt(r, f, i)
    BY <2>1
  <2>3. ASSUME NEW i \in DOMAIN r, r[i].w \in {"own", "drop"}
        PROVE  i + 1 \in DOMAIN r /\ r[i + 1] = Bit(TableOf(r[i]))
    <3>1. ~DirAt(r, i, i - 2 * m) /\ ~EndsAt(r, f, i)
      BY <2>3, FieldsAre DEF DirAt, EndsAt
    <3>2. FreesAt(r, f, m, cl, i)
      BY <2>2, <3>1
    <3>3. PICK k \in 1..m : r[i] = Drop(cl[k], f) /\ i + 1 \in DOMAIN r /\ r[i + 1] = Bit(cl[k])
      <4>1. ~ \E k \in 1..m : i = 2 * k /\ r[i] = Bit(cl[k])
        BY <2>3, FieldsAre
      <4>2. QED
        BY <3>2, <4>1, Zenon DEF FreesAt
    <3>4. TableOf(r[i]) = cl[k]
      BY <3>3, FieldsAre DEF TableOf
    <3>5. QED
      BY <3>3, <3>4
  <2>4. QED
    BY <2>3 DEF Paired
<1>3. ASSUME NEW r, NEW f, NEW l, NEW ps, NEW n \in Nat, NEW m \in Nat, WriteQueue(r, f, n, l, ps, m) PROVE Paired(r)
  <2>1. ASSUME NEW i \in DOMAIN r, r[i].w \in {"own", "drop"}
        PROVE  i + 1 \in DOMAIN r /\ r[i + 1] = Bit(TableOf(r[i]))
    <3>1. ~ListsAt(r, f, ps, m, i) /\ ~PaysAt(r, f, n, l, i)
      <4>1. r[i].w # "list" /\ r[i].w # "data" /\ r[i].w # "size"
        BY <2>1
      <4>2. \A g, c : List(g, c).w = "list"
        BY DEF List
      <4>3. \A p, x : Data(p, x).w = "data" /\ Size(p, x).w = "size"
        BY DEF Data, Size
      <4>4. ~ListsAt(r, f, ps, m, i)
        BY <4>1, <4>2, Zenon DEF ListsAt
      <4>5. ~PaysAt(r, f, n, l, i)
        BY <4>1, <4>3, Zenon DEF PaysAt
      <4>6. QED
        BY <4>4, <4>5
    <3>2. ReservesAt(r, f, ps, m, i)
      BY <1>3, <3>1, WritePlaces
    <3>3. PICK k \in 1..m : /\ r[i] = Own(ps[k], f, Len(seqs[f]) + k - 1)
                            /\ i + 1 \in DOMAIN r /\ r[i + 1] = Bit(ps[k][1])
      <4>1. ~ \E k \in 1..m : i = 2 * k /\ r[i] = Bit(ps[k][1])
        BY <2>1, FieldsAre
      <4>2. QED
        BY <3>2, <4>1, Zenon DEF ReservesAt
    <3>4. TableOf(r[i]) = ps[k][1]
      BY <3>3, FieldsAre DEF TableOf
    <3>5. QED
      BY <3>3, <3>4
  <2>2. QED
    BY <2>1 DEF Paired
<1>4. ASSUME NEW r, NEW f, GiveUpQueue(r, f) PROVE Paired(r)
  <2>1. ASSUME NEW i \in DOMAIN r PROVE r[i].w \notin {"own", "drop"}
    <3>1. NotedAt(r, f, i) \/ r[i].w = "dir" \/ HeadedAt(r, f, i) \/ r[i].w = "wild"
      BY <1>4, Zenon DEF GiveUpQueue
    <3>2. CASE NotedAt(r, f, i)
      BY <3>2 DEF NotedAt
    <3>3. CASE HeadedAt(r, f, i)
      <4>1. \A p, x : Header(p, x).w = "head"
        BY DEF Header
      <4>2. QED
        BY <3>3, <4>1 DEF HeadedAt
    <3>4. QED
      BY <3>1, <3>2, <3>3
  <2>2. QED
    BY <2>1 DEF Paired
<1>5. QED
  BY <1>1, <1>2, <1>3, <1>4

\* What a write does to the bits: the table of one cluster, or its bit, is
\* written.
LEMMA BitsAfter ==
  ASSUME NEW d \in Volume, NEW w \in Writes, NEW c \in Cluster
  PROVE  LET e == After(d, w)
         IN /\ w.w \notin {"own", "drop"} \/ c # TableOf(w) => HasFree(e.ctab, c) = HasFree(d.ctab, c)
            /\ w.w # "bit" => e.bitmap = d.bitmap
            /\ w.w = "bit" => e.ctab = d.ctab /\ e.bitmap[c] = IF c = w.c THEN IF HasFree(d.ctab, c) THEN 0 ELSE 1
                                                               ELSE d.bitmap[c]
<1>1. PICK e : e = After(d, w)
  OBVIOUS
<1>2. d.ctab \in Ctabs /\ \A b \in Slot : <<c, b>> \in Block
  BY DeviceFields DEF Ctabs, Block
<1>3. CASE w.w = "own"
  <2>1. w \in OwnW
    BY <1>3, KindIs
  <2>2. e.ctab = [d.ctab EXCEPT ![w.p] = [fid |-> w.f, num |-> w.i]] /\ e.bitmap = d.bitmap
    BY <1>1, <2>1, OwnDoes
  <2>3. ASSUME c # w.p[1] PROVE \A b \in Slot : e.ctab[<<c, b>>] = d.ctab[<<c, b>>]
    <3>1. \A b \in Slot : <<c, b>> # w.p
      BY <2>3
    <3>2. QED
      BY <1>2, <2>2, <3>1 DEF Ctabs
  <2>4. QED
    BY <1>1, <1>3, <2>2, <2>3 DEF TableOf, HasFree
<1>4. CASE w.w = "drop"
  <2>1. w \in DropW
    BY <1>4, KindIs
  <2>2. e.bitmap = d.bitmap
        /\ e.ctab = [p \in Block |-> IF p[1] = w.c /\ d.ctab[p].fid = w.f THEN FreeEntry ELSE d.ctab[p]]
    BY <1>1, <2>1, DropDoes
  <2>3. ASSUME c # w.c PROVE \A b \in Slot : e.ctab[<<c, b>>] = d.ctab[<<c, b>>]
    BY <1>2, <2>2, <2>3
  <2>4. QED
    BY <1>1, <1>4, <2>2, <2>3 DEF TableOf, HasFree
<1>5. CASE w.w = "bit"
  <2>1. w \in BitW
    BY <1>5, KindIs
  <2>2. e.ctab = d.ctab /\ e.bitmap = dev_upd_bitmap(d.bitmap, d.ctab, {w.c})
    BY <1>1, <2>1, BitDoes
  <2>3. e.bitmap[c] = IF c = w.c THEN IF HasFree(d.ctab, c) THEN 0 ELSE 1 ELSE d.bitmap[c]
    BY <2>2 DEF dev_upd_bitmap
  <2>4. QED
    BY <1>1, <1>5, <2>2, <2>3
<1>6. CASE w.w \notin {"own", "drop", "bit"}
  <2>1. e.ctab = d.ctab /\ e.bitmap = d.bitmap
    <3>1. CASE w \in TakeW
      BY <1>1, <3>1, TakeDoes
    <3>2. CASE w \in ListW
      BY <1>1, <3>2, ListDoes
    <3>3. CASE w \in ReleaseW
      BY <1>1, <3>3, ReleaseDoes
    <3>4. CASE w \in DirW
      BY <1>1, <3>4, DirDoes
    <3>5. CASE w \in HeadW \cup DataW \cup SizeW
      BY <1>1, <3>5, DataDoes
    <3>6. CASE w \in WildW
      BY <1>1, <3>6, AfterWild
    <3>7. QED
      BY <1>6, <3>1, <3>2, <3>3, <3>4, <3>5, <3>6, KindIs
  <2>2. QED
    BY <1>1, <1>6, <2>1
<1>7. QED
  BY <1>3, <1>4, <1>5, <1>6

\* Sets of clusters are finite; one cluster more or less.
LEMMA FewClusters ==
  ASSUME NEW A \in SUBSET Cluster, NEW B \in SUBSET Cluster
  PROVE  /\ Cardinality(A) \in Nat /\ (A \subseteq B => Cardinality(A) <= Cardinality(B))
         /\ \A c : A \subseteq B \cup {c} => Cardinality(A) <= Cardinality(B) + 1
<1>1. IsFiniteSet(A) /\ IsFiniteSet(B)
  BY FiniteVolume, FS_Subset
<1>2. Cardinality(A) \in Nat /\ Cardinality(B) \in Nat
  BY <1>1, FS_CardinalityType
<1>3. A \subseteq B => Cardinality(A) <= Cardinality(B)
  BY <1>1, FS_Subset
<1>4. ASSUME NEW c, A \subseteq B \cup {c} PROVE Cardinality(A) <= Cardinality(B) + 1
  <2>1. IsFiniteSet(B \cup {c})
    BY <1>1, FS_AddElement
  <2>2. Cardinality(B \cup {c}) = (IF c \in B THEN Cardinality(B) ELSE Cardinality(B) + 1)
    BY <1>1, FS_AddElement
  <2>3. Cardinality(A) <= Cardinality(B \cup {c})
    BY <1>4, <2>1, FS_Subset
  <2>4. QED
    BY <1>2, <2>2, <2>3
<1>5. QED
  BY <1>2, <1>3, <1>4

\* A write leaves no cluster wrong that was not, but for the one whose bit is
\* next.
LEMMA WrongAfter ==
  ASSUME TypeOK, Paired(todo), Write
  PROVE  (WrongBits \ NextBit)' \subseteq WrongBits \ NextBit /\ Paired(todo)'
<1>1. PICK w \in Writes : w = Head(todo) /\ w = todo[1]
  BY Due
<1>2. Paired(todo)'
  <2>1. ASSUME NEW i \in DOMAIN todo', todo'[i].w \in {"own", "drop"}
        PROVE  i + 1 \in DOMAIN todo' /\ todo'[i + 1] = Bit(TableOf(todo'[i]))
    <3>1. i + 1 \in DOMAIN todo /\ todo'[i] = todo[i + 1] /\ i \in Nat
      BY Due
    <3>2. i + 1 + 1 \in DOMAIN todo /\ todo[i + 1 + 1] = Bit(TableOf(todo[i + 1]))
      BY <2>1, <3>1 DEF Paired
    <3>3. i + 1 + 1 # 1 /\ i + 1 + 1 - 1 = i + 1
      BY <3>1
    <3>4. i + 1 \in DOMAIN todo'
      BY <3>2, <3>3, Due
    <3>5. todo'[i + 1] = todo[i + 1 + 1]
      BY <3>4, Due
    <3>6. QED
      BY <3>1, <3>2, <3>4, <3>5
  <2>2. QED
    BY <2>1 DEF Paired
<1>3. ASSUME NEW c \in Kept, c \in WrongBits', c \notin NextBit' PROVE c \in WrongBits /\ c \notin NextBit
  <2>0. c \in Cluster
    BY DEF Kept
  <2>1. PICK e \in Volume : e = vol' /\ e = After(vol, w)
    BY <1>1, Due
  <2>2. PICK d \in Volume : d = vol
    BY StateTyped
  <2>3. e.bitmap[c] = 1 <=> HasFree(e.ctab, c)
    BY <1>3, <2>1 DEF WrongBits
  <2>4. /\ w.w \notin {"own", "drop"} \/ c # TableOf(w) => HasFree(e.ctab, c) = HasFree(d.ctab, c)
        /\ w.w # "bit" => e.bitmap = d.bitmap
        /\ w.w = "bit" => e.ctab = d.ctab /\ e.bitmap[c] = IF c = w.c THEN IF HasFree(d.ctab, c) THEN 0 ELSE 1
                                                               ELSE d.bitmap[c]
    BY <2>0, <2>1, <2>2, BitsAfter
  <2>5. CASE w.w \in {"own", "drop"}
    <3>1. 1 \in DOMAIN todo
      BY StateTyped DEF Write
    <3>2. 1 + 1 \in DOMAIN todo /\ todo[1 + 1] = Bit(TableOf(w))
      BY <1>1, <2>5, <3>1 DEF Paired
    <3>3. 1 \in DOMAIN todo' /\ todo'[1] = Bit(TableOf(w)) /\ todo' # <<>>
      <4>1. 1 + 1 # 1 /\ 1 + 1 - 1 = 1
        OBVIOUS
      <4>2. 1 \in DOMAIN todo'
        BY <3>2, <4>1, Due
      <4>3. todo'[1] = todo[1 + 1] /\ todo' # <<>>
        BY <4>2, Due
      <4>4. QED
        BY <3>2, <4>2, <4>3
    <3>4. c # TableOf(w)
      BY <1>3, <2>0, <3>3 DEF NextBit
    <3>5. w.w # "bit" /\ \A x : Bit(x) # w
      BY <2>5, FieldsAre
    <3>6. d.bitmap[c] = 1 <=> HasFree(d.ctab, c)
      BY <2>3, <2>4, <3>4, <3>5
    <3>7. QED
      BY <1>1, <2>2, <3>5, <3>6 DEF WrongBits, NextBit
  <2>6. CASE w.w = "bit"
    <3>1. c # w.c
      BY <2>3, <2>4, <2>6
    <3>2. d.bitmap[c] = 1 <=> HasFree(d.ctab, c)
      BY <2>3, <2>4, <2>6, <3>1
    <3>3. Bit(c) # w
      BY <3>1, FieldsAre
    <3>4. QED
      BY <1>1, <2>2, <3>2, <3>3 DEF WrongBits, NextBit
  <2>7. CASE w.w \notin {"own", "drop", "bit"}
    <3>1. \A x : Bit(x) # w
      BY <2>7, FieldsAre
    <3>2. d.bitmap[c] = 1 <=> HasFree(d.ctab, c)
      BY <2>3, <2>4, <2>7
    <3>3. QED
      BY <1>1, <2>2, <3>1, <3>2 DEF WrongBits, NextBit
  <2>8. QED
    BY <2>5, <2>6, <2>7
<1>4. (WrongBits \ NextBit)' \subseteq WrongBits \ NextBit
  <2>1. WrongBits' \subseteq Kept
    BY DEF WrongBits
  <2>2. QED
    BY <1>3, <2>1
<1>5. QED
  BY <1>2, <1>4

\* The bits of the whole bytes are on the device as they are in memory.
LEMMA KeptBits ==
  ASSUME TypeOK, SavedInv
  PROVE  /\ \A c \in Kept : saved.bitmap[c] = vol.bitmap[c]
         /\ {c \in Kept : OnDevice.bitmap[c] = 1 <=> HasFree(OnDevice.ctab, c)}
              = {c \in Kept : vol.bitmap[c] = 1 <=> HasFree(vol.ctab, c)}
<1>1. \A c \in Kept : saved.bitmap[c] = vol.bitmap[c]
  <2>1. Kept \subseteq Cluster
    BY DEF Kept
  <2>2. QED
    BY <2>1 DEF SavedInv, SavedBits, dev_write_bitmap
<1>2. OnDevice.bitmap = saved.bitmap /\ OnDevice.ctab = vol.ctab
  BY MountIs
<1>3. QED
  BY <1>1, <1>2

\* Each step keeps the count of wrong bits below that of the kills.
LEMMA BitsStep ==
  ASSUME TypeOK, TypeOK', SavedInv, BitsInv, [Next]_vars
  PROVE  BitsInv'
<1> DEFINE A == WrongBits \ NextBit
<1>1. A \in SUBSET Cluster /\ A' \in SUBSET Cluster /\ Cardinality(A) <= crashes /\ Paired(todo)
  BY DEF BitsInv, WrongBits, Kept
<1>2. crashes \in Nat
  BY CrashAssumption DEF TypeOK
<1>3. SUFFICES /\ Paired(todo')
               /\ \/ A' \subseteq A /\ crashes' = crashes
                  \/ \E c : A' \subseteq A \cup {c} /\ crashes' = crashes + 1
  <2>1. CASE A' \subseteq A /\ crashes' = crashes
    <3>1. Cardinality(A') <= Cardinality(A) /\ Cardinality(A) \in Nat /\ Cardinality(A') \in Nat
      BY <1>1, <2>1, FewClusters
    <3>2. Cardinality(A') <= crashes'
      BY <1>1, <1>2, <2>1, <3>1
    <3>3. QED
      BY <1>3, <3>2 DEF BitsInv
  <2>2. ASSUME NEW c, A' \subseteq A \cup {c}, crashes' = crashes + 1 PROVE BitsInv'
    <3>1. Cardinality(A') <= Cardinality(A) + 1 /\ Cardinality(A) \in Nat /\ Cardinality(A') \in Nat
      BY <1>1, <2>2, FewClusters
    <3>2. Cardinality(A') <= crashes'
      BY <1>1, <1>2, <2>2, <3>1
    <3>3. QED
      BY <1>3, <3>2 DEF BitsInv
  <2>3. QED
    BY <1>3, <2>1, <2>2
<1>4. todo = <<>> => NextBit = {}
  BY DEF NextBit
<1>5. vol' = vol \/ vol' = OnDevice => WrongBits' = WrongBits
  BY KeptBits DEF WrongBits
<1>6. CASE todo = <<>> /\ vol' = vol /\ crashes' = crashes /\ Paired(todo')
  <2>1. A' \subseteq A
    BY <1>4, <1>5, <1>6
  <2>2. QED
    BY <1>6, <2>1
<1>7. CASE Loses
  BY <1>1, <1>6, <1>7 DEF Loses, Rest
<1>8. ASSUME NEW f, NEW c, NEW b, Creates(f, c, b) PROVE Paired(todo') /\ A' \subseteq A /\ crashes' = crashes
  <2>1. Paired(todo')
    BY <1>8, RequestsPaired DEF Creates
  <2>2. todo = <<>> /\ vol' = vol /\ crashes' = crashes
    BY <1>8 DEF Creates
  <2>3. QED
    BY <1>4, <1>5, <2>1, <2>2
<1>9. ASSUME NEW f, Gets(f) PROVE Paired(todo') /\ A' \subseteq A /\ crashes' = crashes
  BY <1>1, <1>4, <1>5, <1>9 DEF Gets
<1>10. ASSUME NEW f, NEW n, NEW m, Extends(f, n, m) PROVE Paired(todo') /\ A' \subseteq A /\ crashes' = crashes
  <2>1. Paired(todo')
    BY <1>10, RequestsPaired DEF Extends
  <2>2. todo = <<>> /\ vol' = vol /\ crashes' = crashes
    BY <1>10 DEF Extends
  <2>3. QED
    BY <1>4, <1>5, <2>1, <2>2
<1>11. ASSUME NEW f, Unlinks(f) PROVE Paired(todo') /\ A' \subseteq A /\ crashes' = crashes
  <2>1. Paired(todo')
    BY <1>11, RequestsPaired DEF Unlinks
  <2>2. todo = <<>> /\ vol' = vol /\ crashes' = crashes
    BY <1>11 DEF Unlinks
  <2>3. QED
    BY <1>4, <1>5, <2>1, <2>2
<1>25. ASSUME NEW f, GivesUp(f) PROVE Paired(todo') /\ A' \subseteq A /\ crashes' = crashes
  <2>1. Paired(todo')
    BY <1>25, RequestsPaired DEF GivesUp
  <2>2. todo = <<>> /\ vol' = vol /\ crashes' = crashes
    BY <1>25 DEF GivesUp
  <2>3. QED
    BY <1>4, <1>5, <2>1, <2>2
<1>12. CASE Write
  <2>1. A' \subseteq A /\ Paired(todo')
    BY <1>1, <1>12, WrongAfter
  <2>2. crashes' = crashes
    BY <1>12 DEF Write
  <2>3. QED
    BY <2>1, <2>2
<1>13. CASE Crash
  <2>1. vol' = OnDevice /\ todo' = <<>> /\ crashes' = crashes + 1
    BY <1>13 DEF Crash, Mounted
  <2>2. Paired(todo') /\ NextBit' = {}
    BY <2>1 DEF Paired, NextBit
  <2>3. \E c : NextBit \subseteq {c}
    <3>1. \A c, d : Bit(c) = Bit(d) => c = d
      BY DEF Bit
    <3>2. QED
      BY <3>1 DEF NextBit
  <2>4. \E c : A' \subseteq A \cup {c}
    BY <1>5, <2>1, <2>2, <2>3
  <2>5. QED
    BY <2>1, <2>2, <2>4
<1>14. CASE Remount
  <2>1. vol' = OnDevice /\ todo' = <<>> /\ crashes' = crashes /\ todo = <<>>
    BY <1>14, ReadyRests DEF Remount, Mounted
  <2>2. Paired(todo')
    BY <2>1 DEF Paired
  <2>3. A' \subseteq A
    BY <1>4, <1>5, <2>1
  <2>4. QED
    BY <2>1, <2>2, <2>3
<1>15. CASE UNCHANGED vars
  <2>1. vol' = vol /\ todo' = todo /\ crashes' = crashes
    BY <1>15 DEF vars
  <2>2. A' \subseteq A
    BY <2>1 DEF WrongBits, NextBit
  <2>3. QED
    BY <1>1, <2>1, <2>2
<1>16. QED
  BY <1>7, <1>8, <1>25, <1>9, <1>10, <1>11, <1>12, <1>13, <1>14, <1>15, StepIs

\* On the formatted volume all bits are right.
LEMMA BitsInit ==
  ASSUME Init
  PROVE  BitsInv
<1>1. todo = <<>> /\ crashes = 0 /\ vol = Formatted
  BY DEF Init
<1>2. Paired(todo)
  BY <1>1 DEF Paired
<1>3. ASSUME NEW c \in Cluster PROVE vol.bitmap[c] = 0 /\ HasFree(vol.ctab, c)
  <2>1. 1 \in Slot
    BY SizeAssumption DEF Slot
  <2>2. PICK p \in Block : p = <<c, 1>>
    BY <2>1 DEF Block
  <2>3. Formatted.ctab[p].fid = 0
    BY <2>2 DEF Formatted, FreeEntry
  <2>4. Formatted.bitmap[c] = 0
    BY DEF Formatted
  <2>5. QED
    BY <1>1, <2>1, <2>2, <2>3, <2>4 DEF HasFree
<1>4. WrongBits = {}
  BY <1>3 DEF WrongBits, Kept
<1>5. Cardinality(WrongBits \ NextBit) = 0
  BY <1>4, FS_EmptySet
<1>6. QED
  BY <1>1, <1>2, <1>5 DEF BitsInv

\* Bits are wrong for as many clusters as there were kills, and one more while a
\* request is under way: dev_write_ctable and dev_write_bitmap come in pairs.
THEOREM CrashBits == Spec => []BitsPerCrash
<1>1. Init => TypeOK /\ SavedInv /\ BitsInv
  BY TypeInit, SavedInit, BitsInit
<1>2. TypeOK /\ SavedInv /\ BitsInv /\ [Next]_vars => (TypeOK /\ SavedInv /\ BitsInv)'
  BY TypeStep, SavedStep, BitsStep
<1>3. ASSUME TypeOK, SavedInv, BitsInv PROVE BitsPerCrash
  <2>0. WrongBits = {c \in Kept : saved.bitmap[c] = 1 <=> HasFree(vol.ctab, c)}
    BY <1>3, KeptBits DEF WrongBits
  <2> DEFINE A == WrongBits \ NextBit
  <2>1. A \in SUBSET Cluster /\ WrongBits \in SUBSET Cluster /\ Cardinality(A) <= crashes
    BY <1>3 DEF BitsInv, WrongBits, Kept
  <2>2. crashes \in Nat
    BY <1>3, CrashAssumption DEF TypeOK
  <2>3. CASE todo = <<>>
    <3>1. WrongBits \subseteq A
      BY <2>3 DEF NextBit
    <3>2. Cardinality(WrongBits) <= Cardinality(A) /\ Cardinality(A) \in Nat /\ Cardinality(WrongBits) \in Nat
      BY <2>1, <3>1, FewClusters
    <3>3. QED
      BY <2>0, <2>1, <2>2, <2>3, <3>2 DEF BitsPerCrash
  <2>4. CASE todo # <<>>
    <3>1. PICK c : NextBit \subseteq {c}
      <4>1. \A c, d : Bit(c) = Bit(d) => c = d
        BY DEF Bit
      <4>2. QED
        BY <4>1 DEF NextBit
    <3>2. WrongBits \subseteq A \cup {c}
      BY <3>1
    <3>3. Cardinality(WrongBits) <= Cardinality(A) + 1 /\ Cardinality(A) \in Nat /\ Cardinality(WrongBits) \in Nat
      BY <2>1, <3>2, FewClusters
    <3>4. QED
      BY <2>0, <2>1, <2>2, <2>4, <3>3 DEF BitsPerCrash
  <2>5. QED
    BY <2>3, <2>4
<1>4. QED
  BY <1>1, <1>2, <1>3, PTL DEF Spec

-----------------------------------------------------------------------------
(* The root directory, as long as its entries lie in its first block.       *)

FirstBlockOnly == vol.root.len <= PerBlock

(* The entries are all of files, none twice but those C says.                *)
Sound(len, slot, C) ==
  /\ \A s \in 1..len : slot[s] \in File
  /\ \A s, t \in 1..len : slot[s] = slot[t] => s = t \/ <<"twice", slot[s]>> \in C

(* An entry names an identifier that is taken, unless its creation got no block; *)
(* such are the ones named twice.                                             *)
EntriesTaken == \A f \in Entries(vol) : GaveUp(f) \/ vol.table[f].lnk # 0
TwiceGave    == \A f \in File : NamedTwice(f) => GaveUp(f)

NamesOf(w) == {w.slot[s] : s \in 1..w.len}

Target == busy[2]

(* The writes of cluster tables and of the file table are about the file of  *)
(* the request, and take blocks that are free or its own.                    *)
ForTarget ==
  \A i \in DOMAIN todo :
    /\ todo[i].w \in {"own", "drop", "take", "list", "release"} => todo[i].f = Target
    /\ todo[i].w = "own" => vol.ctab[todo[i].p].fid \in {0, Target}
    /\ todo[i].w \in {"drop", "release"} => busy[1] = "unlink"
    /\ todo[i].w = "take" => busy[1] = "create"
    /\ todo[i].w \in {"own", "list", "head", "data", "size"} => busy[1] # "unlink"

(* A block of the file is written when it is the file's, if the file has one *)
(* name.                                                                     *)
ToOwned ==
  \A i \in DOMAIN todo : todo[i].w \in {"head", "data", "size"} =>
    \/ NamedTwice(Target)
    \/ vol.ctab[todo[i].p].fid = Target
    \/ \E j \in 1..(i - 1) : todo[j].w = "own" /\ todo[j].p = todo[i].p

(* The writes of the directory have the same, sound contents: entries that are *)
(* taken by then, the old ones with or without the file of the request.  The   *)
(* first changes the listing, the others repeat it.                            *)
DirsDue ==
  \A i \in DOMAIN todo : todo[i].w = "dir" =>
    /\ Sound(todo[i].len, todo[i].slot, cut)
    /\ \A g \in NamesOf(todo[i]) :
         \/ vol.table[g].lnk = 1 \/ GaveUp(g)
         \/ \E j \in 1..(i - 1) : todo[j].w = "take" /\ todo[j].f = g
    /\ busy[1] = "unlink" => /\ NamesOf(todo[i]) \subseteq Entries(vol)
                             /\ NamedTwice(Target) \/ Target \notin NamesOf(todo[i])
    /\ busy[1] # "unlink" => NamesOf(todo[i]) \subseteq Entries(vol) \cup {Target}
    /\ busy[1] # "write"
    /\ \A j \in DOMAIN todo : todo[j].w = "dir" => todo[j].len = todo[i].len /\ todo[j].slot = todo[i].slot
    /\ \/ todo[i].i = 1
       \/ \E j \in 1..(i - 1) : todo[j].w = "dir" /\ todo[j].i = 1
       \/ todo[i].len = vol.root.len /\ \A s \in 1..todo[i].len : todo[i].slot[s] = vol.root.slot[s]

(* A file that is being removed is released when it has lost its entry, if it *)
(* has one.                                                                  *)
NameFirst ==
  /\ busy[1] = "unlink" /\ Target \in Entries(vol) /\ ~NamedTwice(Target)
       => \E i \in DOMAIN todo : todo[i].w = "dir" /\ todo[i].i = 1
  /\ \A i \in DOMAIN todo : todo[i].w = "release" =>
       \/ Target \notin Entries(vol) \/ NamedTwice(Target)
       \/ \E j \in 1..(i - 1) : todo[j].w = "dir" /\ todo[j].i = 1

(* The blocks in the cached list of a file that is named once are the file's, *)
(* or about to be, unless it is being removed.                               *)
CachedOwned ==
  /\ busy[1] = "create" => seqs[Target] = <<>>
  /\ \A g \in Entries(vol) : busy # <<"unlink", g>> /\ ~NamedTwice(g) =>
       \A k \in DOMAIN seqs[g] :
         \/ vol.ctab[seqs[g][k].at].fid = g
         \/ g = Target /\ \E j \in DOMAIN todo : todo[j].w = "own" /\ todo[j].p = seqs[g][k].at

DirInv ==
  /\ Sound(vol.root.len, vol.root.slot, cut)
  /\ EntriesTaken /\ TwiceGave
  /\ ForTarget /\ ToOwned /\ DirsDue /\ NameFirst /\ CachedOwned

\* The slots of the first block.
LEMMA FirstBlock ==
  ASSUME NEW n \in Nat \ {0}, NEW s \in 1..n
  PROVE  (s - 1) \div n + 1 = 1
  OBVIOUS

\* What a write does to the owner of a block.
LEMMA OwnerAfter ==
  ASSUME NEW d \in Volume, NEW w \in Writes, NEW e, e = After(d, w), NEW p \in Block
  PROVE  /\ \/ e.ctab[p] = d.ctab[p]
            \/ w.w = "own" /\ p = w.p /\ e.ctab[p].fid = w.f
            \/ w.w = "drop" /\ d.ctab[p].fid = w.f /\ e.ctab[p].fid = 0
         /\ w.w = "own" /\ p = w.p => e.ctab[p].fid = w.f
<1>1. d.ctab \in Ctabs
  BY DeviceFields DEF Ctabs
<1>2. CASE w.w = "own"
  <2>1. e.ctab = [d.ctab EXCEPT ![w.p] = [fid |-> w.f, num |-> w.i]]
    BY <1>2, KindIs, OwnDoes
  <2>2. QED
    BY <1>1, <1>2, <2>1 DEF Ctabs
<1>3. CASE w.w = "drop"
  <2>1. e.ctab = [q \in Block |-> IF q[1] = w.c /\ d.ctab[q].fid = w.f THEN FreeEntry ELSE d.ctab[q]]
    BY <1>3, KindIs, DropDoes
  <2>2. e.ctab[p] = IF p[1] = w.c /\ d.ctab[p].fid = w.f THEN FreeEntry ELSE d.ctab[p]
    BY <2>1
  <2>3. QED
    BY <1>3, <2>2 DEF FreeEntry
<1>4. CASE w.w \notin {"own", "drop"}
  <2>1. CASE w \in BitW
    BY <1>4, <2>1, BitDoes
  <2>2. CASE w \in TakeW
    BY <1>4, <2>2, TakeDoes
  <2>3. CASE w \in ListW
    BY <1>4, <2>3, ListDoes
  <2>4. CASE w \in ReleaseW
    BY <1>4, <2>4, ReleaseDoes
  <2>5. CASE w \in DirW
    BY <1>4, <2>5, DirDoes
  <2>6. CASE w \in HeadW \cup DataW \cup SizeW
    BY <1>4, <2>6, DataDoes
  <2>7. CASE w \in WildW
    BY <1>4, <2>7, AfterWild
  <2>8. QED
    BY <1>4, <2>1, <2>2, <2>3, <2>4, <2>5, <2>6, <2>7, KindIs
<1>5. QED
  BY <1>2, <1>3, <1>4

\* What a write does to the contents of a block.
LEMMA DataAfter ==
  ASSUME NEW d \in Volume, NEW w \in Writes, NEW e, e = After(d, w), NEW p \in Block
  PROVE  w.w \notin {"head", "data", "size"} \/ p # w.p => e.data[p] = d.data[p]
<1>1. d.data \in Contents
  BY DeviceFields DEF Contents
<1>2. CASE w \in HeadW \cup DataW \cup SizeW
  <2>1. PICK x : e.data = [d.data EXCEPT ![w.p] = x]
    <3>1. PICK x : x = IF w \in HeadW THEN w.x
                  ELSE IF w \in DataW
                       THEN [w.x EXCEPT !.size = IF w.x.num = 0 THEN d.data[w.p].size ELSE 0]
                       ELSE [d.data[w.p] EXCEPT !.size = IF d.data[w.p].size < w.n THEN w.n ELSE d.data[w.p].size]
      OBVIOUS
    <3>2. e.data = [d.data EXCEPT ![w.p] = x]
      BY <1>2, <3>1, DataDoes
    <3>3. QED
      BY <3>2, Zenon
  <2>2. w.w \in {"head", "data", "size"}
    BY <1>2 DEF HeadW, DataW, SizeW
  <2>3. QED
    BY <1>1, <2>1, <2>2 DEF Contents
<1>3. CASE w \in OwnW
  BY <1>3, OwnDoes
<1>4. CASE w \in DropW
  BY <1>4, DropDoes
<1>5. CASE w \in BitW
  BY <1>5, BitDoes
<1>6. CASE w \in TakeW
  BY <1>6, TakeDoes
<1>7. CASE w \in ListW
  BY <1>7, ListDoes
<1>8. CASE w \in ReleaseW
  BY <1>8, ReleaseDoes
<1>9. CASE w \in DirW
  BY <1>9, DirDoes
<1>10. CASE w \in WildW
  BY <1>10, AfterWild
<1>11. QED
  BY <1>2, <1>3, <1>4, <1>5, <1>6, <1>7, <1>8, <1>9, <1>10, KindIs

(* The listing of device e is that of the directory write w. *)
ListedBy(e, w) == e.root.len = w.len /\ \A s \in 1..w.len : e.root.slot[s] = w.slot[s]

\* What a write does to the listing: only those of the directory change it.
LEMMA RootAfter ==
  ASSUME NEW d \in Volume, NEW w \in Writes, NEW e, e = After(d, w)
  PROVE  /\ w.w # "dir" => e.root = d.root
         /\ w.w = "dir" /\ w.len <= PerBlock /\ (w.i = 1 \/ ListedBy(d, w)) => ListedBy(e, w)
<1>1. CASE w.w = "dir" /\ w.len <= PerBlock /\ (w.i = 1 \/ ListedBy(d, w))
  <2>1. w \in DirW
    BY <1>1, KindIs
  <2>2. /\ e.root.len = w.len
        /\ \A s \in RootSlot : e.root.slot[s] = IF DirBlock(s) = w.i THEN w.slot[s] ELSE d.root.slot[s]
    BY <2>1, DirDoes
  <2>3. PICK n \in Nat : n = PerBlock * BPC
    BY RootSize
  <2>4. w.len \in 0..n /\ RootSlot = 1..n
    BY <2>1, <2>3 DEF DirW, RootSlot
  <2>5. ASSUME NEW s \in 1..w.len PROVE e.root.slot[s] = w.slot[s]
    <3>1. s \in RootSlot
      BY <2>4
    <3>2. PerBlock \in Nat \ {0} /\ s \in 1..PerBlock
      BY <1>1, <2>4, CrashAssumption
    <3>3. (s - 1) \div PerBlock + 1 = 1
      BY <3>2, FirstBlock
    <3>4. DirBlock(s) = 1
      BY <3>3, Zenon DEF DirBlock
    <3>5. w.i = 1 => e.root.slot[s] = w.slot[s]
      BY <2>2, <3>1, <3>4
    <3>6. w.i # 1 => e.root.slot[s] = d.root.slot[s]
      BY <2>2, <3>1, <3>4
    <3>7. QED
      BY <1>1, <3>5, <3>6 DEF ListedBy
  <2>6. QED
    BY <1>1, <2>2, <2>5 DEF ListedBy
<1>2. CASE w.w # "dir"
  <2>1. CASE w \in OwnW
    BY <1>2, <2>1, OwnDoes
  <2>2. CASE w \in DropW
    BY <1>2, <2>2, DropDoes
  <2>3. CASE w \in BitW
    BY <1>2, <2>3, BitDoes
  <2>4. CASE w \in TakeW
    BY <1>2, <2>4, TakeDoes
  <2>5. CASE w \in ListW
    BY <1>2, <2>5, ListDoes
  <2>6. CASE w \in ReleaseW
    BY <1>2, <2>6, ReleaseDoes
  <2>7. CASE w \in HeadW \cup DataW \cup SizeW
    BY <1>2, <2>7, DataDoes
  <2>8. CASE w \in WildW
    BY <1>2, <2>8, AfterWild
  <2>9. QED
    BY <1>2, <2>1, <2>2, <2>3, <2>4, <2>5, <2>6, <2>7, <2>8, KindIs
<1>3. QED
  BY <1>1, <1>2

(* Write w, the first of those due, takes the device from d to e. *)
Performs(w, d, e) ==
  /\ w \in Writes /\ 1 \in DOMAIN todo /\ w = todo[1]
  /\ d \in Volume /\ d = vol /\ e \in Volume /\ e = vol' /\ e = After(d, w)
  /\ (todo' # <<>> => busy' = busy) /\ (todo' = <<>> => busy' = Idle)
  /\ busy \in {"create", "write", "unlink"} \X File /\ Target \in File
  /\ seqs' = seqs /\ cut' = cut

\* A step of a request performs a write.
LEMMA WritePerforms ==
  ASSUME TypeOK, Write
  PROVE  \E w, d, e : Performs(w, d, e)
<1>1. PICK w \in Writes : w = todo[1] /\ w = Head(todo)
  BY Due
<1>2. 1 \in DOMAIN todo
  BY StateTyped DEF Write
<1>3. busy \in {"create", "write", "unlink"} \X File /\ Target \in File
  BY DEF TypeOK, Write, Target
<1>4. (todo' # <<>> => busy' = busy) /\ (todo' = <<>> => busy' = Idle) /\ seqs' = seqs /\ cut' = cut
  BY DEF Write
<1>5. vol \in Volume /\ vol' \in Volume /\ vol' = After(vol, w)
  BY <1>1, StateTyped, Due
<1>6. Performs(w, vol, vol')
  BY <1>1, <1>2, <1>3, <1>4, <1>5 DEF Performs
<1>7. QED
  BY <1>6

\* A write spoils no file.
LEMMA SpoiltKept ==
  ASSUME NEW w, NEW d, NEW e, Performs(w, d, e)
  PROVE  \A f : (NamedTwice(f)' <=> NamedTwice(f)) /\ (GaveUp(f)' <=> GaveUp(f))
  BY DEF Performs, NamedTwice, GaveUp

\* A write that is due is due with its place moved up by one, unless it was the
\* one performed.
LEMMA Earlier ==
  ASSUME TypeOK, Write, NEW i \in DOMAIN todo', NEW j \in 1..((i + 1) - 1)
  PROVE  /\ j \in DOMAIN todo
         /\ j # 1 => j - 1 \in 1..(i - 1) /\ j - 1 \in DOMAIN todo' /\ todo'[j - 1] = todo[j]
<1>1. i \in Nat /\ i + 1 \in DOMAIN todo /\ i \in DOMAIN todo'
  BY Due
<1>2. DOMAIN todo = 1..Len(todo) /\ Len(todo) \in Nat
  BY StateTyped
<1>3. j \in DOMAIN todo
  BY <1>1, <1>2
<1>4. ASSUME j # 1 PROVE j - 1 \in 1..(i - 1) /\ j - 1 \in DOMAIN todo' /\ todo'[j - 1] = todo[j]
  <2>1. j - 1 \in 1..(i - 1)
    BY <1>1, <1>4
  <2>2. j - 1 \in DOMAIN todo'
    BY <1>3, <1>4, Due
  <2>3. todo'[j - 1] = todo[(j - 1) + 1] /\ (j - 1) + 1 = j
    BY <1>1, <2>2, Due
  <2>4. QED
    BY <2>1, <2>2, <2>3
<1>5. QED
  BY <1>3, <1>4

\* What is due after a write was due before it.
LEMMA StillDue ==
  ASSUME TypeOK, Write, NEW i \in DOMAIN todo', NEW w, NEW d, NEW e, Performs(w, d, e)
  PROVE  i + 1 \in DOMAIN todo /\ todo'[i] = todo[i + 1] /\ todo[i + 1] \in Writes /\ busy' = busy /\ Target' = Target
<1>1. i + 1 \in DOMAIN todo /\ todo'[i] = todo[i + 1]
  BY Due
<1>2. todo' # <<>>
  BY Due
<1>3. todo[i + 1] \in Writes
  BY <1>1, StateTyped
<1>4. busy' = busy
  BY <1>2 DEF Performs
<1>5. QED
  BY <1>1, <1>3, <1>4 DEF Target

\* The listing changes only to that of a directory write.
LEMMA ListingAfter ==
  ASSUME TypeOK, Write, DirsDue, FirstBlockOnly, FirstBlockOnly', NEW w, NEW d, NEW e, Performs(w, d, e)
  PROVE  /\ w.w # "dir" => e.root = d.root /\ Entries(e) = Entries(d)
         /\ w.w = "dir" => ListedBy(e, w) /\ Entries(e) = NamesOf(w) /\ Sound(w.len, w.slot, cut)
<1>1. CASE w.w # "dir"
  <2>1. e.root = d.root
    BY <1>1, RootAfter DEF Performs
  <2>2. QED
    BY <1>1, <2>1 DEF Entries
<1>2. CASE w.w = "dir"
  <2>1. Sound(w.len, w.slot, cut) /\ (w.i = 1 \/ ListedBy(d, w))
    <3>1. \A j \in 1..(1 - 1) : FALSE
      OBVIOUS
    <3>2. /\ Sound(w.len, w.slot, cut)
          /\ \/ w.i = 1
             \/ \E j \in 1..(1 - 1) : todo[j].w = "dir" /\ todo[j].i = 1
             \/ w.len = vol.root.len /\ \A s \in 1..w.len : w.slot[s] = vol.root.slot[s]
      BY <1>2 DEF Performs, DirsDue
    <3>3. QED
      BY <3>1, <3>2 DEF ListedBy, Performs
  <2>2. e.root.len = w.len
    <3>1. w \in DirW
      BY <1>2, KindIs DEF Performs
    <3>2. QED
      BY <3>1, DirDoes DEF Performs
  <2>3. w.len <= PerBlock
    BY <2>2 DEF Performs, FirstBlockOnly
  <2>4. ListedBy(e, w)
    BY <1>2, <2>1, <2>3, RootAfter DEF Performs
  <2>5. Entries(e) = NamesOf(w)
    <3>1. \A s \in 1..w.len : w.slot[s] \in File
      BY <2>1 DEF Sound
    <3>2. 0 \notin File
      BY DEF File
    <3>3. {e.root.slot[s] : s \in 1..e.root.len} = NamesOf(w)
      BY <2>4 DEF ListedBy, NamesOf
    <3>4. 0 \notin NamesOf(w)
      BY <3>1, <3>2 DEF NamesOf
    <3>5. QED
      BY <3>3, <3>4 DEF Entries
  <2>6. QED
    BY <1>2, <2>1, <2>4, <2>5
<1>3. QED
  BY <1>1, <1>2

\* The writes due keep to the file of the request.
LEMMA ForTargetKept ==
  ASSUME TypeOK, Write, ForTarget
  PROVE  ForTarget'
<1>1. PICK w, d, e : Performs(w, d, e)
  BY WritePerforms
<1>2. SUFFICES ASSUME NEW i \in DOMAIN todo'
               PROVE  /\ todo'[i].w \in {"own", "drop", "take", "list", "release"} => todo'[i].f = Target'
                      /\ todo'[i].w = "own" => vol'.ctab[todo'[i].p].fid \in {0, Target'}
                      /\ todo'[i].w \in {"drop", "release"} => busy'[1] = "unlink"
                      /\ todo'[i].w = "take" => busy'[1] = "create"
                      /\ todo'[i].w \in {"own", "list", "head", "data", "size"} => busy'[1] # "unlink"
  BY DEF ForTarget
<1>3. PICK v \in Writes : v = todo'[i] /\ v = todo[i + 1]
  BY <1>1, StillDue
<1>4. i + 1 \in DOMAIN todo /\ busy' = busy /\ Target' = Target
  BY <1>1, StillDue
<1>5. /\ v.w \in {"own", "drop", "take", "list", "release"} => v.f = Target
      /\ v.w = "own" => d.ctab[v.p].fid \in {0, Target}
      /\ v.w \in {"drop", "release"} => busy[1] = "unlink"
      /\ v.w = "take" => busy[1] = "create"
      /\ v.w \in {"own", "list", "head", "data", "size"} => busy[1] # "unlink"
  BY <1>1, <1>3, <1>4 DEF ForTarget, Performs
<1>6. ASSUME v.w = "own" PROVE e.ctab[v.p].fid \in {0, Target}
  <2>1. v.p \in Block
    BY <1>6, KindIs DEF OwnW
  <2>2. w.w = "own" => w.f = Target
    BY <1>1 DEF ForTarget, Performs
  <2>3. \/ e.ctab[v.p] = d.ctab[v.p]
        \/ w.w = "own" /\ e.ctab[v.p].fid = w.f
        \/ e.ctab[v.p].fid = 0
    BY <1>1, <2>1, OwnerAfter DEF Performs
  <2>4. QED
    BY <1>5, <1>6, <2>2, <2>3
<1>7. QED
  BY <1>1, <1>3, <1>4, <1>5, <1>6 DEF Performs

\* The blocks that are to be written stay the file's, or become so.
LEMMA ToOwnedKept ==
  ASSUME TypeOK, Write, ForTarget, ToOwned
  PROVE  ToOwned'
<1>1. PICK w, d, e : Performs(w, d, e)
  BY WritePerforms
<1>2. SUFFICES ASSUME NEW i \in DOMAIN todo', todo'[i].w \in {"head", "data", "size"}
               PROVE  \/ NamedTwice(Target)'
                      \/ vol'.ctab[todo'[i].p].fid = Target'
                      \/ \E j \in 1..(i - 1) : todo'[j].w = "own" /\ todo'[j].p = todo'[i].p
  BY DEF ToOwned
<1>3. PICK v \in Writes : v = todo'[i] /\ v = todo[i + 1]
  BY <1>1, StillDue
<1>4. i + 1 \in DOMAIN todo /\ busy' = busy /\ Target' = Target
  BY <1>1, StillDue
<1>5. v.p \in Block /\ busy[1] # "unlink"
  <2>1. v.w \in {"head", "data", "size"}
    BY <1>2, <1>3
  <2>2. v.p \in Block
    BY <2>1, KindIs DEF HeadW, DataW, SizeW
  <2>3. QED
    BY <1>3, <1>4, <2>1, <2>2 DEF ForTarget
<1>6. w.w # "drop" /\ (w.w = "own" => w.f = Target)
  BY <1>1, <1>5 DEF ForTarget, Performs
<1>7. CASE d.ctab[v.p].fid = Target
  <2>1. \/ e.ctab[v.p] = d.ctab[v.p]
        \/ w.w = "own" /\ e.ctab[v.p].fid = w.f
    BY <1>1, <1>5, <1>6, OwnerAfter DEF Performs
  <2>2. e.ctab[v.p].fid = Target
    BY <1>6, <1>7, <2>1
  <2>3. QED
    BY <1>1, <1>3, <1>4, <2>2 DEF Performs
<1>8. ASSUME NEW j \in 1..((i + 1) - 1), todo[j].w = "own", todo[j].p = v.p
      PROVE  \/ e.ctab[v.p].fid = Target
             \/ \E k \in 1..(i - 1) : todo'[k].w = "own" /\ todo'[k].p = v.p
  <2>1. CASE j = 1
    <3>1. w.w = "own" /\ w.p = v.p
      BY <1>1, <1>8, <2>1 DEF Performs
    <3>2. e.ctab[v.p].fid = w.f
      BY <1>1, <1>5, <3>1, OwnerAfter DEF Performs
    <3>3. QED
      BY <1>6, <3>1, <3>2
  <2>2. CASE j # 1
    <3>1. j - 1 \in 1..(i - 1) /\ todo'[j - 1] = todo[j]
      BY <2>2, Earlier
    <3>2. QED
      BY <1>8, <3>1
  <2>3. QED
    BY <2>1, <2>2
<1>9. \/ NamedTwice(Target)
      \/ d.ctab[v.p].fid = Target
      \/ \E j \in 1..((i + 1) - 1) : todo[j].w = "own" /\ todo[j].p = v.p
  BY <1>1, <1>2, <1>3, <1>4 DEF ToOwned, Performs
<1>10. NamedTwice(Target) => NamedTwice(Target)'
  BY <1>1, <1>4 DEF Performs, NamedTwice
<1>11. QED
  BY <1>1, <1>3, <1>4, <1>7, <1>8, <1>9, <1>10 DEF Performs

\* The directory writes due stay sound, taken, and alike.
LEMMA DirsDueKept ==
  ASSUME TypeOK, Write, ForTarget, DirsDue, TwiceGave, FirstBlockOnly, FirstBlockOnly'
  PROVE  DirsDue'
<1>1. PICK w, d, e : Performs(w, d, e)
  BY WritePerforms
<1>2. SUFFICES ASSUME NEW i \in DOMAIN todo', todo'[i].w = "dir"
               PROVE  /\ Sound(todo'[i].len, todo'[i].slot, cut')
                      /\ \A g \in NamesOf(todo'[i]) :
                           \/ vol'.table[g].lnk = 1 \/ GaveUp(g)'
                           \/ \E j \in 1..(i - 1) : todo'[j].w = "take" /\ todo'[j].f = g
                      /\ busy'[1] = "unlink" => /\ NamesOf(todo'[i]) \subseteq Entries(vol')
                                                /\ NamedTwice(Target)' \/ Target' \notin NamesOf(todo'[i])
                      /\ busy'[1] # "unlink" => NamesOf(todo'[i]) \subseteq Entries(vol') \cup {Target'}
                      /\ busy'[1] # "write"
                      /\ \A j \in DOMAIN todo' : todo'[j].w = "dir"
                           => todo'[j].len = todo'[i].len /\ todo'[j].slot = todo'[i].slot
                      /\ \/ todo'[i].i = 1
                         \/ \E j \in 1..(i - 1) : todo'[j].w = "dir" /\ todo'[j].i = 1
                         \/ /\ todo'[i].len = vol'.root.len
                            /\ \A s \in 1..todo'[i].len : todo'[i].slot[s] = vol'.root.slot[s]
  BY DEF DirsDue
<1>3. PICK v \in Writes : v = todo'[i] /\ v = todo[i + 1]
  BY <1>1, StillDue
<1>4. i + 1 \in DOMAIN todo /\ busy' = busy /\ Target' = Target
  BY <1>1, StillDue
<1>5. /\ v.w = "dir" /\ Sound(v.len, v.slot, cut) /\ busy[1] # "write"
      /\ \A g \in NamesOf(v) :
           d.table[g].lnk = 1 \/ GaveUp(g) \/ \E j \in 1..((i + 1) - 1) : todo[j].w = "take" /\ todo[j].f = g
      /\ busy[1] = "unlink" => NamesOf(v) \subseteq Entries(d) /\ (NamedTwice(Target) \/ Target \notin NamesOf(v))
      /\ busy[1] # "unlink" => NamesOf(v) \subseteq Entries(d) \cup {Target}
      /\ \A j \in DOMAIN todo : todo[j].w = "dir" => todo[j].len = v.len /\ todo[j].slot = v.slot
      /\ \/ v.i = 1
         \/ \E j \in 1..((i + 1) - 1) : todo[j].w = "dir" /\ todo[j].i = 1
         \/ ListedBy(d, v)
  BY <1>1, <1>2, <1>3, <1>4 DEF DirsDue, Performs, ListedBy
<1>6. /\ w.w # "dir" => e.root = d.root /\ Entries(e) = Entries(d)
      /\ w.w = "dir" => ListedBy(e, w) /\ Entries(e) = NamesOf(w)
  BY <1>1, ListingAfter
<1>7. w.w = "dir" => w.len = v.len /\ w.slot = v.slot
  BY <1>1, <1>5 DEF Performs
<1>8. w.w = "dir" => ListedBy(e, v) /\ Entries(e) = NamesOf(v)
  BY <1>6, <1>7 DEF ListedBy, NamesOf
<1>9. ASSUME NEW g \in NamesOf(v)
      PROVE  e.table[g].lnk = 1 \/ GaveUp(g) \/ \E j \in 1..(i - 1) : todo'[j].w = "take" /\ todo'[j].f = g
  <2>1. g \in File
    BY <1>5 DEF Sound, NamesOf
  <2>2. CASE d.table[g].lnk = 1 /\ ~GaveUp(g)
    <3>1. w.w = "release" => g # w.f
      <4>1. ASSUME w.w = "release" PROVE g # w.f
        <5>1. w.f = Target /\ busy[1] = "unlink"
          BY <1>1, <4>1 DEF ForTarget, Performs
        <5>2. ~NamedTwice(g)
          BY <2>1, <2>2 DEF TwiceGave
        <5>3. QED
          BY <1>5, <5>1, <5>2
      <4>2. QED
        BY <4>1
    <3>2. e.table[g].lnk = 1
      BY <1>1, <2>1, <2>2, <3>1, TableAfter DEF Performs
    <3>3. QED
      BY <3>2
  <2>3. ASSUME NEW j \in 1..((i + 1) - 1), todo[j].w = "take", todo[j].f = g
        PROVE  e.table[g].lnk = 1 \/ \E k \in 1..(i - 1) : todo'[k].w = "take" /\ todo'[k].f = g
    <3>1. CASE j = 1
      <4>1. w.w = "take" /\ g = w.f
        BY <1>1, <2>3, <3>1 DEF Performs
      <4>2. QED
        BY <1>1, <2>1, <4>1, TableAfter DEF Performs
    <3>2. CASE j # 1
      <4>1. j - 1 \in 1..(i - 1) /\ todo'[j - 1] = todo[j]
        BY <3>2, Earlier
      <4>2. QED
        BY <2>3, <4>1
    <3>3. QED
      BY <3>1, <3>2
  <2>4. QED
    BY <1>5, <2>2, <2>3
<1>10. /\ busy[1] = "unlink" => NamesOf(v) \subseteq Entries(e)
       /\ busy[1] # "unlink" => NamesOf(v) \subseteq Entries(e) \cup {Target}
  BY <1>5, <1>6, <1>8
<1>11. ASSUME NEW j \in DOMAIN todo', todo'[j].w = "dir" PROVE todo'[j].len = v.len /\ todo'[j].slot = v.slot
  <2>1. j + 1 \in DOMAIN todo /\ todo'[j] = todo[j + 1]
    BY Due
  <2>2. QED
    BY <1>5, <1>11, <2>1
<1>12. \/ v.i = 1
       \/ \E j \in 1..(i - 1) : todo'[j].w = "dir" /\ todo'[j].i = 1
       \/ ListedBy(e, v)
  <2>1. ASSUME NEW j \in 1..((i + 1) - 1), todo[j].w = "dir", todo[j].i = 1
        PROVE  ListedBy(e, v) \/ \E k \in 1..(i - 1) : todo'[k].w = "dir" /\ todo'[k].i = 1
    <3>1. CASE j = 1
      BY <1>1, <1>8, <2>1, <3>1 DEF Performs
    <3>2. CASE j # 1
      <4>1. j - 1 \in 1..(i - 1) /\ todo'[j - 1] = todo[j]
        BY <3>2, Earlier
      <4>2. QED
        BY <2>1, <4>1
    <3>3. QED
      BY <3>1, <3>2
  <2>2. ListedBy(d, v) => ListedBy(e, v)
    BY <1>6, <1>8 DEF ListedBy
  <2>3. QED
    BY <1>5, <2>1, <2>2
<1>13. v.len = e.root.len /\ (\A s \in 1..v.len : v.slot[s] = e.root.slot[s]) <=> ListedBy(e, v)
  BY DEF ListedBy
<1>14. vol' = e /\ todo'[i] = v
  BY <1>1, <1>3 DEF Performs
<1>15. cut' = cut /\ (NamedTwice(Target)' <=> NamedTwice(Target)) /\ \A g : GaveUp(g)' <=> GaveUp(g)
  BY <1>1, <1>4 DEF Performs, NamedTwice, GaveUp
<1>16. QED
  BY <1>4, <1>5, <1>9, <1>10, <1>11, <1>12, <1>13, <1>14, <1>15

\* A file that is being removed stays listed as long as the first block of the
\* directory is due.
LEMMA NameFirstKept ==
  ASSUME TypeOK, Write, ForTarget, DirsDue, NameFirst, FirstBlockOnly, FirstBlockOnly'
  PROVE  NameFirst'
<1>1. PICK w, d, e : Performs(w, d, e)
  BY WritePerforms
<1>2. /\ w.w # "dir" => Entries(e) = Entries(d)
      /\ w.w = "dir" => Entries(e) = NamesOf(w)
  BY <1>1, ListingAfter
<1>25. NamedTwice(Target) /\ Target' = Target => NamedTwice(Target)'
  BY <1>1 DEF Performs, NamedTwice
<1>3. w.w = "dir" /\ busy[1] = "unlink" => Target \notin Entries(e) \/ NamedTwice(Target)
  <2>1. w.w = "dir" /\ busy[1] = "unlink" => Target \notin NamesOf(w) \/ NamedTwice(Target)
    BY <1>1 DEF DirsDue, Performs
  <2>2. QED
    BY <1>2, <2>1
<1>4. ASSUME busy'[1] = "unlink", Target' \in Entries(vol'), ~NamedTwice(Target)'
      PROVE  \E i \in DOMAIN todo' : todo'[i].w = "dir" /\ todo'[i].i = 1
  <2>1. busy' = busy /\ Target' = Target
    BY <1>1, <1>4 DEF Performs, Idle, Target
  <2>2. busy[1] = "unlink" /\ Target \in Entries(e) /\ ~NamedTwice(Target)
    BY <1>1, <1>25, <1>4, <2>1 DEF Performs
  <2>3. w.w # "dir" /\ Target \in Entries(d)
    BY <1>2, <1>3, <2>2
  <2>4. PICK i \in DOMAIN todo : todo[i].w = "dir" /\ todo[i].i = 1
    BY <1>1, <2>2, <2>3 DEF NameFirst, Performs
  <2>5. i # 1
    BY <1>1, <2>3, <2>4 DEF Performs
  <2>6. i - 1 \in DOMAIN todo'
    BY <2>5, Due
  <2>7. i \in Int
    BY StateTyped
  <2>8. todo'[i - 1] = todo[(i - 1) + 1] /\ (i - 1) + 1 = i
    BY <2>6, <2>7, Due
  <2>9. QED
    BY <2>4, <2>6, <2>8
<1>5. ASSUME NEW i \in DOMAIN todo', todo'[i].w = "release"
      PROVE  \/ Target' \notin Entries(vol') \/ NamedTwice(Target)'
             \/ \E j \in 1..(i - 1) : todo'[j].w = "dir" /\ todo'[j].i = 1
  <2>1. i + 1 \in DOMAIN todo /\ todo'[i] = todo[i + 1] /\ Target' = Target
    BY <1>1, StillDue
  <2>2. busy[1] = "unlink"
    BY <1>5, <2>1 DEF ForTarget
  <2>3. \/ Target \notin Entries(d) \/ NamedTwice(Target)
        \/ \E j \in 1..((i + 1) - 1) : todo[j].w = "dir" /\ todo[j].i = 1
    BY <1>1, <1>5, <2>1 DEF NameFirst, Performs
  <2>4. CASE Target \notin Entries(d) \/ NamedTwice(Target)
    <3>1. Target \notin Entries(e) \/ NamedTwice(Target)
      BY <1>2, <1>3, <2>2, <2>4
    <3>2. QED
      BY <1>1, <1>25, <2>1, <3>1 DEF Performs
  <2>5. ASSUME NEW j \in 1..((i + 1) - 1), todo[j].w = "dir", todo[j].i = 1
        PROVE  \/ Target \notin Entries(e) \/ NamedTwice(Target)
               \/ \E k \in 1..(i - 1) : todo'[k].w = "dir" /\ todo'[k].i = 1
    <3>1. CASE j = 1
      BY <1>1, <1>3, <2>2, <2>5, <3>1 DEF Performs
    <3>2. CASE j # 1
      <4>1. j - 1 \in 1..(i - 1) /\ todo'[j - 1] = todo[j]
        BY <3>2, Earlier
      <4>2. QED
        BY <2>5, <4>1
    <3>3. QED
      BY <3>1, <3>2
  <2>6. QED
    BY <1>1, <1>25, <2>1, <2>3, <2>4, <2>5 DEF Performs
<1>6. QED
  BY <1>4, <1>5 DEF NameFirst

\* The cached lists keep their files' blocks.
LEMMA CachedOwnedKept ==
  ASSUME TypeOK, Write, ForTarget, DirsDue, NameFirst, CachedOwned, FirstBlockOnly, FirstBlockOnly'
  PROVE  CachedOwned'
<1>1. PICK w, d, e : Performs(w, d, e)
  BY WritePerforms
<1>2. busy'[1] = "create" => seqs'[Target'] = <<>>
  BY <1>1 DEF Performs, Idle, Target, CachedOwned
<1>3. SUFFICES ASSUME NEW g \in Entries(vol'), busy' # <<"unlink", g>>, ~NamedTwice(g)', NEW k \in DOMAIN seqs[g]
               PROVE  \/ vol'.ctab[seqs[g][k].at].fid = g
                      \/ g = Target' /\ \E j \in DOMAIN todo' : todo'[j].w = "own" /\ todo'[j].p = seqs[g][k].at
  BY <1>1, <1>2 DEF CachedOwned, Performs
<1>35. ~NamedTwice(g)
  BY <1>1, <1>3 DEF Performs, NamedTwice
<1>4. /\ w.w # "dir" => Entries(e) = Entries(d)
      /\ w.w = "dir" => Entries(e) = NamesOf(w) /\ Sound(w.len, w.slot, cut)
  BY <1>1, ListingAfter
<1>5. g \in Entries(e)
  BY <1>1, <1>3 DEF Performs
<1>6. busy = <<busy[1], Target>> /\ busy[1] \in {"create", "write", "unlink"}
  BY <1>1 DEF Performs, Target
<1>7. CASE g \notin Entries(d)
  <2>1. w.w = "dir" /\ g \in NamesOf(w)
    BY <1>4, <1>5, <1>7
  <2>2. /\ busy[1] = "unlink" => NamesOf(w) \subseteq Entries(d)
        /\ busy[1] # "unlink" => NamesOf(w) \subseteq Entries(d) \cup {Target}
        /\ busy[1] # "write"
    BY <1>1, <2>1 DEF DirsDue, Performs
  <2>3. busy[1] = "create" /\ g = Target
    BY <1>6, <1>7, <2>1, <2>2
  <2>4. seqs[g] = <<>>
    BY <2>3 DEF CachedOwned
  <2>5. QED
    BY <1>3, <2>4
<1>8. CASE g \in Entries(d) /\ busy = <<"unlink", g>>
  <2>1. todo' = <<>> /\ g = Target /\ busy[1] = "unlink"
    BY <1>1, <1>3, <1>8 DEF Performs, Target
  <2>2. w.w # "dir"
    BY <1>1, <1>35, <1>4, <1>5, <2>1 DEF DirsDue, Performs
  <2>3. PICK i \in DOMAIN todo : todo[i].w = "dir" /\ todo[i].i = 1
    BY <1>1, <1>35, <1>8, <2>1 DEF NameFirst, Performs
  <2>4. i # 1
    BY <1>1, <2>2, <2>3 DEF Performs
  <2>5. i - 1 \in DOMAIN todo'
    BY <2>4, Due
  <2>6. QED
    BY <2>1, <2>5
<1>9. CASE g \in Entries(d) /\ busy # <<"unlink", g>>
  <2>1. g \in Nat \ {0} /\ g \in File
    <3>1. w.w = "dir" => g \in File
      BY <1>4, <1>5 DEF Sound, NamesOf
    <3>2. g \in Entries(d) => g \in File
      BY <1>1, NamedIs, StateTyped DEF Entries, Performs, File
    <3>3. QED
      BY <1>9, <3>2, Sizes
  <2>2. PICK p \in Block : p = seqs[g][k].at
    <3>1. seqs[g] \in Seq(BlkInfo)
      BY <2>1, StateTyped
    <3>2. seqs[g][k] \in BlkInfo
      BY <1>3, <3>1
    <3>3. QED
      BY <3>2 DEF BlkInfo
  <2>3. \/ d.ctab[p].fid = g
        \/ g = Target /\ \E j \in DOMAIN todo : todo[j].w = "own" /\ todo[j].p = p
    BY <1>1, <1>3, <1>35, <1>9, <2>2 DEF CachedOwned, Performs
  <2>4. \/ e.ctab[p] = d.ctab[p]
        \/ w.w = "own" /\ p = w.p /\ e.ctab[p].fid = w.f
        \/ w.w = "drop" /\ d.ctab[p].fid = w.f /\ e.ctab[p].fid = 0
    BY <1>1, OwnerAfter DEF Performs
  <2>5. w.w = "own" => w.f = Target /\ d.ctab[w.p].fid \in {0, Target}
    BY <1>1 DEF ForTarget, Performs
  <2>6. w.w = "drop" => w.f = Target /\ busy[1] = "unlink"
    BY <1>1 DEF ForTarget, Performs
  <2>7. CASE d.ctab[p].fid = g
    <3>1. w.w = "drop" => g # w.f
      BY <1>6, <1>9, <2>6
    <3>2. w.w = "own" /\ p = w.p => g = Target
      BY <2>1, <2>5, <2>7
    <3>3. e.ctab[p].fid = g
      BY <2>4, <2>5, <2>7, <3>1, <3>2
    <3>4. QED
      BY <1>1, <2>2, <3>3 DEF Performs
  <2>8. ASSUME g = Target, NEW j \in DOMAIN todo, todo[j].w = "own", todo[j].p = p
        PROVE  \/ e.ctab[p].fid = g
               \/ g = Target' /\ \E i \in DOMAIN todo' : todo'[i].w = "own" /\ todo'[i].p = p
    <3>1. CASE j = 1
      <4>1. w.w = "own" /\ p = w.p
        BY <1>1, <2>8, <3>1 DEF Performs
      <4>2. e.ctab[p].fid = w.f
        BY <1>1, <4>1, OwnerAfter DEF Performs
      <4>3. QED
        BY <2>5, <2>8, <4>1, <4>2
    <3>2. CASE j # 1
      <4>1. j - 1 \in DOMAIN todo' /\ j \in Int
        BY <3>2, Due, StateTyped
      <4>2. todo'[j - 1] = todo[(j - 1) + 1] /\ (j - 1) + 1 = j
        BY <4>1, Due
      <4>3. Target' = Target
        BY <1>1, <4>1, StillDue
      <4>4. QED
        BY <2>8, <4>1, <4>2, <4>3
    <3>3. QED
      BY <3>1, <3>2
  <2>9. QED
    BY <1>1, <2>2, <2>3, <2>7, <2>8 DEF Performs
<1>10. QED
  BY <1>7, <1>8, <1>9

\* The listing stays sound, and what it names taken.
LEMMA EntriesKept ==
  ASSUME TypeOK, Write, ForTarget, DirsDue, NameFirst, EntriesTaken, TwiceGave,
         Sound(vol.root.len, vol.root.slot, cut), FirstBlockOnly, FirstBlockOnly'
  PROVE  EntriesTaken' /\ Sound(vol.root.len, vol.root.slot, cut)'
<1>1. PICK w, d, e : Performs(w, d, e)
  BY WritePerforms
<1>2. /\ w.w # "dir" => e.root = d.root /\ Entries(e) = Entries(d)
      /\ w.w = "dir" => ListedBy(e, w) /\ Entries(e) = NamesOf(w) /\ Sound(w.len, w.slot, cut)
  BY <1>1, ListingAfter
<1>3. Sound(e.root.len, e.root.slot, cut)
  <2>1. CASE w.w = "dir"
    BY <1>2, <2>1 DEF ListedBy, Sound
  <2>2. CASE w.w # "dir"
    BY <1>1, <1>2, <2>2 DEF Performs
  <2>3. QED
    BY <2>1, <2>2
<1>4. ASSUME NEW g \in Entries(e), ~GaveUp(g) PROVE e.table[g].lnk # 0
  <2>1. g \in File
    BY <1>3 DEF Entries, Sound
  <2>15. ~NamedTwice(g)
    BY <1>4, <2>1 DEF TwiceGave
  <2>2. \A j \in 1..(1 - 1) : FALSE
    OBVIOUS
  <2>3. CASE w.w = "dir"
    <3>1. g \in NamesOf(w)
      BY <1>2, <2>3
    <3>2. d.table[g].lnk = 1 \/ \E j \in 1..(1 - 1) : todo[j].w = "take" /\ todo[j].f = g
      BY <1>1, <1>4, <2>3, <3>1 DEF DirsDue, Performs
    <3>3. e.table[g] = d.table[g]
      BY <1>1, <2>1, <2>3, TableAfter DEF Performs
    <3>4. QED
      BY <2>2, <3>2, <3>3
  <2>4. CASE w.w # "dir"
    <3>1. g \in Entries(d) /\ d.table[g].lnk # 0
      BY <1>1, <1>2, <1>4, <2>4 DEF EntriesTaken, Performs
    <3>2. w.w = "release" => g # w.f
      <4>1. ASSUME w.w = "release" PROVE g # w.f
        <5>1. \/ Target \notin Entries(d) \/ NamedTwice(Target)
              \/ \E j \in 1..(1 - 1) : todo[j].w = "dir" /\ todo[j].i = 1
          BY <1>1, <4>1 DEF NameFirst, Performs
        <5>2. w.f = Target
          BY <1>1, <4>1 DEF ForTarget, Performs
        <5>3. QED
          BY <2>15, <2>2, <3>1, <5>1, <5>2
      <4>2. QED
        BY <4>1
    <3>3. w.w \notin {"take", "list", "release"} \/ g # w.f => e.table[g] = d.table[g]
      BY <1>1, <2>1, TableAfter DEF Performs
    <3>4. w.w = "take" /\ g = w.f => e.table[g].lnk = 1
      BY <1>1, <2>1, TableAfter DEF Performs
    <3>5. w.w = "list" => e.table[g].lnk = d.table[g].lnk
      BY <1>1, <2>1, TableAfter DEF Performs
    <3>6. QED
      BY <3>1, <3>2, <3>3, <3>4, <3>5
  <2>5. QED
    BY <2>3, <2>4
<1>5. vol' = e /\ cut' = cut /\ \A g : GaveUp(g)' <=> GaveUp(g)
  BY <1>1 DEF Performs, GaveUp
<1>6. EntriesTaken'
  BY <1>4, <1>5 DEF EntriesTaken
<1>7. QED
  BY <1>3, <1>5, <1>6

\* What was done to a file is remembered; an identifier is named twice when it is
\* handed out free and named.
LEMMA CutGrows ==
  ASSUME TypeOK, [Next]_vars
  PROVE  /\ cut \subseteq cut'
         /\ \A f : NamedTwice(f)' => NamedTwice(f) \/ (f \in Entries(vol) /\ vol.table[f].lnk = 0)
<1>1. ASSUME NEW f, vol.table[f].lnk = 0,
             cut' = cut \cup Again(f) \cup Twice(f) \/ cut' = cut \cup Again(f) \cup Twice(f) \cup {<<"gaveup", f>>}
      PROVE  \A g : NamedTwice(g)' => NamedTwice(g) \/ (g \in Entries(vol) /\ vol.table[g].lnk = 0)
  <2>1. SUFFICES ASSUME NEW g, <<"twice", g>> \in cut', <<"twice", g>> \notin cut
                 PROVE  g \in Entries(vol) /\ vol.table[g].lnk = 0
    BY DEF NamedTwice
  <2>2. <<"twice", g>> \notin Again(f) /\ <<"twice", g>> # <<"gaveup", f>>
    BY DEF Again
  <2>3. <<"twice", g>> \in Twice(f)
    BY <1>1, <2>1, <2>2
  <2>4. f \in Entries(vol) /\ g = f
    BY <2>3 DEF Twice
  <2>5. QED
    BY <1>1, <2>4
<1>2. ASSUME cut' = cut PROVE \A f : NamedTwice(f)' => NamedTwice(f)
  BY <1>2 DEF NamedTwice
<1>3. ASSUME NEW f, NEW c, NEW b, Creates(f, c, b)
      PROVE  /\ cut \subseteq cut'
             /\ \A g : NamedTwice(g)' => NamedTwice(g) \/ (g \in Entries(vol) /\ vol.table[g].lnk = 0)
  <2>1. vol.table[f].lnk = 0 /\ cut' = cut \cup Again(f) \cup Twice(f)
    BY <1>3 DEF Creates
  <2>2. QED
    BY <1>1, <2>1
<1>4. ASSUME NEW f, GivesUp(f)
      PROVE  /\ cut \subseteq cut'
             /\ \A g : NamedTwice(g)' => NamedTwice(g) \/ (g \in Entries(vol) /\ vol.table[g].lnk = 0)
  <2>1. vol.table[f].lnk = 0 /\ cut' = cut \cup Again(f) \cup Twice(f) \cup {<<"gaveup", f>>}
    BY <1>4 DEF GivesUp
  <2>2. QED
    BY <1>1, <2>1
<1>5. ASSUME NEW f, NEW n, NEW m, Extends(f, n, m)
      PROVE  cut \subseteq cut' /\ \A g : NamedTwice(g)' => NamedTwice(g)
  <2>1. cut' = cut \cup Again(f)
    BY <1>5 DEF Extends
  <2>2. \A g : <<"twice", g>> \notin Again(f)
    BY DEF Again
  <2>3. QED
    BY <2>1, <2>2 DEF NamedTwice
<1>6. CASE Crash
  <2>1. cut' = cut \cup {busy} /\ busy[1] \in {"create", "write", "unlink"}
    BY <1>6 DEF Crash, TypeOK
  <2>2. \A g : <<"twice", g>> # busy
    BY <2>1
  <2>3. QED
    BY <2>1, <2>2 DEF NamedTwice
<1>7. CASE Loses
  BY <1>2, <1>7 DEF Loses, Rest
<1>8. ASSUME NEW f, Gets(f) PROVE cut' = cut
  BY <1>8 DEF Gets
<1>9. ASSUME NEW f, Unlinks(f) PROVE cut' = cut
  BY <1>9 DEF Unlinks
<1>10. CASE Write \/ Remount
  BY <1>2, <1>10 DEF Write, Remount
<1>11. CASE UNCHANGED vars
  BY <1>2, <1>11 DEF vars
<1>12. QED
  BY <1>2, <1>3, <1>4, <1>5, <1>6, <1>7, <1>8, <1>9, <1>10, <1>11, StepIs

\* Files that are named twice stay so.
LEMMA SoundStays ==
  ASSUME NEW len, NEW slot, NEW C, NEW D, Sound(len, slot, C), C \subseteq D
  PROVE  Sound(len, slot, D)
  BY DEF Sound

\* A request starts with the device as it is.
LEMMA SameDevice ==
  ASSUME TypeOK, DirInv, vol' = vol, [Next]_vars
  PROVE  /\ Sound(vol.root.len, vol.root.slot, cut)' /\ EntriesTaken' /\ TwiceGave'
         /\ Entries(vol') = Entries(vol)
<1>1. cut \subseteq cut' /\ \A f : NamedTwice(f)' => NamedTwice(f) \/ (f \in Entries(vol) /\ vol.table[f].lnk = 0)
  BY CutGrows
<1>2. Sound(vol.root.len, vol.root.slot, cut')
  BY <1>1, SoundStays DEF DirInv
<1>3. \A f : GaveUp(f) => GaveUp(f)'
  BY <1>1 DEF GaveUp
<1>4. EntriesTaken'
  BY <1>3 DEF DirInv, EntriesTaken
<1>5. TwiceGave'
  <2>1. \A f \in File : NamedTwice(f)' => GaveUp(f)
    BY <1>1 DEF DirInv, TwiceGave, EntriesTaken
  <2>2. QED
    BY <1>3, <2>1 DEF TwiceGave
<1>6. QED
  BY <1>2, <1>4, <1>5

\* Between requests the cached lists of the named files have their blocks.
LEMMA CachedBetween ==
  ASSUME TypeOK, DirInv, todo = <<>>
  PROVE  /\ \A g \in Entries(vol) : NamedTwice(g) \/ \A k \in DOMAIN seqs[g] : vol.ctab[seqs[g][k].at].fid = g
         /\ \A g \in Entries(vol) : g \in File /\ (GaveUp(g) \/ vol.table[g].lnk = 1)
<1>1. busy = Idle /\ DOMAIN todo = {}
  BY DEF TypeOK
<1>2. \A g : busy # <<"unlink", g>>
  BY <1>1 DEF Idle
<1>3. \A g \in Entries(vol) : NamedTwice(g) \/ \A k \in DOMAIN seqs[g] : vol.ctab[seqs[g][k].at].fid = g
  BY <1>1, <1>2 DEF DirInv, CachedOwned
<1>4. \A g \in Entries(vol) : g \in File /\ (GaveUp(g) \/ vol.table[g].lnk # 0)
  <2>1. \A g \in Entries(vol) : g \in File
    BY DEF DirInv, Sound, Entries
  <2>2. QED
    BY <2>1 DEF DirInv, EntriesTaken
<1>5. \A g \in File : vol.table[g].lnk \in {0, 1}
  BY StateTyped DEF Volume, Table
<1>6. QED
  BY <1>3, <1>4, <1>5

\* When nothing is due, the invariant is that of the listing and the cached lists.
LEMMA DirInvAtRest ==
  ASSUME todo' = <<>>, busy' = Idle, Sound(vol.root.len, vol.root.slot, cut)', EntriesTaken', TwiceGave',
         \A g \in Entries(vol') : NamedTwice(g)' \/ \A k \in DOMAIN seqs'[g] : vol'.ctab[seqs'[g][k].at].fid = g
  PROVE  DirInv'
<1>1. DOMAIN todo' = {} /\ busy'[1] = "idle"
  BY DEF Idle
<1>2. QED
  BY <1>1 DEF DirInv, ForTarget, ToOwned, DirsDue, NameFirst, CachedOwned

\* The slots of the root directory, one by one.
LEMMA RootSlots ==
  ASSUME TypeOK
  PROVE  /\ vol.root.len \in Nat
         /\ \A s \in 1..vol.root.len : s \in RootSlot
         /\ vol.root.len < PerBlock * BPC => \A s \in 1..(vol.root.len + 1) : s \in RootSlot
<1>1. PICK n \in Nat : n = PerBlock * BPC
  BY RootSize
<1>2. PICK k \in 0..n : k = vol.root.len
  BY <1>1, StateTyped
<1>3. RootSlot = 1..n
  BY <1>1 DEF RootSlot
<1>4. QED
  BY <1>1, <1>2, <1>3

\* The listing with one entry more, f.
LEMMA NamedSound ==
  ASSUME TypeOK, DirInv, NEW f \in File, vol.root.len < PerBlock * BPC, NEW new,
         \A s \in RootSlot : s <= vol.root.len + 1
           => new[s] = IF s = vol.root.len + 1 THEN f ELSE vol.root.slot[s],
         NEW D, cut \subseteq D, f \notin Entries(vol) \/ <<"twice", f>> \in D
  PROVE  /\ Sound(vol.root.len + 1, new, D)
         /\ \A s \in 1..(vol.root.len + 1) : new[s] \in Entries(vol) \cup {f}
<1>2. PICK L \in Nat : L = vol.root.len
  BY RootSlots
<1>3. \A s \in 1..(L + 1) : new[s] = IF s = L + 1 THEN f ELSE vol.root.slot[s]
  BY <1>2, RootSlots
<1>4. \A s \in 1..(L + 1) : s # L + 1 => s \in 1..L /\ vol.root.slot[s] \in Entries(vol) /\ vol.root.slot[s] \in File
  <2>1. \A s \in 1..(L + 1) : s # L + 1 => s \in 1..L
    BY <1>2
  <2>2. \A s \in 1..L : vol.root.slot[s] \in File
    BY <1>2 DEF DirInv, Sound
  <2>3. 0 \notin File
    BY DEF File
  <2>4. \A s \in 1..L : vol.root.slot[s] \in Entries(vol)
    BY <1>2, <2>2, <2>3 DEF Entries
  <2>5. QED
    BY <2>1, <2>2, <2>4
<1>5. Sound(L + 1, new, D)
  <2>1. \A s \in 1..(L + 1) : new[s] \in File
    BY <1>3, <1>4
  <2>2. ASSUME NEW s \in 1..(L + 1), NEW t \in 1..(L + 1), new[s] = new[t] PROVE s = t \/ <<"twice", new[s]>> \in D
    <3>1. CASE s = L + 1 /\ t # L + 1
      <4>1. new[s] = f /\ new[t] \in Entries(vol)
        BY <1>3, <1>4, <3>1
      <4>2. QED
        BY <2>2, <4>1
    <3>2. CASE t = L + 1 /\ s # L + 1
      <4>1. new[t] = f /\ new[s] \in Entries(vol)
        BY <1>3, <1>4, <3>2
      <4>2. QED
        BY <2>2, <4>1
    <3>3. CASE s # L + 1 /\ t # L + 1
      <4>1. s \in 1..L /\ t \in 1..L /\ vol.root.slot[s] = vol.root.slot[t]
        BY <1>3, <1>4, <2>2, <3>3
      <4>2. new[s] = vol.root.slot[s]
        BY <1>3, <3>3
      <4>3. s = t \/ <<"twice", new[s]>> \in cut
        BY <1>2, <4>1, <4>2 DEF DirInv, Sound
      <4>4. QED
        BY <4>3
    <3>4. QED
      BY <3>1, <3>2, <3>3
  <2>3. QED
    BY <2>1, <2>2 DEF Sound
<1>6. QED
  BY <1>2, <1>3, <1>4, <1>5

\* A creation starts.
LEMMA CreatesDir ==
  ASSUME TypeOK, TypeOK', DirInv, [Next]_vars, NEW f, NEW c, NEW b, Creates(f, c, b)
  PROVE  DirInv'
<1>1. /\ todo = <<>> /\ f \in File /\ c \in Cluster /\ b \in Slot
      /\ vol.table[f].lnk = 0 /\ seqs[f] = <<>> /\ vol.ctab[<<c, b>>].fid = 0
      /\ vol.root.len < PerBlock * BPC
      /\ CreateQueue(todo', f, c, b) /\ todo' # <<>>
      /\ busy' = <<"create", f>> /\ vol' = vol /\ seqs' = seqs
  BY DEF Creates
<1>2. Target' = f /\ busy'[1] = "create"
  BY <1>1 DEF Target
<1>3. PICK r \in Seq(Writes) : r = todo'
  BY DEF TypeOK
<1>4. /\ DOMAIN r = 1..(BPC + 4)
      /\ \A i \in DOMAIN r :
              \/ i = 1 /\ r[i] = Own(<<c, b>>, f, 0)
              \/ i = 2 /\ r[i] = Bit(c)
              \/ i = 3 /\ r[i] = Take(f, c)
              \/ i - 3 \in 1..BPC /\ r[i].w = "dir" /\ r[i].i = i - 3
              \/ i = BPC + 4 /\ r[i].w = "head"
  BY <1>1, <1>3, CreatePlaces
<1>5. /\ r[1] = Own(<<c, b>>, f, 0) /\ r[1].w = "own" /\ r[1].p = <<c, b>>
      /\ r[3] = Take(f, c) /\ r[3].w = "take" /\ r[3].f = f
  <2>1. r[1] = Own(<<c, b>>, f, 0) /\ r[3] = Take(f, c)
    BY <1>1, <1>3 DEF CreateQueue
  <2>2. QED
    BY <2>1, FieldsAre
<1>45. \A i \in DOMAIN r :
         \/ i = 1 /\ r[i].w = "own"
         \/ i = 2 /\ r[i].w = "bit"
         \/ i = 3 /\ r[i].w = "take"
         \/ i - 3 \in 1..BPC /\ r[i].w = "dir" /\ r[i].i = i - 3
         \/ i = BPC + 4 /\ r[i].w = "head"
  BY <1>1, <1>3, CreateKinds
<1>6. f \notin Entries(vol) \/ <<"twice", f>> \in cut'
  <2>1. cut' = cut \cup Again(f) \cup Twice(f)
    BY DEF Creates
  <2>2. QED
    BY <2>1 DEF Twice
<1>65. cut \subseteq cut' /\ (\A g : NamedTwice(g) => NamedTwice(g)') /\ (\A g : GaveUp(g) => GaveUp(g)')
  <2>1. cut \subseteq cut'
    BY CutGrows
  <2>2. QED
    BY <2>1 DEF NamedTwice, GaveUp
<1>7. ForTarget'
  <2>1. ASSUME NEW i \in DOMAIN r
        PROVE  /\ r[i].w \in {"own", "drop", "take", "list", "release"} => r[i].f = f
               /\ r[i].w = "own" => vol.ctab[r[i].p].fid \in {0, f}
               /\ r[i].w \notin {"drop", "release"}
    <3>1. CASE r[i] = Own(<<c, b>>, f, 0)
      BY <1>1, <3>1, FieldsAre
    <3>2. CASE r[i] = Bit(c)
      BY <3>2, FieldsAre
    <3>3. CASE r[i] = Take(f, c)
      BY <3>3, FieldsAre
    <3>4. CASE r[i].w \in {"dir", "head"}
      BY <3>4
    <3>5. QED
      BY <1>4, <3>1, <3>2, <3>3, <3>4
  <2>2. QED
    BY <1>1, <1>2, <1>3, <2>1 DEF ForTarget
<1>8. ToOwned'
  <2>1. ASSUME NEW i \in DOMAIN r, r[i].w \in {"head", "data", "size"}
        PROVE  \/ vol.ctab[r[i].p].fid = f
               \/ \E j \in 1..(i - 1) : r[j].w = "own" /\ r[j].p = r[i].p
    <3>1. i = BPC + 4
      BY <1>45, <2>1
    <3>2. PICK p \in Block : /\ \E x : r[BPC + 4] = Header(p, x)
                             /\ p = <<c, b>> \/ vol.ctab[p].fid = f
      BY <1>1, <1>3 DEF CreateQueue
    <3>3. r[i].p = p
      BY <3>1, <3>2, FieldsAre
    <3>4. 1 \in 1..(i - 1) /\ r[1].w = "own" /\ r[1].p = <<c, b>>
      <4>1. i - 1 = BPC + 3 /\ BPC \in Nat
        BY <3>1, Sizes
      <4>2. 1 \in 1..(i - 1)
        BY <4>1
      <4>3. QED
        BY <1>5, <4>2
    <3>5. QED
      BY <3>2, <3>3, <3>4
  <2>2. QED
    BY <1>1, <1>2, <1>3, <2>1 DEF ToOwned
<1>9. DirsDue'
  <2>1. PICK new \in [RootSlot -> 0..(NF - 1)] :
       /\ \A i \in 1..BPC : r[i + 3] = Dir(i, vol.root.len + 1, new)
       /\ \A s \in RootSlot : s <= vol.root.len + 1
            => new[s] = IF s = vol.root.len + 1 THEN f ELSE vol.root.slot[s]
    BY <1>1, <1>3 DEF CreateQueue
  <2>2. PICK L \in Nat : L = vol.root.len
    BY RootSlots
  <2>5. Sound(L + 1, new, cut') /\ \A s \in 1..(L + 1) : new[s] \in Entries(vol) \cup {f}
    BY <1>1, <1>6, <1>65, <2>1, <2>2, NamedSound
  <2>6. ASSUME NEW i \in DOMAIN r, r[i].w = "dir" PROVE r[i] = Dir(i - 3, L + 1, new) /\ i - 3 \in 1..BPC
    <3>1. i - 3 \in 1..BPC
      BY <1>45, <2>6
    <3>2. i \in Int
      BY <1>4
    <3>3. (i - 3) + 3 = i
      BY <3>2
    <3>4. r[(i - 3) + 3] = Dir(i - 3, L + 1, new)
      BY <2>1, <2>2, <3>1
    <3>5. QED
      BY <3>1, <3>3, <3>4
  <2>65. \A i : Dir(i, L + 1, new).len = L + 1 /\ Dir(i, L + 1, new).slot = new /\ Dir(i, L + 1, new).i = i
    BY FieldsAre
  <2>7. \A g : (\E s \in 1..(L + 1) : g = new[s]) => g \in Entries(vol) \cup {f}
    BY <2>5
  <2>8. ASSUME NEW i \in DOMAIN r, r[i].w = "dir"
        PROVE  /\ Sound(r[i].len, r[i].slot, cut')
               /\ \A g \in NamesOf(r[i]) :
                    vol.table[g].lnk = 1 \/ GaveUp(g)' \/ \E j \in 1..(i - 1) : r[j].w = "take" /\ r[j].f = g
               /\ NamesOf(r[i]) \subseteq Entries(vol) \cup {f}
               /\ \A j \in DOMAIN r : r[j].w = "dir" => r[j].len = r[i].len /\ r[j].slot = r[i].slot
               /\ \/ r[i].i = 1
                  \/ \E j \in 1..(i - 1) : r[j].w = "dir" /\ r[j].i = 1
    <3>1. r[i].len = L + 1 /\ r[i].slot = new /\ r[i].i = i - 3 /\ i - 3 \in 1..BPC
      BY <2>6, <2>65, <2>8
    <3>2. NamesOf(r[i]) \subseteq Entries(vol) \cup {f}
      BY <2>7, <3>1 DEF NamesOf
    <3>3. 3 \in 1..(i - 1) /\ r[3].w = "take" /\ r[3].f = f
      <4>1. i \in Int
        BY <1>4
      <4>2. QED
        BY <1>5, <3>1, <4>1
    <3>4. \A g \in Entries(vol) : vol.table[g].lnk = 1 \/ GaveUp(g)'
      BY <1>1, <1>65, CachedBetween
    <3>5. \A j \in DOMAIN r : r[j].w = "dir" => r[j].len = L + 1 /\ r[j].slot = new
      BY <2>6, <2>65
    <3>6. i - 3 = 1 \/ 4 \in 1..(i - 1)
      BY <1>4, <2>8, <3>1
    <3>7. r[4].w = "dir" /\ r[4].i = 1
      <4>1. 1 \in 1..BPC /\ 1 + 3 = 4
        BY Sizes
      <4>2. r[1 + 3] = Dir(1, vol.root.len + 1, new)
        BY <2>1, <4>1
      <4>3. QED
        BY <4>1, <4>2, FieldsAre
    <3>8. QED
      BY <2>5, <3>1, <3>2, <3>3, <3>4, <3>5, <3>6, <3>7
  <2>9. QED
    BY <1>1, <1>2, <1>3, <2>8 DEF DirsDue
<1>10. NameFirst'
  <2>1. ASSUME NEW i \in DOMAIN r PROVE r[i].w # "release"
    BY <1>45
  <2>2. QED
    BY <1>2, <1>3, <2>1 DEF NameFirst
<1>11. CachedOwned'
  BY <1>1, <1>2, <1>65, CachedBetween DEF CachedOwned
<1>12. Sound(vol.root.len, vol.root.slot, cut)' /\ EntriesTaken' /\ TwiceGave'
  BY <1>1, SameDevice
<1>13. QED
  BY <1>7, <1>8, <1>9, <1>10, <1>11, <1>12 DEF DirInv

\* A creation starts that got no block.
LEMMA GivesUpDir ==
  ASSUME TypeOK, TypeOK', DirInv, [Next]_vars, NEW f, GivesUp(f)
  PROVE  DirInv'
<1>1. /\ todo = <<>> /\ f \in File /\ vol.table[f].lnk = 0 /\ seqs[f] = <<>>
      /\ vol.root.len < PerBlock * BPC
      /\ GiveUpQueue(todo', f) /\ todo' # <<>>
      /\ busy' = <<"create", f>> /\ vol' = vol /\ seqs' = seqs
      /\ cut' = cut \cup Again(f) \cup Twice(f) \cup {<<"gaveup", f>>}
  BY DEF GivesUp
<1>2. Target' = f /\ busy'[1] = "create"
  BY <1>1 DEF Target
<1>3. PICK r \in Seq(Writes) : r = todo'
  BY DEF TypeOK
<1>4. cut \subseteq cut' /\ (\A g : NamedTwice(g) => NamedTwice(g)') /\ (\A g : GaveUp(g) => GaveUp(g)') /\ GaveUp(f)'
  BY <1>1 DEF NamedTwice, GaveUp
<1>5. f \notin Entries(vol) \/ <<"twice", f>> \in cut'
  BY <1>1 DEF Twice
<1>6. \A i \in DOMAIN r : /\ r[i].w \in {"take", "dir", "head", "wild"}
                          /\ r[i].w = "take" => r[i].f = f
                          /\ r[i].w = "head" => vol.ctab[r[i].p].fid = f
  <2>1. SUFFICES ASSUME NEW i \in DOMAIN r
                 PROVE  /\ r[i].w \in {"take", "dir", "head", "wild"}
                        /\ r[i].w = "take" => r[i].f = f
                        /\ r[i].w = "head" => vol.ctab[r[i].p].fid = f
    OBVIOUS
  <2>2. NotedAt(r, f, i) \/ r[i].w = "dir" \/ HeadedAt(r, f, i) \/ r[i].w = "wild"
    BY <1>1, <1>3, Zenon DEF GiveUpQueue
  <2>3. CASE HeadedAt(r, f, i)
    <3>1. PICK p, x : r[i] = Header(p, x) /\ vol.ctab[p].fid = f
      BY <2>3 DEF HeadedAt
    <3>2. r[i].w = "head" /\ r[i].p = p
      BY <3>1, HeadFields
    <3>3. QED
      BY <3>1, <3>2
  <2>4. CASE NotedAt(r, f, i)
    BY <2>4 DEF NotedAt
  <2>5. QED
    BY <2>2, <2>3, <2>4
<1>7. ForTarget'
  BY <1>1, <1>2, <1>3, <1>6 DEF ForTarget
<1>8. ToOwned'
  BY <1>1, <1>2, <1>3, <1>6 DEF ToOwned
<1>9. DirsDue'
  <2>0. PICK new \in [RootSlot -> 0..(NF - 1)] : OneMore(new, f) /\ DirsOf(r, new)
    BY <1>1, <1>3, Zenon DEF GiveUpQueue
  <2>1. /\ \A s \in RootSlot : s <= vol.root.len + 1
             => new[s] = IF s = vol.root.len + 1 THEN f ELSE vol.root.slot[s]
        /\ \A i \in DOMAIN r : r[i].w = "dir" =>
             /\ r[i].len = vol.root.len + 1 /\ r[i].slot = new
             /\ r[i].i = 1 \/ \E j \in 1..(i - 1) : r[j].w = "dir" /\ r[j].i = 1
    BY <2>0, Zenon DEF OneMore, DirsOf
  <2>2. PICK L \in Nat : L = vol.root.len
    BY RootSlots
  <2>3. Sound(L + 1, new, cut') /\ \A s \in 1..(L + 1) : new[s] \in Entries(vol) \cup {f}
    BY <1>1, <1>4, <1>5, <2>1, <2>2, NamedSound
  <2>4. ASSUME NEW i \in DOMAIN r, r[i].w = "dir"
        PROVE  /\ Sound(r[i].len, r[i].slot, cut')
               /\ \A g \in NamesOf(r[i]) : vol.table[g].lnk = 1 \/ GaveUp(g)'
               /\ NamesOf(r[i]) \subseteq Entries(vol) \cup {f}
               /\ \A j \in DOMAIN r : r[j].w = "dir" => r[j].len = r[i].len /\ r[j].slot = r[i].slot
               /\ r[i].i = 1 \/ \E j \in 1..(i - 1) : r[j].w = "dir" /\ r[j].i = 1
    <3>1. r[i].len = L + 1 /\ r[i].slot = new
      BY <2>1, <2>2, <2>4
    <3>2. NamesOf(r[i]) \subseteq Entries(vol) \cup {f}
      BY <2>3, <3>1 DEF NamesOf
    <3>3. \A g \in Entries(vol) : vol.table[g].lnk = 1 \/ GaveUp(g)'
      BY <1>1, <1>4, CachedBetween
    <3>4. \A j \in DOMAIN r : r[j].w = "dir" => r[j].len = L + 1 /\ r[j].slot = new
      BY <2>1, <2>2
    <3>5. r[i].i = 1 \/ \E j \in 1..(i - 1) : r[j].w = "dir" /\ r[j].i = 1
      BY <2>1, <2>4
    <3>6. QED
      BY <1>4, <2>3, <3>1, <3>2, <3>3, <3>4, <3>5
  <2>5. vol' = vol
    BY <1>1
  <2>6. QED
    BY <1>2, <1>3, <2>4, <2>5 DEF DirsDue
<1>10. NameFirst'
  BY <1>2, <1>3, <1>6 DEF NameFirst
<1>11. CachedOwned'
  BY <1>1, <1>2, <1>4, CachedBetween DEF CachedOwned
<1>12. Sound(vol.root.len, vol.root.slot, cut)' /\ EntriesTaken' /\ TwiceGave'
  BY <1>1, SameDevice
<1>13. QED
  BY <1>7, <1>8, <1>9, <1>10, <1>11, <1>12 DEF DirInv

\* A write starts.
LEMMA ExtendsDir ==
  ASSUME TypeOK, TypeOK', DirInv, [Next]_vars, NEW f, NEW n, NEW m, Extends(f, n, m)
  PROVE  DirInv'
<1>1. PICK l, ps : l = NewList(f, n) /\ ps = NewOnes(f, n)
  OBVIOUS
<1>2. /\ todo = <<>> /\ f \in File /\ f \in Entries(vol) /\ n \in Nat /\ m \in Nat
      /\ FreeOnes(ps, m) /\ Longer(l, f, ps, m) /\ WriteQueue(todo', f, n, l, ps, m)
      /\ seqs' = [seqs EXCEPT ![f] = l]
      /\ busy' = IF todo' = <<>> THEN Idle ELSE <<"write", f>>
      /\ vol' = vol
  BY <1>1 DEF Extends
<1>3. seqs' \in [File -> Seq(BlkInfo)] /\ seqs'[f] = l /\ \A g \in File : g # f => seqs'[g] = seqs[g]
  BY <1>2 DEF TypeOK
<1>4. PICK r \in Seq(Writes) : r = todo'
  BY DEF TypeOK
<1>5. \A i \in DOMAIN r :
           \/ i \in 1..(2 * m) /\ ReservesAt(r, f, ps, m, i)
           \/ ListsAt(r, f, ps, m, i)
           \/ i > 3 * m /\ PaysAt(r, f, n, l, i)
  BY <1>2, <1>4, WritePlaces
<1>6. PICK len \in Nat : /\ len = Len(seqs[f]) /\ DOMAIN seqs[f] = 1..len /\ DOMAIN l = 1..(len + m)
                         /\ \A k \in 1..len : l[k] = seqs[f][k]
                         /\ \A k \in 1..m : l[len + k].at = ps[k]
  <2>1. seqs[f] \in Seq(BlkInfo)
    BY <1>2, StateTyped
  <2>2. PICK len \in Nat : len = Len(seqs[f]) /\ DOMAIN seqs[f] = 1..len
    BY <2>1
  <2>3. /\ DOMAIN l = 1..(len + m)
        /\ \A k \in 1..len : l[k] = seqs[f][k]
        /\ \A k \in 1..m : l[len + k] = [at |-> ps[k], num |-> len + k - 1]
    BY <1>2, <2>2 DEF Longer
  <2>4. ASSUME NEW k \in 1..m PROVE l[len + k].at = ps[k]
    <3>1. PICK y, z, x : y = ps[k] /\ z = len + k - 1 /\ x = l[len + k]
      OBVIOUS
    <3>2. x = [at |-> y, num |-> z]
      BY <2>3, <3>1
    <3>3. x.at = y
      BY <3>2
    <3>4. QED
      BY <3>1, <3>3
  <2>5. QED
    BY <2>2, <2>3, <2>4
<1>7. \A k \in 1..m : r[2 * k - 1] = Own(ps[k], f, Len(seqs[f]) + k - 1) /\ 2 * k - 1 \in DOMAIN r
  <2>1. PICK q \in Nat : Len(r) = 3 * m + q
    BY <1>2, <1>4 DEF WriteQueue
  <2>2. DOMAIN r = 1..(3 * m + q)
    BY <2>1
  <2>3. \A k \in 1..m : 2 * k - 1 \in 1..(3 * m + q)
    BY <1>2
  <2>4. QED
    BY <1>2, <1>4, <2>2, <2>3 DEF WriteQueue
<1>75. \A g : NamedTwice(g) => NamedTwice(g)'
  BY CutGrows DEF NamedTwice
<1>8. ASSUME NEW k \in DOMAIN l
      PROVE  \/ NamedTwice(f)
             \/ vol.ctab[l[k].at].fid = f
             \/ \E j \in 1..m : l[k].at = ps[j]
  <2>1. CASE k \in 1..len
    BY <1>2, <1>6, <2>1, CachedBetween
  <2>2. CASE k \notin 1..len
    <3>1. k - len \in 1..m /\ len + (k - len) = k
      BY <1>2, <1>6, <2>2
    <3>2. l[len + (k - len)].at = ps[k - len]
      BY <1>6, <3>1
    <3>3. QED
      BY <3>1, <3>2
  <2>3. QED
    BY <2>1, <2>2
<1>9. ASSUME NEW i \in DOMAIN r
      PROVE  /\ r[i].w \in {"own", "drop", "take", "list", "release"} => r[i].f = f
             /\ r[i].w = "own" => vol.ctab[r[i].p].fid \in {0, f}
             /\ r[i].w \in {"own", "bit", "list", "data", "size"}
             /\ r[i].w \in {"data", "size"} => i > 3 * m /\ \E j \in Nat : Has(l, j) /\ r[i].p = Found(l, j)
  <2>1. CASE ReservesAt(r, f, ps, m, i)
    <3>1. CASE \E k \in 1..m : r[i] = Own(ps[k], f, Len(seqs[f]) + k - 1)
      <4>1. PICK k \in 1..m : r[i] = Own(ps[k], f, Len(seqs[f]) + k - 1)
        BY <3>1
      <4>2. r[i].w = "own" /\ r[i].p = ps[k] /\ r[i].f = f
        BY <4>1, FieldsAre
      <4>3. vol.ctab[ps[k]].fid = 0
        BY <1>2 DEF FreeOnes
      <4>4. QED
        BY <4>2, <4>3
    <3>2. CASE \E k \in 1..m : r[i] = Bit(ps[k][1])
      BY <3>2, FieldsAre
    <3>3. QED
      BY <2>1, <3>1, <3>2 DEF ReservesAt
  <2>2. CASE ListsAt(r, f, ps, m, i)
    BY <2>2, FieldsAre DEF ListsAt
  <2>3. CASE i > 3 * m /\ PaysAt(r, f, n, l, i)
    <3>1. PICK j \in Nat : Has(l, j) /\ (r[i] = Data(Found(l, j), Tag(f, j)) \/ r[i] = Size(Found(l, j), n))
      BY <2>3 DEF PaysAt
    <3>2. r[i].w \in {"data", "size"} /\ r[i].p = Found(l, j)
      BY <3>1, PayFields
    <3>3. QED
      BY <2>3, <3>1, <3>2
  <2>4. ReservesAt(r, f, ps, m, i) \/ ListsAt(r, f, ps, m, i) \/ (i > 3 * m /\ PaysAt(r, f, n, l, i))
    BY <1>5
  <2>5. QED
    BY <2>1, <2>2, <2>3, <2>4
<1>10. DOMAIN r # {} => Target' = f /\ busy' = <<"write", f>>
  BY <1>2, <1>4 DEF Target
<1>11. ForTarget'
  <2>1. ASSUME NEW i \in DOMAIN r
        PROVE  /\ r[i].w \in {"own", "drop", "take", "list", "release"} => r[i].f = Target'
               /\ r[i].w = "own" => vol.ctab[r[i].p].fid \in {0, Target'}
               /\ r[i].w \notin {"drop", "release", "take"} /\ busy'[1] # "unlink"
    BY <1>9, <1>10
  <2>2. QED
    BY <1>2, <1>4, <2>1 DEF ForTarget
<1>12. ToOwned'
  <2>1. ASSUME NEW i \in DOMAIN r, r[i].w \in {"head", "data", "size"}
        PROVE  \/ NamedTwice(f)
               \/ vol.ctab[r[i].p].fid = f
               \/ \E j \in 1..(i - 1) : r[j].w = "own" /\ r[j].p = r[i].p
    <3>1. PICK j \in Nat : i > 3 * m /\ Has(l, j) /\ r[i].p = Found(l, j)
      BY <1>9, <2>1
    <3>2. l \in Seq(BlkInfo)
      BY <1>2 DEF Longer
    <3>3. PICK k \in DOMAIN l : Found(l, j) = l[k].at
      BY <3>1, <3>2, FoundIs
    <3>4. ASSUME NEW x \in 1..m, l[k].at = ps[x]
          PROVE  \E y \in 1..(i - 1) : r[y].w = "own" /\ r[y].p = r[i].p
      <4>1. 2 * x - 1 \in 1..(i - 1)
        <5>1. i \in Int
          BY <1>4
        <5>2. QED
          BY <1>2, <3>1, <5>1
      <4>2. r[2 * x - 1].w = "own" /\ r[2 * x - 1].p = ps[x]
        <5>1. r[2 * x - 1] = Own(ps[x], f, Len(seqs[f]) + x - 1)
          BY <1>7
        <5>2. QED
          BY <5>1, FieldsAre
      <4>3. QED
        BY <3>1, <3>3, <3>4, <4>1, <4>2
    <3>5. QED
      BY <1>8, <3>1, <3>3, <3>4
  <2>2. QED
    BY <1>2, <1>4, <1>75, <1>10, <2>1 DEF ToOwned
<1>13. DirsDue'
  BY <1>4, <1>9 DEF DirsDue
<1>14. NameFirst'
  <2>1. busy'[1] # "unlink"
    BY <1>2 DEF Idle
  <2>2. QED
    BY <1>4, <1>9, <2>1 DEF NameFirst
<1>15. CachedOwned'
  <2>1. busy'[1] # "create"
    BY <1>2 DEF Idle
  <2>2. ASSUME NEW g \in Entries(vol), ~NamedTwice(g), NEW k \in DOMAIN seqs'[g]
        PROVE  \/ vol.ctab[seqs'[g][k].at].fid = g
               \/ g = Target' /\ \E j \in DOMAIN r : r[j].w = "own" /\ r[j].p = seqs'[g][k].at
    <3>1. CASE g # f
      BY <1>2, <1>3, <2>2, <3>1, CachedBetween
    <3>2. CASE g = f
      <4>1. k \in DOMAIN l /\ seqs'[g][k] = l[k]
        BY <1>3, <2>2, <3>2
      <4>2. ASSUME NEW j \in 1..m, l[k].at = ps[j]
            PROVE  g = Target' /\ \E x \in DOMAIN r : r[x].w = "own" /\ r[x].p = l[k].at
        <5>1. 2 * j - 1 \in DOMAIN r /\ r[2 * j - 1].w = "own" /\ r[2 * j - 1].p = ps[j]
          BY <1>7, OwnFields
        <5>2. QED
          BY <1>10, <3>2, <4>2, <5>1
      <4>3. QED
        BY <1>8, <2>2, <3>2, <4>1, <4>2
    <3>3. QED
      BY <3>1, <3>2
  <2>3. QED
    BY <1>2, <1>4, <1>75, <2>1, <2>2 DEF CachedOwned
<1>16. Sound(vol.root.len, vol.root.slot, cut)' /\ EntriesTaken' /\ TwiceGave'
  BY <1>2, SameDevice
<1>17. QED
  BY <1>11, <1>12, <1>13, <1>14, <1>15, <1>16 DEF DirInv

\* What is left of the listing of a sound directory when f goes: the entries, f
\* only if it was named twice.
LEMMA WithoutSound ==
  ASSUME TypeOK, Sound(vol.root.len, vol.root.slot, cut), NEW f \in File, f \in Entries(vol)
  PROVE  /\ Sound(vol.root.len - 1, Without(f), cut)
         /\ \A s \in 1..(vol.root.len - 1) :
              Without(f)[s] \in Entries(vol) /\ (Without(f)[s] = f => NamedTwice(f))
<1>1. PICK n \in Nat \ {0} : n = vol.root.len
  BY WithoutIs
<1>2. PICK at \in 1..n :
        /\ vol.root.slot[at] = f
        /\ \A s \in 1..(n - 1) : Without(f)[s] = IF s = at THEN vol.root.slot[n] ELSE vol.root.slot[s]
  BY <1>1, WithoutIs
<1>3. /\ \A s \in 1..n : vol.root.slot[s] \in File
      /\ \A s, t \in 1..n : vol.root.slot[s] = vol.root.slot[t] => s = t \/ NamedTwice(vol.root.slot[s])
  BY <1>1 DEF Sound, NamedTwice
<1> DEFINE from(s) == IF s = at THEN n ELSE s
<1>4. ASSUME NEW s \in 1..(n - 1) PROVE from(s) \in 1..n /\ from(s) # at /\ Without(f)[s] = vol.root.slot[from(s)]
  <2>1. s \in 1..n /\ s # n /\ n \in 1..n
    BY <1>1
  <2>2. QED
    BY <1>2, <2>1
<1>5. \A s, t \in 1..(n - 1) : from(s) = from(t) => s = t
  BY <1>1
<1> HIDE DEF from
<1>6. \A s \in 1..n : vol.root.slot[s] \in Entries(vol)
  <2>1. 0 \notin File
    BY DEF File
  <2>2. QED
    BY <1>1, <1>3, <2>1 DEF Entries
<1>7. ASSUME NEW s \in 1..(n - 1) PROVE /\ Without(f)[s] \in Entries(vol) /\ Without(f)[s] \in File
                                        /\ Without(f)[s] = f => NamedTwice(f)
  <2>1. from(s) \in 1..n /\ from(s) # at /\ Without(f)[s] = vol.root.slot[from(s)]
    BY <1>4
  <2>2. vol.root.slot[from(s)] = f => NamedTwice(f)
    BY <1>2, <1>3, <2>1
  <2>3. QED
    BY <1>3, <1>6, <2>1, <2>2
<1>8. ASSUME NEW s \in 1..(n - 1), NEW t \in 1..(n - 1), Without(f)[s] = Without(f)[t]
      PROVE  s = t \/ NamedTwice(Without(f)[s])
  <2>1. from(s) = from(t) \/ NamedTwice(Without(f)[s])
    BY <1>3, <1>4, <1>8
  <2>2. QED
    BY <1>5, <2>1
<1>9. QED
  BY <1>1, <1>7, <1>8 DEF Sound, NamedTwice

\* A removal starts.
LEMMA UnlinksDir ==
  ASSUME TypeOK, TypeOK', DirInv, [Next]_vars, NEW f, Unlinks(f)
  PROVE  DirInv'
<1>1. /\ todo = <<>> /\ f \in File /\ f \in Entries(vol)
      /\ UnlinkQueue(todo', f) /\ todo' # <<>> /\ busy' = <<"unlink", f>>
      /\ vol' = vol /\ seqs' = seqs /\ cut' = cut
  BY DEF Unlinks
<1>2. Target' = f /\ busy'[1] = "unlink"
  BY <1>1 DEF Target
<1>3. PICK r \in Seq(Writes) : r = todo'
  BY DEF TypeOK
<1>4. PICK m \in Nat, new \in [RootSlot -> 0..(NF - 1)] :
         /\ DOMAIN r = 1..(2 * m + BPC + 1)
         /\ \A i \in DOMAIN r : r[i].w \in {"drop", "bit", "dir", "release"}
         /\ \A i \in DOMAIN r : r[i].w \in {"drop", "release"} => r[i].f = f
         /\ \A i \in DOMAIN r : r[i].w = "dir" => i - 2 * m \in 1..BPC
         /\ \A i \in DOMAIN r : r[i].w = "release" => i = 2 * m + BPC + 1
         /\ \A i \in 1..BPC : r[2 * m + i] = Dir(i, vol.root.len - 1, new)
         /\ \A s \in RootSlot : s <= vol.root.len - 1 => new[s] = Without(f)[s]
  <2>0. PICK m \in Nat : \E cl \in [1..m -> Cluster] :
    /\ r \in Seq(Writes) /\ Len(r) = 2 * m + BPC + 1
    /\ \A i \in 1..(2 * m) : \E k \in 1..m : i = 2 * k - 1 \/ i = 2 * k
    /\ \A k \in 1..m : r[2 * k - 1] = Drop(cl[k], f) /\ r[2 * k] = Bit(cl[k])
    /\ \E new \in [RootSlot -> 0..(NF - 1)] :
         /\ \A i \in 1..BPC : r[2 * m + i] = Dir(i, vol.root.len - 1, new)
         /\ \A s \in RootSlot : s <= vol.root.len - 1 => new[s] = Without(f)[s]
    /\ r[2 * m + BPC + 1] = Release(f)
    BY <1>1, <1>3 DEF UnlinkQueue
  <2>1. PICK cl \in [1..m -> Cluster] :
    /\ r \in Seq(Writes) /\ Len(r) = 2 * m + BPC + 1
    /\ \A i \in 1..(2 * m) : \E k \in 1..m : i = 2 * k - 1 \/ i = 2 * k
    /\ \A k \in 1..m : r[2 * k - 1] = Drop(cl[k], f) /\ r[2 * k] = Bit(cl[k])
    /\ \E new \in [RootSlot -> 0..(NF - 1)] :
         /\ \A i \in 1..BPC : r[2 * m + i] = Dir(i, vol.root.len - 1, new)
         /\ \A s \in RootSlot : s <= vol.root.len - 1 => new[s] = Without(f)[s]
    /\ r[2 * m + BPC + 1] = Release(f)
    BY <2>0
  <2>2. PICK new \in [RootSlot -> 0..(NF - 1)] :
         /\ \A i \in 1..BPC : r[2 * m + i] = Dir(i, vol.root.len - 1, new)
         /\ \A s \in RootSlot : s <= vol.root.len - 1 => new[s] = Without(f)[s]
    BY <2>1
  <2>3. DOMAIN r = 1..(2 * m + BPC + 1)
    BY <2>1
  <2>4. \A i \in 1..(2 * m + BPC + 1) : i \in 1..(2 * m) \/ (i - 2 * m \in 1..BPC /\ 2 * m + (i - 2 * m) = i) \/ i = 2 * m + BPC + 1
    BY Sizes
  <2>5. ASSUME NEW i \in 1..(2 * m) PROVE r[i].w \in {"drop", "bit"} /\ (r[i].w = "drop" => r[i].f = f)
    <3>1. PICK k \in 1..m : i = 2 * k - 1 \/ i = 2 * k
      BY <2>1
    <3>2. r[i] = Drop(cl[k], f) \/ r[i] = Bit(cl[k])
      BY <2>1, <3>1
    <3>3. QED
      BY <3>2, FieldsAre
  <2>6. ASSUME NEW i \in 1..(2 * m + BPC + 1), i - 2 * m \in 1..BPC, 2 * m + (i - 2 * m) = i PROVE r[i].w = "dir"
    <3>1. PICK k, v : k = i - 2 * m /\ v = r[2 * m + k] /\ v = r[i]
      BY <2>6
    <3>2. v = Dir(k, vol.root.len - 1, new)
      BY <2>2, <2>6, <3>1
    <3>3. v.w = "dir"
      BY <3>2, DirFields
    <3>4. QED
      BY <3>1, <3>3
  <2>7. r[2 * m + BPC + 1].w = "release" /\ r[2 * m + BPC + 1].f = f
    <3>1. PICK v : v = r[2 * m + BPC + 1]
      OBVIOUS
    <3>2. v = Release(f)
      BY <2>1, <3>1
    <3>3. v.w = "release" /\ v.f = f
      BY <3>2, FieldsAre
    <3>4. QED
      BY <3>1, <3>3
  <2>8. ASSUME NEW i \in DOMAIN r
        PROVE  /\ r[i].w \in {"drop", "bit", "dir", "release"}
               /\ r[i].w \in {"drop", "release"} => r[i].f = f
               /\ r[i].w = "dir" => i - 2 * m \in 1..BPC
               /\ r[i].w = "release" => i = 2 * m + BPC + 1
    BY <2>3, <2>4, <2>5, <2>6, <2>7
  <2>9. QED
    BY <2>2, <2>3, <2>8
<1>5. ForTarget'
  <2>1. ASSUME NEW i \in DOMAIN r
        PROVE  /\ r[i].w \in {"own", "drop", "take", "list", "release"} => r[i].f = f
               /\ r[i].w \notin {"own", "list", "take", "head", "data", "size"}
    BY <1>4
  <2>2. QED
    BY <1>2, <1>3, <2>1 DEF ForTarget
<1>6. ToOwned'
  BY <1>3, <1>4 DEF ToOwned
<1>7. PICK L : L = vol.root.len - 1
  OBVIOUS
<1>8. r[2 * m + 1].w = "dir" /\ r[2 * m + 1].i = 1 /\ 2 * m + 1 \in DOMAIN r
  <2>1. 1 \in 1..BPC /\ 2 * m + 1 \in 1..(2 * m + BPC + 1)
    BY Sizes
  <2>2. PICK v : v = r[2 * m + 1]
    OBVIOUS
  <2>3. v = Dir(1, vol.root.len - 1, new)
    BY <1>4, <2>1, <2>2
  <2>4. v.w = "dir" /\ v.i = 1
    BY <2>3, FieldsAre
  <2>5. QED
    BY <1>4, <2>1, <2>2, <2>4
<1>9. DirsDue'
  <2>1. /\ Sound(L, Without(f), cut)
        /\ \A s \in 1..L : Without(f)[s] \in Entries(vol) /\ (Without(f)[s] = f => NamedTwice(f))
    BY <1>1, <1>7, WithoutSound DEF DirInv
  <2>2. \A s \in 1..L : new[s] = Without(f)[s]
    <3>1. PICK n \in Nat : n = vol.root.len /\ \A s \in 1..n : s \in RootSlot
      BY RootSlots
    <3>2. \A s \in 1..(n - 1) : s \in 1..n /\ s <= n - 1
      BY <3>1
    <3>3. QED
      BY <1>4, <1>7, <3>1, <3>2
  <2>3. Sound(L, new, cut) /\ \A s \in 1..L : new[s] \in Entries(vol) /\ (new[s] = f => NamedTwice(f))
    BY <2>1, <2>2 DEF Sound
  <2>4. ASSUME NEW i \in DOMAIN r, r[i].w = "dir" PROVE r[i].len = L /\ r[i].slot = new /\ r[i].i = i - 2 * m
    <3>1. i - 2 * m \in 1..BPC
      BY <1>4, <2>4
    <3>2. 2 * m + (i - 2 * m) = i
      BY <1>4
    <3>3. PICK k, v : k = i - 2 * m /\ v = r[2 * m + k] /\ v = r[i]
      BY <3>2
    <3>4. v = Dir(k, L, new)
      BY <1>4, <1>7, <3>1, <3>3
    <3>5. v.len = L /\ v.slot = new /\ v.i = k
      BY <3>4, FieldsAre
    <3>6. QED
      BY <3>3, <3>5
  <2>5. ASSUME NEW i \in DOMAIN r, r[i].w = "dir"
        PROVE  /\ Sound(r[i].len, r[i].slot, cut)
               /\ \A g \in NamesOf(r[i]) : vol.table[g].lnk = 1 \/ GaveUp(g)
               /\ NamesOf(r[i]) \subseteq Entries(vol) /\ (f \in NamesOf(r[i]) => NamedTwice(f))
               /\ \A j \in DOMAIN r : r[j].w = "dir" => r[j].len = r[i].len /\ r[j].slot = r[i].slot
               /\ \/ r[i].i = 1
                  \/ \E j \in 1..(i - 1) : r[j].w = "dir" /\ r[j].i = 1
    <3>1. r[i].len = L /\ r[i].slot = new /\ r[i].i = i - 2 * m
      BY <2>4, <2>5
    <3>2. NamesOf(r[i]) \subseteq Entries(vol) /\ (f \in NamesOf(r[i]) => NamedTwice(f))
      BY <2>3, <3>1 DEF NamesOf
    <3>3. \A g \in Entries(vol) : vol.table[g].lnk = 1 \/ GaveUp(g)
      BY <1>1, CachedBetween
    <3>4. i - 2 * m = 1 \/ 2 * m + 1 \in 1..(i - 1)
      <4>1. i - 2 * m \in 1..BPC /\ i \in Int
        BY <1>4, <2>5
      <4>2. QED
        BY <1>4, <4>1
    <3>5. QED
      BY <1>8, <2>3, <2>4, <3>1, <3>2, <3>3, <3>4
  <2>6. QED
    BY <1>1, <1>2, <1>3, <2>5 DEF DirsDue, NamedTwice, GaveUp
<1>10. NameFirst'
  <2>1. ASSUME NEW i \in DOMAIN r, r[i].w = "release" PROVE 2 * m + 1 \in 1..(i - 1)
    <3>1. i = 2 * m + BPC + 1
      BY <1>4, <2>1
    <3>2. QED
      BY <1>4, <3>1, Sizes
  <2>2. QED
    BY <1>1, <1>2, <1>3, <1>8, <2>1 DEF NameFirst
<1>11. CachedOwned'
  <2>1. \A g \in Entries(vol) : NamedTwice(g) \/ \A k \in DOMAIN seqs[g] : vol.ctab[seqs[g][k].at].fid = g
    BY <1>1, CachedBetween
  <2>2. QED
    BY <1>1, <1>2, <2>1 DEF CachedOwned, NamedTwice
<1>12. Sound(vol.root.len, vol.root.slot, cut)' /\ EntriesTaken' /\ TwiceGave'
  BY <1>1, SameDevice
<1>13. QED
  BY <1>5, <1>6, <1>9, <1>10, <1>11, <1>12 DEF DirInv

\* A mount finds the listing as it was, and what it names taken.
LEMMA MountsDir ==
  ASSUME TypeOK, DirInv, SavedInv, [Next]_vars, Crash \/ Remount
  PROVE  DirInv'
<1>1. /\ seqs' = [f \in File |-> <<>>] /\ todo' = <<>> /\ busy' = Idle /\ vol' = OnDevice
  BY DEF Crash, Remount, Mounted
<1>2. PICK o : o = OnDevice /\ vol' = o /\ o.table = saved.table /\ o.root = vol.root /\ o.ctab = vol.ctab
  BY <1>1, MountIs
<1>3. Entries(o) = Entries(vol)
  BY <1>2 DEF Entries
<1>4. \A g \in Entries(vol) : g \in File
  BY DEF DirInv, Sound, Entries
<1>5. /\ cut \subseteq cut'
      /\ \A g : NamedTwice(g)' => NamedTwice(g) \/ (g \in Entries(vol) /\ vol.table[g].lnk = 0)
  BY CutGrows
<1>6. \A g : GaveUp(g) => GaveUp(g)'
  BY <1>5 DEF GaveUp
<1>7. Sound(vol.root.len, vol.root.slot, cut)'
  <2>1. Sound(vol.root.len, vol.root.slot, cut')
    BY <1>5, SoundStays DEF DirInv
  <2>2. Sound(o.root.len, o.root.slot, cut')
    BY <1>2, <2>1
  <2>3. QED
    BY <1>2, <2>2
<1>8. EntriesTaken'
  <2>1. ASSUME NEW g \in Entries(o) PROVE GaveUp(g) \/ o.table[g].lnk # 0
    <3>1. g \in File /\ (GaveUp(g) \/ vol.table[g].lnk # 0)
      BY <1>3, <1>4, <2>1 DEF DirInv, EntriesTaken
    <3>2. GaveUp(g) \/ saved.table[g] = vol.table[g]
      BY <3>1 DEF SavedInv, SavedTables
    <3>3. QED
      BY <1>2, <3>1, <3>2
  <2>2. QED
    BY <1>2, <1>6, <2>1 DEF EntriesTaken
<1>9. TwiceGave'
  <2>1. \A f \in File : NamedTwice(f)' => GaveUp(f)
    BY <1>5 DEF DirInv, TwiceGave, EntriesTaken
  <2>2. QED
    BY <1>6, <2>1 DEF TwiceGave
<1>10. \A g \in Entries(vol') : seqs'[g] = <<>>
  BY <1>1, <1>2, <1>3, <1>4
<1>11. \A g \in Entries(vol') : NamedTwice(g)' \/ \A k \in DOMAIN seqs'[g] : vol'.ctab[seqs'[g][k].at].fid = g
  BY <1>10
<1>12. QED
  BY <1>1, <1>7, <1>8, <1>9, <1>11, DirInvAtRest

\* The list of a file that is built has the file's blocks.
LEMMA GetsDir ==
  ASSUME TypeOK, DirInv, [Next]_vars, NEW f, Gets(f)
  PROVE  DirInv'
<1>1. /\ todo = <<>> /\ todo' = <<>> /\ vol' = vol /\ cut' = cut /\ f \in File
      /\ seqs' = [seqs EXCEPT ![f] = BlocksOf(vol, f)] /\ busy' = busy
  BY DEF Gets
<1>2. busy' = Idle
  BY <1>1 DEF TypeOK
<1>3. ASSUME NEW g \in Entries(vol), ~NamedTwice(g), NEW k \in DOMAIN seqs'[g] PROVE vol.ctab[seqs'[g][k].at].fid = g
  <2>1. CASE g = f
    <3>1. seqs'[g] = BlocksOf(vol, f)
      BY <1>1, <2>1 DEF TypeOK
    <3>2. QED
      BY <1>1, <1>3, <2>1, <3>1, BlocksOfAre, StateTyped
  <2>2. CASE g # f
    <3>1. g \in File
      BY <1>1, CachedBetween
    <3>2. seqs'[g] = seqs[g]
      BY <1>1, <2>2, <3>1 DEF TypeOK
    <3>3. QED
      BY <1>1, <1>3, <3>2, CachedBetween
  <2>3. QED
    BY <2>1, <2>2
<1>4. Sound(vol.root.len, vol.root.slot, cut)' /\ EntriesTaken' /\ TwiceGave'
  BY <1>1, SameDevice
<1>5. \A g \in Entries(vol') : NamedTwice(g)' \/ \A k \in DOMAIN seqs'[g] : vol'.ctab[seqs'[g][k].at].fid = g
  BY <1>1, <1>3 DEF NamedTwice
<1>6. QED
  BY <1>1, <1>2, <1>4, <1>5, DirInvAtRest

\* Each step keeps the invariant, as long as the listing fits.
LEMMA DirStep ==
  ASSUME TypeOK, TypeOK', DirInv, SavedInv, [Next]_vars, FirstBlockOnly, FirstBlockOnly'
  PROVE  DirInv'
<1>1. CASE Loses \/ UNCHANGED vars
  <2>1. vol' = vol /\ seqs' = seqs /\ todo' = todo /\ busy' = busy /\ cut' = cut
    BY <1>1 DEF Loses, Rest, vars
  <2>2. QED
    BY <2>1 DEF DirInv, Sound, EntriesTaken, TwiceGave, NamedTwice, GaveUp,
                ForTarget, ToOwned, DirsDue, NameFirst, CachedOwned, Target
<1>2. CASE Write
  <2>1. ForTarget' /\ ToOwned' /\ DirsDue' /\ NameFirst' /\ CachedOwned'
    BY <1>2, ForTargetKept, ToOwnedKept, DirsDueKept, NameFirstKept, CachedOwnedKept DEF DirInv
  <2>2. EntriesTaken' /\ Sound(vol.root.len, vol.root.slot, cut)'
    BY <1>2, EntriesKept DEF DirInv
  <2>3. TwiceGave'
    <3>1. cut' = cut
      BY <1>2 DEF Write
    <3>2. QED
      BY <3>1 DEF DirInv, TwiceGave, NamedTwice, GaveUp
  <2>4. QED
    BY <2>1, <2>2, <2>3 DEF DirInv
<1>3. QED
  BY <1>1, <1>2, CreatesDir, GivesUpDir, GetsDir, ExtendsDir, UnlinksDir, MountsDir, StepIs

\* The formatted volume has an empty listing.
LEMMA DirInit ==
  ASSUME Init
  PROVE  DirInv
<1>1. todo = <<>> /\ busy = Idle /\ vol = Formatted /\ vol.root.len = 0 /\ cut = {}
  BY DEF Init, Formatted
<1>2. Entries(vol) = {}
  BY <1>1 DEF Entries
<1>3. Sound(vol.root.len, vol.root.slot, cut)
  BY <1>1 DEF Sound
<1>4. DOMAIN todo = {} /\ busy[1] = "idle"
  BY <1>1 DEF Idle
<1>5. TwiceGave
  BY <1>1 DEF TwiceGave, NamedTwice
<1>6. QED
  BY <1>2, <1>3, <1>4, <1>5 DEF DirInv, EntriesTaken, ForTarget, ToOwned, DirsDue, NameFirst, CachedOwned

\* What the process has of a named file is what the device has, but for a file
\* whose creation got no block.
LEMMA EntriesSaved ==
  ASSUME TypeOK, DirInv, SavedInv
  PROVE  EntriesAllocated
<1>1. SUFFICES ASSUME NEW f \in Entries(vol), ~GaveUp(f) PROVE saved.table[f].lnk # 0
  BY DEF EntriesAllocated
<1>2. f \in File
  BY <1>1 DEF DirInv, Sound, Entries
<1>3. vol.table[f].lnk # 0
  BY <1>1 DEF DirInv, EntriesTaken
<1>4. saved.table[f] = vol.table[f]
  BY <1>1, <1>2 DEF SavedInv, SavedTables
<1>5. QED
  BY <1>3, <1>4

\* As long as the entries lie in the first block of the directory, each names an
\* identifier that is taken, wherever a request was cut: table first, then the
\* directory (dev_file_alloc), and the other way around (dev_rm_file); but for an
\* identifier a creation got no block for, whose entry dev_create_file writes
\* although no write of the table came first.
THEOREM CrashEntries == Spec /\ []FirstBlockOnly => []EntriesAllocated
<1>1. Init => TypeOK /\ SavedInv /\ DirInv
  BY TypeInit, SavedInit, DirInit
<1>2. TypeOK /\ SavedInv /\ DirInv /\ [Next]_vars /\ FirstBlockOnly /\ FirstBlockOnly' => (TypeOK /\ SavedInv /\ DirInv)'
  BY TypeStep, SavedStep, DirStep
<1>3. TypeOK /\ SavedInv /\ DirInv => EntriesAllocated
  BY EntriesSaved
<1>4. QED
  BY <1>1, <1>2, <1>3, PTL DEF Spec

\* Only the writes of a request, and what a mount reads of table and bitmap, change
\* the volume.
LEMMA OnlyWrites ==
  ASSUME TypeOK, [Next]_vars
  PROVE  \/ vol' = vol /\ saved' = saved
         \/ vol' = OnDevice /\ saved' = saved
         \/ Write
<1>1. CASE Loses \/ UNCHANGED vars
  BY <1>1 DEF Loses, Rest, vars
<1>2. \A f, c, b : Creates(f, c, b) => vol' = vol /\ saved' = saved
  BY DEF Creates
<1>3. \A f : GivesUp(f) => vol' = vol /\ saved' = saved
  BY DEF GivesUp
<1>4. \A f : Gets(f) => vol' = vol /\ saved' = saved
  BY DEF Gets
<1>5. \A f, n, m : Extends(f, n, m) => vol' = vol /\ saved' = saved
  BY DEF Extends
<1>6. \A f : Unlinks(f) => vol' = vol /\ saved' = saved
  BY DEF Unlinks
<1>7. Crash \/ Remount => vol' = OnDevice /\ saved' = saved
  BY DEF Crash, Remount, Mounted
<1>8. QED
  BY <1>1, <1>2, <1>3, <1>4, <1>5, <1>6, <1>7, StepIs

\* A write of a request leaves the blocks, the list and the bytes of the other
\* named files alone, unless the file of the request is named twice.
LEMMA OthersStep ==
  ASSUME TypeOK, TypeOK', DirInv, SavedInv, SavedInv', [Next]_vars, ~NamedTwice(busy[2])
  PROVE  \A f \in Entries(vol) \ {busy[2]} :
           /\ Owned(f)' = Owned(f)
           /\ ~GaveUp(f) => saved.table[f]' = saved.table[f]
           /\ \A p \in Owned(f) : vol.data[p]' = vol.data[p]
<1>1. CASE vol' = vol /\ saved' = saved
  BY <1>1 DEF Owned
<1>2. CASE vol' = OnDevice /\ saved' = saved
  <2>1. vol'.ctab = vol.ctab /\ vol'.data = vol.data
    BY <1>2, MountIs
  <2>2. QED
    BY <1>2, <2>1 DEF Owned
<1>3. CASE Write
  <2>1. PICK w, d, e : Performs(w, d, e)
    BY <1>3, WritePerforms
  <2>2. /\ w.w \in {"own", "drop", "take", "list", "release"} => w.f = Target
        /\ w.w = "own" => d.ctab[w.p].fid \in {0, Target}
    BY <2>1 DEF DirInv, ForTarget, Performs
  <2>3. w.w \in {"head", "data", "size"} => d.ctab[w.p].fid = Target
    <3>1. \A j \in 1..(1 - 1) : FALSE
      OBVIOUS
    <3>2. ~NamedTwice(Target)
      BY DEF Target
    <3>3. w.w \in {"head", "data", "size"} =>
            \/ d.ctab[w.p].fid = Target
            \/ \E j \in 1..(1 - 1) : todo[j].w = "own" /\ todo[j].p = w.p
      BY <2>1, <3>2 DEF DirInv, ToOwned, Performs
    <3>4. QED
      BY <3>1, <3>3
  <2>4. ASSUME NEW f \in Entries(d), f # Target
        PROVE  /\ \A p \in Block : e.ctab[p].fid = f <=> d.ctab[p].fid = f
               /\ ~GaveUp(f) => saved'.table[f] = saved.table[f]
               /\ \A p \in Block : d.ctab[p].fid = f => e.data[p] = d.data[p]
    <3>1. f \in File /\ f # 0
      BY <2>1, <2>4 DEF DirInv, Sound, Entries, Performs
    <3>2. ASSUME NEW p \in Block PROVE e.ctab[p].fid = f <=> d.ctab[p].fid = f
      <4>1. \/ e.ctab[p] = d.ctab[p]
            \/ w.w = "own" /\ p = w.p /\ e.ctab[p].fid = w.f
            \/ w.w = "drop" /\ d.ctab[p].fid = w.f /\ e.ctab[p].fid = 0
        BY <2>1, OwnerAfter DEF Performs
      <4>2. QED
        BY <2>2, <2>4, <3>1, <4>1
    <3>3. e.table[f] = d.table[f]
      BY <2>1, <2>2, <2>4, <3>1, TableAfter DEF Performs
    <3>4. ASSUME ~GaveUp(f) PROVE saved'.table[f] = saved.table[f]
      <4>1. saved.table[f] = d.table[f]
        BY <2>1, <3>1, <3>4 DEF SavedInv, SavedTables, Performs
      <4>2. ~GaveUp(f)'
        BY <2>1, <3>4 DEF GaveUp, Performs
      <4>3. saved'.table[f] = e.table[f]
        BY <2>1, <3>1, <4>2 DEF SavedInv, SavedTables, Performs
      <4>4. QED
        BY <3>3, <4>1, <4>3
    <3>5. ASSUME NEW p \in Block, d.ctab[p].fid = f PROVE e.data[p] = d.data[p]
      <4>1. w.w \notin {"head", "data", "size"} \/ p # w.p
        BY <2>3, <2>4, <3>5
      <4>2. QED
        BY <2>1, <4>1, DataAfter DEF Performs
    <3>6. QED
      BY <3>2, <3>4, <3>5
  <2>5. QED
    BY <2>1, <2>4 DEF Owned, Performs, Target
<1>4. QED
  BY <1>1, <1>2, <1>3, OnlyWrites

\* As long as the entries lie in the first block of the directory, a request for
\* one file leaves every other file alone, whatever was cut before, unless that
\* one file is named twice.
THEOREM CrashOthers == Spec /\ []FirstBlockOnly => OthersKept
<1>1. Init => TypeOK /\ SavedInv /\ DirInv
  BY TypeInit, SavedInit, DirInit
<1>2. TypeOK /\ SavedInv /\ DirInv /\ [Next]_vars /\ FirstBlockOnly /\ FirstBlockOnly' => (TypeOK /\ SavedInv /\ DirInv)'
  BY TypeStep, SavedStep, DirStep
<1>3. TypeOK /\ SavedInv /\ DirInv /\ TypeOK' /\ SavedInv' /\ [Next]_vars =>
        [~NamedTwice(busy[2]) =>
           \A f \in Entries(vol) \ {busy[2]} :
             /\ Owned(f)' = Owned(f)
             /\ ~GaveUp(f) => saved.table[f]' = saved.table[f]
             /\ \A p \in Owned(f) : vol.data[p]' = vol.data[p]]_vars
  BY OthersStep
<1>4. QED
  BY <1>1, <1>2, <1>3, PTL DEF Spec, OthersKept

-----------------------------------------------------------------------------
(* Files no request of which was cut.                                       *)

Uncut(f) == \A q \in cut : q[2] # f

(* The clusters f lists in memory. *)
Lists(f) == Range(vol.table[f].clrs)

(* Block p is as a file f is to have it that has the blocks DOMAIN u, with the *)
(* numbers u.                                                                *)
BlockAs(d, f, u, p) ==
  /\ d.ctab[p].fid = f <=> p \in DOMAIN u
  /\ p \in DOMAIN u => d.ctab[p].num = u[p]

(* Write w decides whether f has block p. *)
Settles(w, f, p) ==
  \/ w.w = "own" /\ w.f = f /\ w.p = p
  \/ w.w = "drop" /\ w.f = f /\ w.c = p[1]

(* Write w is one on the way to f with the blocks and numbers u, clusters L  *)
(* and a links.                                                              *)
Fits(w, f, u, L, a) ==
  /\ w.w = "own" /\ w.f = f => w.p \in DOMAIN u /\ u[w.p] = w.i
  /\ w.w = "drop" /\ w.f = f => \A p \in DOMAIN u : p[1] # w.c
  /\ w.w = "take" /\ w.f = f => a = 1 /\ L \subseteq {w.c}
  /\ w.w = "release" /\ w.f = f => a = 0
  /\ w.w = "dir" => (f \in NamesOf(w) <=> a = 1)

(* What is not yet so is due. *)
BlocksDue(f, u) ==
  \A p \in Block : BlockAs(vol, f, u, p) \/ \E j \in DOMAIN todo : Settles(todo[j], f, p)
AllFit(f, u, L, a) == \A j \in DOMAIN todo : Fits(todo[j], f, u, L, a)
LinkDue(f, a) ==
  vol.table[f].lnk = a \/ \E j \in DOMAIN todo : todo[j].w \in {"take", "release"} /\ todo[j].f = f
ListsDue(f, L) ==
  \A c \in L : \/ c \in Lists(f)
               \/ \E j \in DOMAIN todo : todo[j].w \in {"take", "list"} /\ todo[j].f = f /\ todo[j].c = c
NameDue(f, a) ==
  \/ f \in Entries(vol) <=> a = 1
  \/ f = Target /\ \E j \in DOMAIN todo : todo[j].w = "dir" /\ todo[j].i = 1

(* The numbers u are 0 .. n - 1, each once. *)
Onto(u, n) ==
  /\ \A p \in DOMAIN u : u[p] \in 0..(n - 1)
  /\ \A i \in 0..(n - 1) : \E p \in DOMAIN u : u[p] = i
  /\ \A p, q \in DOMAIN u : u[p] = u[q] => p = q

(* A file with the blocks and numbers u, clusters L and a links is whole, and *)
(* a cached list l of it is complete.                                         *)
WholeFile(u, L, a, l) ==
  /\ DOMAIN u \subseteq Block
  /\ \E n \in Nat : Onto(u, n) /\ (a = 1 /\ l # <<>> => Len(l) = n)
  /\ \A p \in DOMAIN u : p[1] \in L
  /\ a = 1 \/ DOMAIN u = {}

(* File f gets there by the writes due. *)
Ends(f, u, L, a) ==
  /\ a \in {0, 1} /\ WholeFile(u, L, a, seqs[f])
  /\ BlocksDue(f, u) /\ AllFit(f, u, L, a) /\ LinkDue(f, a) /\ ListsDue(f, L) /\ NameDue(f, a)

(* File f is there. *)
Stands(f, u, L, a) ==
  /\ a \in {0, 1} /\ WholeFile(u, L, a, seqs[f])
  /\ \A p \in Block : BlockAs(vol, f, u, p)
  /\ vol.table[f].lnk = a
  /\ L \subseteq Lists(f)
  /\ f \in Entries(vol) <=> a = 1

(* Every file is whole when what is due is written, unless a request for it   *)
(* was cut.                                                                   *)
FilesWhole == \A f \in File : Uncut(f) => \E u, L, a : Ends(f, u, L, a)

(* No cluster is listed twice. *)
Once(l) == \A i, j \in DOMAIN l : l[i] = l[j] => i = j
ListedOnce == \A f \in File : Once(vol.table[f].clrs) /\ Once(saved.table[f].clrs)

\* Nothing is due for a file that no request is at work on: it is there.
LEMMA EndsStands ==
  ASSUME ForTarget, NEW f \in File, todo = <<>> \/ f # Target, NEW u, NEW L, NEW a, Ends(f, u, L, a)
  PROVE  Stands(f, u, L, a)
<1>1. \A j \in DOMAIN todo : todo[j].w \in {"own", "drop", "take", "list", "release"} => todo[j].f # f
  BY DEF ForTarget
<1>2. \A p \in Block : BlockAs(vol, f, u, p)
  BY <1>1 DEF Ends, BlocksDue, Settles
<1>3. vol.table[f].lnk = a
  BY <1>1 DEF Ends, LinkDue
<1>4. L \subseteq Lists(f)
  BY <1>1 DEF Ends, ListsDue
<1>5. f \in Entries(vol) <=> a = 1
  BY DEF Ends, NameDue
<1>6. QED
  BY <1>2, <1>3, <1>4, <1>5 DEF Ends, Stands

\* A file that is there gets there by any writes that agree with it.
LEMMA StandsEnds ==
  ASSUME NEW f \in File, NEW u, NEW L, NEW a, Stands(f, u, L, a), AllFit(f, u, L, a)
  PROVE  Ends(f, u, L, a)
  BY DEF Stands, Ends, BlocksDue, LinkDue, ListsDue, NameDue

\* What a write does to the entry of a block, all of it.
LEMMA EntryAfter ==
  ASSUME NEW d \in Volume, NEW w \in Writes, NEW e, e = After(d, w), NEW p \in Block
  PROVE  /\ w.w \notin {"own", "drop"} => e.ctab[p] = d.ctab[p]
         /\ w.w = "own" => e.ctab[p] = IF p = w.p THEN [fid |-> w.f, num |-> w.i] ELSE d.ctab[p]
         /\ w.w = "drop" => e.ctab[p] = IF p[1] = w.c /\ d.ctab[p].fid = w.f THEN FreeEntry ELSE d.ctab[p]
<1>1. d.ctab \in Ctabs
  BY DeviceFields DEF Ctabs
<1>2. ASSUME w.w = "own"
      PROVE  e.ctab[p] = IF p = w.p THEN [fid |-> w.f, num |-> w.i] ELSE d.ctab[p]
  <2>1. e.ctab = [d.ctab EXCEPT ![w.p] = [fid |-> w.f, num |-> w.i]]
    BY <1>2, KindIs, OwnDoes
  <2>2. QED
    BY <1>1, <2>1 DEF Ctabs
<1>3. ASSUME w.w = "drop"
      PROVE  e.ctab[p] = IF p[1] = w.c /\ d.ctab[p].fid = w.f THEN FreeEntry ELSE d.ctab[p]
  <2>1. e.ctab = [q \in Block |-> IF q[1] = w.c /\ d.ctab[q].fid = w.f THEN FreeEntry ELSE d.ctab[q]]
    BY <1>3, KindIs, DropDoes
  <2>2. QED
    BY <2>1
<1>4. ASSUME w.w \notin {"own", "drop"} PROVE e.ctab[p] = d.ctab[p]
  BY <1>4, OwnerAfter, KindIs
<1>5. QED
  BY <1>2, <1>3, <1>4

(* Volume e lists the clusters that d lists for g; it lists c. *)
ListsMore(d, e, g) == Range(d.table[g].clrs) \subseteq Range(e.table[g].clrs)
ListsIt(e, g, c)   == c \in Range(e.table[g].clrs)

\* What a write does to a list of clusters.
LEMMA ListedAfter ==
  ASSUME NEW d \in Volume, NEW w \in Writes, NEW e, e = After(d, w), NEW g \in File
  PROVE  /\ w.w = "take" /\ w.f = g => e.table[g] = [lnk |-> 1, clrs |-> <<w.c>>]
         /\ w.w = "list" /\ w.f = g => ListsIt(e, g, w.c)
         /\ w.w = "release" /\ w.f = g => e.table[g] = [lnk |-> 0, clrs |-> d.table[g].clrs]
         /\ ~(w.w = "take" /\ w.f = g) => ListsMore(d, e, g)
<1>1. d.table \in Tables /\ d.table[g] \in [lnk : {0, 1}, clrs : Seq(Cluster)]
  BY DeviceFields DEF Tables
<1>2. ASSUME w.w = "take", w.f = g PROVE e.table[g] = [lnk |-> 1, clrs |-> <<w.c>>]
  <2>1. e.table = [d.table EXCEPT ![w.f] = [lnk |-> 1, clrs |-> <<w.c>>]]
    BY <1>2, KindIs, TakeDoes
  <2>2. QED
    BY <1>1, <1>2, <2>1 DEF Tables
<1>3. ASSUME w.w = "list", w.f = g
      PROVE  ListsIt(e, g, w.c) /\ ListsMore(d, e, g)
  <2>1. PICK l \in Seq(Cluster) : l = d.table[g].clrs
    BY <1>1
  <2>2. PICK m : m = IF w.c \in Range(l) THEN l ELSE Append(l, w.c)
    OBVIOUS
  <2>3. w \in ListW
    BY <1>3, KindIs
  <2>4. e.table = [d.table EXCEPT ![g] = [lnk |-> d.table[g].lnk, clrs |-> m]]
    BY <1>3, <2>1, <2>2, <2>3, ListDoes
  <2>5. e.table[g].clrs = m
    BY <1>1, <2>4 DEF Tables
  <2>6. w.c \in Range(m) /\ Range(l) \subseteq Range(m)
    <3>1. CASE w.c \in Range(l)
      BY <2>2, <3>1
    <3>2. CASE w.c \notin Range(l)
      <4>1. w.c \in Cluster
        BY <2>3 DEF ListW
      <4>2. m = Append(l, w.c)
        BY <2>2, <3>2
      <4>3. PICK n \in Nat : n = Len(l) /\ DOMAIN l = 1..n
        BY <2>1
      <4>4. DOMAIN m = 1..(n + 1) /\ m[n + 1] = w.c /\ \A i \in 1..n : m[i] = l[i]
        BY <2>1, <4>1, <4>2, <4>3
      <4>5. n + 1 \in DOMAIN m
        BY <4>4
      <4>6. \A i \in 1..n : i \in DOMAIN m
        BY <4>4
      <4>7. QED
        BY <4>3, <4>4, <4>5, <4>6 DEF Range
    <3>3. QED
      BY <3>1, <3>2
  <2>7. QED
    BY <2>1, <2>5, <2>6 DEF ListsIt, ListsMore
<1>4. ASSUME w.w = "release", w.f = g PROVE e.table[g] = [lnk |-> 0, clrs |-> d.table[g].clrs]
  <2>1. e.table = [d.table EXCEPT ![w.f] = [lnk |-> 0, clrs |-> d.table[w.f].clrs]]
    BY <1>4, KindIs, ReleaseDoes
  <2>2. QED
    BY <1>1, <1>4, <2>1 DEF Tables
<1>5. ASSUME ~(w.w = "take" /\ w.f = g) PROVE ListsMore(d, e, g)
  <2>1. CASE w.w = "list" /\ w.f = g
    BY <1>3, <2>1
  <2>2. CASE w.w = "release" /\ w.f = g
    BY <1>4, <2>2 DEF ListsMore
  <2>3. CASE w.w \notin {"take", "list", "release"} \/ g # w.f
    BY <2>3, TableAfter DEF ListsMore
  <2>4. QED
    BY <1>5, <2>1, <2>2, <2>3
<1>6. QED
  BY <1>2, <1>3, <1>4, <1>5

(* A write is performed: what is not yet so is still due. *)

\* The writes that are left still agree.
LEMMA FitKept ==
  ASSUME TypeOK, Write, NEW f \in File, NEW u, NEW L, NEW a, AllFit(f, u, L, a)
  PROVE  AllFit(f, u, L, a)'
<1>1. SUFFICES ASSUME NEW i \in DOMAIN todo' PROVE Fits(todo'[i], f, u, L, a)
  BY DEF AllFit, Fits, NamesOf
<1>2. i + 1 \in DOMAIN todo /\ todo'[i] = todo[i + 1]
  BY Due
<1>3. QED
  BY <1>2 DEF AllFit

\* A write that is due is still due, unless it is the one performed.
LEMMA DueOrDone ==
  ASSUME TypeOK, Write, NEW j \in DOMAIN todo, NEW w, NEW d, NEW e, Performs(w, d, e)
  PROVE  \/ todo[j] = w
         \/ \E i \in DOMAIN todo' : todo'[i] = todo[j]
<1>1. CASE j = 1
  BY <1>1 DEF Performs
<1>2. CASE j # 1
  <2>1. j - 1 \in DOMAIN todo' /\ j \in Int
    BY <1>2, Due, StateTyped
  <2>2. todo'[j - 1] = todo[(j - 1) + 1] /\ (j - 1) + 1 = j
    BY <2>1, Due
  <2>3. QED
    BY <2>1, <2>2
<1>3. QED
  BY <1>1, <1>2

\* The blocks of a file that are not yet as they will be stay due.
LEMMA BlocksKept ==
  ASSUME TypeOK, Write, ForTarget, NEW f \in File, NEW u, NEW L, NEW a,
         AllFit(f, u, L, a), BlocksDue(f, u)
  PROVE  BlocksDue(f, u)'
<1>1. PICK w, d, e : Performs(w, d, e)
  BY WritePerforms
<1>2. SUFFICES ASSUME NEW p \in Block
               PROVE  BlockAs(e, f, u, p) \/ \E j \in DOMAIN todo' : Settles(todo'[j], f, p)
  BY <1>1 DEF BlocksDue, Performs, BlockAs, Settles
<1>3. Fits(w, f, u, L, a)
  BY <1>1 DEF AllFit, Performs
<1>4. f # 0
  BY DEF File
<1>5. /\ w.w \notin {"own", "drop"} => e.ctab[p] = d.ctab[p]
      /\ w.w = "own" => e.ctab[p] = IF p = w.p THEN [fid |-> w.f, num |-> w.i] ELSE d.ctab[p]
      /\ w.w = "drop" => e.ctab[p] = IF p[1] = w.c /\ d.ctab[p].fid = w.f THEN FreeEntry ELSE d.ctab[p]
  BY <1>1, EntryAfter DEF Performs
<1>6. ASSUME Settles(w, f, p) PROVE BlockAs(e, f, u, p)
  <2>1. CASE w.w = "own" /\ w.f = f /\ w.p = p
    BY <1>3, <1>5, <2>1 DEF Fits, BlockAs
  <2>2. CASE w.w = "drop" /\ w.f = f /\ w.c = p[1]
    <3>1. p \notin DOMAIN u
      BY <1>3, <2>2 DEF Fits
    <3>2. e.ctab[p].fid # f
      BY <1>4, <1>5, <2>2 DEF FreeEntry
    <3>3. QED
      BY <3>1, <3>2 DEF BlockAs
  <2>3. QED
    BY <1>6, <2>1, <2>2 DEF Settles
<1>7. ASSUME BlockAs(d, f, u, p), ~Settles(w, f, p) PROVE BlockAs(e, f, u, p)
  <2>1. CASE e.ctab[p] = d.ctab[p]
    BY <1>7, <2>1 DEF BlockAs
  <2>2. CASE w.w = "own" /\ p = w.p
    <3>1. w.f # f /\ e.ctab[p].fid # f
      BY <1>5, <1>7, <2>2 DEF Settles
    <3>2. w.f = Target /\ d.ctab[p].fid \in {0, Target}
      BY <1>1, <2>2 DEF ForTarget, Performs
    <3>3. d.ctab[p].fid # f
      BY <1>4, <3>1, <3>2
    <3>4. QED
      BY <1>7, <3>1, <3>3 DEF BlockAs
  <2>3. CASE w.w = "drop" /\ p[1] = w.c /\ d.ctab[p].fid = w.f
    <3>1. w.f # f /\ e.ctab[p].fid # f
      BY <1>4, <1>5, <1>7, <2>3 DEF Settles, FreeEntry
    <3>2. QED
      BY <1>7, <2>3, <3>1 DEF BlockAs
  <2>4. QED
    BY <1>5, <2>1, <2>2, <2>3
<1>8. ASSUME NEW j \in DOMAIN todo, Settles(todo[j], f, p)
      PROVE  Settles(w, f, p) \/ \E i \in DOMAIN todo' : Settles(todo'[i], f, p)
  BY <1>1, <1>8, DueOrDone
<1>9. BlockAs(d, f, u, p) \/ \E j \in DOMAIN todo : Settles(todo[j], f, p)
  BY <1>1 DEF BlocksDue, Performs
<1>10. QED
  BY <1>6, <1>7, <1>8, <1>9

\* So does its link count.
LEMMA LinkKept ==
  ASSUME TypeOK, Write, NEW f \in File, NEW u, NEW L, NEW a, AllFit(f, u, L, a), LinkDue(f, a)
  PROVE  LinkDue(f, a)'
<1>1. PICK w, d, e : Performs(w, d, e)
  BY WritePerforms
<1>2. SUFFICES \/ e.table[f].lnk = a
               \/ \E j \in DOMAIN todo' : todo'[j].w \in {"take", "release"} /\ todo'[j].f = f
  BY <1>1 DEF LinkDue, Performs
<1>3. Fits(w, f, u, L, a)
  BY <1>1 DEF AllFit, Performs
<1>4. ASSUME w.w \in {"take", "release"}, w.f = f PROVE e.table[f].lnk = a
  <2>1. /\ w.w = "take" => e.table[f] = [lnk |-> 1, clrs |-> <<w.c>>]
        /\ w.w = "release" => e.table[f] = [lnk |-> 0, clrs |-> d.table[f].clrs]
    BY <1>1, <1>4, ListedAfter DEF Performs
  <2>2. QED
    BY <1>3, <1>4, <2>1 DEF Fits
<1>5. ASSUME ~(w.w \in {"take", "release"} /\ w.f = f) PROVE e.table[f].lnk = d.table[f].lnk
  <2>1. CASE w.w = "list"
    BY <1>1, <2>1, TableAfter DEF Performs
  <2>2. CASE w.w # "list"
    BY <1>1, <1>5, <2>2, TableAfter DEF Performs
  <2>3. QED
    BY <2>1, <2>2
<1>6. ASSUME NEW j \in DOMAIN todo, todo[j].w \in {"take", "release"}, todo[j].f = f
      PROVE  \/ w.w \in {"take", "release"} /\ w.f = f
             \/ \E i \in DOMAIN todo' : todo'[i].w \in {"take", "release"} /\ todo'[i].f = f
  BY <1>1, <1>6, DueOrDone
<1>7. d.table[f].lnk = a \/ \E j \in DOMAIN todo : todo[j].w \in {"take", "release"} /\ todo[j].f = f
  BY <1>1 DEF LinkDue, Performs
<1>8. QED
  BY <1>4, <1>5, <1>6, <1>7

\* So do the clusters it will list.
LEMMA ListsKept ==
  ASSUME TypeOK, Write, NEW f \in File, NEW u, NEW L, NEW a, AllFit(f, u, L, a), ListsDue(f, L)
  PROVE  ListsDue(f, L)'
<1>1. PICK w, d, e : Performs(w, d, e)
  BY WritePerforms
<1>2. SUFFICES ASSUME NEW c \in L
               PROVE  \/ c \in Range(e.table[f].clrs)
                      \/ \E j \in DOMAIN todo' : todo'[j].w \in {"take", "list"} /\ todo'[j].f = f /\ todo'[j].c = c
  BY <1>1 DEF ListsDue, Performs, Lists
<1>3. Fits(w, f, u, L, a)
  BY <1>1 DEF AllFit, Performs
<1>35. /\ w.w = "take" /\ w.f = f => e.table[f] = [lnk |-> 1, clrs |-> <<w.c>>]
       /\ w.w = "list" /\ w.f = f => ListsIt(e, f, w.c)
       /\ ~(w.w = "take" /\ w.f = f) => ListsMore(d, e, f)
  <2>1. d \in Volume /\ w \in Writes /\ e = After(d, w)
    BY <1>1 DEF Performs
  <2>2. /\ w.w = "take" /\ w.f = f => e.table[f] = [lnk |-> 1, clrs |-> <<w.c>>]
        /\ w.w = "list" /\ w.f = f => ListsIt(e, f, w.c)
        /\ w.w = "release" /\ w.f = f => e.table[f] = [lnk |-> 0, clrs |-> d.table[f].clrs]
        /\ ~(w.w = "take" /\ w.f = f) => ListsMore(d, e, f)
    BY <2>1, ListedAfter
  <2>3. QED
    BY <2>2
<1>4. CASE w.w = "take" /\ w.f = f
  <2>1. c = w.c
    BY <1>3, <1>4 DEF Fits
  <2>2. e.table[f] = [lnk |-> 1, clrs |-> <<w.c>>]
    BY <1>35, <1>4
  <2>3. QED
    <3>1. e.table[f].clrs = <<w.c>>
      BY <2>2
    <3>2. w.c \in Range(<<w.c>>)
      BY DEF Range
    <3>3. QED
      BY <2>1, <3>1, <3>2
<1>5. CASE ~(w.w = "take" /\ w.f = f)
  <2>1. Range(d.table[f].clrs) \subseteq Range(e.table[f].clrs)
    BY <1>35, <1>5 DEF ListsMore
  <2>2. CASE w.w = "list" /\ w.f = f /\ w.c = c
    BY <1>35, <2>2 DEF ListsIt
  <2>3. ASSUME NEW j \in DOMAIN todo, todo[j].w \in {"take", "list"}, todo[j].f = f, todo[j].c = c,
               ~(w.w = "list" /\ w.f = f /\ w.c = c)
        PROVE  \E i \in DOMAIN todo' : todo'[i].w \in {"take", "list"} /\ todo'[i].f = f /\ todo'[i].c = c
    <3>1. todo[j] # w
      BY <1>5, <2>3
    <3>2. QED
      BY <1>1, <2>3, <3>1, DueOrDone
  <2>4. \/ c \in Range(d.table[f].clrs)
        \/ \E j \in DOMAIN todo : todo[j].w \in {"take", "list"} /\ todo[j].f = f /\ todo[j].c = c
    BY <1>1 DEF ListsDue, Performs, Lists
  <2>5. QED
    BY <2>1, <2>2, <2>3, <2>4
<1>6. QED
  BY <1>4, <1>5

\* So does its entry in the directory.
LEMMA NameKept ==
  ASSUME TypeOK, Write, DirsDue, FirstBlockOnly, FirstBlockOnly',
         NEW f \in File, NEW u, NEW L, NEW a, AllFit(f, u, L, a), NameDue(f, a)
  PROVE  NameDue(f, a)'
<1>1. PICK w, d, e : Performs(w, d, e)
  BY WritePerforms
<1>2. SUFFICES \/ f \in Entries(e) <=> a = 1
               \/ f = Target' /\ \E j \in DOMAIN todo' : todo'[j].w = "dir" /\ todo'[j].i = 1
  BY <1>1 DEF NameDue, Performs
<1>3. CASE w.w = "dir"
  <2>1. Fits(w, f, u, L, a)
    BY <1>1 DEF AllFit, Performs
  <2>2. Entries(e) = NamesOf(w)
    BY <1>1, <1>3, ListingAfter
  <2>3. QED
    BY <1>3, <2>1, <2>2 DEF Fits
<1>4. CASE w.w # "dir"
  <2>1. Entries(e) = Entries(d)
    BY <1>1, <1>4, ListingAfter
  <2>2. CASE f \in Entries(d) <=> a = 1
    BY <2>1, <2>2
  <2>3. ASSUME f = Target, NEW j \in DOMAIN todo, todo[j].w = "dir", todo[j].i = 1
        PROVE  f = Target' /\ \E i \in DOMAIN todo' : todo'[i].w = "dir" /\ todo'[i].i = 1
    <3>1. todo[j] # w
      BY <1>4, <2>3
    <3>2. PICK i \in DOMAIN todo' : todo'[i] = todo[j]
      BY <1>1, <3>1, DueOrDone
    <3>3. Target' = Target
      BY <1>1, StillDue
    <3>4. QED
      BY <2>3, <3>2, <3>3
  <2>4. QED
    BY <1>1, <2>2, <2>3 DEF NameDue, Performs
<1>5. QED
  BY <1>3, <1>4

\* A write takes a file nearer to what it will be.
LEMMA EndsKept ==
  ASSUME TypeOK, Write, ForTarget, DirsDue, FirstBlockOnly, FirstBlockOnly',
         NEW f \in File, NEW u, NEW L, NEW a, Ends(f, u, L, a)
  PROVE  Ends(f, u, L, a)'
<1>1. seqs' = seqs
  BY DEF Write
<1>2. a \in {0, 1} /\ WholeFile(u, L, a, seqs'[f])
  BY <1>1 DEF Ends
<1>3. BlocksDue(f, u)' /\ AllFit(f, u, L, a)' /\ LinkDue(f, a)' /\ ListsDue(f, L)' /\ NameDue(f, a)'
  BY BlocksKept, FitKept, LinkKept, ListsKept, NameKept DEF Ends
<1>4. QED
  BY <1>2, <1>3 DEF Ends

(* A request starts. *)

\* A file that is there gets there by writes that agree with it.
LEMMA Begun ==
  ASSUME NEW f \in File, NEW u, NEW L, NEW a, Stands(f, u, L, a), vol' = vol,
         WholeFile(u, L, a, seqs'[f]), AllFit(f, u, L, a)'
  PROVE  Ends(f, u, L, a)'
<1>1. BlocksDue(f, u)'
  BY DEF Stands, BlocksDue, BlockAs
<1>2. LinkDue(f, a)' /\ ListsDue(f, L)' /\ NameDue(f, a)'
  BY DEF Stands, LinkDue, ListsDue, NameDue, Lists
<1>3. QED
  BY <1>1, <1>2 DEF Stands, Ends

\* A request for another file leaves a file that is there as it is.
LEMMA BegunOther ==
  ASSUME NEW g \in File, NEW u, NEW L, NEW a, Stands(g, u, L, a), vol' = vol, seqs'[g] = seqs[g],
         ForTarget', todo' = <<>> \/ g # Target',
         \A j \in DOMAIN todo' : todo'[j].w = "dir" => (g \in NamesOf(todo'[j]) <=> g \in Entries(vol))
  PROVE  Ends(g, u, L, a)'
<1>1. WholeFile(u, L, a, seqs'[g])
  BY DEF Stands
<1>2. ASSUME NEW j \in DOMAIN todo' PROVE Fits(todo'[j], g, u, L, a)
  <2>1. todo'[j].w \in {"own", "drop", "take", "list", "release"} => todo'[j].f # g
    <3>1. todo'[j].w \in {"own", "drop", "take", "list", "release"} => todo'[j].f = Target'
      BY DEF ForTarget
    <3>2. todo' # <<>>
      BY <1>2
    <3>3. QED
      BY <3>1, <3>2
  <2>2. todo'[j].w = "dir" => (g \in NamesOf(todo'[j]) <=> a = 1)
    BY DEF Stands
  <2>3. QED
    BY <2>1, <2>2 DEF Fits
<1>3. AllFit(g, u, L, a)'
  BY <1>2 DEF AllFit, Fits, NamesOf
<1>4. QED
  BY <1>1, <1>3, Begun

(* A creation of f in block p: what it will have. *)
OneBlock(p) == [q \in {p} |-> 0]

\* One block with the number 0.
LEMMA OneBlockIs ==
  ASSUME NEW p \in Block
  PROVE  /\ DOMAIN OneBlock(p) = {p} /\ OneBlock(p)[p] = 0
         /\ \A l : l = <<>> => WholeFile(OneBlock(p), {p[1]}, 1, l)
<1>1. DOMAIN OneBlock(p) = {p} /\ OneBlock(p)[p] = 0
  BY DEF OneBlock
<1>2. PICK u : u = OneBlock(p)
  OBVIOUS
<1>3. DOMAIN u = {p} /\ u[p] = 0
  BY <1>1, <1>2
<1>4. \A i \in 0..(1 - 1) : i = 0
  OBVIOUS
<1>5. Onto(u, 1)
  BY <1>3, <1>4 DEF Onto
<1>6. ASSUME NEW l, l = <<>> PROVE WholeFile(u, {p[1]}, 1, l)
  <2>1. 1 \in Nat /\ (1 = 1 /\ l # <<>> => Len(l) = 1)
    BY <1>6
  <2>2. \E n \in Nat : Onto(u, n) /\ (1 = 1 /\ l # <<>> => Len(l) = n)
    BY <1>5, <2>1
  <2>3. QED
    BY <1>3, <2>2 DEF WholeFile
<1>7. QED
  BY <1>1, <1>2, <1>6

\* The new file gets its block, its identifier and its name.
LEMMA CreatesEnds ==
  ASSUME TypeOK, TypeOK', DirInv, NEW f, NEW c, NEW b, Creates(f, c, b),
         NEW u0, NEW L0, NEW a0, Stands(f, u0, L0, a0)
  PROVE  Ends(f, OneBlock(<<c, b>>), {c}, 1)'
<1>1. /\ todo = <<>> /\ f \in File /\ c \in Cluster /\ b \in Slot
      /\ vol.table[f].lnk = 0 /\ seqs[f] = <<>> /\ vol.ctab[<<c, b>>].fid = 0
      /\ vol.root.len < PerBlock * BPC
      /\ CreateQueue(todo', f, c, b) /\ todo' # <<>>
      /\ busy' = <<"create", f>> /\ vol' = vol /\ seqs' = seqs
  BY DEF Creates
<1>2. Target' = f
  BY <1>1 DEF Target
<1>3. PICK r \in Seq(Writes) : r = todo'
  BY DEF TypeOK
<1>4. PICK p, u : p = <<c, b>> /\ u = OneBlock(p)
  OBVIOUS
<1>5. p \in Block /\ p[1] = c
  BY <1>1, <1>4 DEF Block
<1>6. DOMAIN u = {p} /\ u[p] = 0 /\ WholeFile(u, {c}, 1, seqs'[f])
  BY <1>1, <1>4, <1>5, OneBlockIs
<1>7. /\ DOMAIN r = 1..(BPC + 4)
      /\ \A i \in DOMAIN r :
              \/ i = 1 /\ r[i] = Own(p, f, 0)
              \/ i = 2 /\ r[i] = Bit(c)
              \/ i = 3 /\ r[i] = Take(f, c)
              \/ i - 3 \in 1..BPC /\ r[i].w = "dir" /\ r[i].i = i - 3
              \/ i = BPC + 4 /\ r[i].w = "head"
  BY <1>1, <1>3, <1>4, CreatePlaces
<1>8. 1 \in DOMAIN r /\ 3 \in DOMAIN r /\ 4 \in DOMAIN r
  BY <1>7, Sizes
<1>9. /\ r[1].w = "own" /\ r[1].f = f /\ r[1].p = p
      /\ r[3].w = "take" /\ r[3].f = f /\ r[3].c = c
  <2>1. r[1] = Own(p, f, 0) /\ r[3] = Take(f, c)
    BY <1>1, <1>3, <1>4 DEF CreateQueue
  <2>2. QED
    BY <2>1, FieldsAre
<1>10. PICK new \in [RootSlot -> 0..(NF - 1)] :
         /\ \A i \in 1..BPC : r[i + 3] = Dir(i, vol.root.len + 1, new)
         /\ \A s \in RootSlot : s <= vol.root.len + 1
              => new[s] = IF s = vol.root.len + 1 THEN f ELSE vol.root.slot[s]
  BY <1>1, <1>3 DEF CreateQueue
<1>11. PICK len \in Nat : len = vol.root.len /\ \A s \in 1..(len + 1) : s \in RootSlot
  BY <1>1, RootSlots
<1>12. ASSUME NEW i \in DOMAIN r, r[i].w = "dir" PROVE f \in NamesOf(r[i])
  <2>1. i - 3 \in 1..BPC /\ (i - 3) + 3 = i
    <3>1. i \in Int
      BY <1>7
    <3>2. i - 3 \in 1..BPC
      BY <1>1, <1>3, <1>12, CreateKinds
    <3>3. QED
      BY <3>1, <3>2
  <2>2. r[(i - 3) + 3] = Dir(i - 3, len + 1, new)
    BY <1>10, <1>11, <2>1
  <2>3. r[i].len = len + 1 /\ r[i].slot = new
    BY <2>1, <2>2, FieldsAre
  <2>4. len + 1 \in 1..(len + 1) /\ len + 1 <= len + 1
    BY <1>11
  <2>5. new[len + 1] = f
    BY <1>10, <1>11, <2>4
  <2>6. QED
    BY <2>3, <2>4, <2>5 DEF NamesOf
<1>13. ASSUME NEW i \in DOMAIN r PROVE Fits(r[i], f, u, {c}, 1)
  <2>1. CASE r[i] = Own(p, f, 0)
    <3>1. r[i].w = "own" /\ r[i].p = p /\ r[i].i = 0
      BY <2>1, FieldsAre
    <3>2. QED
      BY <1>6, <3>1 DEF Fits
  <2>2. CASE r[i] = Bit(c)
    <3>1. r[i].w = "bit"
      BY <2>2, FieldsAre
    <3>2. QED
      BY <3>1 DEF Fits
  <2>3. CASE r[i] = Take(f, c)
    <3>1. r[i].w = "take" /\ r[i].c = c
      BY <2>3, FieldsAre
    <3>2. QED
      BY <3>1 DEF Fits
  <2>4. CASE r[i].w = "dir"
    BY <1>12, <2>4 DEF Fits
  <2>5. CASE r[i].w = "head"
    BY <2>5 DEF Fits
  <2>6. QED
    BY <1>7, <2>1, <2>2, <2>3, <2>4, <2>5
<1>14. AllFit(f, u, {c}, 1)'
  BY <1>3, <1>13 DEF AllFit, Fits, NamesOf
<1>15. \A q \in Block : vol.ctab[q].fid # f
  <2>1. a0 = 0 /\ DOMAIN u0 = {}
    BY <1>1 DEF Stands, WholeFile
  <2>2. QED
    BY <2>1 DEF Stands, BlockAs
<1>16. BlocksDue(f, u)'
  <2>1. ASSUME NEW q \in Block, q # p PROVE BlockAs(vol', f, u, q)
    BY <1>1, <1>6, <1>15, <2>1 DEF BlockAs
  <2>2. Settles(r[1], f, p)
    BY <1>9 DEF Settles
  <2>3. QED
    BY <1>3, <1>8, <2>1, <2>2 DEF BlocksDue, BlockAs, Settles
<1>17. LinkDue(f, 1)' /\ ListsDue(f, {c})'
  BY <1>3, <1>8, <1>9 DEF LinkDue, ListsDue
<1>18. NameDue(f, 1)'
  <2>1. r[4].w = "dir" /\ r[4].i = 1
    <3>1. 1 \in 1..BPC /\ 1 + 3 = 4
      BY Sizes
    <3>2. r[1 + 3] = Dir(1, vol.root.len + 1, new)
      BY <1>10, <3>1
    <3>3. QED
      BY <3>1, <3>2, FieldsAre
  <2>2. QED
    BY <1>2, <1>3, <1>8, <2>1 DEF NameDue
<1>19. QED
  BY <1>4, <1>6, <1>14, <1>16, <1>17, <1>18 DEF Ends

\* The directory keeps the names of the other files.
LEMMA CreatesOther ==
  ASSUME TypeOK, TypeOK', DirInv, NEW f, NEW c, NEW b, Creates(f, c, b), NEW g \in File, g # f,
         NEW j \in DOMAIN todo', todo'[j].w = "dir"
  PROVE  g \in NamesOf(todo'[j]) <=> g \in Entries(vol)
<1>1. f \in File /\ CreateQueue(todo', f, c, b) /\ vol.root.len < PerBlock * BPC
  BY DEF Creates
<1>2. PICK r \in Seq(Writes) : r = todo'
  BY DEF TypeOK
<1>3. PICK new \in [RootSlot -> 0..(NF - 1)] :
         /\ \A i \in 1..BPC : r[i + 3] = Dir(i, vol.root.len + 1, new)
         /\ \A s \in RootSlot : s <= vol.root.len + 1
              => new[s] = IF s = vol.root.len + 1 THEN f ELSE vol.root.slot[s]
  BY <1>1, <1>2 DEF CreateQueue
<1>4. PICK len \in Nat : /\ len = vol.root.len /\ \A s \in 1..(len + 1) : s \in RootSlot
                         /\ \A s \in 1..len : s \in 1..(len + 1) /\ s # len + 1
                         /\ \A s \in 1..(len + 1) : s <= len + 1 /\ (s # len + 1 => s \in 1..len)
  <2>1. PICK len \in Nat : len = vol.root.len /\ \A s \in 1..(len + 1) : s \in RootSlot
    BY <1>1, RootSlots
  <2>2. QED
    BY <2>1
<1>5. \A s \in 1..(len + 1) : new[s] = IF s = len + 1 THEN f ELSE vol.root.slot[s]
  BY <1>3, <1>4
<1>6. j - 3 \in 1..BPC /\ (j - 3) + 3 = j
  <2>1. j \in Int
    BY <1>2
  <2>2. QED
    BY <1>1, <2>1, CreateKinds
<1>7. r[j].len = len + 1 /\ r[j].slot = new
  <2>1. r[(j - 3) + 3] = Dir(j - 3, len + 1, new)
    BY <1>3, <1>4, <1>6
  <2>2. QED
    BY <1>6, <2>1, FieldsAre
<1>8. g # 0
  BY DEF File
<1>9. g \in NamesOf(r[j]) <=> \E s \in 1..(len + 1) : new[s] = g
  BY <1>7 DEF NamesOf
<1>10. g \in Entries(vol) <=> \E s \in 1..len : vol.root.slot[s] = g
  BY <1>4, <1>8 DEF Entries
<1>11. QED
  BY <1>2, <1>4, <1>5, <1>9, <1>10

(* A write starts: what the file will have. *)
AndMore(u, ps, m, len) ==
  [p \in DOMAIN u \cup {ps[k] : k \in 1..m} |->
     IF p \in DOMAIN u THEN u[p] ELSE len + (CHOOSE k \in 1..m : ps[k] = p) - 1]

(* The numbers v are the numbers u, 0 .. len - 1, and those of the m blocks ps. *)
Extended(v, u, ps, m, len) ==
  /\ DOMAIN v = DOMAIN u \cup {ps[k] : k \in 1..m}
  /\ \A p \in DOMAIN u : v[p] = u[p]
  /\ \A k \in 1..m : v[ps[k]] = len + k - 1
  /\ Onto(v, len + m)

\* The numbers go on where those of the file end.
LEMMA AndMoreIs ==
  ASSUME NEW len \in Nat, NEW m \in Nat, NEW u, NEW ps, Onto(u, len),
         \A k \in 1..m : ps[k] \notin DOMAIN u,
         \A j, k \in 1..m : ps[j] = ps[k] => j = k
  PROVE  \E v : Extended(v, u, ps, m, len)
<1>1. PICK v : v = AndMore(u, ps, m, len)
  OBVIOUS
<1>2. /\ DOMAIN v = DOMAIN u \cup {ps[k] : k \in 1..m}
      /\ \A p \in DOMAIN u : v[p] = u[p]
  BY <1>1 DEF AndMore
<1>3. ASSUME NEW k \in 1..m PROVE v[ps[k]] = len + k - 1
  <2>1. PICK p : p = ps[k]
    OBVIOUS
  <2>2. (CHOOSE j \in 1..m : ps[j] = p) = k
    BY <2>1
  <2>3. p \in DOMAIN u \cup {ps[j] : j \in 1..m} /\ p \notin DOMAIN u
    BY <2>1
  <2>4. v[p] = len + (CHOOSE j \in 1..m : ps[j] = p) - 1
    BY <1>1, <2>3 DEF AndMore
  <2>5. QED
    BY <2>1, <2>2, <2>4
<1>4. ASSUME NEW p \in DOMAIN v
      PROVE  \/ p \in DOMAIN u /\ v[p] = u[p] /\ u[p] \in 0..(len - 1)
             \/ \E k \in 1..m : p = ps[k] /\ v[p] = len + k - 1
  <2>1. CASE p \in DOMAIN u
    BY <1>2, <2>1 DEF Onto
  <2>2. CASE p \notin DOMAIN u
    BY <1>2, <1>3, <2>2
  <2>3. QED
    BY <2>1, <2>2
<1>5. \A p \in DOMAIN v : v[p] \in 0..(len + m - 1)
  <2>1. \A x \in 0..(len - 1) : x \in 0..(len + m - 1)
    OBVIOUS
  <2>2. \A k \in 1..m : len + k - 1 \in 0..(len + m - 1)
    OBVIOUS
  <2>3. QED
    BY <1>4, <2>1, <2>2
<1>6. ASSUME NEW i \in 0..(len + m - 1) PROVE \E p \in DOMAIN v : v[p] = i
  <2>1. CASE i \in 0..(len - 1)
    <3>1. PICK p \in DOMAIN u : u[p] = i
      BY <2>1 DEF Onto
    <3>2. QED
      BY <1>2, <3>1
  <2>2. CASE i \notin 0..(len - 1)
    <3>1. PICK k \in 1..m : i = len + k - 1
      <4>1. i - len + 1 \in 1..m /\ i = len + (i - len + 1) - 1
        BY <2>2
      <4>2. QED
        BY <4>1
    <3>2. ps[k] \in DOMAIN v /\ v[ps[k]] = i
      BY <1>2, <1>3, <3>1
    <3>3. QED
      BY <3>2
  <2>3. QED
    BY <2>1, <2>2
<1>7. ASSUME NEW p \in DOMAIN v, NEW q \in DOMAIN v, v[p] = v[q] PROVE p = q
  <2>1. \A x \in 0..(len - 1), k \in 1..m : x # len + k - 1
    OBVIOUS
  <2>2. \A j, k \in 1..m : len + j - 1 = len + k - 1 => j = k
    OBVIOUS
  <2>3. CASE p \in DOMAIN u /\ q \in DOMAIN u
    BY <1>2, <1>7, <2>3 DEF Onto
  <2>4. CASE p \in DOMAIN u /\ q \notin DOMAIN u
    BY <1>2, <1>4, <1>7, <2>1, <2>4 DEF Onto
  <2>5. CASE p \notin DOMAIN u /\ q \in DOMAIN u
    BY <1>2, <1>4, <1>7, <2>1, <2>5 DEF Onto
  <2>6. CASE p \notin DOMAIN u /\ q \notin DOMAIN u
    BY <1>4, <1>7, <2>2, <2>6
  <2>7. QED
    BY <2>3, <2>4, <2>5, <2>6
<1>8. Onto(v, len + m)
  BY <1>5, <1>6, <1>7 DEF Onto
<1>9. QED
  BY <1>2, <1>3, <1>8 DEF Extended

\* A whole file has as many numbers as its cached list has entries.
LEMMA WholeNumbers ==
  ASSUME TypeOK, NEW f \in File, NEW u, NEW L, WholeFile(u, L, 1, seqs[f]), seqs[f] # <<>>
  PROVE  Len(seqs[f]) \in Nat /\ Onto(u, Len(seqs[f]))
  BY DEF WholeFile

\* The file gets the new blocks, and lists their clusters.
LEMMA ExtendsEnds ==
  ASSUME TypeOK, TypeOK', DirInv, NEW f, NEW n, NEW m, Extends(f, n, m),
         NEW u, NEW L, NEW a, Stands(f, u, L, a)
  PROVE  \E v, M : Ends(f, v, M, 1)'
<1>1. PICK l, ps : l = NewList(f, n) /\ ps = NewOnes(f, n)
  OBVIOUS
<1>2. /\ todo = <<>> /\ f \in File /\ f \in Entries(vol) /\ n \in Nat /\ m \in Nat /\ Has(seqs[f], 0)
      /\ FreeOnes(ps, m) /\ Longer(l, f, ps, m) /\ WriteQueue(todo', f, n, l, ps, m)
      /\ seqs' = [seqs EXCEPT ![f] = l]
      /\ busy' = IF todo' = <<>> THEN Idle ELSE <<"write", f>>
      /\ vol' = vol
  BY <1>1 DEF Extends
<1>3. seqs'[f] = l
  BY <1>2, StateTyped
<1>4. PICK r \in Seq(Writes) : r = todo'
  BY DEF TypeOK
<1>5. a = 1 /\ seqs[f] # <<>>
  BY <1>2 DEF Stands, Has
<1>6. PICK len \in Nat : len = Len(seqs[f]) /\ Onto(u, len)
  BY <1>2, <1>5, WholeNumbers DEF Stands
<1>7. /\ ps \in [1..m -> Block] /\ \A k \in 1..m : vol.ctab[ps[k]].fid = 0
      /\ \A j, k \in 1..m : ps[j] = ps[k] => j = k
  BY <1>2 DEF FreeOnes
<1>8. f # 0
  BY <1>2 DEF File
<1>9. \A p \in Block : vol.ctab[p].fid = f <=> p \in DOMAIN u
  BY DEF Stands, BlockAs
<1>10. \A k \in 1..m : ps[k] \in Block /\ ps[k] \notin DOMAIN u
  BY <1>7, <1>8, <1>9
<1>11. PICK v : Extended(v, u, ps, m, len)
  <2>1. m \in Nat
    BY <1>2
  <2>2. \A k \in 1..m : ps[k] \notin DOMAIN u
    BY <1>10
  <2>3. \A j, k \in 1..m : ps[j] = ps[k] => j = k
    BY <1>7
  <2>4. QED
    BY <1>6, <2>1, <2>2, <2>3, AndMoreIs
<1>12. /\ DOMAIN v = DOMAIN u \cup {ps[k] : k \in 1..m}
       /\ \A p \in DOMAIN u : v[p] = u[p]
       /\ \A k \in 1..m : v[ps[k]] = len + k - 1
       /\ Onto(v, len + m)
  BY <1>11 DEF Extended
<1>13. PICK M : M = L \cup {ps[k][1] : k \in 1..m}
  OBVIOUS
<1>14. WholeFile(v, M, 1, l)
  <2>1. DOMAIN v \subseteq Block
    BY <1>10, <1>12 DEF Stands, WholeFile
  <2>2. len + m \in Nat /\ Len(l) = len + m
    BY <1>2, <1>6 DEF Longer
  <2>3. \A p \in DOMAIN v : p[1] \in M
    BY <1>12, <1>13 DEF Stands, WholeFile
  <2>4. QED
    BY <1>12, <2>1, <2>2, <2>3 DEF WholeFile
<1>15. \A i \in DOMAIN r :
           \/ i \in 1..(2 * m) /\ ReservesAt(r, f, ps, m, i)
           \/ ListsAt(r, f, ps, m, i)
           \/ i > 3 * m /\ PaysAt(r, f, n, l, i)
  BY <1>2, <1>4, WritePlaces
<1>16. ASSUME NEW i \in DOMAIN r PROVE Fits(r[i], f, v, M, 1)
  <2>1. ASSUME NEW k \in 1..m, r[i] = Own(ps[k], f, Len(seqs[f]) + k - 1) PROVE Fits(r[i], f, v, M, 1)
    <3>1. r[i].w = "own" /\ r[i].p = ps[k] /\ r[i].i = len + k - 1
      BY <1>6, <2>1, FieldsAre
    <3>2. r[i].p \in DOMAIN v /\ v[r[i].p] = r[i].i
      BY <1>12, <3>1
    <3>3. QED
      BY <3>1, <3>2 DEF Fits
  <2>2. CASE r[i].w \in {"bit", "list", "data", "size"}
    BY <2>2 DEF Fits
  <2>3. CASE ReservesAt(r, f, ps, m, i)
    <3>1. ASSUME NEW k \in 1..m, r[i] = Bit(ps[k][1]) PROVE r[i].w = "bit"
      BY <3>1, FieldsAre
    <3>2. QED
      BY <2>1, <2>2, <2>3, <3>1 DEF ReservesAt
  <2>4. CASE ListsAt(r, f, ps, m, i)
    <3>1. r[i].w = "list"
      BY <2>4, FieldsAre DEF ListsAt
    <3>2. QED
      BY <2>2, <3>1
  <2>5. CASE PaysAt(r, f, n, l, i)
    <3>1. PICK j \in Nat : r[i] = Data(Found(l, j), Tag(f, j)) \/ r[i] = Size(Found(l, j), n)
      BY <2>5 DEF PaysAt
    <3>2. CASE r[i] = Data(Found(l, j), Tag(f, j))
      <4>1. r[i].w = "data"
        BY <3>2, FieldsAre
      <4>2. QED
        BY <2>2, <4>1
    <3>3. CASE r[i] = Size(Found(l, j), n)
      <4>1. r[i].w = "size"
        BY <3>3, FieldsAre
      <4>2. QED
        BY <2>2, <4>1
    <3>4. QED
      BY <3>1, <3>2, <3>3
  <2>6. QED
    BY <1>15, <2>3, <2>4, <2>5
<1>17. AllFit(f, v, M, 1)'
  BY <1>4, <1>16 DEF AllFit, Fits, NamesOf
<1>18. /\ \A k \in 1..m : r[2 * k - 1] = Own(ps[k], f, Len(seqs[f]) + k - 1) /\ 2 * k - 1 \in DOMAIN r
       /\ \A k \in 1..m : r[2 * m + k] = List(f, ps[k][1]) /\ 2 * m + k \in DOMAIN r
  <2>1. PICK q \in Nat : Len(r) = 3 * m + q
    BY <1>2, <1>4 DEF WriteQueue
  <2>2. DOMAIN r = 1..(3 * m + q)
    BY <2>1
  <2>3. \A k \in 1..m : 2 * k - 1 \in 1..(3 * m + q) /\ 2 * m + k \in 1..(3 * m + q)
    BY <1>2
  <2>4. QED
    BY <1>2, <1>4, <2>2, <2>3 DEF WriteQueue
<1>19. BlocksDue(f, v)'
  <2>1. ASSUME NEW p \in Block PROVE BlockAs(vol', f, v, p) \/ \E j \in DOMAIN r : Settles(r[j], f, p)
    <3>1. CASE \E k \in 1..m : p = ps[k]
      <4>1. PICK k \in 1..m : p = ps[k]
        BY <3>1
      <4>2. PICK j \in DOMAIN r : r[j] = Own(ps[k], f, Len(seqs[f]) + k - 1)
        BY <1>18
      <4>3. r[j].w = "own" /\ r[j].f = f /\ r[j].p = p
        BY <4>1, <4>2, FieldsAre
      <4>4. QED
        BY <4>3 DEF Settles
    <3>2. CASE ~ \E k \in 1..m : p = ps[k]
      <4>1. BlockAs(vol, f, u, p)
        BY DEF Stands
      <4>2. p \in DOMAIN v <=> p \in DOMAIN u
        BY <1>12, <3>2
      <4>3. QED
        BY <1>2, <1>12, <4>1, <4>2 DEF BlockAs
    <3>3. QED
      BY <3>1, <3>2
  <2>2. QED
    BY <1>4, <2>1 DEF BlocksDue, BlockAs, Settles
<1>20. ListsDue(f, M)'
  <2>1. ASSUME NEW c \in M
        PROVE  \/ c \in Lists(f)
               \/ \E j \in DOMAIN r : r[j].w \in {"take", "list"} /\ r[j].f = f /\ r[j].c = c
    <3>1. CASE c \in L
      BY <3>1 DEF Stands
    <3>2. CASE c \notin L
      <4>1. PICK k \in 1..m : c = ps[k][1]
        BY <1>13, <3>2
      <4>2. PICK j \in DOMAIN r : r[j] = List(f, ps[k][1])
        BY <1>18
      <4>3. r[j].w = "list" /\ r[j].f = f /\ r[j].c = c
        BY <4>1, <4>2, FieldsAre
      <4>4. QED
        BY <4>3
    <3>3. QED
      BY <3>1, <3>2
  <2>2. Lists(f)' = Lists(f)
    BY <1>2 DEF Lists
  <2>3. QED
    BY <1>4, <2>1, <2>2 DEF ListsDue
<1>21. LinkDue(f, 1)' /\ NameDue(f, 1)'
  BY <1>2, <1>5 DEF Stands, LinkDue, NameDue
<1>22. WholeFile(v, M, 1, seqs'[f])
  BY <1>3, <1>14
<1>23. Ends(f, v, M, 1)'
  BY <1>17, <1>19, <1>20, <1>21, <1>22 DEF Ends
<1>24. QED
  BY <1>23

\* What the directory loses with f is the name of f only.
LEMMA WithoutKeeps ==
  ASSUME TypeOK, NEW f \in File, f \in Entries(vol), NEW g \in File, g # f, g \in Entries(vol)
  PROVE  \E s \in 1..(vol.root.len - 1) : Without(f)[s] = g
<1>1. PICK n \in Nat \ {0} : n = vol.root.len
  BY WithoutIs
<1>2. PICK at \in 1..n :
        /\ vol.root.slot[at] = f
        /\ \A s \in 1..(n - 1) : Without(f)[s] = IF s = at THEN vol.root.slot[n] ELSE vol.root.slot[s]
  BY <1>1, WithoutIs
<1>3. PICK s \in 1..n : vol.root.slot[s] = g
  BY <1>1 DEF Entries
<1>4. s # at
  BY <1>2, <1>3
<1>5. CASE s = n
  <2>1. at \in 1..(n - 1)
    BY <1>4, <1>5
  <2>2. Without(f)[at] = g
    BY <1>2, <1>3, <1>5, <2>1
  <2>3. QED
    BY <1>1, <2>1, <2>2
<1>6. CASE s # n
  <2>1. s \in 1..(n - 1)
    BY <1>6
  <2>2. Without(f)[s] = g
    BY <1>2, <1>3, <1>4, <2>1
  <2>3. QED
    BY <1>1, <2>1, <2>2
<1>7. QED
  BY <1>5, <1>6

(* The writes r are those of the removal of f from the clusters cl and from the *)
(* directory, which then has the names Without(f).                              *)
Removes(r, f, m, cl, new) ==
  /\ DOMAIN r = 1..(2 * m + BPC + 1)
  /\ \A k \in 1..m : r[2 * k - 1] = Drop(cl[k], f)
  /\ \A i \in DOMAIN r : r[i].w \in {"drop", "bit", "dir", "release"}
  /\ \A i \in DOMAIN r : r[i].w = "dir" => r[i].len = vol.root.len - 1 /\ r[i].slot = new
  /\ r[2 * m + 1].w = "dir" /\ r[2 * m + 1].i = 1
  /\ r[2 * m + BPC + 1] = Release(f)
  /\ \A s \in 1..(vol.root.len - 1) : new[s] = Without(f)[s]
  /\ \A p \in Block : vol.ctab[p].fid = f /\ p[1] \in Range(vol.table[f].clrs)
       => \E k \in 1..m : cl[k] = p[1]

\* The writes of a removal.
LEMMA RemovalIs ==
  ASSUME TypeOK, NEW f, NEW r, UnlinkQueue(r, f)
  PROVE  \E m \in Nat : \E cl, new : Removes(r, f, m, cl, new)
<1>1. PICK m \in Nat : \E cl \in [1..m -> Cluster] :
    /\ r \in Seq(Writes) /\ Len(r) = 2 * m + BPC + 1
    /\ \A i \in 1..(2 * m) : \E k \in 1..m : i = 2 * k - 1 \/ i = 2 * k
    /\ \A k \in 1..m : r[2 * k - 1] = Drop(cl[k], f) /\ r[2 * k] = Bit(cl[k])
    /\ \E new \in [RootSlot -> 0..(NF - 1)] :
         /\ \A i \in 1..BPC : r[2 * m + i] = Dir(i, vol.root.len - 1, new)
         /\ \A s \in RootSlot : s <= vol.root.len - 1 => new[s] = Without(f)[s]
    /\ r[2 * m + BPC + 1] = Release(f)
    /\ \A p \in Block : vol.ctab[p].fid = f /\ p[1] \in Range(vol.table[f].clrs)
         => \E k \in 1..m : cl[k] = p[1]
  BY DEF UnlinkQueue
<1>2. PICK cl \in [1..m -> Cluster] :
    /\ r \in Seq(Writes) /\ Len(r) = 2 * m + BPC + 1
    /\ \A i \in 1..(2 * m) : \E k \in 1..m : i = 2 * k - 1 \/ i = 2 * k
    /\ \A k \in 1..m : r[2 * k - 1] = Drop(cl[k], f) /\ r[2 * k] = Bit(cl[k])
    /\ \E new \in [RootSlot -> 0..(NF - 1)] :
         /\ \A i \in 1..BPC : r[2 * m + i] = Dir(i, vol.root.len - 1, new)
         /\ \A s \in RootSlot : s <= vol.root.len - 1 => new[s] = Without(f)[s]
    /\ r[2 * m + BPC + 1] = Release(f)
    /\ \A p \in Block : vol.ctab[p].fid = f /\ p[1] \in Range(vol.table[f].clrs)
         => \E k \in 1..m : cl[k] = p[1]
  BY <1>1
<1>3. PICK new \in [RootSlot -> 0..(NF - 1)] :
         /\ \A i \in 1..BPC : r[2 * m + i] = Dir(i, vol.root.len - 1, new)
         /\ \A s \in RootSlot : s <= vol.root.len - 1 => new[s] = Without(f)[s]
  BY <1>2
<1>4. PICK L : L = vol.root.len - 1
  OBVIOUS
<1>5. DOMAIN r = 1..(2 * m + BPC + 1)
  BY <1>2
<1>6. \A i \in 1..(2 * m + BPC + 1) :
        i \in 1..(2 * m) \/ (i - 2 * m \in 1..BPC /\ 2 * m + (i - 2 * m) = i) \/ i = 2 * m + BPC + 1
  BY Sizes
<1>7. ASSUME NEW i \in 1..(2 * m) PROVE r[i].w \in {"drop", "bit"}
  <2>1. PICK k \in 1..m : i = 2 * k - 1 \/ i = 2 * k
    BY <1>2
  <2>2. r[i] = Drop(cl[k], f) \/ r[i] = Bit(cl[k])
    BY <1>2, <2>1
  <2>3. QED
    BY <2>2, FieldsAre
<1>8. ASSUME NEW i \in 1..(2 * m + BPC + 1), i - 2 * m \in 1..BPC, 2 * m + (i - 2 * m) = i
      PROVE  r[i].w = "dir" /\ r[i].len = L /\ r[i].slot = new
  <2>1. PICK k, v : k = i - 2 * m /\ v = r[2 * m + k] /\ v = r[i]
    BY <1>8
  <2>2. v = Dir(k, L, new)
    BY <1>3, <1>4, <1>8, <2>1
  <2>3. v.w = "dir" /\ v.len = L /\ v.slot = new
    BY <2>2, FieldsAre
  <2>4. QED
    BY <2>1, <2>3
<1>9. r[2 * m + BPC + 1].w = "release"
  <2>1. PICK v : v = r[2 * m + BPC + 1]
    OBVIOUS
  <2>2. v = Release(f)
    BY <1>2, <2>1
  <2>3. v.w = "release"
    BY <2>2, FieldsAre
  <2>4. QED
    BY <2>1, <2>3
<1>10. ASSUME NEW i \in DOMAIN r
       PROVE  /\ r[i].w \in {"drop", "bit", "dir", "release"}
              /\ r[i].w = "dir" => r[i].len = L /\ r[i].slot = new
  BY <1>5, <1>6, <1>7, <1>8, <1>9
<1>11. r[2 * m + 1].w = "dir" /\ r[2 * m + 1].i = 1
  <2>1. 1 \in 1..BPC
    BY Sizes
  <2>2. PICK v : v = r[2 * m + 1]
    OBVIOUS
  <2>3. v = Dir(1, vol.root.len - 1, new)
    BY <1>3, <2>1, <2>2
  <2>4. v.w = "dir" /\ v.i = 1
    BY <2>3, FieldsAre
  <2>5. QED
    BY <2>2, <2>4
<1>12. \A s \in 1..L : new[s] = Without(f)[s]
  <2>1. PICK n \in Nat : n = vol.root.len /\ \A s \in 1..n : s \in RootSlot
    BY RootSlots
  <2>2. \A s \in 1..(n - 1) : s \in 1..n /\ s <= n - 1
    BY <2>1
  <2>3. QED
    BY <1>3, <1>4, <2>1, <2>2
<1>13. Removes(r, f, m, cl, new)
  BY <1>2, <1>4, <1>5, <1>10, <1>11, <1>12 DEF Removes
<1>14. QED
  BY <1>13

\* A removal starts: the file will have nothing.
LEMMA UnlinksEnds ==
  ASSUME TypeOK, TypeOK', DirInv, NEW f, Unlinks(f), ~NamedTwice(f), NEW u, NEW L, NEW a, Stands(f, u, L, a)
  PROVE  \E v, M : Ends(f, v, M, 0)'
<1>1. /\ f \in File /\ f \in Entries(vol) /\ UnlinkQueue(todo', f) /\ todo' # <<>>
      /\ busy' = <<"unlink", f>> /\ vol' = vol /\ seqs' = seqs
  BY DEF Unlinks
<1>2. Target' = f
  BY <1>1 DEF Target
<1>3. PICK r \in Seq(Writes) : r = todo'
  BY DEF TypeOK
<1>4. PICK m \in Nat : \E cl, new : Removes(r, f, m, cl, new)
  BY <1>1, <1>3, RemovalIs
<1>5. PICK cl, new : Removes(r, f, m, cl, new)
  BY <1>4
<1>6. /\ DOMAIN r = 1..(2 * m + BPC + 1)
      /\ \A k \in 1..m : r[2 * k - 1] = Drop(cl[k], f)
      /\ \A i \in DOMAIN r : r[i].w \in {"drop", "bit", "dir", "release"}
      /\ \A i \in DOMAIN r : r[i].w = "dir" => r[i].len = vol.root.len - 1 /\ r[i].slot = new
      /\ r[2 * m + 1].w = "dir" /\ r[2 * m + 1].i = 1
      /\ r[2 * m + BPC + 1] = Release(f)
      /\ \A s \in 1..(vol.root.len - 1) : new[s] = Without(f)[s]
      /\ \A p \in Block : vol.ctab[p].fid = f /\ p[1] \in Range(vol.table[f].clrs)
           => \E k \in 1..m : cl[k] = p[1]
  BY <1>5 DEF Removes
<1>7. PICK v : v = [p \in {} |-> 0]
  OBVIOUS
<1>8. DOMAIN v = {}
  BY <1>7
<1>9. \A l : WholeFile(v, {}, 0, l)
  <2>1. Onto(v, 0)
    BY <1>8 DEF Onto
  <2>2. QED
    BY <1>8, <2>1 DEF WholeFile
<1>10. \A s \in 1..(vol.root.len - 1) : new[s] # f
  <2>1. \A s \in 1..(vol.root.len - 1) : Without(f)[s] \in Entries(vol) /\ (Without(f)[s] = f => NamedTwice(f))
    BY <1>1, WithoutSound DEF DirInv
  <2>2. QED
    BY <1>6, <2>1
<1>11. ASSUME NEW i \in DOMAIN r PROVE Fits(r[i], f, v, {}, 0)
  <2>1. r[i].w = "dir" => f \notin NamesOf(r[i])
    BY <1>6, <1>10 DEF NamesOf
  <2>2. r[i].w \in {"drop", "bit", "dir", "release"}
    BY <1>6
  <2>3. QED
    BY <1>8, <2>1, <2>2 DEF Fits
<1>12. AllFit(f, v, {}, 0)'
  BY <1>3, <1>11 DEF AllFit, Fits, NamesOf
<1>13. BlocksDue(f, v)'
  <2>1. ASSUME NEW p \in Block PROVE BlockAs(vol', f, v, p) \/ \E j \in DOMAIN r : Settles(r[j], f, p)
    <3>1. CASE vol.ctab[p].fid # f
      BY <1>1, <1>8, <3>1 DEF BlockAs
    <3>2. CASE vol.ctab[p].fid = f
      <4>1. p \in DOMAIN u
        BY <3>2 DEF Stands, BlockAs
      <4>2. p[1] \in Range(vol.table[f].clrs)
        BY <4>1 DEF Stands, WholeFile, Lists
      <4>3. PICK k \in 1..m : cl[k] = p[1]
        BY <1>6, <3>2, <4>2
      <4>4. 2 * k - 1 \in DOMAIN r
        BY <1>4, <1>6, Sizes
      <4>5. PICK w : w = r[2 * k - 1] /\ w = Drop(cl[k], f)
        BY <1>6
      <4>6. w.w = "drop" /\ w.f = f /\ w.c = p[1]
        BY <4>3, <4>5, FieldsAre
      <4>7. Settles(w, f, p)
        BY <4>6 DEF Settles
      <4>8. QED
        BY <4>4, <4>5, <4>7
    <3>3. QED
      BY <3>1, <3>2
  <2>2. QED
    BY <1>3, <2>1 DEF BlocksDue, BlockAs, Settles
<1>14. 2 * m + 1 \in DOMAIN r /\ 2 * m + BPC + 1 \in DOMAIN r
  BY <1>4, <1>6, Sizes
<1>15. LinkDue(f, 0)'
  <2>1. PICK w, k : k = 2 * m + BPC + 1 /\ w = r[k] /\ w = Release(f)
    BY <1>6
  <2>2. w.w = "release" /\ w.f = f
    BY <2>1, FieldsAre
  <2>3. k \in DOMAIN todo' /\ todo'[k].w \in {"take", "release"} /\ todo'[k].f = f
    BY <1>3, <1>14, <2>1, <2>2
  <2>4. QED
    BY <2>3 DEF LinkDue
<1>16. ListsDue(f, {})'
  BY DEF ListsDue
<1>17. NameDue(f, 0)'
  <2>1. PICK k : k = 2 * m + 1
    OBVIOUS
  <2>2. k \in DOMAIN todo' /\ todo'[k].w = "dir" /\ todo'[k].i = 1
    BY <1>3, <1>6, <1>14, <2>1
  <2>3. QED
    BY <1>2, <2>2 DEF NameDue
<1>18. Ends(f, v, {}, 0)'
  BY <1>9, <1>12, <1>13, <1>15, <1>16, <1>17 DEF Ends
<1>19. QED
  BY <1>18

\* The directory keeps the names of the other files.
LEMMA UnlinksOther ==
  ASSUME TypeOK, TypeOK', DirInv, NEW f, Unlinks(f), NEW g \in File, g # f,
         NEW j \in DOMAIN todo', todo'[j].w = "dir"
  PROVE  g \in NamesOf(todo'[j]) <=> g \in Entries(vol)
<1>1. f \in File /\ f \in Entries(vol) /\ UnlinkQueue(todo', f)
  BY DEF Unlinks
<1>2. PICK r \in Seq(Writes) : r = todo'
  BY DEF TypeOK
<1>3. PICK m \in Nat : \E cl, new : Removes(r, f, m, cl, new)
  BY <1>1, <1>2, RemovalIs
<1>4. PICK cl, new : Removes(r, f, m, cl, new)
  BY <1>3
<1>5. /\ r[j].len = vol.root.len - 1 /\ r[j].slot = new
      /\ \A s \in 1..(vol.root.len - 1) : new[s] = Without(f)[s]
  BY <1>2, <1>4 DEF Removes
<1>6. g \in NamesOf(r[j]) <=> \E s \in 1..(vol.root.len - 1) : Without(f)[s] = g
  BY <1>5 DEF NamesOf
<1>7. \A s \in 1..(vol.root.len - 1) : Without(f)[s] \in Entries(vol) /\ (Without(f)[s] = f => NamedTwice(f))
  BY <1>1, WithoutSound DEF DirInv
<1>8. QED
  BY <1>1, <1>2, <1>6, <1>7, WithoutKeeps

(* The cached list of a whole file. *)

(* The elements of S have the numbers h, which are 0 .. n - 1. *)
Numbering(h, S, n) ==
  /\ h \in [S -> 0..(n - 1)]
  /\ \A i \in 0..(n - 1) : \E q \in S : h[q] = i
  /\ \A p, q \in S : h[p] = h[q] => p = q

\* A set whose elements are numbered 0 .. n - 1 has n of them.
LEMMA Counted ==
  ASSUME NEW S, IsFiniteSet(S), NEW n \in Nat, NEW h, Numbering(h, S, n)
  PROVE  Cardinality(S) = n
<1>1. h \in Bijection(S, 0..(n - 1))
  BY DEF Numbering, Bijection, Injection, Surjection, IsInjective
<1>2. ExistsBijection(S, 0..(n - 1))
  BY <1>1 DEF ExistsBijection
<1>3. Cardinality(0..(n - 1)) = Cardinality(S)
  BY <1>2, FS_Bijection
<1>4. Cardinality(0..(n - 1)) = n
  BY FS_Interval
<1>5. QED
  BY <1>3, <1>4

\* The blocks of a whole file have the numbers 0 .. k - 1, if it has k.
LEMMA WholeCount ==
  ASSUME NEW u, NEW n \in Nat, Onto(u, n), DOMAIN u \subseteq Block
  PROVE  Cardinality(DOMAIN u) = n /\ {u[p] : p \in DOMAIN u} = 0..(n - 1)
<1>1. PICK h : h = [p \in DOMAIN u |-> u[p]]
  OBVIOUS
<1>2. h \in [DOMAIN u -> 0..(n - 1)]
  BY <1>1 DEF Onto
<1>3. \A i \in 0..(n - 1) : \E p \in DOMAIN u : h[p] = i
  BY <1>1 DEF Onto
<1>4. \A p, q \in DOMAIN u : h[p] = h[q] => p = q
  BY <1>1 DEF Onto
<1>5. IsFiniteSet(DOMAIN u)
  BY FiniteVolume, FS_Subset
<1>6. Cardinality(DOMAIN u) = n
  <2>1. Numbering(h, DOMAIN u, n)
    BY <1>2, <1>3, <1>4 DEF Numbering
  <2>2. QED
    BY <1>5, <2>1, Counted
<1>7. {u[p] : p \in DOMAIN u} = 0..(n - 1)
  BY DEF Onto
<1>8. QED
  BY <1>6, <1>7

\* The list dev_get_file_seq builds of a whole file has all its blocks.
LEMMA ListComplete ==
  ASSUME NEW d \in Volume, NEW f \in File, Once(d.table[f].clrs),
         NEW u, NEW n \in Nat, Onto(u, n),
         \A p \in Block : d.ctab[p].fid = f <=> p \in DOMAIN u,
         DOMAIN u \subseteq Block,
         \A p \in DOMAIN u : p[1] \in Range(d.table[f].clrs)
  PROVE  Len(BlocksOf(d, f)) = n
<1>1. PICK clrs \in Seq(Cluster) : clrs = d.table[f].clrs
  BY DEF Volume, Table
<1>2. PICK k \in Nat : k = Len(clrs) /\ DOMAIN clrs = 1..k /\ \A i \in 1..k : clrs[i] \in Cluster
  BY <1>1
<1>3. PICK S : S = Places(d, f)
  OBVIOUS
<1>4. S = {q \in (1..k) \X Slot : d.ctab[<<clrs[q[1]], q[2]>>].fid = f}
  BY <1>1, <1>2, <1>3, ZenonT(30) DEF Places
<1>5. IsFiniteSet(S)
  <2>1. IsFiniteSet(1..k) /\ IsFiniteSet(Slot)
    BY FS_Interval, FiniteVolume
  <2>2. IsFiniteSet((1..k) \X Slot)
    BY <2>1, FS_Product
  <2>3. S \in SUBSET ((1..k) \X Slot)
    BY <1>4
  <2>4. QED
    BY <2>2, <2>3, FS_Subset
<1>6. PICK at : at = [q \in S |-> <<clrs[q[1]], q[2]>>]
  OBVIOUS
<1>7. ASSUME NEW q \in S
      PROVE  /\ q[1] \in 1..k /\ q[2] \in Slot /\ q = <<q[1], q[2]>>
             /\ at[q] = <<clrs[q[1]], q[2]>> /\ at[q] \in DOMAIN u
  <2>1. q[1] \in 1..k /\ q[2] \in Slot /\ q = <<q[1], q[2]>> /\ d.ctab[<<clrs[q[1]], q[2]>>].fid = f
    BY <1>4
  <2>2. at[q] = <<clrs[q[1]], q[2]>>
    BY <1>6
  <2>3. <<clrs[q[1]], q[2]>> \in Block
    BY <1>2, <2>1 DEF Block
  <2>4. QED
    BY <2>1, <2>2, <2>3
<1>8. PICK h : h = [q \in S |-> u[at[q]]]
  OBVIOUS
<1>9. h \in [S -> 0..(n - 1)]
  BY <1>7, <1>8 DEF Onto
<1>10. ASSUME NEW i \in 0..(n - 1) PROVE \E q \in S : h[q] = i
  <2>1. PICK p \in DOMAIN u : u[p] = i
    BY DEF Onto
  <2>2. p \in Block /\ p = <<p[1], p[2]>> /\ p[2] \in Slot /\ d.ctab[p].fid = f /\ p[1] \in Range(clrs)
    BY <1>1, <2>1 DEF Block
  <2>3. PICK j \in 1..k : clrs[j] = p[1]
    BY <1>2, <2>2 DEF Range
  <2>4. PICK q : q = <<j, p[2]>>
    OBVIOUS
  <2>5. q[1] = j /\ q[2] = p[2] /\ q \in (1..k) \X Slot
    BY <2>2, <2>4
  <2>6. <<clrs[q[1]], q[2]>> = p
    BY <2>2, <2>3, <2>5
  <2>7. q \in S
    BY <1>4, <2>2, <2>5, <2>6
  <2>8. h[q] = i
    BY <1>7, <1>8, <2>1, <2>6, <2>7
  <2>9. QED
    BY <2>7, <2>8
<1>11. ASSUME NEW p \in S, NEW q \in S, h[p] = h[q] PROVE p = q
  <2>1. at[p] = at[q]
    BY <1>7, <1>8, <1>11 DEF Onto
  <2>2. clrs[p[1]] = clrs[q[1]] /\ p[2] = q[2]
    BY <1>7, <2>1
  <2>3. p[1] = q[1]
    BY <1>1, <1>2, <1>7, <2>2 DEF Once
  <2>4. QED
    BY <1>7, <2>2, <2>3
<1>12. Cardinality(S) = n
  <2>1. Numbering(h, S, n)
    BY <1>9, <1>10, <1>11 DEF Numbering
  <2>2. QED
    BY <1>5, <2>1, Counted
<1>13. Len(BlocksOf(d, f)) = Cardinality(S)
  <2>1. PICK o, b : /\ o = InOrder(S)
                    /\ b = [i \in 1..Cardinality(S) |->
                              [at |-> <<clrs[o[i][1]], o[i][2]>>, num |-> d.ctab[<<clrs[o[i][1]], o[i][2]>>].num]]
    OBVIOUS
  <2>2. BlocksOf(d, f) = b
    BY <1>1, <1>3, <2>1, Zenon DEF BlocksOf, Places
  <2>3. BlocksOf(d, f) \in Seq(BlkInfo)
    BY BlocksOfAre
  <2>4. DOMAIN b = 1..n
    BY <1>12, <2>1
  <2>5. QED
    BY <1>12, <2>2, <2>3, <2>4
<1>14. QED
  BY <1>12, <1>13

-----------------------------------------------------------------------------
(* Each step keeps the files whole.                                         *)
WholeInv == ListedOnce /\ FilesWhole

\* Between requests the files no request of which was cut are there.
LEMMA WholeBetween ==
  ASSUME TypeOK, DirInv, WholeInv, NEW f \in File, Uncut(f), todo = <<>> \/ f # Target
  PROVE  \E u, L, a : Stands(f, u, L, a)
<1>1. PICK u, L, a : Ends(f, u, L, a)
  BY DEF WholeInv, FilesWhole
<1>2. Stands(f, u, L, a)
  BY <1>1, EndsStands DEF DirInv
<1>3. QED
  BY <1>2

\* A step that changes nothing a file is made of.
LEMMA SameEnds ==
  ASSUME vol' = vol, seqs' = seqs, todo' = todo, busy' = busy, NEW f \in File,
         NEW u, NEW L, NEW a, Ends(f, u, L, a)
  PROVE  Ends(f, u, L, a)'
<1>1. BlocksDue(f, u)' /\ AllFit(f, u, L, a)'
  BY DEF Ends, BlocksDue, BlockAs, Settles, AllFit, Fits, NamesOf
<1>2. LinkDue(f, a)' /\ ListsDue(f, L)' /\ NameDue(f, a)'
  BY DEF Ends, LinkDue, ListsDue, NameDue, Lists, Target
<1>3. QED
  BY <1>1, <1>2 DEF Ends

\* When nothing is due, a file that is there stays there.
LEMMA AtRest ==
  ASSUME NEW f \in File, NEW u, NEW L, NEW a, Stands(f, u, L, a), vol' = vol, todo' = <<>>,
         WholeFile(u, L, a, seqs'[f])
  PROVE  Ends(f, u, L, a)'
<1>1. AllFit(f, u, L, a)'
  BY DEF AllFit
<1>2. QED
  BY <1>1, Begun

\* No step lists a cluster twice.
LEMMA OnceStep ==
  ASSUME TypeOK, TypeOK', [Next]_vars, ListedOnce
  PROVE  ListedOnce'
<1>1. CASE vol' = vol /\ saved' = saved
  BY <1>1 DEF ListedOnce
<1>15. CASE vol' = OnDevice /\ saved' = saved
  <2>1. PICK o : o = OnDevice /\ o.table = saved.table
    BY MountIs
  <2>2. QED
    BY <1>15, <2>1 DEF ListedOnce
<1>2. CASE Write
  <2>1. PICK w, d, e : Performs(w, d, e)
    BY <1>2, WritePerforms
  <2>2. SUFFICES ASSUME NEW g \in File PROVE Once(e.table[g].clrs)
    <3>1. ASSUME \A g \in File : Once(e.table[g].clrs) PROVE ListedOnce'
      <4>1. vol' = e
        BY <2>1 DEF Performs
      <4>2. saved'.table = saved.table \/ saved'.table = e.table
        BY <1>2, <4>1, Due DEF SavedAfter
      <4>3. ASSUME NEW g \in File PROVE Once(vol'.table[g].clrs) /\ Once(saved'.table[g].clrs)
        BY <3>1, <4>1, <4>2 DEF ListedOnce
      <4>4. QED
        BY <4>3 DEF ListedOnce
    <3>2. QED
      BY <3>1
  <2>3. Once(d.table[g].clrs) /\ d \in Volume /\ w \in Writes /\ e = After(d, w)
    BY <2>1 DEF ListedOnce, Performs
  <2>35. /\ w.w = "take" /\ w.f = g => e.table[g] = [lnk |-> 1, clrs |-> <<w.c>>]
         /\ w.w = "release" /\ w.f = g => e.table[g] = [lnk |-> 0, clrs |-> d.table[g].clrs]
    BY <2>3, ListedAfter
  <2>4. CASE w.w = "take" /\ w.f = g
    <3>1. e.table[g] = [lnk |-> 1, clrs |-> <<w.c>>]
      BY <2>35, <2>4
    <3>2. e.table[g].clrs = <<w.c>>
      BY <3>1
    <3>3. Once(<<w.c>>)
      BY DEF Once
    <3>4. QED
      BY <3>2, <3>3
  <2>5. CASE w.w = "release" /\ w.f = g
    <3>1. e.table[g] = [lnk |-> 0, clrs |-> d.table[g].clrs]
      BY <2>35, <2>5
    <3>2. QED
      BY <2>3, <3>1
  <2>6. CASE w.w = "list" /\ w.f = g
    <3>1. d.table \in Tables /\ d.table[g] \in [lnk : {0, 1}, clrs : Seq(Cluster)]
      BY <2>3, DeviceFields DEF Tables
    <3>2. PICK l \in Seq(Cluster) : l = d.table[g].clrs
      BY <3>1
    <3>3. PICK m : m = IF w.c \in Range(l) THEN l ELSE Append(l, w.c)
      OBVIOUS
    <3>4. w \in ListW
      BY <2>3, <2>6, KindIs
    <3>5. e.table = [d.table EXCEPT ![g] = [lnk |-> d.table[g].lnk, clrs |-> m]]
      BY <2>3, <2>6, <3>2, <3>3, <3>4, ListDoes
    <3>6. e.table[g].clrs = m
      BY <3>1, <3>5 DEF Tables
    <3>7. Once(l)
      BY <2>3, <3>2
    <3>8. CASE w.c \in Range(l)
      BY <3>3, <3>6, <3>7, <3>8
    <3>9. CASE w.c \notin Range(l)
      <4>1. w.c \in Cluster /\ m = Append(l, w.c)
        BY <3>3, <3>4, <3>9 DEF ListW
      <4>2. PICK n \in Nat : n = Len(l) /\ DOMAIN l = 1..n
        BY <3>2
      <4>3. DOMAIN m = 1..(n + 1) /\ m[n + 1] = w.c /\ \A i \in 1..n : m[i] = l[i]
        BY <3>2, <4>1, <4>2
      <4>4. \A i \in 1..n : l[i] # w.c
        BY <3>9, <4>2 DEF Range
      <4>5. \A i \in 1..(n + 1) : i \in 1..n \/ i = n + 1
        BY <4>2
      <4>6. \A i, j \in 1..n : l[i] = l[j] => i = j
        BY <3>7, <4>2 DEF Once
      <4>7. ASSUME NEW i \in 1..(n + 1), NEW j \in 1..(n + 1), m[i] = m[j] PROVE i = j
        BY <4>3, <4>4, <4>5, <4>6, <4>7
      <4>8. Once(m)
        BY <4>3, <4>7 DEF Once
      <4>9. QED
        BY <3>6, <4>8
    <3>10. QED
      BY <3>8, <3>9
  <2>7. CASE w.w \notin {"take", "list", "release"} \/ g # w.f
    <3>1. e.table[g] = d.table[g]
      BY <2>3, <2>7, TableAfter
    <3>2. QED
      BY <2>3, <3>1
  <2>8. QED
    BY <2>4, <2>5, <2>6, <2>7
<1>3. QED
  BY <1>1, <1>15, <1>2, OnlyWrites

\* The directory keeps the names of the other files.
LEMMA GivesUpOther ==
  ASSUME TypeOK, TypeOK', DirInv, NEW f, GivesUp(f), NEW g \in File, g # f,
         NEW j \in DOMAIN todo', todo'[j].w = "dir"
  PROVE  g \in NamesOf(todo'[j]) <=> g \in Entries(vol)
<1>1. f \in File /\ GiveUpQueue(todo', f) /\ vol.root.len < PerBlock * BPC
  BY DEF GivesUp
<1>2. PICK r \in Seq(Writes) : r = todo'
  BY DEF TypeOK
<1>3. PICK new \in [RootSlot -> 0..(NF - 1)] : OneMore(new, f) /\ DirsOf(r, new)
  BY <1>1, <1>2, Zenon DEF GiveUpQueue
<1>4. PICK len \in Nat : /\ len = vol.root.len /\ \A s \in 1..(len + 1) : s \in RootSlot
                         /\ \A s \in 1..len : s \in 1..(len + 1) /\ s # len + 1
                         /\ \A s \in 1..(len + 1) : s <= len + 1 /\ (s # len + 1 => s \in 1..len)
  <2>1. PICK len \in Nat : len = vol.root.len /\ \A s \in 1..(len + 1) : s \in RootSlot
    BY <1>1, RootSlots
  <2>2. QED
    BY <2>1
<1>5. \A s \in 1..(len + 1) : new[s] = IF s = len + 1 THEN f ELSE vol.root.slot[s]
  BY <1>3, <1>4 DEF OneMore
<1>6. r[j].len = len + 1 /\ r[j].slot = new
  BY <1>2, <1>3, <1>4 DEF DirsOf
<1>7. g # 0
  BY DEF File
<1>8. g \in NamesOf(r[j]) <=> \E s \in 1..(len + 1) : new[s] = g
  BY <1>6 DEF NamesOf
<1>9. g \in Entries(vol) <=> \E s \in 1..len : vol.root.slot[s] = g
  BY <1>4, <1>7 DEF Entries
<1>10. QED
  BY <1>2, <1>4, <1>5, <1>8, <1>9

\* A creation that got no block keeps the other files whole.
LEMMA GivesUpWhole ==
  ASSUME TypeOK, TypeOK', DirInv, DirInv', WholeInv, NEW f, GivesUp(f)
  PROVE  FilesWhole'
<1>1. /\ todo = <<>> /\ busy' = <<"create", f>> /\ vol' = vol /\ seqs' = seqs /\ cut \subseteq cut'
      /\ f \in File /\ <<"gaveup", f>> \in cut'
  BY DEF GivesUp
<1>2. Target' = f
  BY <1>1 DEF Target
<1>3. SUFFICES ASSUME NEW g \in File, Uncut(g)' PROVE \E u, L, a : Ends(g, u, L, a)'
  BY DEF FilesWhole
<1>4. Uncut(g) /\ g # f
  BY <1>1, <1>3 DEF Uncut
<1>5. PICK u, L, a : Stands(g, u, L, a)
  BY <1>1, <1>4, WholeBetween
<1>6. \A j \in DOMAIN todo' : todo'[j].w = "dir" => (g \in NamesOf(todo'[j]) <=> g \in Entries(vol))
  BY <1>4, GivesUpOther
<1>7. ForTarget'
  BY DEF DirInv
<1>8. Ends(g, u, L, a)'
  BY <1>1, <1>2, <1>4, <1>5, <1>6, <1>7, BegunOther
<1>9. QED
  BY <1>8

\* A creation keeps all files whole.
LEMMA CreatesWhole ==
  ASSUME TypeOK, TypeOK', DirInv, DirInv', WholeInv, NEW f, NEW c, NEW b, Creates(f, c, b)
  PROVE  FilesWhole'
<1>1. /\ todo = <<>> /\ busy' = <<"create", f>> /\ vol' = vol /\ seqs' = seqs /\ cut \subseteq cut'
      /\ f \in File
  BY DEF Creates
<1>2. Target' = f
  BY <1>1 DEF Target
<1>3. SUFFICES ASSUME NEW g \in File, Uncut(g)' PROVE \E u, L, a : Ends(g, u, L, a)'
  BY DEF FilesWhole
<1>4. Uncut(g)
  BY <1>1, <1>3 DEF Uncut
<1>5. PICK u, L, a : Stands(g, u, L, a)
  BY <1>1, <1>4, WholeBetween
<1>6. CASE g = f
  <2>1. Ends(f, OneBlock(<<c, b>>), {c}, 1)'
    BY <1>5, <1>6, CreatesEnds
  <2>2. QED
    BY <1>6, <2>1
<1>7. CASE g # f
  <2>1. \A j \in DOMAIN todo' : todo'[j].w = "dir" => (g \in NamesOf(todo'[j]) <=> g \in Entries(vol))
    BY <1>7, CreatesOther
  <2>2. ForTarget'
    BY DEF DirInv
  <2>3. Ends(g, u, L, a)'
    BY <1>1, <1>2, <1>5, <1>7, <2>1, <2>2, BegunOther
  <2>4. QED
    BY <2>3
<1>8. QED
  BY <1>6, <1>7

\* A write request keeps all files whole.
LEMMA ExtendsWhole ==
  ASSUME TypeOK, TypeOK', DirInv, DirInv', WholeInv, NEW f, NEW n, NEW m, Extends(f, n, m)
  PROVE  FilesWhole'
<1>1. /\ todo = <<>> /\ busy' = IF todo' = <<>> THEN Idle ELSE <<"write", f>>
      /\ vol' = vol /\ seqs' = [seqs EXCEPT ![f] = NewList(f, n)] /\ cut \subseteq cut'
      /\ f \in File
  BY DEF Extends
<1>2. todo' # <<>> => Target' = f /\ busy'[1] = "write"
  BY <1>1 DEF Target
<1>3. SUFFICES ASSUME NEW g \in File, Uncut(g)' PROVE \E u, L, a : Ends(g, u, L, a)'
  BY DEF FilesWhole
<1>4. Uncut(g)
  BY <1>1, <1>3 DEF Uncut
<1>5. PICK u, L, a : Stands(g, u, L, a)
  BY <1>1, <1>4, WholeBetween
<1>6. CASE g = f
  <2>1. \E v, M : Ends(f, v, M, 1)'
    BY <1>5, <1>6, ExtendsEnds
  <2>2. QED
    BY <1>6, <2>1
<1>7. CASE g # f
  <2>1. ASSUME NEW j \in DOMAIN todo' PROVE todo'[j].w # "dir"
    <3>1. todo' # <<>>
      BY <2>1
    <3>2. QED
      BY <1>2, <2>1, <3>1 DEF DirInv, DirsDue
  <2>2. ForTarget'
    BY DEF DirInv
  <2>3. seqs'[g] = seqs[g]
    BY <1>1, <1>7, StateTyped
  <2>4. todo' = <<>> \/ g # Target'
    BY <1>2, <1>7
  <2>5. Ends(g, u, L, a)'
    BY <1>1, <1>5, <2>1, <2>2, <2>3, <2>4, BegunOther
  <2>6. QED
    BY <2>5
<1>8. QED
  BY <1>6, <1>7

\* A removal keeps all files whole.
LEMMA UnlinksWhole ==
  ASSUME TypeOK, TypeOK', DirInv, DirInv', WholeInv, NEW f, Unlinks(f)
  PROVE  FilesWhole'
<1>1. /\ todo = <<>> /\ busy' = <<"unlink", f>> /\ vol' = vol /\ seqs' = seqs /\ cut' = cut
      /\ f \in File
  BY DEF Unlinks
<1>2. Target' = f
  BY <1>1 DEF Target
<1>3. SUFFICES ASSUME NEW g \in File, Uncut(g)' PROVE \E u, L, a : Ends(g, u, L, a)'
  BY DEF FilesWhole
<1>4. Uncut(g)
  BY <1>1, <1>3 DEF Uncut
<1>5. PICK u, L, a : Stands(g, u, L, a)
  BY <1>1, <1>4, WholeBetween
<1>6. CASE g = f
  <2>0. ~NamedTwice(f)
    BY <1>4, <1>6 DEF Uncut, NamedTwice
  <2>1. \E v, M : Ends(f, v, M, 0)'
    BY <1>5, <1>6, <2>0, UnlinksEnds
  <2>2. QED
    BY <1>6, <2>1
<1>7. CASE g # f
  <2>1. \A j \in DOMAIN todo' : todo'[j].w = "dir" => (g \in NamesOf(todo'[j]) <=> g \in Entries(vol))
    BY <1>7, UnlinksOther
  <2>2. ForTarget'
    BY DEF DirInv
  <2>3. Ends(g, u, L, a)'
    BY <1>1, <1>2, <1>5, <1>7, <2>1, <2>2, BegunOther
  <2>4. QED
    BY <2>3
<1>8. QED
  BY <1>6, <1>7

\* A cached list of a whole file is complete.
LEMMA GetsWhole ==
  ASSUME TypeOK, TypeOK', DirInv, WholeInv, NEW f, Gets(f)
  PROVE  FilesWhole'
<1>1. /\ todo = <<>> /\ todo' = <<>> /\ vol' = vol /\ seqs' = [seqs EXCEPT ![f] = BlocksOf(vol, f)]
      /\ cut' = cut /\ f \in File /\ f \in Entries(vol)
  BY DEF Gets
<1>2. SUFFICES ASSUME NEW g \in File, Uncut(g)' PROVE \E u, L, a : Ends(g, u, L, a)'
  BY DEF FilesWhole
<1>3. Uncut(g)
  BY <1>1, <1>2 DEF Uncut
<1>4. PICK u, L, a : Stands(g, u, L, a)
  BY <1>1, <1>3, WholeBetween
<1>5. WholeFile(u, L, a, seqs[g])
  BY <1>4 DEF Stands
<1>6. WholeFile(u, L, a, seqs'[g])
  <2>1. CASE g # f
    <3>1. seqs'[g] = seqs[g]
      BY <1>1, <2>1, StateTyped
    <3>2. QED
      BY <1>5, <3>1
  <2>2. CASE g = f
    <3>1. seqs'[g] = BlocksOf(vol, g)
      BY <1>1, <2>2, StateTyped
    <3>2. PICK n \in Nat : Onto(u, n)
      BY <1>5 DEF WholeFile
    <3>3. DOMAIN u \subseteq Block
      BY <1>5 DEF WholeFile
    <3>4. \A p \in Block : vol.ctab[p].fid = g <=> p \in DOMAIN u
      BY <1>4 DEF Stands, BlockAs
    <3>5. \A p \in DOMAIN u : p[1] \in Range(vol.table[g].clrs)
      BY <1>4, <1>5 DEF Stands, WholeFile, Lists
    <3>6. Once(vol.table[g].clrs)
      BY DEF WholeInv, ListedOnce
    <3>7. PICK d \in Volume : d = vol
      BY StateTyped
    <3>8. Len(BlocksOf(d, g)) = n
      BY <3>2, <3>3, <3>4, <3>5, <3>6, <3>7, ListComplete
    <3>9. QED
      BY <1>5, <3>1, <3>2, <3>7, <3>8 DEF WholeFile
  <2>3. QED
    BY <2>1, <2>2
<1>7. Ends(g, u, L, a)'
  BY <1>1, <1>4, <1>6, AtRest
<1>8. QED
  BY <1>7

\* A kill spoils the file of the request at most, and a mount no file.
LEMMA MountsWhole ==
  ASSUME TypeOK, TypeOK', DirInv, SavedInv, WholeInv, Crash \/ Remount
  PROVE  FilesWhole'
<1>1. /\ seqs' = [g \in File |-> <<>>] /\ todo' = <<>> /\ vol' = OnDevice
      /\ cut \subseteq cut' /\ (todo = <<>> \/ cut' = cut \cup {busy})
  <2>1. Remount => todo = <<>>
    BY ReadyRests DEF Remount
  <2>2. QED
    BY <2>1 DEF Crash, Remount, Mounted
<1>2. SUFFICES ASSUME NEW g \in File, Uncut(g)' PROVE \E u, L, a : Ends(g, u, L, a)'
  BY DEF FilesWhole
<1>3. Uncut(g) /\ (todo = <<>> \/ g # Target)
  BY <1>1, <1>2 DEF Uncut, Target
<1>4. PICK u, L, a : Stands(g, u, L, a)
  BY <1>3, WholeBetween
<1>5. seqs'[g] = <<>>
  BY <1>1
<1>6. WholeFile(u, L, a, seqs'[g])
  BY <1>4, <1>5 DEF Stands, WholeFile
<1>7. PICK o : o = OnDevice /\ o.table = saved.table /\ o.ctab = vol.ctab /\ o.root = vol.root
  BY MountIs
<1>8. vol' = o
  BY <1>1, <1>7
<1>9. o.table[g] = vol.table[g]
  <2>1. ~GaveUp(g)
    BY <1>3 DEF Uncut, GaveUp
  <2>2. QED
    BY <1>7, <2>1 DEF SavedInv, SavedTables
<1>10. Entries(o) = Entries(vol)
  BY <1>7 DEF Entries
<1>11. BlocksDue(g, u)'
  BY <1>4, <1>7, <1>8 DEF Stands, BlocksDue, BlockAs
<1>12. LinkDue(g, a)' /\ ListsDue(g, L)'
  BY <1>4, <1>8, <1>9 DEF Stands, LinkDue, ListsDue, Lists
<1>13. NameDue(g, a)'
  BY <1>4, <1>8, <1>10 DEF Stands, NameDue
<1>14. AllFit(g, u, L, a)'
  BY <1>1 DEF AllFit
<1>15. Ends(g, u, L, a)'
  BY <1>4, <1>6, <1>11, <1>12, <1>13, <1>14 DEF Stands, Ends
<1>16. QED
  BY <1>15

\* Each step keeps the invariant.
LEMMA WholeStep ==
  ASSUME TypeOK, TypeOK', DirInv, DirInv', SavedInv, WholeInv, [Next]_vars, FirstBlockOnly, FirstBlockOnly'
  PROVE  WholeInv'
<1>1. ListedOnce'
  BY OnceStep DEF WholeInv
<1> SUFFICES FilesWhole'
  BY <1>1 DEF WholeInv
<1>2. ASSUME vol' = vol, seqs' = seqs, todo' = todo, busy' = busy, cut' = cut PROVE FilesWhole'
  <2>1. SUFFICES ASSUME NEW g \in File, Uncut(g)' PROVE \E u, L, a : Ends(g, u, L, a)'
    BY DEF FilesWhole
  <2>2. Uncut(g)
    BY <1>2, <2>1 DEF Uncut
  <2>3. PICK u, L, a : Ends(g, u, L, a)
    BY <2>2 DEF WholeInv, FilesWhole
  <2>4. Ends(g, u, L, a)'
    BY <1>2, <2>3, SameEnds
  <2>5. QED
    BY <2>4
<1>3. CASE Loses
  BY <1>2, <1>3 DEF Loses, Rest
<1>4. CASE UNCHANGED vars
  BY <1>2, <1>4 DEF vars
<1>5. CASE Write
  <2>1. cut' = cut
    BY <1>5 DEF Write
  <2>2. SUFFICES ASSUME NEW g \in File, Uncut(g)' PROVE \E u, L, a : Ends(g, u, L, a)'
    BY DEF FilesWhole, WholeInv
  <2>3. Uncut(g)
    BY <2>1, <2>2 DEF Uncut
  <2>4. PICK u, L, a : Ends(g, u, L, a)
    BY <2>3 DEF WholeInv, FilesWhole
  <2>5. ForTarget /\ DirsDue
    BY DEF DirInv
  <2>6. Ends(g, u, L, a)'
    BY <1>5, <2>4, <2>5, EndsKept
  <2>7. QED
    BY <2>6
<1>6. QED
  BY <1>3, <1>4, <1>5, CreatesWhole, GivesUpWhole, ExtendsWhole, UnlinksWhole, GetsWhole, MountsWhole, StepIs

\* On the formatted volume there are no files.
LEMMA WholeInit ==
  ASSUME Init
  PROVE  WholeInv
<1>1. vol = Formatted /\ seqs = [f \in File |-> <<>>] /\ todo = <<>>
  BY DEF Init
<1>2. /\ \A f \in File : vol.table[f] = [lnk |-> 0, clrs |-> <<>>]
      /\ \A p \in Block : vol.ctab[p].fid = 0
      /\ Entries(vol) = {}
  BY <1>1 DEF Formatted, FreeEntry, Entries
<1>3. ListedOnce
  <2>1. saved.table = vol.table
    BY DEF Init
  <2>2. QED
    BY <1>2, <2>1 DEF ListedOnce, Once
<1>4. PICK u : u = [p \in {} |-> 0]
  OBVIOUS
<1>5. DOMAIN u = {}
  BY <1>4
<1>6. ASSUME NEW f \in File PROVE Ends(f, u, {}, 0)
  <2>1. WholeFile(u, {}, 0, seqs[f])
    <3>1. Onto(u, 0)
      BY <1>5 DEF Onto
    <3>2. QED
      BY <1>5, <3>1 DEF WholeFile
  <2>2. f # 0
    BY DEF File
  <2>3. BlocksDue(f, u) /\ LinkDue(f, 0) /\ ListsDue(f, {}) /\ NameDue(f, 0)
    BY <1>2, <1>5, <2>2 DEF BlocksDue, BlockAs, LinkDue, ListsDue, NameDue
  <2>4. AllFit(f, u, {}, 0)
    BY <1>1 DEF AllFit
  <2>5. QED
    BY <2>1, <2>3, <2>4 DEF Ends
<1>7. FilesWhole
  BY <1>6 DEF FilesWhole
<1>8. QED
  BY <1>3, <1>7 DEF WholeInv

\* A file that is there has its blocks numbered without a gap, in clusters it
\* lists.
LEMMA StandsWhole ==
  ASSUME TypeOK, DirInv, SavedInv, WholeInv
  PROVE  UnhitWhole
<1>1. SUFFICES ASSUME NEW f \in Unhit
               PROVE  /\ f \in Entries(vol) <=> saved.table[f].lnk # 0
                      /\ saved.table[f].lnk = 0 => Owned(f) = {}
                      /\ {p[1] : p \in Owned(f)} \subseteq Listed(f)
                      /\ {vol.ctab[p].num : p \in Owned(f)} = 0..(Cardinality(Owned(f)) - 1)
  BY DEF UnhitWhole
<1>2. f \in File /\ Uncut(f) /\ f # Target
  BY DEF Unhit, Hit, Uncut, Target
<1>3. PICK u, L, a : Stands(f, u, L, a)
  BY <1>2, WholeBetween
<1>4. /\ a \in {0, 1} /\ WholeFile(u, L, a, seqs[f])
      /\ \A p \in Block : BlockAs(vol, f, u, p)
      /\ vol.table[f].lnk = a
      /\ L \subseteq Lists(f)
      /\ f \in Entries(vol) <=> a = 1
  BY <1>3 DEF Stands
<1>5. PICK n \in Nat : Onto(u, n)
  BY <1>4 DEF WholeFile
<1>6. DOMAIN u \subseteq Block /\ (\A p \in DOMAIN u : p[1] \in L) /\ (a = 1 \/ DOMAIN u = {})
  BY <1>4 DEF WholeFile
<1>7. Owned(f) = DOMAIN u /\ \A p \in DOMAIN u : vol.ctab[p].num = u[p]
  BY <1>4, <1>6 DEF Owned, BlockAs
<1>8. Cardinality(DOMAIN u) = n /\ {u[p] : p \in DOMAIN u} = 0..(n - 1)
  BY <1>5, <1>6, WholeCount
<1>9. {vol.ctab[p].num : p \in DOMAIN u} = {u[p] : p \in DOMAIN u}
  BY <1>7
<1>10. saved.table[f] = vol.table[f]
  <2>1. ~GaveUp(f)
    BY <1>2 DEF Uncut, GaveUp
  <2>2. QED
    BY <1>2, <2>1 DEF SavedInv, SavedTables
<1>11. {p[1] : p \in DOMAIN u} \subseteq Listed(f)
  BY <1>4, <1>6, <1>10 DEF Lists, Listed
<1>12. QED
  BY <1>4, <1>6, <1>7, <1>8, <1>9, <1>10, <1>11

\* As long as the entries lie in the first block of the directory, a file no
\* request of which was cut is whole, whatever was cut for others: named if and
\* only if it is taken, its blocks numbered without a gap and in clusters it lists.
THEOREM CrashUnhit == Spec /\ []FirstBlockOnly => []UnhitWhole
<1>1. Init => TypeOK /\ SavedInv /\ DirInv /\ WholeInv
  BY TypeInit, SavedInit, DirInit, WholeInit
<1>2. TypeOK /\ SavedInv /\ DirInv /\ WholeInv /\ [Next]_vars /\ FirstBlockOnly /\ FirstBlockOnly'
        => (TypeOK /\ SavedInv /\ DirInv /\ WholeInv)'
  BY TypeStep, SavedStep, DirStep, WholeStep
<1>3. TypeOK /\ SavedInv /\ DirInv /\ WholeInv => UnhitWhole
  BY StandsWhole
<1>4. QED
  BY <1>1, <1>2, <1>3, PTL DEF Spec

-----------------------------------------------------------------------------
(* The bytes of a file, up to the size in its header.                       *)

(* No creation or removal of f was cut, nothing was done after a write was, and *)
(* its creation got a block.                                                    *)
Clean(f) == \A k \in {"create", "unlink", "again", "gaveup"} : <<k, f>> \notin cut

(* No identifier was handed out while an entry named it. *)
OnceNamed == \A f \in File : ~NamedTwice(f)

(* Write w is due before place j of the queue r. *)
Coming(r, j, w) == \E k \in DOMAIN r : k < j /\ r[k] = w

(* On device d block p is number i of f; it was last written as number i of the n-th f. *)
Placed(d, f, p, i)    == d.ctab[p].fid = f /\ d.ctab[p].num = i
Tagged(d, f, n, p, i) == d.data[p].f = f /\ d.data[p].gen = n /\ d.data[p].num = i
TagData(f, n, p, i)  == Data(p, [f |-> f, gen |-> n, num |-> i, size |-> 0])

(* So it is, or it will be at place j of the queue. *)
PlacedBy(d, r, j, f, p, i)    == Placed(d, f, p, i) \/ Coming(r, j, Own(p, f, i))
ListedFrom(d, r, j, f, c)     == ListsIt(d, f, c) \/ Coming(r, j, List(f, c))
TaggedBy(d, r, j, f, n, p, i) == Tagged(d, f, n, p, i) \/ Coming(r, j, TagData(f, n, p, i))
StoredBy(d, r, j, f, n, p, i) ==
  /\ PlacedBy(d, r, j, f, p, i) /\ ListedFrom(d, r, j, f, p[1]) /\ TaggedBy(d, r, j, f, n, p, i)

(* Block i of the n-th f is listed and holds what was written there. *)
Stored(d, f, n, p, i) == Placed(d, f, p, i) /\ ListsIt(d, f, p[1]) /\ Tagged(d, f, n, p, i)

(* No two blocks of f have one number; it has a header, and blocks up to its size. *)
Unique(d, f) ==
  \A p, q \in Block : d.ctab[p].fid = f /\ d.ctab[q].fid = f /\ d.ctab[p].num = d.ctab[q].num => p = q
Filled(d, f, n, s) == \A i \in 0..(s - 1) : \E p \in Block : Stored(d, f, n, p, i)
Headed(d, f, n, p) == Placed(d, f, p, 0) /\ ListsIt(d, f, p[1]) /\ Filled(d, f, n, d.data[p].size)
Good(d, f, n)      == Unique(d, f) /\ \E p \in Block : Headed(d, f, n, p)

-----------------------------------------------------------------------------
(* The invariant.                                                           *)

(* A request at work on a file that claims its bytes has found it whole. *)
Fresh == busy[1] \in {"create", "write"} /\ Clean(Target) => Uncut(Target)

(* Blocks that will be the file's are free, none is taken twice. *)
OwnsFree ==
  /\ \A j \in DOMAIN todo : todo[j].w = "own" => vol.ctab[todo[j].p].fid = 0
  /\ \A j, k \in DOMAIN todo : todo[j].w = "own" /\ todo[k].w = "own" /\ todo[j].p = todo[k].p => j = k

(* Their numbers are new. *)
OwnsNew ==
  busy[1] = "write" /\ Clean(Target) =>
    /\ \A j \in DOMAIN todo : todo[j].w = "own" =>
         \A q \in Block : vol.ctab[q].fid = Target => vol.ctab[q].num # todo[j].i
    /\ \A j, k \in DOMAIN todo : todo[j].w = "own" /\ todo[k].w = "own" /\ todo[j].i = todo[k].i => j = k

(* Payload goes where its number is. *)
DataFits ==
  \A j \in DOMAIN todo : todo[j].w = "data" =>
    /\ busy[1] = "write" /\ todo[j].x.f = Target /\ todo[j].x.gen = gen[Target]
    /\ PlacedBy(vol, todo, j, Target, todo[j].p, todo[j].x.num)

(* The size is written when the blocks it covers are. *)
SizeFits ==
  \A j \in DOMAIN todo : todo[j].w = "size" =>
    /\ busy[1] = "write"
    /\ Clean(Target) => \A i \in 0..(todo[j].n - 1) : \E p \in Block : StoredBy(vol, todo, j, Target, gen[Target], p, i)

(* The header of a new file goes to its only block, last of all. *)
HeadDue(d, r, f, j, p) ==
  /\ j \in DOMAIN r /\ j = Len(r) /\ r[j].w = "head" /\ r[j].p = p /\ r[j].x.size = 0
  /\ PlacedBy(d, r, j, f, p, 0)
  /\ \A q \in Block : d.ctab[q].fid = f => q = p
  /\ \A k \in DOMAIN r : r[k].w = "own" => r[k].p = p
  /\ ListsIt(d, f, p[1]) \/ Coming(r, j, Take(f, p[1]))
  /\ \A k \in DOMAIN r : r[k].w = "take" => r[k].c = p[1]
HeadFits ==
  /\ \A j \in DOMAIN todo : todo[j].w = "head" => busy[1] = "create"
  /\ busy[1] = "create" /\ Clean(Target) => \E j \in Nat : \E p \in Block : HeadDue(vol, todo, Target, j, p)

(* A cached list says what the device will, when the request is done. *)
CachedIs(d, r, g, l) ==
  \A k \in DOMAIN l : /\ PlacedBy(d, r, Len(r) + 1, g, l[k].at, l[k].num)
                      /\ ListedFrom(d, r, Len(r) + 1, g, l[k].at[1])
CachedFits ==
  \A g \in Entries(vol) : busy # <<"unlink", g>> => CachedIs(vol, todo, g, seqs[g])

(* The files that claim their bytes have them. *)
GoodFiles ==
  \A f \in Entries(vol) : Clean(f) /\ busy \notin {<<"create", f>>, <<"unlink", f>>} => Good(vol, f, gen[f])

SizeInv == Fresh /\ OwnsFree /\ OwnsNew /\ DataFits /\ SizeFits /\ HeadFits /\ CachedFits /\ GoodFiles

-----------------------------------------------------------------------------
(* What a write leaves.                                                     *)

\* What is due is due with its place moved up by one, unless it was performed.
LEMMA ComingAfter ==
  ASSUME TypeOK, Write, NEW j \in Nat, NEW w, NEW v, w = todo[1], Coming(todo, j + 1, v)
  PROVE  v = w \/ Coming(todo', j, v)
<1>1. PICK k \in DOMAIN todo : k < j + 1 /\ todo[k] = v
  BY DEF Coming
<1>2. CASE k = 1
  BY <1>1, <1>2
<1>3. CASE k # 1
  <2>1. k - 1 \in DOMAIN todo' /\ k \in Int
    BY <1>3, Due, StateTyped
  <2>2. todo'[k - 1] = todo[(k - 1) + 1] /\ (k - 1) + 1 = k /\ k - 1 < j
    BY <1>1, <2>1, Due
  <2>3. QED
    BY <1>1, <2>1, <2>2 DEF Coming
<1>4. QED
  BY <1>2, <1>3

\* A block keeps its owner and number, unless the file's blocks are dropped.
LEMMA PlacedAfter ==
  ASSUME OwnsFree, NEW w, NEW d, NEW e, Performs(w, d, e), NEW f \in File, NEW p \in Block, NEW i,
         Placed(d, f, p, i), ~(w.w = "drop" /\ w.f = f)
  PROVE  Placed(e, f, p, i)
<1>1. w \in Writes /\ d \in Volume /\ e = After(d, w) /\ d = vol /\ 1 \in DOMAIN todo /\ w = todo[1]
  BY DEF Performs
<1>2. d.ctab[p].fid = f /\ f # 0
  BY Sizes DEF Placed, File
<1>3. w.w = "own" => w.p # p
  BY <1>1, <1>2 DEF OwnsFree
<1>4. e.ctab[p] = d.ctab[p]
  <2>0. /\ w.w \notin {"own", "drop"} => e.ctab[p] = d.ctab[p]
        /\ w.w = "own" => e.ctab[p] = IF p = w.p THEN [fid |-> w.f, num |-> w.i] ELSE d.ctab[p]
        /\ w.w = "drop" => e.ctab[p] = IF p[1] = w.c /\ d.ctab[p].fid = w.f THEN FreeEntry ELSE d.ctab[p]
    <3>1. w \in Writes /\ d \in Volume /\ e = After(d, w)
      BY <1>1
    <3>2. QED
      BY <3>1, EntryAfter
  <2>1. /\ w.w \notin {"own", "drop"} => e.ctab[p] = d.ctab[p]
        /\ w.w = "own" /\ p # w.p => e.ctab[p] = d.ctab[p]
        /\ w.w = "drop" /\ ~(p[1] = w.c /\ d.ctab[p].fid = w.f) => e.ctab[p] = d.ctab[p]
    BY <2>0
  <2>2. w.w = "drop" => w.f # f
    OBVIOUS
  <2>3. w.w = "drop" => ~(p[1] = w.c /\ d.ctab[p].fid = w.f)
    BY <1>2, <2>2
  <2>4. QED
    BY <1>3, <2>1, <2>3
<1>5. QED
  BY <1>4 DEF Placed

\* The block given to f is its own then.
LEMMA OwnPlaces ==
  ASSUME NEW w, NEW d, NEW e, Performs(w, d, e), NEW f \in File, NEW p \in Block, NEW i, w = Own(p, f, i)
  PROVE  Placed(e, f, p, i)
<1>1. w.w = "own" /\ w.p = p /\ w.f = f /\ w.i = i
  BY FieldsAre
<1>2. e.ctab[p] = [fid |-> f, num |-> i]
  BY <1>1, EntryAfter DEF Performs
<1>3. QED
  BY <1>2 DEF Placed

\* So a block that is or will be in its place is so after a write.
LEMMA PlacedByAfter ==
  ASSUME TypeOK, Write, OwnsFree, NEW w, NEW d, NEW e, Performs(w, d, e), NEW f \in File, NEW p \in Block, NEW i,
         NEW j \in Nat, PlacedBy(d, todo, j + 1, f, p, i), ~(w.w = "drop" /\ w.f = f)
  PROVE  PlacedBy(e, todo', j, f, p, i)
<1>1. CASE Placed(d, f, p, i)
  BY <1>1, PlacedAfter DEF PlacedBy
<1>2. CASE Coming(todo, j + 1, Own(p, f, i))
  <2>1. PICK v : v = Own(p, f, i)
    OBVIOUS
  <2>2. v = w \/ Coming(todo', j, v)
    BY <1>2, <2>1, ComingAfter DEF Performs
  <2>3. v = w => Placed(e, f, p, i)
    BY <2>1, OwnPlaces
  <2>4. QED
    BY <2>1, <2>2, <2>3 DEF PlacedBy
<1>3. QED
  BY <1>1, <1>2 DEF PlacedBy

\* A listed cluster stays listed, unless the file is taken anew.
LEMMA ListedFromAfter ==
  ASSUME TypeOK, Write, NEW w, NEW d, NEW e, Performs(w, d, e), NEW f \in File, NEW c, NEW j \in Nat,
         ListedFrom(d, todo, j + 1, f, c), ~(w.w = "take" /\ w.f = f)
  PROVE  ListedFrom(e, todo', j, f, c)
<1>0. w \in Writes /\ d \in Volume /\ e = After(d, w) /\ w = todo[1]
  BY DEF Performs
<1>1. CASE ListsIt(d, f, c)
  <2>1. ListsMore(d, e, f)
    BY <1>0, ListedAfter
  <2>2. ListsIt(e, f, c)
    BY <1>1, <2>1 DEF ListsMore, ListsIt
  <2>3. QED
    BY <2>2 DEF ListedFrom
<1>2. CASE Coming(todo, j + 1, List(f, c))
  <2>1. PICK v : v = List(f, c)
    OBVIOUS
  <2>2. v = w \/ Coming(todo', j, v)
    BY <1>0, <1>2, <2>1, ComingAfter
  <2>3. v = w => ListsIt(e, f, c)
    <3>1. v.w = "list" /\ v.f = f /\ v.c = c
      BY <2>1, FieldsAre
    <3>2. QED
      BY <1>0, <3>1, ListedAfter
  <2>4. QED
    BY <2>1, <2>2, <2>3 DEF ListedFrom
<1>3. QED
  BY <1>1, <1>2 DEF ListedFrom

\* What a write leaves in a block.
LEMMA BytesAfter ==
  ASSUME NEW w, NEW d, NEW e, Performs(w, d, e), NEW p \in Block
  PROVE  /\ w.w \notin {"head", "data", "size"} \/ p # w.p => e.data[p] = d.data[p]
         /\ w.w = "head" /\ p = w.p => e.data[p] = w.x
         /\ w.w = "data" /\ p = w.p => /\ e.data[p].f = w.x.f /\ e.data[p].gen = w.x.gen /\ e.data[p].num = w.x.num
                                       /\ e.data[p].size = IF w.x.num = 0 THEN d.data[p].size ELSE 0
         /\ w.w = "size" /\ p = w.p => /\ e.data[p].f = d.data[p].f /\ e.data[p].gen = d.data[p].gen
                                       /\ e.data[p].num = d.data[p].num
                                       /\ e.data[p].size = IF d.data[p].size < w.n THEN w.n ELSE d.data[p].size
<1>1. w \in Writes /\ d \in Volume /\ e = After(d, w)
  BY DEF Performs
<1>2. d.data \in Contents /\ d.data[p] \in Content
  BY <1>1, DeviceFields DEF Contents
<1>3. w.w \notin {"head", "data", "size"} \/ p # w.p => e.data[p] = d.data[p]
  BY <1>1, DataAfter
<1>4. ASSUME w.w = "head", p = w.p PROVE e.data[p] = w.x
  <2>1. w \in HeadW
    BY <1>1, <1>4, KindIs
  <2>2. e.data = [d.data EXCEPT ![w.p] = w.x]
    BY <1>1, <2>1, DataDoes
  <2>3. QED
    BY <1>2, <1>4, <2>2 DEF Contents
<1>5. ASSUME w.w = "data", p = w.p
      PROVE  /\ e.data[p].f = w.x.f /\ e.data[p].gen = w.x.gen /\ e.data[p].num = w.x.num
             /\ e.data[p].size = IF w.x.num = 0 THEN d.data[p].size ELSE 0
  <2>1. w \in DataW /\ w \notin HeadW /\ w.x \in Content
    BY <1>1, <1>5, KindIs DEF DataW, HeadW
  <2>2. PICK z : z = IF w.x.num = 0 THEN d.data[p].size ELSE 0
    OBVIOUS
  <2>3. PICK x : x = [w.x EXCEPT !.size = z]
    OBVIOUS
  <2>4. e.data = [d.data EXCEPT ![w.p] = x]
    BY <1>1, <1>5, <2>1, <2>2, <2>3, DataDoes
  <2>5. e.data[p] = x
    BY <1>2, <1>5, <2>4 DEF Contents
  <2>6. x.f = w.x.f /\ x.gen = w.x.gen /\ x.num = w.x.num /\ x.size = z
    BY <2>1, <2>3 DEF Content
  <2>7. QED
    BY <2>2, <2>5, <2>6
<1>6. ASSUME w.w = "size", p = w.p
      PROVE  /\ e.data[p].f = d.data[p].f /\ e.data[p].gen = d.data[p].gen /\ e.data[p].num = d.data[p].num
             /\ e.data[p].size = IF d.data[p].size < w.n THEN w.n ELSE d.data[p].size
  <2>1. w \in SizeW /\ w \notin HeadW /\ w \notin DataW
    BY <1>1, <1>6, KindIs DEF SizeW, DataW, HeadW
  <2>2. PICK z : z = IF d.data[p].size < w.n THEN w.n ELSE d.data[p].size
    OBVIOUS
  <2>3. PICK x : x = [d.data[p] EXCEPT !.size = z]
    OBVIOUS
  <2>4. e.data = [d.data EXCEPT ![w.p] = x]
    BY <1>1, <1>6, <2>1, <2>2, <2>3, DataDoes
  <2>5. e.data[p] = x
    BY <1>2, <1>6, <2>4 DEF Contents
  <2>6. x.f = d.data[p].f /\ x.gen = d.data[p].gen /\ x.num = d.data[p].num /\ x.size = z
    BY <1>2, <2>3 DEF Content
  <2>7. QED
    BY <2>2, <2>5, <2>6
<1>7. QED
  BY <1>3, <1>4, <1>5, <1>6

\* What the first write due is about.
LEMMA FirstWrite ==
  ASSUME ForTarget, NEW w, NEW d, NEW e, Performs(w, d, e)
  PROVE  /\ w.w \in {"own", "drop", "take", "list", "release"} => w.f = Target
         /\ w.w \in {"drop", "release"} => busy[1] = "unlink"
         /\ w.w = "take" => busy[1] = "create"
         /\ w.w \in {"own", "list", "head", "data", "size"} => busy[1] # "unlink"
         /\ busy[1] \in {"create", "write", "unlink"} /\ busy = <<busy[1], Target>> /\ Target \in File
<1>1. w = todo[1] /\ 1 \in DOMAIN todo
  BY DEF Performs
<1>2. busy[1] \in {"create", "write", "unlink"} /\ busy = <<busy[1], Target>> /\ Target \in File
  BY DEF Performs, Target
<1>3. QED
  BY <1>1, <1>2 DEF ForTarget

\* Payload is written to the block that has its number by then.
LEMMA DataPlaced ==
  ASSUME TypeOK, DataFits, NEW w, NEW d, NEW e, Performs(w, d, e), w.w = "data"
  PROVE  /\ busy[1] = "write" /\ w.x.f = Target /\ w.x.gen = gen[Target] /\ Placed(d, Target, w.p, w.x.num)
<1>1. w = todo[1] /\ 1 \in DOMAIN todo /\ d = vol
  BY DEF Performs
<1>2. /\ busy[1] = "write" /\ w.x.f = Target /\ w.x.gen = gen[Target]
      /\ PlacedBy(d, todo, 1, Target, w.p, w.x.num)
  BY <1>1 DEF DataFits
<1>3. \A v : ~Coming(todo, 1, v)
  <2>1. \A k \in DOMAIN todo : ~(k < 1)
    BY StateTyped
  <2>2. QED
    BY <2>1 DEF Coming
<1>4. QED
  BY <1>2, <1>3 DEF PlacedBy

\* What was written as block i of the target stays, for only block i is written as block i.
LEMMA TaggedAfter ==
  ASSUME TypeOK, ForTarget, DataFits, NEW w, NEW d, NEW e, Performs(w, d, e), NEW p \in Block, NEW i,
         busy[1] # "create", HeadFits, Placed(d, Target, p, i), Tagged(d, Target, gen[Target], p, i)
  PROVE  Tagged(e, Target, gen[Target], p, i)
<1>1. w.w # "head"
  BY DEF HeadFits, Performs
<1>2. CASE w.w = "data" /\ p = w.p
  <2>1. w.x.f = Target /\ w.x.gen = gen[Target] /\ Placed(d, Target, w.p, w.x.num)
    BY <1>2, DataPlaced
  <2>2. w.x.num = i
    BY <1>2, <2>1 DEF Placed
  <2>3. QED
    BY <1>2, <2>1, <2>2, BytesAfter DEF Tagged
<1>3. CASE w.w = "size" /\ p = w.p
  BY <1>3, BytesAfter DEF Tagged
<1>4. CASE w.w \notin {"head", "data", "size"} \/ p # w.p
  <2>1. e.data[p] = d.data[p]
    BY <1>4, BytesAfter
  <2>2. QED
    BY <2>1 DEF Tagged
<1>5. QED
  BY <1>1, <1>2, <1>3, <1>4

-----------------------------------------------------------------------------
(* Each write keeps the parts of the invariant.                             *)

\* Nothing comes before the first place.
LEMMA NoneComing ==
  ASSUME TypeOK, NEW v
  PROVE  ~Coming(todo, 1, v)
<1>1. \A k \in DOMAIN todo : ~(k < 1)
  BY StateTyped
<1>2. QED
  BY <1>1 DEF Coming

\* A write is performed for a request that goes on, or for one that ends with it.
LEMMA GoesOn ==
  ASSUME TypeOK, Write, NEW w, NEW d, NEW e, Performs(w, d, e), busy'[1] \in {"create", "write", "unlink"}
  PROVE  todo' # <<>> /\ busy' = busy /\ Target' = Target
<1>1. todo' # <<>>
  BY DEF Performs, Idle
<1>2. QED
  BY <1>1 DEF Performs, Target

\* A write changes neither what was cut nor which files there were.
LEMMA SameFiles ==
  ASSUME Write
  PROVE  cut' = cut /\ gen' = gen /\ seqs' = seqs /\ \A f : Clean(f)' <=> Clean(f)
  BY DEF Write, Clean

\* Blocks that will be the file's stay free.
LEMMA OwnsFreeKept ==
  ASSUME TypeOK, Write, OwnsFree
  PROVE  OwnsFree'
<1>1. PICK w, d, e : Performs(w, d, e)
  BY WritePerforms
<1>2. ASSUME NEW j \in DOMAIN todo', todo'[j].w = "own" PROVE e.ctab[todo'[j].p].fid = 0
  <2>1. j + 1 \in DOMAIN todo /\ todo'[j] = todo[j + 1] /\ todo[j + 1] \in Writes /\ j \in Nat
    BY <1>1, Due, StillDue
  <2>2. PICK p \in Block : p = todo'[j].p
    <3>1. todo[j + 1] \in OwnW
      BY <1>2, <2>1, KindIs
    <3>2. QED
      BY <2>1, <3>1 DEF OwnW
  <2>3. d.ctab[p].fid = 0
    BY <1>1, <1>2, <2>1, <2>2 DEF OwnsFree, Performs
  <2>4. ~(w.w = "own" /\ p = w.p)
    <3>1. ASSUME w.w = "own", p = w.p PROVE FALSE
      <4>1. 1 = j + 1
        BY <1>1, <1>2, <2>1, <2>2, <3>1 DEF OwnsFree, Performs
      <4>2. QED
        BY <2>1, <4>1, Due
    <3>2. QED
      BY <3>1
  <2>5. \/ e.ctab[p] = d.ctab[p]
        \/ w.w = "own" /\ p = w.p /\ e.ctab[p].fid = w.f
        \/ w.w = "drop" /\ d.ctab[p].fid = w.f /\ e.ctab[p].fid = 0
    BY <1>1, OwnerAfter DEF Performs
  <2>6. QED
    BY <2>2, <2>3, <2>4, <2>5
<1>3. ASSUME NEW j \in DOMAIN todo', NEW k \in DOMAIN todo', todo'[j].w = "own", todo'[k].w = "own",
             todo'[j].p = todo'[k].p
      PROVE  j = k
  <2>1. /\ j + 1 \in DOMAIN todo /\ todo'[j] = todo[j + 1] /\ j \in Nat
        /\ k + 1 \in DOMAIN todo /\ todo'[k] = todo[k + 1] /\ k \in Nat
    BY Due
  <2>2. j + 1 = k + 1
    BY <1>3, <2>1 DEF OwnsFree
  <2>3. QED
    BY <2>1, <2>2
<1>4. e = vol'
  BY <1>1 DEF Performs
<1>5. QED
  BY <1>2, <1>3, <1>4 DEF OwnsFree

\* Their numbers stay new.
LEMMA OwnsNewKept ==
  ASSUME TypeOK, Write, ForTarget, OwnsNew
  PROVE  OwnsNew'
<1>1. PICK w, d, e : Performs(w, d, e)
  BY WritePerforms
<1>2. SUFFICES ASSUME busy'[1] = "write", Clean(Target)'
               PROVE  /\ \A j \in DOMAIN todo' : todo'[j].w = "own" =>
                           \A q \in Block : vol'.ctab[q].fid = Target' => vol'.ctab[q].num # todo'[j].i
                      /\ \A j, k \in DOMAIN todo' :
                           todo'[j].w = "own" /\ todo'[k].w = "own" /\ todo'[j].i = todo'[k].i => j = k
  BY DEF OwnsNew
<1>3. busy' = busy /\ Target' = Target /\ busy[1] = "write" /\ Clean(Target)
  <2>1. busy' = busy /\ Target' = Target
    BY <1>1, <1>2, GoesOn
  <2>2. QED
    BY <1>2, <2>1 DEF Clean, Write
<1>4. /\ \A j \in DOMAIN todo : todo[j].w = "own" =>
            \A q \in Block : d.ctab[q].fid = Target => d.ctab[q].num # todo[j].i
      /\ \A j, k \in DOMAIN todo : todo[j].w = "own" /\ todo[k].w = "own" /\ todo[j].i = todo[k].i => j = k
  BY <1>1, <1>3 DEF OwnsNew, Performs
<1>5. ASSUME NEW j \in DOMAIN todo', todo'[j].w = "own", NEW q \in Block, e.ctab[q].fid = Target
      PROVE  e.ctab[q].num # todo'[j].i
  <2>1. j + 1 \in DOMAIN todo /\ todo'[j] = todo[j + 1] /\ j \in Nat /\ j # 0
    BY Due
  <2>2. d.ctab[q].fid = Target => d.ctab[q].num # todo'[j].i
    BY <1>4, <1>5, <2>1
  <2>3. w.w = "own" => w.i # todo'[j].i
    <3>1. ASSUME w.w = "own", w.i = todo'[j].i PROVE FALSE
      <4>1. 1 = j + 1
        BY <1>1, <1>4, <1>5, <2>1, <3>1 DEF Performs
      <4>2. QED
        BY <2>1, <4>1
    <3>2. QED
      BY <3>1
  <2>4. w.w # "drop"
    BY <1>1, <1>3, FirstWrite
  <2>5. /\ w.w \notin {"own", "drop"} => e.ctab[q] = d.ctab[q]
        /\ w.w = "own" => e.ctab[q] = IF q = w.p THEN [fid |-> w.f, num |-> w.i] ELSE d.ctab[q]
    <3>1. w \in Writes /\ d \in Volume /\ e = After(d, w)
      BY <1>1 DEF Performs
    <3>2. QED
      BY <3>1, EntryAfter
  <2>6. CASE w.w = "own" /\ q = w.p
    <3>1. e.ctab[q] = [fid |-> w.f, num |-> w.i]
      BY <2>5, <2>6
    <3>2. QED
      BY <2>3, <2>6, <3>1
  <2>7. CASE ~(w.w = "own" /\ q = w.p)
    <3>1. e.ctab[q] = d.ctab[q]
      BY <2>4, <2>5, <2>7
    <3>2. QED
      BY <1>5, <2>2, <3>1
  <2>8. QED
    BY <2>6, <2>7
<1>6. ASSUME NEW j \in DOMAIN todo', NEW k \in DOMAIN todo', todo'[j].w = "own", todo'[k].w = "own",
             todo'[j].i = todo'[k].i
      PROVE  j = k
  <2>1. /\ j + 1 \in DOMAIN todo /\ todo'[j] = todo[j + 1] /\ j \in Nat
        /\ k + 1 \in DOMAIN todo /\ todo'[k] = todo[k + 1] /\ k \in Nat
    BY Due
  <2>2. j + 1 = k + 1
    BY <1>4, <1>6, <2>1
  <2>3. QED
    BY <2>1, <2>2
<1>7. e = vol'
  BY <1>1 DEF Performs
<1>8. QED
  BY <1>3, <1>5, <1>6, <1>7

\* Payload still goes where its number is.
LEMMA DataFitsKept ==
  ASSUME TypeOK, Write, ForTarget, OwnsFree, DataFits
  PROVE  DataFits'
<1>1. PICK w, d, e : Performs(w, d, e)
  BY WritePerforms
<1>2. SUFFICES ASSUME NEW j \in DOMAIN todo', todo'[j].w = "data"
               PROVE  /\ busy'[1] = "write" /\ todo'[j].x.f = Target' /\ todo'[j].x.gen = gen'[Target']
                      /\ PlacedBy(vol', todo', j, Target', todo'[j].p, todo'[j].x.num)
  BY DEF DataFits
<1>3. /\ j + 1 \in DOMAIN todo /\ todo'[j] = todo[j + 1] /\ todo[j + 1] \in Writes /\ j \in Nat
      /\ busy' = busy /\ Target' = Target
  BY <1>1, Due, StillDue
<1>4. PICK v \in DataW : v = todo'[j] /\ v = todo[j + 1]
  BY <1>2, <1>3, KindIs
<1>5. /\ busy[1] = "write" /\ v.x.f = Target /\ v.x.gen = gen[Target]
      /\ PlacedBy(d, todo, j + 1, Target, v.p, v.x.num)
  BY <1>1, <1>2, <1>3, <1>4 DEF DataFits, Performs
<1>6. v.p \in Block
  BY DEF DataW
<1>7. w.w # "drop" /\ Target \in File
  BY <1>1, <1>5, FirstWrite
<1>8. PlacedBy(e, todo', j, Target, v.p, v.x.num)
  BY <1>1, <1>3, <1>5, <1>6, <1>7, PlacedByAfter
<1>9. gen' = gen /\ vol' = e
  BY <1>1, SameFiles DEF Performs
<1>10. QED
  BY <1>3, <1>4, <1>5, <1>8, <1>9

\* A block that is or will be as it was written is so after the next write to the file.
LEMMA StoredByAfter ==
  ASSUME TypeOK, Write, ForTarget, OwnsFree, DataFits, HeadFits, busy[1] = "write",
         NEW w, NEW d, NEW e, Performs(w, d, e), NEW p \in Block, NEW i, NEW j \in Nat,
         StoredBy(d, todo, j + 1, Target, gen[Target], p, i)
  PROVE  StoredBy(e, todo', j, Target, gen[Target], p, i)
<1>1. w = todo[1] /\ 1 \in DOMAIN todo /\ d = vol
  BY DEF Performs
<1>2. Target \in File /\ w.w \notin {"drop", "take", "release"}
  BY FirstWrite
<1>3. PICK f \in File : f = Target
  BY <1>2
<1>4. PICK n : n = gen[Target]
  OBVIOUS
<1>5. PlacedBy(d, todo, j + 1, f, p, i) /\ ListedFrom(d, todo, j + 1, f, p[1]) /\ TaggedBy(d, todo, j + 1, f, n, p, i)
  BY <1>3, <1>4 DEF StoredBy
<1>6. PlacedBy(e, todo', j, f, p, i)
  BY <1>2, <1>5, PlacedByAfter
<1>7. ListedFrom(e, todo', j, f, p[1])
  BY <1>2, <1>5, ListedFromAfter
<1>8. TaggedBy(e, todo', j, f, n, p, i)
  <2>1. CASE Tagged(d, f, n, p, i) /\ Placed(d, f, p, i)
    <3>1. Tagged(e, f, n, p, i)
      BY <1>3, <1>4, <2>1, TaggedAfter
    <3>2. QED
      BY <3>1 DEF TaggedBy
  <2>2. CASE Tagged(d, f, n, p, i) /\ Coming(todo, j + 1, Own(p, f, i))
    <3>1. PICK k \in DOMAIN todo : todo[k] = Own(p, f, i)
      BY <2>2 DEF Coming
    <3>2. todo[k].w = "own" /\ todo[k].p = p
      BY <3>1, FieldsAre
    <3>3. d.ctab[p].fid = 0
      BY <1>1, <3>2 DEF OwnsFree
    <3>4. w.w = "data" => p # w.p
      <4>1. ASSUME w.w = "data", p = w.p PROVE FALSE
        <5>1. Placed(d, f, w.p, w.x.num)
          BY <1>3, <4>1, DataPlaced
        <5>2. d.ctab[p].fid = f /\ f # 0
          BY <4>1, <5>1, Sizes DEF Placed
        <5>3. QED
          BY <3>3, <5>2
      <4>2. QED
        BY <4>1
    <3>5. w.w # "head"
      BY <1>1 DEF HeadFits
    <3>6. CASE w.w = "size" /\ p = w.p
      <4>1. e.data[p].f = d.data[p].f /\ e.data[p].gen = d.data[p].gen /\ e.data[p].num = d.data[p].num
        BY <3>6, BytesAfter
      <4>2. QED
        BY <2>2, <4>1 DEF Tagged, TaggedBy
    <3>7. CASE ~(w.w = "size" /\ p = w.p)
      <4>1. w.w \notin {"head", "data", "size"} \/ p # w.p
        BY <3>4, <3>5, <3>7
      <4>2. e.data[p] = d.data[p]
        BY <4>1, BytesAfter
      <4>3. QED
        BY <2>2, <4>2 DEF Tagged, TaggedBy
    <3>8. QED
      BY <3>6, <3>7
  <2>3. CASE Coming(todo, j + 1, TagData(f, n, p, i))
    <3>1. PICK v : v = TagData(f, n, p, i)
      OBVIOUS
    <3>2. v = w \/ Coming(todo', j, v)
      BY <1>1, <2>3, <3>1, ComingAfter
    <3>3. v.w = "data" /\ v.p = p /\ v.x = [f |-> f, gen |-> n, num |-> i, size |-> 0]
      BY <3>1 DEF TagData, Data
    <3>4. v.x.f = f /\ v.x.gen = n /\ v.x.num = i
      BY <3>3
    <3>5. v = w => e.data[p].f = f /\ e.data[p].gen = n /\ e.data[p].num = i
      <4>1. ASSUME v = w PROVE e.data[p].f = f /\ e.data[p].gen = n /\ e.data[p].num = i
        <5>1. e.data[p].f = w.x.f /\ e.data[p].gen = w.x.gen /\ e.data[p].num = w.x.num
          BY <3>3, <4>1, BytesAfter
        <5>2. QED
          BY <3>4, <4>1, <5>1
      <4>2. QED
        BY <4>1
    <3>6. QED
      BY <3>1, <3>2, <3>5 DEF TaggedBy, Tagged
  <2>4. QED
    BY <1>5, <2>1, <2>2, <2>3 DEF TaggedBy, PlacedBy
<1>9. QED
  BY <1>3, <1>4, <1>6, <1>7, <1>8 DEF StoredBy

\* A block that is as it was written stays so.
LEMMA StoredAfter ==
  ASSUME TypeOK, Write, ForTarget, OwnsFree, DataFits, HeadFits, busy[1] = "write",
         NEW w, NEW d, NEW e, Performs(w, d, e), NEW p \in Block, NEW i,
         Stored(d, Target, gen[Target], p, i)
  PROVE  Stored(e, Target, gen[Target], p, i)
<1>1. PICK f \in File : f = Target /\ w.w \notin {"drop", "take", "release"}
  BY FirstWrite
<1>2. Placed(d, f, p, i) /\ ListsIt(d, f, p[1]) /\ Tagged(d, f, gen[f], p, i)
  BY <1>1 DEF Stored
<1>3. Placed(e, f, p, i)
  BY <1>1, <1>2, PlacedAfter
<1>4. Tagged(e, f, gen[f], p, i)
  BY <1>1, <1>2, TaggedAfter
<1>5. ListsIt(e, f, p[1])
  <2>1. w \in Writes /\ d \in Volume /\ e = After(d, w)
    BY DEF Performs
  <2>2. ListsMore(d, e, f)
    BY <1>1, <2>1, ListedAfter
  <2>3. QED
    BY <1>2, <2>2 DEF ListsMore, ListsIt
<1>6. QED
  BY <1>1, <1>3, <1>4, <1>5 DEF Stored

\* What is due before the first place is there.
LEMMA StoredNow ==
  ASSUME TypeOK, NEW f, NEW n, NEW p, NEW i, StoredBy(vol, todo, 1, f, n, p, i)
  PROVE  Stored(vol, f, n, p, i)
  BY NoneComing DEF StoredBy, PlacedBy, ListedFrom, TaggedBy, Stored

\* The size still comes after the blocks it covers.
LEMMA SizeFitsKept ==
  ASSUME TypeOK, Write, ForTarget, OwnsFree, DataFits, HeadFits, SizeFits
  PROVE  SizeFits'
<1>1. PICK w, d, e : Performs(w, d, e)
  BY WritePerforms
<1>2. SUFFICES ASSUME NEW j \in DOMAIN todo', todo'[j].w = "size"
               PROVE  /\ busy'[1] = "write"
                      /\ Clean(Target)' => \A i \in 0..(todo'[j].n - 1) :
                           \E p \in Block : StoredBy(vol', todo', j, Target', gen'[Target'], p, i)
  BY DEF SizeFits
<1>3. /\ j + 1 \in DOMAIN todo /\ todo'[j] = todo[j + 1] /\ j \in Nat
      /\ busy' = busy /\ Target' = Target
  BY <1>1, Due, StillDue
<1>4. busy[1] = "write"
  BY <1>2, <1>3 DEF SizeFits
<1>5. ASSUME Clean(Target)', NEW i \in 0..(todo'[j].n - 1)
      PROVE  \E p \in Block : StoredBy(e, todo', j, Target, gen[Target], p, i)
  <2>1. Clean(Target)
    BY <1>3, <1>5 DEF Clean, Write
  <2>2. PICK p \in Block : StoredBy(d, todo, j + 1, Target, gen[Target], p, i)
    BY <1>1, <1>2, <1>3, <1>5, <2>1 DEF SizeFits, Performs
  <2>3. QED
    BY <1>1, <1>3, <1>4, <2>2, StoredByAfter
<1>6. gen' = gen /\ vol' = e
  BY <1>1, SameFiles DEF Performs
<1>7. QED
  BY <1>3, <1>4, <1>5, <1>6

\* The header still goes to the only block of the new file.
LEMMA HeadDueAfter ==
  ASSUME TypeOK, Write, ForTarget, OwnsFree, busy[1] = "create", todo' # <<>>,
         NEW w, NEW d, NEW e, Performs(w, d, e), NEW j \in Nat, NEW p \in Block, HeadDue(d, todo, Target, j, p)
  PROVE  \E k \in Nat : HeadDue(e, todo', Target, k, p)
<1>1. w \in Writes /\ d \in Volume /\ e = After(d, w) /\ w = todo[1]
  BY DEF Performs
<1>2. PICK f \in File : f = Target /\ w.w # "drop"
  BY FirstWrite
<1>3. /\ j \in DOMAIN todo /\ j = Len(todo) /\ todo[j].w = "head" /\ todo[j].p = p /\ todo[j].x.size = 0
      /\ PlacedBy(d, todo, j, f, p, 0)
      /\ \A q \in Block : d.ctab[q].fid = f => q = p
      /\ \A k \in DOMAIN todo : todo[k].w = "own" => todo[k].p = p
      /\ ListsIt(d, f, p[1]) \/ Coming(todo, j, Take(f, p[1]))
      /\ \A k \in DOMAIN todo : todo[k].w = "take" => todo[k].c = p[1]
  BY <1>2 DEF HeadDue
<1>4. PICK s \in Seq(Writes) : s = todo
  BY StateTyped
<1>5. todo' = Tail(s) /\ s # <<>>
  BY <1>4 DEF Write
<1>6. /\ Len(Tail(s)) = Len(s) - 1 /\ Len(s) \in Nat /\ DOMAIN Tail(s) = 1..(Len(s) - 1)
      /\ Tail(s) # <<>> => Len(s) - 1 >= 1
  BY <1>5
<1>7. PICK k \in Nat : k = j - 1 /\ k \in DOMAIN todo' /\ k = Len(todo') /\ k + 1 = j
  BY <1>3, <1>4, <1>5, <1>6
<1>8. todo'[k] = todo[j]
  BY <1>7, Due
<1>9. PlacedBy(e, todo', k, f, p, 0)
  BY <1>2, <1>3, <1>7, PlacedByAfter
<1>10. ASSUME NEW q \in Block, e.ctab[q].fid = f PROVE q = p
  <2>1. \/ e.ctab[q] = d.ctab[q]
        \/ w.w = "own" /\ q = w.p
        \/ w.w = "drop"
    BY <1>1, OwnerAfter
  <2>2. 1 \in DOMAIN todo
    BY DEF Performs
  <2>3. w.w = "own" => w.p = p
    BY <1>1, <1>3, <2>2
  <2>4. QED
    BY <1>2, <1>3, <1>10, <2>1, <2>3
<1>11. \A i \in DOMAIN todo' : /\ todo'[i].w = "own" => todo'[i].p = p
                               /\ todo'[i].w = "take" => todo'[i].c = p[1]
  BY <1>3, Due
<1>12. ListsIt(e, f, p[1]) \/ Coming(todo', k, Take(f, p[1]))
  <2>1. CASE w.w = "take"
    <3>1. w.f = f /\ w.c = p[1]
      <4>1. 1 \in DOMAIN todo
        BY DEF Performs
      <4>2. QED
        BY <1>1, <1>2, <1>3, <2>1, <4>1 DEF ForTarget
    <3>2. e.table[f] = [lnk |-> 1, clrs |-> <<w.c>>]
      <4>1. w \in Writes /\ d \in Volume /\ e = After(d, w)
        BY <1>1
      <4>2. /\ w.w = "take" /\ w.f = f => e.table[f] = [lnk |-> 1, clrs |-> <<w.c>>]
            /\ w.w = "list" /\ w.f = f => ListsIt(e, f, w.c)
            /\ w.w = "release" /\ w.f = f => e.table[f] = [lnk |-> 0, clrs |-> d.table[f].clrs]
            /\ ~(w.w = "take" /\ w.f = f) => ListsMore(d, e, f)
        BY <4>1, ListedAfter
      <4>3. QED
        BY <2>1, <3>1, <4>2
    <3>3. Range(<<w.c>>) = {w.c}
      BY DEF Range
    <3>4. ListsIt(e, f, p[1])
      BY <3>1, <3>2, <3>3 DEF ListsIt
    <3>5. QED
      BY <3>4
  <2>2. CASE w.w # "take" /\ ListsIt(d, f, p[1])
    <3>1. ListsMore(d, e, f)
      BY <1>1, <2>2, ListedAfter
    <3>2. QED
      BY <2>2, <3>1 DEF ListsMore, ListsIt
  <2>3. CASE w.w # "take" /\ Coming(todo, j, Take(f, p[1]))
    <3>1. PICK v : v = Take(f, p[1])
      OBVIOUS
    <3>2. v = w \/ Coming(todo', k, v)
      BY <1>1, <1>7, <2>3, <3>1, ComingAfter
    <3>3. v.w = "take"
      BY <3>1, FieldsAre
    <3>4. QED
      BY <2>3, <3>1, <3>2, <3>3
  <2>4. QED
    BY <1>3, <2>1, <2>2, <2>3
<1>13. HeadDue(e, todo', f, k, p)
  BY <1>3, <1>7, <1>8, <1>9, <1>10, <1>11, <1>12 DEF HeadDue
<1>14. QED
  BY <1>2, <1>13

\* So in the new state.
LEMMA HeadFitsKept ==
  ASSUME TypeOK, Write, ForTarget, OwnsFree, HeadFits
  PROVE  HeadFits'
<1>1. PICK w, d, e : Performs(w, d, e)
  BY WritePerforms
<1>2. ASSUME NEW j \in DOMAIN todo', todo'[j].w = "head" PROVE busy'[1] = "create"
  <2>1. j + 1 \in DOMAIN todo /\ todo'[j] = todo[j + 1] /\ busy' = busy
    BY <1>1, StillDue
  <2>2. QED
    BY <1>2, <2>1 DEF HeadFits
<1>3. ASSUME busy'[1] = "create", Clean(Target)' PROVE \E j \in Nat : \E p \in Block : HeadDue(vol', todo', Target', j, p)
  <2>1. todo' # <<>> /\ busy' = busy /\ Target' = Target
    BY <1>1, <1>3, GoesOn
  <2>2. busy[1] = "create" /\ Clean(Target)
    BY <1>3, <2>1 DEF Clean, Write
  <2>3. PICK j \in Nat : \E p \in Block : HeadDue(d, todo, Target, j, p)
    BY <1>1, <2>2 DEF HeadFits, Performs
  <2>4. PICK p \in Block : HeadDue(d, todo, Target, j, p)
    BY <2>3
  <2>5. \E k \in Nat : HeadDue(e, todo', Target, k, p)
    BY <1>1, <2>1, <2>2, <2>4, HeadDueAfter
  <2>6. vol' = e
    BY <1>1 DEF Performs
  <2>7. QED
    BY <2>1, <2>5, <2>6
<1>4. QED
  BY <1>2, <1>3 DEF HeadFits

\* When the last write of a removal was performed the file is not listed.
LEMMA RemovedLast ==
  ASSUME TypeOK, Write, DirsDue, NameFirst, FirstBlockOnly, FirstBlockOnly', busy[1] = "unlink", todo' = <<>>,
         OnceNamed, NEW w, NEW d, NEW e, Performs(w, d, e)
  PROVE  Target \notin Entries(e)
<1>0. ~NamedTwice(Target)
  BY DEF OnceNamed, Performs
<1>1. /\ w.w # "dir" => Entries(e) = Entries(d)
      /\ w.w = "dir" => Entries(e) = NamesOf(w)
  BY ListingAfter
<1>2. CASE w.w = "dir"
  BY <1>0, <1>1, <1>2 DEF DirsDue, Performs
<1>3. ASSUME w.w # "dir", Target \in Entries(e) PROVE FALSE
  <2>1. Target \in Entries(vol)
    BY <1>1, <1>3 DEF Performs
  <2>2. PICK i \in DOMAIN todo : todo[i].w = "dir" /\ todo[i].i = 1
    BY <1>0, <2>1 DEF NameFirst
  <2>3. i # 1
    BY <1>3, <2>2 DEF Performs
  <2>4. i - 1 \in DOMAIN todo'
    BY <2>3, Due
  <2>5. QED
    BY <2>4
<1>4. QED
  BY <1>2, <1>3

\* The names after a write are those before it, and perhaps that of the new file.
LEMMA NamesAfter ==
  ASSUME TypeOK, Write, DirsDue, FirstBlockOnly, FirstBlockOnly', NEW w, NEW d, NEW e, Performs(w, d, e),
         NEW g \in Entries(e), g \notin Entries(d)
  PROVE  busy[1] = "create" /\ g = Target
<1>1. /\ w.w # "dir" => Entries(e) = Entries(d)
      /\ w.w = "dir" => Entries(e) = NamesOf(w)
  BY ListingAfter
<1>2. w.w = "dir" /\ g \in NamesOf(w)
  BY <1>1
<1>3. /\ busy[1] = "unlink" => NamesOf(w) \subseteq Entries(d)
      /\ busy[1] # "unlink" => NamesOf(w) \subseteq Entries(d) \cup {Target}
      /\ busy[1] # "write"
  BY <1>2 DEF DirsDue, Performs
<1>4. busy[1] \in {"create", "write", "unlink"}
  BY DEF Performs
<1>5. QED
  BY <1>2, <1>3, <1>4

\* A name is an identifier.
LEMMA NamesAreFiles ==
  ASSUME NEW d \in Volume, NEW g \in Entries(d)
  PROVE  g \in File
<1>1. PICK s \in 1..d.root.len : g = d.root.slot[s] /\ g # 0
  BY DEF Entries
<1>2. d.root.len \in 0..(PerBlock * BPC) /\ d.root.slot \in [RootSlot -> 0..(NF - 1)]
  BY DeviceFields
<1>3. s \in RootSlot
  BY <1>2, RootSize DEF RootSlot
<1>4. g \in 0..(NF - 1)
  BY <1>1, <1>2, <1>3
<1>5. QED
  BY <1>1, <1>4, Sizes DEF File

\* The cached lists still say what the device will.
LEMMA CachedFitsKept ==
  ASSUME TypeOK, Write, ForTarget, DirsDue, NameFirst, CachedOwned, FirstBlockOnly, FirstBlockOnly',
         OnceNamed, OwnsFree, CachedFits
  PROVE  CachedFits'
<1>1. PICK w, d, e : Performs(w, d, e)
  BY WritePerforms
<1>2. SUFFICES ASSUME NEW g \in Entries(e), busy' # <<"unlink", g>>
               PROVE  CachedIs(e, todo', g, seqs[g])
  BY <1>1, SameFiles DEF CachedFits, Performs
<1>3. g \in File
  BY <1>1, <1>2, NamesAreFiles DEF Performs
<1>4. CASE seqs[g] = <<>>
  BY <1>4 DEF CachedIs
<1>5. ASSUME seqs[g] # <<>> PROVE CachedIs(e, todo', g, seqs[g])
  <2>1. ~(busy[1] = "create" /\ g = Target)
    BY <1>5 DEF CachedOwned
  <2>2. g \in Entries(d)
    BY <1>1, <1>2, <2>1, NamesAfter
  <2>3. busy # <<"unlink", g>>
    <3>1. ASSUME busy = <<"unlink", g>> PROVE FALSE
      <4>1. todo' = <<>> /\ busy[1] = "unlink" /\ g = Target
        BY <1>1, <1>2, <3>1 DEF Performs, Target
      <4>2. QED
        BY <1>1, <1>2, <4>1, RemovedLast
    <3>2. QED
      BY <3>1
  <2>4. ~(w.w = "drop" /\ w.f = g) /\ ~(w.w = "take" /\ w.f = g)
    <3>1. /\ w.w \in {"drop", "take"} => w.f = Target
          /\ w.w = "drop" => busy[1] = "unlink"
          /\ w.w = "take" => busy[1] = "create"
          /\ busy = <<busy[1], Target>>
      BY <1>1, FirstWrite
    <3>2. QED
      BY <2>1, <2>3, <3>1
  <2>5. PICK j \in Nat : j = Len(todo') + 1 /\ j + 1 = Len(todo) + 1
    <3>1. PICK s \in Seq(Writes) : s = todo
      BY StateTyped
    <3>2. PICK t \in Seq(Writes) : t = todo'
      BY Due
    <3>3. t = Tail(s) /\ s # <<>>
      BY <3>1, <3>2 DEF Write
    <3>4. Len(t) = Len(s) - 1 /\ Len(s) \in Nat /\ Len(t) \in Nat
      BY <3>3
    <3>5. PICK j \in Nat : j = Len(t) + 1 /\ j + 1 = Len(s) + 1
      BY <3>4
    <3>6. QED
      BY <3>1, <3>2, <3>5
  <2>6. CachedIs(d, todo, g, seqs[g])
    BY <1>1, <2>2, <2>3 DEF CachedFits, Performs
  <2>7. ASSUME NEW k \in DOMAIN seqs[g]
        PROVE  /\ PlacedBy(e, todo', j, g, seqs[g][k].at, seqs[g][k].num)
               /\ ListedFrom(e, todo', j, g, seqs[g][k].at[1])
    <3>1. PICK p \in Block, i \in Nat : p = seqs[g][k].at /\ i = seqs[g][k].num
      <4>1. seqs[g] \in Seq(BlkInfo)
        BY <1>3, StateTyped
      <4>2. seqs[g][k] \in BlkInfo
        BY <2>7, <4>1
      <4>3. QED
        BY <4>2 DEF BlkInfo
    <3>2. PlacedBy(d, todo, j + 1, g, p, i) /\ ListedFrom(d, todo, j + 1, g, p[1])
      BY <2>5, <2>6, <2>7, <3>1 DEF CachedIs
    <3>3. PlacedBy(e, todo', j, g, p, i)
      BY <1>1, <1>3, <2>4, <3>2, PlacedByAfter
    <3>4. ListedFrom(e, todo', j, g, p[1])
      BY <1>1, <1>3, <2>4, <3>2, ListedFromAfter
    <3>5. QED
      BY <3>1, <3>3, <3>4
  <2>8. QED
    BY <2>5, <2>7 DEF CachedIs
<1>6. QED
  BY <1>4, <1>5

\* A file none of whose blocks change stays as it is.
LEMMA GoodSame ==
  ASSUME NEW d, NEW e, NEW f, NEW n, Good(d, f, n),
         \A p \in Block : d.ctab[p].fid = f => e.ctab[p] = d.ctab[p] /\ e.data[p] = d.data[p],
         \A p \in Block : e.ctab[p].fid = f => d.ctab[p].fid = f,
         e.table[f] = d.table[f]
  PROVE  Good(e, f, n)
<1>1. Unique(e, f)
  BY DEF Good, Unique
<1>2. PICK p \in Block : Headed(d, f, n, p)
  BY DEF Good
<1>3. \A q \in Block : \A i : Stored(d, f, n, q, i) => Stored(e, f, n, q, i)
  BY DEF Stored, Placed, ListsIt, Tagged
<1>4. e.data[p].size = d.data[p].size /\ Placed(e, f, p, 0) /\ ListsIt(e, f, p[1])
  BY <1>2 DEF Headed, Placed, ListsIt
<1>5. Filled(e, f, n, e.data[p].size)
  <2>1. Filled(d, f, n, d.data[p].size)
    BY <1>2 DEF Headed
  <2>2. QED
    BY <1>3, <1>4, <2>1 DEF Filled
<1>6. Headed(e, f, n, p)
  BY <1>4, <1>5 DEF Headed
<1>7. QED
  BY <1>1, <1>6 DEF Good

\* A write for one file leaves the bytes of the others.
LEMMA GoodOther ==
  ASSUME TypeOK, Write, ForTarget, ToOwned, OnceNamed, NEW w, NEW d, NEW e, Performs(w, d, e), NEW f \in File, f # Target,
         NEW n, Good(d, f, n)
  PROVE  Good(e, f, n)
<1>1. w \in Writes /\ d \in Volume /\ e = After(d, w)
  BY DEF Performs
<1>2. /\ w.w \in {"own", "drop", "take", "list", "release"} => w.f = Target
      /\ Target \in File
  BY FirstWrite
<1>3. f # 0
  BY Sizes
<1>4. w.w = "own" => d.ctab[w.p].fid \in {0, Target}
  BY DEF ForTarget, Performs
<1>5. w.w \in {"head", "data", "size"} => d.ctab[w.p].fid = Target
  <2>1. \A j \in 1..(1 - 1) : FALSE
    OBVIOUS
  <2>2. ~NamedTwice(Target)
    BY DEF OnceNamed, Performs
  <2>3. QED
    BY <2>1, <2>2 DEF ToOwned, Performs
<1>6. ASSUME NEW p \in Block, d.ctab[p].fid = f PROVE e.ctab[p] = d.ctab[p] /\ e.data[p] = d.data[p]
  <2>1. \/ e.ctab[p] = d.ctab[p]
        \/ w.w = "own" /\ p = w.p /\ e.ctab[p].fid = w.f
        \/ w.w = "drop" /\ d.ctab[p].fid = w.f /\ e.ctab[p].fid = 0
    BY <1>1, OwnerAfter
  <2>2. e.ctab[p] = d.ctab[p]
    BY <1>2, <1>3, <1>4, <1>6, <2>1
  <2>3. w.w \notin {"head", "data", "size"} \/ p # w.p
    BY <1>5, <1>6
  <2>4. QED
    BY <1>1, <2>2, <2>3, DataAfter
<1>7. ASSUME NEW p \in Block, e.ctab[p].fid = f PROVE d.ctab[p].fid = f
  <2>1. \/ e.ctab[p] = d.ctab[p]
        \/ w.w = "own" /\ p = w.p /\ e.ctab[p].fid = w.f
        \/ w.w = "drop" /\ d.ctab[p].fid = w.f /\ e.ctab[p].fid = 0
    BY <1>1, OwnerAfter
  <2>2. QED
    BY <1>2, <1>3, <1>7, <2>1
<1>8. e.table[f] = d.table[f]
  <2>1. w.w \notin {"take", "list", "release"} \/ f # w.f
    BY <1>2
  <2>2. QED
    BY <1>1, <2>1, TableAfter
<1>9. QED
  BY <1>6, <1>7, <1>8, GoodSame

\* The header makes a new file, of no bytes.
LEMMA GoodCreated ==
  ASSUME TypeOK, Write, ForTarget, HeadFits, busy[1] = "create", todo' = <<>>, Clean(Target),
         NEW w, NEW d, NEW e, Performs(w, d, e)
  PROVE  \A n : Good(e, Target, n)
<1>1. w \in Writes /\ d \in Volume /\ e = After(d, w) /\ w = todo[1] /\ d = vol
  BY DEF Performs
<1>2. PICK f \in File : f = Target
  BY FirstWrite
<1>3. PICK j \in Nat : \E p \in Block : HeadDue(d, todo, f, j, p)
  BY <1>1, <1>2 DEF HeadFits
<1>4. PICK p \in Block : HeadDue(d, todo, f, j, p)
  BY <1>3
<1>5. j = 1
  <2>1. j \in DOMAIN todo
    BY <1>4 DEF HeadDue
  <2>2. j = 1 \/ j - 1 \in DOMAIN todo'
    BY <2>1, Due
  <2>3. QED
    BY <2>2
<1>6. /\ w.w = "head" /\ w.p = p /\ w.x.size = 0
      /\ PlacedBy(d, todo, 1, f, p, 0)
      /\ \A q \in Block : d.ctab[q].fid = f => q = p
      /\ ListsIt(d, f, p[1]) \/ Coming(todo, 1, Take(f, p[1]))
  BY <1>1, <1>4, <1>5 DEF HeadDue
<1>7. Placed(d, f, p, 0) /\ ListsIt(d, f, p[1])
  BY <1>6, NoneComing DEF PlacedBy
<1>8. ASSUME NEW q \in Block PROVE e.ctab[q] = d.ctab[q]
  <2>1. w \in Writes /\ d \in Volume /\ e = After(d, w)
    BY <1>1
  <2>2. /\ w.w \notin {"own", "drop"} => e.ctab[q] = d.ctab[q]
        /\ w.w = "own" => e.ctab[q] = IF q = w.p THEN [fid |-> w.f, num |-> w.i] ELSE d.ctab[q]
        /\ w.w = "drop" => e.ctab[q] = IF q[1] = w.c /\ d.ctab[q].fid = w.f THEN FreeEntry ELSE d.ctab[q]
    BY <2>1, EntryAfter
  <2>3. QED
    BY <1>6, <2>2
<1>9. e.data[p].size = 0
  <2>1. w.w = "head" /\ p = w.p => e.data[p] = w.x
    BY BytesAfter
  <2>2. QED
    BY <1>6, <2>1
<1>10. ListsIt(e, f, p[1])
  <2>1. w \in Writes /\ d \in Volume /\ e = After(d, w) /\ ~(w.w = "take" /\ w.f = f)
    BY <1>1, <1>6
  <2>2. ListsMore(d, e, f)
    BY <2>1, ListedAfter
  <2>3. QED
    BY <1>7, <2>2 DEF ListsMore, ListsIt
<1>11. Unique(e, f)
  BY <1>6, <1>8 DEF Unique
<1>12. ASSUME NEW n PROVE Headed(e, f, n, p)
  <2>1. Placed(e, f, p, 0)
    BY <1>7, <1>8 DEF Placed
  <2>2. Filled(e, f, n, 0)
    <3>1. \A i \in 0..(0 - 1) : FALSE
      OBVIOUS
    <3>2. QED
      BY <3>1 DEF Filled
  <2>3. QED
    BY <1>9, <1>10, <2>1, <2>2 DEF Headed
<1>13. QED
  BY <1>2, <1>11, <1>12 DEF Good

\* A write for the target keeps its blocks' numbers apart.
LEMMA UniqueKept ==
  ASSUME TypeOK, Write, ForTarget, OwnsNew, busy[1] = "write", Clean(Target),
         NEW w, NEW d, NEW e, Performs(w, d, e), Unique(d, Target)
  PROVE  Unique(e, Target)
<1>1. w \in Writes /\ d \in Volume /\ e = After(d, w)
  BY DEF Performs
<1>2. w.w # "drop"
  BY FirstWrite
<1>3. w.w = "own" => \A q \in Block : d.ctab[q].fid = Target => d.ctab[q].num # w.i
  BY DEF OwnsNew, Performs
<1>4. CASE w.w = "own"
  <2>1. ASSUME NEW p \in Block PROVE e.ctab[p] = IF p = w.p THEN [fid |-> w.f, num |-> w.i] ELSE d.ctab[p]
    BY <1>1, <1>4, EntryAfter
  <2>2. ASSUME NEW p \in Block, p = w.p PROVE e.ctab[p].num = w.i
    BY <2>1, <2>2
  <2>3. ASSUME NEW p \in Block, p # w.p PROVE e.ctab[p] = d.ctab[p]
    BY <2>1, <2>3
  <2>4. QED
    BY <1>3, <1>4, <2>2, <2>3 DEF Unique
<1>5. CASE w.w # "own"
  <2>1. ASSUME NEW p \in Block PROVE e.ctab[p] = d.ctab[p]
    <3>1. /\ w.w \notin {"own", "drop"} => e.ctab[p] = d.ctab[p]
          /\ w.w = "own" => e.ctab[p] = IF p = w.p THEN [fid |-> w.f, num |-> w.i] ELSE d.ctab[p]
          /\ w.w = "drop" => e.ctab[p] = IF p[1] = w.c /\ d.ctab[p].fid = w.f THEN FreeEntry ELSE d.ctab[p]
      BY <1>1, EntryAfter
    <3>2. QED
      BY <1>2, <1>5, <3>1
  <2>2. QED
    BY <2>1 DEF Unique
<1>6. QED
  BY <1>4, <1>5

\* The size in block 0 is what it was, or what the write of the size says.
LEMMA SizeAfter ==
  ASSUME TypeOK, ForTarget, DataFits, HeadFits, busy[1] = "write",
         NEW w, NEW d, NEW e, Performs(w, d, e), NEW p \in Block, Placed(d, Target, p, 0)
  PROVE  e.data[p].size = d.data[p].size \/ (w.w = "size" /\ e.data[p].size = w.n)
<1>1. w.w # "head"
  BY DEF HeadFits, Performs
<1>2. CASE w.w = "data" /\ p = w.p
  <2>1. Placed(d, Target, w.p, w.x.num)
    BY <1>2, DataPlaced
  <2>2. w.x.num = 0
    BY <1>2, <2>1 DEF Placed
  <2>3. e.data[p].size = IF w.x.num = 0 THEN d.data[p].size ELSE 0
    BY <1>2, BytesAfter
  <2>4. QED
    BY <2>2, <2>3
<1>3. CASE w.w = "size" /\ p = w.p
  <2>1. e.data[p].size = IF d.data[p].size < w.n THEN w.n ELSE d.data[p].size
    BY <1>3, BytesAfter
  <2>2. QED
    BY <1>3, <2>1
<1>4. CASE w.w \notin {"head", "data", "size"} \/ p # w.p
  <2>1. e.data[p] = d.data[p]
    BY <1>4, BytesAfter
  <2>2. QED
    BY <2>1
<1>5. QED
  BY <1>1, <1>2, <1>3, <1>4

\* A write for the target leaves the bytes up to its size.
LEMMA GoodWritten ==
  ASSUME TypeOK, Write, ForTarget, OwnsFree, OwnsNew, DataFits, SizeFits, HeadFits, busy[1] = "write", Clean(Target),
         NEW w, NEW d, NEW e, Performs(w, d, e), Good(d, Target, gen[Target])
  PROVE  Good(e, Target, gen[Target])
<1>1. PICK f \in File : f = Target
  BY FirstWrite
<1>2. PICK n : n = gen[f]
  OBVIOUS
<1>3. w \in Writes /\ d \in Volume /\ e = After(d, w) /\ w = todo[1] /\ 1 \in DOMAIN todo /\ d = vol
  BY DEF Performs
<1>4. w.w \notin {"drop", "take", "release"}
  BY FirstWrite
<1>5. Unique(e, f)
  BY <1>1, UniqueKept DEF Good
<1>6. PICK p \in Block : Headed(d, f, n, p)
  BY <1>1, <1>2 DEF Good
<1>7. Placed(d, f, p, 0) /\ ListsIt(d, f, p[1]) /\ Filled(d, f, n, d.data[p].size)
  BY <1>6 DEF Headed
<1>8. Placed(e, f, p, 0)
  BY <1>4, <1>7, PlacedAfter
<1>9. ListsIt(e, f, p[1])
  <2>1. w \in Writes /\ d \in Volume /\ e = After(d, w)
    BY <1>3
  <2>2. ListsMore(d, e, f)
    BY <1>4, <2>1, ListedAfter
  <2>3. QED
    BY <1>7, <2>2 DEF ListsMore, ListsIt
<1>10. ASSUME NEW q \in Block, NEW i, Stored(d, f, n, q, i) PROVE Stored(e, f, n, q, i)
  BY <1>1, <1>2, <1>10, StoredAfter
<1>11. e.data[p].size = d.data[p].size \/ (w.w = "size" /\ e.data[p].size = w.n)
  BY <1>1, <1>7, SizeAfter
<1>12. Filled(e, f, n, e.data[p].size)
  <2>1. CASE e.data[p].size = d.data[p].size
    BY <1>7, <1>10, <2>1 DEF Filled
  <2>2. CASE w.w = "size" /\ e.data[p].size = w.n
    <3>1. ASSUME NEW i \in 0..(w.n - 1) PROVE \E q \in Block : Stored(e, f, n, q, i)
      <4>1. PICK q \in Block : StoredBy(d, todo, 1, f, n, q, i)
        BY <1>1, <1>2, <1>3, <2>2, <3>1 DEF SizeFits
      <4>2. Stored(d, f, n, q, i)
        BY <1>3, <4>1, StoredNow
      <4>3. QED
        BY <1>10, <4>2
    <3>2. QED
      BY <2>2, <3>1 DEF Filled
  <2>3. QED
    BY <1>11, <2>1, <2>2
<1>13. Headed(e, f, n, p)
  BY <1>8, <1>9, <1>12 DEF Headed
<1>14. QED
  BY <1>1, <1>2, <1>5, <1>13 DEF Good

\* The files that claim their bytes still have them.
LEMMA GoodFilesKept ==
  ASSUME TypeOK, Write, DirInv, SizeInv, OnceNamed, FirstBlockOnly, FirstBlockOnly'
  PROVE  GoodFiles'
<1>0. ForTarget /\ ToOwned /\ DirsDue /\ NameFirst
  BY DEF DirInv
<1>1. OwnsFree /\ OwnsNew /\ DataFits /\ SizeFits /\ HeadFits /\ GoodFiles
  BY DEF SizeInv
<1>2. PICK w, d, e : Performs(w, d, e)
  BY WritePerforms
<1>3. d = vol /\ e = vol' /\ gen' = gen /\ d \in Volume /\ e \in Volume
  BY <1>2, SameFiles DEF Performs
<1>4. SUFFICES ASSUME NEW f \in Entries(e), Clean(f), busy' \notin {<<"create", f>>, <<"unlink", f>>}
               PROVE  Good(e, f, gen[f])
  BY <1>3, SameFiles DEF GoodFiles
<1>5. f \in File
  BY <1>3, NamesAreFiles
<1>6. busy = <<busy[1], Target>> /\ busy[1] \in {"create", "write", "unlink"}
  BY <1>0, <1>2, FirstWrite
<1>7. CASE f # Target
  <2>1. f \in Entries(d)
    BY <1>0, <1>2, <1>7, NamesAfter
  <2>2. busy \notin {<<"create", f>>, <<"unlink", f>>}
    BY <1>6, <1>7
  <2>3. Good(d, f, gen[f])
    BY <1>1, <1>3, <1>4, <2>1, <2>2 DEF GoodFiles
  <2>4. QED
    BY <1>0, <1>2, <1>5, <1>7, <2>3, GoodOther
<1>8. CASE f = Target /\ busy[1] = "unlink"
  <2>1. todo' = <<>>
    BY <1>2, <1>4, <1>6, <1>8 DEF Performs
  <2>2. f \notin Entries(e)
    BY <1>0, <1>2, <1>8, <2>1, RemovedLast
  <2>3. QED
    BY <1>4, <2>2
<1>9. CASE f = Target /\ busy[1] = "create"
  <2>1. todo' = <<>>
    BY <1>2, <1>4, <1>6, <1>9 DEF Performs
  <2>2. QED
    BY <1>0, <1>1, <1>2, <1>4, <1>9, <2>1, GoodCreated
<1>10. CASE f = Target /\ busy[1] = "write"
  <2>1. f \in Entries(d)
    BY <1>0, <1>2, <1>10, NamesAfter
  <2>2. busy \notin {<<"create", f>>, <<"unlink", f>>}
    BY <1>10
  <2>3. Good(d, f, gen[f])
    BY <1>1, <1>3, <1>4, <2>1, <2>2 DEF GoodFiles
  <2>4. QED
    BY <1>0, <1>1, <1>2, <1>4, <1>10, <2>3, GoodWritten
<1>11. QED
  BY <1>6, <1>7, <1>8, <1>9, <1>10

\* A write keeps the invariant.
LEMMA WriteSizes ==
  ASSUME TypeOK, Write, DirInv, SizeInv, OnceNamed, FirstBlockOnly, FirstBlockOnly'
  PROVE  SizeInv'
<1>1. ForTarget /\ DirsDue /\ NameFirst /\ CachedOwned
  BY DEF DirInv
<1>2. Fresh /\ OwnsFree /\ OwnsNew /\ DataFits /\ SizeFits /\ HeadFits /\ CachedFits
  BY DEF SizeInv
<1>3. Fresh'
  <2>1. PICK w, d, e : Performs(w, d, e)
    BY WritePerforms
  <2>2. ASSUME busy'[1] \in {"create", "write"}, Clean(Target)' PROVE Uncut(Target)'
    <3>1. busy' = busy /\ Target' = Target
      BY <2>1, <2>2, GoesOn
    <3>2. cut' = cut
      BY DEF Write
    <3>3. QED
      BY <1>2, <2>2, <3>1, <3>2 DEF Fresh, Clean, Uncut
  <2>3. QED
    BY <2>2 DEF Fresh
<1>4. OwnsFree' /\ OwnsNew' /\ DataFits' /\ SizeFits' /\ HeadFits' /\ CachedFits' /\ GoodFiles'
  BY <1>1, <1>2, OwnsFreeKept, OwnsNewKept, DataFitsKept, SizeFitsKept, HeadFitsKept, CachedFitsKept, GoodFilesKept
<1>5. QED
  BY <1>3, <1>4 DEF SizeInv

-----------------------------------------------------------------------------
(* The other steps keep the invariant.                                      *)

\* Between requests the cached lists say what the device does.
LEMMA CachedNow ==
  ASSUME TypeOK, CachedFits, todo = <<>>, NEW g \in Entries(vol), NEW k \in DOMAIN seqs[g]
  PROVE  Placed(vol, g, seqs[g][k].at, seqs[g][k].num) /\ ListsIt(vol, g, seqs[g][k].at[1])
<1>1. busy = Idle
  BY DEF TypeOK
<1>2. busy # <<"unlink", g>>
  BY <1>1 DEF Idle
<1>3. CachedIs(vol, todo, g, seqs[g])
  BY <1>2 DEF CachedFits
<1>4. \A j, v : ~Coming(todo, j, v)
  BY DEF Coming
<1>5. QED
  BY <1>3, <1>4 DEF CachedIs, PlacedBy, ListedFrom

\* Between requests all files that claim their bytes have them.
LEMMA GoodNow ==
  ASSUME TypeOK, GoodFiles, todo = <<>>, NEW f \in Entries(vol), Clean(f)
  PROVE  Good(vol, f, gen[f])
<1>1. busy = Idle
  BY DEF TypeOK
<1>2. busy \notin {<<"create", f>>, <<"unlink", f>>}
  BY <1>1 DEF Idle
<1>3. QED
  BY <1>2 DEF GoodFiles

\* What nothing was due for stays said of a list.
LEMMA CachedStarts ==
  ASSUME TypeOK, CachedFits, todo = <<>>, vol' = vol, NEW g \in Entries(vol), seqs'[g] = seqs[g]
  PROVE  CachedIs(vol', todo', g, seqs'[g])
<1>1. \A k \in DOMAIN seqs[g] :
        Placed(vol, g, seqs[g][k].at, seqs[g][k].num) /\ ListsIt(vol, g, seqs[g][k].at[1])
  BY CachedNow
<1>2. QED
  BY <1>1 DEF CachedIs, PlacedBy, ListedFrom

\* A request that starts finds the files as they are.
LEMMA GoodStarts ==
  ASSUME TypeOK, GoodFiles, todo = <<>>, vol' = vol, cut \subseteq cut', NEW f \in Entries(vol),
         gen'[f] = gen[f], Clean(f)'
  PROVE  Good(vol, f, gen'[f])
<1>1. Clean(f)
  BY DEF Clean
<1>2. QED
  BY <1>1, GoodNow

\* A file that claims its bytes when a request to write to it starts was not cut.
LEMMA CleanStarts ==
  ASSUME TypeOK, NEW f \in File, cut' = cut \cup Again(f), Clean(f)', OnceNamed'
  PROVE  cut' = cut /\ Uncut(f) /\ Uncut(f)'
<1>1. <<"write", f>> \notin cut
  <2>1. ASSUME <<"write", f>> \in cut PROVE FALSE
    <3>1. <<"again", f>> \in cut'
      BY <2>1 DEF Again
    <3>2. QED
      BY <3>1 DEF Clean
  <2>2. QED
    BY <2>1
<1>2. cut' = cut
  BY <1>1 DEF Again
<1>3. ASSUME NEW q \in cut, q[2] = f PROVE FALSE
  <2>1. q \in CutKinds \X File
    BY DEF TypeOK
  <2>2. q = <<q[1], f>> /\ q[1] \in {"create", "write", "unlink", "again", "gaveup", "twice"}
    BY <1>3, <2>1 DEF CutKinds
  <2>3. <<"twice", f>> \notin cut'
    BY DEF OnceNamed, NamedTwice
  <2>4. QED
    BY <1>1, <1>2, <2>2, <2>3 DEF Clean
<1>4. QED
  BY <1>2, <1>3 DEF Uncut

\* A kill leaves the files that still claim their bytes.
LEMMA GoodRests ==
  ASSUME TypeOK, GoodFiles, cut \subseteq cut', todo = <<>> \/ busy \in cut', NEW f \in Entries(vol), Clean(f)'
  PROVE  Good(vol, f, gen[f])
<1>1. Clean(f)
  BY DEF Clean
<1>2. CASE todo = <<>>
  BY <1>1, <1>2, GoodNow
<1>3. CASE busy \in cut'
  <2>1. busy \notin {<<"create", f>>, <<"unlink", f>>}
    BY <1>3 DEF Clean
  <2>2. QED
    BY <1>1, <2>1 DEF GoodFiles
<1>4. QED
  BY <1>2, <1>3

\* When nothing is due, the invariant is that of the cached lists and of the files.
LEMMA SizesAtRest ==
  ASSUME todo' = <<>>, busy' = Idle,
         \A g \in Entries(vol') : \A k \in DOMAIN seqs'[g] :
           Placed(vol', g, seqs'[g][k].at, seqs'[g][k].num) /\ ListsIt(vol', g, seqs'[g][k].at[1]),
         \A f \in Entries(vol') : Clean(f)' => Good(vol', f, gen'[f])
  PROVE  SizeInv'
<1>1. Fresh' /\ OwnsFree' /\ OwnsNew' /\ DataFits' /\ SizeFits' /\ HeadFits'
  BY DEF Fresh, OwnsFree, OwnsNew, DataFits, SizeFits, HeadFits, Idle
<1>2. CachedFits'
  BY DEF CachedFits, CachedIs, PlacedBy, ListedFrom
<1>3. GoodFiles'
  BY DEF GoodFiles
<1>4. QED
  BY <1>1, <1>2, <1>3 DEF SizeInv

\* Building a list.
LEMMA GetsSizes ==
  ASSUME TypeOK, SizeInv, NEW f, Gets(f)
  PROVE  SizeInv'
<1>1. /\ todo = <<>> /\ f \in File /\ f \in Entries(vol) /\ todo' = <<>> /\ busy' = busy /\ vol' = vol /\ gen' = gen
      /\ cut' = cut /\ seqs' = [seqs EXCEPT ![f] = BlocksOf(vol, f)]
  BY DEF Gets
<1>2. busy = Idle
  BY <1>1 DEF TypeOK
<1>3. CachedFits /\ GoodFiles
  BY DEF SizeInv
<1>4. ASSUME NEW g \in Entries(vol), NEW k \in DOMAIN seqs'[g]
      PROVE  Placed(vol, g, seqs'[g][k].at, seqs'[g][k].num) /\ ListsIt(vol, g, seqs'[g][k].at[1])
  <2>1. CASE g = f
    <3>1. seqs'[g] = BlocksOf(vol, f)
      BY <1>1, <2>1, StateTyped
    <3>2. PICK x : x = BlocksOf(vol, f)[k]
      OBVIOUS
    <3>3. /\ x.at \in Block /\ vol.ctab[x.at].fid = f /\ x.num = vol.ctab[x.at].num
          /\ x.at[1] \in Range(vol.table[f].clrs)
      BY <1>1, <1>4, <3>1, <3>2, StateTyped, BlocksOfAre
    <3>4. QED
      BY <2>1, <3>1, <3>2, <3>3 DEF Placed, ListsIt
  <2>2. CASE g # f
    <3>1. seqs'[g] = seqs[g]
      <4>1. g \in File
        BY <1>4, StateTyped, NamesAreFiles
      <4>2. QED
        BY <1>1, <2>2, <4>1, StateTyped
    <3>2. QED
      BY <1>1, <1>3, <1>4, <3>1, CachedNow
  <2>3. QED
    BY <2>1, <2>2
<1>5. ASSUME NEW g \in Entries(vol), Clean(g)' PROVE Good(vol, g, gen[g])
  BY <1>1, <1>3, <1>5, GoodRests
<1>6. QED
  BY <1>1, <1>2, <1>4, <1>5, SizesAtRest

\* A kill, and a mount.
LEMMA MountsSizes ==
  ASSUME TypeOK, SavedInv, SizeInv, Crash \/ Remount
  PROVE  SizeInv'
<1>1. GoodFiles
  BY DEF SizeInv
<1>2. /\ seqs' = [f \in File |-> <<>>] /\ todo' = <<>> /\ busy' = Idle /\ vol' = OnDevice /\ gen' = gen
      /\ cut \subseteq cut' /\ (todo = <<>> \/ busy \in cut')
  <2>1. CASE Crash
    BY <2>1 DEF Crash, Mounted
  <2>2. CASE Remount
    <3>1. todo = <<>>
      BY <2>2, ReadyRests DEF Remount
    <3>2. QED
      BY <2>2, <3>1 DEF Remount, Mounted
  <2>3. QED
    BY <2>1, <2>2
<1>3. PICK d, o : d = vol /\ o = OnDevice /\ o.table = saved.table /\ o.ctab = d.ctab /\ o.root = d.root /\ o.data = d.data
  BY MountIs
<1>4. vol' = o
  BY <1>2, <1>3
<1>5. Entries(o) = Entries(vol)
  BY <1>3 DEF Entries
<1>6. ASSUME NEW g \in Entries(vol) PROVE g \in File /\ seqs'[g] = <<>>
  <2>1. g \in File
    BY <1>6, StateTyped, NamesAreFiles
  <2>2. QED
    BY <1>2, <2>1
<1>7. ASSUME NEW g \in Entries(vol), Clean(g)' PROVE Good(o, g, gen[g])
  <2>1. Good(d, g, gen[g])
    BY <1>1, <1>2, <1>3, <1>7, GoodRests
  <2>2. ~GaveUp(g)
    BY <1>2, <1>7 DEF Clean, GaveUp
  <2>3. o.table[g] = d.table[g]
    BY <1>3, <1>6, <2>2 DEF SavedInv, SavedTables
  <2>4. QED
    BY <1>3, <2>1, <2>3, GoodSame
<1>8. QED
  BY <1>2, <1>4, <1>5, <1>6, <1>7, SizesAtRest

\* A search that hangs, or memory misused.
LEMMA SameSizes ==
  ASSUME SizeInv, UNCHANGED Rest
  PROVE  SizeInv'
<1>1. vol' = vol /\ seqs' = seqs /\ todo' = todo /\ busy' = busy /\ gen' = gen /\ cut' = cut
  BY DEF Rest
<1>2. Fresh' /\ OwnsFree' /\ OwnsNew'
  BY <1>1 DEF SizeInv, Fresh, OwnsFree, OwnsNew, Clean, Uncut, Target
<1>3. DataFits' /\ SizeFits' /\ HeadFits'
  BY <1>1 DEF SizeInv, DataFits, SizeFits, HeadFits, Clean, Target
<1>4. CachedFits' /\ GoodFiles'
  BY <1>1 DEF SizeInv, CachedFits, GoodFiles, Clean
<1>5. QED
  BY <1>2, <1>3, <1>4 DEF SizeInv

\* A removal starts.
LEMMA UnlinksSizes ==
  ASSUME TypeOK, TypeOK', SizeInv, NEW f, Unlinks(f)
  PROVE  SizeInv'
<1>1. /\ todo = <<>> /\ f \in File /\ UnlinkQueue(todo', f) /\ busy' = <<"unlink", f>>
      /\ vol' = vol /\ seqs' = seqs /\ gen' = gen /\ cut' = cut
  BY DEF Unlinks
<1>2. CachedFits /\ GoodFiles
  BY DEF SizeInv
<1>3. PICK r : r = todo'
  OBVIOUS
<1>4. PICK m \in Nat : \E cl, new : Removes(r, f, m, cl, new)
  BY <1>1, <1>3, RemovalIs
<1>5. \A i \in DOMAIN r : r[i].w \in {"drop", "bit", "dir", "release"}
  BY <1>4 DEF Removes
<1>6. \A i \in DOMAIN todo' : todo'[i].w \notin {"own", "head", "data", "size"}
  BY <1>3, <1>5
<1>7. Fresh' /\ OwnsFree' /\ OwnsNew' /\ DataFits' /\ SizeFits' /\ HeadFits'
  BY <1>1, <1>6 DEF Fresh, OwnsFree, OwnsNew, DataFits, SizeFits, HeadFits
<1>8. CachedFits'
  <2>1. \A g \in Entries(vol) : CachedIs(vol', todo', g, seqs'[g])
    BY <1>1, <1>2, CachedStarts
  <2>2. QED
    BY <1>1, <2>1 DEF CachedFits
<1>9. GoodFiles'
  <2>1. ASSUME NEW g \in Entries(vol), Clean(g)' PROVE Good(vol, g, gen'[g])
    BY <1>1, <1>2, <2>1, GoodStarts
  <2>2. QED
    BY <1>1, <2>1 DEF GoodFiles
<1>10. QED
  BY <1>7, <1>8, <1>9 DEF SizeInv

\* A creation starts.
LEMMA CreatesSizes ==
  ASSUME TypeOK, TypeOK', DirInv, WholeInv, SizeInv, OnceNamed', NEW f, NEW c, NEW b, Creates(f, c, b)
  PROVE  SizeInv'
<1>1. /\ todo = <<>> /\ f \in File /\ c \in Cluster /\ b \in Slot
      /\ vol.table[f].lnk = 0 /\ vol.ctab[<<c, b>>].fid = 0
      /\ CreateQueue(todo', f, c, b) /\ busy' = <<"create", f>> /\ cut' = cut \cup Again(f)
      /\ gen' = [gen EXCEPT ![f] = @ + 1] /\ vol' = vol /\ seqs' = seqs
  <2>1. f \in File /\ cut' = cut \cup Again(f) \cup Twice(f)
    BY DEF Creates
  <2>2. Twice(f) = {}
    BY <2>1 DEF OnceNamed, NamedTwice, Twice
  <2>3. cut' = cut \cup Again(f)
    BY <2>1, <2>2
  <2>4. QED
    BY <2>3 DEF Creates
<1>2. Target' = f /\ busy'[1] = "create"
  BY <1>1 DEF Target
<1>3. PICK r \in Seq(Writes) : r = todo'
  BY DEF TypeOK
<1>4. /\ DOMAIN r = 1..(BPC + 4) /\ Len(r) = BPC + 4 /\ BPC \in Nat \ {0}
      /\ r[1] = Own(<<c, b>>, f, 0) /\ r[3] = Take(f, c)
  BY <1>1, <1>3, CreatePlaces, Sizes DEF CreateQueue
<1>5. \A i \in DOMAIN r : /\ r[i].w = "own" => i = 1
                          /\ r[i].w = "take" => i = 3
                          /\ r[i].w = "head" => i = BPC + 4
                          /\ r[i].w \notin {"data", "size"}
  BY <1>1, <1>3, CreateKinds
<1>6. r[1].w = "own" /\ r[1].p = <<c, b>> /\ r[3].w = "take" /\ r[3].c = c
  BY <1>4, FieldsAre
<1>7. CachedFits /\ GoodFiles
  BY DEF SizeInv
<1>8. Fresh'
  BY <1>1, <1>2, CleanStarts DEF Fresh
<1>9. OwnsFree'
  BY <1>1, <1>3, <1>5, <1>6 DEF OwnsFree
<1>10. OwnsNew' /\ DataFits' /\ SizeFits'
  BY <1>2, <1>3, <1>5 DEF OwnsNew, DataFits, SizeFits
<1>11. ASSUME Clean(f)' PROVE \E p \in Block : HeadDue(vol, r, f, BPC + 4, p)
  <2>1. Uncut(f)
    BY <1>1, <1>11, CleanStarts
  <2>2. PICK u, L, a : Stands(f, u, L, a)
    BY <1>1, <2>1, WholeBetween
  <2>3. \A q \in Block : vol.ctab[q].fid # f
    BY <1>1, <2>2 DEF Stands, WholeFile, BlockAs
  <2>4. PICK p \in Block :
          /\ r[BPC + 4] = Header(p, [f |-> f, gen |-> gen[f] + 1, num |-> 0, size |-> 0])
          /\ p = <<c, b>> \/ vol.ctab[p].fid = f
    BY <1>1, <1>3 DEF CreateQueue
  <2>5. p = <<c, b>> /\ p[1] = c
    BY <2>3, <2>4
  <2>6. r[BPC + 4].w = "head" /\ r[BPC + 4].p = p /\ r[BPC + 4].x.size = 0
    <3>1. PICK x : x = [f |-> f, gen |-> gen[f] + 1, num |-> 0, size |-> 0]
      OBVIOUS
    <3>2. r[BPC + 4] = Header(p, x) /\ x.size = 0
      BY <2>4, <3>1
    <3>3. QED
      BY <3>2, FieldsAre
  <2>7. BPC + 4 \in DOMAIN r /\ 1 \in DOMAIN r /\ 3 \in DOMAIN r /\ 1 < BPC + 4 /\ 3 < BPC + 4
    BY <1>4
  <2>8. PlacedBy(vol, r, BPC + 4, f, p, 0)
    BY <1>4, <2>5, <2>7 DEF PlacedBy, Coming
  <2>9. Coming(r, BPC + 4, Take(f, p[1]))
    BY <1>4, <2>5, <2>7 DEF Coming
  <2>10. /\ \A k \in DOMAIN r : r[k].w = "own" => r[k].p = p
         /\ \A k \in DOMAIN r : r[k].w = "take" => r[k].c = p[1]
    BY <1>5, <1>6, <2>5
  <2>11. QED
    BY <1>4, <2>3, <2>6, <2>7, <2>8, <2>9, <2>10 DEF HeadDue
<1>12. HeadFits'
  <2>1. BPC + 4 \in Nat
    BY <1>4
  <2>2. QED
    BY <1>1, <1>2, <1>3, <1>11, <2>1 DEF HeadFits
<1>13. CachedFits'
  <2>1. \A g \in Entries(vol) : CachedIs(vol', todo', g, seqs'[g])
    BY <1>1, <1>7, CachedStarts
  <2>2. QED
    BY <1>1, <2>1 DEF CachedFits
<1>14. GoodFiles'
  <2>1. ASSUME NEW g \in Entries(vol), Clean(g)', g # f PROVE Good(vol, g, gen'[g])
    <3>1. g \in File
      BY <2>1, StateTyped, NamesAreFiles
    <3>2. gen'[g] = gen[g]
      BY <1>1, <2>1, <3>1, StateTyped
    <3>3. QED
      BY <1>1, <1>7, <2>1, <3>2, GoodStarts
  <2>2. QED
    BY <1>1, <2>1 DEF GoodFiles
<1>15. QED
  BY <1>8, <1>9, <1>10, <1>12, <1>13, <1>14 DEF SizeInv

\* A creation starts that got no block.
LEMMA GivesUpSizes ==
  ASSUME TypeOK, TypeOK', SizeInv, NEW f, GivesUp(f)
  PROVE  SizeInv'
<1>1. /\ todo = <<>> /\ f \in File /\ GiveUpQueue(todo', f) /\ busy' = <<"create", f>>
      /\ gen' = [gen EXCEPT ![f] = @ + 1] /\ vol' = vol /\ seqs' = seqs
      /\ cut \subseteq cut' /\ <<"gaveup", f>> \in cut'
  BY DEF GivesUp
<1>2. Target' = f /\ busy'[1] = "create"
  BY <1>1 DEF Target
<1>3. ~Clean(f)' /\ ~Clean(Target)'
  BY <1>1, <1>2 DEF Clean
<1>4. \A i \in DOMAIN todo' : todo'[i].w \in {"take", "dir", "head", "wild"}
  <2>1. SUFFICES ASSUME NEW i \in DOMAIN todo' PROVE todo'[i].w \in {"take", "dir", "head", "wild"}
    OBVIOUS
  <2>2. PICK r : r = todo'
    OBVIOUS
  <2>3. NotedAt(r, f, i) \/ r[i].w = "dir" \/ HeadedAt(r, f, i) \/ r[i].w = "wild"
    BY <1>1, <2>2, Zenon DEF GiveUpQueue
  <2>4. CASE HeadedAt(r, f, i)
    <3>1. PICK p, x : r[i] = Header(p, x)
      BY <2>4 DEF HeadedAt
    <3>2. r[i].w = "head"
      BY <3>1, HeadFields
    <3>3. QED
      BY <2>2, <3>2
  <2>5. CASE NotedAt(r, f, i)
    BY <2>2, <2>5 DEF NotedAt
  <2>6. QED
    BY <2>2, <2>3, <2>4, <2>5
<1>5. CachedFits /\ GoodFiles
  BY DEF SizeInv
<1>6. Fresh' /\ HeadFits'
  BY <1>2, <1>3 DEF Fresh, HeadFits
<1>7. OwnsFree' /\ OwnsNew' /\ DataFits' /\ SizeFits'
  BY <1>4 DEF OwnsFree, OwnsNew, DataFits, SizeFits
<1>8. CachedFits'
  <2>1. \A g \in Entries(vol) : CachedIs(vol', todo', g, seqs'[g])
    BY <1>1, <1>5, CachedStarts
  <2>2. QED
    BY <1>1, <2>1 DEF CachedFits
<1>9. GoodFiles'
  <2>1. ASSUME NEW g \in Entries(vol), Clean(g)' PROVE Good(vol, g, gen'[g])
    <3>1. g \in File /\ g # f
      BY <1>3, <2>1, StateTyped, NamesAreFiles
    <3>2. gen'[g] = gen[g]
      BY <1>1, <3>1, StateTyped
    <3>3. QED
      BY <1>1, <1>5, <2>1, <3>2, GoodStarts
  <2>2. QED
    BY <1>1, <2>1 DEF GoodFiles
<1>10. QED
  BY <1>6, <1>7, <1>8, <1>9 DEF SizeInv

(* Queue r of a write to f: list l, new blocks ps at odd places up to 2m, their *)
(* clusters up to 3m, payload from block s up to n - 1 and the size behind.     *)
Queued(r, f, n, l, ps, m, len, s) ==
  /\ DOMAIN r = 1..Len(r) /\ Len(r) \in Nat /\ Len(r) >= 3 * m
  /\ \A k \in 1..m : 2 * k - 1 \in DOMAIN r /\ r[2 * k - 1] = Own(ps[k], f, len + k - 1)
  /\ \A k \in 1..m : 2 * m + k \in DOMAIN r /\ r[2 * m + k] = List(f, ps[k][1])
  /\ \A i \in DOMAIN r : r[i].w = "own" => \E k \in 1..m : i = 2 * k - 1
  /\ \A i \in DOMAIN r : r[i].w \in {"own", "bit", "list", "data", "size"}
  /\ \A i \in DOMAIN r : r[i].w = "data" => i > 3 * m /\ \E j \in Nat : Has(l, j) /\ r[i] = Data(Found(l, j), Tag(f, j))
  /\ \A i \in DOMAIN r : r[i].w = "size" =>
       /\ i > 3 * m + (n - s) /\ r[i].n = n
       /\ \A j \in s..(n - 1) : Has(l, j)
       /\ \A k \in 1..(n - s) : 3 * m + k \in DOMAIN r /\ r[3 * m + k] = Data(Found(l, s + k - 1), Tag(f, s + k - 1))

(* Places in such a queue. *)
InQueue(m, q) == \A i \in 1..(3 * m + q) : i \in 1..(2 * m) \/ i - 2 * m \in 1..m \/ i - 3 * m \in 1..q

\* Each place is one of a reservation, of a list, or of the payload.
LEMMA PlacesAre ==
  ASSUME NEW m \in Nat, NEW q \in Nat
  PROVE  /\ InQueue(m, q)
         /\ \A k \in 1..m : 2 * k - 1 \in 1..(3 * m + q) /\ 2 * m + k \in 1..(3 * m + q)
         /\ \A k \in 1..q : 3 * m + k \in 1..(3 * m + q)
         /\ \A i \in Int : i = 2 * m + (i - 2 * m) /\ i = 3 * m + (i - 3 * m)
  BY DEF InQueue

\* So are the writes of a write request.
LEMMA QueuedIs ==
  ASSUME NEW f, NEW n \in Nat, NEW l, NEW ps, NEW m \in Nat, NEW r, WriteQueue(r, f, n, l, ps, m)
  PROVE  Queued(r, f, n, l, ps, m, Len(seqs[f]), SizeOf(vol, seqs[f]))
<1>1. PICK len, s : len = Len(seqs[f]) /\ s = SizeOf(vol, seqs[f])
  OBVIOUS
<1>2. PICK q \in Nat :
    /\ r \in Seq(Writes) /\ Len(r) = 3 * m + q
    /\ \A i \in 1..(2 * m) : \E k \in 1..m : i = 2 * k - 1 \/ i = 2 * k
    /\ \A k \in 1..m : r[2 * k - 1] = Own(ps[k], f, len + k - 1) /\ r[2 * k] = Bit(ps[k][1])
    /\ \A k \in 1..m : r[2 * m + k] = List(f, ps[k][1])
    /\ \/ q = 0
       \/ q = n - s + 1 /\ PayloadQueue(r, 3 * m, f, l, s, n)
  BY <1>1 DEF WriteQueue
<1>3. DOMAIN r = 1..Len(r) /\ Len(r) \in Nat /\ Len(r) >= 3 * m /\ DOMAIN r = 1..(3 * m + q)
  BY <1>2
<1>4. /\ \A k \in 1..m : 2 * k - 1 \in DOMAIN r /\ 2 * m + k \in DOMAIN r
      /\ \A k \in 1..q : 3 * m + k \in DOMAIN r
  BY <1>3, PlacesAre
<1>5. ASSUME NEW i \in 1..(2 * m)
      PROVE  (r[i].w = "own" /\ \E k \in 1..m : i = 2 * k - 1) \/ r[i].w = "bit"
  <2>1. PICK k \in 1..m : i = 2 * k - 1 \/ i = 2 * k
    BY <1>2
  <2>2. PICK x, y, z, p, c : x = r[2 * k - 1] /\ y = r[2 * k] /\ z = len + k - 1 /\ p = ps[k] /\ c = ps[k][1]
    OBVIOUS
  <2>3. x = Own(p, f, z) /\ y = Bit(c)
    BY <1>2, <2>2
  <2>4. x.w = "own" /\ y.w = "bit"
    BY <2>3, FieldsAre
  <2>5. QED
    BY <2>1, <2>2, <2>4
<1>6. ASSUME NEW i \in DOMAIN r, i - 2 * m \in 1..m PROVE r[i].w = "list"
  <2>1. PICK k \in 1..m : i = 2 * m + k
    BY <1>3, <1>6, PlacesAre
  <2>2. PICK x, c : x = r[2 * m + k] /\ c = ps[k][1]
    OBVIOUS
  <2>3. x = List(f, c)
    BY <1>2, <2>2
  <2>4. x.w = "list"
    BY <2>3, FieldsAre
  <2>5. QED
    BY <2>1, <2>2, <2>4
<1>7. ASSUME NEW k \in 1..q
      PROVE  /\ s \in Nat /\ s < n /\ (\A j \in s..(n - 1) : Has(l, j))
             /\ \A x \in 1..(n - s) : r[3 * m + x] = Data(Found(l, s + x - 1), Tag(f, s + x - 1))
             /\ r[3 * m + (n - s) + 1] = Size(Found(l, 0), n)
             /\ k \in 1..(n - s) \/ k = n - s + 1
             /\ q = n - s + 1
  <2>1. q # 0
    OBVIOUS
  <2>2. q = n - s + 1 /\ PayloadQueue(r, 3 * m, f, l, s, n)
    BY <1>2, <2>1
  <2>3. s \in Nat /\ s < n
    BY <2>2 DEF PayloadQueue
  <2>4. k \in 1..(n - s) \/ k = n - s + 1
    BY <2>2, <2>3
  <2>5. QED
    BY <2>2, <2>4 DEF PayloadQueue
<1>8. ASSUME NEW k \in 1..q, k \in 1..(n - s)
      PROVE  /\ r[3 * m + k].w = "data"
             /\ \E j \in Nat : Has(l, j) /\ r[3 * m + k] = Data(Found(l, j), Tag(f, j))
  <2>1. s \in Nat /\ (\A j \in s..(n - 1) : Has(l, j)) /\ r[3 * m + k] = Data(Found(l, s + k - 1), Tag(f, s + k - 1))
    BY <1>7, <1>8
  <2>2. PICK j \in Nat : j = s + k - 1 /\ j \in s..(n - 1)
    BY <1>8, <2>1
  <2>3. r[3 * m + k] = Data(Found(l, j), Tag(f, j)) /\ Has(l, j)
    BY <2>1, <2>2
  <2>4. QED
    BY <2>3, FieldsAre
<1>9. ASSUME NEW k \in 1..q, k = n - s + 1
      PROVE  /\ r[3 * m + k].w = "size" /\ r[3 * m + k].n = n /\ 3 * m + k > 3 * m + (n - s)
             /\ \A j \in s..(n - 1) : Has(l, j)
             /\ \A x \in 1..(n - s) : 3 * m + x \in DOMAIN r /\ r[3 * m + x] = Data(Found(l, s + x - 1), Tag(f, s + x - 1))
  <2>1. /\ s \in Nat /\ s < n /\ (\A j \in s..(n - 1) : Has(l, j)) /\ q = n - s + 1
        /\ \A x \in 1..(n - s) : r[3 * m + x] = Data(Found(l, s + x - 1), Tag(f, s + x - 1))
        /\ r[3 * m + (n - s) + 1] = Size(Found(l, 0), n)
    BY <1>7
  <2>2. 3 * m + k = 3 * m + (n - s) + 1 /\ 3 * m + k > 3 * m + (n - s)
    BY <1>9, <2>1
  <2>3. \A x \in 1..(n - s) : x \in 1..q
    BY <2>1
  <2>4. PICK x, p : x = r[3 * m + k] /\ p = Found(l, 0)
    OBVIOUS
  <2>5. x = Size(p, n)
    BY <2>1, <2>2, <2>4
  <2>6. x.w = "size" /\ x.n = n
    BY <2>5, FieldsAre
  <2>7. \A y \in 1..(n - s) : 3 * m + y \in DOMAIN r
    BY <1>4, <2>3
  <2>8. QED
    BY <2>1, <2>2, <2>4, <2>6, <2>7
<1>10. ASSUME NEW i \in DOMAIN r, i - 3 * m \in 1..q
       PROVE  /\ r[i].w \in {"data", "size"}
              /\ r[i].w = "data" => i > 3 * m /\ \E j \in Nat : Has(l, j) /\ r[i] = Data(Found(l, j), Tag(f, j))
              /\ r[i].w = "size" =>
                   /\ i > 3 * m + (n - s) /\ r[i].n = n
                   /\ \A j \in s..(n - 1) : Has(l, j)
                   /\ \A x \in 1..(n - s) : 3 * m + x \in DOMAIN r /\ r[3 * m + x] = Data(Found(l, s + x - 1), Tag(f, s + x - 1))
  <2>1. PICK k \in 1..q : i = 3 * m + k
    BY <1>3, <1>10, PlacesAre
  <2>2. i > 3 * m
    BY <2>1
  <2>3. k \in 1..(n - s) \/ k = n - s + 1
    BY <1>7
  <2>4. CASE k \in 1..(n - s)
    BY <1>8, <2>1, <2>2, <2>4
  <2>5. CASE k = n - s + 1
    BY <1>9, <2>1, <2>5
  <2>6. QED
    BY <2>3, <2>4, <2>5
<1>11. \A i \in DOMAIN r : i \in 1..(2 * m) \/ i - 2 * m \in 1..m \/ i - 3 * m \in 1..q
  BY <1>3, PlacesAre DEF InQueue
<1>12. \A i \in DOMAIN r : r[i].w = "own" => \E k \in 1..m : i = 2 * k - 1
  BY <1>5, <1>6, <1>10, <1>11
<1>13. \A i \in DOMAIN r : r[i].w \in {"own", "bit", "list", "data", "size"}
  BY <1>5, <1>6, <1>10, <1>11
<1>14. ASSUME NEW i \in DOMAIN r, r[i].w \in {"data", "size"} PROVE i - 3 * m \in 1..q
  BY <1>5, <1>6, <1>11, <1>14
<1>15. Queued(r, f, n, l, ps, m, len, s)
  BY <1>2, <1>3, <1>4, <1>10, <1>12, <1>13, <1>14 DEF Queued
<1>16. QED
  BY <1>1, <1>15

\* The entries of the longer list are or will be in place when the clusters are listed.
LEMMA ListPlaced ==
  ASSUME TypeOK, CachedFits, todo = <<>>, NEW f \in File, f \in Entries(vol), NEW m \in Nat,
         NEW r, NEW n, NEW l, NEW ps, NEW s, Longer(l, f, ps, m), Queued(r, f, n, l, ps, m, Len(seqs[f]), s),
         NEW k \in DOMAIN l, NEW i \in Int, i > 3 * m
  PROVE  PlacedBy(vol, r, i, f, l[k].at, l[k].num) /\ ListedFrom(vol, r, i, f, l[k].at[1])
<1>1. PICK len \in Nat : len = Len(seqs[f]) /\ DOMAIN seqs[f] = 1..len
  <2>1. seqs[f] \in Seq(BlkInfo)
    BY StateTyped
  <2>2. QED
    BY <2>1
<1>2. /\ DOMAIN l = 1..(len + m)
      /\ \A x \in 1..len : l[x] = seqs[f][x]
      /\ \A x \in 1..m : l[len + x] = [at |-> ps[x], num |-> len + x - 1]
  BY <1>1 DEF Longer
<1>3. CASE k \in 1..len
  <2>1. Placed(vol, f, seqs[f][k].at, seqs[f][k].num) /\ ListsIt(vol, f, seqs[f][k].at[1])
    BY <1>1, <1>3, CachedNow
  <2>2. l[k] = seqs[f][k]
    BY <1>2, <1>3
  <2>3. QED
    BY <2>1, <2>2 DEF PlacedBy, ListedFrom
<1>4. CASE k \notin 1..len
  <2>1. PICK x \in 1..m : k = len + x
    <3>1. k - len \in 1..m /\ k = len + (k - len)
      BY <1>2, <1>4
    <3>2. QED
      BY <3>1
  <2>2. PICK p, j : p = ps[x] /\ j = len + x - 1
    OBVIOUS
  <2>3. l[k] = [at |-> p, num |-> j]
    BY <1>2, <2>1, <2>2
  <2>4. l[k].at = p /\ l[k].num = j
    BY <2>3
  <2>5. /\ 2 * x - 1 \in DOMAIN r /\ r[2 * x - 1] = Own(p, f, j)
        /\ 2 * m + x \in DOMAIN r /\ r[2 * m + x] = List(f, p[1])
    BY <1>1, <2>2 DEF Queued
  <2>6. 2 * x - 1 < i /\ 2 * m + x < i
    OBVIOUS
  <2>7. Coming(r, i, Own(p, f, j)) /\ Coming(r, i, List(f, p[1]))
    BY <2>5, <2>6 DEF Coming
  <2>8. QED
    BY <2>4, <2>7 DEF PlacedBy, ListedFrom
<1>5. QED
  BY <1>3, <1>4

\* The size read through the cached list is the one in the header.
LEMMA SizeRead ==
  ASSUME TypeOK, CachedFits, todo = <<>>, NEW f \in File, f \in Entries(vol), Has(seqs[f], 0),
         Unique(vol, f), NEW p \in Block, Placed(vol, f, p, 0)
  PROVE  SizeOf(vol, seqs[f]) = vol.data[p].size
<1>1. PICK l \in Seq(BlkInfo) : l = seqs[f]
  BY StateTyped
<1>2. PICK k \in DOMAIN l : Found(l, 0) = l[k].at /\ l[k].num = 0
  BY <1>1, FoundIs
<1>3. Placed(vol, f, l[k].at, l[k].num)
  BY <1>1, CachedNow
<1>4. l[k].at \in Block
  <2>1. l[k] \in BlkInfo
    BY <1>1
  <2>2. QED
    BY <2>1 DEF BlkInfo
<1>5. l[k].at = p
  BY <1>2, <1>3, <1>4 DEF Placed, Unique
<1>6. QED
  BY <1>1, <1>2, <1>5 DEF SizeOf

\* What is there comes before all.
LEMMA StoredFirst ==
  ASSUME NEW d, NEW f, NEW n, NEW p, NEW i, Stored(d, f, n, p, i)
  PROVE  \A r, j : StoredBy(d, r, j, f, n, p, i)
  BY DEF Stored, StoredBy, PlacedBy, ListedFrom, TaggedBy

\* When the size is due the blocks it covers are there, or due before it.
LEMMA CoveredBy ==
  ASSUME TypeOK, CachedFits, todo = <<>>, NEW f \in File, f \in Entries(vol), Has(seqs[f], 0),
         Good(vol, f, gen[f]), NEW m \in Nat, NEW n \in Nat,
         NEW r, NEW l, NEW ps, Longer(l, f, ps, m),
         Queued(r, f, n, l, ps, m, Len(seqs[f]), SizeOf(vol, seqs[f])),
         NEW i \in DOMAIN r, r[i].w = "size", NEW t \in 0..(n - 1)
  PROVE  \E p \in Block : StoredBy(vol, r, i, f, gen[f], p, t)
<1>1. PICK s \in Nat : s = SizeOf(vol, seqs[f])
  BY SizeIs
<1>2. /\ i > 3 * m + (n - s)
      /\ \A j \in s..(n - 1) : Has(l, j)
      /\ \A k \in 1..(n - s) : 3 * m + k \in DOMAIN r /\ r[3 * m + k] = Data(Found(l, s + k - 1), Tag(f, s + k - 1))
      /\ i \in Int
  BY <1>1 DEF Queued
<1>3. CASE t < s
  <2>1. PICK p \in Block : Headed(vol, f, gen[f], p)
    BY DEF Good
  <2>2. s = vol.data[p].size
    BY <1>1, <2>1, SizeRead DEF Good, Headed
  <2>3. t \in 0..(s - 1)
    BY <1>3
  <2>4. PICK q \in Block : Stored(vol, f, gen[f], q, t)
    BY <2>1, <2>2, <2>3 DEF Headed, Filled
  <2>5. QED
    BY <2>4, StoredFirst
<1>4. CASE t >= s
  <2>1. t \in s..(n - 1) /\ t \in Nat
    BY <1>4
  <2>2. PICK k \in 1..(n - s) : t = s + k - 1
    <3>1. t - s + 1 \in 1..(n - s) /\ t = s + (t - s + 1) - 1
      BY <1>4
    <3>2. QED
      BY <3>1
  <2>3. l \in Seq(BlkInfo)
    BY DEF Longer
  <2>4. PICK x \in DOMAIN l : Found(l, t) = l[x].at /\ l[x].num = t
    BY <1>2, <2>1, <2>3, FoundIs
  <2>5. PICK p \in Block : p = l[x].at
    <3>1. l[x] \in BlkInfo
      BY <2>3
    <3>2. QED
      BY <3>1 DEF BlkInfo
  <2>6. i > 3 * m
    BY <1>2, <2>2
  <2>7. PlacedBy(vol, r, i, f, p, t) /\ ListedFrom(vol, r, i, f, p[1])
    BY <1>1, <1>2, <2>4, <2>5, <2>6, ListPlaced
  <2>8. 3 * m + k \in DOMAIN r /\ 3 * m + k < i
    BY <1>2, <2>2
  <2>9. r[3 * m + k] = TagData(f, gen[f], p, t)
    BY <1>2, <2>2, <2>4, <2>5 DEF TagData, Tag
  <2>10. TaggedBy(vol, r, i, f, gen[f], p, t)
    BY <2>8, <2>9 DEF TaggedBy, Coming
  <2>11. QED
    BY <2>7, <2>10 DEF StoredBy
<1>5. QED
  BY <1>3, <1>4

\* The numbers a write gives are behind those of the file.
LEMMA NumbersNew ==
  ASSUME TypeOK, DirInv, WholeInv, todo = <<>>, NEW f \in File, f \in Entries(vol), seqs[f] # <<>>, Uncut(f),
         NEW q \in Block, vol.ctab[q].fid = f
  PROVE  vol.ctab[q].num \in 0..(Len(seqs[f]) - 1) /\ Len(seqs[f]) \in Nat
<1>1. PICK u, L, a : Stands(f, u, L, a)
  BY WholeBetween
<1>2. a = 1 /\ WholeFile(u, L, 1, seqs[f]) /\ BlockAs(vol, f, u, q)
  BY <1>1 DEF Stands
<1>3. Len(seqs[f]) \in Nat /\ Onto(u, Len(seqs[f]))
  BY <1>2, WholeNumbers
<1>4. q \in DOMAIN u /\ vol.ctab[q].num = u[q]
  BY <1>2 DEF BlockAs
<1>5. QED
  BY <1>3, <1>4 DEF Onto

\* A write starts.
LEMMA ExtendsSizes ==
  ASSUME TypeOK, TypeOK', DirInv, WholeInv, SizeInv, OnceNamed', NEW f, NEW n, NEW m, Extends(f, n, m)
  PROVE  SizeInv'
<1>1. PICK l, ps : l = NewList(f, n) /\ ps = NewOnes(f, n)
  OBVIOUS
<1>2. /\ todo = <<>> /\ f \in File /\ f \in Entries(vol) /\ n \in Nat /\ m \in Nat /\ Has(seqs[f], 0)
      /\ FreeOnes(ps, m) /\ Longer(l, f, ps, m) /\ WriteQueue(todo', f, n, l, ps, m)
      /\ seqs' = [seqs EXCEPT ![f] = l]
      /\ busy' = IF todo' = <<>> THEN Idle ELSE <<"write", f>>
      /\ cut' = cut \cup Again(f) /\ vol' = vol /\ gen' = gen
  BY <1>1 DEF Extends
<1>3. seqs'[f] = l /\ \A g \in File : g # f => seqs'[g] = seqs[g]
  BY <1>2 DEF TypeOK
<1>4. PICK r \in Seq(Writes) : r = todo'
  BY DEF TypeOK
<1>5. PICK len, s : len = Len(seqs[f]) /\ s = SizeOf(vol, seqs[f])
  OBVIOUS
<1>6. Queued(r, f, n, l, ps, m, len, s)
  BY <1>2, <1>4, <1>5, QueuedIs
<1>7. CachedFits /\ GoodFiles
  BY DEF SizeInv
<1>8. DOMAIN r # {} => Target' = f /\ busy' = <<"write", f>>
  BY <1>2, <1>4 DEF Target
<1>9. /\ \A k \in 1..m : vol.ctab[ps[k]].fid = 0
      /\ \A j, k \in 1..m : ps[j] = ps[k] => j = k
  BY <1>2 DEF FreeOnes
<1>10. len \in Nat
  <2>1. seqs[f] \in Seq(BlkInfo)
    BY <1>2, StateTyped
  <2>2. QED
    BY <1>5, <2>1
<1>11. ASSUME NEW i \in DOMAIN r, r[i].w = "own"
       PROVE  \E k \in 1..m : i = 2 * k - 1 /\ r[i].p = ps[k] /\ r[i].i = len + k - 1
  <2>1. PICK k \in 1..m : i = 2 * k - 1
    BY <1>6, <1>11 DEF Queued
  <2>2. PICK p, z : p = ps[k] /\ z = len + k - 1
    OBVIOUS
  <2>3. r[i] = Own(p, f, z)
    BY <1>6, <2>1, <2>2 DEF Queued
  <2>4. r[i].p = p /\ r[i].i = z
    BY <2>3, FieldsAre
  <2>5. QED
    BY <2>1, <2>2, <2>4
<1>12. Fresh'
  <2>1. ASSUME busy'[1] \in {"create", "write"}, Clean(Target)' PROVE Uncut(Target)'
    <3>1. Target' = f
      BY <1>2, <2>1 DEF Idle, Target
    <3>2. Clean(f)'
      BY <2>1, <3>1 DEF Clean
    <3>3. Uncut(f)'
      BY <1>2, <3>2, CleanStarts
    <3>4. QED
      BY <3>1, <3>3 DEF Uncut
  <2>2. QED
    BY <2>1 DEF Fresh
<1>13. OwnsFree'
  <2>1. ASSUME NEW i \in DOMAIN r, r[i].w = "own" PROVE vol.ctab[r[i].p].fid = 0
    BY <1>9, <1>11, <2>1
  <2>2. ASSUME NEW i \in DOMAIN r, NEW j \in DOMAIN r, r[i].w = "own", r[j].w = "own", r[i].p = r[j].p PROVE i = j
    <3>1. PICK k \in 1..m : i = 2 * k - 1 /\ r[i].p = ps[k]
      BY <1>11, <2>2
    <3>2. PICK x \in 1..m : j = 2 * x - 1 /\ r[j].p = ps[x]
      BY <1>11, <2>2
    <3>3. QED
      BY <1>9, <2>2, <3>1, <3>2
  <2>3. QED
    BY <1>2, <1>4, <2>1, <2>2 DEF OwnsFree
<1>14. OwnsNew'
  <2>1. ASSUME Clean(f)', NEW i \in DOMAIN r, r[i].w = "own", NEW q \in Block, vol.ctab[q].fid = f
        PROVE  vol.ctab[q].num # r[i].i
    <3>1. Uncut(f)
      BY <1>2, <2>1, CleanStarts
    <3>2. seqs[f] # <<>>
      BY <1>2 DEF Has
    <3>3. vol.ctab[q].num \in 0..(len - 1)
      BY <1>2, <1>5, <2>1, <3>1, <3>2, NumbersNew
    <3>4. PICK k \in 1..m : r[i].i = len + k - 1
      BY <1>11, <2>1
    <3>5. QED
      BY <1>10, <3>3, <3>4
  <2>2. ASSUME NEW i \in DOMAIN r, NEW j \in DOMAIN r, r[i].w = "own", r[j].w = "own", r[i].i = r[j].i PROVE i = j
    <3>1. PICK k \in 1..m : i = 2 * k - 1 /\ r[i].i = len + k - 1
      BY <1>11, <2>2
    <3>2. PICK x \in 1..m : j = 2 * x - 1 /\ r[j].i = len + x - 1
      BY <1>11, <2>2
    <3>3. QED
      BY <1>10, <2>2, <3>1, <3>2
  <2>3. Clean(Target)' => Clean(f)' \/ DOMAIN r = {}
    BY <1>8 DEF Clean
  <2>4. QED
    BY <1>2, <1>4, <1>8, <2>1, <2>2, <2>3 DEF OwnsNew
<1>15. DataFits'
  <2>1. ASSUME NEW i \in DOMAIN r, r[i].w = "data"
        PROVE  r[i].x.f = f /\ r[i].x.gen = gen[f] /\ PlacedBy(vol, r, i, f, r[i].p, r[i].x.num)
    <3>1. PICK j \in Nat : i > 3 * m /\ Has(l, j) /\ r[i] = Data(Found(l, j), Tag(f, j))
      BY <1>6, <2>1 DEF Queued
    <3>2. l \in Seq(BlkInfo)
      BY <1>2 DEF Longer
    <3>3. PICK k \in DOMAIN l : Found(l, j) = l[k].at /\ l[k].num = j
      BY <3>1, <3>2, FoundIs
    <3>4. i \in Int
      BY <1>4
    <3>5. PlacedBy(vol, r, i, f, l[k].at, l[k].num)
      BY <1>2, <1>5, <1>6, <1>7, <3>1, <3>4, ListPlaced
    <3>6. PICK x, p : x = Tag(f, j) /\ p = Found(l, j)
      OBVIOUS
    <3>7. x.f = f /\ x.gen = gen[f] /\ x.num = j
      BY <3>6 DEF Tag
    <3>8. r[i].x = x /\ r[i].p = p
      BY <3>1, <3>6, FieldsAre
    <3>9. QED
      BY <3>3, <3>5, <3>6, <3>7, <3>8
  <2>2. QED
    BY <1>2, <1>4, <1>8, <2>1 DEF DataFits
<1>16. SizeFits'
  <2>1. ASSUME NEW i \in DOMAIN r, r[i].w = "size", Clean(f)', NEW t \in 0..(r[i].n - 1)
        PROVE  \E p \in Block : StoredBy(vol, r, i, f, gen[f], p, t)
    <3>1. r[i].n = n
      BY <1>6, <2>1 DEF Queued
    <3>2. Good(vol, f, gen[f])
      <4>1. cut \subseteq cut' /\ gen'[f] = gen[f]
        BY <1>2
      <4>2. QED
        BY <1>2, <1>7, <2>1, <4>1, GoodStarts
    <3>3. QED
      BY <1>2, <1>5, <1>6, <1>7, <2>1, <3>1, <3>2, CoveredBy
  <2>2. Clean(Target)' => Clean(f)' \/ DOMAIN r = {}
    BY <1>8 DEF Clean
  <2>3. QED
    BY <1>2, <1>4, <1>8, <2>1, <2>2 DEF SizeFits
<1>17. HeadFits'
  <2>1. \A i \in DOMAIN r : r[i].w # "head"
    BY <1>6 DEF Queued
  <2>2. busy'[1] # "create"
    BY <1>2 DEF Idle
  <2>3. QED
    BY <1>4, <2>1, <2>2 DEF HeadFits
<1>18. CachedFits'
  <2>1. ASSUME NEW g \in Entries(vol), g # f PROVE CachedIs(vol', todo', g, seqs'[g])
    <3>1. seqs'[g] = seqs[g]
      BY <1>3, <2>1, StateTyped, NamesAreFiles
    <3>2. QED
      BY <1>2, <1>7, <2>1, <3>1, CachedStarts
  <2>2. CachedIs(vol, r, f, l)
    <3>1. Len(r) + 1 \in Int /\ Len(r) + 1 > 3 * m
      BY <1>2, <1>6 DEF Queued
    <3>2. \A k \in DOMAIN l : PlacedBy(vol, r, Len(r) + 1, f, l[k].at, l[k].num)
                              /\ ListedFrom(vol, r, Len(r) + 1, f, l[k].at[1])
      BY <1>2, <1>5, <1>6, <1>7, <3>1, ListPlaced
    <3>3. QED
      BY <3>2 DEF CachedIs
  <2>3. QED
    BY <1>2, <1>3, <1>4, <2>1, <2>2 DEF CachedFits
<1>19. GoodFiles'
  <2>1. ASSUME NEW g \in Entries(vol), Clean(g)' PROVE Good(vol, g, gen'[g])
    <3>1. cut \subseteq cut' /\ gen'[g] = gen[g]
      BY <1>2
    <3>2. QED
      BY <1>2, <1>7, <2>1, <3>1, GoodStarts
  <2>2. QED
    BY <1>2, <2>1 DEF GoodFiles
<1>20. QED
  BY <1>12, <1>13, <1>14, <1>15, <1>16, <1>17, <1>18, <1>19 DEF SizeInv

\* Each step keeps the invariant, as long as the listing fits its first block.
LEMMA SizeStep ==
  ASSUME TypeOK, TypeOK', SavedInv, DirInv, WholeInv, SizeInv, OnceNamed, OnceNamed', [Next]_vars,
         FirstBlockOnly, FirstBlockOnly'
  PROVE  SizeInv'
<1>1. CASE Loses
  BY <1>1, SameSizes DEF Loses
<1>2. ASSUME NEW f, NEW c, NEW b, Creates(f, c, b) PROVE SizeInv'
  BY <1>2, CreatesSizes
<1>25. ASSUME NEW f, GivesUp(f) PROVE SizeInv'
  BY <1>25, GivesUpSizes
<1>3. ASSUME NEW f, Gets(f) PROVE SizeInv'
  BY <1>3, GetsSizes
<1>4. ASSUME NEW f, NEW n, NEW m, Extends(f, n, m) PROVE SizeInv'
  BY <1>4, ExtendsSizes
<1>5. ASSUME NEW f, Unlinks(f) PROVE SizeInv'
  BY <1>5, UnlinksSizes
<1>6. CASE Write
  BY <1>6, WriteSizes
<1>7. CASE Crash \/ Remount
  BY <1>7, MountsSizes
<1>8. CASE UNCHANGED vars
  <2>1. UNCHANGED Rest
    BY <1>8 DEF vars, Rest
  <2>2. QED
    BY <2>1, SameSizes
<1>9. QED
  BY <1>1, <1>2, <1>25, <1>3, <1>4, <1>5, <1>6, <1>7, <1>8, StepIs

\* On the formatted volume nothing is named and nothing is due.
LEMMA SizeInit ==
  ASSUME Init
  PROVE  SizeInv
<1>1. vol = Formatted /\ todo = <<>> /\ busy = Idle
  BY DEF Init
<1>2. Entries(vol) = {}
  <2>1. vol.root.len = 0
    BY <1>1 DEF Formatted
  <2>2. \A s \in 1..0 : FALSE
    OBVIOUS
  <2>3. QED
    BY <2>1, <2>2 DEF Entries
<1>3. Fresh /\ OwnsFree /\ OwnsNew /\ DataFits /\ SizeFits /\ HeadFits
  BY <1>1 DEF Fresh, OwnsFree, OwnsNew, DataFits, SizeFits, HeadFits, Idle
<1>4. CachedFits /\ GoodFiles
  BY <1>2 DEF CachedFits, GoodFiles
<1>5. QED
  BY <1>3, <1>4 DEF SizeInv

\* A mount reads what was written there, of a file that has its bytes.
LEMMA GoodIntact ==
  ASSUME TypeOK, NEW f \in File, Good(vol, f, gen[f]), saved.table[f] = vol.table[f]
  PROVE  Intact(f)
<1>1. PICK d \in Volume, v \in Volume :
        /\ d = OnDevice /\ v = vol /\ d.table = saved.table /\ d.ctab = v.ctab /\ d.data = v.data
  BY MountIs, StateTyped
<1>2. Good(d, f, gen[f])
  BY <1>1, GoodSame
<1>3. PICK l : l = BlocksOf(d, f)
  OBVIOUS
<1>4. /\ l \in Seq(BlkInfo)
      /\ \A k \in DOMAIN l : l[k].at \in Block /\ d.ctab[l[k].at].fid = f /\ l[k].num = d.ctab[l[k].at].num
      /\ \A p \in Block : d.ctab[p].fid = f /\ p[1] \in Range(d.table[f].clrs) => \E k \in DOMAIN l : l[k].at = p
  <2>1. /\ BlocksOf(d, f) \in Seq(BlkInfo)
        /\ \A k \in DOMAIN BlocksOf(d, f) :
             LET b == BlocksOf(d, f)[k]
             IN /\ b.at \in Block /\ d.ctab[b.at].fid = f /\ b.num = d.ctab[b.at].num
                /\ b.at[1] \in Range(d.table[f].clrs)
        /\ \A p \in Block : d.ctab[p].fid = f /\ p[1] \in Range(d.table[f].clrs)
             => \E k \in DOMAIN BlocksOf(d, f) : BlocksOf(d, f)[k].at = p
    BY BlocksOfAre
  <2>2. QED
    BY <1>3, <2>1
<1>5. Unique(d, f)
  BY <1>2 DEF Good
<1>6. ASSUME NEW p \in Block, NEW i \in Nat, Placed(d, f, p, i), ListsIt(d, f, p[1])
      PROVE  Has(l, i) /\ Found(l, i) = p
  <2>1. PICK k \in DOMAIN l : l[k].at = p
    BY <1>4, <1>6 DEF Placed, ListsIt
  <2>2. l[k].num = i
    BY <1>4, <1>6, <2>1 DEF Placed
  <2>3. Has(l, i)
    BY <2>2 DEF Has
  <2>4. PICK x \in DOMAIN l : Found(l, i) = l[x].at /\ l[x].num = i
    BY <1>4, <2>3, FoundIs
  <2>5. l[x].at \in Block /\ d.ctab[l[x].at].fid = f /\ d.ctab[l[x].at].num = i
    BY <1>4, <2>4
  <2>6. l[x].at = p
    BY <1>5, <1>6, <2>5 DEF Unique, Placed
  <2>7. QED
    BY <2>3, <2>4, <2>6
<1>7. PICK p \in Block : Placed(d, f, p, 0) /\ ListsIt(d, f, p[1]) /\ Filled(d, f, gen[f], d.data[p].size)
  BY <1>2 DEF Good, Headed
<1>8. SizeOf(v, l) = v.data[p].size
  BY <1>6, <1>7 DEF SizeOf
<1>9. v.data[p].size \in Nat
  <2>1. v.data \in [Block -> Content]
    BY DeviceFields
  <2>2. v.data[p] \in Content
    BY <2>1
  <2>3. QED
    BY <2>2 DEF Content
<1>10. ASSUME NEW i \in 0..(SizeOf(v, l) - 1)
      PROVE  Has(l, i) /\ LET x == v.data[Found(l, i)] IN <<x.f, x.gen, x.num>> = <<f, gen[f], i>>
  <2>1. i \in 0..(d.data[p].size - 1) /\ i \in Nat
    BY <1>1, <1>8, <1>9
  <2>2. PICK q \in Block : Stored(d, f, gen[f], q, i)
    BY <1>7, <2>1 DEF Filled
  <2>3. Has(l, i) /\ Found(l, i) = q
    BY <1>6, <2>1, <2>2 DEF Stored
  <2>4. v.data[q].f = f /\ v.data[q].gen = gen[f] /\ v.data[q].num = i
    BY <1>1, <2>2 DEF Stored, Tagged
  <2>5. QED
    BY <2>3, <2>4
<1>11. QED
  BY <1>1, <1>3, <1>10 DEF Intact

\* So the size covers what was written.
LEMMA SizesCover ==
  ASSUME TypeOK, SavedInv, OnceNamed => SizeInv
  PROVE  SizeCoversData
<1>1. SUFFICES ASSUME OnceNamed, NEW f \in Entries(vol),
                      \A k \in {"create", "unlink", "again", "gaveup"} : <<k, f>> \notin cut \cup {busy}
               PROVE  Intact(f)
  BY DEF SizeCoversData, OnceNamed
<1>2. f \in File
  BY StateTyped, NamesAreFiles
<1>3. Clean(f) /\ busy \notin {<<"create", f>>, <<"unlink", f>>}
  BY <1>1 DEF Clean
<1>4. Good(vol, f, gen[f])
  BY <1>1, <1>3 DEF SizeInv, GoodFiles
<1>5. saved.table[f] = vol.table[f]
  <2>1. ~GaveUp(f)
    BY <1>3 DEF Clean, GaveUp
  <2>2. QED
    BY <1>2, <2>1 DEF SavedInv, SavedTables
<1>6. QED
  BY <1>2, <1>4, <1>5, GoodIntact

\* The bytes a mount reads back up to the size in the header are those last
\* written there, wherever requests were cut, until a file is written to, or its
\* identifier handed out, again after a cut, or any identifier is named twice: on
\* volumes of every size, as long as the directory's entries lie in its first
\* block.
THEOREM CrashSizes == Spec /\ []FirstBlockOnly => []SizeCoversData
<1> DEFINE Inv == TypeOK /\ SavedInv /\ DirInv /\ WholeInv /\ (OnceNamed => SizeInv)
<1>1. Init => Inv
  BY TypeInit, SavedInit, DirInit, WholeInit, SizeInit
<1>2. Inv /\ [Next]_vars /\ FirstBlockOnly /\ FirstBlockOnly' => Inv'
  <2>1. SUFFICES ASSUME Inv, [Next]_vars, FirstBlockOnly, FirstBlockOnly' PROVE Inv'
    OBVIOUS
  <2>2. TypeOK' /\ SavedInv' /\ DirInv' /\ WholeInv'
    BY <2>1, TypeStep, SavedStep, DirStep, WholeStep
  <2>3. ASSUME OnceNamed' PROVE SizeInv'
    <3>1. OnceNamed
      <4>1. cut \subseteq cut'
        BY <2>1, CutGrows
      <4>2. QED
        BY <2>3, <4>1 DEF OnceNamed, NamedTwice
    <3>2. SizeInv
      BY <2>1, <3>1
    <3>3. QED
      BY <2>1, <2>2, <2>3, <3>1, <3>2, SizeStep
  <2>4. QED
    BY <2>2, <2>3
<1>3. Inv => SizeCoversData
  BY SizesCover
<1>4. QED
  BY <1>1, <1>2, <1>3, PTL DEF Spec
=============================================================================
