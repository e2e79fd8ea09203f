--------------------------- MODULE FCFSVolumeProofs ---------------------------
(***************************************************************************)
(* Type correctness of FCFSVolume, the agreement of the bitmap with the    *)
(* cluster tables, and the ownership of blocks, for every size of the      *)
(* volume and every bound.                                                 *)
(*                                                                         *)
(* Good(v) is the inductive invariant, stated of any volume so that each   *)
(* function of the driver gets one lemma: it leads from a good volume to a *)
(* good volume, and says what it does to the blocks' owners (Still, Takes, *)
(* Frees).  The requests chain the functions, and their proofs the lemmas. *)
(***************************************************************************)
EXTENDS FCFSVolume, FCFSAllocProofs, SequenceTheorems, FunctionTheorems

\* The cluster cache, when it holds the root, holds its one cluster.
RootClrs(v) == v.clrs.fid = 0 => v.clrs.s0 \in {<<>>, <<0>>} /\ v.clrs.s1 = <<>>

\* The bitmap ends with a byte: dev_write_bitmap cuts no bit.
WholeBytes == NC % ByteBits = 0

Good(v) ==
  /\ v \in Volume
  /\ \A f \in Fid : IsFiniteSet(v.seqs[f])
  /\ WholeBytes => Agrees(v.bitmap, v.ctab)
  /\ RootKept(v)
  /\ RootClrs(v)

\* What a function does to the owners of blocks: nothing; some free blocks
\* outside the root's cluster become f's or are claimed; some of f's become free.
Still(v, w) == w.ctab = v.ctab /\ w.bitmap = v.bitmap /\ w.table = v.table

Takes(v, w, f) ==
  \A p \in Block : \/ w.ctab[p] = v.ctab[p]
                   \/ v.ctab[p].fid = 0 /\ w.ctab[p].fid \in {f, CLAIMED}

Frees(v, w, f) ==
  \A p \in Block : \/ w.ctab[p] = v.ctab[p]
                   \/ v.ctab[p].fid = f /\ w.ctab[p].fid = 0

\* The fields of a volume have their types.
LEMMA VolumeFields ==
  ASSUME NEW v \in Volume
  PROVE  /\ v.table \in Table /\ v.ctab \in Ctab /\ v.bitmap \in Bitmap
         /\ v.secs \in Secs /\ v.clrs \in Clrs /\ v.seqs \in Seqs
         /\ v.status \in Status
BY DEF Volume

\* A process that is lost leaves the volume as it was.
LEMMA LostGood ==
  ASSUME NEW v, Good(v), NEW how \in Status
  PROVE  Good(Lost(v, how)) /\ Still(v, Lost(v, how))
<1> DEFINE w == Lost(v, how)
<1>1. w \in Volume /\ w.table = v.table /\ w.ctab = v.ctab /\ w.bitmap = v.bitmap
      /\ w.clrs = v.clrs /\ w.seqs = v.seqs
  BY DEF Good, Volume, Lost
<1>2. QED
  BY <1>1 DEF Good, Still, RootKept, RootClrs

\* Root and its only identifier.
LEMMA RootFid == 0 \in Fid /\ File \subseteq Fid /\ 0 \in Cluster
BY VolumeAssumption, SizeAssumption, SMTT(30) DEF Fid, File, Cluster

\* The clusters of a table entry are a sequence of clusters.
LEMMA LoadFirType ==
  ASSUME NEW v \in Volume, NEW f \in Fid
  PROVE  dev_tbl_load_fir(v, f) \in Seq(Cluster)
<1> DEFINE t == v.table[f].clrs
           S == {i \in 1..Direct : \A j \in 1..i : t[j] # 0}
<1>1. t \in [1..Direct -> Cluster]
  BY VolumeFields DEF Table, Entry
<1>2. Direct \in Nat \ {0}
  BY VolumeAssumption
<1>3. Cardinality(S) \in 0..Direct
  <2>1. IsFiniteSet(1..Direct) /\ Cardinality(1..Direct) = Direct
    BY <1>2, FS_Interval
  <2>2. IsFiniteSet(S) /\ Cardinality(S) <= Direct
    BY <2>1, FS_Subset
  <2>3. QED
    BY <1>2, <2>2, FS_CardinalityType
<1>4. \A i \in 1..Cardinality(S) : t[i] \in Cluster
  BY <1>1, <1>2, <1>3
<1>5. [i \in 1..Cardinality(S) |-> t[i]] \in Seq(Cluster)
  BY <1>3, <1>4, SeqDef
<1>6. <<t[1]>> \in Seq(Cluster)
  BY <1>1, <1>2
<1>7. QED
  BY <1>5, <1>6 DEF dev_tbl_load_fir

\* dev_tbl_clrs_cnt changes the cluster cache only, and leaves it with f.
LEMMA ClrsCntGood ==
  ASSUME NEW v, Good(v), NEW f \in Fid
  PROVE  LET w == dev_tbl_clrs_cnt(v, f)
         IN /\ Good(w) /\ Still(v, w)
            /\ w.seqs = v.seqs /\ w.secs = v.secs /\ w.status = v.status
            /\ w.clrs.fid = f
            /\ f = 0 => w.clrs.s0 = <<0>> /\ w.clrs.s1 = <<>>
<1> DEFINE w   == dev_tbl_clrs_cnt(v, f)
           c0  == IF v.clrs.fid = f THEN v.clrs ELSE [fid |-> f, s0 |-> <<>>, s1 |-> <<>>]
           sec == v.table[f].sec
           c   == [fid |-> f,
                   s0  |-> IF c0.s0 = <<>> THEN dev_tbl_load_fir(v, f) ELSE c0.s0,
                   s1  |-> IF sec # 0 /\ c0.s1 = <<>> THEN v.secs[sec] ELSE c0.s1]
<1>1. v \in Volume
  BY DEF Good
<1>2. w = [v EXCEPT !.clrs = c]
  BY DEF dev_tbl_clrs_cnt
<1>3. c0 \in Clrs
  BY <1>1, VolumeFields DEF Clrs
<1>4. dev_tbl_load_fir(v, f) \in Seq(Cluster)
  BY <1>1, LoadFirType
<1>5. v.secs[sec] \in Seq(Cluster)
  <2>1. sec \in Cluster
    BY <1>1, VolumeFields DEF Table, Entry
  <2>2. QED
    BY <1>1, <2>1, VolumeFields DEF Secs
<1>6. c \in Clrs
  BY <1>3, <1>4, <1>5 DEF Clrs
<1>7. w \in Volume /\ Still(v, w) /\ w.clrs = c
      /\ w.seqs = v.seqs /\ w.secs = v.secs /\ w.status = v.status
  BY <1>1, <1>2, <1>6 DEF Volume, Still
<1>8. ASSUME f = 0 PROVE c.s0 = <<0>> /\ c.s1 = <<>>
  <2>1. v.table[0] = Formatted.table[0]
    BY DEF Good, RootKept
  <2>2. v.table[0].sec = 0 /\ v.table[0].clrs[1] = 0
    BY <2>1, RootFid, VolumeAssumption DEF Formatted
  <2>3. dev_tbl_load_fir(v, f) = <<0>>
    BY <1>8, <2>2 DEF dev_tbl_load_fir
  <2>4. c0.s0 \in {<<>>, <<0>>} /\ c0.s1 = <<>>
    BY <1>8 DEF Good, RootClrs
  <2>5. QED
    BY <1>8, <2>2, <2>3, <2>4
<1>9. c.fid = f
  OBVIOUS
<1> HIDE DEF c, w
<1>10. RootClrs(w)
  BY <1>7, <1>8, <1>9 DEF RootClrs
<1>11. Good(w)
  BY <1>7, <1>10 DEF Good, Still, RootKept
<1>12. QED
  BY <1>7, <1>8, <1>9, <1>11 DEF w

\* A list built from cluster tables is a finite set of block records.
LEMMA InfoOfType ==
  ASSUME NEW v \in Volume, NEW f, NEW C
  PROVE  InfoOf(v, f, C) \in SUBSET BlkInfo /\ IsFiniteSet(InfoOf(v, f, C))
<1> DEFINE Q == {q \in Block : q[1] \in C /\ v.ctab[q].fid = f}
           rec == [p \in Q |-> [cid |-> p[1], bid |-> p[2], num |-> v.ctab[p].num]]
<1>1. InfoOf(v, f, C) = {rec[p] : p \in Q}
  BY DEF InfoOf
<1>2. ASSUME NEW p \in Q PROVE rec[p] \in BlkInfo
  <2>1. p[1] \in Cluster /\ p[2] \in Slot
    BY DEF Block
  <2>2. v.ctab[p].num \in Nat
    BY VolumeFields DEF Ctab
  <2>3. QED
    BY <2>1, <2>2 DEF BlkInfo
<1>3. IsFiniteSet(Q)
  BY FiniteVolume, FS_Subset
<1>4. rec \in Surjection(Q, {rec[p] : p \in Q})
  BY DEF Surjection
<1>5. IsFiniteSet({rec[p] : p \in Q})
  BY <1>3, <1>4, FS_Surjection
<1>6. QED
  BY <1>1, <1>2, <1>5

\* dev_get_file_seq fills caches only; the root's list stays the one it was
\* formatted with.
LEMMA GetSeqGood ==
  ASSUME NEW v, Good(v), NEW f \in Fid
  PROVE  Good(dev_get_file_seq(v, f)) /\ Still(v, dev_get_file_seq(v, f))
<1> DEFINE w == dev_tbl_clrs_cnt(v, f)
           l == InfoOf(w, f, Listed(w))
           u == [w EXCEPT !.seqs[f] = l]
<1>1. CASE v.status # "up" \/ v.seqs[f] # {}
  BY <1>1 DEF dev_get_file_seq, Still
<1>2. CASE ~(v.status # "up" \/ v.seqs[f] # {})
  <2>1. Good(w) /\ Still(v, w) /\ w.clrs.fid = f
        /\ (f = 0 => w.clrs.s0 = <<0>> /\ w.clrs.s1 = <<>>)
    BY ClrsCntGood
  <2>2. w \in Volume
    BY <2>1 DEF Good
  <2>3. l \in SUBSET BlkInfo /\ IsFiniteSet(l)
    BY <2>2, InfoOfType
  <2>4. dev_get_file_seq(v, f) = IF l = {} THEN Lost(w, "undefined") ELSE u
    BY <1>2 DEF dev_get_file_seq
  <2>5. CASE l = {}
    BY <2>1, <2>4, <2>5, LostGood DEF Status, Still
  <2>6. CASE l # {}
    <3> HIDE DEF l, w
    <3>1. u \in Volume /\ Still(w, u) /\ u.clrs = w.clrs
          /\ u.seqs = [w.seqs EXCEPT ![f] = l]
      BY <2>2, <2>3 DEF Volume, Seqs, Still
    <3>2. \A g \in Fid : IsFiniteSet(u.seqs[g])
      <4>1. w.seqs \in Seqs
        BY <2>2, VolumeFields
      <4>2. QED
        BY <2>1, <2>3, <3>1, <4>1 DEF Good, Seqs
    <3>3. ASSUME f = 0 PROVE l = InfoOf(Formatted, 0, {0})
      <4>1. Listed(w) = {0}
        <5>1. w.clrs.s0 = <<0>> /\ w.clrs.s1 = <<>>
          BY <2>1, <3>3
        <5>2. Elems(<<0>>) = {0}
          BY DEF Elems
        <5>3. ClrsCount(w) = 1
          BY <5>1 DEF ClrsCount
        <5>4. 1..Lesser(Len(<<>>), ClrsCount(w) - Direct) = {}
          BY <5>3, VolumeAssumption DEF Lesser
        <5>5. QED
          BY <5>1, <5>2, <5>4 DEF Listed
      <4>2. \A p \in Block : p[1] = 0 => w.ctab[p] = Formatted.ctab[p]
        BY <2>1 DEF Good, RootKept
      <4>3. {q \in Block : q[1] \in {0} /\ w.ctab[q].fid = 0}
            = {q \in Block : q[1] \in {0} /\ Formatted.ctab[q].fid = 0}
        BY <4>2
      <4>4. InfoOf(w, 0, {0}) = InfoOf(Formatted, 0, {0})
        BY <4>2, <4>3 DEF InfoOf
      <4>5. QED
        BY <3>3, <4>1, <4>4 DEF l
    <3>4. u.seqs[0] \in {{}, InfoOf(Formatted, 0, {0})}
      <4>1. w.seqs[0] \in {{}, InfoOf(Formatted, 0, {0})}
        BY <2>1 DEF Good, RootKept
      <4>2. w.seqs \in Seqs
        BY <2>2, VolumeFields
      <4>3. QED
        BY <3>1, <3>3, <4>1, <4>2, RootFid DEF Seqs
    <3>5. Good(u)
      BY <2>1, <3>1, <3>2, <3>4 DEF Good, Still, RootKept, RootClrs
    <3>6. QED
      BY <2>1, <2>4, <2>6, <3>1, <3>5 DEF Still, l
  <2>7. QED
    BY <2>5, <2>6
<1>3. QED
  BY <1>1, <1>2

\* Sorting clusters yields a sequence of them.
LEMMA SortedType ==
  ASSUME NEW S \in SUBSET Cluster
  PROVE  Sorted(S) \in Seq(Cluster) /\ Len(Sorted(S)) \in Nat
<1>1. IsFiniteSet(S) /\ S \in SUBSET Int
  <2>1. IsFiniteSet(S)
    BY FiniteVolume, FS_Subset
  <2>2. Cluster \subseteq Int
    BY SizeAssumption, SMTT(30) DEF Cluster
  <2>3. QED
    BY <2>1, <2>2
<1>2. Cardinality(S) \in Nat
  BY <1>1, FS_CardinalityType
<1>3. ASSUME NEW i \in 1..Cardinality(S) PROVE Sorted(S)[i] \in Cluster
  <2>1. i - 1 \in 0..(Cardinality(S) - 1)
    BY <1>2
  <2>2. \E c \in S : Cardinality({d \in S : d < c}) = i - 1
    BY <1>1, <2>1, RankExists
  <2>3. (CHOOSE c \in S : Cardinality({d \in S : d < c}) = i - 1) \in S
    BY <2>2
  <2>4. QED
    BY <2>3 DEF Sorted
<1>4. Sorted(S) \in [1..Cardinality(S) -> Cluster]
  BY <1>3 DEF Sorted
<1>5. Sorted(S) \in Seq(Cluster)
  BY <1>2, <1>4, SeqDef
<1>6. QED
  BY <1>5, LenProperties

\* A cluster claimed for second-level addresses is wholly free before.
LEMMA ClaimGood ==
  ASSUME NEW v, Good(v), NEW c \in WholeClusters(v.bitmap, v.ctab), NEW f
  PROVE  LET w == dev_clust_claim(v, c)
         IN /\ Good(w) /\ Takes(v, w, f)
            /\ w.table = v.table /\ w.clrs = v.clrs /\ w.secs = v.secs
            /\ w.seqs = v.seqs /\ w.status = v.status
<1> DEFINE ct == [p \in Block |-> IF p[1] = c THEN [fid |-> CLAIMED, num |-> p[2] - 1]
                                              ELSE v.ctab[p]]
           w  == dev_clust_claim(v, c)
<1>1. v \in Volume
  BY DEF Good
<1>2. c \in 1..(NC - 1) /\ \A b \in Slot : v.ctab[<<c, b>>].fid = 0
  BY DEF WholeClusters, FreeClusters
<1>3. ct \in Ctab
  <2>1. \A p \in Block : p[2] - 1 \in Nat
    BY SizeAssumption, SMTT(30) DEF Block, Slot
  <2>2. v.ctab \in Ctab
    BY <1>1, VolumeFields
  <2>3. QED
    BY <2>1, <2>2 DEF Ctab
<1>4. dev_upd_bitmap(v.bitmap, ct, {c}) \in Bitmap
  BY <1>1, VolumeFields DEF dev_upd_bitmap, Bitmap
<1>5. WholeBytes => Agrees(dev_upd_bitmap(v.bitmap, ct, {c}), ct)
  <2>1. \A p \in Block : p[1] \notin {c} => ct[p] = v.ctab[p]
    OBVIOUS
  <2>2. QED
    BY <2>1, UpdAgrees DEF Good
<1>6. \A p \in Block : \/ ct[p] = v.ctab[p]
                       \/ v.ctab[p].fid = 0 /\ ct[p].fid = CLAIMED
  BY <1>2 DEF Block
<1>7. \A p \in Block : p[1] = 0 => ct[p] = v.ctab[p]
  BY <1>2
<1> HIDE DEF ct
<1>8. /\ w \in Volume /\ w.ctab = ct /\ w.bitmap = dev_upd_bitmap(v.bitmap, ct, {c})
      /\ w.table = v.table /\ w.clrs = v.clrs /\ w.secs = v.secs
      /\ w.seqs = v.seqs /\ w.status = v.status
  BY <1>1, <1>3, <1>4 DEF dev_clust_claim, Volume, ct
<1> HIDE DEF w
<1>9. Good(w) /\ Takes(v, w, f)
  BY <1>5, <1>6, <1>7, <1>8 DEF Good, RootKept, RootClrs, Takes
<1>10. QED
  BY <1>8, <1>9 DEF w

\* Updates of one field of a table entry.
LEMMA TableUpdates ==
  ASSUME NEW t \in Table, NEW f \in Fid
  PROVE  /\ \A c \in Cluster : [t EXCEPT ![f].sec = c] \in Table
         /\ \A s \in [1..Direct -> Cluster] : [t EXCEPT ![f].clrs = s] \in Table
         /\ \A n \in 0..255 : [t EXCEPT ![f].lnk = n] \in Table
<1> DEFINE L == 0..255
           D == [1..Direct -> Cluster]
<1>1. t \in [Fid -> [lnk : L, clrs : D, sec : Cluster]]
  BY DEF Table, Entry
<1> HIDE DEF L, D
<1>2. /\ \A c \in Cluster : [t EXCEPT ![f].sec = c] \in [Fid -> [lnk : L, clrs : D, sec : Cluster]]
      /\ \A s \in D : [t EXCEPT ![f].clrs = s] \in [Fid -> [lnk : L, clrs : D, sec : Cluster]]
      /\ \A n \in L : [t EXCEPT ![f].lnk = n] \in [Fid -> [lnk : L, clrs : D, sec : Cluster]]
  BY <1>1
<1>3. QED
  BY <1>2, ZenonT(30) DEF Table, Entry, L, D

\* dev_tbl_clrs_add writes the table entry and the lists of f, which the cache
\* holds, and claims at most one cluster.
LEMMA ClrsAddGood ==
  ASSUME NEW v, Good(v), NEW f \in File, v.clrs.fid = f, NEW add \in Seq(Cluster)
  PROVE  Good(dev_tbl_clrs_add(v, f, add)) /\ Takes(v, dev_tbl_clrs_add(v, f, add), f)
<1> DEFINE room   == IF ClrsCount(v) < Direct
                     THEN Lesser(Direct - ClrsCount(v), Len(add)) ELSE 0
           s0     == v.clrs.s0 \o SubSeq(add, 1, room)
           s1     == v.clrs.s1 \o SubSeq(add, room + 1, Len(add))
           slots  == [i \in 1..Direct |-> IF i \in (Len(v.clrs.s0) + 1)..Len(s0)
                                          THEN s0[i] ELSE v.table[f].clrs[i]]
           direct == [v EXCEPT !.table[f].clrs = slots, !.clrs.s0 = s0]
           whole  == WholeClusters(v.bitmap, v.ctab)
           indir  == IF v.clrs.s1 # <<>> THEN direct
                     ELSE [dev_clust_claim(direct, Least(whole)) EXCEPT
                             !.table[f].sec = Least(whole)]
           sec    == indir.table[f].sec
           last   == [indir EXCEPT !.clrs.s1 = s1, !.secs[sec] = s1,
                                   !.status = IF sec = 0 THEN "undefined" ELSE @]
<1>1. v \in Volume /\ f \in Fid /\ f # 0
  BY RootFid DEF Good, File
<1>2. v.clrs \in Clrs /\ v.clrs.s0 \in Seq(Cluster) /\ v.clrs.s1 \in Seq(Cluster)
  BY <1>1, VolumeFields DEF Clrs
<1>3. room \in 0..Len(add)
  <2>1. Len(v.clrs.s0) \in Nat /\ Len(v.clrs.s1) \in Nat /\ Len(add) \in Nat
    BY <1>2
  <2>2. ClrsCount(v) \in Nat
    <3>1. \A m, n \in Nat : m + n \in Nat
      OBVIOUS
    <3>2. QED
      BY <2>1, <3>1, Zenon DEF ClrsCount
  <2>3. \A n, l \in Nat : (IF n < Direct THEN Lesser(Direct - n, l) ELSE 0) \in 0..l
    BY VolumeAssumption DEF Lesser
  <2>4. QED
    BY <2>1, <2>2, <2>3
<1>4. s0 \in Seq(Cluster) /\ s1 \in Seq(Cluster)
  <2>1. Len(add) \in Nat /\ \A i \in 1..Len(add) : add[i] \in Cluster
    BY LenProperties, ElementOfSeq
  <2>2. SubSeq(add, 1, room) \in Seq(Cluster)
    BY <1>3, <2>1, SubSeqProperties
  <2>3. SubSeq(add, room + 1, Len(add)) \in Seq(Cluster)
    BY <1>3, <2>1, SubSeqProperties
  <2>4. QED
    BY <1>2, <2>2, <2>3, ConcatProperties
<1>5. slots \in [1..Direct -> Cluster]
  <2>1. v.table[f].clrs \in [1..Direct -> Cluster]
    BY <1>1, VolumeFields DEF Table, Entry
  <2>2. ASSUME NEW i \in (Len(v.clrs.s0) + 1)..Len(s0) PROVE s0[i] \in Cluster
    <3>1. PICK m, n \in Nat : m = Len(v.clrs.s0) /\ n = Len(s0)
      BY <1>2, <1>4, LenProperties
    <3>2. i \in 1..Len(s0)
      <4>1. i \in (m + 1)..n
        BY <3>1, Zenon
      <4>2. i \in 1..n
        BY <4>1
      <4>3. QED
        BY <3>1, <4>2, Zenon
    <3>3. QED
      BY <1>4, <3>2, ElementOfSeq, Zenon
  <2>3. QED
    BY <2>1, <2>2
<1> HIDE DEF slots, s0, s1, room
<1>6. direct \in Volume /\ direct.ctab = v.ctab /\ direct.bitmap = v.bitmap
      /\ direct.seqs = v.seqs /\ direct.secs = v.secs /\ direct.status = v.status
  <2>1. [v.table EXCEPT ![f].clrs = slots] \in Table
    BY <1>1, <1>5, VolumeFields, TableUpdates, ZenonT(30)
  <2>2. [v.clrs EXCEPT !.s0 = s0] \in Clrs
    BY <1>2, <1>4 DEF Clrs
  <2>3. QED
    BY <1>1, <2>1, <2>2 DEF Volume
<1>7. direct.table[0] = v.table[0] /\ direct.clrs.fid = f
  <2>1. v.table \in Table
    BY <1>1, VolumeFields
  <2>2. direct.table = [v.table EXCEPT ![f].clrs = slots]
        /\ direct.clrs = [v.clrs EXCEPT !.s0 = s0]
    BY <1>1 DEF Volume
  <2>3. QED
    BY <1>1, <1>2, <2>1, <2>2, RootFid DEF Table, Clrs
<1> HIDE DEF direct
<1>8. Good(direct) /\ Takes(v, direct, f)
  BY <1>1, <1>6, <1>7 DEF Good, RootKept, RootClrs, Takes
<1>9. CASE s1 = v.clrs.s1
  <2>1. dev_tbl_clrs_add(v, f, add) = direct
    BY <1>9, ZenonT(30) DEF dev_tbl_clrs_add, direct, slots, s0, s1, room
  <2>2. QED
    BY <1>8, <2>1
<1>10. CASE s1 # v.clrs.s1 /\ v.clrs.s1 = <<>> /\ whole = {}
  <2>1. dev_tbl_clrs_add(v, f, add) = Lost(direct, "exhausted")
    BY <1>10 DEF dev_tbl_clrs_add, direct, slots, s0, s1, room
  <2>2. QED
    BY <1>8, <2>1, LostGood DEF Status, Still, Takes
<1>11. CASE s1 # v.clrs.s1 /\ ~(v.clrs.s1 = <<>> /\ whole = {})
  <2>1. dev_tbl_clrs_add(v, f, add) = last
    BY <1>11, ZenonT(30) DEF dev_tbl_clrs_add, direct, slots, s0, s1, room
  <2>2. Good(indir) /\ Takes(v, indir, f) /\ indir.clrs.fid = f
    <3>1. CASE v.clrs.s1 # <<>>
      BY <1>7, <1>8, <3>1
    <3>2. CASE v.clrs.s1 = <<>>
      <4> DEFINE c == Least(whole)
                 d == dev_clust_claim(direct, c)
      <4>1. c \in whole /\ c \in Cluster
        <5>1. whole \subseteq Cluster
          BY FreeIsCluster DEF WholeClusters
        <5>2. Cluster \subseteq Int
          BY SizeAssumption, SMTT(30) DEF Cluster
        <5>3. IsFiniteSet(whole)
          BY <5>1, FiniteVolume, FS_Subset
        <5>4. QED
          BY <1>11, <3>2, <5>1, <5>2, <5>3, LeastExists
      <4>2. Good(d) /\ Takes(direct, d, f) /\ d.table = direct.table /\ d.clrs = direct.clrs
        BY <1>6, <1>8, <4>1, ClaimGood
      <4> HIDE DEF d, c
      <4>3. indir = [d EXCEPT !.table[f].sec = c]
        BY <3>2 DEF d, c
      <4>4. d \in Volume /\ d.table \in Table
        BY <4>2, VolumeFields DEF Good
      <4>5. [d.table EXCEPT ![f].sec = c] \in Table
        BY <1>1, <4>1, <4>4, TableUpdates, ZenonT(30)
      <4>6. indir \in Volume /\ indir.ctab = d.ctab /\ indir.bitmap = d.bitmap
            /\ indir.seqs = d.seqs /\ indir.clrs = d.clrs
            /\ indir.table = [d.table EXCEPT ![f].sec = c]
        BY <4>3, <4>4, <4>5 DEF Volume
      <4>7. indir.table[0] = d.table[0]
        BY <1>1, <4>4, <4>6, RootFid DEF Table
      <4>8. Good(indir)
        BY <1>1, <1>7, <4>2, <4>6, <4>7 DEF Good, RootKept, RootClrs
      <4>9. Takes(v, indir, f)
        BY <1>6, <4>2, <4>6 DEF Takes
      <4>10. QED
        BY <1>7, <4>2, <4>6, <4>8, <4>9
    <3>3. QED
      BY <3>1, <3>2
  <2> HIDE DEF indir
  <2>3. indir \in Volume /\ sec \in Cluster
    BY <1>1, <2>2, VolumeFields DEF Good, Table, Entry
  <2>4. [indir.secs EXCEPT ![sec] = s1] \in Secs /\ [indir.clrs EXCEPT !.s1 = s1] \in Clrs
        /\ [indir.clrs EXCEPT !.s1 = s1].fid = f
    BY <1>4, <2>2, <2>3, VolumeFields DEF Secs, Clrs
  <2> HIDE DEF sec
  <2>5. last \in Volume /\ last.ctab = indir.ctab /\ last.bitmap = indir.bitmap
        /\ last.table = indir.table /\ last.seqs = indir.seqs /\ last.clrs.fid = f
    BY <2>3, <2>4 DEF Volume, Status
  <2> HIDE DEF last
  <2>6. Good(last) /\ Takes(v, last, f)
    BY <1>1, <2>2, <2>5 DEF Good, RootKept, RootClrs, Takes
  <2>7. QED
    BY <2>1, <2>6
<1>12. QED
  BY <1>9, <1>10, <1>11

\* Two updates in a row that take blocks for f take blocks for f.
LEMMA TakesTransitive ==
  ASSUME NEW u, NEW v, NEW w, NEW f \in File, Takes(u, v, f), Takes(v, w, f)
  PROVE  Takes(u, w, f)
<1>1. f # 0 /\ CLAIMED # 0
  BY DEF File, CLAIMED
<1>2. QED
  BY <1>1 DEF Takes

\* dev_file_mem_clrs lists clusters of f through dev_tbl_clrs_add.
LEMMA MemClrsGood ==
  ASSUME NEW v, Good(v), NEW f \in File, v.clrs.fid = f, NEW C \in SUBSET Cluster
  PROVE  Good(dev_file_mem_clrs(v, f, C)) /\ Takes(v, dev_file_mem_clrs(v, f, C), f)
<1> DEFINE add == Sorted(C \ Listed(v))
           n   == Lesser(Len(add), MaxClrs - ClrsCount(v))
<1>1. add \in Seq(Cluster) /\ Len(add) \in Nat
  BY SortedType
<1>2. ClrsCount(v) \in Int
  <2>1. v.clrs \in Clrs
    BY VolumeFields DEF Good
  <2>2. Len(v.clrs.s0) \in Nat /\ Len(v.clrs.s1) \in Nat
    BY <2>1 DEF Clrs
  <2>3. \A a, b \in Nat : a + b \in Int
    OBVIOUS
  <2>4. QED
    BY <2>2, <2>3, Zenon DEF ClrsCount
<1> HIDE DEF add
<1>3. n \in Int /\ n <= Len(add)
  BY <1>1, <1>2, VolumeAssumption DEF Lesser
<1> HIDE DEF n
<1>4. \A i \in 1..n : add[i] \in Cluster
  BY <1>1, <1>3, ElementOfSeq
<1>5. SubSeq(add, 1, n) \in Seq(Cluster)
  BY <1>3, <1>4, SubSeqProperties
<1>6. QED
  BY <1>5, ClrsAddGood DEF dev_file_mem_clrs, add, n

\* The position of a block in a set of blocks is a number.
LEMMA RankType ==
  ASSUME NEW P \in SUBSET Block, NEW p
  PROVE  Rank(P, p) \in Nat
BY FiniteVolume, FS_Subset, FS_CardinalityType DEF Rank

ClustersIn(P) == {p[1] : p \in P}

\* The first half of dev_file_reserve: the blocks P are f's, numbered from num0.
Given(v, f, P, num0) ==
  LET w  == dev_tbl_clrs_cnt(v, f)
      ct == [p \in Block |-> IF p \in P THEN [fid |-> f, num |-> num0 + Rank(P, p)]
                                        ELSE w.ctab[p]]
  IN [w EXCEPT !.ctab = ct, !.bitmap = dev_upd_bitmap(w.bitmap, ct, {p[1] : p \in P})]

\* What it changes: the blocks, and the cluster cache.
Gives(v, u, f, P, num0) ==
  /\ u.table = v.table /\ u.secs = v.secs /\ u.seqs = v.seqs /\ u.status = v.status
  /\ u.clrs = dev_tbl_clrs_cnt(v, f).clrs /\ u.clrs.fid = f
  /\ \A p \in P : u.ctab[p].fid = f /\ u.ctab[p].num = num0 + Rank(P, p)
  /\ \A p \in Block \ P : u.ctab[p] = v.ctab[p]

\* It gives free blocks to f and changes nothing else.
LEMMA GivenGood ==
  ASSUME NEW v, Good(v), NEW f \in File, NEW P \in SUBSET Block, NEW num0 \in Nat,
         \A p \in P : p[1] # 0 /\ v.ctab[p].fid = 0
  PROVE  LET u == Given(v, f, P, num0)
         IN /\ Good(u) /\ Takes(v, u, f) /\ Gives(v, u, f, P, num0)
            /\ dev_file_reserve(v, f, P, num0) = dev_file_mem_clrs(u, f, ClustersIn(P))
<1> DEFINE w  == dev_tbl_clrs_cnt(v, f)
           ct == [p \in Block |-> IF p \in P THEN [fid |-> f, num |-> num0 + Rank(P, p)]
                                             ELSE w.ctab[p]]
           C  == ClustersIn(P)
           bm == dev_upd_bitmap(w.bitmap, ct, C)
           u  == [w EXCEPT !.ctab = ct, !.bitmap = bm]
<1>1. f \in Fid /\ f # 0
  BY RootFid DEF File
<1>2. Good(w) /\ w.ctab = v.ctab /\ w.table = v.table /\ w.clrs.fid = f /\ w \in Volume
      /\ w.secs = v.secs /\ w.seqs = v.seqs /\ w.status = v.status
  BY <1>1, ClrsCntGood DEF Still, Good
<1>3. Given(v, f, P, num0) = u
      /\ dev_file_reserve(v, f, P, num0) = dev_file_mem_clrs(u, f, C)
  BY DEF Given, dev_file_reserve, ClustersIn
<1> HIDE DEF w
<1>4. ct \in Ctab
  <2>1. \A p \in P : num0 + Rank(P, p) \in Nat
    BY RankType
  <2>2. w.ctab \in Ctab
    BY <1>2, VolumeFields
  <2>3. QED
    BY <1>1, <2>1, <2>2 DEF Ctab
<1>5. \A p \in Block \ P : ct[p] = w.ctab[p]
  OBVIOUS
<1>6. \A p \in P : ct[p].num = num0 + Rank(P, p)
  OBVIOUS
<1>7. \A p \in P : ct[p].fid = f
  OBVIOUS
<1> HIDE DEF ct
<1>8. WholeBytes => Agrees(bm, ct)
  <2>1. \A p \in Block : p[1] \notin C => ct[p] = w.ctab[p]
    BY <1>5 DEF ClustersIn
  <2>2. QED
    BY <1>2, <2>1, UpdAgrees DEF Good
<1>9. bm \in Bitmap
  BY <1>2, VolumeFields DEF dev_upd_bitmap, Bitmap
<1> HIDE DEF bm
<1>10. u \in Volume /\ u.ctab = ct /\ u.bitmap = bm /\ u.table = w.table /\ u.secs = w.secs
      /\ u.clrs = w.clrs /\ u.seqs = w.seqs /\ u.status = w.status
  BY <1>2, <1>4, <1>9 DEF Volume
<1> HIDE DEF u
<1>11. Good(u) /\ Takes(v, u, f)
  BY <1>2, <1>5, <1>8, <1>10, <1>7 DEF Good, RootKept, RootClrs, Takes
<1>12. u.clrs = dev_tbl_clrs_cnt(v, f).clrs
  BY <1>10 DEF w
<1>13. \A p \in Block \ P : u.ctab[p] = v.ctab[p]
  BY <1>2, <1>5, <1>10
<1>14. \A p \in P : u.ctab[p].fid = f /\ u.ctab[p].num = num0 + Rank(P, p)
  BY <1>6, <1>7, <1>10
<1>15. QED
  BY <1>2, <1>3, <1>10, <1>11, <1>12, <1>13, <1>14 DEF Gives

\* dev_file_reserve gives free blocks to f and lists their clusters.
LEMMA ReserveGood ==
  ASSUME NEW v, Good(v), NEW f \in File, NEW P \in SUBSET Block, NEW num0 \in Nat,
         \A p \in P : p[1] # 0 /\ v.ctab[p].fid = 0
  PROVE  Good(dev_file_reserve(v, f, P, num0)) /\ Takes(v, dev_file_reserve(v, f, P, num0), f)
<1> DEFINE u == Given(v, f, P, num0)
           C == ClustersIn(P)
<1>1. Good(u) /\ Takes(v, u, f) /\ Gives(v, u, f, P, num0)
      /\ dev_file_reserve(v, f, P, num0) = dev_file_mem_clrs(u, f, C)
  BY GivenGood
<1>2. C \in SUBSET Cluster
  BY DEF Block, ClustersIn
<1> HIDE DEF u, C
<1>3. Good(dev_file_mem_clrs(u, f, C)) /\ Takes(u, dev_file_mem_clrs(u, f, C), f)
  BY <1>1, <1>2, MemClrsGood DEF Gives
<1>4. QED
  BY <1>1, <1>3, TakesTransitive

\* The searches end in one of the ways a status names.
LEMMA OutcomeType ==
  ASSUME NEW bm, NEW ct, NEW n
  PROVE  SearchOutcome(bm, ct, n) \in Status
BY DEF SearchOutcome, Status

\* dev_extd_blk_list extends the file and the list cached for it.
LEMMA ExtdGood ==
  ASSUME NEW v, Good(v), NEW f \in File, NEW n
  PROVE  Good(dev_extd_blk_list(v, f, n)) /\ Takes(v, dev_extd_blk_list(v, f, n), f)
<1> DEFINE P   == dev_free_blocks(v.bitmap, v.ctab, n)
           len == Cardinality(v.seqs[f])
           end == SearchOutcome(v.bitmap, v.ctab, n)
           rec == [p \in P |-> [cid |-> p[1], bid |-> p[2], num |-> len + Rank(P, p)]]
           new == {rec[p] : p \in P}
           w   == dev_file_reserve(v, f, P, len)
           u   == [w EXCEPT !.seqs[f] = @ \cup new]
<1>1. dev_extd_blk_list(v, f, n) = IF end # "up" THEN Lost(v, end) ELSE If(w, u)
  BY DEF dev_extd_blk_list
<1>2. CASE end # "up"
  BY <1>1, <1>2, OutcomeType, LostGood DEF Still, Takes
<1>3. CASE end = "up"
  <2>1. f \in Fid /\ f # 0
    BY RootFid DEF File
  <2>2. P \in SUBSET Block /\ \A p \in P : p[1] # 0 /\ v.ctab[p].fid = 0
    BY FreeBlocksAreFree
  <2>3. len \in Nat
    BY <2>1, FS_CardinalityType DEF Good
  <2> HIDE DEF P, len
  <2>4. Good(w) /\ Takes(v, w, f)
    BY <2>2, <2>3, ReserveGood
  <2>5. new \in SUBSET BlkInfo
    <3>1. \A p \in P : p[1] \in Cluster /\ p[2] \in Slot
      BY <2>2 DEF Block
    <3>2. \A p \in P : len + Rank(P, p) \in Nat
      BY <2>2, <2>3, RankType
    <3>3. QED
      BY <3>1, <3>2 DEF BlkInfo
  <2>6. IsFiniteSet(new)
    <3>1. rec \in Surjection(P, new)
      BY DEF Surjection
    <3>2. QED
      BY <2>2, <3>1, FiniteVolume, FS_Subset, FS_Surjection
  <2> HIDE DEF new, w
  <2>7. w \in Volume /\ w.seqs \in Seqs
    BY <2>4, VolumeFields DEF Good
  <2>8. [w.seqs EXCEPT ![f] = @ \cup new] \in Seqs
    BY <2>5, <2>7 DEF Seqs
  <2>9. u \in Volume /\ u.seqs = [w.seqs EXCEPT ![f] = @ \cup new] /\ Still(w, u)
        /\ u.clrs = w.clrs
    BY <2>7, <2>8 DEF Volume, Still
  <2>10. \A g \in Fid : IsFiniteSet(u.seqs[g])
    <3>1. IsFiniteSet(w.seqs[f] \cup new)
      BY <2>1, <2>4, <2>6, FS_Union DEF Good
    <3>2. u.seqs[f] = w.seqs[f] \cup new /\ \A g \in Fid \ {f} : u.seqs[g] = w.seqs[g]
      BY <2>1, <2>7, <2>9 DEF Seqs
    <3>3. \A g \in Fid : IsFiniteSet(w.seqs[g])
      BY <2>4 DEF Good
    <3>4. QED
      BY <3>1, <3>2, <3>3
  <2>11. u.seqs[0] = w.seqs[0]
    BY <2>1, <2>7, <2>9, RootFid DEF Seqs
  <2> HIDE DEF u
  <2>12. Good(u) /\ Takes(v, u, f)
    BY <2>4, <2>9, <2>10, <2>11 DEF Good, RootKept, RootClrs, Still, Takes
  <2>13. QED
    BY <1>1, <1>3, <2>4, <2>12 DEF If
<1>4. QED
  BY <1>2, <1>3

\* dev_write_dir on the root reads its list and does not extend it.
LEMMA WriteDirGood ==
  ASSUME NEW v, Good(v), NEW n
  PROVE  Good(dev_write_dir(v, n)) /\ Still(v, dev_write_dir(v, n))
<1> DEFINE w    == dev_get_file_seq(v, 0)
           lack == DirBlocks(n) - Cardinality(w.seqs[0])
           end  == SearchOutcome(w.bitmap, w.ctab, lack)
           how  == IF end = "up" THEN "hung" ELSE end
<1>1. Good(w) /\ Still(v, w)
  BY RootFid, GetSeqGood
<1>2. how \in Status
  BY OutcomeType DEF Status
<1>3. dev_write_dir(v, n) \in {w, Lost(w, how)}
  BY DEF dev_write_dir, If
<1> HIDE DEF w, how
<1>4. Good(Lost(w, how)) /\ Still(w, Lost(w, how))
  BY <1>1, <1>2, LostGood
<1>5. QED
  BY <1>1, <1>3, <1>4 DEF Still

\* dev_file_alloc takes one block for f.
LEMMA AllocGood ==
  ASSUME NEW v, Good(v), NEW f \in File
  PROVE  Good(dev_file_alloc(v, f)) /\ Takes(v, dev_file_alloc(v, f), f)
<1> DEFINE C   == FreeClusters(v.bitmap)
           c   == Least(C)
           F   == {b \in Slot : v.ctab[<<c, b>>].fid = 0}
           p0  == <<c, Least(F)>>
           ent == [lnk |-> 1, clrs |-> [i \in 1..Direct |-> IF i = 1 THEN c ELSE 0], sec |-> 0]
           ct  == [v.ctab EXCEPT ![p0] = [fid |-> f, num |-> 0]]
           bm  == dev_upd_bitmap(v.bitmap, ct, {c})
           t   == [v EXCEPT !.table[f] = ent]
           u   == [v EXCEPT !.table[f] = ent, !.ctab = ct, !.bitmap = bm]
<1>1. v \in Volume /\ f \in Fid /\ f # 0
  BY RootFid DEF Good, File
<1>2. CASE C = {}
  <2>1. dev_file_alloc(v, f) = Lost(v, "exhausted")
    BY <1>2 DEF dev_file_alloc
  <2>2. QED
    BY <2>1, LostGood DEF Status, Still, Takes
<1>3. CASE C # {}
  <2>1. c \in C /\ c \in Cluster /\ c # 0
    <3>1. C \subseteq Cluster /\ Cluster \subseteq Int /\ IsFiniteSet(C)
      BY FreeIsCluster, FiniteVolume, FS_Subset, SizeAssumption, SMTT(30) DEF Cluster
    <3>2. c \in C
      BY <1>3, <3>1, LeastExists
    <3>3. QED
      BY <3>1, <3>2 DEF FreeClusters
  <2> HIDE DEF c
  <2>2. ent \in Entry
    BY <2>1, RootFid DEF Entry
  <2> HIDE DEF ent
  <2>3. v.table \in Table
    BY <1>1, VolumeFields
  <2>4. [v.table EXCEPT ![f] = ent] \in Table
    BY <2>2, <2>3 DEF Table
  <2>5. [v.table EXCEPT ![f] = ent][0] = v.table[0]
    BY <1>1, <2>3, RootFid DEF Table
  <2>6. CASE F = {}
    <3>1. dev_file_alloc(v, f) = t
      BY <1>3, <2>6 DEF dev_file_alloc, c, ent
    <3>2. t \in Volume /\ t.table = [v.table EXCEPT ![f] = ent] /\ t.ctab = v.ctab
          /\ t.bitmap = v.bitmap /\ t.clrs = v.clrs /\ t.seqs = v.seqs
      BY <1>1, <2>4 DEF Volume
    <3> HIDE DEF t
    <3>3. Good(t) /\ Takes(v, t, f)
      BY <2>5, <3>2 DEF Good, RootKept, RootClrs, Takes
    <3>4. QED
      BY <3>1, <3>3
  <2>7. CASE F # {}
    <3>1. dev_file_alloc(v, f) = u
      BY <1>3, <2>7 DEF dev_file_alloc, c, ent
    <3>2. Least(F) \in F
      <4>1. F \subseteq Slot /\ Slot \subseteq Int /\ IsFiniteSet(Slot)
        <5>1. Slot \subseteq Int
          BY SizeAssumption, SMTT(30) DEF Slot
        <5>2. QED
          BY <5>1, FiniteVolume
      <4>2. IsFiniteSet(F) /\ F \in SUBSET Int
        BY <4>1, FS_Subset
      <4>3. QED
        BY <2>7, <4>2, LeastExists
    <3>3. p0 \in Block /\ p0[1] = c /\ v.ctab[p0].fid = 0
      BY <2>1, <3>2 DEF Block
    <3> HIDE DEF p0, F
    <3>4. v.ctab \in Ctab /\ [fid |-> f, num |-> 0] \in [fid : Fid \cup {CLAIMED}, num : Nat]
      BY <1>1, VolumeFields
    <3>5. ct \in Ctab /\ ct[p0].fid = f /\ \A p \in Block : p # p0 => ct[p] = v.ctab[p]
      BY <3>3, <3>4 DEF Ctab
    <3> HIDE DEF ct
    <3>6. WholeBytes => Agrees(bm, ct)
      <4>1. \A p \in Block : p[1] \notin {c} => ct[p] = v.ctab[p]
        BY <3>3, <3>5
      <4>2. QED
        BY <4>1, UpdAgrees DEF Good
    <3>7. bm \in Bitmap
      BY <1>1, VolumeFields DEF dev_upd_bitmap, Bitmap
    <3> HIDE DEF bm
    <3>8. u \in Volume /\ u.table = [v.table EXCEPT ![f] = ent] /\ u.ctab = ct
          /\ u.bitmap = bm /\ u.clrs = v.clrs /\ u.seqs = v.seqs
      BY <1>1, <2>4, <3>5, <3>7 DEF Volume
    <3> HIDE DEF u
    <3>9. Good(u) /\ Takes(v, u, f)
      BY <2>1, <2>5, <3>3, <3>5, <3>6, <3>8 DEF Good, RootKept, RootClrs, Takes
    <3>10. QED
      BY <3>1, <3>9
  <2>8. QED
    BY <2>6, <2>7
<1>4. QED
  BY <1>2, <1>3

\* dev_init_file fills the cluster cache at most.
LEMMA InitGood ==
  ASSUME NEW v, Good(v), NEW f \in Fid
  PROVE  Good(dev_init_file(v, f)) /\ Still(v, dev_init_file(v, f))
<1> DEFINE w == IF v.clrs.fid = f THEN v ELSE dev_tbl_clrs_cnt(v, f)
<1>1. Good(w) /\ Still(v, w)
  BY ClrsCntGood DEF Still
<1>2. dev_init_file(v, f) \in {w, Lost(w, "undefined")}
  BY DEF dev_init_file
<1> HIDE DEF w
<1>3. Good(Lost(w, "undefined")) /\ Still(w, Lost(w, "undefined"))
  BY <1>1, LostGood DEF Status
<1>4. QED
  BY <1>1, <1>2, <1>3 DEF Still

\* dev_rm_file up to the rewriting of the directory: the entry is counted down
\* and the blocks of f in the listed clusters are free.
Removed(v, f) ==
  LET w    == dev_tbl_clrs_cnt(v, f)
      lnk  == (w.table[f].lnk - 1) % 256
      gone == {p \in Block : p[1] \in Listed(w) /\ w.ctab[p].fid = f}
      ct   == [p \in Block |-> IF p \in gone THEN FreeEntry ELSE w.ctab[p]]
      u    == [w EXCEPT !.table[f].lnk = lnk]
  IN [u EXCEPT !.ctab = ct,
               !.bitmap = dev_upd_bitmap(u.bitmap, ct, {p[1] : p \in gone})]

Removes(v, r, f) ==
  /\ r.table = [v.table EXCEPT ![f].lnk = (v.table[f].lnk - 1) % 256]
  /\ r.secs = v.secs /\ r.seqs = v.seqs /\ r.status = v.status
  /\ r.clrs = dev_tbl_clrs_cnt(v, f).clrs /\ r.clrs.fid = f
  /\ \A p \in Block : r.ctab[p] =
       IF p[1] \in Listed(dev_tbl_clrs_cnt(v, f)) /\ v.ctab[p].fid = f
       THEN FreeEntry ELSE v.ctab[p]

\* dev_rm_file frees blocks of f, or only counts its links down.
LEMMA RmGood ==
  ASSUME NEW v, Good(v), NEW f \in File
  PROVE  /\ Good(dev_rm_file(v, f)) /\ Frees(v, dev_rm_file(v, f), f)
         /\ Good(Removed(v, f)) /\ Removes(v, Removed(v, f), f)
         /\ (v.table[f].lnk - 1) % 256 = 0 =>
              dev_rm_file(v, f) = dev_write_dir(Removed(v, f), Cardinality(Live(Removed(v, f))))
<1> DEFINE w    == dev_tbl_clrs_cnt(v, f)
           lnk  == (w.table[f].lnk - 1) % 256
           gone == {p \in Block : p[1] \in Listed(w) /\ w.ctab[p].fid = f}
           ct   == [p \in Block |-> IF p \in gone THEN FreeEntry ELSE w.ctab[p]]
           u    == [w EXCEPT !.table[f].lnk = lnk]
           bm   == dev_upd_bitmap(u.bitmap, ct, {p[1] : p \in gone})
           r    == [u EXCEPT !.ctab = ct, !.bitmap = bm]
<1>1. f \in Fid /\ f # 0
  BY RootFid DEF File
<1>2. Good(w) /\ w.ctab = v.ctab /\ w.table = v.table /\ w \in Volume
      /\ w.secs = v.secs /\ w.seqs = v.seqs /\ w.status = v.status /\ w.clrs.fid = f
  BY <1>1, ClrsCntGood DEF Still, Good
<1>3. dev_rm_file(v, f) = IF lnk # 0 THEN u ELSE dev_write_dir(r, Cardinality(Live(r)))
  BY DEF dev_rm_file
<1>4. r = Removed(v, f)
  BY DEF Removed
<1> HIDE DEF w
<1>5. lnk = (v.table[f].lnk - 1) % 256
  BY <1>2
<1>6. lnk \in 0..255
  <2>1. w.table[f].lnk \in 0..255
    BY <1>1, <1>2, VolumeFields DEF Table, Entry
  <2>2. \A x \in 0..255 : (x - 1) % 256 \in 0..255
    OBVIOUS
  <2>3. QED
    BY <2>1, <2>2, ZenonT(30)
<1> HIDE DEF lnk
<1>7. w.table \in Table /\ [w.table EXCEPT ![f].lnk = lnk] \in Table
  BY <1>1, <1>2, <1>6, VolumeFields, TableUpdates, ZenonT(30)
<1>8. [w.table EXCEPT ![f].lnk = lnk][0] = w.table[0]
  BY <1>1, <1>7, RootFid DEF Table
<1>9. u \in Volume /\ u.table = [w.table EXCEPT ![f].lnk = lnk] /\ u.ctab = w.ctab
      /\ u.bitmap = w.bitmap /\ u.clrs = w.clrs /\ u.seqs = w.seqs
      /\ u.secs = w.secs /\ u.status = w.status
  BY <1>2, <1>7 DEF Volume
<1> HIDE DEF u
<1>10. Good(u) /\ Frees(v, u, f)
  BY <1>2, <1>8, <1>9 DEF Good, RootKept, RootClrs, Frees
<1>11. \A p \in gone : p \in Block /\ p[1] # 0 /\ v.ctab[p].fid = f
  <2>1. \A p \in Block : p[1] = 0 => v.ctab[p] = Formatted.ctab[p]
    BY DEF Good, RootKept
  <2>2. \A p \in Block : p[1] = 0 => Formatted.ctab[p].fid = 0
    BY DEF Formatted
  <2>3. QED
    BY <1>1, <1>2, <2>1, <2>2
<1>12. \A p \in Block : IF p \in gone THEN ct[p] = FreeEntry ELSE ct[p] = w.ctab[p]
  OBVIOUS
<1>13. \A p \in Block : p \in gone <=> p[1] \in Listed(w) /\ v.ctab[p].fid = f
  BY <1>2
<1> HIDE DEF gone
<1>14. ct \in Ctab
  BY <1>2, VolumeFields, RootFid DEF Ctab, FreeEntry
<1> HIDE DEF ct
<1>15. WholeBytes => Agrees(bm, ct)
  <2>1. \A p \in Block : p[1] \notin {q[1] : q \in gone} => ct[p] = u.ctab[p]
    BY <1>9, <1>12
  <2>2. QED
    BY <1>10, <2>1, UpdAgrees DEF Good
<1>16. bm \in Bitmap
  BY <1>9, VolumeFields DEF dev_upd_bitmap, Bitmap
<1> HIDE DEF bm
<1>17. r \in Volume /\ r.table = u.table /\ r.ctab = ct /\ r.bitmap = bm
       /\ r.clrs = u.clrs /\ r.seqs = u.seqs /\ r.secs = u.secs /\ r.status = u.status
  BY <1>9, <1>14, <1>16 DEF Volume
<1> HIDE DEF r
<1>18. Good(r)
  BY <1>2, <1>9, <1>10, <1>11, <1>12, <1>15, <1>17 DEF Good, RootKept, RootClrs
<1>19. Frees(v, r, f)
  BY <1>2, <1>11, <1>12, <1>17 DEF Frees, FreeEntry
<1>20. Good(dev_rm_file(v, f)) /\ Frees(v, dev_rm_file(v, f), f)
  BY <1>3, <1>10, <1>18, <1>19, WriteDirGood DEF Still, Frees
<1>21. \A p \in Block : r.ctab[p] = IF p[1] \in Listed(w) /\ v.ctab[p].fid = f
                                   THEN FreeEntry ELSE v.ctab[p]
  BY <1>2, <1>12, <1>17, <1>13
<1>22. Removes(v, r, f)
  BY <1>2, <1>9, <1>17, <1>5, <1>21 DEF Removes, w
<1>23. lnk = 0 => dev_rm_file(v, f) = dev_write_dir(r, Cardinality(Live(r)))
  BY <1>3
<1>24. QED
  BY <1>18, <1>20, <1>4, <1>5, <1>22, <1>23

\* cache_seq_rm empties the list cached for f.
LEMMA SeqRmGood ==
  ASSUME NEW v, Good(v), NEW f \in Fid
  PROVE  Good(cache_seq_rm(v, f)) /\ Still(v, cache_seq_rm(v, f))
<1> DEFINE w == cache_seq_rm(v, f)
<1>1. v \in Volume /\ v.seqs \in Seqs
  BY VolumeFields DEF Good
<1>2. [v.seqs EXCEPT ![f] = {}] \in Seqs
  BY <1>1 DEF Seqs
<1>3. w \in Volume /\ Still(v, w) /\ w.clrs = v.clrs /\ w.seqs = [v.seqs EXCEPT ![f] = {}]
  BY <1>1, <1>2 DEF Volume, cache_seq_rm, Still
<1> HIDE DEF w
<1>4. \A g \in Fid : IsFiniteSet(w.seqs[g])
  BY <1>1, <1>3, FS_EmptySet DEF Good, Seqs
<1>5. w.seqs[0] \in {{}, v.seqs[0]}
  BY <1>1, <1>3, RootFid DEF Seqs
<1>6. Good(w)
  BY <1>3, <1>4, <1>5 DEF Good, Still, RootKept, RootClrs
<1>7. QED
  BY <1>3, <1>6 DEF w

-----------------------------------------------------------------------------
(* The requests.                                                            *)

\* What a request does to the owners of blocks.
Owns(v, w) == \E f \in File : Takes(v, w, f) \/ Frees(v, w, f)

\* Type of everything but the volume.
Bounds(o, g) == o \subseteq Handle /\ g \in [Fid -> 0..MaxGen]

\* The inductive invariant.
IInv == Good(vol) /\ Bounds(opened, gen)

\* A look-up fills caches only.
LEMMA LookedGood ==
  ASSUME NEW v, Good(v), NEW f \in Fid
  PROVE  Good(Looked(v, f)) /\ Still(v, Looked(v, f))
<1> DEFINE w == dev_get_file_seq(v, 0)
<1>1. Good(w) /\ Still(v, w)
  BY RootFid, GetSeqGood
<1> HIDE DEF w
<1>2. Good(dev_get_file_seq(w, f)) /\ Still(w, dev_get_file_seq(w, f))
  BY <1>1, GetSeqGood
<1>3. QED
  BY <1>1, <1>2 DEF Looked, w, Still

\* A creation takes blocks for the new file.
LEMMA CreatedGood ==
  ASSUME NEW v, Good(v), NEW f \in File
  PROVE  Good(Created(v, f)) /\ Takes(v, Created(v, f), f)
<1> DEFINE read  == dev_get_file_seq(v, 0)
           alloc == If(read, dev_file_alloc(read, f))
           n     == Cardinality(Live(read)) + 1
           dir   == If(alloc, dev_write_dir(alloc, n))
           init  == If(dir, dev_init_file(dir, f))
<1>1. f \in Fid
  BY RootFid
<1>2. Good(read) /\ Takes(v, read, f)
  BY RootFid, GetSeqGood DEF Still, Takes
<1>3. Created(v, f) = If(init, Looked(init, f))
  BY DEF Created
<1> HIDE DEF read, n
<1>4. Good(alloc) /\ Takes(read, alloc, f)
  BY <1>2, AllocGood DEF If, Takes
<1> HIDE DEF alloc
<1>5. Good(dir) /\ Takes(alloc, dir, f)
  BY <1>4, WriteDirGood DEF If, Still, Takes
<1> HIDE DEF dir
<1>6. Good(init) /\ Takes(dir, init, f)
  BY <1>1, <1>5, InitGood DEF If, Still, Takes
<1> HIDE DEF init
<1>7. Good(If(init, Looked(init, f))) /\ Takes(init, If(init, Looked(init, f)), f)
  BY <1>1, <1>6, LookedGood DEF If, Still, Takes
<1> HIDE DEF read
<1>8. Takes(v, init, f)
  BY <1>2, <1>4, <1>5, <1>6, TakesTransitive
<1>9. QED
  BY <1>3, <1>7, <1>8, TakesTransitive

\* The formatted volume is good.
LEMMA FormattedGood == Good(Formatted)
<1>1. Formatted.table \in Table
  BY RootFid DEF Formatted, Table, Entry
<1>2. Formatted.ctab \in Ctab
  <2>1. \A p \in Block : p[2] - 1 \in Nat
    BY SizeAssumption, SMTT(30) DEF Block, Slot
  <2>2. QED
    BY <2>1, RootFid DEF Formatted, Ctab, FreeEntry
<1>3. Formatted.bitmap \in Bitmap /\ Formatted.seqs \in Seqs
  BY DEF Formatted, Bitmap, Seqs, NoSeqs
<1>4. Formatted.secs \in Secs
  BY DEF Formatted, Secs
<1>5. Formatted.clrs \in Clrs
  BY DEF Formatted, Clrs, NoClrs
<1>6. Formatted.status \in Status
  BY DEF Formatted, Status
<1>7. Formatted \in Volume
  BY <1>1, <1>2, <1>3, <1>4, <1>5, <1>6 DEF Formatted, Volume
<1>8. \A f \in Fid : IsFiniteSet(Formatted.seqs[f])
  BY FS_EmptySet DEF Formatted, NoSeqs
<1>9. Agrees(Formatted.bitmap, Formatted.ctab)
  <2>1. 1 \in Slot
    BY SizeAssumption, SMTT(30) DEF Slot
  <2>2. ASSUME NEW c \in Cluster PROVE Formatted.bitmap[c] # 1 /\ HasFree(Formatted.ctab, c)
    <3>1. <<c, 1>> \in Block
      BY <2>1 DEF Block
    <3>2. Formatted.ctab[<<c, 1>>].fid = 0
      BY <3>1 DEF Formatted, FreeEntry
    <3>3. QED
      BY <2>1, <3>2 DEF HasFree, Formatted
  <2>3. QED
    BY <2>2 DEF Agrees
<1>10. RootKept(Formatted)
  BY RootFid DEF RootKept, Formatted, NoSeqs
<1>11. RootClrs(Formatted)
  BY DEF RootClrs, Formatted, NoClrs
<1>12. QED
  BY <1>7, <1>8, <1>9, <1>10, <1>11 DEF Good

\* The formatted volume satisfies the invariant.
LEMMA InitInv == Init => IInv
<1> SUFFICES ASSUME Init PROVE IInv
  OBVIOUS
<1>1. vol = Formatted /\ opened = {} /\ gen = [f \in Fid |-> 0]
  BY DEF Init
<1>2. 0 \in 0..MaxGen
  BY VolumeAssumption
<1>3. QED
  BY <1>1, <1>2, FormattedGood DEF IInv, Bounds

\* A mount empties the caches, and cuts no bit of a bitmap of whole bytes.
LEMMA RemountGood ==
  ASSUME Good(vol), Remount
  PROVE  Good(vol') /\ vol'.ctab = vol.ctab
<1> DEFINE bm == [c \in Cluster |-> IF c \in Kept THEN vol.bitmap[c] ELSE 0]
<1>1. vol \in Volume
  BY DEF Good
<1>2. vol' = [vol EXCEPT !.bitmap = bm, !.clrs = NoClrs, !.seqs = NoSeqs]
  BY DEF Remount
<1>3. bm \in Bitmap
  BY <1>1, VolumeFields DEF Bitmap
<1>4. NoClrs \in Clrs /\ NoSeqs \in Seqs
  BY DEF NoClrs, NoSeqs, Clrs, Seqs
<1>5. WholeBytes => bm = vol.bitmap
  <2>1. ASSUME WholeBytes PROVE \A c \in Cluster : c \in Kept
    <3>1. NC \in Nat /\ ByteBits \in Nat \ {0}
      BY SizeAssumption, VolumeAssumption, SMTT(30)
    <3>2. NC = (NC \div ByteBits) * ByteBits
      BY <2>1, <3>1 DEF WholeBytes
    <3>3. QED
      BY <3>1, <3>2 DEF Cluster, Kept
  <2>2. vol.bitmap \in Bitmap
    BY <1>1, VolumeFields
  <2>3. QED
    BY <2>1, <2>2 DEF Bitmap
<1> HIDE DEF bm
<1>6. vol' \in Volume /\ vol'.ctab = vol.ctab /\ vol'.bitmap = bm /\ vol'.table = vol.table
      /\ vol'.clrs = NoClrs /\ vol'.seqs = NoSeqs
  BY <1>1, <1>2, <1>3, <1>4 DEF Volume
<1>7. \A f \in Fid : IsFiniteSet(vol'.seqs[f])
  BY <1>6, FS_EmptySet DEF NoSeqs
<1>8. RootKept(vol')
  BY <1>6, RootFid DEF Good, RootKept, NoSeqs
<1>9. RootClrs(vol')
  BY <1>6 DEF RootClrs, NoClrs
<1>10. WholeBytes => Agrees(vol'.bitmap, vol'.ctab)
  BY <1>5, <1>6 DEF Good
<1>11. QED
  BY <1>6, <1>7, <1>8, <1>9, <1>10 DEF Good

\* A write extends its file at most.
LEMMA WriteGood ==
  ASSUME Good(vol), NEW h \in Handle, NEW n, ops_write(h, n)
  PROVE  Good(vol') /\ Takes(vol, vol', h.file)
<1> DEFINE f    == h.file
           w    == dev_get_file_seq(vol, f)
           lack == n - Cardinality(w.seqs[f])
           x    == dev_extd_blk_list(w, f, lack)
<1>1. f \in File /\ f \in Fid
  BY RootFid DEF Handle
<1>2. Good(w) /\ Still(vol, w)
  BY <1>1, GetSeqGood
<1>3. vol' = If(w, IF lack > 0 THEN x ELSE w)
  BY DEF ops_write
<1>4. vol' \in {w, x}
  BY <1>3 DEF If
<1> HIDE DEF w, f, lack
<1>5. Good(x) /\ Takes(w, x, f)
  BY <1>1, <1>2, ExtdGood
<1> HIDE DEF x
<1>6. Good(vol') /\ Takes(vol, vol', f)
  BY <1>2, <1>4, <1>5 DEF Still, Takes
<1>7. QED
  BY <1>6 DEF f

\* A creation, with an identifier left or without.
LEMMA CreateGood ==
  ASSUME IInv, ops_create
  PROVE  IInv' /\ (vol'.ctab = vol.ctab \/ Owns(vol, vol'))
<1> DEFINE f == Least(FreeFids(vol))
<1>1. CASE FreeFids(vol) = {}
  <2>1. vol' = Lost(vol, "undefined") /\ opened' = opened /\ gen' = gen
    BY <1>1 DEF ops_create
  <2>2. Good(vol') /\ vol'.ctab = vol.ctab
    BY <2>1, LostGood DEF IInv, Status, Still
  <2>3. QED
    BY <2>1, <2>2 DEF IInv
<1>2. CASE FreeFids(vol) # {}
  <2>1. f \in File
    <3>1. File \subseteq Int /\ IsFiniteSet(0..(NF - 1))
      BY VolumeAssumption, FS_Interval DEF File, Fid
    <3>2. FreeFids(vol) \subseteq File /\ FreeFids(vol) \subseteq 0..(NF - 1)
      BY DEF FreeFids, File, Fid
    <3>3. IsFiniteSet(FreeFids(vol)) /\ FreeFids(vol) \in SUBSET Int
      BY <3>1, <3>2, FS_Subset
    <3>4. f \in FreeFids(vol)
      BY <1>2, <3>3, LeastExists
    <3>5. QED
      BY <3>2, <3>4
  <2>2. /\ gen[f] < MaxGen
        /\ vol' = Created(vol, f)
        /\ gen' = [gen EXCEPT ![f] = @ + 1]
        /\ opened' = opened \cup {[file |-> f, fh |-> 0]}
    BY <1>2 DEF ops_create
  <2> HIDE DEF f
  <2>3. Good(vol') /\ Takes(vol, vol', f)
    BY <2>1, <2>2, CreatedGood DEF IInv
  <2>4. opened' \subseteq Handle
    BY <2>1, <2>2, RootFid DEF IInv, Bounds, Handle
  <2>5. gen' \in [Fid -> 0..MaxGen]
    <3>1. gen \in [Fid -> 0..MaxGen] /\ f \in Fid
      BY <2>1, RootFid DEF IInv, Bounds
    <3>2. gen[f] + 1 \in 0..MaxGen
      BY <2>2, <3>1, VolumeAssumption
    <3>3. QED
      BY <2>2, <3>1, <3>2
  <2>6. QED
    BY <2>1, <2>3, <2>4, <2>5 DEF IInv, Bounds, Owns
<1>3. QED
  BY <1>1, <1>2

\* Every step keeps the invariant, and leaves the cluster tables alone or takes
\* blocks for one file or frees blocks of one file.
LEMMA NextInv ==
  ASSUME IInv, [Next]_vars
  PROVE  IInv' /\ (vol'.ctab = vol.ctab \/ Owns(vol, vol'))
<1>1. Good(vol) /\ opened \subseteq Handle /\ Bounds(opened, gen)
  BY DEF IInv, Bounds
<1>2. CASE ops_create
  BY <1>2, CreateGood
<1>3. CASE ops_readdir
  BY <1>1, <1>3, RootFid, GetSeqGood DEF ops_readdir, IInv, Still
<1>4. CASE ops_releasedir
  BY <1>1, <1>4, RootFid, SeqRmGood DEF ops_releasedir, IInv, Still
<1>5. CASE Remount
  <2>1. opened' = opened /\ gen' = gen
    BY <1>5 DEF Remount
  <2>2. QED
    BY <1>1, <1>5, <2>1, RemountGood DEF IInv
<1>6. ASSUME NEW f \in File, ops_getattr(f)
      PROVE  IInv' /\ vol'.ctab = vol.ctab
  BY <1>1, <1>6, RootFid, LookedGood DEF ops_getattr, IInv, Still
<1>7. ASSUME NEW f \in File, ops_open(f)
      PROVE  IInv' /\ vol'.ctab = vol.ctab
  <2>1. [file |-> f, fh |-> f] \in Handle
    BY RootFid DEF Handle
  <2>2. vol' = vol /\ gen' = gen /\ opened' \subseteq Handle
    BY <1>1, <1>7, <2>1 DEF ops_open
  <2>3. QED
    BY <1>1, <2>2 DEF IInv, Bounds
<1>8. ASSUME NEW f \in File, ops_unlink(f)
      PROVE  IInv' /\ Owns(vol, vol')
  <2>1. vol' = dev_rm_file(vol, f) /\ opened' = opened /\ gen' = gen
    BY <1>8 DEF ops_unlink
  <2>2. QED
    BY <1>1, <2>1, RmGood DEF IInv, Owns
<1>9. ASSUME NEW h \in opened, ops_read(h)
      PROVE  IInv' /\ vol'.ctab = vol.ctab
  <2>1. h.fh \in Fid
    BY <1>1 DEF Handle
  <2>2. QED
    BY <1>1, <1>9, <2>1, GetSeqGood DEF ops_read, IInv, Still
<1>10. ASSUME NEW h \in opened, ops_release(h)
       PROVE  IInv' /\ vol'.ctab = vol.ctab
  <2>1. h.fh \in Fid
    BY <1>1 DEF Handle
  <2>2. opened' \subseteq opened /\ gen' = gen /\ vol' = cache_seq_rm(vol, h.fh)
    BY <1>10 DEF ops_release
  <2>3. QED
    BY <1>1, <2>1, <2>2, SeqRmGood DEF IInv, Bounds, Still
<1>11. ASSUME NEW h \in opened, NEW n \in 1..MaxBlocks, ops_write(h, n)
       PROVE  IInv' /\ Owns(vol, vol')
  <2>1. h \in Handle /\ h.file \in File
    BY <1>1 DEF Handle
  <2>2. opened' = opened /\ gen' = gen
    BY <1>11 DEF ops_write
  <2>3. QED
    BY <1>1, <1>11, <2>1, <2>2, WriteGood DEF IInv, Owns
<1>12. CASE UNCHANGED vars
  BY <1>12 DEF vars, IInv
<1>13. QED
  BY <1>2, <1>3, <1>4, <1>5, <1>6, <1>7, <1>8, <1>9, <1>10, <1>11, <1>12 DEF Next

\* The invariant holds of every reachable state.
THEOREM Invariance == Spec => []IInv
<1>1. Init => IInv
  BY InitInv
<1>2. IInv /\ [Next]_vars => IInv'
  BY NextInv
<1>3. QED
  BY <1>1, <1>2, PTL DEF Spec

\* Type correctness: whatever requests are made in which order, every part of
\* the state keeps its type (in particular every cached list is a list of
\* blocks of the volume, and every listed cluster exists).
THEOREM TypeCorrect == Spec => []TypeOK
<1>1. IInv => TypeOK
  BY DEF IInv, Bounds, Good, TypeOK
<1>2. QED
  BY <1>1, Invariance, PTL

\* If the clusters fill whole bytes of the bitmap, the bitmap agrees with the
\* cluster tables after every request (dev_upd_bitmap, dev_write_bitmap).
THEOREM BitmapCorrect ==
  ASSUME NC % ByteBits = 0
  PROVE  Spec => []BitmapAgrees
<1>1. WholeBytes
  BY DEF WholeBytes
<1>2. IInv => BitmapAgrees
  BY <1>1 DEF IInv, Good, BitmapAgrees
<1>3. QED
  BY <1>2, Invariance, PTL

\* No request hands out a block of the root directory, or changes its entry in
\* the file table, or its block list (dev_free_cluster_from).
THEOREM RootSafe == Spec => []RootIntact
<1>1. IInv => RootIntact
  BY DEF IInv, Good, RootIntact
<1>2. QED
  BY <1>1, Invariance, PTL

\* A step of the kind NextInv describes moves blocks of one file only.
LEMMA OwnsNoSteal ==
  ASSUME vol'.ctab = vol.ctab \/ Owns(vol, vol')
  PROVE  /\ \A p \in Moved : 0 \in {vol.ctab[p].fid, vol'.ctab[p].fid}
         /\ Cardinality(Parties \cap File) <= 1
<1>1. CASE vol'.ctab = vol.ctab
  <2>1. Moved = {}
    BY <1>1 DEF Moved
  <2>2. Parties = {}
    BY <2>1 DEF Parties
  <2>3. Parties \cap File = {} /\ Cardinality({}) = 0
    BY <2>2, FS_EmptySet
  <2>4. Cardinality(Parties \cap File) = 0
    BY <2>3
  <2>5. QED
    BY <2>1, <2>4
<1>2. CASE Owns(vol, vol')
  <2>1. PICK f \in File : Takes(vol, vol', f) \/ Frees(vol, vol', f)
    BY <1>2 DEF Owns
  <2>2. \A p \in Moved :
          \/ vol.ctab[p].fid = 0 /\ vol'.ctab[p].fid \in {f, CLAIMED}
          \/ vol.ctab[p].fid = f /\ vol'.ctab[p].fid = 0
    BY <2>1 DEF Moved, Takes, Frees
  <2>3. Parties \subseteq {0, f, CLAIMED}
    BY <2>2 DEF Parties
  <2>4. 0 \notin File /\ CLAIMED \notin File
    BY VolumeAssumption DEF File, Fid, CLAIMED
  <2>5. Parties \cap File \subseteq {f}
    BY <2>3, <2>4
  <2>6. IsFiniteSet({f}) /\ Cardinality({f}) = 1
    BY FS_Singleton
  <2>7. Cardinality(Parties \cap File) <= 1
    BY <2>5, <2>6, FS_Subset
  <2>8. QED
    BY <2>2, <2>7
<1>3. QED
  BY <1>1, <1>2

\* No block passes from one file to another in a step: a request takes free
\* blocks for one file or frees blocks of one file (dev_file_reserve,
\* dev_file_alloc, dev_rm_file, dev_clust_claim).
THEOREM BlocksNotStolen == Spec => NoSteal
<1>1. IInv /\ [Next]_vars =>
        [/\ \A p \in Moved : 0 \in {vol.ctab[p].fid, vol'.ctab[p].fid}
         /\ Cardinality(Parties \cap File) <= 1]_vars
  BY NextInv, OwnsNoSteal
<1>2. QED
  BY <1>1, Invariance, PTL DEF Spec, NoSteal

-----------------------------------------------------------------------------
(***************************************************************************)
(* The files of a volume: the cluster list of a file leads to its blocks,  *)
(* the blocks are numbered without a gap, and the two caches and the       *)
(* claimed clusters agree with the tables.                                 *)
(*                                                                         *)
(* FilesKept is the inductive part that Good does not have.  It is stated  *)
(* of any volume, like Good, and each function of the driver gets two      *)
(* lemmas: what it does for the file it works for (…Whole), and that it    *)
(* leaves the other files as they are (…Others).                           *)
(***************************************************************************)

-----------------------------------------------------------------------------
(* What the tables record of a file.                                        *)

OwnedBy(v, f)       == {p \in Block : v.ctab[p].fid = f}
OwnedClusters(v, f) == {p[1] : p \in OwnedBy(v, f)}

SecondOf(v, f) == IF v.table[f].sec = 0 THEN <<>> ELSE v.secs[v.table[f].sec]

ClustersOf(v, f) ==
  ({v.table[f].clrs[i] : i \in 1..Direct} \ {0}) \cup Elems(SecondOf(v, f))

\* The first n places of the table entry are used, and there is a second level
\* only when all are.
ShapedBy(v, f, n) ==
  LET t == v.table[f]
  IN /\ n \in 1..Direct
     /\ \A i \in 1..Direct : t.clrs[i] # 0 <=> i <= n
     /\ t.sec # 0 => n = Direct /\ v.secs[t.sec] # <<>>

Shaped(v, f) == \E n \in 1..Direct : ShapedBy(v, f, n)

\* No cluster is listed twice.
Counted(v, f) ==
  Len(dev_tbl_load_fir(v, f)) + Len(SecondOf(v, f)) = Cardinality(ClustersOf(v, f))

Cached(v, f) ==
  v.clrs.fid = f => v.clrs.s0 = dev_tbl_load_fir(v, f) /\ v.clrs.s1 = SecondOf(v, f)

\* The list names clusters with blocks of the file only, and all of them as long
\* as it has room.
Reached(v, f) ==
  /\ ClustersOf(v, f) \subseteq OwnedClusters(v, f)
  /\ \/ OwnedClusters(v, f) \subseteq ClustersOf(v, f)
     \/ Cardinality(ClustersOf(v, f)) >= MaxClrs

\* The list has room for one more cluster.  At its limit blocks stay outside the
\* list (dev_file_mem_clrs), and after a mount they are neither found nor freed:
\* numbering and removal are claimed only before.
Spare(v, f) == ~(Cardinality(ClustersOf(v, f)) >= MaxClrs)

Numbered(v, f) ==
  /\ {v.ctab[p].num : p \in OwnedBy(v, f)} = 0..(Cardinality(OwnedBy(v, f)) - 1)
  /\ v.seqs[f] \in {{}, InfoOf(v, f, Cluster)}

\* A live file whose identifier was not used before.
Whole(v, f) ==
  /\ Shaped(v, f) /\ Counted(v, f) /\ Cached(v, f) /\ Reached(v, f)
  /\ Spare(v, f) => Numbered(v, f)

\* An identifier that was never used.
Virgin(v, f) ==
  /\ v.table[f].lnk = 0 /\ v.table[f].sec = 0
  /\ v.clrs.fid # f /\ v.seqs[f] = {} /\ OwnedBy(v, f) = {}

\* Second-level lists lie in claimed clusters, each in one of its own.
Apart(v) ==
  \A f \in File : v.table[f].sec # 0 =>
    /\ \A b \in Slot : v.ctab[<<v.table[f].sec, b>>].fid = CLAIMED
    /\ \A g \in File \ {f} : v.table[g].sec # v.table[f].sec

\* Every claimed cluster is the second level of a file.
Accounted(v) ==
  \A p \in Block : v.ctab[p].fid = CLAIMED => \E f \in File : v.table[f].sec = p[1]

\* What is kept of one file, by how often its identifier was handed out.
FileKept(v, f, n) ==
  /\ v.table[f].lnk \in {0, 1}
  /\ n = 0 => Virgin(v, f)
  /\ n = 1 /\ v.table[f].lnk # 0 => Whole(v, f)
  /\ n = 1 /\ v.table[f].lnk = 0 /\ Spare(v, f) => OwnedBy(v, f) = {}

FilesKept(v, g) ==
  /\ Apart(v)
  /\ \A f \in File : FileKept(v, f, g[f])
  /\ (\A f \in File : g[f] <= 1) => Accounted(v)

\* A handle is of a live file: an open file is not removed.
HandlesKept(v, o) == \A h \in o : h.file \in Live(v) /\ h.fh \in {0, h.file}

\* While the process runs its files are kept, and its loss is explained.
FilesHold ==
  /\ Running => FilesKept(vol, gen) /\ HandlesKept(vol, opened)
  /\ WholeBytes => LossExplained

\* The inductive invariant.
FInv == IInv /\ FilesHold

-----------------------------------------------------------------------------
(* Sequences of clusters and sets of blocks.                                *)

Distinct(s) == \A i, j \in 1..Len(s) : s[i] = s[j] => i = j

\* A sequence without repetition has as many elements as places.
LEMMA ElemsCount ==
  ASSUME NEW S, NEW s \in Seq(S), Distinct(s)
  PROVE  IsFiniteSet(Elems(s)) /\ Cardinality(Elems(s)) = Len(s)
<1> DEFINE I == 1..Len(s)
           at == [i \in I |-> s[i]]
<1>1. Len(s) \in Nat
  BY LenProperties
<1>2. IsFiniteSet(I) /\ Cardinality(I) = Len(s)
  BY <1>1, FS_Interval, SMTT(30)
<1>3. at \in Surjection(I, Elems(s)) /\ at \in Injection(I, Elems(s))
  BY DEF Elems, Distinct, Surjection, Injection, IsInjective
<1>4. QED
  BY <1>2, <1>3, FS_Surjection

\* The elements of a concatenation.
LEMMA ElemsConcat ==
  ASSUME NEW S, NEW s \in Seq(S), NEW t \in Seq(S)
  PROVE  Elems(s \o t) = Elems(s) \cup Elems(t)
<1>1. Len(s) \in Nat /\ Len(t) \in Nat
  BY LenProperties
<1>2. /\ Len(s \o t) = Len(s) + Len(t)
      /\ \A i \in 1..(Len(s) + Len(t)) :
           (s \o t)[i] = IF i <= Len(s) THEN s[i] ELSE t[i - Len(s)]
  BY ConcatProperties
<1>3. ASSUME NEW i \in 1..Len(s) PROVE s[i] \in Elems(s \o t)
  <2>1. i \in 1..(Len(s) + Len(t)) /\ i <= Len(s)
    BY <1>1
  <2>2. (s \o t)[i] = s[i]
    BY <1>2, <2>1
  <2>3. QED
    BY <1>2, <2>1, <2>2 DEF Elems
<1>4. ASSUME NEW i \in 1..Len(t) PROVE t[i] \in Elems(s \o t)
  <2>1. Len(s) + i \in 1..(Len(s) + Len(t)) /\ ~(Len(s) + i <= Len(s))
        /\ Len(s) + i - Len(s) = i
    BY <1>1
  <2>2. (s \o t)[Len(s) + i] = t[i]
    BY <1>2, <2>1
  <2>3. QED
    BY <1>2, <2>1, <2>2 DEF Elems
<1>5. ASSUME NEW i \in 1..(Len(s) + Len(t)) PROVE (s \o t)[i] \in Elems(s) \cup Elems(t)
  <2>1. CASE i <= Len(s)
    <3>1. i \in 1..Len(s)
      BY <1>1, <2>1
    <3>2. QED
      BY <1>2, <2>1, <3>1 DEF Elems
  <2>2. CASE ~(i <= Len(s))
    <3>1. i - Len(s) \in 1..Len(t)
      BY <1>1, <2>2
    <3>2. QED
      BY <1>2, <2>2, <3>1 DEF Elems
  <2>3. QED
    BY <2>1, <2>2
<1>6. QED
  BY <1>2, <1>3, <1>4, <1>5 DEF Elems

\* Sorting a set of clusters yields each of them once.
LEMMA SortedElems ==
  ASSUME NEW S \in SUBSET Cluster
  PROVE  /\ Sorted(S) \in Seq(Cluster) /\ Len(Sorted(S)) = Cardinality(S)
         /\ Elems(Sorted(S)) = S /\ Distinct(Sorted(S))
<1> DEFINE I == 1..Cardinality(S)
           rank(c) == Cardinality({d \in S : d < c})
<1>1. IsFiniteSet(S) /\ S \in SUBSET Int
  <2>1. Cluster \subseteq Int
    BY SizeAssumption, SMTT(30) DEF Cluster
  <2>2. QED
    BY <2>1, FiniteVolume, FS_Subset
<1>2. Cardinality(S) \in Nat
  BY <1>1, FS_CardinalityType
<1>3. ASSUME NEW i \in I PROVE Sorted(S)[i] \in S /\ rank(Sorted(S)[i]) = i - 1
  <2>1. i - 1 \in 0..(Cardinality(S) - 1)
    BY <1>2
  <2>2. \E c \in S : rank(c) = i - 1
    BY <1>1, <2>1, RankExists
  <2>3. Sorted(S)[i] = CHOOSE c \in S : rank(c) = i - 1
    BY DEF Sorted
  <2>4. QED
    BY <2>2, <2>3
<1>4. Sorted(S) \in Seq(Cluster)
  BY SortedType
<1>5. DOMAIN Sorted(S) = I
  BY DEF Sorted
<1>6. Len(Sorted(S)) = Cardinality(S)
  <2>1. Len(Sorted(S)) \in Nat /\ DOMAIN Sorted(S) = 1..Len(Sorted(S))
    BY <1>4, LenProperties
  <2>2. QED
    BY <1>2, <1>5, <2>1
<1>7. Sorted(S) \in [I -> S]
  BY <1>3 DEF Sorted
<1>8. \A i, j \in I : Sorted(S)[i] = Sorted(S)[j] => i = j
  <2>1. ASSUME NEW i \in I, NEW j \in I, Sorted(S)[i] = Sorted(S)[j] PROVE i = j
    <3>1. i - 1 = j - 1
      BY <1>3, <2>1
    <3>2. QED
      BY <1>2, <3>1
  <2>2. QED
    BY <2>1
<1>9. Sorted(S) \in Injection(I, S)
  BY <1>7, <1>8 DEF Injection, IsInjective
<1>10. IsFiniteSet(I) /\ Cardinality(I) = Cardinality(S)
  BY <1>2, FS_Interval
<1>11. Sorted(S) \in Surjection(I, S)
  BY <1>1, <1>9, <1>10, FS_Injection
<1>12. Elems(Sorted(S)) = S
  BY <1>6, <1>11 DEF Elems, Surjection
<1>13. QED
  BY <1>4, <1>6, <1>8, <1>12 DEF Distinct

\* Cluster lists are sequences of clusters.
LEMMA SecondOfType ==
  ASSUME NEW v \in Volume, NEW f \in Fid
  PROVE  SecondOf(v, f) \in Seq(Cluster)
<1>1. v.table[f].sec \in Cluster
  BY VolumeFields DEF Table, Entry
<1>2. QED
  BY <1>1, VolumeFields DEF SecondOf, Secs

\* What dev_tbl_load_fir reads of an entry whose first n places are used.
LEMMA LoadFirShaped ==
  ASSUME NEW v \in Volume, NEW f \in File, NEW n, ShapedBy(v, f, n)
  PROVE  /\ n \in 1..Direct /\ n \in Nat
         /\ dev_tbl_load_fir(v, f) = [i \in 1..n |-> v.table[f].clrs[i]]
         /\ Len(dev_tbl_load_fir(v, f)) = n
         /\ Elems(dev_tbl_load_fir(v, f)) = {v.table[f].clrs[i] : i \in 1..Direct} \ {0}
         /\ dev_tbl_load_fir(v, f) \in Seq(Cluster)
<1> DEFINE t == v.table[f].clrs
           S == {i \in 1..Direct : \A j \in 1..i : t[j] # 0}
           s == [i \in 1..n |-> t[i]]
<1>1. n \in 1..Direct /\ \A i \in 1..Direct : t[i] # 0 <=> i <= n
  BY DEF ShapedBy
<1>2. Direct \in Nat /\ n \in Nat /\ f # 0
  BY <1>1, VolumeAssumption DEF File
<1>3. S = 1..n
  <2>1. ASSUME NEW i \in 1..n PROVE i \in S
    <3>1. i \in 1..Direct /\ \A j \in 1..i : j \in 1..Direct /\ j <= n
      BY <1>1, <1>2
    <3>2. QED
      BY <1>1, <3>1
  <2>2. ASSUME NEW i \in S PROVE i \in 1..n
    <3>1. t[i] # 0
      BY <1>2
    <3>2. QED
      BY <1>1, <1>2, <3>1
  <2>3. QED
    BY <2>1, <2>2
<1>4. Cardinality(S) = n
  <2>1. Cardinality(1..n) = n
    BY <1>2, FS_Interval
  <2> HIDE DEF S
  <2>2. QED
    BY <1>3, <2>1
<1>5. dev_tbl_load_fir(v, f) = s
  BY <1>2, <1>4 DEF dev_tbl_load_fir
<1>6. dev_tbl_load_fir(v, f) \in Seq(Cluster)
  BY RootFid, LoadFirType
<1>7. Len(s) = n
  <2>1. s \in Seq(Cluster)
    BY <1>5, <1>6
  <2>2. Len(s) \in Nat /\ DOMAIN s = 1..Len(s)
    BY <2>1, LenProperties
  <2>3. DOMAIN s = 1..n
    OBVIOUS
  <2>4. QED
    BY <1>2, <2>2, <2>3
<1>8. Elems(s) = {t[i] : i \in 1..Direct} \ {0}
  <2>1. Elems(s) = {t[i] : i \in 1..n}
    BY <1>7 DEF Elems
  <2>2. \A i \in 1..n : i \in 1..Direct /\ i <= n
    BY <1>1, <1>2
  <2>3. \A i \in 1..Direct : i <= n => i \in 1..n
    BY <1>2
  <2>4. QED
    BY <1>1, <2>1, <2>2, <2>3
<1>9. QED
  BY <1>1, <1>2, <1>5, <1>6, <1>7, <1>8

-----------------------------------------------------------------------------
(* A step that works for one file leaves the others as they are.            *)

\* Everything that is recorded of f is the same in w as in v.
Same(v, w, f) ==
  /\ w.table[f] = v.table[f]
  /\ \A p \in Block : f \in {v.ctab[p].fid, w.ctab[p].fid} => w.ctab[p] = v.ctab[p]
  /\ v.table[f].sec # 0 => w.secs[v.table[f].sec] = v.secs[v.table[f].sec]
  /\ w.clrs.fid = f => w.clrs = v.clrs
  /\ w.seqs[f] = v.seqs[f]

\* What a function that works for f keeps for all files.
Others(v, w, f) == Apart(w) /\ \A g \in File \ {f} : Same(v, w, g)

\* The clusters it claims become the second level of f.
Claims(v, w, f) ==
  /\ v.table[f].sec \in {0, w.table[f].sec}
  /\ \A p \in Block : w.ctab[p].fid = CLAIMED =>
       v.ctab[p].fid = CLAIMED \/ p[1] = w.table[f].sec

\* Functions are called one after the other.
LEMMA OthersTransitive ==
  ASSUME NEW u, NEW v, NEW w, NEW f, Others(u, v, f), Others(v, w, f)
  PROVE  Others(u, w, f)
<1> SUFFICES ASSUME NEW g \in File \ {f} PROVE Same(u, w, g)
  BY DEF Others
<1>1. Same(u, v, g) /\ Same(v, w, g)
  BY DEF Others
<1>2. w.table[g] = u.table[g]
      /\ (u.table[g].sec # 0 => w.secs[u.table[g].sec] = u.secs[u.table[g].sec])
      /\ (w.clrs.fid = g => w.clrs = u.clrs) /\ w.seqs[g] = u.seqs[g]
  BY <1>1 DEF Same
<1>3. \A p \in Block : g \in {u.ctab[p].fid, w.ctab[p].fid} => w.ctab[p] = u.ctab[p]
  BY <1>1 DEF Same
<1>4. QED
  BY <1>2, <1>3 DEF Same

\* Claims add up: two steps that only claim blocks claim them together.
LEMMA ClaimsTransitive ==
  ASSUME NEW u, NEW v, NEW w, NEW f, Good(v), Claims(u, v, f), Claims(v, w, f)
  PROVE  Claims(u, w, f)
<1>1. \A p \in Block : p[1] = 0 => v.ctab[p].fid # CLAIMED
  BY DEF Good, RootKept, Formatted, CLAIMED
<1>2. QED
  BY <1>1 DEF Claims

\* What is recorded the same has the same owner, list and numbers.
LEMMA SameRecords ==
  ASSUME NEW v, NEW w, NEW f \in File, Same(v, w, f)
  PROVE  /\ OwnedBy(w, f) = OwnedBy(v, f) /\ OwnedClusters(w, f) = OwnedClusters(v, f)
         /\ SecondOf(w, f) = SecondOf(v, f) /\ ClustersOf(w, f) = ClustersOf(v, f)
         /\ dev_tbl_load_fir(w, f) = dev_tbl_load_fir(v, f)
         /\ InfoOf(w, f, Cluster) = InfoOf(v, f, Cluster)
         /\ \A p \in OwnedBy(v, f) : w.ctab[p] = v.ctab[p]
<1>1. \A p \in Block : w.ctab[p].fid = f <=> v.ctab[p].fid = f
  BY DEF Same
<1>2. \A p \in Block : v.ctab[p].fid = f => w.ctab[p] = v.ctab[p]
  BY DEF Same
<1>3. OwnedBy(w, f) = OwnedBy(v, f)
  BY <1>1 DEF OwnedBy
<1>4. SecondOf(w, f) = SecondOf(v, f) /\ w.table[f] = v.table[f]
  BY DEF Same, SecondOf
<1>5. InfoOf(w, f, Cluster) = InfoOf(v, f, Cluster)
  <2> DEFINE Q == {q \in Block : q[1] \in Cluster /\ v.ctab[q].fid = f}
  <2>1. {q \in Block : q[1] \in Cluster /\ w.ctab[q].fid = f} = Q
    BY <1>1
  <2>2. \A p \in Q : w.ctab[p].num = v.ctab[p].num
    BY <1>2
  <2>3. QED
    BY <2>1, <2>2 DEF InfoOf
<1>6. QED
  BY <1>2, <1>3, <1>4, <1>5 DEF OwnedClusters, ClustersOf, dev_tbl_load_fir, OwnedBy

\* So it stays whole, or untouched.
LEMMA SameKeeps ==
  ASSUME NEW v, NEW w, NEW f \in File, Same(v, w, f)
  PROVE  (Whole(v, f) => Whole(w, f)) /\ (Virgin(v, f) => Virgin(w, f))
<1>1. /\ OwnedBy(w, f) = OwnedBy(v, f) /\ OwnedClusters(w, f) = OwnedClusters(v, f)
      /\ SecondOf(w, f) = SecondOf(v, f) /\ ClustersOf(w, f) = ClustersOf(v, f)
      /\ dev_tbl_load_fir(w, f) = dev_tbl_load_fir(v, f)
      /\ InfoOf(w, f, Cluster) = InfoOf(v, f, Cluster)
      /\ \A p \in OwnedBy(v, f) : w.ctab[p] = v.ctab[p]
  BY SameRecords
<1>2. ASSUME Whole(v, f) PROVE Whole(w, f)
  <2>1. Shaped(w, f)
    BY <1>2 DEF Whole, Shaped, ShapedBy, Same
  <2>2. Counted(w, f) /\ Reached(w, f)
    BY <1>1, <1>2 DEF Whole, Counted, Reached
  <2>3. Cached(w, f)
    BY <1>1, <1>2 DEF Whole, Cached, Same
  <2>4. Numbered(v, f) => Numbered(w, f)
    <3>1. {w.ctab[p].num : p \in OwnedBy(v, f)} = {v.ctab[p].num : p \in OwnedBy(v, f)}
      BY <1>1
    <3>2. w.seqs[f] = v.seqs[f]
      BY DEF Same
    <3>3. QED
      BY <1>1, <3>1, <3>2 DEF Numbered
  <2>5. Spare(w, f) => Spare(v, f)
    BY <1>1 DEF Spare
  <2>6. QED
    BY <1>2, <2>1, <2>2, <2>3, <2>4, <2>5 DEF Whole
<1>3. ASSUME Virgin(v, f) PROVE Virgin(w, f)
  BY <1>1, <1>3 DEF Virgin, Same
<1>4. QED
  BY <1>2, <1>3

\* A function that fills or empties caches only, the cluster cache for f.
CachesOnly(v, w, f) ==
  /\ Still(v, w) /\ w.secs = v.secs
  /\ w.clrs = v.clrs \/ w.clrs.fid = f
  /\ \A g \in Fid \ {f} : w.seqs[g] = v.seqs[g]

\* A call that fills caches only disturbs no other file and claims nothing.
LEMMA CachesOthers ==
  ASSUME NEW v, NEW w, NEW f, Apart(v), CachesOnly(v, w, f)
  PROVE  Others(v, w, f) /\ Claims(v, w, f)
<1>1. Apart(w)
  BY DEF Apart, CachesOnly, Still
<1>2. ASSUME NEW g \in File \ {f} PROVE Same(v, w, g)
  BY RootFid DEF CachesOnly, Still, Same
<1>3. Claims(v, w, f)
  BY DEF Claims, CachesOnly, Still
<1>4. QED
  BY <1>1, <1>2, <1>3 DEF Others

\* Calls that fill caches only, one after the other, are such a call.
LEMMA CachesTransitive ==
  ASSUME NEW u, NEW v, NEW w, NEW f, CachesOnly(u, v, f), CachesOnly(v, w, f)
  PROVE  CachesOnly(u, w, f)
BY DEF CachesOnly, Still

\* A process that is lost has changed nothing more.
LEMMA LostCaches ==
  ASSUME NEW v \in Volume, NEW how, NEW f
  PROVE  CachesOnly(v, Lost(v, how), f) /\ Lost(v, how).status = how
<1>1. Lost(v, how).table = v.table /\ Lost(v, how).ctab = v.ctab
      /\ Lost(v, how).bitmap = v.bitmap /\ Lost(v, how).secs = v.secs
      /\ Lost(v, how).clrs = v.clrs /\ Lost(v, how).seqs = v.seqs
      /\ Lost(v, how).status = how
  BY DEF Volume, Lost
<1>2. QED
  BY <1>1 DEF CachesOnly, Still

\* Counting a file's clusters fills the cluster cache at most.
LEMMA ClrsCntCaches ==
  ASSUME NEW v, Good(v), NEW f \in Fid
  PROVE  CachesOnly(v, dev_tbl_clrs_cnt(v, f), f)
BY ClrsCntGood DEF CachesOnly

\* Reading a file's block numbers fills its caches at most, or loses the process.
LEMMA GetSeqCaches ==
  ASSUME NEW v, Good(v), NEW f \in Fid
  PROVE  CachesOnly(v, dev_get_file_seq(v, f), f)
<1> DEFINE w == dev_tbl_clrs_cnt(v, f)
           l == InfoOf(w, f, Listed(w))
           u == [w EXCEPT !.seqs[f] = l]
<1>1. CachesOnly(v, v, f)
  BY DEF CachesOnly, Still
<1>2. CachesOnly(v, w, f) /\ w \in Volume
  BY ClrsCntCaches, ClrsCntGood DEF Good
<1>3. CachesOnly(w, Lost(w, "undefined"), f)
  BY <1>2, LostCaches
<1>4. dev_get_file_seq(v, f) \in {v, Lost(w, "undefined"), u}
  BY DEF dev_get_file_seq
<1> HIDE DEF w, l
<1>5. CachesOnly(w, u, f)
  <2>1. w.seqs \in Seqs
    BY <1>2, VolumeFields
  <2>2. u.table = w.table /\ u.ctab = w.ctab /\ u.bitmap = w.bitmap /\ u.secs = w.secs
        /\ u.clrs = w.clrs /\ u.seqs = [w.seqs EXCEPT ![f] = l]
    BY <1>2 DEF Volume
  <2>3. QED
    BY <2>1, <2>2 DEF CachesOnly, Still, Seqs
<1>6. QED
  BY <1>1, <1>2, <1>3, <1>4, <1>5, CachesTransitive

\* Dropping a file's numbers from the cache leaves everything but the cache.
LEMMA SeqRmCaches ==
  ASSUME NEW v, Good(v), NEW f \in Fid
  PROVE  /\ CachesOnly(v, cache_seq_rm(v, f), f) /\ cache_seq_rm(v, f).seqs[f] = {}
         /\ cache_seq_rm(v, f).clrs = v.clrs /\ cache_seq_rm(v, f).status = v.status
<1>1. v \in Volume /\ v.seqs \in Seqs
  BY VolumeFields DEF Good
<1> DEFINE w == cache_seq_rm(v, f)
<1>2. w.table = v.table /\ w.ctab = v.ctab /\ w.bitmap = v.bitmap /\ w.secs = v.secs
      /\ w.clrs = v.clrs /\ w.seqs = [v.seqs EXCEPT ![f] = {}] /\ w.status = v.status
  BY <1>1 DEF Volume, cache_seq_rm
<1> HIDE DEF w
<1>3. QED
  BY <1>1, <1>2 DEF CachesOnly, Still, Seqs, w

\* Writing the directory goes through the root's caches at most.
LEMMA WriteDirCaches ==
  ASSUME NEW v, Good(v), NEW n
  PROVE  CachesOnly(v, dev_write_dir(v, n), 0)
<1> DEFINE w    == dev_get_file_seq(v, 0)
           lack == DirBlocks(n) - Cardinality(w.seqs[0])
           end  == SearchOutcome(w.bitmap, w.ctab, lack)
           how  == IF end = "up" THEN "hung" ELSE end
<1>1. CachesOnly(v, w, 0) /\ w \in Volume
  BY RootFid, GetSeqGood, GetSeqCaches DEF Good
<1>2. dev_write_dir(v, n) \in {w, Lost(w, how)}
  BY DEF dev_write_dir, If
<1> HIDE DEF w, how
<1>3. CachesOnly(w, Lost(w, how), 0)
  BY <1>1, LostCaches
<1>4. QED
  BY <1>1, <1>2, <1>3, CachesTransitive

\* Writing a new file's header (dev_init_file) fills that file's caches at most.
LEMMA InitCaches ==
  ASSUME NEW v, Good(v), NEW f \in Fid
  PROVE  CachesOnly(v, dev_init_file(v, f), f)
<1> DEFINE w == IF v.clrs.fid = f THEN v ELSE dev_tbl_clrs_cnt(v, f)
<1>1. CachesOnly(v, w, f) /\ w \in Volume
  BY ClrsCntCaches, ClrsCntGood DEF CachesOnly, Still, Good
<1>2. dev_init_file(v, f) \in {w, Lost(w, "undefined")}
  BY DEF dev_init_file
<1> HIDE DEF w
<1>3. QED
  BY <1>1, <1>2, LostCaches, CachesTransitive

-----------------------------------------------------------------------------
(* dev_tbl_clrs_add.                                                        *)

\* The clusters that go into the table entry, both lists after the call, and the
\* table entry's places.
AddRoom(v, add) ==
  IF ClrsCount(v) < Direct THEN Lesser(Direct - ClrsCount(v), Len(add)) ELSE 0
AddFirst(v, add)  == v.clrs.s0 \o SubSeq(add, 1, AddRoom(v, add))
AddSecond(v, add) == v.clrs.s1 \o SubSeq(add, AddRoom(v, add) + 1, Len(add))
AddSlots(v, f, add) ==
  [i \in 1..Direct |-> IF i \in (Len(v.clrs.s0) + 1)..Len(AddFirst(v, add))
                       THEN AddFirst(v, add)[i] ELSE v.table[f].clrs[i]]

\* What dev_tbl_clrs_add puts into the entry and what into the second level: the
\* two parts are the list again, and each level is extended by its own part.
LEMMA AddParts ==
  ASSUME NEW v \in Volume, NEW add \in Seq(Cluster)
  PROVE  LET r == AddRoom(v, add)
             a == SubSeq(add, 1, r)
             b == SubSeq(add, r + 1, Len(add))
         IN /\ r \in 0..Len(add) /\ Len(add) \in Nat /\ r \in Nat
            /\ a \in Seq(Cluster) /\ b \in Seq(Cluster)
            /\ Len(a) = r /\ Len(b) = Len(add) - r
            /\ \A i \in 1..r : a[i] = add[i]
            /\ a \o b = add
            /\ v.clrs.s0 \in Seq(Cluster) /\ v.clrs.s1 \in Seq(Cluster)
            /\ Len(v.clrs.s0) \in Nat /\ Len(v.clrs.s1) \in Nat
            /\ AddFirst(v, add) \in Seq(Cluster) /\ AddSecond(v, add) \in Seq(Cluster)
            /\ Len(AddFirst(v, add)) = Len(v.clrs.s0) + r
            /\ Len(AddSecond(v, add)) = Len(v.clrs.s1) + (Len(add) - r)
            /\ AddSecond(v, add) = v.clrs.s1 <=> r = Len(add)
            /\ \A i \in 1..(Len(v.clrs.s0) + r) :
                 AddFirst(v, add)[i] = IF i <= Len(v.clrs.s0) THEN v.clrs.s0[i]
                                       ELSE add[i - Len(v.clrs.s0)]
<1> DEFINE r == AddRoom(v, add)
           a == SubSeq(add, 1, r)
           b == SubSeq(add, r + 1, Len(add))
<1>1. v.clrs.s0 \in Seq(Cluster) /\ v.clrs.s1 \in Seq(Cluster)
  BY VolumeFields DEF Clrs
<1>2. Len(v.clrs.s0) \in Nat /\ Len(v.clrs.s1) \in Nat /\ Len(add) \in Nat
  BY <1>1, LenProperties
<1>3. r \in 0..Len(add)
  <2>1. ClrsCount(v) \in Nat
    <3>1. \A m, n \in Nat : m + n \in Nat
      OBVIOUS
    <3>2. QED
      BY <1>2, <3>1, Zenon DEF ClrsCount
  <2>2. \A n, l \in Nat : (IF n < Direct THEN Lesser(Direct - n, l) ELSE 0) \in 0..l
    BY VolumeAssumption DEF Lesser
  <2>3. QED
    BY <1>2, <2>1, <2>2 DEF AddRoom
<1> HIDE DEF r
<1>4. \A i \in 1..Len(add) : add[i] \in Cluster
  BY ElementOfSeq
<1>5. r \in Int /\ r + 1 \in Int /\ r \in Nat
      /\ (\A i \in 1..r : i \in 1..Len(add)) /\ (\A i \in (r + 1)..Len(add) : i \in 1..Len(add))
  BY <1>2, <1>3
<1>6. a \in Seq(Cluster) /\ Len(a) = r /\ \A i \in 1..r : a[i] = add[i]
  <2>1. \A i \in 1..r : add[i] \in Cluster
    BY <1>4, <1>5
  <2>2. /\ a \in Seq(Cluster)
        /\ Len(a) = IF 1 <= r THEN r - 1 + 1 ELSE 0
        /\ \A i \in 1..(r - 1 + 1) : a[i] = add[1 + i - 1]
    BY <1>5, <2>1, SubSeqProperties
  <2>3. Len(a) = r
    BY <1>5, <2>2
  <2>4. \A i \in 1..r : i \in 1..(r - 1 + 1) /\ 1 + i - 1 = i
    BY <1>5
  <2>5. QED
    BY <2>2, <2>3, <2>4
<1>7. b \in Seq(Cluster) /\ Len(b) = Len(add) - r
  <2>1. \A i \in (r + 1)..Len(add) : add[i] \in Cluster
    BY <1>4, <1>5
  <2>2. /\ b \in Seq(Cluster)
        /\ Len(b) = IF r + 1 <= Len(add) THEN Len(add) - (r + 1) + 1 ELSE 0
    BY <1>2, <1>5, <2>1, SubSeqProperties
  <2>3. QED
    BY <1>2, <1>3, <2>2
<1>8. a \o b = add
  <2>1. 1 \in 1..(Len(add) + 1) /\ r \in (1 - 1)..Len(add) /\ Len(add) \in r..Len(add)
    BY <1>2, <1>3
  <2>2. a \o b = SubSeq(add, 1, Len(add))
    BY <2>1, ConcatAdjacentSubSeq
  <2>3. QED
    BY <2>2, SubSeqFull
<1>9. /\ AddFirst(v, add) = v.clrs.s0 \o a /\ AddSecond(v, add) = v.clrs.s1 \o b
  BY DEF AddFirst, AddSecond, r
<1>10. /\ AddFirst(v, add) \in Seq(Cluster) /\ AddSecond(v, add) \in Seq(Cluster)
       /\ Len(AddFirst(v, add)) = Len(v.clrs.s0) + r
       /\ Len(AddSecond(v, add)) = Len(v.clrs.s1) + (Len(add) - r)
       /\ \A i \in 1..(Len(v.clrs.s0) + r) :
            AddFirst(v, add)[i] = IF i <= Len(v.clrs.s0) THEN v.clrs.s0[i]
                                  ELSE a[i - Len(v.clrs.s0)]
  BY <1>1, <1>6, <1>7, <1>9, ConcatProperties
<1> HIDE DEF a, b
<1>11. AddSecond(v, add) = v.clrs.s1 <=> r = Len(add)
  <2>1. AddSecond(v, add) = v.clrs.s1 <=> b = <<>>
    BY <1>1, <1>7, <1>9, ConcatEqualIffEmpty
  <2>2. b = <<>> <=> Len(b) = 0
    BY <1>7, EmptySeq
  <2>3. QED
    BY <1>2, <1>3, <1>7, <2>1, <2>2
<1>12. \A i \in 1..(Len(v.clrs.s0) + r) :
         AddFirst(v, add)[i] = IF i <= Len(v.clrs.s0) THEN v.clrs.s0[i]
                               ELSE add[i - Len(v.clrs.s0)]
  <2>1. ASSUME NEW i \in 1..(Len(v.clrs.s0) + r), ~(i <= Len(v.clrs.s0))
        PROVE  i - Len(v.clrs.s0) \in 1..r
    BY <1>2, <1>5, <2>1
  <2>2. QED
    BY <1>6, <1>10, <2>1
<1>13. QED
  BY <1>1, <1>2, <1>3, <1>5, <1>6, <1>7, <1>8, <1>10, <1>11, <1>12 DEF r, a, b

\* How the call ends: the table entry had room; no cluster was left for the second
\* level; the second-level list grew; it was begun in a claimed cluster.
AddDirect(v, w, f, add) ==
  /\ AddSecond(v, add) = v.clrs.s1 /\ w.clrs.s1 = v.clrs.s1
  /\ w.ctab = v.ctab /\ w.secs = v.secs /\ w.status = v.status
  /\ w.table[f].sec = v.table[f].sec

AddFails(v, w, f, add) ==
  /\ w.ctab = v.ctab /\ w.secs = v.secs /\ w.status = "exhausted"
  /\ w.table[f].sec = v.table[f].sec

AddGrows(v, w, f, add) ==
  /\ AddSecond(v, add) # v.clrs.s1 /\ v.clrs.s1 # <<>> /\ w.clrs.s1 = AddSecond(v, add)
  /\ w.ctab = v.ctab /\ w.secs = [v.secs EXCEPT ![v.table[f].sec] = AddSecond(v, add)]
  /\ w.status = IF v.table[f].sec = 0 THEN "undefined" ELSE v.status
  /\ w.table[f].sec = v.table[f].sec

AddBegins(v, w, f, add) ==
  /\ AddSecond(v, add) # v.clrs.s1 /\ v.clrs.s1 = <<>> /\ w.clrs.s1 = AddSecond(v, add)
  /\ w.table[f].sec \in WholeClusters(v.bitmap, v.ctab)
  /\ w.ctab = [p \in Block |-> IF p[1] = w.table[f].sec
                               THEN [fid |-> CLAIMED, num |-> p[2] - 1] ELSE v.ctab[p]]
  /\ w.secs = [v.secs EXCEPT ![w.table[f].sec] = AddSecond(v, add)]
  /\ w.status = v.status

\* The four ways dev_tbl_clrs_add ends, and what it leaves alone in all of them.
LEMMA ClrsAddFields ==
  ASSUME NEW v, Good(v), NEW f \in File, v.clrs.fid = f, NEW add \in Seq(Cluster)
  PROVE  LET w == dev_tbl_clrs_add(v, f, add)
         IN /\ w.clrs.fid = f /\ w.clrs.s0 = AddFirst(v, add) /\ w.seqs = v.seqs
            /\ \A g \in Fid \ {f} : w.table[g] = v.table[g]
            /\ w.table[f].lnk = v.table[f].lnk /\ w.table[f].clrs = AddSlots(v, f, add)
            /\ \/ AddDirect(v, w, f, add) \/ AddFails(v, w, f, add)
               \/ AddGrows(v, w, f, add) \/ AddBegins(v, w, f, add)
<1> DEFINE s0     == AddFirst(v, add)
           s1     == AddSecond(v, add)
           slots  == AddSlots(v, f, add)
           direct == [v EXCEPT !.table[f].clrs = slots, !.clrs.s0 = s0]
           whole  == WholeClusters(v.bitmap, v.ctab)
           indir  == IF v.clrs.s1 # <<>> THEN direct
                     ELSE [dev_clust_claim(direct, Least(whole)) EXCEPT
                             !.table[f].sec = Least(whole)]
           sec    == indir.table[f].sec
           last   == [indir EXCEPT !.clrs.s1 = s1, !.secs[sec] = s1,
                                   !.status = IF sec = 0 THEN "undefined" ELSE @]
           w      == dev_tbl_clrs_add(v, f, add)
           Parts  == {"table", "ctab", "bitmap", "secs", "clrs", "seqs", "status"}
<1>1. v \in Volume /\ f \in Fid
  BY RootFid DEF Good
<1>2. w = IF s1 = v.clrs.s1 THEN direct
          ELSE IF v.clrs.s1 = <<>> /\ whole = {} THEN Lost(direct, "exhausted") ELSE last
  BY DEF dev_tbl_clrs_add, AddFirst, AddSecond, AddSlots, AddRoom
<1> HIDE DEF s0, s1, slots, w
<1>3. v.table \in [Fid -> Entry] /\ v.clrs \in Clrs /\ v.secs \in Secs
  BY <1>1, VolumeFields DEF Table
<1>4. direct.table = [v.table EXCEPT ![f].clrs = slots]
      /\ direct.clrs = [v.clrs EXCEPT !.s0 = s0]
      /\ direct.ctab = v.ctab /\ direct.bitmap = v.bitmap /\ direct.secs = v.secs
      /\ direct.seqs = v.seqs /\ direct.status = v.status /\ DOMAIN direct = Parts
  BY <1>1 DEF Volume
<1>5. /\ direct.clrs = [fid |-> f, s0 |-> s0, s1 |-> v.clrs.s1]
      /\ \A g \in Fid \ {f} : direct.table[g] = v.table[g]
      /\ direct.table[f] = [lnk |-> v.table[f].lnk, clrs |-> slots, sec |-> v.table[f].sec]
      /\ DOMAIN direct.table = Fid
  BY <1>1, <1>3, <1>4 DEF Clrs, Entry
<1> HIDE DEF direct
<1>6. CASE s1 = v.clrs.s1
  <2>1. w = direct
    BY <1>2, <1>6
  <2>2. w.table = direct.table /\ w.ctab = direct.ctab /\ w.secs = direct.secs
        /\ w.clrs = direct.clrs /\ w.seqs = direct.seqs /\ w.status = direct.status
    BY <2>1
  <2>3. AddDirect(v, w, f, add)
    BY <1>4, <1>5, <1>6, <2>2 DEF AddDirect, s1
  <2>4. QED
    BY <1>4, <1>5, <2>2, <2>3 DEF w, s0, slots
<1>7. CASE s1 # v.clrs.s1 /\ v.clrs.s1 = <<>> /\ whole = {}
  <2>1. w = [direct EXCEPT !.status = "exhausted"]
    BY <1>2, <1>7 DEF Lost
  <2>2. w.table = direct.table /\ w.ctab = direct.ctab /\ w.secs = direct.secs
        /\ w.clrs = direct.clrs /\ w.seqs = direct.seqs /\ w.status = "exhausted"
    BY <1>4, <2>1
  <2>3. AddFails(v, w, f, add)
    BY <1>4, <1>5, <2>2 DEF AddFails
  <2>4. QED
    BY <1>4, <1>5, <2>2, <2>3 DEF w, s0, slots
<1>8. CASE s1 # v.clrs.s1 /\ v.clrs.s1 # <<>>
  <2>1. w = [direct EXCEPT !.clrs.s1 = s1, !.secs[v.table[f].sec] = s1,
                           !.status = IF v.table[f].sec = 0 THEN "undefined" ELSE @]
    <3>1. indir = direct
      BY <1>8
    <3> HIDE DEF indir
    <3>2. sec = v.table[f].sec
      BY <1>5, <3>1
    <3> HIDE DEF sec
    <3>3. w = last
      BY <1>2, <1>8
    <3>4. QED
      BY <3>1, <3>2, <3>3
  <2>2. w.table = direct.table /\ w.ctab = direct.ctab
        /\ w.secs = [direct.secs EXCEPT ![v.table[f].sec] = s1]
        /\ w.clrs = [direct.clrs EXCEPT !.s1 = s1] /\ w.seqs = direct.seqs
        /\ w.status = IF v.table[f].sec = 0 THEN "undefined" ELSE direct.status
    BY <1>4, <2>1
  <2>3. w.clrs = [fid |-> f, s0 |-> s0, s1 |-> s1]
    BY <1>5, <2>2
  <2>4. AddGrows(v, w, f, add)
    BY <1>4, <1>5, <1>8, <2>2, <2>3 DEF AddGrows, s1
  <2>5. QED
    BY <1>4, <1>5, <2>2, <2>3, <2>4 DEF w, s0, slots
<1>9. CASE s1 # v.clrs.s1 /\ v.clrs.s1 = <<>> /\ whole # {}
  <2> DEFINE c == Least(whole)
             d == dev_clust_claim(direct, c)
             ct == [p \in Block |-> IF p[1] = c THEN [fid |-> CLAIMED, num |-> p[2] - 1]
                                                ELSE v.ctab[p]]
  <2>1. c \in whole
    <3>1. whole \subseteq Cluster
      BY FreeIsCluster DEF WholeClusters
    <3>2. Cluster \subseteq Int
      BY SizeAssumption, SMTT(30) DEF Cluster
    <3>3. IsFiniteSet(whole)
      BY <3>1, FiniteVolume, FS_Subset
    <3>4. QED
      BY <1>9, <3>1, <3>2, <3>3, LeastExists
  <2>2. c \in Cluster /\ c # 0
    BY <2>1, FreeIsCluster DEF WholeClusters
  <2> HIDE DEF c
  <2>3. d = [direct EXCEPT !.ctab = ct, !.bitmap = dev_upd_bitmap(direct.bitmap, ct, {c})]
    BY <1>4 DEF dev_clust_claim
  <2> HIDE DEF ct
  <2>4. /\ d.table = direct.table /\ d.ctab = ct /\ d.clrs = direct.clrs /\ d.secs = direct.secs
        /\ d.seqs = direct.seqs /\ d.status = direct.status /\ DOMAIN d = Parts
    BY <1>4, <2>3
  <2> HIDE DEF d
  <2>5. indir = [d EXCEPT !.table[f].sec = c]
    BY <1>9 DEF c, d
  <2>6. /\ indir.table = [d.table EXCEPT ![f].sec = c]
        /\ indir.ctab = d.ctab /\ indir.clrs = d.clrs /\ indir.secs = d.secs
        /\ indir.seqs = d.seqs /\ indir.status = d.status /\ DOMAIN indir = Parts
    BY <2>4, <2>5
  <2> HIDE DEF indir
  <2>7. /\ \A g \in Fid \ {f} : indir.table[g] = v.table[g]
        /\ indir.table[f] = [lnk |-> v.table[f].lnk, clrs |-> slots, sec |-> c]
    BY <1>1, <1>5, <2>4, <2>6
  <2>8. w = last /\ sec = c
    BY <1>2, <1>9, <2>7
  <2>9. w = [indir EXCEPT !.clrs.s1 = s1, !.secs[c] = s1,
                          !.status = IF c = 0 THEN "undefined" ELSE @]
    BY <2>8
  <2>10. w.table = indir.table /\ w.ctab = indir.ctab
         /\ w.secs = [indir.secs EXCEPT ![c] = s1]
         /\ w.clrs = [indir.clrs EXCEPT !.s1 = s1] /\ w.seqs = indir.seqs
         /\ w.status = indir.status
    BY <2>2, <2>6, <2>9
  <2>11. w.clrs = [fid |-> f, s0 |-> s0, s1 |-> s1]
    BY <1>5, <2>4, <2>6, <2>10
  <2>12. AddBegins(v, w, f, add)
    <3>1. w.table[f].sec = c
      BY <2>7, <2>10
    <3>2. c \in WholeClusters(v.bitmap, v.ctab)
      BY <2>1
    <3>3. w.ctab = ct
      BY <2>4, <2>6, <2>10
    <3>4. w.secs = [v.secs EXCEPT ![c] = s1] /\ w.status = v.status
      BY <1>4, <2>4, <2>6, <2>10
    <3>5. s1 # v.clrs.s1 /\ v.clrs.s1 = <<>> /\ w.clrs.s1 = s1
      BY <1>9, <2>11
    <3>6. s1 = AddSecond(v, add) /\ ct = [p \in Block |-> IF p[1] = c
             THEN [fid |-> CLAIMED, num |-> p[2] - 1] ELSE v.ctab[p]]
      BY DEF s1, ct
    <3> HIDE DEF whole
    <3>7. QED
      BY <3>1, <3>2, <3>3, <3>4, <3>5, <3>6 DEF AddBegins
  <2>13. /\ w.clrs.fid = f /\ w.clrs.s0 = s0 /\ w.seqs = v.seqs
         /\ \A g \in Fid \ {f} : w.table[g] = v.table[g]
         /\ w.table[f].lnk = v.table[f].lnk /\ w.table[f].clrs = slots
    <3>1. w.clrs.fid = f /\ w.clrs.s0 = s0
      BY <2>11
    <3>2. w.seqs = v.seqs
      BY <1>4, <2>4, <2>6, <2>10, Zenon
    <3>3. w.table = indir.table
      BY <2>10
    <3>4. QED
      BY <2>7, <3>1, <3>2, <3>3
  <2>14. QED
    BY <2>12, <2>13 DEF w, s0, slots
<1>10. QED
  BY <1>6, <1>7, <1>8, <1>9

\* A cluster about to be claimed is nobody's second level: those are claimed.
LEMMA WholeNotSecond ==
  ASSUME NEW v, Apart(v), NEW c \in WholeClusters(v.bitmap, v.ctab)
  PROVE  /\ c \in Cluster /\ c # 0 /\ \A g \in File : v.table[g].sec # c
         /\ \A p \in Block : p[1] = c => v.ctab[p].fid = 0
<1>1. c \in Cluster /\ c # 0 /\ \A b \in Slot : v.ctab[<<c, b>>].fid = 0
  BY FreeIsCluster DEF WholeClusters
<1>2. 1 \in Slot
  BY SizeAssumption, SMTT(30) DEF Slot
<1>3. ASSUME NEW g \in File, v.table[g].sec = c PROVE FALSE
  <2>1. v.ctab[<<c, 1>>].fid = CLAIMED
    BY <1>1, <1>2, <1>3 DEF Apart
  <2>2. QED
    BY <1>1, <1>2, <2>1 DEF CLAIMED
<1>4. \A p \in Block : p[1] = c => v.ctab[p].fid = 0
  BY <1>1 DEF Block
<1>5. QED
  BY <1>1, <1>3, <1>4

\* Clusters added to one file's list leave every other file as it was.
LEMMA ClrsAddOthers ==
  ASSUME NEW v, Good(v), Apart(v), NEW f \in File, v.clrs.fid = f, NEW add \in Seq(Cluster)
  PROVE  Others(v, dev_tbl_clrs_add(v, f, add), f)
<1> DEFINE w == dev_tbl_clrs_add(v, f, add)
<1>1. /\ w.clrs.fid = f /\ w.clrs.s0 = AddFirst(v, add) /\ w.seqs = v.seqs
      /\ \A g \in Fid \ {f} : w.table[g] = v.table[g]
      /\ \/ AddDirect(v, w, f, add) \/ AddFails(v, w, f, add)
         \/ AddGrows(v, w, f, add) \/ AddBegins(v, w, f, add)
  BY ClrsAddFields
<1>2. v.secs \in [Cluster -> Seq(Cluster)] /\ \A g \in File : v.table[g].sec \in Cluster
  BY RootFid, VolumeFields DEF Good, Secs, Table, Entry
<1>3. \A g \in File : g # 0 /\ g # CLAIMED /\ g \in Fid
  BY RootFid DEF File, Fid, CLAIMED
<1> HIDE DEF w
<1>4. CASE AddDirect(v, w, f, add) \/ AddFails(v, w, f, add)
  <2>1. w.ctab = v.ctab /\ w.secs = v.secs /\ w.table[f].sec = v.table[f].sec
    BY <1>4 DEF AddDirect, AddFails
  <2>2. ASSUME NEW g \in File \ {f} PROVE Same(v, w, g)
    BY <1>1, <1>3, <2>1 DEF Same
  <2>3. \A g \in File : w.table[g].sec = v.table[g].sec
    BY <1>1, <1>3, <2>1
  <2>4. Apart(w)
    BY <2>1, <2>3 DEF Apart
  <2>5. QED
    BY <2>2, <2>4 DEF Others, w
<1>5. CASE AddGrows(v, w, f, add)
  <2>1. w.ctab = v.ctab /\ w.table[f].sec = v.table[f].sec
        /\ w.secs = [v.secs EXCEPT ![v.table[f].sec] = AddSecond(v, add)]
    BY <1>5 DEF AddGrows
  <2>2. ASSUME NEW g \in File \ {f} PROVE Same(v, w, g)
    <3>1. v.table[g].sec # 0 => v.table[g].sec # v.table[f].sec
      BY DEF Apart
    <3>2. v.table[g].sec # 0 => w.secs[v.table[g].sec] = v.secs[v.table[g].sec]
      BY <1>2, <2>1, <3>1
    <3>3. QED
      BY <1>1, <1>3, <2>1, <3>2 DEF Same
  <2>3. \A g \in File : w.table[g].sec = v.table[g].sec
    BY <1>1, <1>3, <2>1
  <2>4. Apart(w)
    BY <2>1, <2>3 DEF Apart
  <2>5. QED
    BY <2>2, <2>4 DEF Others, w
<1>6. CASE AddBegins(v, w, f, add)
  <2> DEFINE c == w.table[f].sec
  <2>1. /\ c \in WholeClusters(v.bitmap, v.ctab)
        /\ w.ctab = [p \in Block |-> IF p[1] = c THEN [fid |-> CLAIMED, num |-> p[2] - 1]
                                                 ELSE v.ctab[p]]
        /\ w.secs = [v.secs EXCEPT ![c] = AddSecond(v, add)]
    BY <1>6 DEF AddBegins
  <2>2. /\ c \in Cluster /\ c # 0 /\ \A g \in File : v.table[g].sec # c
        /\ \A p \in Block : p[1] = c => v.ctab[p].fid = 0
    BY <2>1, WholeNotSecond
  <2> HIDE DEF c
  <2>3. \A p \in Block : IF p[1] = c THEN w.ctab[p].fid = CLAIMED ELSE w.ctab[p] = v.ctab[p]
    BY <2>1
  <2>4. ASSUME NEW g \in File \ {f} PROVE Same(v, w, g)
    <3>1. w.secs[v.table[g].sec] = v.secs[v.table[g].sec]
      BY <1>2, <2>1, <2>2
    <3>2. \A p \in Block : g \in {v.ctab[p].fid, w.ctab[p].fid} => w.ctab[p] = v.ctab[p]
      BY <1>3, <2>2, <2>3
    <3>3. QED
      BY <1>1, <1>3, <3>1, <3>2 DEF Same
  <2>5. \A g \in File \ {f} : w.table[g].sec = v.table[g].sec
    BY <1>1, <1>3
  <2>6. \A b \in Slot : w.ctab[<<c, b>>].fid = CLAIMED
    BY <2>2, <2>3 DEF Block
  <2>7. ASSUME NEW g \in File \ {f}, v.table[g].sec # 0
        PROVE  \A b \in Slot : w.ctab[<<v.table[g].sec, b>>].fid = CLAIMED
    <3>1. \A b \in Slot : <<v.table[g].sec, b>> \in Block
      BY <1>2 DEF Block
    <3>2. \A b \in Slot : v.ctab[<<v.table[g].sec, b>>].fid = CLAIMED
      BY <2>7 DEF Apart
    <3>3. QED
      BY <2>2, <2>3, <3>1, <3>2
  <2>8. Apart(w)
    <3>1. SUFFICES ASSUME NEW g \in File, w.table[g].sec # 0
                   PROVE  /\ \A b \in Slot : w.ctab[<<w.table[g].sec, b>>].fid = CLAIMED
                          /\ \A h \in File \ {g} : w.table[h].sec # w.table[g].sec
      BY DEF Apart
    <3>2. CASE g = f
      BY <2>2, <2>5, <2>6, <3>2 DEF c
    <3>3. CASE g # f
      <4>1. w.table[g].sec = v.table[g].sec
        BY <2>5, <3>3
      <4>2. \A h \in File \ {g} : w.table[h].sec # w.table[g].sec
        BY <2>2, <2>5, <3>1, <3>3, <4>1 DEF Apart, c
      <4>3. QED
        BY <2>7, <3>1, <3>3, <4>1, <4>2
    <3>4. QED
      BY <3>2, <3>3
  <2>9. QED
    BY <2>4, <2>8 DEF Others, w
<1>7. QED
  BY <1>1, <1>4, <1>5, <1>6 DEF w

\* The cluster cache that holds f's list yields all of it.
LEMMA ListedAll ==
  ASSUME NEW v \in Volume, NEW f \in File, Shaped(v, f), v.clrs.fid = f, Cached(v, f)
  PROVE  /\ Listed(v) = ClustersOf(v, f)
         /\ ClrsCount(v) = Len(dev_tbl_load_fir(v, f)) + Len(SecondOf(v, f))
<1>1. PICK n \in 1..Direct : ShapedBy(v, f, n)
  BY DEF Shaped
<1>2. v.clrs.s0 = dev_tbl_load_fir(v, f) /\ v.clrs.s1 = SecondOf(v, f)
  BY DEF Cached
<1>3. Len(v.clrs.s0) = n /\ n \in Nat
      /\ Elems(v.clrs.s0) = {v.table[f].clrs[i] : i \in 1..Direct} \ {0}
  BY <1>1, <1>2, LoadFirShaped
<1>4. v.clrs.s1 \in Seq(Cluster) /\ Len(v.clrs.s1) \in Nat
  BY <1>2, RootFid, SecondOfType, LenProperties
<1>5. v.clrs.s1 # <<>> => n = Direct
  BY <1>1, <1>2 DEF ShapedBy, SecondOf
<1>6. ClrsCount(v) = n + Len(v.clrs.s1)
  BY <1>3 DEF ClrsCount
<1>7. Lesser(Len(v.clrs.s1), ClrsCount(v) - Direct) = Len(v.clrs.s1) \/ v.clrs.s1 = <<>>
  BY <1>3, <1>4, <1>5, <1>6, VolumeAssumption DEF Lesser
<1>8. {v.clrs.s1[i] : i \in 1..Lesser(Len(v.clrs.s1), ClrsCount(v) - Direct)} = Elems(v.clrs.s1)
  <2>1. CASE v.clrs.s1 = <<>>
    <3>1. Len(v.clrs.s1) = 0 /\ ClrsCount(v) \in Int
      BY <1>3, <1>6, <2>1
    <3>2. 1..Lesser(Len(v.clrs.s1), ClrsCount(v) - Direct) = {} /\ 1..Len(v.clrs.s1) = {}
      BY <3>1, VolumeAssumption DEF Lesser
    <3>3. QED
      BY <3>2 DEF Elems
  <2>2. CASE v.clrs.s1 # <<>>
    BY <1>7, <2>2 DEF Elems
  <2>3. QED
    BY <2>1, <2>2
<1>9. Listed(v) = ClustersOf(v, f)
  BY <1>2, <1>3, <1>8 DEF Listed, ClustersOf
<1>10. QED
  BY <1>2, <1>9 DEF ClrsCount

\* dev_tbl_clrs_add appends the clusters to the list that is recorded, and keeps
\* the cache like the table.
LEMMA ClrsAddWhole ==
  ASSUME NEW v, Good(v), NEW f \in File, v.status = "up",
         Shaped(v, f), v.clrs.fid = f, Cached(v, f),
         NEW add \in Seq(Cluster), \A i \in 1..Len(add) : add[i] # 0
  PROVE  LET w == dev_tbl_clrs_add(v, f, add)
         IN /\ w.status \in {"up", "exhausted"} /\ Claims(v, w, f)
            /\ w.status = "up" =>
                 /\ Shaped(w, f) /\ Cached(w, f)
                 /\ ClustersOf(w, f) = ClustersOf(v, f) \cup Elems(add)
                 /\ Len(dev_tbl_load_fir(w, f)) + Len(SecondOf(w, f))
                      = Len(dev_tbl_load_fir(v, f)) + Len(SecondOf(v, f)) + Len(add)
<1> DEFINE w  == dev_tbl_clrs_add(v, f, add)
           r  == AddRoom(v, add)
           a  == SubSeq(add, 1, r)
           b  == SubSeq(add, r + 1, Len(add))
           s0 == AddFirst(v, add)
           s1 == AddSecond(v, add)
<1>1. v \in Volume /\ f \in Fid /\ f # 0
  BY RootFid DEF Good, File
<1>2. PICK n \in 1..Direct : ShapedBy(v, f, n)
  BY DEF Shaped
<1>3. v.clrs.s0 = dev_tbl_load_fir(v, f) /\ v.clrs.s1 = SecondOf(v, f)
  BY DEF Cached
<1>4. /\ n \in Nat /\ Len(v.clrs.s0) = n
      /\ v.clrs.s0 = [i \in 1..n |-> v.table[f].clrs[i]]
      /\ Elems(v.clrs.s0) = {v.table[f].clrs[i] : i \in 1..Direct} \ {0}
  BY <1>1, <1>2, <1>3, LoadFirShaped
<1>5. /\ r \in 0..Len(add) /\ Len(add) \in Nat /\ r \in Nat
      /\ a \in Seq(Cluster) /\ b \in Seq(Cluster) /\ a \o b = add
      /\ v.clrs.s0 \in Seq(Cluster) /\ v.clrs.s1 \in Seq(Cluster) /\ Len(v.clrs.s1) \in Nat
      /\ s0 \in Seq(Cluster) /\ s1 \in Seq(Cluster)
      /\ Len(s0) = n + r
      /\ Len(s1) = Len(v.clrs.s1) + (Len(add) - r)
      /\ s1 = v.clrs.s1 <=> r = Len(add)
      /\ \A i \in 1..(n + r) : s0[i] = IF i <= n THEN v.clrs.s0[i] ELSE add[i - n]
  BY <1>1, <1>4, AddParts
<1>6. s0 = v.clrs.s0 \o a /\ s1 = v.clrs.s1 \o b
  BY DEF AddFirst, AddSecond
<1>7. /\ w.clrs.fid = f /\ w.clrs.s0 = s0 /\ w.table[f].clrs = AddSlots(v, f, add)
      /\ \/ AddDirect(v, w, f, add) \/ AddFails(v, w, f, add)
         \/ AddGrows(v, w, f, add) \/ AddBegins(v, w, f, add)
  BY ClrsAddFields
<1>8. Direct \in Nat /\ ClrsCount(v) = n + Len(v.clrs.s1)
  BY <1>4, VolumeAssumption DEF ClrsCount
<1>9. v.clrs.s1 # <<>> <=> v.table[f].sec # 0
  BY <1>2, <1>3 DEF ShapedBy, SecondOf
<1>10. v.table[f].sec # 0 => n = Direct
  BY <1>2 DEF ShapedBy
<1>11. n + r \in 1..Direct /\ (r # Len(add) => n + r = Direct)
       /\ (v.table[f].sec # 0 => n + r = Direct)
  <2>1. v.clrs.s1 = <<>> => Len(v.clrs.s1) = 0
    OBVIOUS
  <2>2. v.clrs.s1 # <<>> => Len(v.clrs.s1) # 0
    BY <1>5, EmptySeq
  <2>3. r = IF n + Len(v.clrs.s1) < Direct
            THEN Lesser(Direct - (n + Len(v.clrs.s1)), Len(add)) ELSE 0
    BY <1>8 DEF AddRoom
  <2> HIDE DEF r
  <2>4. CASE v.clrs.s1 # <<>>
    <3>1. n = Direct /\ Len(v.clrs.s1) \in Nat \ {0}
      BY <1>5, <1>9, <1>10, <2>2, <2>4
    <3>2. ~(n + Len(v.clrs.s1) < Direct)
      BY <1>8, <3>1
    <3>3. r = 0
      BY <2>3, <3>2
    <3>4. QED
      BY <1>2, <1>8, <3>1, <3>3
  <2>5. CASE v.clrs.s1 = <<>>
    <3>1. r = IF n < Direct THEN Lesser(Direct - n, Len(add)) ELSE 0
      BY <1>4, <1>8, <2>1, <2>3, <2>5
    <3>2. \A x \in 1..Direct, l \in Nat :
            LET y == IF x < Direct THEN Lesser(Direct - x, l) ELSE 0
            IN x + y \in 1..Direct /\ (y # l => x + y = Direct)
      BY <1>8 DEF Lesser
    <3>3. n + r \in 1..Direct /\ (r # Len(add) => n + r = Direct)
      BY <1>2, <1>5, <3>1, <3>2
    <3>4. QED
      BY <1>9, <2>5, <3>3
  <2>6. QED
    BY <2>4, <2>5
<1>12. w \in Volume
  BY ClrsAddGood DEF Good
<1> HIDE DEF w, r, a, b, s0, s1
<1>13. \A i \in 1..Direct :
         w.table[f].clrs[i] = IF i \in (n + 1)..(n + r) THEN s0[i] ELSE v.table[f].clrs[i]
  BY <1>4, <1>5, <1>7 DEF AddSlots, s0
<1>14. \A i \in 1..Direct : w.table[f].clrs[i] # 0 <=> i <= n + r
  <2> SUFFICES ASSUME NEW i \in 1..Direct
               PROVE  w.table[f].clrs[i] # 0 <=> i <= n + r
    OBVIOUS
  <2>1. v.table[f].clrs[i] # 0 <=> i <= n
    BY <1>2 DEF ShapedBy
  <2>2. CASE i \in (n + 1)..(n + r)
    <3>1. i \in 1..(n + r) /\ ~(i <= n) /\ i - n \in 1..Len(add)
      BY <1>4, <1>5, <2>2
    <3>2. w.table[f].clrs[i] = add[i - n]
      BY <1>5, <1>13, <2>2, <3>1
    <3>3. QED
      BY <3>1, <3>2
  <2>3. CASE i \notin (n + 1)..(n + r)
    <3>1. w.table[f].clrs[i] = v.table[f].clrs[i]
      BY <1>13, <2>3
    <3>2. i <= n <=> i <= n + r
      BY <1>4, <1>5, <2>3
    <3>3. QED
      BY <2>1, <3>1, <3>2
  <2>4. QED
    BY <2>2, <2>3

\* Whatever the second level is, the first one is read back as it was cached.
<1>15. ASSUME ShapedBy(w, f, n + r)
       PROVE  dev_tbl_load_fir(w, f) = s0
              /\ {w.table[f].clrs[i] : i \in 1..Direct} \ {0} = Elems(s0)
  <2>1. /\ dev_tbl_load_fir(w, f) = [i \in 1..(n + r) |-> w.table[f].clrs[i]]
        /\ Len(dev_tbl_load_fir(w, f)) = n + r
        /\ dev_tbl_load_fir(w, f) \in Seq(Cluster)
        /\ Elems(dev_tbl_load_fir(w, f)) = {w.table[f].clrs[i] : i \in 1..Direct} \ {0}
    BY <1>12, <1>15, LoadFirShaped
  <2>2. ASSUME NEW i \in 1..(n + r) PROVE w.table[f].clrs[i] = s0[i]
    <3>1. i \in 1..Direct
      BY <1>8, <1>11
    <3>2. CASE i <= n
      <4>1. w.table[f].clrs[i] = v.table[f].clrs[i]
        BY <1>4, <1>13, <3>1, <3>2
      <4>2. i \in 1..n
        BY <1>4, <1>5, <3>2
      <4>3. QED
        BY <1>4, <1>5, <3>2, <4>1, <4>2
    <3>3. CASE ~(i <= n)
      <4>1. i \in (n + 1)..(n + r)
        BY <1>4, <1>5, <3>3
      <4>2. QED
        BY <1>13, <3>1, <4>1
    <3>4. QED
      BY <3>2, <3>3
  <2>3. dev_tbl_load_fir(w, f) = s0
    BY <1>5, <2>1, <2>2, SeqEqual, SMTT(30)
  <2>4. QED
    BY <2>1, <2>3

\* The call has come to an end, with the second level s1.
<1>16. ASSUME ShapedBy(w, f, n + r), SecondOf(w, f) = s1, w.clrs.s1 = s1
       PROVE  /\ Shaped(w, f) /\ Cached(w, f)
              /\ ClustersOf(w, f) = ClustersOf(v, f) \cup Elems(add)
              /\ Len(dev_tbl_load_fir(w, f)) + Len(SecondOf(w, f))
                   = Len(dev_tbl_load_fir(v, f)) + Len(SecondOf(v, f)) + Len(add)
  <2>1. dev_tbl_load_fir(w, f) = s0
        /\ {w.table[f].clrs[i] : i \in 1..Direct} \ {0} = Elems(s0)
    BY <1>15, <1>16
  <2>2. Elems(s0) = Elems(v.clrs.s0) \cup Elems(a)
        /\ Elems(s1) = Elems(v.clrs.s1) \cup Elems(b)
        /\ Elems(add) = Elems(a) \cup Elems(b)
    <3>1. \A s, t \in Seq(Cluster) : Elems(s \o t) = Elems(s) \cup Elems(t)
      BY ElemsConcat
    <3>2. QED
      BY <1>5, <1>6, <3>1, Zenon
  <2>3. ClustersOf(w, f) = Elems(s0) \cup Elems(s1)
    BY <1>16, <2>1 DEF ClustersOf
  <2>4. ClustersOf(v, f) = Elems(v.clrs.s0) \cup Elems(v.clrs.s1)
    BY <1>3, <1>4 DEF ClustersOf
  <2>5. ClustersOf(w, f) = ClustersOf(v, f) \cup Elems(add)
    BY <2>2, <2>3, <2>4
  <2>6. Cached(w, f)
    BY <1>7, <1>16, <2>1 DEF Cached
  <2>7. Shaped(w, f)
    BY <1>11, <1>16 DEF Shaped
  <2>8. (n + r) + (Len(v.clrs.s1) + (Len(add) - r)) = n + Len(v.clrs.s1) + Len(add)
    <3>1. n \in Nat /\ r \in Nat /\ Len(v.clrs.s1) \in Nat /\ Len(add) \in Nat
      BY <1>4, <1>5
    <3>2. DEFINE x == Len(v.clrs.s1)
                 u == Len(add)
    <3>3. x \in Nat /\ u \in Nat
      BY <3>1
    <3> HIDE DEF x, u, r
    <3>4. (n + r) + (x + (u - r)) = n + x + u
      BY <3>1, <3>3, SMT
    <3>5. QED
      BY <3>4 DEF x, u
  <2>9. QED
    BY <1>3, <1>4, <1>5, <1>16, <2>1, <2>5, <2>6, <2>7, <2>8
<1>17. CASE AddDirect(v, w, f, add)
  <2>1. s1 = v.clrs.s1 /\ w.clrs.s1 = s1 /\ w.ctab = v.ctab /\ w.secs = v.secs
        /\ w.status = "up" /\ w.table[f].sec = v.table[f].sec
    BY <1>17 DEF AddDirect, s1
  <2>2. ShapedBy(w, f, n + r)
    BY <1>2, <1>11, <1>14, <2>1 DEF ShapedBy
  <2>3. SecondOf(w, f) = s1
    BY <1>3, <2>1 DEF SecondOf
  <2>4. Claims(v, w, f)
    BY <2>1 DEF Claims
  <2>5. QED
    BY <1>16, <2>1, <2>2, <2>3, <2>4 DEF w
<1>18. CASE AddFails(v, w, f, add)
  <2>1. w.status = "exhausted" /\ Claims(v, w, f)
    BY <1>18 DEF AddFails, Claims
  <2>2. QED
    BY <2>1 DEF w
<1>19. ASSUME Len(s1) # 0 PROVE s1 # <<>>
  BY <1>19
<1>20. CASE AddGrows(v, w, f, add)
  <2>1. s1 # v.clrs.s1 /\ v.clrs.s1 # <<>> /\ w.clrs.s1 = s1 /\ w.ctab = v.ctab
        /\ w.secs = [v.secs EXCEPT ![v.table[f].sec] = s1]
        /\ w.table[f].sec = v.table[f].sec
        /\ w.status = IF v.table[f].sec = 0 THEN "undefined" ELSE "up"
    BY <1>20 DEF AddGrows, s1
  <2>2. v.table[f].sec # 0 /\ n + r = Direct /\ w.status = "up"
    BY <1>9, <1>11, <2>1
  <2>3. v.secs \in [Cluster -> Seq(Cluster)] /\ v.table[f].sec \in Cluster
    BY <1>1, VolumeFields DEF Secs, Table, Entry
  <2>4. w.secs[w.table[f].sec] = s1
    BY <2>1, <2>3
  <2>5. s1 # <<>>
    <3>1. Len(v.clrs.s1) # 0 /\ r # Len(add)
      BY <1>5, <2>1, EmptySeq
    <3>2. Len(s1) # 0
      BY <1>5, <3>1, SMTT(30)
    <3>3. QED
      BY <1>19, <3>2
  <2>6. ShapedBy(w, f, n + r)
    BY <1>11, <1>14, <2>2, <2>4, <2>5 DEF ShapedBy
  <2>7. SecondOf(w, f) = s1
    BY <2>1, <2>2, <2>4 DEF SecondOf
  <2>8. Claims(v, w, f)
    BY <2>1 DEF Claims
  <2>9. QED
    BY <1>16, <2>1, <2>2, <2>6, <2>7, <2>8 DEF w
<1>21. CASE AddBegins(v, w, f, add)
  <2> DEFINE c == w.table[f].sec
  <2>1. /\ s1 # v.clrs.s1 /\ v.clrs.s1 = <<>> /\ w.clrs.s1 = s1 /\ w.status = "up"
        /\ c \in WholeClusters(v.bitmap, v.ctab)
        /\ w.ctab = [p \in Block |-> IF p[1] = c THEN [fid |-> CLAIMED, num |-> p[2] - 1]
                                                 ELSE v.ctab[p]]
        /\ w.secs = [v.secs EXCEPT ![c] = s1]
    BY <1>21 DEF AddBegins, s1
  <2>2. c \in Cluster /\ c # 0
    BY <2>1, FreeIsCluster DEF WholeClusters
  <2>3. v.secs \in [Cluster -> Seq(Cluster)]
    BY <1>1, VolumeFields DEF Secs
  <2>4. w.secs[c] = s1
    BY <2>1, <2>2, <2>3
  <2>5. n + r = Direct /\ s1 # <<>>
    BY <1>5, <1>11, <2>1
  <2>6. ShapedBy(w, f, n + r)
    BY <1>11, <1>14, <2>4, <2>5 DEF ShapedBy
  <2>7. SecondOf(w, f) = s1
    BY <2>2, <2>4 DEF SecondOf
  <2>8. Claims(v, w, f)
    <3>1. v.table[f].sec = 0
      BY <1>9, <2>1
    <3>2. \A p \in Block : IF p[1] = c THEN TRUE ELSE w.ctab[p] = v.ctab[p]
      BY <2>1
    <3>3. QED
      BY <3>1, <3>2 DEF Claims
  <2>9. QED
    BY <1>16, <2>1, <2>6, <2>7, <2>8 DEF w
<1>22. QED
  BY <1>7, <1>17, <1>18, <1>20, <1>21

-----------------------------------------------------------------------------
(* dev_file_mem_clrs and dev_file_reserve.                                   *)

\* What listing clusters leaves alone.
Lists(v, w, f) ==
  /\ w.table[f].lnk = v.table[f].lnk /\ w.seqs = v.seqs /\ w.clrs.fid = f
  /\ w.status \in {v.status, "exhausted", "undefined"}
  /\ \A p \in Block : \/ w.ctab[p] = v.ctab[p]
                      \/ v.ctab[p].fid = 0 /\ w.ctab[p].fid = CLAIMED

\* Clusters added to a file's list change no entry of a cluster table but by
\* claiming free ones for a second level.
LEMMA ClrsAddLists ==
  ASSUME NEW v, Good(v), NEW f \in File, v.clrs.fid = f, NEW add \in Seq(Cluster)
  PROVE  Lists(v, dev_tbl_clrs_add(v, f, add), f)
<1> DEFINE w == dev_tbl_clrs_add(v, f, add)
<1>1. /\ w.clrs.fid = f /\ w.seqs = v.seqs /\ w.table[f].lnk = v.table[f].lnk
      /\ \/ AddDirect(v, w, f, add) \/ AddFails(v, w, f, add)
         \/ AddGrows(v, w, f, add) \/ AddBegins(v, w, f, add)
  BY ClrsAddFields
<1> HIDE DEF w
<1>2. CASE AddDirect(v, w, f, add) \/ AddFails(v, w, f, add) \/ AddGrows(v, w, f, add)
  <2>1. w.ctab = v.ctab /\ w.status \in {v.status, "exhausted", "undefined"}
    BY <1>2 DEF AddDirect, AddFails, AddGrows
  <2>2. QED
    BY <1>1, <2>1 DEF Lists, w
<1>3. CASE AddBegins(v, w, f, add)
  <2> DEFINE c == w.table[f].sec
  <2>1. /\ c \in WholeClusters(v.bitmap, v.ctab) /\ w.status = v.status
        /\ w.ctab = [p \in Block |-> IF p[1] = c THEN [fid |-> CLAIMED, num |-> p[2] - 1]
                                                 ELSE v.ctab[p]]
    BY <1>3 DEF AddBegins
  <2>2. \A p \in Block : p[1] = c => v.ctab[p].fid = 0
    BY <2>1 DEF WholeClusters, Block
  <2>3. \A p \in Block : IF p[1] = c THEN w.ctab[p].fid = CLAIMED ELSE w.ctab[p] = v.ctab[p]
    BY <2>1
  <2> HIDE DEF c
  <2>4. QED
    BY <1>1, <2>1, <2>2, <2>3 DEF Lists, w
<1>4. QED
  BY <1>1, <1>2, <1>3

\* The clusters of C that dev_file_mem_clrs adds.
Added(v, C) ==
  LET add == Sorted(C \ Listed(v))
  IN SubSeq(add, 1, Lesser(Len(add), MaxClrs - ClrsCount(v)))

\* They are not listed yet, and are all of C that is not if there is room.
LEMMA AddedClusters ==
  ASSUME NEW v \in Volume, NEW C \in SUBSET Cluster
  PROVE  /\ Added(v, C) \in Seq(Cluster) /\ Distinct(Added(v, C))
         /\ Elems(Added(v, C)) \subseteq C \ Listed(v)
         /\ Len(Added(v, C)) \in Nat /\ ClrsCount(v) \in Nat
         /\ \/ Elems(Added(v, C)) = C \ Listed(v)
            \/ ClrsCount(v) + Len(Added(v, C)) >= MaxClrs
<1> DEFINE S   == C \ Listed(v)
           add == Sorted(S)
           m   == Lesser(Len(add), MaxClrs - ClrsCount(v))
           s   == SubSeq(add, 1, m)
<1>1. add \in Seq(Cluster) /\ Elems(add) = S /\ Distinct(add)
  BY SortedElems
<1>2. Len(add) \in Nat /\ \A i \in 1..Len(add) : add[i] \in Cluster
  BY <1>1, LenProperties, ElementOfSeq
<1>3. ClrsCount(v) \in Nat
  <2>1. v.clrs \in Clrs
    BY VolumeFields
  <2>2. Len(v.clrs.s0) \in Nat /\ Len(v.clrs.s1) \in Nat
    BY <2>1 DEF Clrs
  <2>3. \A a, b \in Nat : a + b \in Nat
    OBVIOUS
  <2>4. QED
    BY <2>2, <2>3, Zenon DEF ClrsCount
<1> HIDE DEF S, add
<1>4. m \in Int /\ m <= Len(add) /\ (m = Len(add) \/ m = MaxClrs - ClrsCount(v))
      /\ MaxClrs \in Nat
  BY <1>2, <1>3, VolumeAssumption DEF Lesser
<1>5. Added(v, C) = s
  BY DEF Added, add, S
<1> HIDE DEF m
<1>6. \A i \in 1..m : i \in 1..Len(add) /\ add[i] \in Cluster
  BY <1>2, <1>4
<1>7. /\ s \in Seq(Cluster) /\ Len(s) = IF 1 <= m THEN m - 1 + 1 ELSE 0
      /\ \A i \in 1..(m - 1 + 1) : s[i] = add[1 + i - 1]
  BY <1>4, <1>6, SubSeqProperties
<1>8. Len(s) \in Nat /\ (m >= 0 => Len(s) = m) /\ (m < 0 => Len(s) = 0)
  BY <1>4, <1>7
<1> HIDE DEF s
<1>9. ASSUME NEW i \in 1..Len(s) PROVE i \in 1..Len(add) /\ s[i] = add[i]
  <2>1. i \in 1..m /\ i \in 1..(m - 1 + 1) /\ 1 + i - 1 = i
    BY <1>4, <1>8, <1>9
  <2>2. QED
    BY <1>6, <1>7, <2>1
<1>10. Distinct(s)
  BY <1>1, <1>9 DEF Distinct
<1>11. Elems(s) \subseteq S
  BY <1>1, <1>9 DEF Elems
<1>12. CASE m = Len(add)
  <2>1. s = add
    BY <1>1, <1>12, SubSeqFull DEF s
  <2>2. QED
    BY <1>1, <1>3, <1>5, <1>7, <1>8, <1>10, <2>1 DEF S
<1>13. CASE m # Len(add)
  <2>1. m = MaxClrs - ClrsCount(v)
    BY <1>4, <1>13
  <2>2. ClrsCount(v) + Len(s) >= MaxClrs
    BY <1>3, <1>4, <1>8, <2>1
  <2>3. QED
    BY <1>3, <1>5, <1>7, <1>8, <1>10, <1>11, <2>2 DEF S
<1>14. QED
  BY <1>12, <1>13

\* dev_file_mem_clrs, which adds only the clusters not yet listed, disturbs no
\* other file.
LEMMA MemClrsOthers ==
  ASSUME NEW v, Good(v), Apart(v), NEW f \in File, v.clrs.fid = f, NEW C \in SUBSET Cluster
  PROVE  Others(v, dev_file_mem_clrs(v, f, C), f) /\ Lists(v, dev_file_mem_clrs(v, f, C), f)
<1>1. dev_file_mem_clrs(v, f, C) = dev_tbl_clrs_add(v, f, Added(v, C))
  BY DEF dev_file_mem_clrs, Added
<1>2. Added(v, C) \in Seq(Cluster)
  BY AddedClusters DEF Good
<1>3. QED
  BY <1>1, <1>2, ClrsAddOthers, ClrsAddLists

\* The list takes the clusters of C in, as long as it has room.
Extends(v, w, f, C) ==
  /\ Shaped(w, f) /\ Counted(w, f) /\ Cached(w, f)
  /\ ClustersOf(v, f) \subseteq ClustersOf(w, f)
  /\ ClustersOf(w, f) \subseteq ClustersOf(v, f) \cup C
  /\ C \subseteq ClustersOf(w, f) \/ Cardinality(ClustersOf(w, f)) >= MaxClrs

\* A list of a file is a finite set.
LEMMA ClustersFinite ==
  ASSUME NEW v \in Volume, NEW f \in Fid
  PROVE  ClustersOf(v, f) \subseteq Cluster /\ IsFiniteSet(ClustersOf(v, f))
<1>1. v.table[f].clrs \in [1..Direct -> Cluster]
  BY VolumeFields DEF Table, Entry
<1>2. {v.table[f].clrs[i] : i \in 1..Direct} \subseteq Cluster
  BY <1>1
<1>3. Elems(SecondOf(v, f)) \subseteq Cluster
  BY SecondOfType, ElementOfSeq DEF Elems
<1>4. ClustersOf(v, f) \subseteq Cluster
  BY <1>2, <1>3 DEF ClustersOf
<1>5. QED
  BY <1>4, FiniteVolume, FS_Subset

\* Where dev_file_mem_clrs does not exhaust the volume, the file's list has grown
\* by the clusters and is still what its entry, cache and count say.
LEMMA MemClrsWhole ==
  ASSUME NEW v, Good(v), NEW f \in File, v.status = "up",
         Shaped(v, f), Counted(v, f), v.clrs.fid = f, Cached(v, f),
         NEW C \in SUBSET Cluster, 0 \notin C
  PROVE  LET w == dev_file_mem_clrs(v, f, C)
         IN /\ w.status \in {"up", "exhausted"} /\ Claims(v, w, f)
            /\ w.status = "up" => Extends(v, w, f, C)
<1> DEFINE add == Added(v, C)
           w   == dev_file_mem_clrs(v, f, C)
<1>1. w = dev_tbl_clrs_add(v, f, add)
  BY DEF dev_file_mem_clrs, Added
<1>2. /\ add \in Seq(Cluster) /\ Distinct(add) /\ Elems(add) \subseteq C \ Listed(v)
      /\ Len(add) \in Nat /\ ClrsCount(v) \in Nat
      /\ Elems(add) = C \ Listed(v) \/ ClrsCount(v) + Len(add) >= MaxClrs
  BY AddedClusters DEF Good
<1>3. Listed(v) = ClustersOf(v, f)
      /\ ClrsCount(v) = Len(dev_tbl_load_fir(v, f)) + Len(SecondOf(v, f))
  BY ListedAll DEF Good
<1> HIDE DEF add, w
<1>4. \A i \in 1..Len(add) : add[i] # 0
  BY <1>2 DEF Elems
<1>5. /\ w.status \in {"up", "exhausted"} /\ Claims(v, w, f)
      /\ w.status = "up" =>
           /\ Shaped(w, f) /\ Cached(w, f)
           /\ ClustersOf(w, f) = ClustersOf(v, f) \cup Elems(add)
           /\ Len(dev_tbl_load_fir(w, f)) + Len(SecondOf(w, f)) = ClrsCount(v) + Len(add)
  BY <1>1, <1>2, <1>3, <1>4, ClrsAddWhole
<1>6. ASSUME w.status = "up" PROVE Extends(v, w, f, C)
  <2>1. IsFiniteSet(ClustersOf(v, f)) /\ IsFiniteSet(Elems(add))
        /\ Cardinality(Elems(add)) = Len(add)
    BY <1>2, RootFid, ClustersFinite, ElemsCount DEF Good
  <2>2. ClustersOf(v, f) \cap Elems(add) = {}
    BY <1>2, <1>3
  <2>3. Cardinality(ClustersOf(v, f) \cup Elems(add))
          = Cardinality(ClustersOf(v, f)) + Cardinality(Elems(add)) - Cardinality({})
    BY <2>1, <2>2, FS_Union
  <2>4. Cardinality(ClustersOf(v, f)) = ClrsCount(v)
    BY <1>3 DEF Counted
  <2>5. Cardinality(ClustersOf(w, f)) = ClrsCount(v) + Len(add)
    <3>1. Cardinality({}) = 0
      BY FS_EmptySet
    <3>2. ClustersOf(w, f) = ClustersOf(v, f) \cup Elems(add)
      BY <1>5, <1>6
    <3>3. \A x, y \in Nat : x + y - 0 = x + y
      OBVIOUS
    <3>4. QED
      BY <1>2, <2>1, <2>3, <2>4, <3>1, <3>2, <3>3
  <2>6. Counted(w, f)
    BY <1>5, <1>6, <2>5 DEF Counted
  <2>7. C \subseteq ClustersOf(w, f) \/ Cardinality(ClustersOf(w, f)) >= MaxClrs
    BY <1>2, <1>3, <1>5, <1>6, <2>5
  <2>8. QED
    BY <1>2, <1>5, <1>6, <2>6, <2>7 DEF Extends
<1>7. QED
  BY <1>5, <1>6 DEF w

\* Reserving keeps the other files: the blocks were free.
LEMMA ReserveOthers ==
  ASSUME NEW v, Good(v), Apart(v), NEW f \in File, NEW P \in SUBSET Block, NEW num0 \in Nat,
         \A p \in P : p[1] # 0 /\ v.ctab[p].fid = 0
  PROVE  Others(v, dev_file_reserve(v, f, P, num0), f)
<1> DEFINE u == Given(v, f, P, num0)
           C == ClustersIn(P)
<1>1. Good(u) /\ Gives(v, u, f, P, num0)
      /\ dev_file_reserve(v, f, P, num0) = dev_file_mem_clrs(u, f, C)
  BY GivenGood
<1>2. C \in SUBSET Cluster
  BY DEF Block, ClustersIn
<1> HIDE DEF u, C
<1>3. u.table = v.table /\ u.secs = v.secs /\ u.seqs = v.seqs /\ u.clrs.fid = f
      /\ (\A p \in P : u.ctab[p].fid = f) /\ (\A p \in Block \ P : u.ctab[p] = v.ctab[p])
  BY <1>1 DEF Gives
<1>4. \A g \in File : g # 0 /\ g # CLAIMED /\ g \in Fid
  BY RootFid DEF File, Fid, CLAIMED
<1>5. ASSUME NEW g \in File \ {f} PROVE Same(v, u, g)
  <2>1. \A p \in Block : g \in {v.ctab[p].fid, u.ctab[p].fid} => u.ctab[p] = v.ctab[p]
    BY <1>3, <1>4
  <2>2. QED
    BY <1>3, <2>1 DEF Same
<1>6. Apart(u)
  <2>1. SUFFICES ASSUME NEW g \in File, v.table[g].sec # 0, NEW b \in Slot
                 PROVE  u.ctab[<<v.table[g].sec, b>>].fid = CLAIMED
    BY <1>3 DEF Apart
  <2>2. v.ctab[<<v.table[g].sec, b>>].fid = CLAIMED
    BY <2>1 DEF Apart
  <2>3. <<v.table[g].sec, b>> \in Block
    <3>1. v.table[g].sec \in Cluster
      BY <1>4, VolumeFields DEF Good, Table, Entry
    <3>2. QED
      BY <3>1 DEF Block
  <2>4. <<v.table[g].sec, b>> \notin P
    BY <2>2 DEF CLAIMED
  <2>5. QED
    BY <1>3, <2>2, <2>3, <2>4
<1>7. Others(v, u, f)
  BY <1>5, <1>6 DEF Others
<1>8. Others(u, dev_file_mem_clrs(u, f, C), f)
  BY <1>1, <1>2, <1>3, <1>6, MemClrsOthers
<1>9. QED
  BY <1>1, <1>7, <1>8, OthersTransitive

\* What it leaves: the blocks P are f's, and some free ones may be claimed.
Reserves(v, w, f, P, num0) ==
  /\ w.table[f].lnk = v.table[f].lnk /\ w.seqs = v.seqs
  /\ w.status \in {v.status, "exhausted", "undefined"}
  /\ \A p \in P : w.ctab[p].fid = f /\ w.ctab[p].num = num0 + Rank(P, p)
  /\ \A p \in Block \ P : \/ w.ctab[p] = v.ctab[p]
                          \/ v.ctab[p].fid = 0 /\ w.ctab[p].fid = CLAIMED

\* dev_file_reserve gives the file the blocks, numbered on from num0, and nothing
\* else.
LEMMA ReserveReserves ==
  ASSUME NEW v, Good(v), Apart(v), NEW f \in File, NEW P \in SUBSET Block, NEW num0 \in Nat,
         \A p \in P : p[1] # 0 /\ v.ctab[p].fid = 0
  PROVE  Reserves(v, dev_file_reserve(v, f, P, num0), f, P, num0)
<1> DEFINE u == Given(v, f, P, num0)
           C == ClustersIn(P)
           w == dev_file_mem_clrs(u, f, C)
<1>1. Good(u) /\ Gives(v, u, f, P, num0) /\ dev_file_reserve(v, f, P, num0) = w
  BY GivenGood
<1>2. C \in SUBSET Cluster
  BY DEF Block, ClustersIn
<1>3. u.table = v.table /\ u.seqs = v.seqs /\ u.clrs.fid = f /\ u.status = v.status
      /\ (\A p \in P : u.ctab[p].fid = f /\ u.ctab[p].num = num0 + Rank(P, p))
      /\ (\A p \in Block \ P : u.ctab[p] = v.ctab[p])
  BY <1>1 DEF Gives
<1>4. f # 0
  BY DEF File
<1>5. Apart(u)
  <2>1. ASSUME NEW g \in File, v.table[g].sec # 0, NEW b \in Slot
        PROVE  u.ctab[<<v.table[g].sec, b>>].fid = CLAIMED
    <3>1. v.ctab[<<v.table[g].sec, b>>].fid = CLAIMED
      BY <2>1 DEF Apart
    <3>2. v.table[g].sec \in Cluster
      BY RootFid, VolumeFields DEF Good, Table, Entry
    <3>3. <<v.table[g].sec, b>> \in Block \ P
      BY <3>1, <3>2 DEF Block, CLAIMED
    <3>4. QED
      BY <1>3, <3>1, <3>3
  <2>2. QED
    BY <1>3, <2>1 DEF Apart
<1>6. Lists(u, w, f)
  BY <1>1, <1>2, <1>3, <1>5, MemClrsOthers
<1> HIDE DEF w, u, C
<1>7. w.table[f].lnk = v.table[f].lnk /\ w.seqs = v.seqs
      /\ w.status \in {v.status, "exhausted", "undefined"}
  BY <1>3, <1>6 DEF Lists
<1>8. \A p \in P : w.ctab[p].fid = f /\ w.ctab[p].num = num0 + Rank(P, p)
  BY <1>3, <1>4, <1>6 DEF Lists
<1>9. \A p \in Block \ P : \/ w.ctab[p] = v.ctab[p]
                           \/ v.ctab[p].fid = 0 /\ w.ctab[p].fid = CLAIMED
  BY <1>3, <1>6 DEF Lists
<1>10. QED
  BY <1>1, <1>7, <1>8, <1>9 DEF Reserves

\* Switching the cluster cache to f loads the list the table records.
LEMMA ClrsCntWhole ==
  ASSUME NEW v, Good(v), NEW f \in File, Cached(v, f)
  PROVE  LET w == dev_tbl_clrs_cnt(v, f)
         IN w.clrs.s0 = dev_tbl_load_fir(v, f) /\ w.clrs.s1 = SecondOf(v, f)
<1> DEFINE w   == dev_tbl_clrs_cnt(v, f)
           c0  == IF v.clrs.fid = f THEN v.clrs ELSE [fid |-> f, s0 |-> <<>>, s1 |-> <<>>]
           sec == v.table[f].sec
           c   == [fid |-> f,
                   s0  |-> IF c0.s0 = <<>> THEN dev_tbl_load_fir(v, f) ELSE c0.s0,
                   s1  |-> IF sec # 0 /\ c0.s1 = <<>> THEN v.secs[sec] ELSE c0.s1]
<1>1. w.clrs = c
  BY DEF dev_tbl_clrs_cnt, Good, Volume
<1>2. \/ c0.s0 = dev_tbl_load_fir(v, f) /\ c0.s1 = SecondOf(v, f)
      \/ c0.s0 = <<>> /\ c0.s1 = <<>>
  BY DEF Cached
<1> HIDE DEF c0
<1>3. c.s0 = dev_tbl_load_fir(v, f) /\ c.s1 = SecondOf(v, f)
  BY <1>2 DEF SecondOf
<1>4. QED
  BY <1>1, <1>3

\* dev_file_reserve puts the clusters of the new blocks on the file's list.
LEMMA ReserveWhole ==
  ASSUME NEW v, Good(v), NEW f \in File, v.status = "up",
         Shaped(v, f), Counted(v, f), Cached(v, f),
         NEW P \in SUBSET Block, NEW num0 \in Nat,
         \A p \in P : p[1] # 0 /\ v.ctab[p].fid = 0
  PROVE  LET w == dev_file_reserve(v, f, P, num0)
         IN /\ w.status \in {"up", "exhausted"} /\ Claims(v, w, f)
            /\ w.status = "up" => Extends(v, w, f, ClustersIn(P))
<1> DEFINE u == Given(v, f, P, num0)
           C == ClustersIn(P)
           w == dev_file_mem_clrs(u, f, C)
<1>1. Good(u) /\ Gives(v, u, f, P, num0) /\ dev_file_reserve(v, f, P, num0) = w
  BY GivenGood
<1>2. C \in SUBSET Cluster /\ 0 \notin C
  BY DEF Block, ClustersIn
<1>3. dev_tbl_clrs_cnt(v, f).clrs.s0 = dev_tbl_load_fir(v, f)
      /\ dev_tbl_clrs_cnt(v, f).clrs.s1 = SecondOf(v, f)
  BY ClrsCntWhole
<1> HIDE DEF u, C
<1>4. u.table = v.table /\ u.secs = v.secs /\ u.status = "up"
      /\ u.clrs.fid = f /\ u.clrs = dev_tbl_clrs_cnt(v, f).clrs
      /\ (\A p \in P : u.ctab[p].fid = f) /\ (\A p \in Block \ P : u.ctab[p] = v.ctab[p])
  BY <1>1 DEF Gives
<1>5. dev_tbl_load_fir(u, f) = dev_tbl_load_fir(v, f) /\ SecondOf(u, f) = SecondOf(v, f)
      /\ ClustersOf(u, f) = ClustersOf(v, f)
  BY <1>4 DEF dev_tbl_load_fir, SecondOf, ClustersOf
<1>6. Shaped(u, f) /\ Counted(u, f) /\ Cached(u, f)
  BY <1>3, <1>4, <1>5 DEF Shaped, ShapedBy, Counted, Cached
<1>7. /\ w.status \in {"up", "exhausted"} /\ Claims(u, w, f)
      /\ w.status = "up" => Extends(u, w, f, C)
  BY <1>1, <1>2, <1>4, <1>6, MemClrsWhole
<1> HIDE DEF w
<1>8. w.status = "up" => Extends(v, w, f, C)
  BY <1>5, <1>7 DEF Extends
<1>9. Claims(v, w, f)
  <2>1. f # CLAIMED
    BY DEF File, Fid, CLAIMED
  <2>2. \A p \in Block : u.ctab[p].fid = CLAIMED => v.ctab[p].fid = CLAIMED
    BY <1>4, <2>1
  <2>3. QED
    BY <1>4, <1>7, <2>2 DEF Claims
<1>10. QED
  BY <1>1, <1>7, <1>8, <1>9 DEF C

-----------------------------------------------------------------------------
(* Reading and extending a block list.                                      *)

\* A list built from cluster tables has one record for each block.
LEMMA InfoCount ==
  ASSUME NEW v \in Volume, NEW f
  PROVE  /\ IsFiniteSet(OwnedBy(v, f)) /\ OwnedBy(v, f) \subseteq Block
         /\ Cardinality(InfoOf(v, f, Cluster)) = Cardinality(OwnedBy(v, f))
<1> DEFINE O == OwnedBy(v, f)
           rec == [p \in O |-> [cid |-> p[1], bid |-> p[2], num |-> v.ctab[p].num]]
<1>1. O \subseteq Block /\ IsFiniteSet(O)
  BY FiniteVolume, FS_Subset DEF OwnedBy
<1>2. {q \in Block : q[1] \in Cluster /\ v.ctab[q].fid = f} = O
  BY DEF OwnedBy, Block
<1>3. InfoOf(v, f, Cluster) = {rec[p] : p \in O}
  BY <1>2 DEF InfoOf
<1>4. rec \in Surjection(O, {rec[p] : p \in O})
  BY DEF Surjection
<1>5. \A p, q \in O : rec[p] = rec[q] => p = q
  <2>1. ASSUME NEW p \in O, NEW q \in O, rec[p] = rec[q] PROVE p = q
    <3>1. p[1] = q[1] /\ p[2] = q[2]
      BY <2>1
    <3>2. p = <<p[1], p[2]>> /\ q = <<q[1], q[2]>>
      BY <1>1 DEF Block
    <3>3. QED
      BY <3>1, <3>2
  <2>2. QED
    BY <2>1
<1>6. rec \in Injection(O, {rec[p] : p \in O})
  BY <1>5 DEF Injection, IsInjective
<1>7. Cardinality({rec[p] : p \in O}) = Cardinality(O)
  BY <1>1, <1>4, <1>6, FS_Surjection
<1>8. QED
  BY <1>1, <1>3, <1>7

\* A block of the file in a listed cluster is found there.
LEMMA InfoNonempty ==
  ASSUME NEW v, NEW f, NEW C, NEW p \in Block, v.ctab[p].fid = f, p[1] \in C
  PROVE  InfoOf(v, f, C) # {}
BY DEF InfoOf

\* The clusters a file has blocks in are not the root's.
LEMMA OwnedApartFromRoot ==
  ASSUME NEW v, Good(v), NEW f \in File
  PROVE  OwnedClusters(v, f) \subseteq 1..(NC - 1)
<1>1. ASSUME NEW p \in Block, v.ctab[p].fid = f PROVE p[1] \in 1..(NC - 1)
  <2>1. p[1] \in 0..(NC - 1) /\ NC \in Int
    BY SizeAssumption, SMTT(30) DEF Block, Cluster
  <2>2. p[1] # 0
    <3>1. p[1] = 0 => v.ctab[p].fid = 0
      BY DEF Good, RootKept, Formatted
    <3>2. QED
      BY <1>1, <3>1 DEF File
  <2>3. QED
    BY <2>1, <2>2
<1>2. QED
  BY <1>1 DEF OwnedClusters, OwnedBy

\* A list with room names all clusters the file has blocks in.
LEMMA RoomReached ==
  ASSUME NEW v, NEW f \in File, Reached(v, f), Spare(v, f)
  PROVE  OwnedClusters(v, f) = ClustersOf(v, f)
BY DEF Reached, Spare

\* A file stays whole when only caches change and they are filled with the truth.
LEMMA CachesWhole ==
  ASSUME NEW v, NEW w, NEW f \in File, Whole(v, f),
         w.table = v.table, w.ctab = v.ctab, w.secs = v.secs, Cached(w, f),
         Spare(v, f) => w.seqs[f] \in {v.seqs[f], {}, InfoOf(v, f, Cluster)}
  PROVE  Whole(w, f)
<1>1. /\ OwnedBy(w, f) = OwnedBy(v, f) /\ OwnedClusters(w, f) = OwnedClusters(v, f)
      /\ SecondOf(w, f) = SecondOf(v, f) /\ ClustersOf(w, f) = ClustersOf(v, f)
      /\ dev_tbl_load_fir(w, f) = dev_tbl_load_fir(v, f)
      /\ InfoOf(w, f, Cluster) = InfoOf(v, f, Cluster)
  BY DEF OwnedBy, OwnedClusters, SecondOf, ClustersOf, dev_tbl_load_fir, InfoOf
<1>2. Shaped(w, f) /\ Counted(w, f) /\ Reached(w, f)
  BY <1>1 DEF Whole, Shaped, ShapedBy, Counted, Reached
<1>3. Spare(w, f) => Numbered(w, f)
  BY <1>1 DEF Whole, Numbered, Spare
<1>4. QED
  BY <1>2, <1>3 DEF Whole

\* A whole file has a block in the cluster listed first.
LEMMA FirstCluster ==
  ASSUME NEW v, Good(v), NEW f \in File, Whole(v, f)
  PROVE  LET s == dev_tbl_load_fir(v, f)
         IN /\ s # <<>> /\ s[1] \in ClustersOf(v, f)
            /\ \E p \in Block : v.ctab[p].fid = f /\ p[1] = s[1]
<1> DEFINE s == dev_tbl_load_fir(v, f)
<1>1. PICK n \in 1..Direct : ShapedBy(v, f, n)
  BY DEF Whole, Shaped
<1>2. s = [i \in 1..n |-> v.table[f].clrs[i]] /\ Len(s) = n /\ n \in Nat
      /\ Elems(s) = {v.table[f].clrs[i] : i \in 1..Direct} \ {0}
  BY <1>1, LoadFirShaped DEF Good
<1> HIDE DEF s
<1>3. Len(s) # 0 /\ 1 \in 1..Len(s)
  BY <1>1, <1>2
<1>4. s # <<>>
  BY <1>3
<1>5. s[1] \in ClustersOf(v, f)
  BY <1>2, <1>3 DEF Elems, ClustersOf
<1>6. s[1] \in OwnedClusters(v, f)
  BY <1>5 DEF Whole, Reached
<1>7. QED
  BY <1>4, <1>5, <1>6 DEF OwnedClusters, OwnedBy, s

\* Switching the cache to a whole file, and with it all of its list.
LEMMA SwitchWhole ==
  ASSUME NEW v, Good(v), NEW f \in File, Whole(v, f)
  PROVE  LET w == dev_tbl_clrs_cnt(v, f)
         IN /\ Whole(w, f) /\ Listed(w) = ClustersOf(v, f)
            /\ w.clrs.s0 = dev_tbl_load_fir(v, f)
<1> DEFINE w == dev_tbl_clrs_cnt(v, f)
<1>1. Good(w) /\ w.table = v.table /\ w.ctab = v.ctab /\ w.secs = v.secs /\ w.seqs = v.seqs
      /\ w.clrs.fid = f
  BY RootFid, ClrsCntGood DEF Still
<1>2. w.clrs.s0 = dev_tbl_load_fir(v, f) /\ w.clrs.s1 = SecondOf(v, f)
  BY ClrsCntWhole DEF Whole
<1> HIDE DEF w
<1>3. dev_tbl_load_fir(w, f) = dev_tbl_load_fir(v, f) /\ SecondOf(w, f) = SecondOf(v, f)
      /\ ClustersOf(w, f) = ClustersOf(v, f)
  BY <1>1 DEF dev_tbl_load_fir, SecondOf, ClustersOf
<1>4. Cached(w, f)
  BY <1>2, <1>3 DEF Cached
<1>5. Whole(w, f)
  BY <1>1, <1>4, CachesWhole
<1>6. Listed(w) = ClustersOf(v, f)
  BY <1>1, <1>3, <1>4, <1>5, ListedAll DEF Good, Whole
<1>7. QED
  BY <1>2, <1>5, <1>6 DEF w

\* dev_get_file_seq of a whole file answers, with the list of all its blocks.
LEMMA GetSeqWhole ==
  ASSUME NEW v, Good(v), NEW f \in File, Whole(v, f), v.status = "up"
  PROVE  LET w == dev_get_file_seq(v, f)
         IN w.status = "up" /\ Whole(w, f) /\ w.seqs[f] # {}
<1> DEFINE w == dev_tbl_clrs_cnt(v, f)
           l == InfoOf(w, f, Listed(w))
           u == [w EXCEPT !.seqs[f] = l]
<1>1. CASE v.seqs[f] # {}
  BY <1>1 DEF dev_get_file_seq
<1>2. CASE v.seqs[f] = {}
  <2>1. Good(w) /\ w.ctab = v.ctab /\ w.status = "up" /\ w \in Volume
    BY RootFid, ClrsCntGood DEF Still, Good
  <2>2. Whole(w, f) /\ Listed(w) = ClustersOf(v, f) /\ w.clrs.s0 = dev_tbl_load_fir(v, f)
    BY SwitchWhole
  <2>3. l # {}
    <3>1. PICK p \in Block : v.ctab[p].fid = f /\ p[1] \in ClustersOf(v, f)
      BY FirstCluster
    <3>2. QED
      BY <2>1, <2>2, <3>1, InfoNonempty
  <2>4. dev_get_file_seq(v, f) = u
    BY <1>2, <2>3 DEF dev_get_file_seq
  <2>5. Spare(v, f) => l = InfoOf(w, f, Cluster)
    <3>1. ASSUME Spare(v, f) PROVE \A q \in Block : w.ctab[q].fid = f => q[1] \in Listed(w)
      <4>1. OwnedClusters(v, f) = ClustersOf(v, f)
        BY <3>1, RoomReached DEF Whole
      <4>2. QED
        BY <2>1, <2>2, <4>1 DEF OwnedClusters, OwnedBy
    <3>2. \A q \in Block : q[1] \in Cluster
      BY DEF Block
    <3>3. ASSUME Spare(v, f)
          PROVE  {q \in Block : q[1] \in Listed(w) /\ w.ctab[q].fid = f}
                   = {q \in Block : q[1] \in Cluster /\ w.ctab[q].fid = f}
      BY <3>1, <3>2, <3>3
    <3>4. QED
      BY <3>3 DEF InfoOf
  <2> HIDE DEF w, l
  <2>6. w.seqs \in Seqs /\ f \in Fid
    BY <2>1, VolumeFields, RootFid
  <2>7. u.table = w.table /\ u.ctab = w.ctab /\ u.secs = w.secs /\ u.clrs = w.clrs
        /\ u.seqs = [w.seqs EXCEPT ![f] = l] /\ u.status = "up"
    BY <2>1 DEF Volume
  <2> HIDE DEF u
  <2>8. u.seqs[f] = l
    BY <2>6, <2>7 DEF Seqs
  <2>9. Cached(u, f)
    BY <2>2, <2>7 DEF Whole, Cached, dev_tbl_load_fir, SecondOf
  <2>10. Spare(w, f) => Spare(v, f)
    <3>1. w.table = v.table /\ w.secs = v.secs
      BY RootFid, ClrsCntGood DEF Still, w
    <3>2. QED
      BY <3>1 DEF Spare, ClustersOf, SecondOf
  <2>11. Whole(u, f)
    BY <2>2, <2>5, <2>7, <2>8, <2>9, <2>10, CachesWhole
  <2>12. QED
    BY <2>3, <2>4, <2>7, <2>8, <2>11
<1>3. QED
  BY <1>1, <1>2

\* dev_init_file finds the first block of a whole file, and none of a file that
\* has no block.
LEMMA InitWhole ==
  ASSUME NEW v, Good(v), NEW f \in File, v.status = "up"
  PROVE  LET w == dev_init_file(v, f)
         IN /\ Whole(v, f) => w.status = "up" /\ Whole(w, f)
            /\ OwnedBy(v, f) = {} => w.status = "undefined"
            /\ w.status \in {"up", "undefined"}
<1> DEFINE w == IF v.clrs.fid = f THEN v ELSE dev_tbl_clrs_cnt(v, f)
           found == w.clrs.s0 # <<>> /\ InfoOf(w, f, {w.clrs.s0[1]}) # {}
<1>1. dev_init_file(v, f) = IF found THEN w ELSE Lost(w, "undefined")
  BY DEF dev_init_file
<1>2. w.ctab = v.ctab /\ w.status = "up" /\ w \in Volume
  BY RootFid, ClrsCntGood DEF Still, Good
<1>3. ASSUME Whole(v, f) PROVE Whole(w, f) /\ found
  <2>1. Whole(w, f) /\ w.clrs.s0 = dev_tbl_load_fir(v, f)
    BY <1>3, SwitchWhole DEF Whole, Cached
  <2>2. dev_tbl_load_fir(v, f) # <<>>
        /\ \E p \in Block : v.ctab[p].fid = f /\ p[1] = dev_tbl_load_fir(v, f)[1]
    BY <1>3, FirstCluster
  <2> HIDE DEF w
  <2>3. QED
    BY <1>2, <2>1, <2>2, InfoNonempty
<1>4. ASSUME OwnedBy(v, f) = {} PROVE ~found
  BY <1>2, <1>4 DEF OwnedBy, InfoOf
<1> HIDE DEF w, found
<1>5. Lost(w, "undefined").status = "undefined"
  BY <1>2, LostCaches
<1>6. QED
  BY <1>1, <1>2, <1>3, <1>4, <1>5

\* The root directory can always be read.
LEMMA GetSeqRoot ==
  ASSUME NEW v, Good(v), v.status = "up"
  PROVE  LET w == dev_get_file_seq(v, 0)
         IN w.status = "up" /\ Cardinality(w.seqs[0]) = BPC
<1> DEFINE w == dev_tbl_clrs_cnt(v, 0)
           l == InfoOf(w, 0, Listed(w))
           u == dev_get_file_seq(v, 0)
           R == InfoOf(Formatted, 0, {0})
<1>1. R # {} /\ Cardinality(R) = BPC
  <2> DEFINE rec == [b \in Slot |-> [cid |-> 0, bid |-> b, num |-> b - 1]]
             Q == {q \in Block : q[1] \in {0} /\ Formatted.ctab[q].fid = 0}
  <2>1. Q = {<<0, b>> : b \in Slot}
    <3>1. ASSUME NEW q \in Q PROVE q \in {<<0, b>> : b \in Slot}
      BY DEF Block
    <3>2. ASSUME NEW b \in Slot PROVE <<0, b>> \in Q
      <4>1. <<0, b>> \in Block
        BY RootFid DEF Block
      <4>2. QED
        BY <4>1 DEF Formatted
    <3> HIDE DEF Q
    <3>3. QED
      BY <3>1, <3>2
  <2>2. \A b \in Slot : Formatted.ctab[<<0, b>>].num = b - 1
    BY RootFid DEF Formatted, Block
  <2>3. R = {rec[b] : b \in Slot}
    <3>1. R = {[cid |-> p[1], bid |-> p[2], num |-> Formatted.ctab[p].num] : p \in Q}
      BY DEF InfoOf
    <3> HIDE DEF Q
    <3>2. ASSUME NEW b \in Slot
          PROVE  [cid |-> <<0, b>>[1], bid |-> <<0, b>>[2], num |-> Formatted.ctab[<<0, b>>].num]
                   = rec[b]
      BY <2>2
    <3> DEFINE of(p) == [cid |-> p[1], bid |-> p[2], num |-> Formatted.ctab[p].num]
    <3>3. R = {of(p) : p \in Q}
      BY <3>1
    <3>4. \A b \in Slot : of(<<0, b>>) = rec[b]
      BY <3>2
    <3> HIDE DEF of, rec, R
    <3>5. QED
      BY <2>1, <3>3, <3>4
  <2>4. rec \in Surjection(Slot, R) /\ rec \in Injection(Slot, R)
    <3>1. \A b, d \in Slot : rec[b] = rec[d] => b = d
      OBVIOUS
    <3>2. QED
      BY <2>3, <3>1 DEF Surjection, Injection, IsInjective
  <2>5. IsFiniteSet(Slot) /\ Cardinality(Slot) = BPC /\ 1 \in Slot
    BY SizeAssumption, FS_Interval, SMTT(30) DEF Slot
  <2>6. Cardinality(R) = BPC
    BY <2>4, <2>5, FS_Surjection
  <2>7. QED
    BY <2>3, <2>5, <2>6
<1> HIDE DEF R
<1>2. Good(u) /\ v.seqs[0] \in {{}, R}
  BY RootFid, GetSeqGood DEF Good, RootKept, R
<1>3. u.status = "up" /\ u.seqs[0] # {}
  <2>1. CASE v.seqs[0] # {}
    BY <2>1 DEF dev_get_file_seq
  <2>2. CASE v.seqs[0] = {}
    <3>1. Good(w) /\ w.ctab = v.ctab /\ w.status = "up" /\ w.clrs.s0 = <<0>>
          /\ w \in Volume
      BY RootFid, ClrsCntGood DEF Still, Good
    <3>2. 0 \in Listed(w)
      <4>1. 1 \in 1..Len(<<0>>) /\ <<0>>[1] = 0
        OBVIOUS
      <4>2. QED
        BY <3>1, <4>1 DEF Listed, Elems
    <3>3. <<0, 1>> \in Block /\ w.ctab[<<0, 1>>].fid = 0
      <4>1. <<0, 1>> \in Block
        BY RootFid, SizeAssumption, SMTT(30) DEF Block, Slot
      <4>2. w.ctab[<<0, 1>>] = Formatted.ctab[<<0, 1>>]
        BY <3>1, <4>1 DEF Good, RootKept
      <4>3. QED
        BY <4>1, <4>2 DEF Formatted
    <3>4. l # {}
      BY <3>2, <3>3, InfoNonempty
    <3>5. u = [w EXCEPT !.seqs[0] = l]
      BY <2>2, <3>4 DEF dev_get_file_seq
    <3> HIDE DEF w, l, u
    <3>6. w.seqs \in Seqs
      BY <3>1, VolumeFields
    <3>7. u.status = "up" /\ u.seqs = [w.seqs EXCEPT ![0] = l]
      BY <3>1, <3>5 DEF Volume
    <3>8. QED
      BY <3>4, <3>6, <3>7, RootFid DEF Seqs
  <2>3. QED
    BY <2>1, <2>2
<1>4. u.seqs[0] = R
  BY <1>2, <1>3 DEF Good, RootKept, R
<1>5. QED
  BY <1>1, <1>3, <1>4

\* What linking new blocks to the cached list of f changes.
LEMMA LinkedFields ==
  ASSUME NEW w \in Volume, NEW f \in Fid, NEW new
  PROVE  LET u == [w EXCEPT !.seqs[f] = @ \cup new]
         IN /\ u.table = w.table /\ u.ctab = w.ctab /\ u.bitmap = w.bitmap
            /\ u.secs = w.secs /\ u.clrs = w.clrs /\ u.status = w.status
            /\ u.seqs[f] = w.seqs[f] \cup new
            /\ \A g \in Fid \ {f} : u.seqs[g] = w.seqs[g]
<1> DEFINE u == [w EXCEPT !.seqs[f] = @ \cup new]
<1>1. u.table = w.table /\ u.ctab = w.ctab /\ u.bitmap = w.bitmap /\ u.secs = w.secs
      /\ u.clrs = w.clrs /\ u.status = w.status
      /\ u.seqs = [w.seqs EXCEPT ![f] = @ \cup new]
  BY DEF Volume
<1>2. w.seqs \in Seqs
  BY VolumeFields
<1> HIDE DEF u
<1>3. QED
  BY <1>1, <1>2 DEF Seqs, u

\* The records dev_extd_blk_list links to the list: n0 blocks are there before.
NewInfo(P, n0) == {[cid |-> p[1], bid |-> p[2], num |-> n0 + Rank(P, p)] : p \in P}

Linked(v, f, P, n0) ==
  LET w == dev_file_reserve(v, f, P, n0)
  IN If(w, [w EXCEPT !.seqs[f] = @ \cup NewInfo(P, n0)])

\* The two ways dev_extd_blk_list goes on after its search.
LEMMA ExtdCases ==
  ASSUME NEW v, Good(v), NEW f \in File, NEW n
  PROVE  LET end == SearchOutcome(v.bitmap, v.ctab, n)
             n0  == Cardinality(v.seqs[f])
             w   == dev_extd_blk_list(v, f, n)
         IN /\ end \in {"up", "hung", "exhausted"}
            /\ end # "up" => w = Lost(v, end)
            /\ end = "up" => \E P \in SUBSET Block :
                 /\ w = Linked(v, f, P, n0)
                 /\ \A p \in P : p[1] # 0 /\ v.ctab[p].fid = 0
            /\ n0 \in Nat
<1> DEFINE P   == dev_free_blocks(v.bitmap, v.ctab, n)
           n0  == Cardinality(v.seqs[f])
           end == SearchOutcome(v.bitmap, v.ctab, n)
           w   == dev_extd_blk_list(v, f, n)
<1>1. end \in {"up", "hung", "exhausted"}
  BY DEF SearchOutcome
<1>2. n0 \in Nat
  BY RootFid, FS_CardinalityType DEF Good
<1>3. P \in SUBSET Block /\ \A p \in P : p[1] # 0 /\ v.ctab[p].fid = 0
  BY FreeBlocksAreFree
<1>4. end # "up" => w = Lost(v, end)
  BY DEF dev_extd_blk_list
<1>5. end = "up" => w = Linked(v, f, P, n0)
  BY DEF dev_extd_blk_list, Linked, NewInfo
<1> HIDE DEF P, n0, end, w
<1>6. QED
  BY <1>1, <1>2, <1>3, <1>4, <1>5 DEF n0, end, w

\* Extending a file leaves the others alone, and its search ends if the bitmap
\* can be trusted.
LEMMA ExtdOthers ==
  ASSUME NEW v, Good(v), Apart(v), NEW f \in File, NEW n, v.status = "up"
  PROVE  LET w == dev_extd_blk_list(v, f, n)
         IN /\ Others(v, w, f) /\ w.table[f].lnk = v.table[f].lnk
            /\ WholeBytes => w.status # "hung"
<1> DEFINE n0  == Cardinality(v.seqs[f])
           end == SearchOutcome(v.bitmap, v.ctab, n)
           w   == dev_extd_blk_list(v, f, n)
<1>1. /\ end \in {"up", "hung", "exhausted"} /\ n0 \in Nat
      /\ end # "up" => w = Lost(v, end)
      /\ end = "up" => \E P \in SUBSET Block :
           /\ w = Linked(v, f, P, n0)
           /\ \A p \in P : p[1] # 0 /\ v.ctab[p].fid = 0
  BY ExtdCases
<1>2. WholeBytes => end # "hung"
  BY AgreeingEnds DEF Good
<1>3. v \in Volume /\ f \in Fid
  BY RootFid DEF Good
<1> HIDE DEF n0, end, w
<1>4. CASE end # "up"
  <2>1. CachesOnly(v, w, f) /\ w.status = end
    BY <1>1, <1>3, <1>4, LostCaches
  <2>2. Others(v, w, f) /\ w.table[f].lnk = v.table[f].lnk
    BY <2>1, CachesOthers DEF CachesOnly, Still
  <2>3. QED
    BY <1>2, <2>1, <2>2 DEF w
<1>5. CASE end = "up"
  <2>1. PICK P \in SUBSET Block : /\ w = Linked(v, f, P, n0)
                                  /\ \A p \in P : p[1] # 0 /\ v.ctab[p].fid = 0
    BY <1>1, <1>5
  <2> DEFINE x == dev_file_reserve(v, f, P, n0)
             u == [x EXCEPT !.seqs[f] = @ \cup NewInfo(P, n0)]
  <2>2. Good(x) /\ x \in Volume
    BY <1>1, <2>1, ReserveGood DEF Good
  <2>3. Others(v, x, f)
    BY <1>1, <2>1, ReserveOthers
  <2>4. Reserves(v, x, f, P, n0)
    BY <1>1, <2>1, ReserveReserves
  <2>5. w \in {x, u}
    BY <2>1 DEF Linked, If
  <2> HIDE DEF x
  <2>6. /\ u.table = x.table /\ u.ctab = x.ctab /\ u.bitmap = x.bitmap
        /\ u.secs = x.secs /\ u.clrs = x.clrs /\ u.status = x.status
        /\ \A g \in Fid \ {f} : u.seqs[g] = x.seqs[g]
    BY <1>3, <2>2, LinkedFields
  <2> HIDE DEF u
  <2>7. CachesOnly(x, u, f)
    BY <2>6 DEF CachesOnly, Still
  <2>8. Others(x, u, f)
    BY <2>3, <2>7, CachesOthers DEF Others
  <2>9. Others(v, u, f)
    BY <2>3, <2>8, OthersTransitive
  <2>10. x.table[f].lnk = v.table[f].lnk /\ x.status # "hung"
    BY <2>4 DEF Reserves
  <2>11. QED
    BY <2>3, <2>5, <2>6, <2>9, <2>10 DEF w
<1>6. QED
  BY <1>4, <1>5

\* The new blocks continue the numbers and the list of a file.
Grown(v, w, f, P, n0) ==
  /\ OwnedBy(w, f) = OwnedBy(v, f) \cup P
  /\ OwnedClusters(w, f) = OwnedClusters(v, f) \cup ClustersIn(P)
  /\ Numbered(v, f) /\ n0 = Cardinality(InfoOf(v, f, Cluster)) =>
       /\ {w.ctab[p].num : p \in OwnedBy(w, f)} = 0..(Cardinality(OwnedBy(w, f)) - 1)
       /\ InfoOf(w, f, Cluster) = InfoOf(v, f, Cluster) \cup NewInfo(P, n0)

\* The new blocks get the numbers behind those the file had: dense before, dense
\* after.
LEMMA NumbersGrow ==
  ASSUME NEW v, Good(v), NEW f \in File, NEW w, NEW P \in SUBSET Block, NEW n0 \in Nat,
         \A p \in P : v.ctab[p].fid = 0, Reserves(v, w, f, P, n0)
  PROVE  Grown(v, w, f, P, n0)
<1> DEFINE O == OwnedBy(v, f)
<1>1. f # 0 /\ f # CLAIMED /\ f \in Fid
  BY RootFid DEF File, Fid, CLAIMED
<1>2. \A p \in P : w.ctab[p].fid = f /\ w.ctab[p].num = n0 + Rank(P, p)
  BY DEF Reserves
<1>3. \A p \in Block \ P : w.ctab[p] = v.ctab[p] \/ (v.ctab[p].fid # f /\ w.ctab[p].fid # f)
  BY <1>1 DEF Reserves
<1>4. O \subseteq Block /\ IsFiniteSet(O) /\ O \cap P = {}
      /\ Cardinality(InfoOf(v, f, Cluster)) = Cardinality(O)
  BY <1>1, InfoCount DEF Good, OwnedBy
<1>5. \A p \in O : w.ctab[p] = v.ctab[p]
  BY <1>1, <1>3 DEF OwnedBy
<1>6. OwnedBy(w, f) = O \cup P
  BY <1>2, <1>3 DEF OwnedBy
<1>7. OwnedClusters(w, f) = OwnedClusters(v, f) \cup ClustersIn(P)
  BY <1>6 DEF OwnedClusters, ClustersIn
<1>8. InfoOf(w, f, Cluster) = InfoOf(v, f, Cluster) \cup NewInfo(P, n0)
  <2> DEFINE rec(x, p) == [cid |-> p[1], bid |-> p[2], num |-> x.ctab[p].num]
  <2>1. \A x : {q \in Block : q[1] \in Cluster /\ x.ctab[q].fid = f} = OwnedBy(x, f)
    BY DEF OwnedBy, Block
  <2>2. InfoOf(w, f, Cluster) = {rec(w, p) : p \in O \cup P}
    BY <1>6, <2>1 DEF InfoOf
  <2>3. InfoOf(v, f, Cluster) = {rec(v, p) : p \in O}
    BY <2>1 DEF InfoOf
  <2>4. \A p \in O : rec(w, p) = rec(v, p)
    BY <1>5
  <2>5. \A p \in P : rec(w, p) = [cid |-> p[1], bid |-> p[2], num |-> n0 + Rank(P, p)]
    BY <1>2
  <2> HIDE DEF rec, O
  <2>6. NewInfo(P, n0) = {rec(w, p) : p \in P}
    BY <2>5 DEF NewInfo
  <2>7. QED
    BY <2>2, <2>3, <2>4, <2>6
<1>9. ASSUME Numbered(v, f), n0 = Cardinality(InfoOf(v, f, Cluster))
      PROVE  {w.ctab[p].num : p \in OwnedBy(w, f)} = 0..(Cardinality(OwnedBy(w, f)) - 1)
  <2> DEFINE m == Cardinality(P)
  <2>1. {v.ctab[p].num : p \in O} = 0..(n0 - 1)
    BY <1>4, <1>9 DEF Numbered
  <2>2. {Rank(P, p) : p \in P} = 0..(m - 1)
    BY RankNumbers
  <2>3. IsFiniteSet(P) /\ m \in Nat
    BY FiniteVolume, FS_Subset, FS_CardinalityType
  <2>4. Cardinality(O \cup P) = n0 + m
    <3>1. Cardinality(O \cup P) = Cardinality(O) + Cardinality(P) - Cardinality({})
      BY <1>4, <2>3, FS_Union
    <3>2. Cardinality({}) = 0
      BY FS_EmptySet
    <3> HIDE DEF O
    <3>3. QED
      BY <1>4, <1>9, <2>3, <3>1, <3>2
  <2> HIDE DEF m, O
  <2>5. {w.ctab[p].num : p \in O \cup P} = {v.ctab[p].num : p \in O} \cup {n0 + Rank(P, p) : p \in P}
    BY <1>2, <1>5
  <2>6. {n0 + k : k \in 0..(m - 1)} = {n0 + Rank(P, p) : p \in P}
    BY <2>2
  <2>7. 0..(n0 - 1) \cup {n0 + k : k \in 0..(m - 1)} = 0..(n0 + m - 1)
    <3>1. ASSUME NEW i \in 0..(n0 + m - 1), i \notin 0..(n0 - 1)
          PROVE  i - n0 \in 0..(m - 1) /\ i = n0 + (i - n0)
      BY <2>3, <3>1
    <3>2. ASSUME NEW k \in 0..(m - 1) PROVE n0 + k \in 0..(n0 + m - 1)
      BY <2>3
    <3>3. 0..(n0 - 1) \subseteq 0..(n0 + m - 1)
      BY <2>3
    <3>4. QED
      BY <3>1, <3>2, <3>3
  <2>8. {w.ctab[p].num : p \in O \cup P} = 0..(n0 + m - 1)
    BY <2>1, <2>5, <2>6, <2>7, Zenon
  <2>9. OwnedBy(w, f) = O \cup P
    BY <1>6 DEF O
  <2> DEFINE N == {w.ctab[p].num : p \in OwnedBy(w, f)}
             M == {w.ctab[p].num : p \in O \cup P}
             c == Cardinality(OwnedBy(w, f))
  <2>10. N = M /\ c = n0 + m
    BY <2>4, <2>9
  <2>11. M = 0..(n0 + m - 1)
    BY <2>8
  <2> HIDE DEF N, M, c
  <2>12. N = 0..(c - 1)
    BY <2>3, <2>10, <2>11
  <2>13. QED
    BY <2>12 DEF N, c
<1>10. QED
  BY <1>6, <1>7, <1>8, <1>9 DEF Grown

\* A list that is extended by the clusters of new blocks reaches them.
LEMMA ReachedGrows ==
  ASSUME NEW v, NEW w \in Volume, NEW f \in File, NEW C,
         Reached(v, f), Extends(v, w, f, C), OwnedClusters(w, f) = OwnedClusters(v, f) \cup C
  PROVE  Reached(w, f)
<1> DEFINE L == ClustersOf(v, f)
           M == ClustersOf(w, f)
<1>1. L \subseteq M /\ M \subseteq L \cup C
      /\ (C \subseteq M \/ Cardinality(M) >= MaxClrs)
  BY DEF Extends
<1>2. L \subseteq OwnedClusters(v, f)
      /\ (OwnedClusters(v, f) \subseteq L \/ Cardinality(L) >= MaxClrs)
  BY DEF Reached
<1>3. Cardinality(L) >= MaxClrs => Cardinality(M) >= MaxClrs
  <2>1. IsFiniteSet(M)
    BY RootFid, ClustersFinite
  <2>2. IsFiniteSet(L) /\ Cardinality(L) <= Cardinality(M)
    BY <1>1, <2>1, FS_Subset
  <2>3. Cardinality(L) \in Nat /\ Cardinality(M) \in Nat
    BY <2>1, <2>2, FS_CardinalityType
  <2>4. QED
    BY <2>2, <2>3, VolumeAssumption
<1> HIDE DEF L, M
<1>4. M \subseteq OwnedClusters(w, f)
      /\ (OwnedClusters(w, f) \subseteq M \/ Cardinality(M) >= MaxClrs)
  BY <1>1, <1>2, <1>3
<1>5. QED
  BY <1>4 DEF Reached, M

\* A list that has room after clusters were added to it had room before.
LEMMA SpareBefore ==
  ASSUME NEW v, NEW w \in Volume, NEW f \in File, NEW C, Extends(v, w, f, C), Spare(w, f)
  PROVE  Spare(v, f)
<1> DEFINE L == ClustersOf(v, f)
           M == ClustersOf(w, f)
<1>1. L \subseteq M
  BY DEF Extends
<1>2. IsFiniteSet(M)
  BY RootFid, ClustersFinite
<1>3. IsFiniteSet(L) /\ Cardinality(L) <= Cardinality(M)
  BY <1>1, <1>2, FS_Subset
<1>4. Cardinality(L) \in Nat /\ Cardinality(M) \in Nat
  BY <1>2, <1>3, FS_CardinalityType
<1>5. ~(Cardinality(M) >= MaxClrs)
  BY DEF Spare
<1> HIDE DEF L, M
<1>6. ~(Cardinality(L) >= MaxClrs)
  BY <1>3, <1>4, <1>5, VolumeAssumption
<1>7. QED
  BY <1>6 DEF Spare, L

\* Extending a whole file whose list is cached leaves it whole, or the volume is
\* full.
LEMMA ExtdWhole ==
  ASSUME NEW v, Good(v), Apart(v), NEW f \in File, NEW n, v.status = "up",
         Whole(v, f), v.seqs[f] # {}
  PROVE  LET w == dev_extd_blk_list(v, f, n)
         IN /\ Claims(v, w, f) /\ w.status \in {"up", "hung", "exhausted"}
            /\ w.status = "up" => Whole(w, f)
<1> DEFINE n0  == Cardinality(v.seqs[f])
           end == SearchOutcome(v.bitmap, v.ctab, n)
           w   == dev_extd_blk_list(v, f, n)
<1>1. /\ end \in {"up", "hung", "exhausted"} /\ n0 \in Nat
      /\ end # "up" => w = Lost(v, end)
      /\ end = "up" => \E P \in SUBSET Block :
           /\ w = Linked(v, f, P, n0)
           /\ \A p \in P : p[1] # 0 /\ v.ctab[p].fid = 0
  BY ExtdCases
<1>2. v \in Volume /\ f \in Fid
  BY RootFid DEF Good
<1>3. Shaped(v, f) /\ Counted(v, f) /\ Cached(v, f) /\ Reached(v, f)
  BY DEF Whole
<1>4. Spare(v, f) => Numbered(v, f) /\ v.seqs[f] = InfoOf(v, f, Cluster)
                                    /\ n0 = Cardinality(InfoOf(v, f, Cluster))
  BY DEF Whole, Numbered
<1> HIDE DEF n0, end, w
<1>5. CASE end # "up"
  <2>1. CachesOnly(v, w, f) /\ w.status = end
    BY <1>1, <1>2, <1>5, LostCaches
  <2>2. Claims(v, w, f)
    BY <2>1, CachesOthers
  <2>3. QED
    BY <1>1, <1>5, <2>1, <2>2 DEF w
<1>6. CASE end = "up"
  <2>1. PICK P \in SUBSET Block : /\ w = Linked(v, f, P, n0)
                                  /\ \A p \in P : p[1] # 0 /\ v.ctab[p].fid = 0
    BY <1>1, <1>6
  <2> DEFINE x == dev_file_reserve(v, f, P, n0)
             u == [x EXCEPT !.seqs[f] = @ \cup NewInfo(P, n0)]
             C == ClustersIn(P)
  <2>2. x \in Volume
    BY <1>1, <2>1, ReserveGood DEF Good
  <2>3. Reserves(v, x, f, P, n0)
    BY <1>1, <2>1, ReserveReserves
  <2>4. /\ x.status \in {"up", "exhausted"} /\ Claims(v, x, f)
        /\ x.status = "up" => Extends(v, x, f, C)
    BY <1>1, <1>3, <2>1, ReserveWhole
  <2>5. w = If(x, u)
    BY <2>1 DEF Linked
  <2> HIDE DEF x
  <2>6. /\ u.table = x.table /\ u.ctab = x.ctab
        /\ u.secs = x.secs /\ u.clrs = x.clrs /\ u.status = x.status
        /\ u.seqs[f] = x.seqs[f] \cup NewInfo(P, n0)
    BY <1>2, <2>2, LinkedFields
  <2> HIDE DEF u
  <2>7. CASE x.status # "up"
    BY <2>4, <2>5, <2>7 DEF w, If
  <2>8. CASE x.status = "up"
    <3>1. w = u
      BY <2>5, <2>8 DEF If
    <3>2. Claims(v, u, f)
      BY <2>4, <2>6 DEF Claims
    <3>3. Extends(v, x, f, C)
      BY <2>4, <2>8
    <3>4. /\ OwnedClusters(x, f) = OwnedClusters(v, f) \cup C
          /\ Numbered(v, f) /\ n0 = Cardinality(InfoOf(v, f, Cluster)) =>
               /\ {x.ctab[p].num : p \in OwnedBy(x, f)} = 0..(Cardinality(OwnedBy(x, f)) - 1)
               /\ InfoOf(x, f, Cluster) = InfoOf(v, f, Cluster) \cup NewInfo(P, n0)
      <4>1. \A p \in P : v.ctab[p].fid = 0
        BY <2>1
      <4>2. Grown(v, x, f, P, n0)
        BY <1>1, <2>3, <4>1, NumbersGrow
      <4>3. QED
        BY <4>2 DEF Grown
    <3>5. Reached(x, f)
      BY <1>3, <2>2, <3>3, <3>4, ReachedGrows
    <3>6. x.seqs[f] = v.seqs[f]
      BY <2>3 DEF Reserves
    <3>7. ASSUME Spare(v, f)
          PROVE  /\ {x.ctab[p].num : p \in OwnedBy(x, f)} = 0..(Cardinality(OwnedBy(x, f)) - 1)
                 /\ u.seqs[f] = InfoOf(x, f, Cluster)
      BY <1>4, <2>6, <3>4, <3>6, <3>7
    <3>8. /\ OwnedBy(u, f) = OwnedBy(x, f) /\ OwnedClusters(u, f) = OwnedClusters(x, f)
          /\ SecondOf(u, f) = SecondOf(x, f) /\ ClustersOf(u, f) = ClustersOf(x, f)
          /\ dev_tbl_load_fir(u, f) = dev_tbl_load_fir(x, f)
          /\ InfoOf(u, f, Cluster) = InfoOf(x, f, Cluster)
      BY <2>6 DEF OwnedBy, OwnedClusters, SecondOf, ClustersOf, dev_tbl_load_fir, InfoOf
    <3>9. Shaped(u, f) /\ Counted(u, f) /\ Cached(u, f) /\ Reached(u, f)
      BY <2>6, <3>3, <3>5, <3>8 DEF Extends, Shaped, ShapedBy, Counted, Cached, Reached
    <3>10. Spare(u, f) => Numbered(u, f)
      <4>1. Spare(u, f) => Spare(v, f)
        BY <2>2, <3>3, <3>8, SpareBefore DEF Spare
      <4>2. QED
        BY <2>6, <3>7, <3>8, <4>1 DEF Numbered
    <3>11. Whole(u, f)
      BY <3>9, <3>10 DEF Whole
    <3>12. QED
      BY <2>6, <2>8, <3>1, <3>2, <3>11 DEF w
  <2>9. QED
    BY <2>7, <2>8
<1>7. QED
  BY <1>5, <1>6

-----------------------------------------------------------------------------
(* What is kept of all files, function by function.                         *)

\* A step that works for f, and keeps what is claimed of f, keeps the files.
LEMMA FilesStep ==
  ASSUME NEW v, NEW w, Good(v), Good(w), NEW g, NEW g2, FilesKept(v, g),
         NEW f \in Fid, Others(v, w, f), \A h \in File \ {f} : g2[h] = g[h],
         f \in File => FileKept(w, f, g2[f]),
         (\A h \in File : g2[h] <= 1) => (\A h \in File : g[h] <= 1) /\ Claims(v, w, f)
  PROVE  FilesKept(w, g2)
<1>1. Apart(w)
  BY DEF Others
<1>2. ASSUME NEW h \in File PROVE FileKept(w, h, g2[h])
  <2>1. CASE h = f
    BY <2>1
  <2>2. CASE h # f
    <3>1. Same(v, w, h) /\ FileKept(v, h, g[h]) /\ g2[h] = g[h]
      BY <2>2 DEF Others, FilesKept
    <3>2. OwnedBy(w, h) = OwnedBy(v, h)
      BY <3>1, SameRecords
    <3>3. (Whole(v, h) => Whole(w, h)) /\ (Virgin(v, h) => Virgin(w, h))
      BY <3>1, SameKeeps
    <3>4. w.table[h] = v.table[h]
      BY <3>1 DEF Same
    <3>5. Spare(w, h) => Spare(v, h)
      BY <3>1, SameRecords DEF Spare
    <3>6. QED
      BY <3>1, <3>2, <3>3, <3>4, <3>5 DEF FileKept
  <2>3. QED
    BY <2>1, <2>2
<1>3. ASSUME \A h \in File : g2[h] <= 1 PROVE Accounted(w)
  <2>1. Accounted(v) /\ Claims(v, w, f)
    BY <1>3 DEF FilesKept
  <2>2. SUFFICES ASSUME NEW p \in Block, w.ctab[p].fid = CLAIMED
                 PROVE  \E h \in File : w.table[h].sec = p[1]
    BY DEF Accounted
  <2>3. p[1] # 0
    <3>1. p[1] = 0 => w.ctab[p].fid = 0
      BY DEF Good, RootKept, Formatted
    <3>2. QED
      BY <2>2, <3>1 DEF CLAIMED
  <2>4. CASE p[1] = w.table[f].sec
    <3>1. f # 0
      <4>1. w.table[0].sec = 0
        BY RootFid DEF Good, RootKept, Formatted
      <4>2. QED
        BY <2>3, <2>4, <4>1
    <3>2. QED
      BY <2>4, <3>1 DEF File
  <2>5. CASE p[1] # w.table[f].sec
    <3>1. v.ctab[p].fid = CLAIMED
      BY <2>1, <2>2, <2>5 DEF Claims
    <3>2. PICK h \in File : v.table[h].sec = p[1]
      BY <2>1, <3>1 DEF Accounted
    <3>3. h # f
      BY <2>1, <2>3, <2>5, <3>2 DEF Claims
    <3>4. w.table[h] = v.table[h]
      BY <3>3 DEF Others, Same
    <3>5. QED
      BY <3>2, <3>4
  <2>6. QED
    BY <2>4, <2>5
<1>4. QED
  BY <1>1, <1>2, <1>3 DEF FilesKept

\* The same for a function that changes caches only.
LEMMA CachesStep ==
  ASSUME NEW v, NEW w, Good(v), Good(w), NEW g, FilesKept(v, g), NEW f \in Fid,
         CachesOnly(v, w, f), f \in File => f \in Live(v) /\ (g[f] = 1 => Whole(w, f))
  PROVE  FilesKept(w, g) /\ w.table = v.table /\ Live(w) = Live(v)
<1>1. Others(v, w, f) /\ Claims(v, w, f)
  BY CachesOthers DEF FilesKept
<1>2. w.table = v.table /\ Live(w) = Live(v)
  BY DEF CachesOnly, Still, Live
<1>3. ASSUME f \in File PROVE FileKept(w, f, g[f])
  <2>1. FileKept(v, f, g[f]) /\ v.table[f].lnk # 0
    BY <1>3 DEF FilesKept, Live
  <2>2. QED
    BY <1>2, <1>3, <2>1 DEF FileKept, Virgin
<1>4. QED
  BY <1>1, <1>2, <1>3, FilesStep

\* Every count is a number.
Counts(g) == g \in [Fid -> 0..MaxGen]

\* A live file has an identifier that was handed out.
LEMMA LiveCount ==
  ASSUME NEW v, NEW g, Counts(g), FilesKept(v, g), NEW f \in Live(v)
  PROVE  f \in File /\ f \in Fid /\ v.table[f].lnk = 1
         /\ ((g[f] = 1 /\ Whole(v, f)) \/ g[f] > 1)
<1>1. f \in File /\ f \in Fid /\ v.table[f].lnk # 0
  BY RootFid DEF Live
<1>2. FileKept(v, f, g[f]) /\ g[f] \in 0..MaxGen
  BY <1>1 DEF FilesKept, Counts
<1>3. v.table[f].lnk = 1 /\ g[f] # 0
  BY <1>1, <1>2 DEF FileKept, Virgin
<1>4. g[f] = 1 \/ g[f] > 1
  BY <1>2, <1>3, VolumeAssumption
<1>5. g[f] = 1 => Whole(v, f)
  BY <1>1, <1>2 DEF FileKept
<1>6. QED
  BY <1>1, <1>2, <1>3, <1>4, <1>5

\* dev_get_file_seq ends up or misuses memory.
LEMMA GetSeqStatus ==
  ASSUME NEW v, Good(v), NEW f \in Fid, v.status = "up"
  PROVE  dev_get_file_seq(v, f).status \in {"up", "undefined"}
<1> DEFINE w == dev_tbl_clrs_cnt(v, f)
           l == InfoOf(w, f, Listed(w))
           u == [w EXCEPT !.seqs[f] = l]
<1>1. w \in Volume /\ w.status = "up"
  BY ClrsCntGood DEF Good
<1>2. dev_get_file_seq(v, f) \in {v, Lost(w, "undefined"), u}
  BY DEF dev_get_file_seq
<1> HIDE DEF w, l
<1>3. Lost(w, "undefined").status = "undefined"
  BY <1>1, LostCaches
<1>4. u.status = "up"
  BY <1>1 DEF Volume
<1>5. QED
  BY <1>2, <1>3, <1>4

\* Reading the list of the root or of a live file keeps the files, and fails only
\* with an identifier that was used before.
LEMMA ReadKept ==
  ASSUME NEW v, Good(v), v.status = "up", NEW g, Counts(g), FilesKept(v, g),
         NEW f \in Fid, f \in File => f \in Live(v)
  PROVE  LET w == dev_get_file_seq(v, f)
         IN /\ Good(w) /\ FilesKept(w, g) /\ w.table = v.table /\ Live(w) = Live(v)
            /\ \/ w.status = "up" /\ (f \in File /\ g[f] = 1 => w.seqs[f] # {})
               \/ w.status = "undefined" /\ f \in File /\ g[f] > 1
<1> DEFINE w == dev_get_file_seq(v, f)
<1>1. Good(w) /\ CachesOnly(v, w, f)
  BY GetSeqGood, GetSeqCaches
<1>2. w.status \in {"up", "undefined"}
  BY GetSeqStatus
<1>3. f \notin File => w.status = "up"
  BY GetSeqRoot DEF File
<1>4. ASSUME f \in File
      PROVE  g[f] > 1 \/ (g[f] = 1 /\ w.status = "up" /\ Whole(w, f) /\ w.seqs[f] # {})
  <2>1. g[f] > 1 \/ (g[f] = 1 /\ Whole(v, f))
    BY <1>4, LiveCount
  <2>2. Whole(v, f) => w.status = "up" /\ Whole(w, f) /\ w.seqs[f] # {}
    BY <1>4, GetSeqWhole
  <2>3. QED
    BY <2>1, <2>2
<1> HIDE DEF w
<1>5. FilesKept(w, g) /\ w.table = v.table /\ Live(w) = Live(v)
  <2>1. f \in File => f \in Live(v) /\ (g[f] = 1 => Whole(w, f))
    <3>1. ASSUME g[f] > 1, g[f] = 1 PROVE FALSE
      BY <3>1
    <3>2. QED
      BY <1>4, <3>1
  <2>2. QED
    BY <1>1, <2>1, CachesStep
<1>6. QED
  BY <1>1, <1>2, <1>3, <1>4, <1>5 DEF w

\* Emptying a cached list keeps the files.
LEMMA SeqRmKept ==
  ASSUME NEW v, Good(v), NEW g, FilesKept(v, g), NEW f \in Fid, f \in File => f \in Live(v)
  PROVE  LET w == cache_seq_rm(v, f)
         IN FilesKept(w, g) /\ Live(w) = Live(v) /\ w.status = v.status
<1> DEFINE w == cache_seq_rm(v, f)
<1>1. Good(w) /\ CachesOnly(v, w, f) /\ w.seqs[f] = {} /\ w.clrs = v.clrs
      /\ w.status = v.status
  BY SeqRmGood, SeqRmCaches
<1> HIDE DEF w
<1>2. ASSUME f \in File, g[f] = 1 PROVE Whole(w, f)
  <2>1. Whole(v, f)
    BY <1>2 DEF FilesKept, FileKept, Live
  <2>2. w.table = v.table /\ w.ctab = v.ctab /\ w.secs = v.secs
    BY <1>1 DEF CachesOnly, Still
  <2>3. Cached(w, f)
    BY <1>1, <2>1, <2>2 DEF Whole, Cached, dev_tbl_load_fir, SecondOf
  <2>4. QED
    BY <1>1, <1>2, <2>1, <2>2, <2>3, CachesWhole
<1>3. FilesKept(w, g) /\ Live(w) = Live(v)
  BY <1>1, <1>2, CachesStep
<1>4. QED
  BY <1>1, <1>3 DEF w

\* Block counts are numbers.
LEMMA DirBlocksType == \A n \in Nat : DirBlocks(n) \in Int
<1> SUFFICES ASSUME NEW n \in Nat PROVE DirBlocks(n) \in Int
  OBVIOUS
<1>1. \A a, b \in Nat : a * b \in Nat
  OBVIOUS
<1>2. n * EntUnits \in Nat
  BY <1>1, VolumeAssumption
<1>3. \A m \in Nat : (m + HdrUnits + BlkUnits - 1) \div BlkUnits \in Int
  BY VolumeAssumption
<1>4. QED
  BY <1>2, <1>3, Zenon DEF DirBlocks

\* Writing the root directory keeps the files, and does not end only if its
\* entries need more blocks than cluster 0 has.
LEMMA WriteDirKept ==
  ASSUME NEW v, Good(v), v.status = "up", NEW g, FilesKept(v, g), NEW n \in Nat
  PROVE  LET w == dev_write_dir(v, n)
         IN /\ FilesKept(w, g) /\ w.table = v.table /\ Live(w) = Live(v)
            /\ w.status \in {"up", "hung", "exhausted"}
            /\ w.status = "hung" => DirBlocks(n) > BPC
<1> DEFINE w    == dev_get_file_seq(v, 0)
           lack == DirBlocks(n) - Cardinality(w.seqs[0])
           end  == SearchOutcome(w.bitmap, w.ctab, lack)
           how  == IF end = "up" THEN "hung" ELSE end
           x    == dev_write_dir(v, n)
<1>1. Good(x) /\ CachesOnly(v, x, 0) /\ 0 \in Fid /\ 0 \notin File
  BY RootFid, WriteDirGood, WriteDirCaches DEF File
<1>2. FilesKept(x, g) /\ x.table = v.table /\ Live(x) = Live(v)
  BY <1>1, CachesStep
<1>3. w.status = "up" /\ Cardinality(w.seqs[0]) = BPC
  BY GetSeqRoot
<1>4. w \in Volume
  BY RootFid, GetSeqGood DEF Good
<1>5. x = IF lack <= 0 THEN w ELSE Lost(w, how)
  BY <1>3 DEF dev_write_dir, If
<1>6. how \in {"hung", "exhausted"}
  BY DEF SearchOutcome
<1>7. lack = DirBlocks(n) - BPC
  BY <1>3
<1> HIDE DEF w, how, lack, x
<1>8. Lost(w, how).status = how
  BY <1>4, LostCaches
<1>9. ~(lack <= 0) => DirBlocks(n) > BPC
  BY <1>7, DirBlocksType, SizeAssumption, SMTT(30)
<1>10. QED
  BY <1>2, <1>3, <1>5, <1>6, <1>8, <1>9 DEF x

\* A new file: its entry, and its first block unless the bitmap is wrong.
AllocTakes(v, w, f, c, p0) ==
  /\ c \in Cluster /\ c # 0 /\ p0 \in Block /\ p0[1] = c /\ v.ctab[p0].fid = 0
  /\ w.ctab = [v.ctab EXCEPT ![p0] = [fid |-> f, num |-> 0]]

AllocEntry(w, f, c) ==
  w.table[f] = [lnk |-> 1, clrs |-> [i \in 1..Direct |-> IF i = 1 THEN c ELSE 0], sec |-> 0]

AllocDone(v, w, f) ==
  /\ \A g \in Fid \ {f} : w.table[g] = v.table[g]
  /\ w.secs = v.secs /\ w.clrs = v.clrs /\ w.seqs = v.seqs /\ w.status = v.status
  /\ \E c \in Cluster : /\ AllocEntry(w, f, c)
                        /\ \/ \E p0 \in Block : AllocTakes(v, w, f, c, p0)
                           \/ w.ctab = v.ctab /\ ~WholeBytes

\* dev_file_alloc either exhausts the volume or has given the file its first block
\* and its first cluster.
LEMMA AllocFields ==
  ASSUME NEW v, Good(v), NEW f \in File
  PROVE  LET w == dev_file_alloc(v, f)
         IN w = Lost(v, "exhausted") \/ AllocDone(v, w, f)
<1> DEFINE C   == FreeClusters(v.bitmap)
           c   == Least(C)
           F   == {b \in Slot : v.ctab[<<c, b>>].fid = 0}
           p0  == <<c, Least(F)>>
           ent == [lnk |-> 1, clrs |-> [i \in 1..Direct |-> IF i = 1 THEN c ELSE 0], sec |-> 0]
           ct  == [v.ctab EXCEPT ![p0] = [fid |-> f, num |-> 0]]
           bm  == dev_upd_bitmap(v.bitmap, ct, {c})
           t   == [v EXCEPT !.table[f] = ent]
           u   == [v EXCEPT !.table[f] = ent, !.ctab = ct, !.bitmap = bm]
           w   == dev_file_alloc(v, f)
<1>1. v \in Volume /\ f \in Fid /\ v.table \in Table
  BY RootFid, VolumeFields DEF Good
<1>2. CASE C = {}
  BY <1>2 DEF dev_file_alloc
<1>3. CASE C # {}
  <2>1. c \in C /\ c \in Cluster /\ c # 0
    <3>1. C \subseteq Cluster /\ Cluster \subseteq Int /\ IsFiniteSet(C)
      BY FreeIsCluster, FiniteVolume, FS_Subset, SizeAssumption, SMTT(30) DEF Cluster
    <3>2. c \in C
      BY <1>3, <3>1, LeastExists
    <3>3. QED
      BY <3>1, <3>2 DEF FreeClusters
  <2>2. CASE F = {}
    <3>1. w = t
      BY <1>3, <2>2 DEF dev_file_alloc
    <3>2. ~WholeBytes
      <4>1. v.bitmap[c] # 1
        BY <2>1 DEF FreeClusters
      <4>2. ~HasFree(v.ctab, c)
        BY <2>2 DEF HasFree
      <4>3. QED
        BY <2>1, <4>1, <4>2 DEF Good, Agrees
    <3> HIDE DEF c, w
    <3>3. t.table = [v.table EXCEPT ![f] = ent] /\ t.ctab = v.ctab /\ t.secs = v.secs
          /\ t.clrs = v.clrs /\ t.seqs = v.seqs /\ t.status = v.status
      BY <1>1 DEF Volume
    <3> HIDE DEF t, ent
    <3>4. t.table[f] = ent /\ \A g \in Fid \ {f} : t.table[g] = v.table[g]
      BY <1>1, <3>3 DEF Table
    <3>5. AllocEntry(t, f, c)
      BY <3>4 DEF AllocEntry, ent
    <3>6. AllocDone(v, t, f)
      BY <2>1, <3>2, <3>3, <3>4, <3>5 DEF AllocDone
    <3>7. QED
      BY <3>1, <3>6 DEF w
  <2>3. CASE F # {}
    <3>1. w = u
      BY <1>3, <2>3 DEF dev_file_alloc
    <3>2. Least(F) \in F
      <4>1. Slot \subseteq Int /\ IsFiniteSet(Slot)
        BY SizeAssumption, FiniteVolume, SMTT(30) DEF Slot
      <4>2. IsFiniteSet(F) /\ F \in SUBSET Int
        BY <4>1, FS_Subset
      <4>3. QED
        BY <2>3, <4>2, LeastExists
    <3>3. p0 \in Block /\ p0[1] = c /\ v.ctab[p0].fid = 0
      BY <2>1, <3>2 DEF Block
    <3> HIDE DEF c, p0, F, w, bm, ct
    <3>4. u.table = [v.table EXCEPT ![f] = ent] /\ u.ctab = ct /\ u.secs = v.secs
          /\ u.clrs = v.clrs /\ u.seqs = v.seqs /\ u.status = v.status
      BY <1>1 DEF Volume
    <3> HIDE DEF u, ent
    <3>5. u.table[f] = ent /\ \A g \in Fid \ {f} : u.table[g] = v.table[g]
      BY <1>1, <3>4 DEF Table
    <3>6. AllocEntry(u, f, c)
      BY <3>5 DEF AllocEntry, ent
    <3>7. AllocTakes(v, u, f, c, p0)
      BY <2>1, <3>3, <3>4 DEF AllocTakes, ct
    <3>8. AllocDone(v, u, f)
      BY <2>1, <3>3, <3>4, <3>5, <3>6, <3>7 DEF AllocDone
    <3>9. QED
      BY <3>1, <3>8 DEF w
  <2>4. QED
    BY <2>2, <2>3
<1>4. QED
  BY <1>2, <1>3

\* The other files are as they were.
LEMMA AllocOthers ==
  ASSUME NEW v, Good(v), Apart(v), NEW f \in File, NEW w, AllocDone(v, w, f)
  PROVE  /\ Others(v, w, f) /\ w.table[f].lnk = 1
         /\ v.table[f].sec = 0 => Claims(v, w, f)
<1>1. PICK c \in Cluster : /\ AllocEntry(w, f, c)
                           /\ \/ \E p0 \in Block : AllocTakes(v, w, f, c, p0)
                              \/ w.ctab = v.ctab /\ ~WholeBytes
  BY DEF AllocDone
<1>2. w.table[f].lnk = 1 /\ w.table[f].sec = 0
  BY <1>1 DEF AllocEntry
<1>3. \A g \in File : g \in Fid /\ g # 0 /\ g # CLAIMED
  BY RootFid DEF File, Fid, CLAIMED
<1>4. /\ \A g \in File \ {f} : w.table[g] = v.table[g]
      /\ w.secs = v.secs /\ w.clrs = v.clrs /\ w.seqs = v.seqs
  BY <1>3 DEF AllocDone
<1>5. \A p \in Block : w.ctab[p] = v.ctab[p] \/ (v.ctab[p].fid = 0 /\ w.ctab[p].fid = f)
  <2>1. CASE w.ctab = v.ctab
    BY <2>1
  <2>2. ASSUME NEW p0 \in Block, AllocTakes(v, w, f, c, p0)
        PROVE  \A p \in Block : w.ctab[p] = v.ctab[p] \/ (v.ctab[p].fid = 0 /\ w.ctab[p].fid = f)
    <3>1. v.ctab \in Ctab
      BY VolumeFields DEF Good
    <3>2. QED
      BY <2>2, <3>1 DEF AllocTakes, Ctab
  <2>3. QED
    BY <1>1, <2>1, <2>2
<1>6. ASSUME NEW g \in File \ {f} PROVE Same(v, w, g)
  <2>1. \A p \in Block : g \in {v.ctab[p].fid, w.ctab[p].fid} => w.ctab[p] = v.ctab[p]
    BY <1>3, <1>5
  <2>2. QED
    BY <1>4, <2>1 DEF Same
<1>7. Apart(w)
  <2>1. SUFFICES ASSUME NEW h \in File, w.table[h].sec # 0
                 PROVE  /\ \A b \in Slot : w.ctab[<<w.table[h].sec, b>>].fid = CLAIMED
                        /\ \A g \in File \ {h} : w.table[g].sec # w.table[h].sec
    BY DEF Apart
  <2>2. h # f /\ w.table[h] = v.table[h]
    BY <1>2, <1>4, <2>1
  <2>3. /\ \A b \in Slot : v.ctab[<<v.table[h].sec, b>>].fid = CLAIMED
        /\ \A g \in File \ {h} : v.table[g].sec # v.table[h].sec
    BY <2>1, <2>2 DEF Apart
  <2>4. v.table[h].sec \in Cluster
    BY <1>3, VolumeFields DEF Good, Table, Entry
  <2>5. ASSUME NEW b \in Slot PROVE w.ctab[<<w.table[h].sec, b>>].fid = CLAIMED
    <3>1. <<v.table[h].sec, b>> \in Block
      BY <2>4 DEF Block
    <3>2. v.ctab[<<v.table[h].sec, b>>].fid # 0
      BY <2>3 DEF CLAIMED
    <3>3. QED
      BY <1>5, <2>2, <2>3, <3>1, <3>2
  <2>6. \A g \in File \ {h} : w.table[g].sec # w.table[h].sec
    BY <1>2, <1>4, <2>1, <2>2, <2>3
  <2>7. QED
    BY <2>5, <2>6
<1>8. v.table[f].sec = 0 => Claims(v, w, f)
  BY <1>3, <1>5 DEF Claims
<1>9. QED
  BY <1>2, <1>6, <1>7, <1>8 DEF Others

\* A new identifier names a whole file then, unless no block was found.
LEMMA AllocWhole ==
  ASSUME NEW v, Good(v), NEW f \in File, Virgin(v, f), NEW w, w \in Volume, AllocDone(v, w, f)
  PROVE  Whole(w, f) \/ (OwnedBy(w, f) = {} /\ ~WholeBytes)
<1>1. PICK c \in Cluster : /\ AllocEntry(w, f, c)
                           /\ \/ \E p0 \in Block : AllocTakes(v, w, f, c, p0)
                              \/ w.ctab = v.ctab /\ ~WholeBytes
  BY DEF AllocDone
<1>2. CASE w.ctab = v.ctab /\ ~WholeBytes
  BY <1>2 DEF Virgin, OwnedBy
<1>3. ASSUME NEW p0 \in Block, AllocTakes(v, w, f, c, p0) PROVE Whole(w, f)
  <2>1. c # 0 /\ p0[1] = c /\ w.ctab = [v.ctab EXCEPT ![p0] = [fid |-> f, num |-> 0]]
    BY <1>3 DEF AllocTakes
  <2>2. Direct \in Nat /\ 1 \in 1..Direct
    BY VolumeAssumption
  <2>3. ShapedBy(w, f, 1)
    <3>1. w.table[f].sec = 0 /\ \A i \in 1..Direct : w.table[f].clrs[i] = IF i = 1 THEN c ELSE 0
      BY <1>1 DEF AllocEntry
    <3>2. \A i \in 1..Direct : i <= 1 <=> i = 1
      BY <2>2
    <3>3. QED
      BY <2>1, <2>2, <3>1, <3>2 DEF ShapedBy
  <2>4. OwnedBy(w, f) = {p0} /\ w.ctab[p0].num = 0
    <3>1. v.ctab \in Ctab /\ \A p \in Block : v.ctab[p].fid # f
      BY VolumeFields DEF Good, Virgin, OwnedBy
    <3>2. w.ctab[p0].fid = f /\ w.ctab[p0].num = 0 /\ \A p \in Block : p # p0 => w.ctab[p].fid # f
      BY <2>1, <3>1 DEF Ctab
    <3>3. QED
      BY <3>2 DEF OwnedBy
  <2>5. OwnedClusters(w, f) = {c}
    BY <2>1, <2>4 DEF OwnedClusters
  <2>6. SecondOf(w, f) = <<>>
    BY <1>1 DEF AllocEntry, SecondOf
  <2>7. ClustersOf(w, f) = {c}
    <3>1. Elems(<<>>) = {}
      BY DEF Elems
    <3>2. \A i \in 1..Direct : w.table[f].clrs[i] = IF i = 1 THEN c ELSE 0
      BY <1>1 DEF AllocEntry
    <3>3. {w.table[f].clrs[i] : i \in 1..Direct} \ {0} = {c}
      BY <2>1, <2>2, <3>2
    <3>4. QED
      BY <2>6, <3>1, <3>3 DEF ClustersOf
  <2>8. Counted(w, f)
    <3>1. Len(dev_tbl_load_fir(w, f)) = 1
      BY <2>3, LoadFirShaped
    <3>2. Cardinality({c}) = 1
      BY FS_Singleton
    <3>3. QED
      BY <2>6, <2>7, <3>1, <3>2 DEF Counted
  <2>9. Cached(w, f)
    BY DEF AllocDone, Virgin, Cached
  <2>10. Reached(w, f)
    BY <2>5, <2>7 DEF Reached
  <2>11. Numbered(w, f)
    <3>1. Cardinality(OwnedBy(w, f)) = 1
      BY <2>4, FS_Singleton
    <3>2. {w.ctab[p].num : p \in OwnedBy(w, f)} = {0}
      BY <2>4
    <3>3. 0..(1 - 1) = {0}
      OBVIOUS
    <3>4. w.seqs[f] = {}
      BY DEF AllocDone, Virgin
    <3> HIDE DEF OwnedBy
    <3>5. QED
      BY <3>1, <3>2, <3>3, <3>4 DEF Numbered
  <2>12. QED
    BY <2>2, <2>3, <2>8, <2>9, <2>10, <2>11 DEF Whole, Shaped
<1>4. QED
  BY <1>1, <1>2, <1>3

\* How a request may end: with the files kept, a search that does not end when
\* the root directory is full, memory misused when f was used before.
Ends(w, g, f) ==
  /\ w.status = "hung" => DirBlocks(Cardinality(Live(w))) > BPC
  /\ w.status = "undefined" => g[f] > 1

\* A look-up of a live file keeps the files.
LEMMA LookedKept ==
  ASSUME NEW v, Good(v), v.status = "up", NEW g, Counts(g), FilesKept(v, g), NEW f \in Live(v)
  PROVE  LET w == Looked(v, f)
         IN FilesKept(w, g) /\ w.table = v.table /\ Live(w) = Live(v) /\ Ends(w, g, f)
<1> DEFINE x == dev_get_file_seq(v, 0)
           w == dev_get_file_seq(x, f)
<1>1. f \in File /\ f \in Fid /\ 0 \in Fid /\ 0 \notin File
  BY RootFid DEF Live, File
<1>2. Good(x) /\ FilesKept(x, g) /\ x.table = v.table /\ Live(x) = Live(v) /\ x.status = "up"
  BY <1>1, ReadKept
<1>3. Looked(v, f) = w
  BY DEF Looked
<1> HIDE DEF x
<1>4. /\ FilesKept(w, g) /\ w.table = x.table /\ Live(w) = Live(x)
      /\ w.status = "up" \/ (w.status = "undefined" /\ g[f] > 1)
  BY <1>1, <1>2, ReadKept
<1> HIDE DEF w
<1>5. Ends(w, g, f)
  BY <1>4 DEF Ends
<1>6. QED
  BY <1>2, <1>3, <1>4, <1>5

\* Writing the header keeps the files.
LEMMA InitKept ==
  ASSUME NEW v, Good(v), v.status = "up", NEW g, Counts(g), FilesKept(v, g), NEW f \in Live(v)
  PROVE  LET w == dev_init_file(v, f)
         IN /\ Good(w) /\ FilesKept(w, g) /\ Live(w) = Live(v)
            /\ w.status = "up" \/ (w.status = "undefined" /\ g[f] > 1)
<1> DEFINE w == dev_init_file(v, f)
<1>1. f \in File /\ f \in Fid /\ ((g[f] = 1 /\ Whole(v, f)) \/ g[f] > 1)
  BY LiveCount
<1>2. Good(w) /\ CachesOnly(v, w, f)
  BY <1>1, InitGood, InitCaches
<1>3. w.status \in {"up", "undefined"} /\ (Whole(v, f) => w.status = "up" /\ Whole(w, f))
  BY <1>1, InitWhole
<1> HIDE DEF w
<1>4. g[f] = 1 => Whole(w, f)
  <2>1. ASSUME g[f] > 1, g[f] = 1 PROVE FALSE
    BY <2>1
  <2>2. QED
    BY <1>1, <1>3, <2>1
<1>5. FilesKept(w, g) /\ Live(w) = Live(v)
  BY <1>1, <1>2, <1>4, CachesStep
<1>6. QED
  BY <1>1, <1>2, <1>3, <1>5 DEF w

\* The live files can be counted.
LEMMA LiveFinite ==
  ASSUME NEW v
  PROVE  IsFiniteSet(Live(v)) /\ Cardinality(Live(v)) \in Nat
<1>1. IsFiniteSet(0..(NF - 1))
  BY VolumeAssumption, FS_Interval
<1>2. Live(v) \subseteq 0..(NF - 1)
  BY DEF Live, File, Fid
<1>3. QED
  BY <1>1, <1>2, FS_Subset, FS_CardinalityType

\* The rest of a creation, when the entry and the first block are written.
LEMMA CreatedRest ==
  ASSUME NEW v, Good(v), v.status = "up", NEW g, Counts(g), FilesKept(v, g), NEW f \in Live(v)
  PROVE  LET dir  == dev_write_dir(v, Cardinality(Live(v)))
             init == If(dir, dev_init_file(dir, f))
             w    == If(init, Looked(init, f))
         IN FilesKept(w, g) /\ Live(w) = Live(v) /\ Ends(w, g, f)
<1> DEFINE n    == Cardinality(Live(v))
           dir  == dev_write_dir(v, n)
           init == If(dir, dev_init_file(dir, f))
           w    == If(init, Looked(init, f))
<1>1. n \in Nat
  BY LiveFinite
<1>2. /\ Good(dir) /\ FilesKept(dir, g) /\ Live(dir) = Live(v)
      /\ dir.status \in {"up", "hung", "exhausted"}
      /\ dir.status = "hung" => DirBlocks(n) > BPC
  BY <1>1, WriteDirGood, WriteDirKept
<1> HIDE DEF dir
<1>3. CASE dir.status # "up"
  <2>1. w = dir
    BY <1>3 DEF If
  <2>2. Ends(dir, g, f)
    BY <1>2 DEF Ends
  <2>3. QED
    BY <1>2, <2>1, <2>2 DEF dir
<1>4. CASE dir.status = "up"
  <2>1. init = dev_init_file(dir, f)
    BY <1>4 DEF If
  <2>2. /\ Good(init) /\ FilesKept(init, g) /\ Live(init) = Live(v)
        /\ init.status = "up" \/ (init.status = "undefined" /\ g[f] > 1)
    BY <1>2, <1>4, <2>1, InitKept
  <2> HIDE DEF init
  <2>3. CASE init.status # "up"
    <3>1. w = init
      BY <2>3 DEF If
    <3>2. Ends(init, g, f)
      BY <2>2, <2>3 DEF Ends
    <3>3. QED
      BY <2>2, <3>1, <3>2 DEF init, dir
  <2>4. CASE init.status = "up"
    <3>1. w = Looked(init, f)
      BY <2>4 DEF If
    <3>2. FilesKept(w, g) /\ Live(w) = Live(v) /\ Ends(w, g, f)
      BY <2>2, <2>4, <3>1, LookedKept
    <3>3. QED
      BY <3>2 DEF init, dir
  <2>5. QED
    BY <2>3, <2>4
<1>5. QED
  BY <1>3, <1>4

\* A new entry, with its first block for a new identifier, keeps the files.
LEMMA AllocKept ==
  ASSUME NEW v, Good(v), NEW g, FilesKept(v, g), NEW f \in File,
         NEW w, Good(w), AllocDone(v, w, f), NEW g2, g[f] \in Nat, g2[f] = g[f] + 1,
         \A h \in File \ {f} : g2[h] = g[h], g[f] = 0 => Whole(w, f)
  PROVE  FilesKept(w, g2)
<1>1. /\ Others(v, w, f) /\ w.table[f].lnk = 1
      /\ v.table[f].sec = 0 => Claims(v, w, f)
  BY AllocOthers DEF FilesKept
<1>2. FileKept(w, f, g2[f])
  <2>1. g2[f] # 0 /\ (g2[f] = 1 => Whole(w, f))
    OBVIOUS
  <2>2. QED
    BY <1>1, <2>1 DEF FileKept
<1>3. ASSUME \A h \in File : g2[h] <= 1
      PROVE  (\A h \in File : g[h] <= 1) /\ Claims(v, w, f)
  <2>1. g[f] = 0
    BY <1>3
  <2>2. v.table[f].sec = 0
    BY <2>1 DEF FilesKept, FileKept, Virgin
  <2>3. \A h \in File : g[h] <= 1
    BY <1>3, <2>1
  <2>4. QED
    BY <1>1, <2>2, <2>3
<1>4. f \in Fid
  BY RootFid
<1>5. QED
  BY <1>1, <1>2, <1>3, <1>4, FilesStep

\* A creation with an identifier that is free.
LEMMA CreatedKept ==
  ASSUME NEW v, Good(v), v.status = "up", NEW g, Counts(g), FilesKept(v, g),
         NEW f \in File, v.table[f].lnk = 0,
         NEW g2, Counts(g2), g2[f] = g[f] + 1, \A h \in File \ {f} : g2[h] = g[h]
  PROVE  LET w == Created(v, f)
         IN /\ w.status = "up" => FilesKept(w, g2) /\ Live(w) = Live(v) \cup {f}
            /\ WholeBytes => Ends(w, g2, f)
<1> DEFINE read  == dev_get_file_seq(v, 0)
           a     == dev_file_alloc(read, f)
           n     == Cardinality(Live(read)) + 1
           alloc == If(read, a)
           dir   == If(alloc, dev_write_dir(alloc, n))
           init  == If(dir, dev_init_file(dir, f))
           w     == If(init, Looked(init, f))
<1>1. f \in Fid /\ 0 \in Fid /\ 0 \notin File
  BY RootFid DEF File
<1>2. Good(read) /\ FilesKept(read, g) /\ read.table = v.table /\ Live(read) = Live(v)
      /\ read.status = "up" /\ read \in Volume
  BY <1>1, ReadKept DEF Good
<1>3. Created(v, f) = w
  BY DEF Created
<1> HIDE DEF read
<1>4. alloc = a
  BY <1>2 DEF If
<1>5. a = Lost(read, "exhausted") \/ AllocDone(read, a, f)
  BY <1>2, AllocFields
<1>6. Good(a)
  BY <1>2, AllocGood
<1> HIDE DEF a, alloc
<1>7. CASE a = Lost(read, "exhausted")
  <2>1. a.status = "exhausted"
    BY <1>2, <1>7, LostCaches
  <2>2. w = a
    BY <1>4, <2>1 DEF If
  <2>3. QED
    BY <1>3, <2>1, <2>2 DEF Ends
<1>8. CASE AllocDone(read, a, f)
  <2>1. /\ Others(read, a, f) /\ a.table[f].lnk = 1
        /\ read.table[f].sec = 0 => Claims(read, a, f)
    BY <1>2, <1>8, AllocOthers DEF FilesKept
  <2>2. a.status = "up" /\ \A h \in Fid \ {f} : a.table[h] = read.table[h]
    BY <1>2, <1>8 DEF AllocDone
  <2>3. Live(a) = Live(v) \cup {f} /\ f \notin Live(v) /\ f \in Live(a)
    <3>1. \A h \in File : h \in Fid
      BY RootFid
    <3>2. QED
      BY <1>2, <2>1, <2>2, <3>1 DEF Live
  <2>4. Cardinality(Live(a)) = n
    <3>1. IsFiniteSet(Live(v))
      BY LiveFinite
    <3>2. Cardinality(Live(v) \cup {f}) = Cardinality(Live(v)) + 1
      BY <2>3, <3>1, FS_AddElement
    <3>3. QED
      BY <1>2, <2>3, <3>2
  <2>5. dir = dev_write_dir(a, Cardinality(Live(a)))
    BY <1>4, <2>2, <2>4 DEF If
  <2>6. g[f] \in Nat
    BY <1>1, VolumeAssumption DEF Counts
  <2>7. g[f] = 0 => Virgin(read, f)
    BY <1>2 DEF FilesKept, FileKept
  <2>8. CASE g[f] = 0 /\ ~Whole(a, f)
    <3>1. OwnedBy(a, f) = {} /\ ~WholeBytes
      BY <1>2, <1>6, <1>8, <2>7, <2>8, AllocWhole DEF Good
    <3>2. Good(dir) /\ Still(a, dir)
      BY <1>6, <2>5, WriteDirGood
    <3> HIDE DEF dir
    <3>3. OwnedBy(dir, f) = {}
      BY <3>1, <3>2 DEF Still, OwnedBy
    <3>4. dir.status = "up" => init.status = "undefined"
      BY <3>2, <3>3, InitWhole DEF If
    <3>5. init.status # "up"
      BY <3>4 DEF If
    <3> HIDE DEF init
    <3>6. w.status # "up"
      BY <3>5 DEF If
    <3>7. QED
      BY <1>3, <3>1, <3>6 DEF init, dir
  <2>9. CASE ~(g[f] = 0 /\ ~Whole(a, f))
    <3>1. g[f] = 0 => Whole(a, f)
      BY <2>9
    <3>2. Good(read) /\ FilesKept(read, g)
      BY <1>2
    <3>3. FilesKept(a, g2)
      BY <1>6, <1>8, <2>6, <3>1, <3>2, AllocKept
    <3> DEFINE d == dev_write_dir(a, Cardinality(Live(a)))
               i == If(d, dev_init_file(d, f))
               x == If(i, Looked(i, f))
    <3>4. FilesKept(x, g2) /\ Live(x) = Live(a) /\ Ends(x, g2, f)
      BY <1>6, <2>2, <2>3, <3>3, CreatedRest
    <3>5. w = x
      BY <2>5
    <3> HIDE DEF w, x
    <3>6. QED
      BY <1>3, <2>3, <3>4, <3>5
  <2>10. QED
    BY <2>8, <2>9
<1>9. QED
  BY <1>5, <1>7, <1>8

\* Freeing the blocks of f leaves the other files as they are, and none to f if
\* its list had room for all clusters.
LEMMA RemovedKept ==
  ASSUME NEW v, Good(v), NEW g, Counts(g), FilesKept(v, g), NEW f \in Live(v)
  PROVE  LET r == Removed(v, f)
         IN /\ Good(r) /\ FilesKept(r, g) /\ Live(r) = Live(v) \ {f}
            /\ r.status = v.status
            /\ dev_rm_file(v, f) = dev_write_dir(r, Cardinality(Live(r)))
<1> DEFINE r == Removed(v, f)
           w == dev_tbl_clrs_cnt(v, f)
<1>1. f \in File /\ f \in Fid /\ v.table[f].lnk = 1 /\ ((g[f] = 1 /\ Whole(v, f)) \/ g[f] > 1)
      /\ g[f] \in Nat
  BY LiveCount, VolumeAssumption DEF Counts
<1>2. Good(r) /\ Removes(v, r, f)
      /\ dev_rm_file(v, f) = dev_write_dir(r, Cardinality(Live(r)))
  <2>1. (v.table[f].lnk - 1) % 256 = 0
    BY <1>1
  <2>2. QED
    BY <1>1, <2>1, RmGood
<1>3. Whole(v, f) => Listed(w) = ClustersOf(v, f)
  BY <1>1, SwitchWhole
<1> HIDE DEF r
<1>4. r.table[f].lnk = 0 /\ r.table[f].sec = v.table[f].sec
      /\ \A h \in Fid \ {f} : r.table[h] = v.table[h]
  <2>1. v.table \in Table
    BY VolumeFields DEF Good
  <2>2. (v.table[f].lnk - 1) % 256 = 0
    BY <1>1
  <2>3. r.table = [v.table EXCEPT ![f].lnk = (v.table[f].lnk - 1) % 256]
    BY <1>2 DEF Removes
  <2>4. v.table \in [Fid -> Entry] /\ v.table[f] \in Entry
    BY <1>1, <2>1 DEF Table
  <2>5. QED
    BY <1>1, <2>2, <2>3, <2>4 DEF Entry
<1>5. \A p \in Block : r.ctab[p] = IF p[1] \in Listed(w) /\ v.ctab[p].fid = f
                                   THEN FreeEntry ELSE v.ctab[p]
  BY <1>2 DEF Removes
<1>6. r.secs = v.secs /\ r.seqs = v.seqs /\ r.status = v.status /\ r.clrs.fid = f
  BY <1>2 DEF Removes
<1> HIDE DEF w
<1>7. \A h \in File : h \in Fid /\ h # 0 /\ h # CLAIMED
  BY RootFid DEF File, Fid, CLAIMED
<1>8. \A p \in Block : r.ctab[p] = v.ctab[p] \/ (v.ctab[p].fid = f /\ r.ctab[p].fid = 0)
  BY <1>5 DEF FreeEntry
<1>9. ASSUME NEW h \in File \ {f} PROVE Same(v, r, h)
  <2>1. \A p \in Block : h \in {v.ctab[p].fid, r.ctab[p].fid} => r.ctab[p] = v.ctab[p]
    BY <1>7, <1>8
  <2>2. r.table[h] = v.table[h]
    BY <1>4, <1>7
  <2>3. QED
    BY <1>6, <2>1, <2>2 DEF Same
<1>10. \A h \in File : r.table[h].sec = v.table[h].sec
  BY <1>4, <1>7
<1>11. Apart(r)
  <2>1. SUFFICES ASSUME NEW h \in File, v.table[h].sec # 0, NEW b \in Slot
                 PROVE  r.ctab[<<v.table[h].sec, b>>].fid = CLAIMED
    BY <1>10 DEF FilesKept, Apart
  <2>2. v.ctab[<<v.table[h].sec, b>>].fid = CLAIMED
    BY <2>1 DEF FilesKept, Apart
  <2>3. v.table[h].sec \in Cluster
    BY <1>7, VolumeFields DEF Good, Table, Entry
  <2>4. <<v.table[h].sec, b>> \in Block
    BY <2>3 DEF Block
  <2>5. QED
    BY <1>1, <1>7, <1>8, <2>2, <2>4
<1>12. Claims(v, r, f)
  <2>1. \A p \in Block : r.ctab[p].fid = CLAIMED => v.ctab[p].fid = CLAIMED
    BY <1>8 DEF CLAIMED
  <2>2. QED
    BY <1>4, <2>1 DEF Claims
<1>13. ASSUME g[f] = 1, Spare(r, f) PROVE OwnedBy(r, f) = {}
  <2>1. Whole(v, f)
    BY <1>1, <1>13
  <2>2. Spare(v, f)
    <3>1. r.table[f].clrs = v.table[f].clrs
      BY <1>2 DEF Removes
    <3>2. ClustersOf(r, f) = ClustersOf(v, f)
      BY <1>4, <1>6, <3>1 DEF ClustersOf, SecondOf
    <3>3. QED
      BY <1>13, <3>2 DEF Spare
  <2>3. OwnedClusters(v, f) = Listed(w)
    BY <1>1, <1>3, <2>1, <2>2, RoomReached DEF Whole
  <2>4. ASSUME NEW p \in Block PROVE r.ctab[p].fid # f
    <3>1. CASE v.ctab[p].fid = f
      <4>1. p[1] \in Listed(w)
        BY <2>3, <3>1 DEF OwnedClusters, OwnedBy
      <4>2. QED
        BY <1>1, <1>5, <1>7, <3>1, <4>1 DEF FreeEntry
    <3>2. CASE v.ctab[p].fid # f
      BY <1>8, <3>2
    <3>3. QED
      BY <3>1, <3>2
  <2>5. QED
    BY <2>4 DEF OwnedBy
<1>14. FileKept(r, f, g[f])
  <2>1. g[f] # 0
    BY <1>1
  <2>2. QED
    BY <1>4, <1>13, <2>1 DEF FileKept
<1>15. Others(v, r, f)
  BY <1>9, <1>11 DEF Others
<1>16. FilesKept(r, g)
  BY <1>1, <1>2, <1>12, <1>14, <1>15, FilesStep
<1>17. Live(r) = Live(v) \ {f}
  BY <1>4, <1>7 DEF Live
<1>18. QED
  BY <1>2, <1>6, <1>16, <1>17 DEF r

\* Removing a live file keeps the others, and rewrites the directory.
LEMMA RmKept ==
  ASSUME NEW v, Good(v), v.status = "up", NEW g, Counts(g), FilesKept(v, g), NEW f \in Live(v)
  PROVE  LET w == dev_rm_file(v, f)
         IN /\ FilesKept(w, g) /\ Live(w) = Live(v) \ {f} /\ Ends(w, g, f)
<1> DEFINE r == Removed(v, f)
           n == Cardinality(Live(r))
           w == dev_write_dir(r, n)
<1>1. Good(r) /\ FilesKept(r, g) /\ Live(r) = Live(v) \ {f} /\ r.status = "up"
      /\ dev_rm_file(v, f) = w
  BY RemovedKept
<1>2. n \in Nat
  BY LiveFinite
<1> HIDE DEF r
<1>3. /\ FilesKept(w, g) /\ Live(w) = Live(r)
      /\ w.status \in {"up", "hung", "exhausted"}
      /\ w.status = "hung" => DirBlocks(n) > BPC
  BY <1>1, <1>2, WriteDirKept
<1> HIDE DEF w
<1>4. Ends(w, g, f)
  BY <1>3 DEF Ends
<1>5. QED
  BY <1>1, <1>3, <1>4

\* A write extends a live file, whose list is read before.
LEMMA ExtdKept ==
  ASSUME NEW v, Good(v), v.status = "up", NEW g, Counts(g), FilesKept(v, g), NEW f \in Live(v),
         g[f] = 1 => v.seqs[f] # {}, NEW n
  PROVE  LET w == dev_extd_blk_list(v, f, n)
         IN /\ w.status = "up" => FilesKept(w, g)
            /\ \A h \in Live(v) : h \in Live(w)
            /\ WholeBytes => Ends(w, g, f)
<1> DEFINE w == dev_extd_blk_list(v, f, n)
<1>1. f \in File /\ f \in Fid /\ v.table[f].lnk = 1 /\ ((g[f] = 1 /\ Whole(v, f)) \/ g[f] > 1)
      /\ g[f] \in Nat
  BY LiveCount, VolumeAssumption DEF Counts
<1>2. Good(w)
  BY <1>1, ExtdGood
<1>3. /\ Others(v, w, f) /\ w.table[f].lnk = 1
      /\ WholeBytes => w.status # "hung"
  BY <1>1, ExtdOthers DEF FilesKept
<1>4. ASSUME g[f] = 1
      PROVE  /\ Claims(v, w, f) /\ w.status \in {"up", "hung", "exhausted"}
             /\ w.status = "up" => Whole(w, f)
  <2>1. Whole(v, f) /\ v.seqs[f] # {}
    BY <1>1, <1>4
  <2>2. QED
    BY <1>1, <2>1, ExtdWhole DEF FilesKept
<1> HIDE DEF w
<1>5. ASSUME w.status = "up" PROVE FilesKept(w, g)
  <2>1. FileKept(w, f, g[f])
    <3>1. g[f] # 0
      BY <1>1
    <3>2. QED
      BY <1>3, <1>4, <1>5, <3>1 DEF FileKept
  <2>2. (\A h \in File : g[h] <= 1) => (\A h \in File : g[h] <= 1) /\ Claims(v, w, f)
    <3>1. g[f] > 1 => ~(g[f] <= 1)
      BY <1>1
    <3>2. QED
      BY <1>1, <1>4, <3>1
  <2>3. QED
    BY <1>1, <1>2, <1>3, <2>1, <2>2, FilesStep
<1>6. \A h \in Live(v) : h \in Live(w)
  BY <1>3 DEF Live, Others, Same
<1>7. WholeBytes => Ends(w, g, f)
  <2>1. w.status = "undefined" => g[f] > 1
    BY <1>1, <1>4
  <2>2. QED
    BY <1>3, <2>1 DEF Ends
<1>8. QED
  BY <1>5, <1>6, <1>7 DEF w

-----------------------------------------------------------------------------
(* The requests.                                                            *)

\* What the invariant says while the process runs.
LEMMA HoldsBefore == FInv /\ Running =>
  /\ Good(vol) /\ vol.status = "up" /\ Counts(gen) /\ opened \subseteq Handle
  /\ FilesKept(vol, gen) /\ HandlesKept(vol, opened)
BY DEF FInv, IInv, Bounds, Counts, FilesHold, Running

\* What is to be shown of a request that works for f.
LEMMA HoldsAfter ==
  ASSUME vol'.status = "up" => FilesKept(vol', gen') /\ HandlesKept(vol', opened'),
         NEW f \in File, WholeBytes => Ends(vol', gen', f)
  PROVE  FilesHold'
<1>1. Running' => (FilesKept(vol, gen) /\ HandlesKept(vol, opened))'
  BY DEF Running
<1>2. WholeBytes => LossExplained'
  BY DEF LossExplained, Ends
<1>3. QED
  BY <1>1, <1>2 DEF FilesHold

\* And of one that does not fail.
LEMMA HoldsAfterUp ==
  ASSUME vol'.status = "up", FilesKept(vol', gen'), HandlesKept(vol', opened')
  PROVE  FilesHold'
BY DEF FilesHold, Running, LossExplained

\* Handles stay those of live files as long as their files live.
LEMMA HandlesStay ==
  ASSUME NEW v, NEW o, HandlesKept(v, o), NEW w, \A h \in o : h.file \in Live(v) => h.file \in Live(w)
  PROVE  HandlesKept(w, o)
BY DEF HandlesKept

\* ops_create: a free entry becomes a file with a first block.
LEMMA CreateHolds == FInv /\ ops_create => FilesHold'
<1> SUFFICES ASSUME FInv, ops_create PROVE FilesHold'
  OBVIOUS
<1> DEFINE f == Least(FreeFids(vol))
<1>1. /\ Good(vol) /\ vol.status = "up" /\ Counts(gen) /\ opened \subseteq Handle
      /\ FilesKept(vol, gen) /\ HandlesKept(vol, opened)
  BY HoldsBefore DEF ops_create
<1>2. CASE FreeFids(vol) = {}
  <2>1. vol' = Lost(vol, "undefined")
    BY <1>2 DEF ops_create
  <2>2. vol'.status = "undefined" /\ vol'.table = vol.table
    BY <1>1, <2>1, LostCaches DEF Good, CachesOnly, Still
  <2>3. FreeFids(vol') = {}
    BY <1>2, <2>2 DEF FreeFids
  <2>4. QED
    BY <2>2, <2>3 DEF FilesHold, Running, LossExplained
<1>3. CASE FreeFids(vol) # {}
  <2>1. f \in File /\ vol.table[f].lnk = 0 /\ f \in Fid
    <3>1. FreeFids(vol) \subseteq 0..(NF - 1) /\ IsFiniteSet(0..(NF - 1))
          /\ 0..(NF - 1) \in SUBSET Int
      BY VolumeAssumption, FS_Interval DEF FreeFids, File, Fid
    <3>2. IsFiniteSet(FreeFids(vol)) /\ FreeFids(vol) \in SUBSET Int
      BY <3>1, FS_Subset
    <3>3. f \in FreeFids(vol)
      BY <1>3, <3>2, LeastExists
    <3>4. QED
      BY <3>3, RootFid DEF FreeFids
  <2>2. /\ vol' = Created(vol, f) /\ gen' = [gen EXCEPT ![f] = @ + 1]
        /\ opened' = opened \cup {[file |-> f, fh |-> 0]}
    BY <1>3 DEF ops_create
  <2> HIDE DEF f
  <2>3. Counts(gen')
    BY <1>3, <2>1, CreateGood DEF FInv, IInv, Bounds, Counts
  <2>4. gen'[f] = gen[f] + 1 /\ \A h \in File \ {f} : gen'[h] = gen[h]
    BY <1>1, <2>1, <2>2, RootFid DEF Counts
  <2>5. /\ vol'.status = "up" => FilesKept(vol', gen') /\ Live(vol') = Live(vol) \cup {f}
        /\ WholeBytes => Ends(vol', gen', f)
    BY <1>1, <2>1, <2>2, <2>3, <2>4, CreatedKept
  <2>6. ASSUME vol'.status = "up" PROVE HandlesKept(vol', opened')
    <3>1. Live(vol') = Live(vol) \cup {f}
      BY <2>5, <2>6
    <3>2. HandlesKept(vol', opened)
      BY <1>1, <3>1, HandlesStay
    <3>3. QED
      BY <2>2, <3>1, <3>2 DEF HandlesKept
  <2>7. QED
    BY <2>1, <2>5, <2>6, HoldsAfter
<1>4. QED
  BY <1>2, <1>3

\* ops_readdir fills caches.
LEMMA ReaddirHolds == FInv /\ ops_readdir => FilesHold'
<1> SUFFICES ASSUME FInv, ops_readdir PROVE FilesHold'
  OBVIOUS
<1>1. /\ Good(vol) /\ vol.status = "up" /\ Counts(gen)
      /\ FilesKept(vol, gen) /\ HandlesKept(vol, opened)
  BY HoldsBefore DEF ops_readdir
<1>2. vol' = dev_get_file_seq(vol, 0) /\ opened' = opened /\ gen' = gen
  BY DEF ops_readdir
<1>3. 0 \in Fid /\ 0 \notin File
  BY RootFid DEF File
<1>4. FilesKept(vol', gen) /\ Live(vol') = Live(vol) /\ vol'.status = "up"
  BY <1>1, <1>2, <1>3, ReadKept
<1>5. HandlesKept(vol', opened)
  BY <1>1, <1>4, HandlesStay
<1>6. QED
  BY <1>2, <1>4, <1>5, HoldsAfterUp

\* ops_release drops the file's numbers from the cache and closes the handle.
LEMMA ReleaseHolds ==
  ASSUME FInv, Running, NEW f \in Fid, f \in File => f \in Live(vol), NEW o \in SUBSET opened,
         vol' = cache_seq_rm(vol, f), opened' = o, gen' = gen
  PROVE  FilesHold'
<1>1. /\ Good(vol) /\ vol.status = "up" /\ Counts(gen)
      /\ FilesKept(vol, gen) /\ HandlesKept(vol, opened)
  BY HoldsBefore
<1>2. FilesKept(vol', gen) /\ Live(vol') = Live(vol) /\ vol'.status = "up"
  BY <1>1, SeqRmKept
<1>3. HandlesKept(vol', opened')
  BY <1>1, <1>2 DEF HandlesKept
<1>4. QED
  BY <1>2, <1>3, HoldsAfterUp

\* A mount empties the caches: what the tables record is the same.
LEMMA RemountHolds == FInv /\ Remount => FilesHold'
<1> SUFFICES ASSUME FInv, Remount PROVE FilesHold'
  OBVIOUS
<1>1. /\ Good(vol) /\ vol.status = "up" /\ vol \in Volume
      /\ FilesKept(vol, gen) /\ HandlesKept(vol, opened)
  BY HoldsBefore DEF Remount, Good
<1>2. /\ vol'.table = vol.table /\ vol'.ctab = vol.ctab /\ vol'.secs = vol.secs
      /\ vol'.clrs = NoClrs /\ vol'.seqs = NoSeqs /\ vol'.status = "up"
      /\ opened' = opened /\ gen' = gen
  BY <1>1 DEF Remount, Volume
<1>3. Live(vol') = Live(vol)
  BY <1>2 DEF Live
<1>4. \A f \in File : f # -1 /\ f \in Fid
  BY RootFid DEF File, Fid
<1>5. \A f \in File : vol'.clrs.fid # f /\ vol'.seqs[f] = {}
  BY <1>2, <1>4 DEF NoClrs, NoSeqs
<1>6. ASSUME NEW f \in File PROVE FileKept(vol', f, gen'[f])
  <2>1. FileKept(vol, f, gen[f])
    BY <1>1 DEF FilesKept
  <2>2. Whole(vol, f) => Whole(vol', f)
    BY <1>2, <1>5, CachesWhole DEF Cached
  <2>3. Virgin(vol, f) => Virgin(vol', f)
    BY <1>2, <1>5 DEF Virgin, OwnedBy
  <2>4. OwnedBy(vol', f) = OwnedBy(vol, f)
    BY <1>2 DEF OwnedBy
  <2>5. Spare(vol', f) => Spare(vol, f)
    BY <1>2 DEF Spare, ClustersOf, SecondOf
  <2>6. QED
    BY <1>2, <2>1, <2>2, <2>3, <2>4, <2>5 DEF FileKept
<1>7. FilesKept(vol', gen')
  BY <1>1, <1>2, <1>6 DEF FilesKept, Apart, Accounted
<1>8. HandlesKept(vol', opened')
  BY <1>1, <1>2, <1>3, HandlesStay
<1>9. QED
  BY <1>2, <1>7, <1>8, HoldsAfterUp

\* ops_getattr fills caches.
LEMMA GetattrHolds == \A f \in File : FInv /\ ops_getattr(f) => FilesHold'
<1> SUFFICES ASSUME NEW f \in File, FInv, ops_getattr(f) PROVE FilesHold'
  OBVIOUS
<1>1. /\ Good(vol) /\ vol.status = "up" /\ Counts(gen)
      /\ FilesKept(vol, gen) /\ HandlesKept(vol, opened)
  BY HoldsBefore DEF ops_getattr
<1>2. f \in Live(vol) /\ vol' = Looked(vol, f) /\ opened' = opened /\ gen' = gen
  BY DEF ops_getattr
<1>3. FilesKept(vol', gen) /\ Live(vol') = Live(vol) /\ Ends(vol', gen, f)
  BY <1>1, <1>2, LookedKept
<1>4. HandlesKept(vol', opened)
  BY <1>1, <1>3, HandlesStay
<1>5. QED
  BY <1>2, <1>3, <1>4, HoldsAfter

\* ops_open adds a handle and no more.
LEMMA OpenHolds == \A f \in File : FInv /\ ops_open(f) => FilesHold'
<1> SUFFICES ASSUME NEW f \in File, FInv, ops_open(f) PROVE FilesHold'
  OBVIOUS
<1>1. vol.status = "up" /\ FilesKept(vol, gen) /\ HandlesKept(vol, opened)
  BY HoldsBefore DEF ops_open
<1>2. f \in Live(vol) /\ vol' = vol /\ gen' = gen /\ opened' = opened \cup {[file |-> f, fh |-> f]}
  BY DEF ops_open
<1>3. HandlesKept(vol', opened')
  BY <1>1, <1>2 DEF HandlesKept
<1>4. QED
  BY <1>1, <1>2, <1>3, HoldsAfterUp

\* ops_unlink: the file's clusters are given back; its handles are closed already.
LEMMA UnlinkHolds == \A f \in File : FInv /\ ops_unlink(f) => FilesHold'
<1> SUFFICES ASSUME NEW f \in File, FInv, ops_unlink(f) PROVE FilesHold'
  OBVIOUS
<1>1. /\ Good(vol) /\ vol.status = "up" /\ Counts(gen)
      /\ FilesKept(vol, gen) /\ HandlesKept(vol, opened)
  BY HoldsBefore DEF ops_unlink
<1>2. /\ f \in Live(vol) /\ vol' = dev_rm_file(vol, f) /\ opened' = opened /\ gen' = gen
      /\ \A h \in opened : h.file # f
  BY DEF ops_unlink
<1>3. FilesKept(vol', gen) /\ Live(vol') = Live(vol) \ {f} /\ Ends(vol', gen, f)
  BY <1>1, <1>2, RmKept
<1>4. HandlesKept(vol', opened)
  BY <1>1, <1>2, <1>3, HandlesStay
<1>5. QED
  BY <1>2, <1>3, <1>4, HoldsAfter

\* ops_read fills caches.
LEMMA ReadHolds == \A h \in opened : FInv /\ ops_read(h) => FilesHold'
<1> SUFFICES ASSUME NEW h \in opened, FInv, ops_read(h) PROVE FilesHold'
  OBVIOUS
<1>1. /\ Good(vol) /\ vol.status = "up" /\ Counts(gen) /\ opened \subseteq Handle
      /\ FilesKept(vol, gen) /\ HandlesKept(vol, opened)
  BY HoldsBefore DEF ops_read
<1>2. vol' = dev_get_file_seq(vol, h.fh) /\ opened' = opened /\ gen' = gen
  BY DEF ops_read
<1>3. h.fh \in Fid /\ h.file \in File /\ (h.fh \in File => h.fh \in Live(vol))
  BY <1>1, RootFid DEF Handle, HandlesKept, File
<1>4. /\ FilesKept(vol', gen) /\ Live(vol') = Live(vol)
      /\ vol'.status = "up" \/ (vol'.status = "undefined" /\ h.fh \in File /\ gen[h.fh] > 1)
  BY <1>1, <1>2, <1>3, ReadKept
<1>5. HandlesKept(vol', opened)
  BY <1>1, <1>4, HandlesStay
<1>6. CASE vol'.status = "up"
  BY <1>2, <1>4, <1>5, <1>6, HoldsAfterUp
<1>7. CASE vol'.status # "up"
  <2>1. h.fh \in File /\ Ends(vol', gen', h.fh)
    BY <1>2, <1>4, <1>7 DEF Ends
  <2>2. QED
    BY <1>7, <2>1, HoldsAfter
<1>8. QED
  BY <1>6, <1>7

\* ops_write: the blocks still missing are reserved, and the numbers go on.
LEMMA WriteHolds == \A h \in opened, n \in 1..MaxBlocks : FInv /\ ops_write(h, n) => FilesHold'
<1> SUFFICES ASSUME NEW h \in opened, NEW n \in 1..MaxBlocks, FInv, ops_write(h, n)
             PROVE  FilesHold'
  OBVIOUS
<1> DEFINE f    == h.file
           w    == dev_get_file_seq(vol, f)
           lack == n - Cardinality(w.seqs[f])
           x    == dev_extd_blk_list(w, f, lack)
<1>1. /\ Good(vol) /\ vol.status = "up" /\ Counts(gen) /\ opened \subseteq Handle
      /\ FilesKept(vol, gen) /\ HandlesKept(vol, opened)
  BY HoldsBefore DEF ops_write
<1>2. vol' = If(w, IF lack > 0 THEN x ELSE w) /\ opened' = opened /\ gen' = gen
  BY DEF ops_write
<1>3. f \in File /\ f \in Fid /\ f \in Live(vol)
  BY <1>1, RootFid DEF Handle, HandlesKept
<1>4. /\ Good(w) /\ FilesKept(w, gen) /\ Live(w) = Live(vol)
      /\ \/ w.status = "up" /\ (gen[f] = 1 => w.seqs[f] # {})
         \/ w.status = "undefined" /\ gen[f] > 1
  BY <1>1, <1>3, ReadKept
<1> HIDE DEF f, w, lack
<1>5. HandlesKept(w, opened) /\ Ends(w, gen, f)
  BY <1>1, <1>4, HandlesStay DEF Ends
<1>6. CASE vol' = w
  BY <1>2, <1>3, <1>4, <1>5, <1>6, HoldsAfter
<1>7. CASE vol' # w
  <2>1. vol' = x /\ w.status = "up"
    BY <1>2, <1>7 DEF If
  <2> HIDE DEF x
  <2>2. /\ x.status = "up" => FilesKept(x, gen)
        /\ \A e \in Live(w) : e \in Live(x)
        /\ WholeBytes => Ends(x, gen, f)
    BY <1>1, <1>3, <1>4, <2>1, ExtdKept DEF x
  <2>3. HandlesKept(x, opened)
    BY <1>5, <2>2, HandlesStay
  <2>4. QED
    BY <1>2, <1>3, <2>1, <2>2, <2>3, HoldsAfter
<1>8. QED
  BY <1>6, <1>7

\* A formatted volume has no files but the root.
LEMMA FInitInv == Init => FInv
<1> SUFFICES ASSUME Init PROVE FInv
  OBVIOUS
<1>1. vol = Formatted /\ opened = {} /\ gen = [f \in Fid |-> 0]
  BY DEF Init
<1>2. IInv
  BY InitInv
<1>3. \A f \in File : f \in Fid /\ f # 0 /\ f # CLAIMED /\ f # -1
  BY RootFid DEF File, Fid, CLAIMED
<1>4. ASSUME NEW f \in File
      PROVE  vol.table[f].sec = 0 /\ FileKept(vol, f, gen[f])
  <2>1. vol.table[f].lnk = 0 /\ vol.table[f].sec = 0 /\ vol.clrs.fid # f /\ vol.seqs[f] = {}
    BY <1>1, <1>3 DEF Formatted, NoClrs, NoSeqs
  <2>2. \A p \in Block : vol.ctab[p].fid # f
    BY <1>1, <1>3 DEF Formatted, FreeEntry
  <2>3. gen[f] = 0
    BY <1>1, <1>3
  <2>4. QED
    BY <2>1, <2>2, <2>3 DEF FileKept, Virgin, OwnedBy
<1>5. \A p \in Block : vol.ctab[p].fid # CLAIMED
  BY <1>1 DEF Formatted, FreeEntry, CLAIMED
<1>6. FilesKept(vol, gen)
  BY <1>4, <1>5 DEF FilesKept, Apart, Accounted
<1>7. HandlesKept(vol, opened)
  BY <1>1 DEF HandlesKept
<1>8. vol.status = "up"
  BY <1>1 DEF Formatted
<1>9. QED
  BY <1>2, <1>6, <1>7, <1>8 DEF FInv, FilesHold, LossExplained

\* Every request keeps the invariant.
LEMMA FNextInv == FInv /\ [Next]_vars => FInv'
<1> SUFFICES ASSUME FInv, [Next]_vars PROVE FInv'
  OBVIOUS
<1>1. IInv'
  BY NextInv DEF FInv
<1> SUFFICES FilesHold'
  BY <1>1 DEF FInv
<1>2. \A h \in opened : h.fh \in Fid /\ (Running => (h.fh \in File => h.fh \in Live(vol)))
  BY HoldsBefore DEF FInv, IInv, Bounds, Handle, HandlesKept, File
<1>3. CASE ops_create
  BY <1>3, CreateHolds
<1>4. CASE ops_readdir
  BY <1>4, ReaddirHolds
<1>5. CASE ops_releasedir
  <2>1. Running /\ vol' = cache_seq_rm(vol, 0) /\ opened' = opened /\ gen' = gen
    BY <1>5 DEF ops_releasedir
  <2>2. 0 \in Fid /\ 0 \notin File
    BY RootFid DEF File
  <2>3. QED
    BY <2>1, <2>2, ReleaseHolds
<1>6. CASE Remount
  BY <1>6, RemountHolds
<1>7. ASSUME NEW f \in File, ops_getattr(f) \/ ops_open(f) \/ ops_unlink(f) PROVE FilesHold'
  BY <1>7, GetattrHolds, OpenHolds, UnlinkHolds
<1>8. ASSUME NEW h \in opened, ops_read(h) PROVE FilesHold'
  BY <1>8, ReadHolds
<1>9. ASSUME NEW h \in opened, ops_release(h) PROVE FilesHold'
  <2>1. Running /\ vol' = cache_seq_rm(vol, h.fh) /\ opened' = opened \ {h} /\ gen' = gen
    BY <1>9 DEF ops_release
  <2>2. opened \ {h} \in SUBSET opened
    OBVIOUS
  <2>3. QED
    BY <1>2, <2>1, <2>2, ReleaseHolds
<1>10. ASSUME NEW h \in opened, NEW n \in 1..MaxBlocks, ops_write(h, n) PROVE FilesHold'
  BY <1>10, WriteHolds
<1>11. CASE UNCHANGED vars
  <2>1. vol' = vol /\ opened' = opened /\ gen' = gen
    BY <1>11 DEF vars
  <2>2. QED
    BY <2>1 DEF FInv, FilesHold, Running, LossExplained
<1>12. QED
  BY <1>3, <1>4, <1>5, <1>6, <1>7, <1>8, <1>9, <1>10, <1>11 DEF Next

\* The invariant holds of every reachable state.
THEOREM FilesInvariance == Spec => []FInv
<1>1. Init => FInv
  BY FInitInv
<1>2. FInv /\ [Next]_vars => FInv'
  BY FNextInv
<1>3. QED
  BY <1>1, <1>2, PTL DEF Spec

\* What it says of a file with a fresh identifier.
LEMMA FreshWhole ==
  ASSUME FInv, Running, NEW f \in Fresh
  PROVE  /\ f \in File /\ f \in Fid /\ Whole(vol, f)
         /\ TableClusters(f) = ClustersOf(vol, f) /\ Owned(f) = OwnedBy(vol, f)
<1>1. f \in Live(vol) /\ gen[f] = 1
  BY DEF Fresh
<1>2. Whole(vol, f)
  BY <1>1, HoldsBefore DEF FilesKept, FileKept, Live
<1>3. TableClusters(f) = ClustersOf(vol, f)
  <2>1. Elems(<<>>) = {}
    BY DEF Elems
  <2>2. QED
    BY <2>1 DEF TableClusters, ClustersOf, SecondOf
<1>4. Owned(f) = OwnedBy(vol, f)
  BY DEF Owned, OwnedBy
<1>5. QED
  BY <1>1, <1>2, <1>3, <1>4, RootFid DEF Live

\* What is recorded of a file that has room in its list.
LEMMA RoomSpare ==
  ASSUME FInv, Running, NEW f \in File, HasRoom(f)
  PROVE  Spare(vol, f)
<1>1. Good(vol) /\ f \in Fid
  BY HoldsBefore, RootFid
<1>2. TableClusters(f) = ClustersOf(vol, f)
  <2>1. Elems(<<>>) = {}
    BY DEF Elems
  <2>2. QED
    BY <2>1 DEF TableClusters, ClustersOf, SecondOf
<1>3. Cardinality(ClustersOf(vol, f)) \in Nat
  <2>1. IsFiniteSet(ClustersOf(vol, f))
    BY <1>1, ClustersFinite DEF Good
  <2>2. QED
    BY <2>1, FS_CardinalityType
<1>4. QED
  BY <1>2, <1>3, VolumeAssumption DEF HasRoom, Spare

\* Every block of a file lies in a cluster the file lists, as long as the list
\* has room: dev_file_mem_clrs lists the clusters of new blocks, directly or
\* through the second level.
THEOREM AllClustersListed == Spec => []ClustersListed
<1>1. FInv => ClustersListed
  <2> SUFFICES ASSUME FInv, Running, NEW f \in Fresh, HasRoom(f)
               PROVE  {p[1] : p \in Owned(f)} \subseteq TableClusters(f)
    BY DEF ClustersListed
  <2>1. /\ f \in File /\ Whole(vol, f)
        /\ TableClusters(f) = ClustersOf(vol, f) /\ Owned(f) = OwnedBy(vol, f)
    BY FreshWhole
  <2>2. Spare(vol, f)
    BY <2>1, RoomSpare
  <2>3. QED
    BY <2>1, <2>2 DEF Whole, Reached, OwnedClusters, Spare
<1>2. QED
  BY <1>1, FilesInvariance, PTL

\* The cluster cache holds the list of the file it names, after every switch to
\* another file and every addition (dev_tbl_clrs_cnt, dev_tbl_clrs_add).
THEOREM CacheCoherent == Spec => []ClrsCoherent
<1>1. FInv => ClrsCoherent
  <2> SUFFICES ASSUME FInv, Running, vol.clrs.fid \in Fresh, Stored(vol.clrs.fid)
               PROVE  LET f == vol.clrs.fid
                      IN /\ vol.clrs.s0 = dev_tbl_load_fir(vol, f)
                         /\ vol.clrs.s1 = IF vol.table[f].sec = 0 THEN <<>>
                                          ELSE vol.secs[vol.table[f].sec]
    BY DEF ClrsCoherent
  <2>1. Whole(vol, vol.clrs.fid)
    BY FreshWhole
  <2>2. QED
    BY <2>1 DEF Whole, Cached, SecondOf
<1>2. QED
  BY <1>1, FilesInvariance, PTL

\* A second-level list has its cluster for itself: no block of a file lies in it
\* and no other file names it, as list or as data (dev_full_free_cluster,
\* dev_clust_claim, dev_free_blocks).
THEOREM SecondLevelsApart == Spec => []SecondLevelApart
<1>1. FInv => SecondLevelApart
  <2> SUFFICES ASSUME FInv, Running, NEW f \in Fresh, vol.table[f].sec # 0
               PROVE  LET s == vol.table[f].sec
                      IN /\ \A b \in Slot : vol.ctab[<<s, b>>].fid = CLAIMED
                         /\ \A g \in Live(vol) \ {f} : vol.table[g].sec # s
                         /\ \A g \in Fresh : s \notin TableClusters(g)
    BY DEF SecondLevelApart
  <2> DEFINE s == vol.table[f].sec
  <2>1. f \in File /\ Apart(vol)
    BY FreshWhole, HoldsBefore DEF FilesKept
  <2>2. /\ \A b \in Slot : vol.ctab[<<s, b>>].fid = CLAIMED
        /\ \A g \in File \ {f} : vol.table[g].sec # s
    BY <2>1 DEF Apart
  <2>3. ASSUME NEW g \in Fresh, s \in TableClusters(g) PROVE FALSE
    <3>1. Whole(vol, g) /\ TableClusters(g) = ClustersOf(vol, g) /\ g \in File
      BY FreshWhole
    <3>2. PICK p \in Block : vol.ctab[p].fid = g /\ p[1] = s
      BY <2>3, <3>1 DEF Whole, Reached, OwnedClusters, OwnedBy
    <3>3. p = <<s, p[2]>> /\ p[2] \in Slot
      BY <3>2 DEF Block
    <3>4. g = CLAIMED
      BY <2>2, <3>2, <3>3
    <3>5. QED
      BY <3>1, <3>4 DEF File, Fid, CLAIMED
  <2>4. \A g \in Live(vol) : g \in File
    BY DEF Live
  <2>5. QED
    BY <2>2, <2>3, <2>4
<1>2. QED
  BY <1>1, FilesInvariance, PTL

\* As long as no identifier was used twice, the claimed clusters are the second
\* levels the table entries name, of live files and of removed ones.
THEOREM ClaimsAccounted == Spec => []ClaimedAccounted
<1>1. FInv => ClaimedAccounted
  <2> SUFFICES ASSUME FInv, Running, \A f \in File : gen[f] <= 1
               PROVE  {p[1] : p \in {q \in Block : vol.ctab[q].fid = CLAIMED}} =
                        {vol.table[f].sec : f \in File} \ {0}
    BY DEF ClaimedAccounted
  <2>1. Good(vol) /\ Apart(vol) /\ Accounted(vol)
    BY HoldsBefore DEF FilesKept
  <2>2. ASSUME NEW p \in Block, vol.ctab[p].fid = CLAIMED
        PROVE  p[1] \in {vol.table[f].sec : f \in File} \ {0}
    <3>1. p[1] # 0
      BY <2>1, <2>2 DEF Good, RootKept, Formatted, CLAIMED
    <3>2. QED
      BY <2>1, <2>2, <3>1 DEF Accounted
  <2>3. ASSUME NEW f \in File, vol.table[f].sec # 0
        PROVE  \E p \in Block : vol.ctab[p].fid = CLAIMED /\ p[1] = vol.table[f].sec
    <3>1. vol.table[f].sec \in Cluster /\ 1 \in Slot
      <4>1. vol.table[f].sec \in Cluster
        BY <2>1, RootFid, VolumeFields DEF Good, Table, Entry
      <4>2. 1 \in Slot
        BY SizeAssumption, SMTT(30) DEF Slot
      <4>3. QED
        BY <4>1, <4>2
    <3>2. <<vol.table[f].sec, 1>> \in Block
      BY <3>1 DEF Block
    <3>3. vol.ctab[<<vol.table[f].sec, 1>>].fid = CLAIMED
      BY <2>1, <2>3, <3>1 DEF Apart
    <3>4. QED
      BY <3>2, <3>3
  <2>4. QED
    BY <2>2, <2>3
<1>2. QED
  BY <1>1, FilesInvariance, PTL

\* As long as a file's list is not at its limit, a cached block list is the list
\* of the file's blocks, with their numbers, through every extension in place.
THEOREM SeqsTrue == Spec => []SeqTruth
<1>1. FInv => SeqTruth
  <2> SUFFICES ASSUME FInv, Running, NEW f \in Fresh, HasRoom(f)
               PROVE  vol.seqs[f] \in {{}, InfoOf(vol, f, Cluster)}
    BY DEF SeqTruth
  <2>1. f \in File /\ Whole(vol, f)
    BY FreshWhole
  <2>2. Spare(vol, f)
    BY <2>1, RoomSpare
  <2>3. QED
    BY <2>1, <2>2 DEF Whole, Numbered
<1>2. QED
  BY <1>1, FilesInvariance, PTL

\* Under the same condition the blocks of a file are numbered 0 .. k-1, without
\* gap or duplicate (dev_file_reserve continues from the length of the list).
THEOREM NumbersDense == Spec => []NumsDense
<1>1. FInv => NumsDense
  <2> SUFFICES ASSUME FInv, Running, NEW f \in Fresh, HasRoom(f)
               PROVE  {vol.ctab[p].num : p \in Owned(f)} = 0..(Cardinality(Owned(f)) - 1)
    BY DEF NumsDense
  <2>1. f \in File /\ Whole(vol, f)
    BY FreshWhole
  <2>2. Spare(vol, f)
    BY <2>1, RoomSpare
  <2>3. QED
    BY <2>1, <2>2 DEF Whole, Numbered, OwnedBy, Owned
<1>2. QED
  BY <1>1, FilesInvariance, PTL

\* If its list was not at the limit, a removal frees every block of its file: no
\* block is left to a file that is gone (dev_rm_file).
THEOREM NothingLeaks == Spec => []NoLeak
<1>1. FInv => NoLeak
  <2> SUFFICES ASSUME FInv, Running, NEW p \in Block, NEW f \in File,
                      f = vol.ctab[p].fid, gen[f] = 1, HasRoom(f), f \notin Live(vol)
               PROVE  FALSE
    BY DEF NoLeak
  <2>1. FileKept(vol, f, gen[f])
    BY HoldsBefore DEF FilesKept
  <2>2. vol.table[f].lnk = 0 /\ Spare(vol, f)
    BY RoomSpare DEF Live
  <2>3. OwnedBy(vol, f) = {}
    BY <2>1, <2>2 DEF FileKept
  <2>4. QED
    BY <2>3 DEF OwnedBy
<1>2. QED
  BY <1>1, FilesInvariance, PTL

\* If the clusters fill whole bytes of the bitmap, a request hangs only when the
\* root directory is full, and misuses memory only with all identifiers in use
\* or with one that was used before (dev_free_blocks, dev_write_dir,
\* dev_get_file_seq, dev_init_file).
THEOREM LossesExplained ==
  ASSUME NC % ByteBits = 0
  PROVE  Spec => []LossExplained
<1>1. FInv => LossExplained
  BY DEF FInv, FilesHold, WholeBytes
<1>2. QED
  BY <1>1, FilesInvariance, PTL
=============================================================================
