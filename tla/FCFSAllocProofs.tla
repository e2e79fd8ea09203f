--------------------------- MODULE FCFSAllocProofs ---------------------------
(* Facts about the allocator's operators, for every size of the volume.     *)
EXTENDS FCFSAlloc, FiniteSetTheorems, TLAPS

\* Clusters, slots and blocks are finite, so that counting them is meaningful.
LEMMA FiniteVolume ==
  /\ IsFiniteSet(Cluster)
  /\ IsFiniteSet(Slot)
  /\ IsFiniteSet(Block)
<1>1. NC \in Int /\ BPC \in Int
  BY SizeAssumption
<1>2. IsFiniteSet(Cluster) /\ IsFiniteSet(Slot)
  BY <1>1, FS_Interval DEF Cluster, Slot
<1>3. QED
  BY <1>2, FS_Product DEF Block

\* In a finite set of numbers, the numbers of smaller elements are exactly
\* 0 .. |S| - 1: counting the smaller ones is an injection into that interval.
LEMMA RankExists ==
  ASSUME NEW S \in SUBSET Int, IsFiniteSet(S), NEW k \in 0..(Cardinality(S) - 1)
  PROVE  \E c \in S : Cardinality({d \in S : d < c}) = k
<1> DEFINE less(c) == {d \in S : d < c}
           I == 0..(Cardinality(S) - 1)
           rank == [c \in S |-> Cardinality(less(c))]
<1>1. Cardinality(S) \in Nat
  BY FS_CardinalityType
<1>2. ASSUME NEW c \in S
      PROVE  IsFiniteSet(less(c)) /\ Cardinality(less(c)) \in I
  <2>1. less(c) \in SUBSET S /\ less(c) # S
    OBVIOUS
  <2>2. IsFiniteSet(less(c)) /\ Cardinality(less(c)) <= Cardinality(S)
        /\ Cardinality(less(c)) # Cardinality(S)
    BY <2>1, FS_Subset
  <2>3. Cardinality(less(c)) \in Nat
    BY <2>2, FS_CardinalityType
  <2>4. QED
    BY <1>1, <2>2, <2>3
<1>3. ASSUME NEW c \in S, NEW d \in S, c < d
      PROVE  Cardinality(less(c)) # Cardinality(less(d))
  <2>1. \A x \in S : x < c => x < d
    BY <1>3
  <2>2. c \in less(d) /\ c \notin less(c)
    BY <1>3
  <2>3. less(c) \in SUBSET less(d) /\ less(c) # less(d)
    BY <2>1, <2>2
  <2>4. IsFiniteSet(less(d))
    BY <1>2
  <2>5. QED
    BY <2>3, <2>4, FS_Subset
<1>4. rank \in Injection(S, I)
  <2>1. rank \in [S -> I]
    BY <1>2
  <2>2. \A c, d \in S : rank[c] = rank[d] => c = d
    BY <1>3
  <2>3. QED
    BY <2>1, <2>2 DEF Injection, IsInjective
<1>5. IsFiniteSet(I) /\ Cardinality(I) = Cardinality(S)
  BY <1>1, FS_Interval
<1>6. rank \in Surjection(S, I)
  BY <1>4, <1>5, FS_Injection
<1>7. QED
  BY <1>6 DEF Surjection

\* The pairs of a finite set have the positions 0, 1, ... in their order, no two
\* the same.
LEMMA PairRanks ==
  ASSUME NEW P \in SUBSET (Int \X Int), IsFiniteSet(P)
  PROVE  /\ {Rank(P, p) : p \in P} = 0..(Cardinality(P) - 1)
         /\ \A p, q \in P : Rank(P, p) = Rank(P, q) => p = q
<1> DEFINE less(p) == {q \in P : Before(q, p)}
           I == 0..(Cardinality(P) - 1)
           rank == [p \in P |-> Rank(P, p)]
<1>1. IsFiniteSet(P)
  OBVIOUS
<1>2. Cardinality(P) \in Nat
  BY <1>1, FS_CardinalityType
<1>3. \A p \in P : p = <<p[1], p[2]>> /\ p[1] \in Int /\ p[2] \in Int
  OBVIOUS
<1>4. ASSUME NEW p \in P PROVE IsFiniteSet(less(p)) /\ Cardinality(less(p)) \in I
  <2>1. p \notin less(p)
    BY <1>3 DEF Before
  <2>2. less(p) \in SUBSET P /\ less(p) # P
    BY <2>1
  <2>3. IsFiniteSet(less(p)) /\ Cardinality(less(p)) <= Cardinality(P)
        /\ Cardinality(less(p)) # Cardinality(P)
    BY <1>1, <2>2, FS_Subset
  <2>4. Cardinality(less(p)) \in Nat
    BY <2>3, FS_CardinalityType
  <2>5. QED
    BY <1>2, <2>3, <2>4
<1>5. ASSUME NEW p \in P, NEW q \in P, Before(p, q)
      PROVE  Cardinality(less(p)) # Cardinality(less(q))
  <2>1. \A x \in P : Before(x, p) => Before(x, q)
    BY <1>3, <1>5 DEF Before
  <2>2. p \in less(q) /\ p \notin less(p)
    BY <1>3, <1>5 DEF Before
  <2>3. less(p) \in SUBSET less(q) /\ less(p) # less(q)
    BY <2>1, <2>2
  <2>4. QED
    BY <1>4, <2>3, FS_Subset
<1>6. \A p, q \in P : p # q => Before(p, q) \/ Before(q, p)
  <2>1. ASSUME NEW p \in P, NEW q \in P, p # q PROVE Before(p, q) \/ Before(q, p)
    <3>1. p[1] # q[1] \/ p[2] # q[2]
      BY <1>3, <2>1
    <3>2. QED
      BY <1>3, <3>1 DEF Before
  <2>2. QED
    BY <2>1
<1>7. rank \in Injection(P, I)
  <2>1. rank \in [P -> I]
    BY <1>4 DEF Rank
  <2>2. \A p, q \in P : rank[p] = rank[q] => p = q
    BY <1>5, <1>6 DEF Rank
  <2>3. QED
    BY <2>1, <2>2 DEF Injection, IsInjective
<1>8. IsFiniteSet(I) /\ Cardinality(I) = Cardinality(P)
  <2>1. \A n \in Nat : IsFiniteSet(0..(n - 1)) /\ Cardinality(0..(n - 1)) = n
    BY FS_Interval
  <2>2. QED
    BY <1>2, <2>1, Zenon
<1>9. rank \in Surjection(P, I)
  BY <1>7, <1>8, FS_Injection
<1>10. {Rank(P, p) : p \in P} = I
  BY <1>9 DEF Surjection
<1>11. \A p, q \in P : Rank(P, p) = Rank(P, q) => p = q
  BY <1>7 DEF Injection, IsInjective
<1>12. QED
  BY <1>10, <1>11

\* The blocks of a set have the positions 0, 1, ... in the order of the disk, no
\* two the same.
LEMMA RankNumbers ==
  ASSUME NEW P \in SUBSET Block
  PROVE  /\ {Rank(P, p) : p \in P} = 0..(Cardinality(P) - 1)
         /\ \A p, q \in P : Rank(P, p) = Rank(P, q) => p = q
<1>1. IsFiniteSet(P)
  BY FiniteVolume, FS_Subset
<1>2. P \in SUBSET (Int \X Int)
  BY SizeAssumption, SMTT(30) DEF Block, Cluster, Slot
<1>3. QED
  BY <1>1, <1>2, PairRanks

\* A set of numbers that is finite and not empty has the element Least names.
LEMMA LeastExists ==
  ASSUME NEW S \in SUBSET Int, IsFiniteSet(S), S # {}
  PROVE  Least(S) \in S /\ \A y \in S : Least(S) <= y
<1>1. Cardinality(S) \in Nat /\ Cardinality(S) # 0
  BY FS_CardinalityType, FS_EmptySet
<1>2. PICK c \in S : Cardinality({d \in S : d < c}) = 0
  BY <1>1, RankExists
<1>3. {d \in S : d < c} = {}
  <2>1. IsFiniteSet({d \in S : d < c})
    BY FS_Subset
  <2>2. QED
    BY <1>2, <2>1, FS_EmptySet
<1>4. \A y \in S : c <= y
  BY <1>3
<1>5. QED
  BY <1>4 DEF Least

\* Rewriting the bitmap for the clusters whose table changed keeps it in
\* agreement with all tables (dev_upd_bitmap after dev_write_ctable).
LEMMA UpdAgrees ==
  ASSUME NEW bm, NEW ct, NEW ct2, NEW C,
         Agrees(bm, ct),
         \A p \in Block : p[1] \notin C => ct2[p] = ct[p]
  PROVE  Agrees(dev_upd_bitmap(bm, ct2, C), ct2)
<1> SUFFICES ASSUME NEW c \in Cluster
             PROVE  dev_upd_bitmap(bm, ct2, C)[c] = 1 <=> ~HasFree(ct2, c)
  BY DEF Agrees
<1>1. CASE c \in C
  BY <1>1 DEF dev_upd_bitmap
<1>2. CASE c \notin C
  <2>1. \A b \in Slot : ct2[<<c, b>>] = ct[<<c, b>>]
    BY <1>2 DEF Block
  <2>2. HasFree(ct2, c) <=> HasFree(ct, c)
    BY <2>1 DEF HasFree
  <2>3. QED
    BY <1>2, <2>2 DEF dev_upd_bitmap, Agrees
<1>3. QED
  BY <1>1, <1>2

\* The clusters a search can answer are clusters, and not the root's.
LEMMA FreeIsCluster ==
  ASSUME NEW bm
  PROVE  FreeClusters(bm) \subseteq Cluster /\ 0 \notin FreeClusters(bm)
<1>1. \A x \in 1..(NC - 1) : x \in 0..(NC - 1) /\ x # 0
  BY SizeAssumption
<1>2. QED
  BY <1>1, Zenon DEF Cluster, FreeClusters

\* The blocks a search yields are free and outside the root's cluster.
LEMMA FreeBlocksAreFree ==
  ASSUME NEW bm, NEW ct, NEW n, NEW p \in dev_free_blocks(bm, ct, n)
  PROVE  p \in Block /\ p[1] \in Cluster /\ p[1] # 0 /\ ct[p].fid = 0
<1>1. p \in FreeBlocks(bm, ct)
  BY DEF dev_free_blocks
<1>2. p \in Block /\ p[1] \in FreeClusters(bm) /\ ct[p].fid = 0
  BY <1>1 DEF FreeBlocks
<1>3. QED
  BY <1>2, FreeIsCluster

\* A search in a volume whose bitmap agrees with its tables does not spin.
LEMMA AgreeingEnds ==
  ASSUME NEW bm, NEW ct, NEW n, Agrees(bm, ct)
  PROVE  SearchOutcome(bm, ct, n) # "hung"
<1>1. \A c \in FreeClusters(bm) : HasFree(ct, c)
  <2>1. FreeClusters(bm) \subseteq Cluster
    BY FreeIsCluster
  <2>2. \A c \in FreeClusters(bm) : bm[c] # 1
    BY DEF FreeClusters
  <2>3. QED
    BY <2>1, <2>2 DEF Agrees
<1>2. QED
  BY <1>1, Zenon DEF SearchOutcome
=============================================================================
