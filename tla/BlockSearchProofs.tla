--------------------------- MODULE BlockSearchProofs ---------------------------
(***************************************************************************)
(* The searches for space, for every size of the volume, every number of   *)
(* bits in a byte of the bitmap and every number of blocks asked for: the  *)
(* scan passes over no bit that is 0, the searches find what FCFSAlloc     *)
(* says they find, and end as it says they end.  That they end is left to  *)
(* TLC.                                                                    *)
(*                                                                         *)
(* The invariant follows the three loops inside out: how far the scan has  *)
(* looked, which blocks the list has by then, which clusters were offered. *)
(***************************************************************************)
EXTENDS BlockSearch, FCFSAllocProofs, SequenceTheorems

Taken == {taken[k] : k \in 1..Len(taken)}

Free == FreeBlocks(bitmap, ctab)

\* The bits behind the start of the scan and before bit n are all 1.
Passed(n) == \A k \in Nat : start < k /\ k < n => Bit(k) = 1

\* What a search starts from and does not change.  The bit it starts at is 0, so
\* that the first byte is entered and the first bit reset there.
Searched ==
  /\ ctab \in Tables /\ bitmap \in [Cluster -> {0, 1}]
  /\ Bit(start) = 0

\* The scan has passed all bits before the one it stands at.
ScanKept ==
  /\ pc = "byte" =>
       /\ start < i * ByteBits + sc /\ Passed(i * ByteBits + sc)
       /\ sc = 0 \/ (i * ByteBits <= start /\ start < i * ByteBits + ByteBits)
  /\ pc = "bit" =>
       /\ sc = 0 /\ j <= ByteBits
       /\ start < i * ByteBits + j /\ Passed(i * ByteBits + j)
  /\ ScanFindsFirst

\* The list has the first free blocks, in order, and while blocks are missing
\* all those up to the cluster the scan starts behind.
ListKept ==
  task = "blocks" =>
    /\ \A k \in 1..Len(taken) :
         taken[k] \in Free /\ taken[k][1] <= start /\ Rank(Free, taken[k]) = k - 1
    /\ Len(taken) < count => \A p \in Free : p[1] <= start => p \in Taken
    /\ pc \in {"byte", "bit", "table", "exhausted"} => Len(taken) < count
    /\ pc = "done" => Len(taken) = count

\* A cluster with bit 0 and no free block is never passed: its scan is repeated.
SpinsKept ==
  task = "blocks" => \A c \in FreeClusters(bitmap) : c <= start => HasFree(ctab, c)

\* The clusters offered so far were not wholly free; the one a search ends with is.
WholeKept ==
  task = "whole" =>
    /\ pc # "done" => \A c \in WholeClusters(bitmap, ctab) : c > start
    /\ pc = "done" => /\ cid \in WholeClusters(bitmap, ctab)
                      /\ \A c \in WholeClusters(bitmap, ctab) : cid <= c

\* Clusters run out only when no bit behind the start is 0.
ExhaustedKept == pc = "exhausted" => \A c \in FreeClusters(bitmap) : c <= start

\* The inductive invariant.
IInv ==
  /\ TypeOK /\ Searched /\ ScanKept /\ ListKept
  /\ SpinsKept /\ WholeKept /\ ExhaustedKept

-----------------------------------------------------------------------------
(* Bits and bytes.                                                          *)

\* The sizes are numbers.
LEMMA Sizes ==
  /\ NC \in Nat /\ NC >= 2 /\ BPC \in Nat \ {0}
  /\ ByteBits \in Nat /\ ByteBits >= 1 /\ MaxCount \in Nat
  /\ Cluster = 0..(NC - 1)
BY SizeAssumption, SearchAssumption DEF Cluster

\* The byte of a bit, and its place there.
LEMMA ByteOf ==
  ASSUME NEW a \in Nat
  PROVE  /\ a \div ByteBits \in Nat /\ a % ByteBits \in 0..(ByteBits - 1)
         /\ a = (a \div ByteBits) * ByteBits + (a % ByteBits)
<1> DEFINE b == ByteBits
           q == a \div b
           r == a % b
<1>1. b \in Nat \ {0}
  BY SearchAssumption
<1> HIDE DEF b
<1>2. q \in Nat /\ r \in 0..(b - 1) /\ a = b * q + r
  BY <1>1
<1> HIDE DEF q, r
<1>3. q * b = b * q
  BY <1>1, <1>2
<1>4. q \in Nat /\ r \in 0..(b - 1) /\ a = q * b + r
  BY <1>2, <1>3
<1>5. QED
  BY <1>4 DEF b, q, r

\* The first bit of the next byte, and the bits of this one.
LEMMA NextByte ==
  ASSUME NEW a \in Nat
  PROVE  /\ a * ByteBits \in Nat
         /\ (a + 1) * ByteBits = a * ByteBits + ByteBits
BY Sizes

\* A bit with a 0 in a full byte is a contradiction; all the bits of one are 1.
LEMMA FullBits ==
  ASSUME NEW b \in Nat, ByteFull(b), NEW k \in Nat,
         b * ByteBits <= k, k < b * ByteBits + ByteBits
  PROVE  Bit(k) = 1
<1>1. b * ByteBits \in Nat
  BY NextByte
<1>2. k - b * ByteBits \in 0..(ByteBits - 1) /\ b * ByteBits + (k - b * ByteBits) = k
  BY <1>1, Sizes
<1>3. Bit(b * ByteBits + (k - b * ByteBits)) = 1
  BY <1>2 DEF ByteFull
<1>4. QED
  BY <1>2, <1>3

\* A cluster a search can answer is one behind cluster 0 with bit 0.
LEMMA Answerable ==
  \A c : c \in FreeClusters(bitmap) <=> c \in Cluster /\ c > 0 /\ Bit(c) = 0
<1>1. \A c : c \in 1..(NC - 1) <=> c \in Cluster /\ c > 0
  BY Sizes
<1>2. QED
  BY <1>1 DEF FreeClusters, Bit

\* What the scan passed is not a free cluster.
LEMMA PassedNone ==
  ASSUME NEW n \in Int, Passed(n), start \in Cluster, NEW c \in FreeClusters(bitmap), c < n
  PROVE  c <= start
<1>1. c \in Cluster /\ Bit(c) = 0
  BY Answerable
<1>2. c \in Nat /\ start \in Nat
  BY <1>1, Sizes
<1>3. QED
  BY <1>1, <1>2 DEF Passed

-----------------------------------------------------------------------------
(* What one cluster adds to the list.                                       *)

\* Counting the smaller elements of a set of numbers tells its elements apart.
LEMMA CountTells ==
  ASSUME NEW S \in SUBSET Int, IsFiniteSet(S), NEW c \in S, NEW e \in S,
         Cardinality({d \in S : d < c}) = Cardinality({d \in S : d < e})
  PROVE  c = e
<1>1. ASSUME NEW x \in S, NEW y \in S, x < y
      PROVE  Cardinality({d \in S : d < x}) # Cardinality({d \in S : d < y})
  <2> DEFINE X == {d \in S : d < x}
             Y == {d \in S : d < y}
  <2>1. x \in Y /\ x \notin X /\ \A d \in S : d < x => d < y
    BY <1>1
  <2>2. X \in SUBSET Y /\ X # Y
    BY <2>1
  <2>3. IsFiniteSet(Y)
    BY FS_Subset
  <2>4. QED
    BY <2>2, <2>3, FS_Subset
<1>2. c < e \/ e < c \/ c = e
  OBVIOUS
<1>3. QED
  BY <1>1, <1>2

\* FirstSlots takes the smallest slots one after the other, and all of them if
\* it stops short.
LEMMA FirstSlotsAre ==
  ASSUME NEW S \in SUBSET Slot, NEW n \in Nat
  PROVE  LET s == FirstSlots(S, n)
         IN /\ s \in Seq(S) /\ Len(s) <= n
            /\ \A k \in 1..Len(s) : s[k] \in S /\ Cardinality({d \in S : d < s[k]}) = k - 1
            /\ Len(s) < n => \A b \in S : \E k \in 1..Len(s) : s[k] = b
            /\ S # {} /\ n # 0 => s # <<>>
            /\ S = {} => s = <<>>
<1> DEFINE card == Cardinality(S)
           m == IF n < card THEN n ELSE card
           at(k) == CHOOSE b \in S : Cardinality({d \in S : d < b}) = k - 1
           s == [k \in 1..m |-> at(k)]
<1>1. S \in SUBSET Int /\ IsFiniteSet(S)
  <2>1. Slot \subseteq Int
    BY SizeAssumption DEF Slot
  <2>2. QED
    BY <2>1, FiniteVolume, FS_Subset
<1>2. card \in Nat
  BY <1>1, FS_CardinalityType
<1>3. m \in Nat /\ m <= n /\ m <= card /\ (m < n => m = card)
  BY <1>2
<1>4. ASSUME NEW k \in 1..m PROVE at(k) \in S /\ Cardinality({d \in S : d < at(k)}) = k - 1
  <2>1. k - 1 \in 0..(card - 1)
    BY <1>2, <1>3
  <2>2. \E b \in S : Cardinality({d \in S : d < b}) = k - 1
    BY <1>1, <2>1, RankExists
  <2>3. QED
    BY <2>2, Zenon
<1>5. s \in [1..m -> S]
  BY <1>4
<1>6. s \in Seq(S) /\ Len(s) = m
  <2> HIDE DEF s, m
  <2>1. s \in Seq(S)
    BY <1>3, <1>5
  <2>2. QED
    BY <1>3, <1>5, <2>1, LenProperties
<1>7. \A k \in 1..m : s[k] = at(k)
  OBVIOUS
<1>8. ASSUME m < n, NEW b \in S PROVE \E k \in 1..m : s[k] = b
  <2> DEFINE less == {d \in S : d < b}
             k == Cardinality(less) + 1
  <2>1. b \notin less
    BY <1>1
  <2>2. less \in SUBSET S /\ less # S
    BY <2>1
  <2>3. IsFiniteSet(less) /\ Cardinality(less) <= card /\ Cardinality(less) # card
    BY <1>1, <2>2, FS_Subset
  <2>4. Cardinality(less) \in Nat
    BY <2>3, FS_CardinalityType
  <2>5. k \in 1..m /\ k - 1 = Cardinality(less)
    BY <1>2, <1>3, <1>8, <2>3, <2>4
  <2>6. at(k) \in S /\ Cardinality({d \in S : d < at(k)}) = Cardinality({d \in S : d < b})
    BY <1>4, <2>5
  <2>7. \A c \in S : Cardinality({d \in S : d < c}) = Cardinality({d \in S : d < b}) => c = b
    BY <1>1, CountTells
  <2>8. at(k) = b
    <3> HIDE DEF k, at
    <3>1. QED
      BY <2>6, <2>7
  <2>9. QED
    BY <1>7, <2>5, <2>8
<1>9. ASSUME S # {}, n # 0 PROVE s # <<>>
  <2>1. card # 0
    BY <1>1, <1>9, FS_EmptySet
  <2>2. m # 0
    BY <1>2, <1>9, <2>1
  <2>3. QED
    BY <1>6, <2>2
<1>10. ASSUME S = {} PROVE s = <<>>
  <2>1. card = 0
    BY <1>10, FS_EmptySet
  <2>2. m = 0
    BY <2>1
  <2>3. QED
    BY <1>6, <2>2, EmptySeq
<1>11. FirstSlots(S, n) = s
  BY DEF FirstSlots
<1> HIDE DEF s, m, at
<1>12. QED
  BY <1>3, <1>4, <1>6, <1>7, <1>8, <1>9, <1>10, <1>11

\* A list whose blocks are told apart by their ranks has no block twice.
LEMMA TakenCount ==
  ASSUME TypeOK, task = "blocks", ListKept
  PROVE  IsFiniteSet(Taken) /\ Cardinality(Taken) = Len(taken)
<1> DEFINE I == 1..Len(taken)
           at == [k \in I |-> taken[k]]
<1>1. Len(taken) \in Nat
  BY LenProperties DEF TypeOK
<1>2. IsFiniteSet(I) /\ Cardinality(I) = Len(taken)
  <2>1. PICK n \in Nat : n = Len(taken)
    BY <1>1
  <2>2. IsFiniteSet(1..n) /\ Cardinality(1..n) = IF 1 > n THEN 0 ELSE n - 1 + 1
    BY FS_Interval
  <2>3. Cardinality(1..n) = n
    BY <2>2
  <2>4. QED
    BY <2>1, <2>2, <2>3
<1>3. \A k, l \in I : taken[k] = taken[l] => k = l
  <2>1. ASSUME NEW k \in I, NEW l \in I, taken[k] = taken[l] PROVE k = l
    <3>1. Rank(Free, taken[k]) = k - 1 /\ Rank(Free, taken[l]) = l - 1
      BY DEF ListKept
    <3>2. k - 1 = l - 1
      BY <2>1, <3>1
    <3>3. QED
      BY <1>1, <3>2
  <2>2. QED
    BY <2>1
<1>4. at \in Surjection(I, Taken) /\ at \in Injection(I, Taken)
  BY <1>3 DEF Taken, Surjection, Injection, IsInjective
<1>5. QED
  BY <1>2, <1>4, FS_Surjection

\* A free block is a pair of a cluster with bit 0 behind cluster 0 and one of its
\* free slots.
LEMMA FreeIs ==
  ASSUME NEW p
  PROVE  p \in Free <=> \E c \in FreeClusters(bitmap), b \in Slot :
                       b \in FreeSlots(c) /\ p = <<c, b>>
<1>1. FreeClusters(bitmap) \subseteq Cluster
  BY FreeIsCluster
<1>2. p \in Free => \E c \in FreeClusters(bitmap), b \in Slot :
                     b \in FreeSlots(c) /\ p = <<c, b>>
  <2>1. SUFFICES ASSUME p \in Block, p[1] \in FreeClusters(bitmap), ctab[p].fid = 0
                 PROVE  \E c \in FreeClusters(bitmap), b \in Slot :
                          b \in FreeSlots(c) /\ p = <<c, b>>
    BY DEF Free, FreeBlocks
  <2>2. p = <<p[1], p[2]>> /\ p[2] \in Slot
    BY <2>1 DEF Block
  <2>3. p[2] \in FreeSlots(p[1])
    BY <2>1, <2>2 DEF FreeSlots
  <2>4. QED
    BY <2>1, <2>2, <2>3
<1>3. ASSUME NEW c \in FreeClusters(bitmap), NEW b \in Slot, b \in FreeSlots(c), p = <<c, b>>
      PROVE  p \in Free
  <2>1. p \in Block /\ p[1] = c /\ ctab[p].fid = 0
    BY <1>1, <1>3 DEF Block, FreeSlots
  <2>2. QED
    BY <2>1 DEF Free, FreeBlocks
<1>4. QED
  BY <1>2, <1>3

\* The free blocks up to a cluster whose bit the scan found first are those of
\* the list and the cluster's own.
LEMMA FreeUpTo ==
  ASSUME TypeOK, ListKept, task = "blocks", pc = "table", ScanFindsFirst, cid \in Cluster,
         NEW p \in Free, p[1] <= cid
  PROVE  p \in Taken \/ \E d \in FreeSlots(cid) : p = <<cid, d>>
<1>1. PICK c \in FreeClusters(bitmap), b \in Slot : b \in FreeSlots(c) /\ p = <<c, b>>
  BY FreeIs
<1>2. c \in Int /\ cid \in Int /\ c <= cid /\ p[1] = c /\ start \in Cluster
  BY <1>1, Answerable, Sizes DEF TypeOK
<1>3. CASE c = cid
  BY <1>1, <1>3
<1>4. CASE c # cid
  <2>1. Passed(cid) /\ c < cid
    BY <1>2, <1>4, Sizes DEF ScanFindsFirst, Passed
  <2>2. c <= start
    BY <1>2, <2>1, PassedNone
  <2>3. QED
    BY <1>2, <2>2 DEF ListKept
<1>5. QED
  BY <1>3, <1>4

\* A free block of the cluster found comes, among all free blocks, behind those
\* of the list and the smaller ones of its cluster.
LEMMA NewRank ==
  ASSUME TypeOK, ListKept, task = "blocks", pc = "table", ScanFindsFirst, cid \in Cluster,
         NEW b \in FreeSlots(cid)
  PROVE  /\ <<cid, b>> \in Free
         /\ Rank(Free, <<cid, b>>)
              = Len(taken) + Cardinality({d \in FreeSlots(cid) : d < b})
<1> DEFINE p == <<cid, b>>
           S == {d \in FreeSlots(cid) : d < b}
           N == {<<cid, d>> : d \in S}
           before == {q \in Free : Before(q, p)}
           pair == [d \in S |-> <<cid, d>>]
<1>1. cid \in Int /\ start \in Int /\ cid > start /\ start >= 0 /\ cid \in FreeClusters(bitmap)
  BY Sizes, Answerable DEF TypeOK, ScanFindsFirst
<1>2. \A d \in FreeSlots(cid) : <<cid, d>> \in Free /\ d \in Int
  <2>1. \A d \in FreeSlots(cid) : d \in Slot
    BY DEF FreeSlots
  <2>2. \A d \in Slot : d \in Int
    BY SizeAssumption, SMTT(30) DEF Slot
  <2>3. ASSUME NEW d \in FreeSlots(cid) PROVE <<cid, d>> \in Free
    BY <1>1, <2>1, FreeIs
  <2>4. QED
    BY <2>1, <2>2, <2>3
<1>3. before \subseteq Taken \cup N
  <2>1. ASSUME NEW q \in Free, Before(q, p) PROVE q \in Taken \cup N
    <3>1. PICK c \in FreeClusters(bitmap), e \in Slot : e \in FreeSlots(c) /\ q = <<c, e>>
      BY FreeIs
    <3>2. c \in Int /\ q[1] = c /\ q[2] = e /\ p[1] = cid /\ p[2] = b
      BY <3>1, Answerable, Sizes
    <3>3. c < cid \/ (c = cid /\ e < b)
      BY <2>1, <3>2 DEF Before
    <3>4. q[1] <= cid
      BY <1>1, <3>2, <3>3
    <3>5. CASE q \in Taken
      BY <3>5
    <3>6. CASE \E d \in FreeSlots(cid) : q = <<cid, d>>
      BY <1>1, <3>1, <3>2, <3>3, <3>6
    <3>7. QED
      BY <3>4, <3>5, <3>6, FreeUpTo
  <2>2. QED
    BY <2>1
<1>4. \A q \in Taken : q \in Free /\ q[1] <= start /\ q[1] \in Int
  <2>1. \A q \in Taken : q \in Free /\ q[1] <= start
    BY DEF Taken, ListKept
  <2>2. \A q \in Free : q[1] \in Int
    BY Sizes DEF Free, FreeBlocks, Block
  <2>3. QED
    BY <2>1, <2>2
<1>5. Taken \cup N \subseteq before
  <2>1. \A q \in Taken : Before(q, p)
    BY <1>1, <1>4 DEF Before
  <2>2. \A d \in S : Before(<<cid, d>>, p)
    BY DEF Before
  <2>3. QED
    BY <1>2, <1>4, <2>1, <2>2
<1>6. Taken \cap N = {}
  BY <1>1, <1>4
<1>7. IsFiniteSet(S) /\ Cardinality(S) \in Nat
  <2>1. S \subseteq Slot
    BY DEF FreeSlots
  <2>2. QED
    BY <2>1, FiniteVolume, FS_Subset, FS_CardinalityType
<1>8. IsFiniteSet(N) /\ Cardinality(N) = Cardinality(S)
  <2>1. pair \in Surjection(S, N) /\ pair \in Injection(S, N)
    BY DEF Surjection, Injection, IsInjective
  <2>2. QED
    BY <1>7, <2>1, FS_Surjection
<1>9. Cardinality(Taken \cup N) = Len(taken) + Cardinality(S)
  <2>1. Cardinality(Taken \cap N) = 0
    BY <1>6, FS_EmptySet
  <2>2. Len(taken) \in Nat
    BY LenProperties DEF TypeOK
  <2>3. IsFiniteSet(Taken) /\ Cardinality(Taken) = Len(taken)
    BY TakenCount
  <2>4. Cardinality(Taken \cup N) = Cardinality(Taken) + Cardinality(N) - Cardinality(Taken \cap N)
    BY <1>8, <2>3, FS_Union
  <2>5. QED
    BY <1>7, <1>8, <2>1, <2>2, <2>3, <2>4
<1>10. before = Taken \cup N
  BY <1>3, <1>5
<1>11. QED
  BY <1>2, <1>9, <1>10 DEF Rank

-----------------------------------------------------------------------------
(* The invariant.                                                           *)

\* A search starts with nothing passed, nothing taken and no cluster offered.
LEMMA InitIInv == Init => IInv
<1> SUFFICES ASSUME Init PROVE IInv
  OBVIOUS
<1>1. 0 \in Cluster
  BY Sizes
<1>2. Bit(0) = 0
  <2>1. PICK b \in Slot : TRUE
    BY SizeAssumption DEF Slot
  <2>2. ctab[<<0, b>>].fid = 0
    BY DEF Init, FreeEntry
  <2>3. HasFree(ctab, 0)
    BY <2>2 DEF HasFree
  <2>4. QED
    BY <1>1, <2>3 DEF Init, Bit
<1>3. taken = <<>> /\ Len(taken) = 0 /\ taken \in Seq(Block) /\ count \in 1..MaxCount
  BY DEF Init
<1>4. TypeOK
  BY <1>1, <1>3, Sizes DEF Init, TypeOK
<1>5. Searched
  BY <1>2 DEF Init, Searched
<1>6. ScanKept /\ ExhaustedKept
  BY DEF Init, ScanKept, ScanFindsFirst, ExhaustedKept
<1>7. ListKept
  <2>1. \A p \in Free : p[1] \in Int /\ p[1] > 0
    BY FreeIs, Answerable, Sizes
  <2>2. QED
    BY <1>3, <2>1 DEF Init, ListKept
<1>8. SpinsKept
  <2>1. \A c \in FreeClusters(bitmap) : c \in Int /\ c > 0
    BY Answerable, Sizes
  <2>2. QED
    BY <2>1 DEF Init, SpinsKept
<1>9. WholeKept
  <2>1. \A c \in WholeClusters(bitmap, ctab) : c \in Int /\ c > 0
    BY Answerable, Sizes DEF WholeClusters
  <2>2. QED
    BY <2>1 DEF Init, WholeKept
<1>10. QED
  BY <1>4, <1>5, <1>6, <1>7, <1>8, <1>9 DEF IInv

\* While the scan goes on, the list and what was offered stay as they are.
LEMMA Steady ==
  ASSUME IInv, UNCHANGED <<volume, start, taken>>,
         pc \in {"byte", "bit"}, pc' \in {"byte", "bit", "table"}
  PROVE  Searched' /\ ListKept' /\ SpinsKept' /\ WholeKept' /\ ExhaustedKept'
<1>1. Searched'
  BY DEF IInv, Searched, volume, Bit
<1>2. Free' = Free /\ Taken' = Taken
  BY DEF volume, Free, Taken
<1>3. ListKept'
  BY <1>2 DEF IInv, ListKept, volume
<1>4. SpinsKept'
  BY DEF IInv, SpinsKept, volume
<1>5. WholeKept'
  BY DEF IInv, WholeKept, volume
<1>6. ExhaustedKept'
  BY DEF ExhaustedKept
<1>7. QED
  BY <1>1, <1>3, <1>4, <1>5, <1>6

\* The scan begins one bit behind its start.
LEMMA CallStep == IInv /\ Call => IInv'
<1> SUFFICES ASSUME IInv, Call PROVE IInv'
  OBVIOUS
<1>1. /\ pc = "call" /\ UNCHANGED <<volume, start, j, cid, taken>>
      /\ start \in Nat /\ count \in Nat /\ Len(taken) \in Nat /\ Len(taken) <= count
  BY Sizes, LenProperties DEF Call, IInv, TypeOK
<1>2. Free' = Free /\ Taken' = Taken /\ \A n : Bit(n)' = Bit(n)
  BY <1>1 DEF volume, Free, Taken, Bit
<1>3. Searched'
  BY <1>1, <1>2 DEF IInv, Searched, volume
<1>4. SpinsKept'
  BY <1>1 DEF IInv, SpinsKept, volume
<1>5. CASE task = "blocks" /\ Len(taken) >= count
  <2>1. pc' = "done" /\ UNCHANGED <<i, sc>>
    BY <1>5 DEF Call
  <2>2. TypeOK'
    BY <1>1, <2>1 DEF IInv, TypeOK, volume
  <2>3. ScanKept' /\ ExhaustedKept'
    BY <2>1 DEF ScanKept, ScanFindsFirst, ExhaustedKept
  <2>4. ListKept'
    BY <1>1, <1>2, <1>5, <2>1 DEF IInv, ListKept, volume
  <2>5. WholeKept'
    BY <1>1, <1>5 DEF WholeKept, volume
  <2>6. QED
    BY <1>3, <1>4, <2>2, <2>3, <2>4, <2>5 DEF IInv
<1>6. CASE ~(task = "blocks" /\ Len(taken) >= count)
  <2>1. pc' = "byte" /\ i' = start \div ByteBits /\ sc' = (start % ByteBits) + 1
    BY <1>6 DEF Call
  <2>2. /\ i' \in Nat /\ sc' \in 1..ByteBits
        /\ start' = start /\ i' * ByteBits \in Nat /\ i' * ByteBits + sc' = start + 1
    <3> DEFINE q == start \div ByteBits
               r == start % ByteBits
    <3>1. q \in Nat /\ r \in 0..(ByteBits - 1) /\ start = q * ByteBits + r
      BY <1>1, ByteOf
    <3>2. i' = q /\ sc' = r + 1 /\ start' = start
      BY <1>1, <2>1
    <3> HIDE DEF q, r
    <3>3. q * ByteBits \in Nat
      BY <3>1, NextByte
    <3>4. sc' \in 1..ByteBits
      BY <3>1, <3>2, Sizes
    <3>5. QED
      BY <3>1, <3>2, <3>3, <3>4
  <2>3. TypeOK'
    BY <1>1, <2>1, <2>2 DEF IInv, TypeOK, volume
  <2>4. ScanKept'
    <3>1. /\ start' < i' * ByteBits + sc'
          /\ i' * ByteBits <= start' /\ start' < i' * ByteBits + ByteBits
      <4>1. PICK first \in Nat : first = i' * ByteBits /\ first + sc' = start + 1
        BY <2>2
      <4>2. start' = start /\ start \in Nat /\ sc' \in 1..ByteBits /\ ByteBits \in Nat
        BY <1>1, <2>2, Sizes
      <4>3. start' < first + sc' /\ first <= start' /\ start' < first + ByteBits
        BY <4>1, <4>2
      <4>4. QED
        BY <4>1, <4>3
    <3>2. Passed(i * ByteBits + sc)'
      <4>1. \A k \in Nat : ~(start < k /\ k < start + 1)
        BY <1>1
      <4>2. QED
        BY <2>2, <4>1 DEF Passed
    <3>3. QED
      BY <2>1, <3>1, <3>2 DEF ScanKept, ScanFindsFirst
  <2>5. ListKept'
    BY <1>1, <1>2, <1>6, <2>1 DEF IInv, ListKept, volume
  <2>6. WholeKept' /\ ExhaustedKept'
    BY <1>1, <2>1 DEF IInv, WholeKept, ExhaustedKept, volume
  <2>7. QED
    BY <1>3, <1>4, <2>3, <2>4, <2>5, <2>6 DEF IInv
<1>7. QED
  BY <1>5, <1>6

\* A full byte is passed at its first bit, since the byte of the start is not
\* full; another is entered at its first bit, or behind the start.
LEMMA ByteStep == IInv /\ Byte => IInv'
<1> SUFFICES ASSUME IInv, Byte PROVE IInv'
  OBVIOUS
<1>1. /\ pc = "byte" /\ UNCHANGED <<volume, start, cid, taken>>
      /\ start \in Nat /\ i \in Nat /\ sc \in 0..ByteBits /\ sc \in Nat
      /\ i * ByteBits \in Nat
  BY Sizes, NextByte DEF Byte, IInv, TypeOK
<1>2. \A n : Bit(n)' = Bit(n)
  BY <1>1 DEF volume, Bit
<1>3. /\ start < i * ByteBits + sc /\ Passed(i * ByteBits + sc)
      /\ sc = 0 \/ (i * ByteBits <= start /\ start < i * ByteBits + ByteBits)
  BY <1>1 DEF IInv, ScanKept
<1>4. CASE ByteFull(i)
  <2>1. i' = i + 1 /\ UNCHANGED <<pc, j, sc>>
    BY <1>4 DEF Byte
  <2>2. sc = 0
    <3>1. SUFFICES ASSUME i * ByteBits <= start, start < i * ByteBits + ByteBits
                   PROVE  FALSE
      BY <1>3
    <3>2. Bit(start) = 1
      BY <1>1, <1>4, <3>1, FullBits
    <3>3. QED
      BY <3>2 DEF IInv, Searched
  <2>3. TypeOK'
    BY <1>1, <2>1 DEF IInv, TypeOK, volume
  <2>4. i' * ByteBits = i * ByteBits + ByteBits
    BY <1>1, <2>1, NextByte
  <2>5. Passed(i * ByteBits + sc)'
    <3>1. ASSUME NEW k \in Nat, start < k, k < i * ByteBits + ByteBits PROVE Bit(k) = 1
      <4>1. CASE k < i * ByteBits + sc
        BY <1>3, <3>1, <4>1 DEF Passed
      <4>2. CASE ~(k < i * ByteBits + sc)
        <5>1. i * ByteBits <= k
          BY <1>1, <2>2, <4>2
        <5>2. QED
          BY <1>1, <1>4, <3>1, <5>1, FullBits
      <4>3. QED
        BY <4>1, <4>2
    <3>2. i' * ByteBits + sc' = i * ByteBits + ByteBits /\ start' = start
      BY <1>1, <2>1, <2>2, <2>4, Sizes
    <3>3. QED
      BY <1>2, <3>1, <3>2 DEF Passed
  <2>6. start' < i' * ByteBits + sc'
    BY <1>1, <1>3, <2>1, <2>2, <2>4, Sizes
  <2>7. ScanKept'
    BY <1>1, <2>1, <2>2, <2>5, <2>6 DEF ScanKept, ScanFindsFirst
  <2>8. pc' = "byte"
    BY <1>1, <2>1
  <2>9. QED
    BY <1>1, <2>3, <2>7, <2>8, Steady DEF IInv
<1>5. CASE ~ByteFull(i)
  <2>1. j' = sc /\ sc' = 0 /\ pc' = "bit" /\ UNCHANGED i
    BY <1>5 DEF Byte
  <2>2. TypeOK'
    BY <1>1, <2>1, Sizes DEF IInv, TypeOK, volume
  <2>3. Passed(i * ByteBits + j)'
    BY <1>1, <1>2, <1>3, <2>1 DEF Passed
  <2>4. ScanKept'
    BY <1>1, <1>3, <2>1, <2>3 DEF ScanKept, ScanFindsFirst
  <2>5. QED
    BY <1>1, <2>1, <2>2, <2>4, Steady DEF IInv
<1>6. QED
  BY <1>4, <1>5

\* A bit that is 0 is answered, one that is 1 is passed, and behind the last bit
\* of a byte comes the next byte.
LEMMA TestBitStep == IInv /\ TestBit => IInv'
<1> SUFFICES ASSUME IInv, TestBit PROVE IInv'
  OBVIOUS
<1>1. /\ pc = "bit" /\ UNCHANGED <<volume, start, sc, taken>>
      /\ start \in Nat /\ i \in Nat /\ j \in Nat /\ i * ByteBits \in Nat /\ sc = 0
      /\ ByteBits \in Nat /\ j <= ByteBits
  BY Sizes, NextByte DEF TestBit, IInv, TypeOK, ScanKept
<1>2. \A n : Bit(n)' = Bit(n)
  BY <1>1 DEF volume, Bit
<1>3. start < i * ByteBits + j /\ Passed(i * ByteBits + j)
  BY <1>1 DEF IInv, ScanKept
<1>4. CASE j >= ByteBits
  <2>1. i' = i + 1 /\ pc' = "byte" /\ UNCHANGED <<j, cid>>
    BY <1>1, <1>4 DEF TestBit
  <2>2. TypeOK'
    BY <1>1, <2>1 DEF IInv, TypeOK, volume
  <2>3. i' * ByteBits + sc' = i * ByteBits + j
    BY <1>1, <1>4, <2>1, NextByte
  <2>4. Passed(i * ByteBits + sc)'
    <3>1. i' * ByteBits + sc' = i * ByteBits + j /\ start' = start
      BY <1>1, <2>3
    <3>2. QED
      BY <1>2, <1>3, <3>1 DEF Passed
  <2>5. ScanKept'
    BY <1>1, <1>3, <2>1, <2>3, <2>4 DEF ScanKept, ScanFindsFirst
  <2>6. QED
    BY <1>1, <2>1, <2>2, <2>5, Steady DEF IInv
<1>5. CASE j < ByteBits /\ Bit(i * ByteBits + j) = 0
  <2>1. cid' = i * ByteBits + j /\ pc' = "table" /\ UNCHANGED <<i, j>>
    BY <1>1, <1>5 DEF TestBit
  <2>2. TypeOK'
    BY <1>1, <2>1 DEF IInv, TypeOK, volume
  <2>3. ScanFindsFirst'
    BY <1>1, <1>2, <1>3, <1>5, <2>1 DEF ScanFindsFirst, Passed
  <2>4. ScanKept'
    BY <2>1, <2>3 DEF ScanKept
  <2>5. QED
    BY <1>1, <2>1, <2>2, <2>4, Steady DEF IInv
<1>6. CASE j < ByteBits /\ Bit(i * ByteBits + j) # 0
  <2>1. j' = j + 1 /\ UNCHANGED <<pc, i, cid>>
    BY <1>1, <1>6 DEF TestBit
  <2>2. TypeOK'
    BY <1>1, <2>1 DEF IInv, TypeOK, volume
  <2>3. \A n : Bit(n) \in {0, 1}
    BY DEF Bit, IInv, Searched
  <2>4. Passed(i * ByteBits + j)'
    <3>1. ASSUME NEW k \in Nat, start < k, k < i * ByteBits + (j + 1) PROVE Bit(k) = 1
      <4>1. k = i * ByteBits + j \/ k < i * ByteBits + j
        BY <1>1, <3>1
      <4>2. QED
        BY <1>3, <1>6, <2>3, <3>1, <4>1 DEF Passed
    <3>2. QED
      BY <1>1, <1>2, <2>1, <3>1 DEF Passed
  <2>5. ScanKept'
    BY <1>1, <1>3, <1>6, <2>1, <2>4 DEF ScanKept, ScanFindsFirst
  <2>6. pc' = "bit"
    BY <1>1, <2>1
  <2>7. QED
    BY <1>1, <2>2, <2>5, <2>6, Steady DEF IInv
<1>7. QED
  BY <1>1, <1>4, <1>5, <1>6

\* The clusters with bit 0 up to the one found are those up to the start and the
\* one found.
LEMMA UpToFound ==
  ASSUME TypeOK, pc = "table", ScanFindsFirst, NEW c \in FreeClusters(bitmap), c <= cid
  PROVE  c = cid \/ c <= start
<1>1. c \in Nat /\ cid \in Nat /\ start \in Nat /\ start \in Cluster
  BY Answerable, Sizes DEF TypeOK
<1>2. Passed(cid)
  BY <1>1 DEF ScanFindsFirst, Passed
<1>3. CASE c < cid
  BY <1>1, <1>2, <1>3, PassedNone
<1>4. QED
  BY <1>1, <1>3

\* Behind the last cluster the search ends: no bit behind its start is 0.
LEMMA ExhaustedStep ==
  ASSUME IInv, Table, cid \notin Cluster
  PROVE  IInv'
<1>1. /\ pc = "table" /\ pc' = "exhausted"
      /\ UNCHANGED <<volume, start, taken, i, j, sc, cid>>
  BY DEF Table
<1>2. cid \in Nat /\ cid >= NC
  BY Sizes DEF IInv, TypeOK
<1>3. TypeOK'
  BY <1>1 DEF IInv, TypeOK, volume
<1>4. Searched' /\ SpinsKept' /\ WholeKept' /\ ScanKept'
  BY <1>1 DEF IInv, Searched, SpinsKept, WholeKept, ScanKept, ScanFindsFirst, volume, Bit
<1>5. ListKept'
  <2>1. Free' = Free /\ Taken' = Taken
    BY <1>1 DEF volume, Free, Taken
  <2>2. QED
    BY <1>1, <2>1 DEF IInv, ListKept, volume
<1>6. ExhaustedKept'
  <2>1. ASSUME NEW c \in FreeClusters(bitmap) PROVE c <= start
    <3>1. c \in Nat /\ c < NC
      BY Answerable, Sizes
    <3>2. c <= cid /\ c # cid
      BY <1>2, <3>1, Sizes
    <3>3. QED
      BY <1>1, <3>2, UpToFound DEF IInv, ScanKept
  <2>2. QED
    BY <1>1, <2>1 DEF ExhaustedKept, volume
<1>7. QED
  BY <1>3, <1>4, <1>5, <1>6 DEF IInv

\* dev_full_free_cluster takes the cluster if it is wholly free, and goes on
\* behind it if not.
LEMMA WholeStep ==
  ASSUME IInv, Table, cid \in Cluster, task # "blocks"
  PROVE  IInv'
<1>1. /\ pc = "table" /\ pc' = (IF FreeSlots(cid) = Slot THEN "done" ELSE "call")
      /\ start' = cid /\ UNCHANGED <<volume, taken, i, j, sc, cid>> /\ task = "whole"
  BY DEF Table, WholeOrNext, IInv, TypeOK
<1>2. cid > start /\ Bit(cid) = 0 /\ start \in Nat /\ cid \in Nat
  BY <1>1, Sizes DEF IInv, TypeOK, ScanKept, ScanFindsFirst
<1>3. cid \in FreeClusters(bitmap)
  BY <1>2, Answerable
<1>4. TypeOK'
  BY <1>1 DEF IInv, TypeOK, volume
<1>5. Searched'
  BY <1>1, <1>2 DEF IInv, Searched, volume, Bit
<1>6. ScanKept' /\ ListKept' /\ SpinsKept' /\ ExhaustedKept'
  BY <1>1 DEF ScanKept, ScanFindsFirst, ListKept, SpinsKept, ExhaustedKept, volume
<1>7. ASSUME NEW c \in WholeClusters(bitmap, ctab) PROVE cid <= c
  <2>1. c \in FreeClusters(bitmap) /\ c > start /\ c \in Nat
    BY <1>1, Answerable, Sizes DEF IInv, WholeKept, WholeClusters
  <2>2. QED
    BY <1>1, <1>2, <2>1, UpToFound DEF IInv, ScanKept
<1>8. cid \in WholeClusters(bitmap, ctab) <=> FreeSlots(cid) = Slot
  BY <1>3 DEF WholeClusters, FreeSlots
<1>9. \A c \in WholeClusters(bitmap, ctab) : c \in Nat
  BY Answerable, Sizes DEF WholeClusters
<1>10. WholeKept'
  BY <1>1, <1>2, <1>7, <1>8, <1>9 DEF WholeKept, volume
<1>11. QED
  BY <1>4, <1>5, <1>6, <1>10 DEF IInv

\* dev_free_blocks takes what it still needs of the cluster's free blocks, in
\* their order; a cluster without any leaves the start where it was.
LEMMA BlocksStep ==
  ASSUME IInv, Table, cid \in Cluster, task = "blocks"
  PROVE  IInv'
<1> DEFINE n == count - Len(taken)
           S == FreeSlots(cid)
           new == FirstSlots(S, n)
           add == [k \in 1..Len(new) |-> <<cid, new[k]>>]
<1>1. /\ pc = "table" /\ pc' = "call" /\ UNCHANGED <<volume, i, j, sc, cid>>
      /\ taken' = taken \o add
      /\ start' = IF new = <<>> THEN start ELSE cid
  BY DEF Table, TakeBlocks
<1>2. /\ TypeOK /\ Searched /\ ScanFindsFirst /\ ListKept /\ SpinsKept
      /\ taken \in Seq(Block) /\ Len(taken) \in Nat /\ count \in Nat /\ Len(taken) < count
      /\ n \in Nat /\ n # 0
  BY <1>1, LenProperties DEF IInv, TypeOK, ScanKept, ListKept
<1>3. cid > start /\ Bit(cid) = 0 /\ start \in Nat /\ cid \in Nat /\ start \in Cluster
  BY <1>1, <1>2, Sizes DEF TypeOK, ScanFindsFirst
<1>4. /\ new \in Seq(S) /\ Len(new) <= n /\ Len(new) \in Nat
      /\ \A k \in 1..Len(new) : new[k] \in S /\ Cardinality({d \in S : d < new[k]}) = k - 1
      /\ Len(new) < n => \A b \in S : \E k \in 1..Len(new) : new[k] = b
      /\ S # {} => new # <<>>
      /\ S = {} => new = <<>>
  <2>1. S \in SUBSET Slot
    BY DEF FreeSlots
  <2>2. n \in Nat /\ n # 0
    BY <1>2
  <2> HIDE DEF S, n
  <2>3. /\ new \in Seq(S) /\ Len(new) <= n
        /\ \A k \in 1..Len(new) : new[k] \in S /\ Cardinality({d \in S : d < new[k]}) = k - 1
        /\ Len(new) < n => \A b \in S : \E k \in 1..Len(new) : new[k] = b
        /\ S # {} => new # <<>>
        /\ S = {} => new = <<>>
    BY <2>1, <2>2, FirstSlotsAre
  <2>4. Len(new) \in Nat
    BY <2>3, LenProperties, Zenon
  <2>5. QED
    BY <2>3, <2>4, Zenon
<1> HIDE DEF new
<1>5. add \in Seq(Block) /\ Len(add) = Len(new)
  <2>1. \A k \in 1..Len(new) : <<cid, new[k]>> \in Block
    BY <1>4 DEF FreeSlots, Block
  <2>2. add \in [1..Len(new) -> Block]
    BY <2>1
  <2> HIDE DEF add
  <2>3. add \in Seq(Block)
    BY <1>4, <2>2
  <2>4. QED
    BY <1>4, <2>2, <2>3, LenProperties
<1>6. \A k \in 1..Len(new) : add[k] = <<cid, new[k]>>
  OBVIOUS
<1> HIDE DEF add
<1>7. /\ taken' \in Seq(Block) /\ Len(taken') = Len(taken) + Len(new)
      /\ \A k \in 1..Len(taken) : taken'[k] = taken[k]
      /\ \A k \in 1..Len(new) : taken'[Len(taken) + k] = <<cid, new[k]>>
  <2>1. taken' \in Seq(Block)
    BY <1>1, <1>2, <1>5, ConcatProperties
  <2>2. Len(taken') = Len(taken) + Len(new)
    <3>1. Len(taken \o add) = Len(taken) + Len(add)
      BY <1>2, <1>5, ConcatProperties
    <3>2. QED
      BY <1>1, <1>5, <3>1
  <2>3. \A k \in 1..(Len(taken) + Len(add)) :
          taken'[k] = IF k <= Len(taken) THEN taken[k] ELSE add[k - Len(taken)]
    BY <1>1, <1>2, <1>5, ConcatProperties
  <2>4. ASSUME NEW k \in 1..Len(taken) PROVE taken'[k] = taken[k]
    BY <1>2, <1>4, <1>5, <2>3
  <2>5. ASSUME NEW k \in 1..Len(new) PROVE taken'[Len(taken) + k] = <<cid, new[k]>>
    <3>1. /\ Len(taken) + k \in 1..(Len(taken) + Len(add))
          /\ ~(Len(taken) + k <= Len(taken)) /\ Len(taken) + k - Len(taken) = k
      BY <1>2, <1>4, <1>5
    <3>2. QED
      BY <1>6, <2>3, <3>1
  <2>6. QED
    BY <2>1, <2>2, <2>4, <2>5
<1>8. start' \in Nat /\ start' \in Cluster /\ start <= start' /\ start' <= cid
  BY <1>1, <1>3
<1>9. TypeOK'
  BY <1>1, <1>2, <1>4, <1>7, <1>8 DEF TypeOK, volume
<1>10. Searched'
  BY <1>1, <1>2, <1>3 DEF Searched, volume, Bit
<1>11. ScanKept' /\ WholeKept' /\ ExhaustedKept'
  BY <1>1 DEF ScanKept, ScanFindsFirst, WholeKept, ExhaustedKept, volume
<1>12. SpinsKept'
  <2>1. ASSUME NEW c \in FreeClusters(bitmap), c <= start' PROVE HasFree(ctab, c)
    <3>1. c \in Nat
      BY Answerable, Sizes
    <3>2. CASE c <= start
      BY <1>2, <3>2 DEF SpinsKept
    <3>3. CASE c > start
      <4>1. start' = cid /\ new # <<>>
        BY <1>1, <1>3, <2>1, <3>1, <3>3
      <4>2. c = cid /\ S # {}
        BY <1>1, <1>2, <1>3, <1>4, <2>1, <3>1, <3>3, <4>1, UpToFound
      <4>3. QED
        BY <4>2 DEF FreeSlots, HasFree
    <3>4. QED
      BY <1>3, <3>1, <3>2, <3>3
  <2>2. QED
    BY <1>1, <2>1 DEF SpinsKept, volume
<1>13. Free' = Free
  BY <1>1 DEF volume, Free
<1>14. ASSUME NEW k \in 1..Len(taken')
       PROVE  taken'[k] \in Free /\ taken'[k][1] <= start' /\ Rank(Free, taken'[k]) = k - 1
  <2>1. CASE k \in 1..Len(taken)
    <3>1. taken'[k] = taken[k]
      BY <1>7, <2>1
    <3>2. taken[k] \in Free /\ taken[k][1] <= start /\ Rank(Free, taken[k]) = k - 1
      BY <1>2, <2>1 DEF ListKept
    <3>3. taken[k][1] \in Int
      BY <3>2, Sizes DEF Free, FreeBlocks, Block
    <3>4. taken[k][1] <= start'
      BY <1>3, <1>8, <3>2, <3>3
    <3>5. QED
      BY <3>1, <3>2, <3>4
  <2>2. CASE k \notin 1..Len(taken)
    <3>1. PICK l \in 1..Len(new) : k = Len(taken) + l
      <4>1. k - Len(taken) \in 1..Len(new) /\ k = Len(taken) + (k - Len(taken))
        BY <1>2, <1>4, <1>7, <2>2
      <4>2. QED
        BY <4>1
    <3>2. taken'[k] = <<cid, new[l]>>
      BY <1>7, <3>1
    <3>3. new[l] \in FreeSlots(cid) /\ Cardinality({d \in FreeSlots(cid) : d < new[l]}) = l - 1
      BY <1>4
    <3>4. /\ <<cid, new[l]>> \in Free
          /\ Rank(Free, <<cid, new[l]>>) = Len(taken) + (l - 1)
      BY <1>1, <1>2, <3>3, NewRank
    <3>5. start' = cid
      BY <1>1, <1>4
    <3>6. Len(taken) + (l - 1) = k - 1
      BY <1>2, <1>4, <3>1
    <3>7. QED
      BY <1>3, <3>2, <3>4, <3>5, <3>6
  <2>3. QED
    BY <2>1, <2>2
<1>15. ASSUME Len(taken') < count, NEW p \in Free, p[1] <= start'
       PROVE  p \in Taken'
  <2>1. p[1] \in Int
    BY Sizes DEF Free, FreeBlocks, Block
  <2>2. p[1] <= cid
    BY <1>3, <1>8, <1>15, <2>1
  <2>3. CASE p \in Taken
    <3>1. PICK k \in 1..Len(taken) : p = taken[k]
      BY <2>3 DEF Taken
    <3>2. k \in 1..Len(taken') /\ taken'[k] = p
      BY <1>2, <1>4, <1>7, <3>1
    <3>3. QED
      BY <3>2 DEF Taken
  <2>4. CASE \E d \in FreeSlots(cid) : p = <<cid, d>>
    <3>1. PICK d \in FreeSlots(cid) : p = <<cid, d>>
      BY <2>4
    <3>2. Len(new) < n
      BY <1>2, <1>4, <1>7, <1>15
    <3>3. PICK k \in 1..Len(new) : new[k] = d
      BY <1>4, <3>1, <3>2
    <3>4. Len(taken) + k \in 1..Len(taken') /\ taken'[Len(taken) + k] = p
      BY <1>2, <1>4, <1>7, <3>1, <3>3
    <3>5. QED
      BY <3>4 DEF Taken
  <2>5. QED
    BY <1>1, <1>2, <2>2, <2>3, <2>4, FreeUpTo
<1>16. ListKept'
  BY <1>1, <1>13, <1>14, <1>15 DEF ListKept, volume
<1>17. QED
  BY <1>9, <1>10, <1>11, <1>12, <1>16 DEF IInv

\* Every step keeps the invariant.
LEMMA NextIInv == IInv /\ [Next]_vars => IInv'
<1> SUFFICES ASSUME IInv, [Next]_vars PROVE IInv'
  OBVIOUS
<1>1. CASE Call \/ Byte \/ TestBit
  BY <1>1, CallStep, ByteStep, TestBitStep
<1>2. CASE Table
  BY <1>2, ExhaustedStep, WholeStep, BlocksStep
<1>3. CASE Ended \/ UNCHANGED vars
  <2>1. UNCHANGED vars
    BY <1>3 DEF Ended
  <2>2. UNCHANGED <<task, count, bitmap, ctab, pc, start, i, j, sc, cid, taken>>
    BY <2>1 DEF vars, volume
  <2>3. Free' = Free /\ Taken' = Taken /\ \A n : Bit(n)' = Bit(n)
    BY <2>2 DEF Free, Taken, Bit
  <2>4. TypeOK' /\ Searched' /\ SpinsKept' /\ WholeKept' /\ ExhaustedKept'
    BY <2>2, <2>3 DEF IInv, TypeOK, Searched, SpinsKept, WholeKept, ExhaustedKept
  <2>5. ListKept'
    BY <2>2, <2>3 DEF IInv, ListKept
  <2>6. ScanKept'
    BY <2>2, <2>3 DEF IInv, ScanKept, ScanFindsFirst, Passed
  <2>7. QED
    BY <2>4, <2>5, <2>6 DEF IInv
<1>4. QED
  BY <1>1, <1>2, <1>3 DEF Next

-----------------------------------------------------------------------------
(* The properties.                                                          *)

\* The list of a search that ended is what FCFSAlloc defines, and the cluster the
\* least that is wholly free.
LEMMA FindsKept == IInv => SearchFinds
<1> SUFFICES ASSUME IInv, pc = "done"
             PROVE  IF task = "whole" THEN cid = Least(WholeClusters(bitmap, ctab))
                    ELSE /\ Taken = dev_free_blocks(bitmap, ctab, count)
                         /\ Len(taken) = count
                         /\ \A k \in 1..count : Rank(Free, taken[k]) = k - 1
  BY DEF SearchFinds, Taken, Free
<1>1. CASE task = "whole"
  <2> DEFINE W == WholeClusters(bitmap, ctab)
  <2>1. cid \in W /\ \A c \in W : cid <= c
    BY <1>1 DEF IInv, WholeKept
  <2>2. W \in SUBSET Int /\ IsFiniteSet(W)
    <3>1. W \subseteq Cluster
      BY FreeIsCluster DEF WholeClusters
    <3>2. QED
      BY <3>1, Sizes, FiniteVolume, FS_Subset
  <2> HIDE DEF W
  <2>3. Least(W) \in W /\ Least(W) <= cid
    BY <2>1, <2>2, LeastExists
  <2>4. cid <= Least(W) /\ cid \in Int /\ Least(W) \in Int
    BY <2>1, <2>2, <2>3
  <2>5. cid = Least(W)
    BY <2>3, <2>4
  <2>6. QED
    BY <1>1, <2>5 DEF W
<1>2. CASE task # "whole"
  <2>1. task = "blocks" /\ count \in Nat
    BY <1>2 DEF IInv, TypeOK
  <2>2. Len(taken) = count
        /\ \A k \in 1..count : taken[k] \in Free /\ Rank(Free, taken[k]) = k - 1
    BY <2>1 DEF IInv, ListKept
  <2>3. \A p \in Taken : p \in Free /\ Rank(Free, p) < count
    BY <2>1, <2>2 DEF Taken
  <2>4. ASSUME NEW p \in Free, Rank(Free, p) < count PROVE p \in Taken
    <3>1. Free \in SUBSET Block
      BY DEF Free, FreeBlocks
    <3>2. Rank(Free, p) \in {Rank(Free, q) : q \in Free}
      OBVIOUS
    <3>3. PICK r \in Nat : r = Rank(Free, p)
      <4>1. Rank(Free, p) \in 0..(Cardinality(Free) - 1)
        BY <3>1, <3>2, RankNumbers
      <4>2. QED
        BY <4>1
    <3>4. r + 1 \in 1..count /\ r + 1 - 1 = r
      BY <2>1, <2>4, <3>3
    <3>5. PICK k \in 1..count : taken[k] \in Free /\ Rank(Free, taken[k]) = Rank(Free, p)
      <4>1. taken[r + 1] \in Free /\ Rank(Free, taken[r + 1]) = r
        BY <2>2, <3>4
      <4>2. QED
        BY <3>3, <3>4, <4>1
    <3>6. taken[k] = p
      BY <3>1, <3>5, RankNumbers
    <3>7. QED
      BY <2>2, <3>6 DEF Taken
  <2>5. Taken = {p \in Free : Rank(Free, p) < count}
    BY <2>3, <2>4
  <2>6. QED
    BY <1>2, <2>2, <2>5 DEF dev_free_blocks, Free
<1>3. QED
  BY <1>1, <1>2

\* How a search ended is what FCFSAlloc says of its volume.
LEMMA OutcomeKept == IInv => EndsAsOutcome
<1> SUFFICES ASSUME IInv PROVE EndsAsOutcome
  OBVIOUS
<1> DEFINE spins == {c \in FreeClusters(bitmap) :
                       /\ ~HasFree(ctab, c)
                       /\ Cardinality({p \in Free : p[1] < c}) < count}
<1>1. /\ count \in Nat /\ Len(taken) \in Nat /\ start \in Nat
      /\ TypeOK /\ ListKept /\ SpinsKept /\ task \in {"blocks", "whole"}
  BY Sizes, LenProperties DEF IInv, TypeOK
<1>2. IsFiniteSet(Free) /\ \A p \in Free : p[1] \in Nat
  <2>1. Free \in SUBSET Block
    BY DEF Free, FreeBlocks
  <2>2. \A p \in Block : p[1] \in Nat
    BY Sizes DEF Block
  <2>3. QED
    BY <2>1, <2>2, FiniteVolume, FS_Subset
<1>3. CASE task = "blocks" /\ pc = "done"
  <2>1. Len(taken) = count /\ \A p \in Taken : p \in Free /\ p[1] <= start
    BY <1>1, <1>3 DEF ListKept, Taken
  <2>2. IsFiniteSet(Taken) /\ Cardinality(Taken) = count
    BY <1>1, <1>3, <2>1, TakenCount
  <2>3. ASSUME NEW S, S \subseteq Free, Taken \subseteq S PROVE ~(Cardinality(S) < count)
    <3>1. IsFiniteSet(S)
      BY <1>2, <2>3, FS_Subset
    <3>2. Cardinality(Taken) <= Cardinality(S) /\ Cardinality(S) \in Nat
      BY <2>3, <3>1, FS_Subset, FS_CardinalityType
    <3>3. QED
      BY <1>1, <2>2, <3>2
  <2>4. ASSUME NEW c \in FreeClusters(bitmap), ~HasFree(ctab, c)
        PROVE  ~(Cardinality({p \in Free : p[1] < c}) < count)
    <3>1. c \in Nat /\ ~(c <= start)
      BY <1>1, <1>3, <2>4, Answerable, Sizes DEF SpinsKept
    <3>2. \A p \in Taken : p[1] < c
      BY <1>1, <1>2, <2>1, <3>1
    <3>3. Taken \subseteq {p \in Free : p[1] < c}
      BY <2>1, <3>2
    <3>4. QED
      BY <2>3, <3>3
  <2>5. spins = {}
    BY <2>4
  <2>6. ~(Cardinality(Free) < count)
    BY <2>1, <2>3
  <2>7. SearchOutcome(bitmap, ctab, count) = "up"
    BY <2>5, <2>6 DEF SearchOutcome, Free
  <2>8. QED
    BY <1>3, <2>7 DEF EndsAsOutcome, Outcome
<1>4. CASE task = "blocks" /\ pc = "exhausted"
  <2>1. \A c \in FreeClusters(bitmap) : c <= start
    BY <1>4 DEF IInv, ExhaustedKept
  <2>2. spins = {}
    BY <1>1, <1>4, <2>1 DEF SpinsKept
  <2>3. Len(taken) < count
    BY <1>1, <1>4 DEF ListKept
  <2>4. Free \subseteq Taken
    <3>1. \A p \in Free : p[1] \in FreeClusters(bitmap)
      BY DEF Free, FreeBlocks
    <3>2. QED
      BY <1>1, <1>4, <2>1, <2>3, <3>1 DEF ListKept
  <2>5. IsFiniteSet(Taken) /\ Cardinality(Taken) = Len(taken)
    BY <1>1, <1>4, TakenCount
  <2>6. Cardinality(Free) <= Len(taken) /\ Cardinality(Free) \in Nat
    BY <1>2, <2>4, <2>5, FS_Subset, FS_CardinalityType
  <2>7. Cardinality(Free) < count
    BY <1>1, <2>3, <2>6
  <2>8. SearchOutcome(bitmap, ctab, count) = "exhausted"
    BY <2>2, <2>7 DEF SearchOutcome, Free
  <2>9. QED
    BY <1>4, <2>8 DEF EndsAsOutcome, Outcome
<1>5. CASE task = "whole" /\ pc = "done"
  <2>1. WholeClusters(bitmap, ctab) # {}
    BY <1>5 DEF IInv, WholeKept
  <2>2. QED
    BY <1>5, <2>1 DEF EndsAsOutcome, Outcome
<1>6. CASE task = "whole" /\ pc = "exhausted"
  <2>1. \A c \in FreeClusters(bitmap) : c <= start
    BY <1>6 DEF IInv, ExhaustedKept
  <2>2. ASSUME NEW c \in WholeClusters(bitmap, ctab) PROVE FALSE
    <3>1. c \in FreeClusters(bitmap) /\ c > start
      BY <1>6 DEF IInv, WholeKept, WholeClusters
    <3>2. c \in Nat
      BY <3>1, Answerable, Sizes
    <3>3. QED
      BY <1>1, <2>1, <3>1, <3>2
  <2>3. QED
    BY <1>6, <2>2 DEF EndsAsOutcome, Outcome
<1>7. CASE pc \notin {"done", "exhausted"}
  BY <1>7 DEF EndsAsOutcome
<1>8. QED
  BY <1>1, <1>3, <1>4, <1>5, <1>6, <1>7

\* The invariant holds in every state of a search.
THEOREM SearchInvariance == Spec => []IInv
<1>1. Init => IInv
  BY InitIInv
<1>2. IInv /\ [Next]_vars => IInv'
  BY NextIInv
<1>3. QED
  BY <1>1, <1>2, PTL DEF Spec

\* Every variable has its type, and dev_free_blocks never takes more blocks than
\* it was asked for.
THEOREM SearchTypes == Spec => []TypeOK
<1>1. IInv => TypeOK
  BY DEF IInv
<1>2. QED
  BY <1>1, SearchInvariance, PTL

\* dev_free_cluster_from answers the first cluster behind its start with bit 0,
\* whatever bytes are full in between.
THEOREM ScanFindsFirstAlways == Spec => []ScanFindsFirst
<1>1. IInv => ScanFindsFirst
  BY DEF IInv, ScanKept
<1>2. QED
  BY <1>1, SearchInvariance, PTL

\* dev_free_blocks returns the first free blocks in order, dev_full_free_cluster
\* the first cluster wholly free: the loops compute what FCFSAlloc defines and
\* FCFSVolume uses.
THEOREM SearchFindsAlways == Spec => []SearchFinds
<1>1. IInv => SearchFinds
  BY FindsKept
<1>2. QED
  BY <1>1, SearchInvariance, PTL

\* A search that ends, ends as FCFSAlloc says: with what it looked for where that
\* is to be had, behind the last cluster where it is not, and never where a
\* cluster with bit 0 has no free block and blocks are still missing before it.
THEOREM EndsAsOutcomeAlways == Spec => []EndsAsOutcome
<1>1. IInv => EndsAsOutcome
  BY OutcomeKept
<1>2. QED
  BY <1>1, SearchInvariance, PTL
=============================================================================
