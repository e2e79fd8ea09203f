--------------------------- MODULE FCFSFormatProofs ---------------------------
(***************************************************************************)
(* What is where on a device.  FCFSLayout: the areas of a formatted device *)
(* and the positions of its blocks, for every number of sectors and every  *)
(* size of sector, table and int.  ClusterList: the cluster list in memory *)
(* and its saved form, for every number of direct entries, size of a block *)
(* and number of blocks of a cluster.                                      *)
(***************************************************************************)
EXTENDS FCFSLayout, ClusterList,
        SequenceTheorems, NaturalsInduction, WellFoundedInduction, TLAPS

-----------------------------------------------------------------------------
(* FCFSLayout.                                                              *)

\* Rounding down.
LEMMA DivBounds ==
  ASSUME NEW a \in Nat, NEW b \in Nat \ {0}
  PROVE  /\ a \div b \in Nat
         /\ b * (a \div b) <= a
         /\ a < b * (a \div b) + b
  OBVIOUS

\* Rounding up.
LEMMA CeilBounds ==
  ASSUME NEW a \in Nat, NEW b \in Nat \ {0}
  PROVE  /\ CeilDiv(a, b) \in Nat
         /\ a <= b * CeilDiv(a, b)
         /\ b * CeilDiv(a, b) < a + b
<1>1. a + b - 1 \in Nat
  OBVIOUS
<1>2. QED
  BY <1>1, DivBounds DEF CeilDiv

\* A block has at least one byte.
LEMMA BlockSize == lblk_sz \in Nat \ {0}
  BY LayoutAssumption DEF lblk_sz, FCFS_BLOCK_SIZE

\* A bitmap for k clusters is not larger than k blocks, whatever a block is.
LEMMA CeilSmall ==
  ASSUME NEW a \in Nat, NEW b \in Nat \ {0}
  PROVE  CeilDiv(a, b) <= a
<1> DEFINE q == CeilDiv(a, b)
<1>1. q \in Nat /\ b * q < a + b
  BY CeilBounds
<1>2. SUFFICES ASSUME q > a PROVE FALSE
  BY <1>1
<1>3. q - 1 \in Nat /\ q - 1 >= a
  BY <1>1, <1>2
<1>4. b * (q - 1) < a
  BY <1>1
<1>5. b * (q - 1) >= q - 1
  BY <1>3
<1>6. QED
  BY <1>3, <1>4, <1>5

-----------------------------------------------------------------------------
(* The numbers of fcfsfmt.                                                  *)

\* For every accepted device the areas' lengths are natural numbers, and the blocks
\* they are cut from are the pairs of sectors behind the head.
LEMMA Numbers ==
  ASSUME NEW s \in MinSec..MaxSec
  PROVE  /\ blk_cnt(s) \in Nat /\ tbl_len \in Nat /\ bmp_len(s) \in Nat
         /\ clu_cnt0(s) \in Nat /\ clu_cnt(s) \in Nat /\ dta_beg(s) \in Nat
         /\ blk_cnt(s) - tbl_len - bmp_len(s) - 1 \in Nat
         /\ s = 2 * blk_cnt(s) + 1 \/ s = 2 * blk_cnt(s) + 2
<1> DEFINE B == blk_cnt(s)
           T == tbl_len
           M == bmp_len(s)
           K == clu_cnt0(s)
<1>1. /\ s \in Nat /\ s >= 1
      /\ s >= 2 * (T + 11) + 1
  BY LayoutAssumption, BlockSize, DivBounds
     DEF tbl_len, FCFS_BLOCK_SIZE, FCFS_BLOKS_PER_CLUSTER
<1>2. T \in Nat
  BY LayoutAssumption, BlockSize, DivBounds DEF tbl_len
<1>3. /\ B \in Nat /\ (s = 2 * B + 1 \/ s = 2 * B + 2)
  BY <1>1, DivBounds DEF blk_cnt, sec_cnt, FCFS_BLOCK_SIZE
<1>4. B - T - 1 \in Nat /\ B - T - 1 >= 8
  BY <1>1, <1>2, <1>3
<1>5. K \in Nat /\ 8 * K <= B - T - 1
  BY <1>4, DivBounds DEF clu_cnt0, FCFS_BLOKS_PER_CLUSTER
<1>6. K \div 8 \in Nat /\ 8 * (K \div 8) <= K
  BY <1>5, DivBounds
<1>7. M \in Nat /\ M <= K \div 8
  BY <1>6, BlockSize, CeilBounds, CeilSmall DEF bmp_len
<1>8. B - T - M - 1 \in Nat
  BY <1>2, <1>3, <1>4, <1>5, <1>6, <1>7
<1>9. clu_cnt(s) \in Nat /\ dta_beg(s) \in Nat
  BY <1>8, <1>7, <1>2, DivBounds DEF clu_cnt, dta_beg, FCFS_BLOKS_PER_CLUSTER
<1>10. QED
  BY <1>2, <1>3, <1>5, <1>7, <1>8, <1>9

\* The data area ends at most one block behind the blocks that were counted.
LEMMA AreaEnd ==
  ASSUME NEW s \in MinSec..MaxSec
  PROVE  /\ dta_beg(s) + 8 * clu_cnt(s) <= blk_cnt(s) + 1
         /\ dta_beg(s) + 8 * clu_cnt(s) + 8 > blk_cnt(s) + 1
<1> DEFINE R == blk_cnt(s) - tbl_len - bmp_len(s) - 1
<1>1. /\ R \in Nat /\ blk_cnt(s) \in Nat /\ tbl_len \in Nat /\ bmp_len(s) \in Nat
      /\ clu_cnt(s) \in Nat
  BY Numbers
<1>2. 8 * clu_cnt(s) <= R /\ R < 8 * clu_cnt(s) + 8
  BY <1>1, DivBounds DEF clu_cnt, FCFS_BLOKS_PER_CLUSTER
<1>3. dta_beg(s) = 2 + bmp_len(s) + tbl_len
  BY DEF dta_beg
<1>4. QED
  BY <1>1, <1>2, <1>3

\* The table fits into its blocks.
LEMMA TableFits == TableBytes <= tbl_len * lblk_sz
<1> DEFINE q == TableBytes \div lblk_sz
<1>1. q \in Nat /\ TableBytes < lblk_sz * q + lblk_sz
  BY LayoutAssumption, BlockSize, DivBounds
<1>2. tbl_len * lblk_sz = lblk_sz * q + lblk_sz
  BY <1>1, BlockSize DEF tbl_len
<1>3. QED
  BY <1>1, <1>2, BlockSize, LayoutAssumption

\* Seven clusters at most have no bit.
LEMMA Bits ==
  ASSUME NEW s \in MinSec..MaxSec
  PROVE  /\ clu_cnt(s) <= 8 * (bmp_len(s) * lblk_sz) + 7
         /\ bmp_len(s) > 0 => 8 * ((bmp_len(s) - 1) * lblk_sz) < clu_cnt(s) + bmp_len(s)
<1> DEFINE K == clu_cnt0(s)
           Y == K \div 8
           M == bmp_len(s)
           A == blk_cnt(s) - tbl_len - 1
           W == M * lblk_sz
           V == (M - 1) * lblk_sz
<1>1. /\ K \in Nat /\ M \in Nat /\ clu_cnt(s) \in Nat /\ A \in Int /\ A - M \in Nat
      /\ A = blk_cnt(s) - tbl_len - 1
  BY Numbers
<1>2. Y \in Nat /\ 8 * Y <= K /\ K < 8 * Y + 8
  BY <1>1, DivBounds
<1>3. Y <= lblk_sz * M /\ lblk_sz * M < Y + lblk_sz
  BY <1>2, BlockSize, CeilBounds DEF bmp_len
<1>4. W \in Nat /\ W = lblk_sz * M
  BY <1>1, BlockSize
<1>5. V \in Int /\ V = W - lblk_sz
  BY <1>1, BlockSize
<1>6. V < Y
  BY <1>2, <1>3, <1>4, <1>5, BlockSize
<1>7. A \in Nat /\ 8 * K <= A /\ A < 8 * K + 8
  BY <1>1, DivBounds DEF clu_cnt0, FCFS_BLOKS_PER_CLUSTER
<1>8. 8 * clu_cnt(s) <= A - M /\ A - M < 8 * clu_cnt(s) + 8
<2>1. clu_cnt(s) = (A - M) \div 8
  BY <1>1, Numbers DEF clu_cnt, FCFS_BLOKS_PER_CLUSTER
<2>2. QED
  BY <1>1, <2>1, DivBounds
<1>9. clu_cnt(s) <= K
  BY <1>1, <1>7, <1>8
<1>10. clu_cnt(s) <= 8 * W + 7
  BY <1>1, <1>2, <1>3, <1>4, <1>9
<1>11. M > 0 => 8 * V < clu_cnt(s) + M
<2>1. 8 * V <= K - 8
  BY <1>1, <1>2, <1>5, <1>6
<2>2. 8 * clu_cnt(s) > 8 * K - M - 8
  BY <1>1, <1>7, <1>8
<2>3. QED
  BY <2>1, <2>2, <1>1, <1>5
<1>12. QED
  BY <1>10, <1>11

-----------------------------------------------------------------------------
(* The accesses.                                                            *)

\* What the last access touched, when an int can address the device; the numbers
\* stay those of the formatter.
LayoutInv ==
  /\ sectors \in MinSec..MaxSec
  /\ head = Formatted(sectors)
  /\ pos \in Int
  /\ Accessed => /\ op.cid \in DataCluster /\ op.bid \in Blk
                 /\ Bytes < IntLimit => op.at = Exact(op.cid, op.bid)

\* What the formatted head says of the areas.
LEMMA HeadNumbers ==
  ASSUME LayoutInv
  PROVE  /\ head.clu_cnt = clu_cnt(sectors) /\ head.bmp_len = bmp_len(sectors)
         /\ head.tbl_len = tbl_len /\ head.dta_beg = dta_beg(sectors)
         /\ head.clu_cnt \in Nat /\ head.dta_beg \in Nat
  BY Numbers DEF LayoutInv, Formatted

\* No block starts behind the device, so on a device smaller than an int can
\* count no address overflows.
LEMMA ExactInside ==
  ASSUME LayoutInv, NEW c \in DataCluster, NEW b \in Blk
  PROVE  /\ Exact(c, b) \in Nat
         /\ Exact(c, b) < Bytes
<1> DEFINE d == head.dta_beg + 8 * c + b
           B == blk_cnt(sectors)
<1>1. /\ head.clu_cnt \in Nat /\ head.dta_beg \in Nat
      /\ head.clu_cnt = clu_cnt(sectors) /\ head.dta_beg = dta_beg(sectors)
  BY HeadNumbers
<1>2. c \in Nat /\ c <= head.clu_cnt - 1 /\ b \in 0..7
  BY <1>1 DEF DataCluster, Blk, FCFS_BLOKS_PER_CLUSTER
<1>3. /\ B \in Nat /\ (sectors = 2 * B + 1 \/ sectors = 2 * B + 2)
      /\ head.dta_beg + 8 * head.clu_cnt <= B + 1
  BY <1>1, Numbers, AreaEnd DEF LayoutInv
<1>4. d \in Nat /\ d <= B
  BY <1>1, <1>2, <1>3
<1>5. SecSize \in Nat \ {0}
  BY LayoutAssumption
<1>6. Exact(c, b) = (2 * d) * SecSize
  BY <1>4, <1>5 DEF Exact, lblk_sz, FCFS_BLOCK_SIZE, FCFS_BLOKS_PER_CLUSTER
<1>7. sectors \in Nat /\ 2 * d + 1 <= sectors
  BY <1>3, <1>4
<1>8. (2 * d) * SecSize < sectors * SecSize
<2>1. sectors - 2 * d \in Nat \ {0}
  BY <1>4, <1>7
<2>2. (sectors - 2 * d) * SecSize > 0
  BY <2>1, <1>5
<2>3. (sectors - 2 * d) * SecSize = sectors * SecSize - (2 * d) * SecSize
  BY <1>4, <1>5, <1>7
<2>4. QED
  BY <2>2, <2>3, <1>4, <1>5, <1>7
<1>9. QED
  BY <1>4, <1>5, <1>6, <1>8 DEF Bytes

\* On such a device dev_read_block and dev_write_block seek where the layout says.
LEMMA NoOverflow ==
  ASSUME LayoutInv, Bytes < IntLimit, NEW c \in DataCluster, NEW b \in Blk, NEW a \in Address(c, b)
  PROVE  Seek(a) = Exact(c, b)
<1>1. Exact(c, b) \in Nat /\ Exact(c, b) < Bytes
  BY ExactInside
<1>2. Bytes \in Int /\ IntLimit \in Nat
  BY LayoutAssumption DEF Bytes, LayoutInv
<1>3. Address(c, b) = {Exact(c, b)}
  BY <1>1, <1>2 DEF Address
<1>4. QED
  BY <1>1, <1>3 DEF Seek

\* Every access leaves numbers and device alone and a position behind.
LEMMA PositionInt ==
  ASSUME LayoutInv, NEW c \in DataCluster, NEW b \in Blk, NEW a \in Address(c, b)
  PROVE  Seek(a) \in Int /\ Room(Seek(a)) \in Int
<1>1. Exact(c, b) \in Int
  BY ExactInside
<1>2. Wrapped(Exact(c, b)) \in Int
  BY <1>1, LayoutAssumption DEF Wrapped
<1>3. a \in Int
  BY <1>1, <1>2 DEF Address
<1>4. Seek(a) \in Int
  BY <1>3 DEF Seek, LayoutInv
<1>5. Bytes \in Int /\ lblk_sz \in Int
  BY LayoutAssumption, BlockSize DEF Bytes, LayoutInv
<1>6. QED
  BY <1>4, <1>5 DEF Room, Shorter

\* A mounted device is laid out as it was formatted.
LEMMA InitLayoutInv == LayoutInit => LayoutInv
  BY DEF LayoutInit, LayoutInv, Accessed, NoOp

\* No access to the device changes its layout.
LEMMA NextLayoutInv == LayoutInv /\ [LayoutNext]_layout_vars => LayoutInv'
<1> SUFFICES ASSUME LayoutInv, [LayoutNext]_layout_vars PROVE LayoutInv'
  OBVIOUS
<1>1. CASE UNCHANGED layout_vars
  BY <1>1 DEF layout_vars, LayoutInv, Accessed, DataCluster, Blk, Bytes, Exact
<1>2. ASSUME NEW c \in DataCluster, NEW b \in Blk, NEW a \in Address(c, b),
             NEW call \in {"dev_read_block", "dev_write_block", "dev_write_by_id"},
             NEW answer, NEW stored,
             Access(call, c, b, Seek(a), answer, stored), pos' \in Int
      PROVE  LayoutInv'
<2>1. sectors' = sectors /\ head' = head
  BY <1>2 DEF Access
<2>2. op'.cid = c /\ op'.bid = b /\ op'.at = Seek(a)
  BY <1>2 DEF Access
<2>3. Bytes' = Bytes /\ Exact(c, b)' = Exact(c, b) /\ DataCluster' = DataCluster /\ Blk' = Blk
  BY <2>1 DEF Bytes, Exact, DataCluster, Blk
<2>4. Bytes < IntLimit => op'.at = Exact(c, b)
  BY <2>2, NoOverflow
<2>5. Exact(op.cid, op.bid)' = Exact(c, b)
  BY <2>1, <2>2 DEF Exact
<2>6. QED
  BY <1>2, <2>1, <2>2, <2>3, <2>4, <2>5 DEF LayoutInv, Accessed
<1>3. ASSUME NEW c \in DataCluster, NEW b \in Blk, dev_read_block(c, b) PROVE LayoutInv'
<2>1. PICK a \in Address(c, b) :
        /\ pos' = Seek(a) + Room(Seek(a))
        /\ Access("dev_read_block", c, b, Seek(a), IF Room(Seek(a)) = lblk_sz THEN 0 ELSE -1, FALSE)
  BY <1>3 DEF dev_read_block
<2>2. pos' \in Int
  BY <2>1, PositionInt
<2>3. QED
  BY <1>2, <2>1, <2>2
<1>4. ASSUME NEW c \in DataCluster, NEW b \in Blk, NEW len, dev_write_block(c, b, len) PROVE LayoutInv'
<2> PICK a \in Address(c, b) : \E res \in {lblk_sz, Room(Seek(a))} :
        /\ pos' = Seek(a) + res
        /\ Access("dev_write_block", c, b, Seek(a), IF res = len THEN 0 ELSE -1,
                  Room(Seek(a)) = lblk_sz)
  BY <1>4 DEF dev_write_block
<2>1. PICK res \in {lblk_sz, Room(Seek(a))} :
        /\ pos' = Seek(a) + res
        /\ Access("dev_write_block", c, b, Seek(a), IF res = len THEN 0 ELSE -1,
                  Room(Seek(a)) = lblk_sz)
  OBVIOUS
<2>2. pos' \in Int
  BY <2>1, PositionInt, BlockSize
<2>3. QED
  BY <1>2, <2>1, <2>2
<1>5. ASSUME NEW c \in DataCluster, NEW b \in Blk, dev_write_by_id(c, b) PROVE LayoutInv'
<2> PICK a \in Address(c, b) : \E res \in {lblk_sz, Room(Seek(a))} :
        /\ pos' = Seek(a) + res
        /\ Access("dev_write_by_id", c, b, Seek(a), 0, Room(Seek(a)) = lblk_sz)
  BY <1>5 DEF dev_write_by_id
<2>1. PICK res \in {lblk_sz, Room(Seek(a))} :
        /\ pos' = Seek(a) + res
        /\ Access("dev_write_by_id", c, b, Seek(a), 0, Room(Seek(a)) = lblk_sz)
  OBVIOUS
<2>2. pos' \in Int
  BY <2>1, PositionInt, BlockSize
<2>3. QED
  BY <1>2, <2>1, <2>2
<1>6. QED
  BY <1>1, <1>3, <1>4, <1>5 DEF LayoutNext

\* The head a mount has read describes the device in every state.
LEMMA LayoutInvAlways == LayoutSpec => []LayoutInv
  BY InitLayoutInv, NextLayoutInv, PTL DEF LayoutSpec

-----------------------------------------------------------------------------
(* The theorems.                                                            *)

\* For every device: header, bitmap, table and data follow one another, and the
\* data area overlaps the end by one block at most (fcfsfmt.c:51-66).
THEOREM AreasFitAlways == LayoutSpec => []AreasFit
<1>1. ASSUME LayoutInv PROVE AreasFit
<2>1. sectors \in MinSec..MaxSec
  BY <1>1 DEF LayoutInv
<2>2. /\ head.clu_cnt = clu_cnt(sectors) /\ head.bmp_len = bmp_len(sectors)
      /\ head.tbl_len = tbl_len /\ head.dta_beg = dta_beg(sectors)
  BY <1>1, HeadNumbers
<2>3. dta_beg(sectors) >= 1 + bmp_len(sectors) + tbl_len
  BY <2>1, Numbers DEF dta_beg
<2>4. tbl_len * lblk_sz >= TableBytes
  BY <2>1, TableFits, Numbers, BlockSize, LayoutAssumption
<2>5. QED
  BY <2>1, <2>2, <2>3, <2>4, AreaEnd DEF AreasFit, FCFS_BLOKS_PER_CLUSTER
<1>2. QED
  BY <1>1, LayoutInvAlways, PTL

\* For every device: at most seven clusters lack a bit (fcfsfmt.c:58-62).
THEOREM BitsNearlyCoverAlways == LayoutSpec => []BitsNearlyCover
<1>1. ASSUME LayoutInv PROVE BitsNearlyCover
<2>1. sectors \in MinSec..MaxSec
  BY <1>1 DEF LayoutInv
<2>2. QED
  BY <1>1, <2>1, HeadNumbers, Bits DEF BitsNearlyCover
<1>2. QED
  BY <1>1, LayoutInvAlways, PTL

\* On every device that an int can address, a block that reaches behind the end
\* is the last of the last cluster, and the device has an odd number of sectors.
THEOREM OnlyLastLostAlways == LayoutSpec => []OnlyLastLost
<1>1. ASSUME LayoutInv PROVE OnlyLastLost
<2> SUFFICES ASSUME Accessed, Bytes < IntLimit, op.at + lblk_sz > Bytes
             PROVE  /\ op.cid = head.clu_cnt - 1 /\ op.bid = 7
                    /\ sectors % 2 = 1
  BY DEF OnlyLastLost, FCFS_BLOKS_PER_CLUSTER, FCFS_BLOCK_SIZE
<2> DEFINE c == op.cid
           b == op.bid
           d == head.dta_beg + 8 * c + b
           B == blk_cnt(sectors)
<2>1. c \in DataCluster /\ b \in Blk /\ op.at = Exact(c, b) /\ sectors \in MinSec..MaxSec
  BY <1>1 DEF LayoutInv
<2>2. /\ head.clu_cnt \in Nat /\ head.dta_beg \in Nat
      /\ head.clu_cnt = clu_cnt(sectors) /\ head.dta_beg = dta_beg(sectors)
  BY <1>1, HeadNumbers
<2>3. c \in Nat /\ c <= head.clu_cnt - 1 /\ b \in 0..7
  BY <2>1, <2>2 DEF DataCluster, Blk, FCFS_BLOKS_PER_CLUSTER
<2>4. /\ B \in Nat /\ (sectors = 2 * B + 1 \/ sectors = 2 * B + 2)
      /\ head.dta_beg + 8 * head.clu_cnt <= B + 1
  BY <2>1, <2>2, Numbers, AreaEnd
<2>5. SecSize \in Nat \ {0} /\ d \in Nat /\ sectors \in Nat
  BY <2>2, <2>3, <2>4, LayoutAssumption
<2>6. op.at + lblk_sz = (2 * d + 2) * SecSize
  BY <2>1, <2>5 DEF Exact, lblk_sz, FCFS_BLOCK_SIZE, FCFS_BLOKS_PER_CLUSTER
<2>7. (2 * d + 2) * SecSize > sectors * SecSize
  BY <2>6 DEF Bytes
<2>8. sectors < 2 * d + 2
<3>1. SUFFICES ASSUME sectors - (2 * d + 2) \in Nat PROVE FALSE
  BY <2>5
<3>2. (sectors - (2 * d + 2)) * SecSize >= 0
  BY <3>1, <2>5
<3>3. (sectors - (2 * d + 2)) * SecSize = sectors * SecSize - (2 * d + 2) * SecSize
  BY <2>5
<3>4. QED
  BY <3>2, <3>3, <2>5, <2>7
<2>9. d = B /\ sectors = 2 * B + 1
  BY <2>2, <2>3, <2>4, <2>5, <2>8
<2>10. QED
  BY <2>2, <2>3, <2>4, <2>9
<1>2. QED
  BY <1>1, LayoutInvAlways, PTL

-----------------------------------------------------------------------------
(* ClusterList.                                                             *)

\* The table entry holds every cluster number.
Fits == MaxCluster < ShortSize

(* The parts of the inductive invariant. *)

Types ==
  /\ list \in Seq(Cluster)
  /\ entry \in [1..Direct -> Nat]
  /\ saved \in [used : BOOLEAN, cnt : Nat, ents : Seq(Nat)]
  /\ cache \in [on : BOOLEAN, s0 : Seq(Nat), s1 : Seq(Nat)]

\* What is saved of the second level is within its limit, and all that six blocks
\* hold is there.
SavedSane ==
  /\ saved.cnt <= s1_len
  /\ Len(saved.ents) = Lesser(saved.cnt, SavedCap)
  /\ ~saved.used => saved.cnt = 0

\* The history in the two places it is kept.
DeviceKept ==
  /\ Len(list) > Direct => Len(list) <= s1_len
  /\ saved.cnt = IF Len(list) <= Direct THEN 0 ELSE Len(list) - Direct
  /\ \A i \in 1..Direct : entry[i] = IF i <= Len(list) THEN list[i] ELSE 0
  /\ \A i \in 1..Len(saved.ents) : saved.ents[i] = list[Direct + i]

\* The first level of a cache c is the one of the table entry.
FirstKept(c) ==
  /\ Len(c.s0) = Lesser(Len(list), Direct)
  /\ \A i \in 1..Len(c.s0) : c.s0[i] = list[i]

\* A cache agrees with what is saved of the second level.
SecondSaved(c) ==
  /\ Len(c.s1) = saved.cnt
  /\ saved.ents = Take(c.s1, SavedCap)

IInv == /\ Types /\ SavedSane
        /\ cache.on => SecondSaved(cache)
        /\ ~cache.on => cache = NoCache
        /\ Fits => DeviceKept /\ (cache.on => FirstKept(cache))

-----------------------------------------------------------------------------
(* The constants.                                                           *)

\* The second level has room for at least one cluster, and is written inside its
\* cluster.
LEMMA Caps ==
  /\ SavedCap \in Nat \ {0} /\ s1_len \in Nat \ {0}
  /\ s1_len <= (BPC - 1) * EntsPerBlk - 1
  /\ Direct + SavedCap \in Nat
<1> DEFINE E == EntsPerBlk
           B == BPC - 2
<1>1. E \in Nat /\ E >= 2 /\ B \in Nat /\ B >= 1
  BY ListAssumption
<1>2. B * E \in Nat /\ B * E >= 2
  BY <1>1, SMTT(30)
<1>3. (BPC - 1) * E = B * E + E
  BY <1>1, ListAssumption, SMTT(30)
<1>4. (E - 1) * (BPC - 1) = (BPC - 1) * E - (BPC - 1)
  BY <1>1, ListAssumption, SMTT(30)
<1>5. QED
  BY <1>1, <1>2, <1>3, <1>4, ListAssumption DEF SavedCap, s1_len

\* What is left of a list when only the part that is saved is kept.
LEMMA TakeFacts ==
  ASSUME NEW s \in Seq(Nat)
  PROVE  /\ Take(s, SavedCap) \in Seq(Nat)
         /\ Len(Take(s, SavedCap)) = Lesser(Len(s), SavedCap)
         /\ \A i \in 1..Lesser(Len(s), SavedCap) : Take(s, SavedCap)[i] = s[i]
<1> DEFINE n == Lesser(SavedCap, Len(s))
<1>1. n \in Nat /\ n <= Len(s) /\ n = Lesser(Len(s), SavedCap)
  BY Caps, LenProperties DEF Lesser
<1>2. \A i \in 1..n : s[i] \in Nat
  BY <1>1, ElementOfSeq
<1>3. /\ SubSeq(s, 1, n) \in Seq(Nat)
      /\ Len(SubSeq(s, 1, n)) = IF 1 <= n THEN n - 1 + 1 ELSE 0
      /\ \A i \in 1..(n - 1 + 1) : SubSeq(s, 1, n)[i] = s[1 + i - 1]
  BY <1>1, <1>2, SubSeqProperties
<1>4. QED
  BY <1>1, <1>3 DEF Take

\* A function on 1..n is a sequence.
LEMMA FcnIsSeq ==
  ASSUME NEW n \in Nat, NEW f \in [1..n -> Nat]
  PROVE  f \in Seq(Nat) /\ Len(f) = n
  OBVIOUS

-----------------------------------------------------------------------------
(* Loading.                                                                 *)

\* There is a first empty slot, or none: the loop of dev_tbl_load_fir ends.
LEMMA FirstEmpty ==
  ASSUME Types
  PROVE  \E k \in 0..Direct : /\ \A i \in 1..k : entry[i] # 0
                              /\ k < Direct => entry[k + 1] = 0
<1> DEFINE T == {k \in 0..Direct : k < Direct => entry[k + 1] = 0}
<1>1. Direct \in Nat
  BY ListAssumption
<1>2. T # {} /\ T \subseteq Nat
  BY <1>1
<1>3. PICK x \in T : \A y \in T : ~(<<y, x>> \in OpToRel(<, Nat))
  BY <1>2, NatLessThanWellFounded, WFMin
<1>4. \A y \in T : ~(y < x)
  BY <1>2, <1>3 DEF OpToRel
<1>5. ASSUME NEW i \in 1..x PROVE entry[i] # 0
  <2>1. i - 1 \in 0..Direct /\ i - 1 < x
    BY <1>1
  <2>2. i - 1 \notin T
    BY <2>1, <1>4
  <2>3. QED
    BY <2>1, <2>2
<1>6. QED
  BY <1>5

\* dev_tbl_load_fir reads the first level up to the first zero: what was added.
LEMMA FirFacts ==
  ASSUME Types
  PROVE  /\ dev_tbl_load_fir \in Seq(Nat)
         /\ Fits /\ DeviceKept =>
              /\ Len(dev_tbl_load_fir) = Lesser(Len(list), Direct)
              /\ \A i \in 1..Len(dev_tbl_load_fir) : dev_tbl_load_fir[i] = list[i]
<1> DEFINE First(k) == /\ \A i \in 1..k : entry[i] # 0
                       /\ k < Direct => entry[k + 1] = 0
           n == CHOOSE k \in 0..Direct : First(k)
<1>1. n \in 0..Direct /\ (\A i \in 1..n : entry[i] # 0) /\ (n < Direct => entry[n + 1] = 0)
  BY FirstEmpty
<1>3. dev_tbl_load_fir = [i \in 1..n |-> entry[i]]
  BY DEF dev_tbl_load_fir
<1> HIDE DEF n
<1>2. Direct \in Nat /\ n \in Nat
  BY <1>1, ListAssumption
<1>4. [i \in 1..n |-> entry[i]] \in [1..n -> Nat]
  BY <1>1, <1>2 DEF Types
<1>5. dev_tbl_load_fir \in Seq(Nat) /\ Len(dev_tbl_load_fir) = n
  BY <1>2, <1>3, <1>4, FcnIsSeq
<1>6. ASSUME DeviceKept
      PROVE  /\ n = Lesser(Len(list), Direct)
             /\ \A i \in 1..n : entry[i] = list[i]
  <2>1. Len(list) \in Nat /\ \A i \in 1..Len(list) : list[i] # 0
    <3>1. list \in Seq(Cluster)
      BY DEF Types
    <3>2. Len(list) \in Nat /\ \A i \in 1..Len(list) : list[i] \in Cluster
      BY <3>1, LenProperties, ElementOfSeq
    <3>3. \A c \in Cluster : c # 0
      BY ListAssumption DEF Cluster
    <3>4. QED
      BY <3>2, <3>3
  <2>2. \A i \in 1..Direct : entry[i] = IF i <= Len(list) THEN list[i] ELSE 0
    BY <1>6 DEF DeviceKept
  <2>3. n <= Len(list)
    <3>1. CASE n = 0
      BY <3>1, <2>1
    <3>2. CASE n # 0
      BY <3>2, <1>1, <1>2, <2>2
    <3>3. QED
      BY <3>1, <3>2
  <2>4. ~(n < Len(list) /\ n < Direct)
    BY <1>1, <1>2, <2>1, <2>2
  <2>5. QED
    BY <1>1, <1>2, <2>1, <2>2, <2>3, <2>4 DEF Lesser
<1>7. QED
  BY <1>3, <1>5, <1>6

\* dev_tbl_load_sec reads as many clusters as were counted; those saved come first.
LEMMA SecFacts ==
  ASSUME Types, SavedSane
  PROVE  /\ dev_tbl_load_sec \in Seq(Nat)
         /\ Len(dev_tbl_load_sec) = saved.cnt
         /\ saved.ents = Take(dev_tbl_load_sec, SavedCap)
<1>1. saved.cnt \in Nat /\ saved.ents \in Seq(Nat)
  BY DEF Types
<1>2. dev_tbl_load_sec \in [1..saved.cnt -> Nat]
  <2>1. \A i \in 1..saved.cnt :
          (IF i <= Len(saved.ents) THEN saved.ents[i] ELSE Junk) \in Nat
    BY <1>1, LenProperties, ElementOfSeq DEF Junk
  <2>2. QED
    BY <2>1 DEF dev_tbl_load_sec
<1>3. dev_tbl_load_sec \in Seq(Nat) /\ Len(dev_tbl_load_sec) = saved.cnt
  BY <1>1, <1>2, FcnIsSeq
<1>4. /\ Take(dev_tbl_load_sec, SavedCap) \in Seq(Nat)
      /\ Len(Take(dev_tbl_load_sec, SavedCap)) = Len(saved.ents)
  BY <1>3, TakeFacts DEF SavedSane
<1>5. \A i \in 1..Len(saved.ents) : Take(dev_tbl_load_sec, SavedCap)[i] = saved.ents[i]
  <2>1. Len(saved.ents) = Lesser(saved.cnt, SavedCap) /\ Len(saved.ents) <= saved.cnt
    BY <1>1, Caps DEF SavedSane, Lesser
  <2>2. \A i \in 1..Len(saved.ents) : dev_tbl_load_sec[i] = saved.ents[i]
    BY <1>1, <2>1, LenProperties DEF dev_tbl_load_sec
  <2>3. QED
    BY <1>3, <2>1, <2>2, TakeFacts
<1>6. QED
  BY <1>1, <1>3, <1>4, <1>5, SeqEqual

\* Setting both levels of a cache.
LEMMA SetLevels ==
  ASSUME NEW c \in [on : BOOLEAN, s0 : Seq(Nat), s1 : Seq(Nat)], NEW a \in Seq(Nat), NEW b \in Seq(Nat)
  PROVE  /\ [c EXCEPT !.s0 = a, !.s1 = b] \in [on : BOOLEAN, s0 : Seq(Nat), s1 : Seq(Nat)]
         /\ [c EXCEPT !.s0 = a, !.s1 = b].on = c.on
         /\ [c EXCEPT !.s0 = a, !.s1 = b].s0 = a
         /\ [c EXCEPT !.s0 = a, !.s1 = b].s1 = b
  OBVIOUS

\* What every call starts from.
LEMMA LoadedFacts ==
  ASSUME IInv
  PROVE  /\ Loaded \in [on : BOOLEAN, s0 : Seq(Nat), s1 : Seq(Nat)]
         /\ Loaded.on
         /\ SecondSaved(Loaded)
         /\ Fits => FirstKept(Loaded)
<1>1. Types /\ SavedSane
  BY DEF IInv
<1>2. /\ dev_tbl_load_fir \in Seq(Nat) /\ dev_tbl_load_sec \in Seq(Nat)
      /\ Len(dev_tbl_load_sec) = saved.cnt
      /\ saved.ents = Take(dev_tbl_load_sec, SavedCap)
      /\ Fits => /\ Len(dev_tbl_load_fir) = Lesser(Len(list), Direct)
                 /\ \A i \in 1..Len(dev_tbl_load_fir) : dev_tbl_load_fir[i] = list[i]
  BY <1>1, FirFacts, SecFacts DEF IInv
<1>3. CASE cache.on
  <2> DEFINE a == IF cache.s0 = <<>> THEN dev_tbl_load_fir ELSE cache.s0
             b == IF cache.s1 = <<>> /\ saved.used THEN dev_tbl_load_sec ELSE cache.s1
  <2>1. Loaded = [cache EXCEPT !.s0 = a, !.s1 = b]
    BY <1>3 DEF Loaded
  <2>2. SecondSaved(cache) /\ (Fits => FirstKept(cache))
    BY <1>3 DEF IInv
  <2>3. /\ cache \in [on : BOOLEAN, s0 : Seq(Nat), s1 : Seq(Nat)]
        /\ a \in Seq(Nat) /\ b \in Seq(Nat)
    BY <1>1, <1>2 DEF Types
  <2>4. /\ Loaded \in [on : BOOLEAN, s0 : Seq(Nat), s1 : Seq(Nat)]
        /\ Loaded.on /\ Loaded.s0 = a /\ Loaded.s1 = b
    <3> HIDE DEF a, b
    <3>1. QED
      BY <1>3, <2>1, <2>3, SetLevels
  <2>5. QED
    BY <1>2, <2>2, <2>4 DEF SecondSaved, FirstKept
<1>4. CASE ~cache.on
  <2> DEFINE b == IF saved.used THEN dev_tbl_load_sec ELSE <<>>
             c0 == [NoCache EXCEPT !.on = TRUE]
  <2>0. <<>> \in Seq(Nat) /\ Len(<<>>) = 0
    BY EmptySeq
  <2>1. /\ Loaded \in [on : BOOLEAN, s0 : Seq(Nat), s1 : Seq(Nat)]
        /\ Loaded.on /\ Loaded.s0 = dev_tbl_load_fir /\ Loaded.s1 = b
    <3>1. /\ c0 \in [on : BOOLEAN, s0 : Seq(Nat), s1 : Seq(Nat)]
          /\ c0.on /\ c0.s0 = <<>> /\ c0.s1 = <<>>
      BY <2>0 DEF NoCache
    <3>2. Loaded = [c0 EXCEPT !.s0 = IF c0.s0 = <<>> THEN dev_tbl_load_fir ELSE c0.s0,
                              !.s1 = IF c0.s1 = <<>> /\ saved.used THEN dev_tbl_load_sec ELSE c0.s1]
      BY <1>4 DEF Loaded
    <3>3. b \in Seq(Nat)
      BY <1>2, <2>0
    <3> HIDE DEF c0
    <3>4. Loaded = [c0 EXCEPT !.s0 = dev_tbl_load_fir, !.s1 = b]
      BY <3>1, <3>2
    <3> HIDE DEF b
    <3>5. QED
      BY <1>2, <3>1, <3>3, <3>4, SetLevels
  <2>2. ASSUME ~saved.used
        PROVE  saved.cnt = 0 /\ saved.ents = Take(<<>>, SavedCap)
    <3>1. saved.cnt = 0 /\ saved.ents \in Seq(Nat) /\ Len(saved.ents) = 0
      BY <1>1, <2>2, Caps DEF SavedSane, Types, Lesser
    <3>2. /\ <<>> \in Seq(Nat) /\ Len(<<>>) = 0 /\ Take(<<>>, SavedCap) \in Seq(Nat)
          /\ Len(Take(<<>>, SavedCap)) = Lesser(0, SavedCap)
      BY EmptySeq, TakeFacts
    <3>3. Len(Take(<<>>, SavedCap)) = 0
      BY <3>2, Caps DEF Lesser
    <3>4. QED
      BY <3>1, <3>2, <3>3, SeqEqual
  <2>3. QED
    BY <1>2, <2>0, <2>1, <2>2 DEF SecondSaved, FirstKept
<1>5. QED
  BY <1>3, <1>4

-----------------------------------------------------------------------------
(* The steps.                                                               *)

\* A new file's list, cached nowhere, is consistent.
LEMMA InitIInv == Init => IInv
<1> SUFFICES ASSUME Init PROVE IInv
  OBVIOUS
<1>1. Direct \in Nat /\ <<>> \in Seq(Nat) /\ <<>> \in Seq(Cluster) /\ Len(<<>>) = 0
  BY ListAssumption, EmptySeq
<1>2. Types
  BY <1>1 DEF Init, Types, NoCache
<1>3. SavedSane
  BY <1>1, Caps DEF Init, SavedSane, Lesser
<1>4. ~cache.on /\ cache = NoCache
  BY DEF Init, NoCache
<1>5. DeviceKept
  BY <1>1 DEF Init, DeviceKept
<1>6. QED
  BY <1>2, <1>3, <1>4, <1>5 DEF IInv

\* dev_tbl_clrs_cnt fills the cache with what the device holds.
LEMMA CntKeeps == IInv /\ dev_tbl_clrs_cnt => IInv'
<1> SUFFICES ASSUME IInv, dev_tbl_clrs_cnt PROVE IInv'
  OBVIOUS
<1>1. cache' = Loaded /\ UNCHANGED <<list, entry, saved>>
  BY DEF dev_tbl_clrs_cnt
<1>2. Types' /\ SavedSane' /\ (Fits => DeviceKept')
  BY <1>1, LoadedFacts DEF IInv, Types, SavedSane, DeviceKept
<1>3. cache'.on /\ SecondSaved(cache)' /\ (Fits => FirstKept(cache)')
  BY <1>1, LoadedFacts DEF SecondSaved, FirstKept
<1>4. QED
  BY <1>2, <1>3 DEF IInv

\* Taking the cache for another file loses nothing of this one.
LEMMA SwitchKeeps == IInv /\ Switch => IInv'
<1> SUFFICES ASSUME IInv, Switch PROVE IInv'
  OBVIOUS
<1>1. cache' = NoCache /\ UNCHANGED <<list, entry, saved>>
  BY DEF Switch
<1>2. ~cache'.on /\ NoCache \in [on : BOOLEAN, s0 : Seq(Nat), s1 : Seq(Nat)]
  BY <1>1, EmptySeq DEF NoCache
<1>3. Types' /\ SavedSane' /\ (Fits => DeviceKept')
  BY <1>1, <1>2 DEF IInv, Types, SavedSane, DeviceKept
<1>4. QED
  BY <1>1, <1>2, <1>3 DEF IInv

\* The count of a cache is that of its levels, so each has less than the limit.
LEMMA CountFacts ==
  ASSUME NEW c, Len(c.s0) \in Nat, Len(c.s1) \in Nat, NEW n \in Nat
  PROVE  /\ Count(c) \in Nat
         /\ Count(c) < n => Len(c.s0) < n /\ Len(c.s1) < n
<1>1. \A a, b, k \in Nat : a + b \in Nat /\ (a + b < k => a < k /\ b < k)
  OBVIOUS
<1>2. Count(c) = Len(c.s0) + Len(c.s1)
  BY DEF Count
<1> DEFINE a == Len(c.s0)
           b == Len(c.s1)
<1>3. a \in Nat /\ b \in Nat /\ Count(c) = a + b
  BY <1>2
<1> HIDE DEF a, b
<1>4. Count(c) \in Nat /\ (Count(c) < n => a < n /\ b < n)
  BY <1>1, <1>3
<1>5. QED
  BY <1>4 DEF a, b

\* A sequence and one element more.
LEMMA AppendFacts ==
  ASSUME NEW S, NEW s \in Seq(S), NEW e \in S
  PROVE  /\ Append(s, e) \in Seq(S)
         /\ Len(Append(s, e)) = Len(s) + 1
         /\ \A i \in 1..Len(s) : Append(s, e)[i] = s[i]
         /\ Append(s, e)[Len(s) + 1] = e
  BY AppendProperties

\* An addition to the table entry.
LEMMA AddFirstKeeps ==
  ASSUME IInv, NEW c \in Cluster, dev_tbl_clrs_add(c), Count(Loaded) < Direct
  PROVE  IInv'
<1> DEFINE l == Loaded
<1>1. /\ l \in [on : BOOLEAN, s0 : Seq(Nat), s1 : Seq(Nat)] /\ l.on
      /\ SecondSaved(l) /\ (Fits => FirstKept(l))
  BY LoadedFacts
<1>2. /\ list' = Append(list, c) /\ saved' = saved
      /\ entry' = [entry EXCEPT ![Len(l.s0) + 1] = Short(c)]
      /\ cache' = [l EXCEPT !.s0 = Append(l.s0, c)]
  BY DEF dev_tbl_clrs_add
<1>c. Count(l) < Direct
  OBVIOUS
<1> HIDE DEF l
<1>3. c \in Nat /\ c # 0 /\ Short(c) \in Nat /\ (Fits => Short(c) = c)
  BY ListAssumption DEF Cluster, Short, Fits
<1>4. Types /\ SavedSane /\ list \in Seq(Cluster) /\ Direct \in Nat
  BY ListAssumption DEF IInv, Types
<1>5. /\ list' \in Seq(Cluster) /\ Len(list') = Len(list) + 1 /\ Len(list) \in Nat
      /\ \A i \in 1..Len(list) : list'[i] = list[i]
      /\ list'[Len(list) + 1] = c
  BY <1>2, <1>4, AppendFacts, LenProperties
<1>6. /\ Append(l.s0, c) \in Seq(Nat) /\ Len(Append(l.s0, c)) = Len(l.s0) + 1
      /\ Len(l.s0) \in Nat /\ Len(l.s1) \in Nat
      /\ \A i \in 1..Len(l.s0) : Append(l.s0, c)[i] = l.s0[i]
      /\ Append(l.s0, c)[Len(l.s0) + 1] = c
  BY <1>1, <1>3, AppendFacts, LenProperties
<1>n. Len(l.s0) \in Nat /\ Len(l.s1) \in Nat
  BY <1>6
<1>7. /\ cache' \in [on : BOOLEAN, s0 : Seq(Nat), s1 : Seq(Nat)]
      /\ cache'.on /\ cache'.s0 = Append(l.s0, c) /\ cache'.s1 = l.s1
  BY <1>1, <1>2, <1>6
<1>8. Types' /\ SavedSane' /\ SecondSaved(cache)'
  <2>1. entry' \in [1..Direct -> Nat]
    BY <1>2, <1>3, <1>4 DEF Types
  <2>2. Types'
    BY <1>2, <1>4, <1>5, <1>7, <2>1 DEF Types
  <2>3. SavedSane' /\ SecondSaved(cache)'
    BY <1>1, <1>2, <1>4, <1>7 DEF SavedSane, SecondSaved
  <2>4. QED
    BY <2>2, <2>3
<1>9. ASSUME Fits PROVE DeviceKept' /\ FirstKept(cache)'
  <2>1. DeviceKept /\ FirstKept(l)
    BY <1>1, <1>9 DEF IInv
  <2>2. Len(list) < Direct /\ Len(l.s0) = Len(list)
    <3>1. Len(l.s0) < Direct
      BY <1>c, <1>4, <1>n, CountFacts
    <3>2. Len(l.s0) = Lesser(Len(list), Direct)
      BY <2>1 DEF FirstKept
    <3>3. QED
      BY <1>4, <1>5, <3>1, <3>2 DEF Lesser
  <2>3. saved.cnt = 0 /\ Len(saved.ents) = 0
    BY <1>4, <1>5, <2>1, <2>2, Caps DEF DeviceKept, SavedSane, Lesser
  <2>4. \A i \in 1..Direct : entry'[i] = IF i <= Len(list') THEN list'[i] ELSE 0
    BY <1>2, <1>3, <1>4, <1>5, <1>9, <2>1, <2>2 DEF DeviceKept, Types
  <2>5. DeviceKept'
    BY <1>2, <1>4, <1>5, <2>2, <2>3, <2>4 DEF DeviceKept
  <2>6. FirstKept(cache)'
    BY <1>4, <1>5, <1>6, <1>7, <2>1, <2>2 DEF FirstKept, Lesser
  <2>7. QED
    BY <2>5, <2>6
<1>10. QED
  BY <1>7, <1>8, <1>9 DEF IInv

\* An addition to the second level, which is saved at once.
LEMMA AddSecondKeeps ==
  ASSUME IInv, NEW c \in Cluster, dev_tbl_clrs_add(c), ~(Count(Loaded) < Direct)
  PROVE  IInv'
<1> DEFINE l == Loaded
           s == Append(l.s1, c)
<1>1. /\ l \in [on : BOOLEAN, s0 : Seq(Nat), s1 : Seq(Nat)] /\ l.on
      /\ SecondSaved(l) /\ (Fits => FirstKept(l))
  BY LoadedFacts
<1>2. /\ list' = Append(list, c) /\ entry' = entry
      /\ cache' = [l EXCEPT !.s1 = s]
      /\ saved' = [used |-> TRUE, cnt |-> Len(cache'.s1), ents |-> Take(cache'.s1, SavedCap)]
  BY DEF dev_tbl_clrs_add, dev_tbl_save_sec
<1>c. Count(l) < s1_len /\ ~(Count(l) < Direct)
  BY DEF dev_tbl_clrs_add
<1> HIDE DEF l
<1>3. c \in Nat
  BY ListAssumption DEF Cluster
<1>4. Types /\ SavedSane /\ list \in Seq(Cluster) /\ Direct \in Nat
  BY ListAssumption DEF IInv, Types
<1>5. /\ list' \in Seq(Cluster) /\ Len(list') = Len(list) + 1 /\ Len(list) \in Nat
      /\ \A i \in 1..Len(list) : list'[i] = list[i]
      /\ list'[Len(list) + 1] = c
  BY <1>2, <1>4, AppendFacts, LenProperties
<1>6. /\ s \in Seq(Nat) /\ Len(s) = Len(l.s1) + 1
      /\ Len(l.s0) \in Nat /\ Len(l.s1) \in Nat
      /\ \A i \in 1..Len(l.s1) : s[i] = l.s1[i]
      /\ s[Len(l.s1) + 1] = c
  BY <1>1, <1>3, AppendFacts, LenProperties
<1> HIDE DEF s
<1>n. Len(l.s0) \in Nat /\ Len(l.s1) \in Nat
  BY <1>6
<1>7. /\ cache' \in [on : BOOLEAN, s0 : Seq(Nat), s1 : Seq(Nat)]
      /\ cache'.on /\ cache'.s0 = l.s0 /\ cache'.s1 = s
  BY <1>1, <1>2, <1>6
<1>8. /\ Take(s, SavedCap) \in Seq(Nat)
      /\ Len(Take(s, SavedCap)) = Lesser(Len(s), SavedCap)
      /\ \A i \in 1..Lesser(Len(s), SavedCap) : Take(s, SavedCap)[i] = s[i]
  BY <1>6, TakeFacts
<1>9. saved'.used = TRUE /\ saved'.cnt = Len(s) /\ saved'.ents = Take(s, SavedCap)
      /\ saved' \in [used : BOOLEAN, cnt : Nat, ents : Seq(Nat)]
  BY <1>2, <1>6, <1>7, <1>8
<1>10. Types' /\ SavedSane' /\ SecondSaved(cache)'
  <2>1. Types'
    BY <1>2, <1>4, <1>5, <1>7, <1>9 DEF Types
  <2>2. SavedSane'
    <3>1. Len(l.s1) < s1_len
      BY <1>c, <1>n, Caps, CountFacts
    <3>2. Len(s) <= s1_len
      BY <1>6, <3>1, Caps
    <3>3. QED
      BY <1>8, <1>9, <3>2 DEF SavedSane
  <2>3. SecondSaved(cache)'
    BY <1>7, <1>9 DEF SecondSaved
  <2>4. QED
    BY <2>1, <2>2, <2>3
<1>11. ASSUME Fits PROVE DeviceKept' /\ FirstKept(cache)'
  <2>1. DeviceKept /\ FirstKept(l)
    BY <1>1, <1>11 DEF IInv
  <2>2. /\ Len(list) >= Direct /\ Len(l.s0) = Direct
        /\ Len(l.s1) = Len(list) - Direct
        /\ Len(list) + 1 <= s1_len
    <3>1. Len(l.s0) = Lesser(Len(list), Direct) /\ Len(l.s1) = saved.cnt
      BY <1>1, <2>1 DEF FirstKept, SecondSaved
    <3>2. ~(Len(l.s0) + Len(l.s1) < Direct) /\ Len(l.s0) + Len(l.s1) < s1_len
      BY <1>c DEF Count
    <3>3. QED
      BY <1>4, <1>5, <1>n, <2>1, <3>1, <3>2, Caps DEF DeviceKept, Lesser
  <2>3. ASSUME NEW i \in 1..Len(saved'.ents)
        PROVE  saved'.ents[i] = list'[Direct + i]
    <3>1. i \in 1..Len(s) /\ i <= SavedCap /\ saved'.ents[i] = s[i]
      BY <1>6, <1>8, <1>9, <2>3, Caps DEF Lesser
    <3>2. CASE i = Len(l.s1) + 1
      BY <1>4, <1>5, <1>6, <2>2, <3>1, <3>2
    <3>3. CASE i <= Len(l.s1)
      <4>1. i \in 1..Lesser(Len(l.s1), SavedCap)
        BY <1>6, <3>1, <3>3 DEF Lesser
      <4>2. i \in 1..Len(saved.ents) /\ l.s1[i] = saved.ents[i]
        BY <1>1, <4>1, TakeFacts DEF SecondSaved
      <4>3. saved.ents[i] = list[Direct + i] /\ Direct + i \in 1..Len(list)
        BY <1>4, <1>5, <1>6, <2>1, <2>2, <3>1, <3>3, <4>2 DEF DeviceKept
      <4>4. saved'.ents[i] = list[Direct + i]
        <5>1. i \in 1..Len(l.s1)
          BY <1>6, <3>1, <3>3
        <5>2. QED
          BY <1>6, <3>1, <4>2, <4>3, <5>1
      <4>5. QED
        BY <1>5, <4>3, <4>4
    <3>4. QED
      BY <1>6, <3>1, <3>2, <3>3, SMTT(30)
  <2>4. \A i \in 1..Direct : entry'[i] = IF i <= Len(list') THEN list'[i] ELSE 0
    BY <1>2, <1>4, <1>5, <2>1, <2>2 DEF DeviceKept
  <2>5. DeviceKept'
    BY <1>4, <1>5, <1>6, <1>9, <2>2, <2>3, <2>4 DEF DeviceKept
  <2>6. FirstKept(cache)'
    BY <1>4, <1>5, <1>7, <2>1, <2>2 DEF FirstKept, Lesser
  <2>7. QED
    BY <2>5, <2>6
<1>12. QED
  BY <1>7, <1>10, <1>11 DEF IInv

-----------------------------------------------------------------------------
(* The theorems.                                                            *)

\* No call on the list breaks its consistency.
LEMMA NextIInv == IInv /\ [Next]_vars => IInv'
<1> SUFFICES ASSUME IInv, [Next]_vars PROVE IInv'
  OBVIOUS
<1>1. CASE \E c \in Cluster : c > Last /\ c <= Last + Gap /\ dev_tbl_clrs_add(c)
  BY <1>1, AddFirstKeeps, AddSecondKeeps
<1>2. CASE dev_tbl_clrs_cnt
  BY <1>2, CntKeeps
<1>3. CASE Switch
  BY <1>3, SwitchKeeps
<1>4. CASE UNCHANGED vars
  BY <1>4 DEF vars, IInv, Types, SavedSane, SecondSaved, DeviceKept, FirstKept
<1>5. QED
  BY <1>1, <1>2, <1>3, <1>4 DEF Next

\* The list is consistent in every state.
LEMMA ListInvariant == Spec => []IInv
  BY InitIInv, NextIInv, PTL DEF Spec

\* dev_tbl_clrs_get and dev_tbl_clrs_cnt answer what dev_tbl_clrs_add accepted, as
\* far as the second level is saved, however often the one-file cache was used
\* for another file in between.
THEOREM ListAlwaysKept == Spec => []ListKept
<1>1. ASSUME IInv, Fits
      PROVE  /\ Count(Loaded) = Len(list)
             /\ \A i \in 1..Lesser(Len(list), Direct + SavedCap) : Get(Loaded, i) = list[i]
  <2> DEFINE l == Loaded
  <2>1. /\ l.s0 \in Seq(Nat) /\ l.s1 \in Seq(Nat)
        /\ SecondSaved(l) /\ FirstKept(l) /\ DeviceKept /\ Types
    BY <1>1, LoadedFacts DEF IInv
  <2> HIDE DEF l
  <2>2. Len(l.s0) \in Nat /\ Len(l.s1) \in Nat /\ Len(list) \in Nat /\ Direct \in Nat
    BY <2>1, LenProperties, ListAssumption DEF Types
  <2>3. Len(l.s0) + Len(l.s1) = Len(list)
    BY <2>1, <2>2 DEF SecondSaved, FirstKept, DeviceKept, Lesser
  <2>4. ASSUME NEW i \in 1..Lesser(Len(list), Direct + SavedCap)
        PROVE  Get(l, i) = list[i]
    <3>1. i \in Nat /\ i >= 1 /\ i <= Len(list) /\ i <= Direct + SavedCap
      BY <2>2, Caps DEF Lesser
    <3>2. CASE i <= Direct
      <4>1. i \in 1..Len(l.s0) /\ l.s0[i] = list[i]
        BY <2>1, <2>2, <3>1, <3>2 DEF FirstKept, Lesser
      <4>2. QED
        BY <2>2, <3>1, <3>2, <4>1 DEF Get
    <3>3. CASE i > Direct
      <4>1. Len(l.s1) = Len(list) - Direct /\ Len(list) <= s1_len
        BY <2>1, <2>2, <3>1, <3>3 DEF SecondSaved, DeviceKept
      <4>2. i - Direct \in 1..Lesser(Len(l.s1), SavedCap)
        BY <2>2, <3>1, <3>3, <4>1, Caps DEF Lesser
      <4>3. /\ l.s1[i - Direct] = saved.ents[i - Direct]
            /\ i - Direct \in 1..Len(saved.ents)
        BY <2>1, <4>2, TakeFacts DEF SecondSaved
      <4>4. saved.ents[i - Direct] = list[Direct + (i - Direct)] /\ Direct + (i - Direct) = i
        BY <2>1, <2>2, <3>1, <4>3 DEF DeviceKept
      <4>5. i <= s1_len /\ i - Direct <= Len(l.s1)
        BY <2>2, <3>1, <3>3, <4>1, Caps
      <4>6. QED
        BY <2>2, <3>1, <3>3, <4>3, <4>4, <4>5 DEF Get
    <3>4. QED
      BY <2>2, <3>1, <3>2, <3>3
  <2>5. QED
    BY <2>3, <2>4 DEF l, Count
<1>2. IInv => ListKept
  BY <1>1 DEF ListKept, Fits
<1>3. QED
  BY <1>2, ListInvariant, PTL

\* The heap buffer of the second level is never overrun, though dev_tbl_clrs_add
\* compares the whole list with a limit made for one level.
THEOREM BufferAlwaysHolds == Spec => []BufferHolds
<1>1. ASSUME IInv PROVE BufferHolds
  <2>1. Len(cache.s1) \in Nat /\ Len(cache.s1) <= s1_len
    <3>1. CASE cache.on
      BY <1>1, <3>1, LenProperties DEF IInv, Types, SavedSane, SecondSaved
    <3>2. CASE ~cache.on
      BY <1>1, <3>2, Caps, EmptySeq DEF IInv, NoCache
    <3>3. QED
      BY <3>1, <3>2
  <2>2. (BPC - 1) * EntsPerBlk - 1 \in Int
    BY ListAssumption
  <2>3. QED
    BY <2>1, <2>2, Caps DEF BufferHolds
<1>2. QED
  BY <1>1, ListInvariant, PTL

\* Whenever clrs_cache is this file's, dropping it (tbl_clrs_reinit) loses nothing
\* the six blocks hold.
THEOREM CacheAlwaysSaved == Spec => []CacheSaved
<1>1. IInv => CacheSaved
  BY DEF IInv, SecondSaved, CacheSaved
<1>2. QED
  BY <1>1, ListInvariant, PTL
=============================================================================
