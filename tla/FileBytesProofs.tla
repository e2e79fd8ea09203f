--------------------------- MODULE FileBytesProofs ----------------------------
(***************************************************************************)
(* FileBytes implements ByteFile, for every size of block, device, table   *)
(* and root directory.                                                     *)
(*                                                                         *)
(* A file is seen as one run of units, At(d, bl, k), through all its       *)
(* blocks.  What the driver does with whole blocks and buffers is said of  *)
(* these units once (ReadIs, WriteIs, WriteElse); the rest of the proofs   *)
(* does not divide any more.                                               *)
(***************************************************************************)
EXTENDS FileBytes, SequenceTheorems, FiniteSetTheorems, TLAPS

-----------------------------------------------------------------------------
(* Units and blocks.                                                        *)

\* Unit k of the file that has the blocks bl, and how many it has room for.
At(d, bl, k) == d[bl[(k \div BlkUnits) + 1]][k % BlkUnits]
Room(bl)     == Len(bl) * BlkUnits

\* The place of a unit, in blocks and units.
LEMMA UnitAt ==
  ASSUME NEW k \in Nat
  PROVE  /\ k \div BlkUnits \in Nat /\ k % BlkUnits \in Unit
         /\ k = (k \div BlkUnits) * BlkUnits + (k % BlkUnits)
  BY BytesAssumption DEF Unit

\* The unit at a place.
LEMMA AtUnit ==
  ASSUME NEW q \in Nat, NEW u \in Unit
  PROVE  /\ q * BlkUnits + u \in Nat
         /\ (q * BlkUnits + u) \div BlkUnits = q /\ (q * BlkUnits + u) % BlkUnits = u
  BY BytesAssumption DEF Unit

\* Units fit n blocks exactly if their places are in the first n.
LEMMA InBlocks ==
  ASSUME NEW k \in Nat, NEW n \in Nat
  PROVE  /\ n * BlkUnits \in Nat
         /\ k < n * BlkUnits <=> k \div BlkUnits < n
  BY BytesAssumption

\* to_blk_cnt rounds up: n units fit exactly into as many blocks or more.
LEMMA BlocksFor ==
  ASSUME NEW n \in Nat, NEW m \in Nat
  PROVE  /\ to_blk_cnt(n) \in Nat
         /\ to_blk_cnt(n) <= m <=> n <= m * BlkUnits
  BY BytesAssumption DEF to_blk_cnt

\* A unit within the blocks is a byte of one of them.
LEMMA AtType ==
  ASSUME NEW bl \in Seq(Block), NEW k \in 0..(Room(bl) - 1)
  PROVE  /\ (k \div BlkUnits) + 1 \in 1..Len(bl)
         /\ \A d \in [Block -> Image] : At(d, bl, k) \in Byte
<1>1. Len(bl) \in Nat /\ k \in Nat /\ k < Len(bl) * BlkUnits
  BY BytesAssumption DEF Room
<1>2. (k \div BlkUnits) + 1 \in 1..Len(bl)
  <2>1. k \div BlkUnits \in Nat
    BY <1>1, UnitAt
  <2>2. k \div BlkUnits < Len(bl)
    BY <1>1, InBlocks
  <2>3. QED
    BY <1>1, <2>1, <2>2
<1>3. bl[(k \div BlkUnits) + 1] \in Block
  BY <1>2
<1>4. QED
  BY <1>1, <1>2, <1>3, UnitAt DEF At, Image

\* The blocks behind the first num are num * BlkUnits units behind.
LEMMA Shifted ==
  ASSUME NEW num \in Nat, NEW k \in Nat
  PROVE  /\ num * BlkUnits + k \in Nat
         /\ (num * BlkUnits + k) \div BlkUnits = num + (k \div BlkUnits)
         /\ (num * BlkUnits + k) % BlkUnits = k % BlkUnits
<1> DEFINE q == k \div BlkUnits
           u == k % BlkUnits
<1>1. q \in Nat /\ u \in Unit /\ k = q * BlkUnits + u
  BY UnitAt
<1>2. num * BlkUnits + k = (num + q) * BlkUnits + u
  BY <1>1, BytesAssumption DEF Unit
<1>3. QED
  BY <1>1, <1>2, AtUnit

\* A read returns the units of its blocks.
LEMMA ReadIs ==
  ASSUME NEW d, NEW bl, NEW num \in Nat, NEW cnt \in Nat, NEW k \in 0..(cnt * BlkUnits - 1)
  PROVE  ReadBlocks(d, bl, num, cnt)[k] = At(d, bl, num * BlkUnits + k)
<1>1. k \in Nat
  BY BytesAssumption
<1>2. num + (k \div BlkUnits) + 1 = (num * BlkUnits + k) \div BlkUnits + 1
  BY <1>1, Shifted
<1>3. QED
  BY <1>1, <1>2, Shifted DEF ReadBlocks, At

\* A list in which no block occurs twice.
Lists(bl) == bl \in Seq(Block) /\ IsInjective(bl)

\* A write puts the buffer into the units of its blocks, and nowhere else.
LEMMA WriteIs ==
  ASSUME NEW d \in [Block -> Image], NEW bl, Lists(bl), NEW num \in Nat, NEW cnt \in Nat,
         num + cnt <= Len(bl), NEW buf, NEW k \in 0..(Room(bl) - 1)
  PROVE  At(WriteBlocks(d, bl, num, cnt, buf), bl, k) =
           IF num * BlkUnits <= k /\ k < (num + cnt) * BlkUnits
           THEN buf[k - num * BlkUnits] ELSE At(d, bl, k)
<1> DEFINE q == k \div BlkUnits
           u == k % BlkUnits
           w == WriteBlocks(d, bl, num, cnt, buf)
<1>1. bl \in Seq(Block) /\ Len(bl) \in Nat /\ k \in Nat
  BY BytesAssumption DEF Lists
<1>2. q \in Nat /\ u \in Unit /\ k = q * BlkUnits + u /\ q + 1 \in 1..Len(bl) /\ bl[q + 1] \in Block
  BY <1>1, UnitAt, AtType
<1>3. k < (num + cnt) * BlkUnits <=> q < num + cnt
  BY <1>1, InBlocks
<1>4. k < num * BlkUnits <=> q < num
  BY <1>1, InBlocks
<1>5. num * BlkUnits \in Nat
  BY InBlocks
<1>6. \A i \in 1..cnt : bl[num + i] = bl[q + 1] <=> i = q + 1 - num
  <2> TAKE i \in 1..cnt
  <2>1. num + i \in DOMAIN bl /\ q + 1 \in DOMAIN bl
    BY <1>1, <1>2
  <2>2. bl[num + i] = bl[q + 1] <=> num + i = q + 1
    BY <2>1 DEF Lists, IsInjective
  <2>3. QED
    BY <1>2, <2>2
<1> HIDE DEF q, u
<1>7. w[bl[q + 1]] = IF \E i \in 1..cnt : bl[num + i] = bl[q + 1]
                     THEN LET i == CHOOSE i \in 1..cnt : bl[num + i] = bl[q + 1]
                          IN [x \in Unit |-> buf[(i - 1) * BlkUnits + x]]
                     ELSE d[bl[q + 1]]
  BY <1>2 DEF WriteBlocks
<1>8. At(w, bl, k) = w[bl[q + 1]][u] /\ At(d, bl, k) = d[bl[q + 1]][u]
  BY DEF At, q, u
<1> HIDE DEF w
<1>9. CASE num <= q /\ q < num + cnt
  <2> DEFINE i == CHOOSE i \in 1..cnt : bl[num + i] = bl[q + 1]
  <2>1. q + 1 - num \in 1..cnt
    BY <1>2, <1>9
  <2>2. bl[num + (q + 1 - num)] = bl[q + 1]
    BY <1>6, <2>1
  <2>3. i \in 1..cnt /\ bl[num + i] = bl[q + 1]
    BY <2>1, <2>2
  <2>4. i = q + 1 - num
    BY <1>6, <2>3
  <2> HIDE DEF i
  <2>5. w[bl[q + 1]] = [x \in Unit |-> buf[(i - 1) * BlkUnits + x]]
    BY <1>7, <2>1, <2>2 DEF i
  <2>6. (i - 1) * BlkUnits + u = k - num * BlkUnits
    <3>1. i - 1 = q - num
      BY <1>2, <2>4
    <3>2. (q - num) * BlkUnits = q * BlkUnits - num * BlkUnits
      BY <1>2, BytesAssumption
    <3>3. q * BlkUnits \in Nat /\ u \in Nat
      BY <1>2, BytesAssumption DEF Unit
    <3>4. QED
      BY <1>2, <1>5, <3>1, <3>2, <3>3
  <2>7. w[bl[q + 1]][u] = buf[k - num * BlkUnits]
    BY <1>2, <2>5, <2>6
  <2>8. num * BlkUnits <= k /\ k < (num + cnt) * BlkUnits
    BY <1>1, <1>2, <1>3, <1>4, <1>5, <1>9
  <2>9. QED
    BY <1>8, <2>7, <2>8 DEF w
<1>10. CASE ~(num <= q /\ q < num + cnt)
  <2>1. \A i \in 1..cnt : i # q + 1 - num
    BY <1>2, <1>10
  <2>2. w[bl[q + 1]] = d[bl[q + 1]]
    BY <1>6, <1>7, <2>1
  <2>3. ~(num * BlkUnits <= k /\ k < (num + cnt) * BlkUnits)
    BY <1>1, <1>2, <1>3, <1>4, <1>5, <1>10
  <2>4. QED
    BY <1>8, <2>2, <2>3 DEF w
<1>11. QED
  BY <1>9, <1>10

\* A write leaves other blocks alone.
LEMMA WriteElse ==
  ASSUME NEW d, NEW bl, NEW num \in Nat, NEW cnt \in Nat, NEW buf,
         num + cnt <= Len(bl), bl \in Seq(Block), NEW b \in Block, b \notin ToSet(bl)
  PROVE  WriteBlocks(d, bl, num, cnt, buf)[b] = d[b]
<1>1. \A i \in 1..cnt : num + i \in DOMAIN bl
  OBVIOUS
<1>2. ~ \E i \in 1..cnt : bl[num + i] = b
  BY <1>1 DEF ToSet
<1>3. QED
  BY <1>2 DEF WriteBlocks

\* What a write leaves is a device.
LEMMA WriteType ==
  ASSUME NEW d \in [Block -> Image], NEW bl, NEW num, NEW cnt \in Nat,
         NEW buf, \A k \in 0..(cnt * BlkUnits - 1) : buf[k] \in Byte
  PROVE  WriteBlocks(d, bl, num, cnt, buf) \in [Block -> Image]
<1>1. ASSUME NEW i \in 1..cnt, NEW u \in Unit PROVE buf[(i - 1) * BlkUnits + u] \in Byte
  <2>1. i - 1 \in Nat /\ i - 1 < cnt
    OBVIOUS
  <2>2. (i - 1) * BlkUnits + u \in Nat /\ ((i - 1) * BlkUnits + u) \div BlkUnits = i - 1
    BY <2>1, AtUnit
  <2>3. (i - 1) * BlkUnits + u < cnt * BlkUnits /\ cnt * BlkUnits \in Nat
    BY <2>1, <2>2, InBlocks
  <2>4. QED
    BY <2>2, <2>3
<1>2. ASSUME NEW b \in Block PROVE WriteBlocks(d, bl, num, cnt, buf)[b] \in Image
  <2>1. CASE \E i \in 1..cnt : bl[num + i] = b
    <3> DEFINE i == CHOOSE i \in 1..cnt : bl[num + i] = b
    <3>1. i \in 1..cnt
      BY <2>1
    <3> HIDE DEF i
    <3>2. [u \in Unit |-> buf[(i - 1) * BlkUnits + u]] \in Image
      BY <1>1, <3>1 DEF Image
    <3>3. QED
      BY <2>1, <3>2 DEF WriteBlocks, i
  <2>2. CASE ~ \E i \in 1..cnt : bl[num + i] = b
    BY <2>2 DEF WriteBlocks
  <2>3. QED
    BY <2>1, <2>2
<1>3. QED
  BY <1>2 DEF WriteBlocks

-----------------------------------------------------------------------------
(* Files as sequences of units: the header, and the bytes behind it.        *)

\* The bytes of a file whose size is in its header.
BytesOf(d, bl) == [i \in 1..At(d, bl, 0) |-> At(d, bl, i)]

\* The size in the header is a number, and the blocks have room for so much.
Fits(d, bl) == At(d, bl, 0) \in Nat /\ At(d, bl, 0) + Hdr <= Room(bl)

\* A block list that is not empty has room for the header.
LEMMA HeaderRoom ==
  ASSUME NEW bl \in Seq(Block), bl # <<>>
  PROVE  /\ 1 \in 1..Len(bl) /\ bl[1] \in Block
         /\ Room(bl) \in Nat /\ 0 \in 0..(Room(bl) - 1)
<1>1. Len(bl) \in Nat \ {0}
  BY EmptySeq
<1>2. QED
  BY <1>1, BytesAssumption DEF Room

\* The header's first unit is the size.
LEMMA HeaderIs ==
  ASSUME NEW d, NEW bl
  PROVE  /\ dev_file_size(d, bl) = At(d, bl, 0)
         /\ dev_file_size(d, bl) = d[bl[1]][0]
<1>1. 0 \div BlkUnits = 0 /\ 0 % BlkUnits = 0
  BY BytesAssumption
<1>2. QED
  BY <1>1 DEF dev_file_size, At

\* Bytes read through the buffer of all blocks are the bytes of the file.
LEMMA BufferIs ==
  ASSUME NEW d, NEW bl \in Seq(Block), Fits(d, bl)
  PROVE  [i \in 1..dev_file_size(d, bl) |-> ReadBlocks(d, bl, 0, Len(bl))[i - 1 + Hdr]] = BytesOf(d, bl)
<1>1. dev_file_size(d, bl) = At(d, bl, 0)
  BY HeaderIs
<1>2. ASSUME NEW i \in 1..At(d, bl, 0)
      PROVE  ReadBlocks(d, bl, 0, Len(bl))[i - 1 + Hdr] = At(d, bl, i)
  <2>1. i - 1 + Hdr = i /\ i \in 0..(Len(bl) * BlkUnits - 1)
    <3>1. Len(bl) * BlkUnits \in Nat
      BY BytesAssumption
    <3>2. QED
      BY <3>1 DEF Fits, Hdr, Room
  <2>2. 0 * BlkUnits + i = i
    BY <2>1, BytesAssumption
  <2>3. ReadBlocks(d, bl, 0, Len(bl))[i] = At(d, bl, 0 * BlkUnits + i)
    BY <2>1, ReadIs
  <2>4. QED
    BY <2>1, <2>2, <2>3
<1>3. QED
  BY <1>1, <1>2 DEF BytesOf

\* Bytes looked up in their blocks are the bytes of the file.
LEMMA LookedUp ==
  ASSUME NEW d, NEW bl, At(d, bl, 0) \in Nat
  PROVE  [i \in 1..dev_file_size(d, bl) |->
            d[bl[(Place(i - 1) \div BlkUnits) + 1]][Place(i - 1) % BlkUnits]] = BytesOf(d, bl)
<1>1. dev_file_size(d, bl) = At(d, bl, 0)
  BY HeaderIs
<1>2. \A i \in 1..At(d, bl, 0) : Place(i - 1) = i
  BY DEF Place, Hdr
<1>3. QED
  BY <1>1, <1>2 DEF BytesOf, At

\* The bytes are bytes.
LEMMA BytesType ==
  ASSUME NEW d \in [Block -> Image], NEW bl \in Seq(Block), Fits(d, bl)
  PROVE  /\ BytesOf(d, bl) \in Seq(Byte) /\ Len(BytesOf(d, bl)) = At(d, bl, 0)
         /\ DOMAIN BytesOf(d, bl) = 1..At(d, bl, 0)
         /\ \A i \in 1..At(d, bl, 0) : BytesOf(d, bl)[i] = At(d, bl, i)
<1>1. At(d, bl, 0) \in Nat
  BY DEF Fits
<1>2. \A i \in 1..At(d, bl, 0) : At(d, bl, i) \in Byte
  <2> TAKE i \in 1..At(d, bl, 0)
  <2>1. Room(bl) \in Nat
    BY BytesAssumption DEF Room
  <2>2. i \in 0..(Room(bl) - 1)
    BY <2>1 DEF Fits, Hdr
  <2>3. QED
    BY <2>2, AtType
<1>3. BytesOf(d, bl) \in [1..At(d, bl, 0) -> Byte]
  BY <1>2 DEF BytesOf
<1>4. BytesOf(d, bl) \in Seq(Byte)
  BY <1>1, <1>3, SeqDef
<1>5. QED
  BY <1>1, <1>3, <1>4, LenProperties DEF BytesOf

\* Same units, same bytes.
SameFile(d, bl, d2, bl2) == /\ BytesOf(d2, bl2) = BytesOf(d, bl) /\ At(d2, bl2, 0) = At(d, bl, 0)
                            /\ Fits(d2, bl2)

\* A file none of whose blocks was written has the bytes it had.
LEMMA Untouched ==
  ASSUME NEW d, NEW d2, NEW bl \in Seq(Block), Fits(d, bl),
         \A i \in 1..Len(bl) : d2[bl[i]] = d[bl[i]]
  PROVE  SameFile(d, bl, d2, bl)
<1>0. Room(bl) \in Nat
  BY BytesAssumption DEF Room
<1>1. ASSUME NEW k \in 0..(Room(bl) - 1) PROVE At(d2, bl, k) = At(d, bl, k)
  BY AtType DEF At
<1>2. 0 \in 0..(Room(bl) - 1) /\ 1..At(d, bl, 0) \subseteq 0..(Room(bl) - 1)
  BY <1>0 DEF Fits, Hdr
<1>3. At(d2, bl, 0) = At(d, bl, 0)
  BY <1>1, <1>2
<1>4. \A i \in 1..At(d, bl, 0) : At(d2, bl, i) = At(d, bl, i)
  BY <1>1, <1>2
<1>5. BytesOf(d2, bl) = BytesOf(d, bl)
  BY <1>3, <1>4 DEF BytesOf
<1>6. QED
  BY <1>3, <1>5 DEF SameFile, Fits

\* Blocks added behind do not move the units there are.
LEMMA Prefixed ==
  ASSUME NEW d, NEW bl \in Seq(Block), NEW bl2, \A i \in 1..Len(bl) : bl2[i] = bl[i],
         NEW k \in 0..(Room(bl) - 1)
  PROVE  At(d, bl2, k) = At(d, bl, k)
  BY AtType DEF At

-----------------------------------------------------------------------------
(* The directory.                                                           *)

\* Rewritten, the directory has the new entries, and nothing else is touched.
Rewritten(d, ent, w) ==
  /\ w \in [Block -> Image]
  /\ Fits(w, blocks[0]) /\ BytesOf(w, blocks[0]) = ent
  /\ \A b \in Block \ ToSet(blocks[0]) : w[b] = d[b]

\* dev_write_dir does that, as long as header and entries have room.
LEMMA WriteDir ==
  ASSUME NEW d \in [Block -> Image], Lists(blocks[0]), NEW ent \in Seq(Byte), Len(ent) \in Byte,
         Len(ent) + Hdr <= Room(blocks[0]), NEW junk \in Junk
  PROVE  Rewritten(d, ent, dev_write_dir(d, ent, junk))
<1> DEFINE bl  == blocks[0]
           n   == Len(ent)
           cnt == to_blk_cnt(n + Hdr)
           buf == [k \in 0..(Len(bl) * BlkUnits - 1) |->
                     IF k < Hdr THEN n
                     ELSE IF k < n + Hdr THEN ent[k - Hdr + 1]
                     ELSE IF k < cnt * BlkUnits THEN 0 ELSE junk]
           w   == WriteBlocks(d, bl, 0, Len(bl), buf)
<1>1. w = dev_write_dir(d, ent, junk)
  BY DEF dev_write_dir
<1>2. bl \in Seq(Block) /\ Len(bl) \in Nat /\ n \in Nat /\ Room(bl) = Len(bl) * BlkUnits /\ Room(bl) \in Nat
  BY BytesAssumption DEF Lists, Room
<1>3. 0 \in Byte /\ junk \in Byte
  BY BytesAssumption
<1>4. \A k \in 0..(Len(bl) * BlkUnits - 1) : buf[k] \in Byte
  <2> TAKE k \in 0..(Len(bl) * BlkUnits - 1)
  <2>1. k \in Nat
    BY <1>2
  <2>2. CASE k < Hdr
    BY <2>2
  <2>3. CASE ~(k < Hdr) /\ k < n + Hdr
    <3>1. k - Hdr + 1 \in 1..n
      BY <1>2, <2>1, <2>3 DEF Hdr
    <3>2. ent[k - Hdr + 1] \in Byte
      BY <3>1
    <3>3. QED
      BY <2>3, <3>2
  <2>4. CASE ~(k < Hdr) /\ ~(k < n + Hdr)
    BY <1>3, <2>4
  <2>5. QED
    BY <2>2, <2>3, <2>4
<1>5. \A k \in 0..n : buf[k] = IF k = 0 THEN n ELSE ent[k]
  <2> TAKE k \in 0..n
  <2>1. k \in 0..(Len(bl) * BlkUnits - 1)
    BY <1>2 DEF Hdr
  <2>2. buf[k] = IF k < 1 THEN n ELSE ent[k - 1 + 1]
    BY <1>2, <2>1 DEF Hdr
  <2>3. QED
    BY <1>2, <2>2
<1> HIDE DEF buf, w
<1>6. w \in [Block -> Image]
  BY <1>2, <1>4, WriteType DEF w
<1>7. \A k \in 0..n : At(w, bl, k) = IF k = 0 THEN n ELSE ent[k]
  <2> TAKE k \in 0..n
  <2>1. k \in 0..(Room(bl) - 1)
    BY <1>2 DEF Hdr
  <2>2. 0 * BlkUnits <= k /\ k < (0 + Len(bl)) * BlkUnits /\ k - 0 * BlkUnits = k
    BY <1>2, <2>1, BytesAssumption
  <2>3. At(w, bl, k) = IF 0 * BlkUnits <= k /\ k < (0 + Len(bl)) * BlkUnits
                       THEN buf[k - 0 * BlkUnits] ELSE At(d, bl, k)
    <3>1. 0 \in Nat /\ 0 + Len(bl) <= Len(bl)
      BY <1>2
    <3>2. QED
      BY <1>2, <2>1, <3>1, WriteIs DEF w
  <2>4. QED
    BY <1>5, <2>2, <2>3
<1>8. At(w, bl, 0) = n
  BY <1>2, <1>7
<1>9. Fits(w, bl)
  BY <1>2, <1>8 DEF Fits
<1>10. BytesOf(w, bl) = ent
  <2>1. DOMAIN BytesOf(w, bl) = 1..n /\ \A i \in 1..n : BytesOf(w, bl)[i] = At(w, bl, i)
    BY <1>8 DEF BytesOf
  <2>2. \A i \in 1..n : BytesOf(w, bl)[i] = ent[i]
    BY <1>2, <1>7, <2>1
  <2>3. BytesOf(w, bl) = [i \in 1..n |-> ent[i]]
    BY <2>1, <2>2 DEF BytesOf
  <2>4. ent = [i \in 1..n |-> ent[i]]
    OBVIOUS
  <2>5. QED
    BY <2>3, <2>4
<1>11. \A b \in Block \ ToSet(bl) : w[b] = d[b]
  BY <1>2, WriteElse DEF w
<1>12. QED
  BY <1>1, <1>6, <1>9, <1>10, <1>11 DEF Rewritten

\* Of an injective sequence of files the table has room for all.
LEMMA EntriesFew ==
  ASSUME NEW ent \in Seq(File), IsInjective(ent)
  PROVE  Len(ent) \in 0..(NF - 1)
<1>1. IsFiniteSet(1..Len(ent)) /\ Cardinality(1..Len(ent)) = Len(ent)
  <2>1. Len(ent) \in Nat
    OBVIOUS
  <2>2. QED
    BY <2>1, FS_Interval
<1>2. File = 1..(NF - 1)
  BY BytesAssumption DEF File, Fid
<1>3. IsFiniteSet(File) /\ Cardinality(File) = NF - 1
  BY <1>2, FS_Interval, BytesAssumption
<1>4. ent \in [1..Len(ent) -> File]
  OBVIOUS
<1>5. \A x, y \in 1..Len(ent) : x # y => ent[x] # ent[y]
  BY DEF IsInjective
<1>6. ~(Cardinality(File) < Cardinality(1..Len(ent)))
  BY <1>1, <1>3, <1>4, <1>5, FS_PigeonHole
<1>7. QED
  BY <1>1, <1>3, <1>6, BytesAssumption

\* Files are bytes, as entries and as sizes of a directory.
LEMMA FilesAreBytes == File \subseteq Byte /\ 0..(NF - 1) \subseteq Byte
  BY BytesAssumption DEF File, Fid

\* Without the entry of f, its place taken by the last one.
LEMMA EntryGone ==
  ASSUME NEW ent \in Seq(File), IsInjective(ent), NEW f \in ToSet(ent)
  PROVE  LET at  == SelectInSeq(ent, LAMBDA e : e = f)
             new == Front([ent EXCEPT ![at] = Last(ent)])
         IN /\ at # 0
            /\ new \in Seq(File) /\ IsInjective(new)
            /\ ToSet(new) = ToSet(ent) \ {f}
            /\ Len(new) \in Nat /\ Len(new) < Len(ent)
<1> DEFINE I   == {i \in 1..Len(ent) : ent[i] = f}
           at  == SelectInSeq(ent, LAMBDA e : e = f)
           swp == [ent EXCEPT ![at] = Last(ent)]
           new == Front(swp)
           n   == Len(ent)
<1>1. PICK a \in 1..n : ent[a] = f
  BY DEF ToSet
<1>2. n \in Nat \ {0} /\ DOMAIN ent = 1..n /\ \A i \in 1..n : ent[i] \in File
  BY <1>1
<1>3. I = {a}
  BY <1>1, <1>2 DEF IsInjective
<1>4. at = a
  <2>1. at = Min(I)
    BY <1>3 DEF SelectInSeq
  <2>2. Min({a}) = a
    <3>1. a \in {a} /\ \A y \in {a} : a =< y
      OBVIOUS
    <3>2. QED
      BY <3>1 DEF Min
  <2>3. QED
    BY <1>3, <2>1, <2>2
<1> HIDE DEF at
<1>5. ent[n] \in File /\ Last(ent) = ent[n]
  BY <1>2 DEF Last
<1>6. swp \in Seq(File) /\ Len(swp) = n /\ \A i \in 1..n : swp[i] = IF i = a THEN ent[n] ELSE ent[i]
  <2>1. swp = [i \in 1..n |-> IF i = a THEN ent[n] ELSE ent[i]]
    BY <1>2, <1>4, <1>5
  <2>2. swp \in [1..n -> File]
    BY <1>2, <1>5, <2>1
  <2>3. swp \in Seq(File)
    BY <1>2, <2>2, SeqDef
  <2>4. QED
    BY <1>2, <2>1, <2>2, <2>3, LenProperties
<1> HIDE DEF swp
<1>7. new \in Seq(File) /\ Len(new) = n - 1 /\ \A i \in 1..(n - 1) : new[i] = swp[i]
  <2>1. 1 \in 1..(n + 1) /\ n - 1 \in 0..n /\ new = SubSeq(swp, 1, n - 1)
    BY <1>2, <1>6 DEF Front
  <2>2. QED
    BY <1>2, <1>6, <2>1, SubSeqProperties
<1> HIDE DEF new
<1>8. DOMAIN new = 1..(n - 1) /\ \A i \in 1..(n - 1) : new[i] = IF i = a THEN ent[n] ELSE ent[i]
  BY <1>2, <1>6, <1>7
<1>9. IsInjective(new)
  <2>1. ASSUME NEW i \in 1..(n - 1), NEW j \in 1..(n - 1), new[i] = new[j] PROVE i = j
    <3> DEFINE x == IF i = a THEN n ELSE i
               y == IF j = a THEN n ELSE j
    <3>1. x \in 1..n /\ y \in 1..n /\ new[i] = ent[x] /\ new[j] = ent[y]
      BY <1>2, <1>8
    <3>2. x = y
      BY <1>2, <2>1, <3>1 DEF IsInjective
    <3>3. QED
      BY <1>2, <3>2
  <2>2. QED
    BY <1>8, <2>1 DEF IsInjective
<1>10. ToSet(new) = ToSet(ent) \ {f}
  <2>1. ASSUME NEW i \in 1..(n - 1) PROVE new[i] \in ToSet(ent) \ {f}
    <3>1. CASE i = a
      <4>1. n # a /\ n \in 1..n
        <5>1. n \in Nat \ {0} /\ i \in 1..(n - 1)
          BY <1>2, <2>1
        <5>2. QED
          BY <3>1, <5>1
      <4>2. new[i] = ent[n]
        BY <1>8, <3>1
      <4>3. QED
        BY <1>1, <1>2, <4>1, <4>2, ZenonT(30) DEF ToSet, IsInjective
    <3>2. CASE i # a
      <4>1. i \in 1..n
        <5>1. n \in Nat \ {0} /\ i \in 1..(n - 1)
          BY <1>2, <2>1
        <5>2. QED
          BY <5>1
      <4>2. new[i] = ent[i]
        BY <1>8, <2>1, <3>2
      <4>3. QED
        BY <1>1, <1>2, <3>2, <4>1, <4>2 DEF ToSet, IsInjective
    <3>3. QED
      BY <3>1, <3>2
  <2>2. ASSUME NEW i \in 1..n, ent[i] # f PROVE \E j \in 1..(n - 1) : new[j] = ent[i]
    <3>1. i # a
      BY <1>1, <2>2
    <3>2. CASE i = n
      <4>1. a \in 1..(n - 1)
        <5>1. n \in Nat \ {0} /\ a \in 1..n /\ a # n
          BY <1>1, <1>2, <3>1, <3>2, ZenonT(30)
        <5>2. QED
          BY <5>1
      <4>2. new[a] = ent[n]
        BY <1>8, <4>1
      <4>3. QED
        BY <3>2, <4>1, <4>2
    <3>3. CASE i # n
      <4>1. i \in 1..(n - 1)
        <5>1. n \in Nat \ {0} /\ i \in 1..n /\ i # n
          BY <1>2, <2>2, <3>3, ZenonT(30)
        <5>2. QED
          BY <5>1
      <4>2. new[i] = ent[i]
        BY <1>8, <3>1, <4>1
      <4>3. QED
        BY <4>1, <4>2
    <3>4. QED
      BY <3>2, <3>3
  <2>3. ToSet(new) \subseteq ToSet(ent) \ {f}
    BY <1>8, <2>1 DEF ToSet
  <2>4. ASSUME NEW x \in ToSet(ent) \ {f} PROVE x \in ToSet(new)
    <3>1. PICK i \in 1..n : x = ent[i]
      BY <1>2 DEF ToSet
    <3>2. QED
      BY <1>8, <2>2, <3>1 DEF ToSet
  <2>5. QED
    BY <2>3, <2>4
<1>11. at # 0 /\ Len(new) \in Nat /\ Len(new) < n
  BY <1>2, <1>4, <1>7
<1>12. QED
  BY <1>7, <1>9, <1>10, <1>11 DEF new, swp, at

\* One entry more.
LEMMA EntryMore ==
  ASSUME NEW ent \in Seq(File), IsInjective(ent), NEW f \in File \ ToSet(ent)
  PROVE  LET new == Append(ent, f)
         IN /\ new \in Seq(File) /\ IsInjective(new)
            /\ ToSet(new) = ToSet(ent) \cup {f}
            /\ Len(new) = Len(ent) + 1
<1> DEFINE new == Append(ent, f)
           n   == Len(ent)
<1>1. n \in Nat /\ DOMAIN ent = 1..n
  OBVIOUS
<1>2. new \in Seq(File) /\ Len(new) = n + 1 /\ DOMAIN new = 1..(n + 1)
  OBVIOUS
<1>3. new[n + 1] = f /\ \A i \in 1..n : new[i] = ent[i]
  OBVIOUS
<1>4. \A i \in 1..n : ent[i] # f
  BY <1>1 DEF ToSet
<1> HIDE DEF new
<1>5. IsInjective(new)
  <2>1. ASSUME NEW i \in 1..(n + 1), NEW j \in 1..(n + 1), new[i] = new[j] PROVE i = j
    <3>1. (i \in 1..n \/ i = n + 1) /\ (j \in 1..n \/ j = n + 1)
      BY <1>1
    <3>2. QED
      BY <1>1, <1>3, <1>4, <2>1, <3>1 DEF IsInjective
  <2>2. QED
    BY <1>2, <2>1 DEF IsInjective
<1>6. ToSet(new) = ToSet(ent) \cup {f}
  <2>1. 1..(n + 1) = 1..n \cup {n + 1}
    BY <1>1
  <2>2. QED
    BY <1>1, <1>2, <1>3, <2>1 DEF ToSet
<1>7. QED
  BY <1>2, <1>5, <1>6 DEF new

-----------------------------------------------------------------------------
(* New blocks.                                                              *)

\* In a finite set of numbers, the numbers of smaller elements are exactly
\* 0 .. |S| - 1.
LEMMA Ranks ==
  ASSUME NEW S \in SUBSET Int, IsFiniteSet(S), NEW k \in 0..(Cardinality(S) - 1)
  PROVE  \E c \in S : Cardinality({d \in S : d < c}) = k
<1> DEFINE less(c) == {d \in S : d < c}
           K == 0..(Cardinality(S) - 1)
           rank == [c \in S |-> Cardinality(less(c))]
<1>1. Cardinality(S) \in Nat
  BY FS_CardinalityType
<1>2. ASSUME NEW c \in S
      PROVE  IsFiniteSet(less(c)) /\ Cardinality(less(c)) \in K
  <2>1. less(c) \in SUBSET S /\ less(c) # S
    OBVIOUS
  <2>2. IsFiniteSet(less(c)) /\ Cardinality(less(c)) <= Cardinality(S)
        /\ Cardinality(less(c)) # Cardinality(S)
    BY <2>1, FS_Subset
  <2>3. Cardinality(less(c)) \in Nat
    BY <2>2, FS_CardinalityType
  <2>4. QED
    BY <1>1, <2>2, <2>3
<1>3. ASSUME NEW c \in S, NEW d \in S, c < d
      PROVE  Cardinality(less(c)) # Cardinality(less(d))
  <2>1. \A x \in S : x < c => x < d
    BY <1>3
  <2>2. c \in less(d) /\ c \notin less(c)
    BY <1>3
  <2>3. less(c) \in SUBSET less(d) /\ less(c) # less(d)
    BY <2>1, <2>2
  <2>4. IsFiniteSet(less(d))
    BY <1>2
  <2>5. QED
    BY <2>3, <2>4, FS_Subset
<1>4. rank \in Injection(S, K)
  <2>1. rank \in [S -> K]
    BY <1>2
  <2>2. \A c, d \in S : rank[c] = rank[d] => c = d
    BY <1>3
  <2>3. QED
    BY <2>1, <2>2 DEF Injection, IsInjective
<1>5. IsFiniteSet(K) /\ Cardinality(K) = Cardinality(S)
  BY <1>1, FS_Interval
<1>6. rank \in Surjection(S, K)
  BY <1>4, <1>5, FS_Injection
<1>7. QED
  BY <1>6 DEF Surjection

\* The free blocks are finitely many.
LEMMA FreeFinite == IsFiniteSet(Free) /\ Cardinality(Free) \in Nat /\ Free \subseteq Block /\ Block \subseteq Int
<1>1. IsFiniteSet(Block) /\ Block \subseteq Int
  BY BytesAssumption, FS_Interval DEF Block
<1>2. Free \subseteq Block
  BY DEF Free
<1>3. IsFiniteSet(Free)
  BY <1>1, <1>2, FS_Subset
<1>4. QED
  BY <1>1, <1>2, <1>3, FS_CardinalityType

\* The allocator hands out n different free blocks.
LEMMA NewBlocksAre ==
  ASSUME NEW n \in Int, n <= Cardinality(Free)
  PROVE  LET new == NewBlocks(n)
         IN /\ Lists(new) /\ Len(new) = IF n > 0 THEN n ELSE 0
            /\ \A i \in 1..Len(new) : new[i] \in Free
<1> DEFINE m    == IF n > 0 THEN n ELSE 0
           new  == NewBlocks(n)
           r(b) == Cardinality({x \in Free : x < b})
<1>1. Max({0, n}) = m /\ m \in Nat
  <2>1. m \in {0, n} /\ \A y \in {0, n} : m >= y
    OBVIOUS
  <2>2. \A x \in {0, n} : (\A y \in {0, n} : x >= y) => x = m
    OBVIOUS
  <2>3. QED
    BY <2>1, <2>2 DEF Max
<1>2. new = [i \in 1..m |-> CHOOSE b \in Free : r(b) = i - 1]
  BY <1>1 DEF NewBlocks
<1>3. ASSUME NEW i \in 1..m PROVE new[i] \in Free /\ r(new[i]) = i - 1
  <2>1. i - 1 \in 0..(Cardinality(Free) - 1)
    BY <1>1, FreeFinite
  <2>2. Free \in SUBSET Int
    BY FreeFinite
  <2>3. \E b \in Free : r(b) = i - 1
    BY <2>1, <2>2, FreeFinite, Ranks
  <2>4. new[i] = CHOOSE b \in Free : r(b) = i - 1
    BY <1>2
  <2> HIDE DEF new, r
  <2>5. QED
    BY <2>3, <2>4
<1>4. new \in [1..m -> Block]
  BY <1>2, <1>3, FreeFinite
<1>5. new \in Seq(Block) /\ Len(new) = m /\ DOMAIN new = 1..m
  BY <1>1, <1>4, SeqDef, LenProperties
<1>6. IsInjective(new)
  <2>1. ASSUME NEW i \in 1..m, NEW j \in 1..m, new[i] = new[j] PROVE i = j
    <3>1. r(new[i]) = i - 1 /\ r(new[j]) = j - 1
      BY <1>3
    <3>2. i - 1 = j - 1
      BY <2>1, <3>1
    <3>3. QED
      BY <1>1, <3>2
  <2>2. QED
    BY <1>5, <2>1 DEF IsInjective
<1>7. QED
  BY <1>3, <1>5, <1>6 DEF Lists

-----------------------------------------------------------------------------
(* The inductive invariant.                                                 *)

\* No block is in two lists, or twice in one.
Apart ==
  \A f, g \in Fid : \A i \in 1..Len(blocks[f]), j \in 1..Len(blocks[g]) :
    blocks[f][i] = blocks[g][j] => f = g /\ i = j

\* Every file, the root directory too, has a size its blocks have room for.
Headers == \A f \in Fid : blocks[f] # <<>> => Fits(dev, blocks[f])

BInv ==
  /\ TypeOK
  /\ blocks[0] = [i \in 1..NR |-> i]
  /\ Apart /\ Headers /\ EntriesOwnBlocks

\* 0 is an identifier, and not a file's.
LEMMA RootFid == 0 \in Fid /\ 0 \notin File /\ File \subseteq Fid /\ Fid = File \cup {0}
  BY BytesAssumption DEF Fid, File

\* The blocks of a file are in its list and in no other.
LEMMA BlocksApart ==
  ASSUME TypeOK, Apart, NEW f \in Fid
  PROVE  /\ Lists(blocks[f])
         /\ \A g \in Fid \ {f} : ToSet(blocks[f]) \cap ToSet(blocks[g]) = {}
         /\ \A b \in Free : b \notin ToSet(blocks[f])
<1>1. blocks[f] \in Seq(Block) /\ \A g \in Fid : DOMAIN blocks[g] = 1..Len(blocks[g])
  BY DEF TypeOK
<1>2. IsInjective(blocks[f])
  BY <1>1 DEF Apart, IsInjective
<1>3. \A g \in Fid \ {f} : ToSet(blocks[f]) \cap ToSet(blocks[g]) = {}
  BY <1>1 DEF Apart, ToSet
<1>4. \A b \in Free : b \notin ToSet(blocks[f])
  BY DEF Free, Used
<1>5. QED
  BY <1>1, <1>2, <1>3, <1>4 DEF Lists

\* The root directory has blocks, and its bytes are its entries.
LEMMA RootFacts ==
  ASSUME BInv
  PROVE  /\ blocks[0] \in Seq(Block) /\ blocks[0] # <<>> /\ Lists(blocks[0]) /\ Len(blocks[0]) = NR
         /\ Fits(dev, blocks[0]) /\ Entries = BytesOf(dev, blocks[0])
         /\ Entries \in Seq(File) /\ IsInjective(Entries)
         /\ ToSet(Entries) = {f \in File : blocks[f] # <<>>}
<1>1. blocks[0] \in Seq(Block) /\ blocks[0] = [i \in 1..NR |-> i] /\ NR \in Nat \ {0}
  BY RootFid, BytesAssumption DEF BInv, TypeOK
<1>2. Len(blocks[0]) = NR
  BY <1>1
<1>3. blocks[0] # <<>>
  BY <1>1, <1>2
<1>4. Lists(blocks[0])
  BY BlocksApart, RootFid DEF BInv
<1>5. Fits(dev, blocks[0])
  BY <1>3, RootFid DEF BInv, Headers
<1>6. Entries = BytesOf(dev, blocks[0])
  BY <1>1, <1>5, BufferIs DEF Entries, dev_read_dir
<1>7. IsInjective(Entries) /\ ToSet(Entries) = {f \in File : blocks[f] # <<>>}
  BY DEF BInv, EntriesOwnBlocks
<1>8. Entries \in Seq(File)
  <2>1. Entries \in Seq(Byte)
    BY <1>1, <1>5, <1>6, BytesType DEF BInv, TypeOK
  <2>2. \A i \in 1..Len(Entries) : Entries[i] \in File
    BY <1>7, <2>1 DEF ToSet
  <2>3. Entries \in [1..Len(Entries) -> File] /\ Len(Entries) \in Nat
    BY <2>1, <2>2
  <2>4. QED
    BY <2>3, SeqDef
<1>9. QED
  BY <1>1, <1>2, <1>3, <1>4, <1>5, <1>6, <1>7, <1>8

\* What a request does not write is as it was.
LEMMA OthersSame ==
  ASSUME BInv, NEW W, \A c \in Block \ W : dev'[c] = dev[c],
         NEW g \in Fid, blocks[g] # <<>>, blocks'[g] = blocks[g], ToSet(blocks[g]) \cap W = {}
  PROVE  SameFile(dev, blocks[g], dev', blocks'[g])
<1>1. blocks[g] \in Seq(Block) /\ Fits(dev, blocks[g])
  BY DEF BInv, TypeOK, Headers
<1>2. \A i \in 1..Len(blocks[g]) : dev'[blocks[g][i]] = dev[blocks[g][i]]
  BY <1>1 DEF ToSet
<1>3. QED
  BY <1>1, <1>2, Untouched

\* The formatted device.
LEMMA InitBInv == Init => BInv /\ Entries = <<>>
<1> SUFFICES ASSUME Init PROVE BInv /\ Entries = <<>>
  OBVIOUS
<1>1. PICK j \in Junk : dev = [b \in Block |-> [u \in Unit |-> IF b <= NR THEN 0 ELSE j]]
  BY DEF Init
<1>2. blocks[0] = [i \in 1..NR |-> i] /\ \A f \in File : blocks[f] = <<>>
  BY RootFid DEF Init
<1>3. NR \in Nat \ {0} /\ 1..NR \subseteq Block
  BY BytesAssumption DEF Block
<1>4. blocks[0] \in Seq(Block) /\ Len(blocks[0]) = NR
  <2>1. blocks[0] \in [1..NR -> Block]
    BY <1>2, <1>3
  <2>2. QED
    BY <1>3, <2>1, SeqDef, LenProperties
<1>5. TypeOK
  <2>1. 0 \in Byte /\ j \in Byte
    BY BytesAssumption
  <2>2. dev \in [Block -> Image]
    BY <1>1, <2>1 DEF Image
  <2>3. \A f \in Fid : blocks[f] \in Seq(Block)
    <3>1. <<>> \in Seq(Block)
      OBVIOUS
    <3>2. QED
      BY <1>2, <1>4, <3>1, RootFid
  <2>4. QED
    BY <2>2, <2>3 DEF TypeOK, Init
<1>6. Apart
  BY <1>2, <1>3, <1>4, RootFid DEF Apart
<1>7. At(dev, blocks[0], 0) = 0
  <2>1. 0 \in Unit /\ blocks[0][1] = 1 /\ 1 \in Block /\ 1 <= NR
    BY <1>2, <1>3, BytesAssumption DEF Unit
  <2>2. dev[1][0] = 0
    BY <1>1, <2>1
  <2>3. QED
    BY <2>1, <2>2, HeaderIs
<1>8. Fits(dev, blocks[0])
  <2>1. blocks[0] # <<>>
    BY <1>3, <1>4
  <2>2. Room(blocks[0]) \in Nat /\ 0 \in 0..(Room(blocks[0]) - 1)
    BY <1>4, <2>1, HeaderRoom
  <2>3. QED
    BY <1>7, <2>2 DEF Fits, Hdr
<1>9. Entries = <<>>
  <2>1. Entries = BytesOf(dev, blocks[0])
    BY <1>4, <1>8, BufferIs DEF Entries, dev_read_dir
  <2>2. Entries \in Seq(Byte) /\ Len(Entries) = 0
    BY <1>4, <1>5, <1>7, <1>8, <2>1, BytesType DEF TypeOK
  <2>3. QED
    BY <2>2, EmptySeq
<1>10. EntriesOwnBlocks
  BY <1>2, <1>9 DEF EntriesOwnBlocks, ToSet, IsInjective
<1>11. Headers
  BY <1>2, <1>8, RootFid DEF Headers
<1>12. QED
  BY <1>2, <1>5, <1>6, <1>9, <1>10, <1>11 DEF BInv

\* If a step leaves lists apart, headers sound and the entries right, BInv holds.
LEMMA StepBInv ==
  ASSUME BInv, NEW f \in File, NEW bl \in Seq(Block), blocks' = [blocks EXCEPT ![f] = bl],
         dev' \in [Block -> Image], Apart', Headers',
         IsInjective(BytesOf(dev', blocks[0])),
         ToSet(BytesOf(dev', blocks[0])) =
           IF bl = <<>> THEN ToSet(Entries) \ {f} ELSE ToSet(Entries) \cup {f}
  PROVE  BInv' /\ Entries' = BytesOf(dev', blocks[0])
<1>1. blocks'[0] = blocks[0] /\ blocks[0] # <<>> /\ blocks[0] \in Seq(Block)
  BY RootFacts, RootFid DEF BInv, TypeOK
<1>2. blocks'[f] = bl /\ \A g \in File \ {f} : blocks'[g] = blocks[g]
  BY RootFid DEF BInv, TypeOK
<1>3. TypeOK'
  BY RootFid DEF BInv, TypeOK
<1>4. Fits(dev', blocks'[0])
  BY <1>1, RootFid DEF Headers
<1>5. Entries' = BytesOf(dev', blocks[0])
  BY <1>1, <1>4, BufferIs, ZenonT(30) DEF Entries, dev_read_dir
<1>6. EntriesOwnBlocks'
  <2>1. ToSet(Entries) = {g \in File : blocks[g] # <<>>}
    BY RootFacts
  <2>2. ToSet(Entries') = {g \in File : blocks'[g] # <<>>}
    BY <1>2, <1>5, <2>1
  <2>3. QED
    BY <1>5, <2>2 DEF EntriesOwnBlocks, ToSet
<1>7. QED
  BY <1>1, <1>3, <1>5, <1>6 DEF BInv

-----------------------------------------------------------------------------
(* What the requests do.                                                    *)

\* A file f without bytes, in block b that was free.
Creates(f, b) ==
  /\ f \in File \ ToSet(Entries) /\ b \in Free
  /\ blocks[f] = <<>> /\ blocks' = [blocks EXCEPT ![f] = <<b>>]
  /\ dev' \in [Block -> Image] /\ \A u \in Unit : dev'[b][u] = 0
  /\ Fits(dev', blocks[0]) /\ BytesOf(dev', blocks[0]) = Append(Entries, f)
  /\ \A c \in Block \ (ToSet(blocks[0]) \cup {b}) : dev'[c] = dev[c]

\* The entry of f is gone, and its list.
Removes(f) ==
  /\ f \in ToSet(Entries) /\ f \in File
  /\ blocks' = [blocks EXCEPT ![f] = <<>>]
  /\ dev' \in [Block -> Image] /\ Fits(dev', blocks[0])
  /\ IsInjective(BytesOf(dev', blocks[0]))
  /\ ToSet(BytesOf(dev', blocks[0])) = ToSet(Entries) \ {f}
  /\ \A c \in Block \ ToSet(blocks[0]) : dev'[c] = dev[c]

\* f has the list bl, which begins with the one it had and goes on with free blocks.
Extends(f, bl) ==
  /\ Lists(bl) /\ Len(blocks[f]) <= Len(bl)
  /\ \A i \in 1..Len(blocks[f]) : bl[i] = blocks[f][i]
  /\ \A i \in 1..Len(bl) : i > Len(blocks[f]) => bl[i] \in Free

\* The units of f with data at off, the size in the first one.
Puts(f, off, data, bl) ==
  LET end == off + Len(data)
      new == NewSize(At(dev, blocks[f], 0), end)
  IN /\ new \in Nat /\ new + Hdr <= Room(bl) /\ At(dev', bl, 0) = new
     /\ \A k \in 1..(Room(bl) - 1) :
          At(dev', bl, k) = IF k \in (off + 1)..end THEN data[k - off] ELSE At(dev, bl, k)

Writes(f, off, data, bl) ==
  /\ f \in ToSet(Entries) /\ f \in File /\ blocks[f] # <<>>
  /\ Extends(f, bl) /\ blocks' = [blocks EXCEPT ![f] = bl]
  /\ dev' \in [Block -> Image] /\ \A c \in Block \ ToSet(bl) : dev'[c] = dev[c]
  /\ Puts(f, off, data, bl)

\* ops_create creates.
LEMMA CreateDoes ==
  ASSUME BInv, ops_create
  PROVE  \E f \in File, b \in Free : Creates(f, b)
<1>1. PICK f \in File, junk \in Junk :
        /\ blocks[f] = <<>>
        /\ Free # {} /\ to_blk_cnt(Len(Entries) + 1 + Hdr) <= NR
        /\ blocks' = [blocks EXCEPT ![f] = NewBlocks(1)]
        /\ dev' = dev_init_file(dev_write_dir(dev, Append(Entries, f), junk), NewBlocks(1)[1])
  BY DEF ops_create
<1> DEFINE b   == NewBlocks(1)[1]
           new == Append(Entries, f)
           w   == dev_write_dir(dev, new, junk)
<1>2. NewBlocks(1) = <<b>> /\ b \in Free
  <2>1. Cardinality(Free) # 0
    BY <1>1, FreeFinite, FS_EmptySet
  <2>2. 1 \in Int /\ 1 <= Cardinality(Free)
    BY <2>1, FreeFinite
  <2>3. /\ Lists(NewBlocks(1)) /\ Len(NewBlocks(1)) = (IF 1 > 0 THEN 1 ELSE 0)
        /\ \A i \in 1..Len(NewBlocks(1)) : NewBlocks(1)[i] \in Free
    BY <2>2, NewBlocksAre
  <2>4. NewBlocks(1) \in Seq(Block) /\ Len(NewBlocks(1)) = 1 /\ NewBlocks(1)[1] \in Free
    BY <2>3 DEF Lists
  <2>5. QED
    BY <2>4
<1>3. f \notin ToSet(Entries)
  BY <1>1, RootFacts
<1>4. new \in Seq(File) /\ IsInjective(new) /\ Len(new) = Len(Entries) + 1
  BY <1>3, RootFacts, EntryMore
<1>5. Rewritten(dev, new, w)
  <2>1. Len(new) \in 0..(NF - 1)
    BY <1>4, EntriesFew
  <2>2. Len(new) \in Byte /\ File \subseteq Byte
    BY <2>1, FilesAreBytes
  <2>3. new \in Seq(Byte)
    BY <1>4, <2>2
  <2>4. Len(new) + Hdr <= Room(blocks[0])
    <3>1. Len(new) + Hdr \in Nat /\ to_blk_cnt(Len(new) + Hdr) <= NR /\ NR \in Nat
      BY <1>1, <1>4, BytesAssumption DEF Hdr
    <3>2. Len(new) + Hdr <= NR * BlkUnits
      BY <3>1, BlocksFor
    <3>3. QED
      BY <3>2, RootFacts DEF Room
  <2>5. dev \in [Block -> Image]
    BY DEF BInv, TypeOK
  <2>6. QED
    BY <2>2, <2>3, <2>4, <2>5, RootFacts, WriteDir
<1>6. dev' = dev_init_file(w, b) /\ b \in Block /\ w \in [Block -> Image]
  BY <1>1, <1>2, <1>5, FreeFinite DEF Rewritten
<1> HIDE DEF w, b, new
<1>7. dev' \in [Block -> Image] /\ (\A u \in Unit : dev'[b][u] = 0) /\ \A c \in Block \ {b} : dev'[c] = w[c]
  <2>1. 0 \in Byte
    BY BytesAssumption
  <2>2. [u \in Unit |-> 0] \in Image
    BY <2>1 DEF Image
  <2>3. dev' = [w EXCEPT ![b] = [u \in Unit |-> 0]]
    BY <1>6 DEF dev_init_file
  <2>4. QED
    BY <1>6, <2>2, <2>3
<1>8. SameFile(w, blocks[0], dev', blocks[0])
  <2>1. b \notin ToSet(blocks[0])
    BY <1>2, BlocksApart, RootFid DEF BInv
  <2>2. \A i \in 1..Len(blocks[0]) : blocks[0][i] \in Block \ {b}
    BY <2>1, RootFacts DEF ToSet
  <2>3. \A i \in 1..Len(blocks[0]) : dev'[blocks[0][i]] = w[blocks[0][i]]
    BY <1>7, <2>2
  <2>4. QED
    BY <1>5, <2>3, RootFacts, Untouched DEF Rewritten
<1>9. Fits(dev', blocks[0]) /\ BytesOf(dev', blocks[0]) = new
  BY <1>5, <1>8 DEF SameFile, Rewritten
<1>10. \A c \in Block \ (ToSet(blocks[0]) \cup {b}) : dev'[c] = dev[c]
  BY <1>5, <1>7 DEF Rewritten
<1>11. b = NewBlocks(1)[1] /\ new = Append(Entries, f)
  BY DEF b, new
<1>12. blocks' = [blocks EXCEPT ![f] = <<b>>]
  BY <1>1, <1>2
<1>13. Creates(f, b)
  BY <1>1, <1>2, <1>3, <1>7, <1>9, <1>10, <1>11, <1>12 DEF Creates
<1>14. QED
  BY <1>2, <1>13

\* ops_unlink removes.
LEMMA UnlinkDoes ==
  ASSUME BInv, NEW f \in File, ops_unlink(f)
  PROVE  Removes(f)
<1>1. f \in ToSet(Entries) /\ blocks' = [blocks EXCEPT ![f] = <<>>]
  BY DEF ops_unlink, Exists
<1>2. PICK junk \in Junk : dev' = dev_rm_from_dir(dev, f, junk)
  BY DEF ops_unlink
<1> DEFINE at  == SelectInSeq(Entries, LAMBDA e : e = f)
           new == Front([Entries EXCEPT ![at] = Last(Entries)])
<1>3. /\ at # 0 /\ new \in Seq(File) /\ IsInjective(new) /\ ToSet(new) = ToSet(Entries) \ {f}
      /\ Len(new) \in Nat /\ Len(new) < Len(Entries)
  BY <1>1, RootFacts, EntryGone
<1>4. dev' = dev_write_dir(dev, new, junk)
  BY <1>2, <1>3 DEF dev_rm_from_dir, Entries
<1> HIDE DEF at, new
<1>5. Rewritten(dev, new, dev')
  <2>1. Len(new) \in 0..(NF - 1)
    BY <1>3, EntriesFew
  <2>2. Len(new) \in Byte /\ File \subseteq Byte
    BY <2>1, FilesAreBytes
  <2>3. new \in Seq(Byte)
    BY <1>3, <2>2
  <2>4. Len(new) + Hdr <= Room(blocks[0])
    <3>1. Len(Entries) = At(dev, blocks[0], 0)
      BY RootFacts, BytesType DEF BInv, TypeOK
    <3>2. Len(Entries) \in Nat /\ Len(Entries) + Hdr <= Room(blocks[0])
      BY <3>1, RootFacts DEF Fits
    <3>3. Room(blocks[0]) \in Nat
      BY RootFacts, HeaderRoom
    <3>4. QED
      BY <1>3, <3>2, <3>3 DEF Hdr
  <2>5. dev \in [Block -> Image]
    BY DEF BInv, TypeOK
  <2>6. QED
    BY <1>4, <2>2, <2>3, <2>4, <2>5, RootFacts, WriteDir
<1>6. QED
  BY <1>1, <1>3, <1>5 DEF Removes, Rewritten

\* Blocks num, ..., num + cnt - 1 of n are within the n.
LEMMA Span ==
  ASSUME NEW num \in Nat, NEW cnt \in Nat, NEW n \in Nat, num + cnt <= n
  PROVE  /\ num * BlkUnits \in Nat /\ cnt * BlkUnits \in Nat /\ n * BlkUnits \in Nat
         /\ (num + cnt) * BlkUnits = num * BlkUnits + cnt * BlkUnits
         /\ num * BlkUnits + cnt * BlkUnits <= n * BlkUnits
<1>1. num * BlkUnits \in Nat /\ cnt * BlkUnits \in Nat /\ n * BlkUnits \in Nat
  BY BytesAssumption
<1>2. (num + cnt) * BlkUnits = num * BlkUnits + cnt * BlkUnits
  BY BytesAssumption
<1>3. (num + cnt) * BlkUnits <= n * BlkUnits
  BY BytesAssumption
<1>4. QED
  BY <1>1, <1>2, <1>3

\* More blocks have more room.
LEMMA MoreRoom ==
  ASSUME NEW bl \in Seq(Block), NEW bl2 \in Seq(Block), Len(bl) <= Len(bl2)
  PROVE  Room(bl) \in Nat /\ Room(bl2) \in Nat /\ Room(bl) <= Room(bl2)
<1>1. Len(bl) \in Nat /\ Len(bl2) \in Nat
  OBVIOUS
<1>2. Len(bl) * BlkUnits <= Len(bl2) * BlkUnits /\ Len(bl) * BlkUnits \in Nat /\ Len(bl2) * BlkUnits \in Nat
  BY <1>1, BytesAssumption
<1>3. QED
  BY <1>2 DEF Room

\* The header's unit is set, and no other.
LEMMA SetSize ==
  ASSUME NEW d \in [Block -> Image], NEW bl, Lists(bl), bl # <<>>, NEW n \in Byte,
         NEW w, w = dev_set_file_size(d, bl, n)
  PROVE  /\ w \in [Block -> Image] /\ At(w, bl, 0) = n
         /\ \A k \in 1..(Room(bl) - 1) : At(w, bl, k) = At(d, bl, k)
         /\ \A c \in Block \ ToSet(bl) : w[c] = d[c]
<1>1. bl \in Seq(Block) /\ 1 \in 1..Len(bl) /\ bl[1] \in Block /\ Room(bl) \in Nat
  BY HeaderRoom DEF Lists
<1>2. 0 \in Unit
  BY BytesAssumption DEF Unit
<1>3. w = [d EXCEPT ![bl[1]] = [@ EXCEPT ![0] = n]]
  BY DEF dev_set_file_size
<1>4. /\ w[bl[1]] = [d[bl[1]] EXCEPT ![0] = n] /\ d[bl[1]] \in Image
      /\ \A c \in Block : c # bl[1] => w[c] = d[c]
  BY <1>1, <1>3
<1>5. w[bl[1]] \in Image /\ w[bl[1]][0] = n /\ \A u \in Unit \ {0} : w[bl[1]][u] = d[bl[1]][u]
  BY <1>2, <1>4 DEF Image
<1>6. w \in [Block -> Image]
  <2>1. DOMAIN w = Block /\ w = [c \in Block |-> w[c]]
    BY <1>3
  <2>2. \A c \in Block : w[c] \in Image
    BY <1>4, <1>5
  <2>3. QED
    BY <2>1, <2>2
<1>7. At(w, bl, 0) = n
  BY <1>5, HeaderIs
<1>8. ASSUME NEW k \in 1..(Room(bl) - 1) PROVE At(w, bl, k) = At(d, bl, k)
  <2> DEFINE q == k \div BlkUnits
             u == k % BlkUnits
  <2>1. k \in Nat /\ k # 0 /\ k \in 0..(Room(bl) - 1)
    BY <1>1
  <2>2. q \in Nat /\ u \in Unit /\ k = q * BlkUnits + u
    BY <2>1, UnitAt
  <2>3. q + 1 \in 1..Len(bl) /\ bl[q + 1] \in Block
    BY <1>1, <2>1, AtType
  <2>4. At(w, bl, k) = w[bl[q + 1]][u] /\ At(d, bl, k) = d[bl[q + 1]][u]
    BY DEF At
  <2> HIDE DEF q, u
  <2>5. CASE q = 0
    <3>1. u # 0
      BY <2>1, <2>2, <2>5, BytesAssumption DEF Unit
    <3>2. q + 1 = 1
      BY <2>5
    <3>3. QED
      BY <1>5, <2>2, <2>4, <3>1, <3>2
  <2>6. CASE q # 0
    <3>1. q + 1 # 1 /\ q + 1 \in DOMAIN bl /\ 1 \in DOMAIN bl
      BY <1>1, <2>2, <2>3, <2>6
    <3>2. bl[q + 1] # bl[1]
      BY <3>1 DEF Lists, IsInjective
    <3>3. QED
      BY <1>4, <2>3, <2>4, <3>2
  <2>7. QED
    BY <2>5, <2>6
<1>9. \A c \in Block \ ToSet(bl) : w[c] = d[c]
  <2>1. bl[1] \in ToSet(bl)
    BY <1>1 DEF ToSet
  <2>2. QED
    BY <1>4, <2>1
<1>10. QED
  BY <1>6, <1>7, <1>8, <1>9

\* Two lists without a common block make one.
LEMMA Joined ==
  ASSUME NEW ob, Lists(ob), NEW nb, Lists(nb), ToSet(ob) \cap ToSet(nb) = {},
         NEW bl, bl = ob \o nb
  PROVE  /\ Lists(bl) /\ Len(bl) = Len(ob) + Len(nb) /\ Len(ob) \in Nat /\ Len(nb) \in Nat
         /\ \A i \in 1..Len(ob) : bl[i] = ob[i]
         /\ \A i \in 1..Len(bl) : i > Len(ob) => bl[i] \in ToSet(nb)
<1>1. ob \in Seq(Block) /\ nb \in Seq(Block)
  BY DEF Lists
<1>2. PICK n \in Nat, m \in Nat :
        n = Len(ob) /\ m = Len(nb) /\ DOMAIN ob = 1..n /\ DOMAIN nb = 1..m
  BY <1>1
<1>3. /\ bl \in Seq(Block) /\ Len(bl) = n + m
      /\ \A i \in 1..(n + m) : bl[i] = IF i <= n THEN ob[i] ELSE nb[i - n]
  BY <1>1, <1>2, ConcatProperties
<1>4. \A i \in 1..(n + m) : IF i <= n THEN i \in 1..n ELSE i - n \in 1..m
  BY <1>2
<1>5. \A i \in 1..(n + m) : IF i <= n THEN bl[i] \in ToSet(ob) ELSE bl[i] \in ToSet(nb)
  BY <1>2, <1>3, <1>4, ZenonT(30) DEF ToSet
<1>6. ASSUME NEW i \in 1..(n + m), NEW j \in 1..(n + m), bl[i] = bl[j] PROVE i = j
  <2>1. CASE i <= n /\ j <= n
    <3>1. i \in DOMAIN ob /\ j \in DOMAIN ob /\ ob[i] = ob[j]
      BY <1>2, <1>3, <1>4, <1>6, <2>1
    <3>2. QED
      BY <3>1 DEF Lists, IsInjective
  <2>2. CASE ~(i <= n) /\ ~(j <= n)
    <3>1. i - n \in DOMAIN nb /\ j - n \in DOMAIN nb /\ nb[i - n] = nb[j - n]
      BY <1>2, <1>3, <1>4, <1>6, <2>2
    <3>2. i - n = j - n
      BY <3>1 DEF Lists, IsInjective
    <3>3. QED
      BY <1>2, <3>2
  <2>3. CASE ~(i <= n <=> j <= n)
    BY <1>5, <1>6, <2>3
  <2>4. QED
    BY <2>1, <2>2, <2>3
<1>7. IsInjective(bl)
  <2>1. DOMAIN bl = 1..(n + m)
    BY <1>3
  <2>2. QED
    BY <1>6, <2>1 DEF IsInjective
<1>8. \A i \in 1..n : bl[i] = ob[i]
  BY <1>2, <1>3
<1>9. \A i \in 1..(n + m) : i > n => bl[i] \in ToSet(nb)
  BY <1>2, <1>5
<1>10. QED
  BY <1>2, <1>3, <1>7, <1>8, <1>9 DEF Lists

\* The list behind the one there was is free blocks, as many as are needed.
LEMMA ExtendedIs ==
  ASSUME BInv, NEW f \in Fid, NEW need \in Nat, need - Len(blocks[f]) <= Cardinality(Free),
         NEW bl, bl = blocks[f] \o NewBlocks(need - Len(blocks[f]))
  PROVE  Extends(f, bl) /\ need <= Len(bl)
<1>1. PICK ob : ob = blocks[f]
  OBVIOUS
<1>2. PICK nb : nb = NewBlocks(need - Len(ob))
  OBVIOUS
<1>3. Lists(ob) /\ Len(ob) \in Nat /\ \A b \in Free : b \notin ToSet(ob)
  BY <1>1, BlocksApart DEF BInv, Lists
<1>4. PICK n \in Int : n = need - Len(ob) /\ n <= Cardinality(Free)
  BY <1>1, <1>3
<1>5. /\ Lists(nb) /\ Len(nb) = (IF n > 0 THEN n ELSE 0)
      /\ \A i \in 1..Len(nb) : nb[i] \in Free
  BY <1>2, <1>4, NewBlocksAre
<1>6. \A b \in ToSet(nb) : b \in Free
  BY <1>5 DEF ToSet, Lists
<1>7. /\ Lists(bl) /\ Len(bl) = Len(ob) + Len(nb) /\ Len(ob) \in Nat /\ Len(nb) \in Nat
      /\ \A i \in 1..Len(ob) : bl[i] = ob[i]
      /\ \A i \in 1..Len(bl) : i > Len(ob) => bl[i] \in ToSet(nb)
  <2>1. bl = ob \o nb
    BY <1>1, <1>2
  <2>2. ToSet(ob) \cap ToSet(nb) = {}
    BY <1>3, <1>6
  <2>3. QED
    BY <1>3, <1>5, <2>1, <2>2, Joined
<1>8. Len(ob) <= Len(bl) /\ need <= Len(bl)
  <2>1. PICK k \in Nat, m \in Nat : k = Len(ob) /\ m = Len(nb)
    BY <1>7
  <2>2. Len(bl) = k + m /\ n = need - k /\ m = (IF n > 0 THEN n ELSE 0)
    BY <1>4, <1>5, <1>7, <2>1
  <2>3. need <= k + m /\ k <= k + m
    BY <1>4, <2>1, <2>2
  <2>4. QED
    BY <2>1, <2>2, <2>3
<1>9. QED
  BY <1>1, <1>6, <1>7, <1>8 DEF Extends

\* ops_write writes.
LEMMA WriteDoes ==
  ASSUME BInv, NEW f \in File, NEW off \in 0..(MaxLen - 1), NEW data \in Data, ops_write(f, off, data)
  PROVE  \E bl : Writes(f, off, data, bl)
<1> DEFINE o   == Place(off)
           n   == Len(data)
           num == o \div BlkUnits
           at  == o % BlkUnits
           cnt == to_blk_cnt(at + n)
           ob  == blocks[f]
           bl  == Extended(ob, off, n)
           old == ReadBlocks(dev, bl, num, cnt)
           buf == Overlaid(old, at, data)
           d   == WriteBlocks(dev, bl, num, cnt, buf)
           new == NewSize(dev_file_size(d, bl), off + n)
<1>1. /\ f \in ToSet(Entries) /\ off + n <= MaxLen
      /\ num + cnt - Len(ob) <= Cardinality(Free)
      /\ blocks' = [blocks EXCEPT ![f] = bl]
      /\ dev' = dev_set_file_size(d, bl, new)
  BY DEF ops_write, Exists
<1>2. ob \in Seq(Block) /\ ob # <<>> /\ Fits(dev, ob) /\ dev \in [Block -> Image]
  BY <1>1, RootFacts, RootFid DEF BInv, TypeOK, Headers
<1>3. off \in Nat /\ o = off + 1 /\ n \in Nat /\ data \in Seq(Byte)
  BY BytesAssumption DEF Place, Hdr
<1>4. num \in Nat /\ at \in Nat /\ at \in Unit /\ o = num * BlkUnits + at
  <2>1. o \in Nat
    BY <1>3
  <2>2. num \in Nat /\ at \in Unit /\ o = num * BlkUnits + at
    BY <2>1, UnitAt
  <2>3. at \in Nat
    BY <2>2, BytesAssumption DEF Unit
  <2>4. QED
    BY <2>2, <2>3
<1>5. cnt \in Nat /\ at + n <= cnt * BlkUnits
  <2>1. at + n \in Nat
    BY <1>3, <1>4
  <2>2. cnt \in Nat
    BY <2>1, BlocksFor
  <2>3. QED
    BY <2>1, <2>2, BlocksFor
<1>6. bl = ob \o NewBlocks(num + cnt - Len(ob))
  BY DEF Extended
<1> HIDE DEF cnt, at, num, o, bl
<1>7. Extends(f, bl) /\ num + cnt <= Len(bl) /\ Lists(bl) /\ bl \in Seq(Block) /\ Len(bl) \in Nat
  <2>1. num + cnt \in Nat /\ f \in Fid
    BY <1>4, <1>5, RootFid
  <2>2. PICK need \in Nat : need = num + cnt
    BY <2>1
  <2>3. need - Len(blocks[f]) <= Cardinality(Free) /\ bl = blocks[f] \o NewBlocks(need - Len(blocks[f]))
    <3>1. num + cnt - Len(blocks[f]) <= Cardinality(Free)
      BY <1>1
    <3>2. bl = blocks[f] \o NewBlocks(num + cnt - Len(blocks[f]))
      BY <1>6
    <3>3. num + cnt - Len(blocks[f]) = need - Len(blocks[f])
      BY <1>2, <1>4, <1>5, <2>2
    <3>4. QED
      BY <3>1, <3>2, <3>3, Zenon
  <2>4. Extends(f, bl) /\ need <= Len(bl)
    BY <2>1, <2>2, <2>3, ExtendedIs
  <2>5. QED
    BY <2>2, <2>4 DEF Extends, Lists
<1> DEFINE base == num * BlkUnits
           span == cnt * BlkUnits
<1>8. /\ base \in Nat /\ span \in Nat /\ Room(bl) \in Nat
      /\ (num + cnt) * BlkUnits = base + span /\ base + span <= Room(bl)
  BY <1>4, <1>5, <1>7, Span DEF Room
<1>9. o = base + at /\ at + n <= span
  BY <1>4, <1>5
<1>10. /\ DOMAIN old = 0..(span - 1)
       /\ \A k \in 0..(span - 1) : old[k] = At(dev, bl, base + k)
  <2>1. DOMAIN old = 0..(span - 1)
    BY DEF ReadBlocks
  <2>2. \A k \in 0..(span - 1) : old[k] = At(dev, bl, base + k)
    BY <1>4, <1>5, ReadIs
  <2>3. QED
    BY <2>1, <2>2
<1> HIDE DEF old
<1>11. \A k \in 0..(span - 1) :
         buf[k] = IF k \in at..(at + n - 1) THEN data[k - at + 1] ELSE At(dev, bl, base + k)
  BY <1>10 DEF Overlaid
<1> HIDE DEF buf, base, span
<1>12. \A k \in 0..(span - 1) : buf[k] \in Byte
  <2> TAKE k \in 0..(span - 1)
  <2>1. base + k \in 0..(Room(bl) - 1)
    BY <1>8
  <2>2. At(dev, bl, base + k) \in Byte
    BY <1>2, <1>7, <2>1, AtType
  <2>3. k \in at..(at + n - 1) => data[k - at + 1] \in Byte
    <3>1. k \in at..(at + n - 1) => k - at + 1 \in 1..n
      BY <1>3, <1>4
    <3>2. QED
      BY <1>3, <3>1
  <2>4. QED
    BY <1>11, <2>2, <2>3
<1>13. d \in [Block -> Image]
  BY <1>2, <1>5, <1>12, WriteType DEF span
<1>14. ASSUME NEW k \in 0..(Room(bl) - 1)
       PROVE  At(d, bl, k) = IF k \in (off + 1)..(off + n) THEN data[k - off] ELSE At(dev, bl, k)
  <2>1. At(d, bl, k) = IF base <= k /\ k < base + span THEN buf[k - base] ELSE At(dev, bl, k)
    <3>1. At(d, bl, k) = IF num * BlkUnits <= k /\ k < (num + cnt) * BlkUnits
                         THEN buf[k - num * BlkUnits] ELSE At(dev, bl, k)
      BY <1>2, <1>4, <1>5, <1>7, WriteIs
    <3>2. QED
      BY <1>8, <3>1 DEF base
  <2>2. k \in Nat
    BY <1>8
  <2> HIDE DEF d
  <2>3. CASE k \in (off + 1)..(off + n)
    <3>1. k - base \in 0..(span - 1) /\ k - base \in at..(at + n - 1) /\ k - base - at + 1 = k - off
      BY <1>3, <1>4, <1>8, <1>9, <2>2, <2>3
    <3>2. base <= k /\ k < base + span
      BY <1>8, <2>2, <3>1
    <3>3. buf[k - base] = data[k - base - at + 1]
      BY <1>11, <3>1
    <3>4. QED
      BY <2>1, <2>3, <3>1, <3>2, <3>3
  <2>4. CASE k \notin (off + 1)..(off + n) /\ base <= k /\ k < base + span
    <3>1. k - base \in 0..(span - 1) /\ k - base \notin at..(at + n - 1) /\ base + (k - base) = k
      BY <1>3, <1>4, <1>8, <1>9, <2>2, <2>4
    <3>2. buf[k - base] = At(dev, bl, k)
      BY <1>11, <3>1
    <3>3. QED
      BY <2>1, <2>4, <3>2
  <2>5. CASE k \notin (off + 1)..(off + n) /\ ~(base <= k /\ k < base + span)
    BY <2>1, <2>5
  <2>6. QED
    BY <2>3, <2>4, <2>5
<1> HIDE DEF d
<1>15. bl # <<>> /\ 0 \in 0..(Room(bl) - 1) /\ 0 \in 0..(Room(ob) - 1) /\ Room(ob) \in Nat /\ Room(ob) <= Room(bl)
  <2>1. 1 \in 1..Len(ob) /\ Len(ob) <= Len(bl)
    BY <1>2, <1>7, HeaderRoom DEF Extends
  <2>2. bl # <<>>
    BY <2>1
  <2>3. Room(ob) <= Room(bl)
    BY <1>2, <1>7, <2>1, MoreRoom
  <2>4. QED
    BY <1>2, <1>7, <2>2, <2>3, HeaderRoom
<1> DEFINE sz == At(dev, ob, 0)
<1>16. dev_file_size(d, bl) = sz
  <2>1. At(d, bl, 0) = At(dev, bl, 0)
    BY <1>3, <1>14, <1>15
  <2>2. At(dev, bl, 0) = At(dev, ob, 0)
    BY <1>2, <1>7, <1>15, Prefixed DEF Extends
  <2>3. QED
    BY <2>1, <2>2, HeaderIs
<1>17. sz \in Nat /\ sz \in Byte /\ sz + Hdr <= Room(ob)
  BY <1>2, <1>15, AtType DEF Fits
<1> HIDE DEF sz
<1>18. new = NewSize(sz, off + n) /\ new \in Nat /\ new \in Byte /\ new + Hdr <= Room(bl)
  <2>1. new = IF sz < off + n THEN off + n ELSE sz
    BY <1>16 DEF NewSize
  <2>2. off + n \in Nat /\ off + n \in Byte
    <3>1. off + n \in 0..MaxLen
      BY <1>1, <1>3, BytesAssumption
    <3>2. QED
      BY <1>3, <3>1, BytesAssumption
  <2>3. off + n + Hdr <= Room(bl)
    BY <1>3, <1>4, <1>8, <1>9 DEF Hdr
  <2>4. sz + Hdr <= Room(bl)
    BY <1>8, <1>15, <1>17 DEF Hdr
  <2>5. QED
    BY <1>16, <1>17, <2>1, <2>2, <2>3, <2>4
<1> HIDE DEF new
<1>19. /\ dev' \in [Block -> Image] /\ At(dev', bl, 0) = new
       /\ \A k \in 1..(Room(bl) - 1) : At(dev', bl, k) = At(d, bl, k)
       /\ \A c \in Block \ ToSet(bl) : dev'[c] = d[c]
  BY <1>1, <1>7, <1>13, <1>15, <1>18, SetSize
<1>20. \A c \in Block \ ToSet(bl) : dev'[c] = dev[c]
  <2>1. ASSUME NEW c \in Block \ ToSet(bl) PROVE d[c] = dev[c]
    <3>1. WriteBlocks(dev, bl, num, cnt, buf)[c] = dev[c]
      BY <1>4, <1>5, <1>7, WriteElse
    <3>2. QED
      BY <3>1 DEF d
  <2>2. QED
    BY <1>19, <2>1
<1>21. \A k \in 1..(Room(bl) - 1) :
         At(dev', bl, k) = IF k \in (off + 1)..(off + n) THEN data[k - off] ELSE At(dev, bl, k)
  BY <1>8, <1>14, <1>19
<1>22. Puts(f, off, data, bl)
  BY <1>18, <1>19, <1>21 DEF Puts, sz
<1>23. Writes(f, off, data, bl)
  BY <1>1, <1>2, <1>7, <1>19, <1>20, <1>22 DEF Writes
<1>24. QED
  BY <1>23

-----------------------------------------------------------------------------
(* The requests keep the invariant, and what they do to the bytes.          *)

\* Files other than f are as they were.
OthersKept(f) == \A g \in File \ {f} : blocks[g] # <<>> => SameFile(dev, blocks[g], dev', blocks'[g])

\* f gets blocks bl that are its own already or free, and no other list changes.
LEMMA StaysApart ==
  ASSUME BInv, NEW f \in Fid, NEW bl, Lists(bl),
         \A i \in 1..Len(bl) : bl[i] \in Free \/ bl[i] \in ToSet(blocks[f]),
         blocks' = [blocks EXCEPT ![f] = bl]
  PROVE  /\ Apart'
         /\ \A g \in Fid \ {f} : blocks'[g] = blocks[g] /\ ToSet(blocks[g]) \cap ToSet(bl) = {}
<1>1. blocks'[f] = bl /\ \A g \in Fid \ {f} : blocks'[g] = blocks[g]
  BY DEF BInv, TypeOK
<1>2. bl \in Seq(Block) /\ DOMAIN bl = 1..Len(bl)
  BY DEF Lists
<1>3. ASSUME NEW g \in Fid \ {f} PROVE ToSet(blocks[g]) \cap ToSet(bl) = {}
  <2>1. (\A b \in Free : b \notin ToSet(blocks[g])) /\ ToSet(blocks[g]) \cap ToSet(blocks[f]) = {}
    BY BlocksApart DEF BInv
  <2>2. \A b \in ToSet(bl) : b \in Free \/ b \in ToSet(blocks[f])
    BY <1>2 DEF ToSet
  <2>3. QED
    BY <2>1, <2>2
<1>4. \A g \in Fid : blocks[g] \in Seq(Block) /\ DOMAIN blocks[g] = 1..Len(blocks[g])
  BY DEF BInv, TypeOK
<1>5. ASSUME NEW g \in Fid \ {f}, NEW i \in 1..Len(blocks[g]), NEW j \in 1..Len(bl)
      PROVE  blocks[g][i] # bl[j]
  BY <1>2, <1>3, <1>4 DEF ToSet
<1>6. \A i, j \in 1..Len(bl) : bl[i] = bl[j] => i = j
  BY <1>2 DEF Lists, IsInjective
<1>7. ASSUME NEW g \in Fid, NEW h \in Fid,
             NEW i \in 1..Len(blocks'[g]), NEW j \in 1..Len(blocks'[h]), blocks'[g][i] = blocks'[h][j]
      PROVE  g = h /\ i = j
  <2>1. CASE g = f /\ h = f
    BY <1>1, <1>6, <1>7, <2>1
  <2>2. CASE g = f /\ h # f
    BY <1>1, <1>5, <1>7, <2>2
  <2>3. CASE g # f /\ h = f
    BY <1>1, <1>5, <1>7, <2>3
  <2>4. CASE g # f /\ h # f
    BY <1>1, <1>7, <2>4 DEF BInv, Apart
  <2>5. QED
    BY <2>1, <2>2, <2>3, <2>4
<1>8. QED
  BY <1>1, <1>3, <1>7 DEF Apart

\* After ops_create.
LEMMA CreateStep ==
  ASSUME BInv, NEW f \in File, NEW b \in Free, Creates(f, b)
  PROVE  /\ BInv' /\ Entries' = Append(Entries, f) /\ ToSet(Entries') = ToSet(Entries) \cup {f}
         /\ OthersKept(f) /\ BytesOf(dev', blocks'[f]) = <<>>
<1>1. b \in Block /\ b \notin ToSet(blocks[0])
  BY FreeFinite, BlocksApart, RootFid DEF BInv
<1>2. <<b>> \in Seq(Block) /\ Len(<<b>>) = 1 /\ <<b>>[1] = b /\ <<b>> # <<>>
  BY <1>1
<1>3. Lists(<<b>>)
  BY <1>2 DEF Lists, IsInjective
<1>4. /\ Apart'
      /\ \A g \in Fid \ {f} : blocks'[g] = blocks[g] /\ ToSet(blocks[g]) \cap ToSet(<<b>>) = {}
  <2>1. \A i \in 1..Len(<<b>>) : <<b>>[i] \in Free \/ <<b>>[i] \in ToSet(blocks[f])
    BY <1>2
  <2>2. blocks' = [blocks EXCEPT ![f] = <<b>>] /\ f \in Fid
    BY RootFid DEF Creates
  <2>3. QED
    BY <1>3, <2>1, <2>2, StaysApart
<1>5. ToSet(<<b>>) = {b}
  BY <1>2 DEF ToSet
<1>6. OthersKept(f)
  <2> SUFFICES ASSUME NEW g \in File \ {f}, blocks[g] # <<>>
               PROVE  SameFile(dev, blocks[g], dev', blocks'[g])
    BY DEF OthersKept
  <2> DEFINE W == ToSet(blocks[0]) \cup {b}
  <2>1. \A c \in Block \ W : dev'[c] = dev[c]
    BY DEF Creates
  <2>2. g \in Fid \ {0} /\ g \in Fid \ {f}
    BY RootFid
  <2>3. ToSet(blocks[g]) \cap ToSet(blocks[0]) = {}
    BY <2>2, BlocksApart, RootFid DEF BInv
  <2>4. ToSet(blocks[g]) \cap W = {} /\ blocks'[g] = blocks[g]
    BY <1>4, <1>5, <2>2, <2>3
  <2> HIDE DEF W
  <2>5. QED
    BY <2>1, <2>2, <2>4, OthersSame
<1>7. blocks'[f] = <<b>>
  BY RootFid DEF Creates, BInv, TypeOK
<1>8. At(dev', <<b>>, 0) = 0
  <2>1. 0 \in Unit
    BY BytesAssumption DEF Unit
  <2>2. QED
    BY <1>2, <2>1, HeaderIs DEF Creates
<1>9. Fits(dev', <<b>>)
  <2>1. Room(<<b>>) \in Nat /\ 0 \in 0..(Room(<<b>>) - 1)
    BY <1>2, HeaderRoom
  <2>2. QED
    BY <1>8, <2>1 DEF Fits, Hdr
<1>10. BytesOf(dev', blocks'[f]) = <<>>
  <2>1. BytesOf(dev', <<b>>) \in Seq(Byte) /\ Len(BytesOf(dev', <<b>>)) = 0
    BY <1>2, <1>8, <1>9, BytesType DEF Creates
  <2>2. QED
    BY <1>7, <2>1, EmptySeq
<1>11. Headers'
  <2> SUFFICES ASSUME NEW g \in Fid, blocks'[g] # <<>> PROVE Fits(dev', blocks'[g])
    BY DEF Headers
  <2>1. CASE g = f
    BY <1>7, <1>9, <2>1
  <2>2. CASE g = 0
    BY <1>4, <2>2, RootFid DEF Creates
  <2>3. CASE g # f /\ g # 0
    <3>1. g \in File \ {f} /\ blocks[g] # <<>>
      BY <1>4, <2>3, RootFid
    <3>2. QED
      BY <1>6, <3>1 DEF OthersKept, SameFile
  <2>4. QED
    BY <2>1, <2>2, <2>3
<1>12. IsInjective(Append(Entries, f)) /\ ToSet(Append(Entries, f)) = ToSet(Entries) \cup {f}
  BY RootFacts, EntryMore DEF Creates
<1>13. BInv' /\ Entries' = BytesOf(dev', blocks[0])
  <2>1. BytesOf(dev', blocks[0]) = Append(Entries, f)
    BY DEF Creates
  <2>2. blocks' = [blocks EXCEPT ![f] = <<b>>] /\ dev' \in [Block -> Image]
    BY DEF Creates
  <2>3. QED
    BY <1>2, <1>4, <1>11, <1>12, <2>1, <2>2, StepBInv
<1>14. Entries' = Append(Entries, f)
  BY <1>13 DEF Creates
<1>15. ToSet(Entries') = ToSet(Entries) \cup {f}
  BY <1>12, <1>14
<1>16. QED
  BY <1>6, <1>10, <1>13, <1>14, <1>15

\* After ops_unlink.
LEMMA UnlinkStep ==
  ASSUME BInv, NEW f \in File, Removes(f)
  PROVE  BInv' /\ ToSet(Entries') = ToSet(Entries) \ {f} /\ OthersKept(f)
<1>1. <<>> \in Seq(Block) /\ Len(<<>>) = 0
  OBVIOUS
<1>2. Lists(<<>>)
  BY <1>1 DEF Lists, IsInjective
<1>3. blocks' = [blocks EXCEPT ![f] = <<>>] /\ f \in Fid /\ dev' \in [Block -> Image]
  BY RootFid DEF Removes
<1>4. Apart' /\ \A g \in Fid \ {f} : blocks'[g] = blocks[g]
  <2>1. \A i \in 1..Len(<<>>) : <<>>[i] \in Free \/ <<>>[i] \in ToSet(blocks[f])
    BY <1>1
  <2>2. PICK bl : bl = <<>>
    OBVIOUS
  <2>3. QED
    BY <1>2, <1>3, <2>1, <2>2, StaysApart
<1>5. OthersKept(f)
  <2> SUFFICES ASSUME NEW g \in File \ {f}, blocks[g] # <<>>
               PROVE  SameFile(dev, blocks[g], dev', blocks'[g])
    BY DEF OthersKept
  <2> DEFINE W == ToSet(blocks[0])
  <2>1. \A c \in Block \ W : dev'[c] = dev[c]
    BY DEF Removes
  <2>2. g \in Fid \ {0} /\ g \in Fid \ {f}
    BY RootFid
  <2>3. ToSet(blocks[g]) \cap W = {}
    BY <2>2, BlocksApart, RootFid DEF BInv
  <2>4. blocks'[g] = blocks[g]
    BY <1>4, <2>2
  <2> HIDE DEF W
  <2>5. QED
    BY <2>1, <2>2, <2>3, <2>4, OthersSame
<1>6. Headers'
  <2> SUFFICES ASSUME NEW g \in Fid, blocks'[g] # <<>> PROVE Fits(dev', blocks'[g])
    BY DEF Headers
  <2>1. CASE g = f
    BY <1>3, <2>1 DEF BInv, TypeOK
  <2>2. CASE g = 0
    BY <1>4, <2>2, RootFid DEF Removes
  <2>3. CASE g # f /\ g # 0
    <3>1. g \in File \ {f} /\ blocks[g] # <<>>
      BY <1>4, <2>3, RootFid
    <3>2. QED
      BY <1>5, <3>1 DEF OthersKept, SameFile
  <2>4. QED
    BY <2>1, <2>2, <2>3
<1>7. IsInjective(BytesOf(dev', blocks[0])) /\ ToSet(BytesOf(dev', blocks[0])) = ToSet(Entries) \ {f}
  BY DEF Removes
<1>8. BInv' /\ Entries' = BytesOf(dev', blocks[0])
  BY <1>1, <1>3, <1>4, <1>6, <1>7, StepBInv
<1>9. QED
  BY <1>5, <1>7, <1>8

\* After ops_write.
LEMMA WriteStep ==
  ASSUME BInv, NEW f \in File, NEW off \in Nat, NEW data \in Seq(Byte), NEW bl, Writes(f, off, data, bl)
  PROVE  /\ BInv' /\ Entries' = Entries /\ OthersKept(f)
         /\ Bytes!Written(BytesOf(dev, blocks[f]), off, data, BytesOf(dev', blocks'[f]))
<1>1. /\ f \in ToSet(Entries) /\ blocks[f] # <<>> /\ f \in Fid
      /\ blocks' = [blocks EXCEPT ![f] = bl] /\ dev' \in [Block -> Image]
      /\ Lists(bl) /\ bl \in Seq(Block)
  BY RootFid DEF Writes, Extends, Lists
<1>2. /\ Apart'
      /\ \A g \in Fid \ {f} : blocks'[g] = blocks[g] /\ ToSet(blocks[g]) \cap ToSet(bl) = {}
  <2>1. blocks[f] \in Seq(Block) /\ Len(blocks[f]) \in Nat /\ DOMAIN blocks[f] = 1..Len(blocks[f])
    BY <1>1 DEF BInv, TypeOK
  <2>2. ASSUME NEW i \in 1..Len(bl) PROVE bl[i] \in Free \/ bl[i] \in ToSet(blocks[f])
    <3>1. CASE i > Len(blocks[f])
      BY <3>1 DEF Writes, Extends
    <3>2. CASE ~(i > Len(blocks[f]))
      <4>1. i \in 1..Len(blocks[f])
        BY <2>1, <3>2
      <4>2. bl[i] = blocks[f][i]
        BY <4>1 DEF Writes, Extends
      <4>3. QED
        BY <2>1, <4>1, <4>2 DEF ToSet
    <3>3. QED
      BY <3>1, <3>2
  <2>3. QED
    BY <1>1, <2>2, StaysApart
<1>3. ASSUME NEW g \in Fid \ {f}, blocks[g] # <<>>
      PROVE  SameFile(dev, blocks[g], dev', blocks'[g])
  <2>1. \A c \in Block \ ToSet(bl) : dev'[c] = dev[c]
    BY DEF Writes
  <2>2. QED
    BY <1>2, <1>3, <2>1, OthersSame
<1>4. OthersKept(f)
  BY <1>3, RootFid DEF OthersKept
<1>5. SameFile(dev, blocks[0], dev', blocks[0])
  BY <1>2, <1>3, RootFid, RootFacts
<1> DEFINE ob  == blocks[f]
           sz  == At(dev, ob, 0)
           end == off + Len(data)
           new == NewSize(sz, end)
<1>6. /\ new \in Nat /\ new + Hdr <= Room(bl) /\ At(dev', bl, 0) = new
      /\ \A k \in 1..(Room(bl) - 1) :
           At(dev', bl, k) = IF k \in (off + 1)..end THEN data[k - off] ELSE At(dev, bl, k)
  BY DEF Writes, Puts
<1>7. Fits(dev', bl)
  BY <1>6 DEF Fits
<1>8. blocks'[f] = bl
  BY <1>1 DEF BInv, TypeOK
<1>9. Headers'
  <2> SUFFICES ASSUME NEW g \in Fid, blocks'[g] # <<>> PROVE Fits(dev', blocks'[g])
    BY DEF Headers
  <2>1. CASE g = f
    BY <1>7, <1>8, <2>1
  <2>2. CASE g # f
    BY <1>2, <1>3, <2>2 DEF SameFile
  <2>3. QED
    BY <2>1, <2>2
<1>10. BInv' /\ Entries' = Entries
  <2>1. BytesOf(dev', blocks[0]) = Entries
    BY <1>5, RootFacts DEF SameFile
  <2>2. IsInjective(Entries) /\ ToSet(Entries) = ToSet(Entries) \cup {f}
    BY <1>1, RootFacts
  <2>3. bl # <<>>
    <3>1. 1 \in 1..Len(blocks[f]) /\ Len(blocks[f]) <= Len(bl) /\ Len(blocks[f]) \in Nat
      BY <1>1, HeaderRoom DEF Writes, Extends, BInv, TypeOK
    <3>2. QED
      BY <3>1
  <2>4. QED
    BY <1>1, <1>2, <1>9, <2>1, <2>2, <2>3, StepBInv
<1>11. Bytes!Written(BytesOf(dev, ob), off, data, BytesOf(dev', bl))
  <2>1. /\ ob \in Seq(Block) /\ Fits(dev, ob) /\ dev \in [Block -> Image]
    BY <1>1 DEF BInv, TypeOK, Headers
  <2>2. /\ Len(BytesOf(dev, ob)) = sz /\ sz \in Nat
        /\ \A i \in 1..sz : BytesOf(dev, ob)[i] = At(dev, ob, i)
    BY <2>1, BytesType DEF Fits
  <2>3. /\ BytesOf(dev', bl) \in Seq(Byte) /\ Len(BytesOf(dev', bl)) = new
        /\ \A i \in 1..new : BytesOf(dev', bl)[i] = At(dev', bl, i)
    BY <1>1, <1>6, <1>7, BytesType
  <2>4. Len(data) \in Nat /\ end \in Nat /\ Room(bl) \in Nat
    BY <1>1, BytesAssumption DEF Room
  <2>5. new = IF sz < end THEN end ELSE sz
    BY DEF NewSize
  <2> HIDE DEF new, end, sz
  <2>6. ASSUME NEW i \in 1..new
        PROVE  IF i \in (off + 1)..end THEN BytesOf(dev', bl)[i] = data[i - off]
               ELSE BytesOf(dev', bl)[i] \in (IF i <= sz THEN {BytesOf(dev, ob)[i]} ELSE Byte)
    <3>1. i \in 1..(Room(bl) - 1)
      BY <1>6, <2>4 DEF Hdr
    <3>2. BytesOf(dev', bl)[i] = IF i \in (off + 1)..end THEN data[i - off] ELSE At(dev, bl, i)
      BY <1>6, <2>3, <3>1
    <3>3. BytesOf(dev', bl)[i] \in Byte
      BY <1>6, <2>3
    <3>4. i <= sz => At(dev, bl, i) = BytesOf(dev, ob)[i]
      <4>1. SUFFICES ASSUME i <= sz PROVE At(dev, bl, i) = BytesOf(dev, ob)[i]
        OBVIOUS
      <4>2. i \in 1..sz
        BY <2>2, <4>1
      <4>3. Room(ob) \in Nat
        BY <2>1, BytesAssumption DEF Room
      <4>4. i \in 0..(Room(ob) - 1)
        BY <2>1, <2>2, <4>2, <4>3 DEF Fits, Hdr, sz
      <4>5. At(dev, bl, i) = At(dev, ob, i)
        BY <2>1, <4>4, Prefixed DEF Writes, Extends
      <4>6. QED
        BY <2>2, <4>2, <4>5
    <3>5. QED
      BY <3>2, <3>3, <3>4
  <2>7. Len(BytesOf(dev', bl)) = IF Len(BytesOf(dev, ob)) < end THEN end ELSE Len(BytesOf(dev, ob))
    BY <2>2, <2>3, <2>5
  <2>8. QED
    BY <2>2, <2>3, <2>6, <2>7 DEF Bytes!Written, end
<1>12. QED
  BY <1>4, <1>8, <1>10, <1>11

-----------------------------------------------------------------------------
(* The invariant is kept.                                                   *)

\* Every step keeps it: the requests one by one.
LEMMA NextBInv == BInv /\ [Next]_vars => BInv'
<1> SUFFICES ASSUME BInv, [Next]_vars PROVE BInv'
  OBVIOUS
<1>1. CASE ops_create
  BY <1>1, CreateDoes, CreateStep
<1>2. CASE \E f \in File : ops_unlink(f)
  BY <1>2, UnlinkDoes, UnlinkStep
<1>3. CASE \E f \in File, off \in 0..(MaxLen - 1), data \in Data : ops_write(f, off, data)
  <2>1. PICK f \in File, off \in 0..(MaxLen - 1), data \in Data : ops_write(f, off, data)
    BY <1>3
  <2>2. PICK bl : Writes(f, off, data, bl)
    BY <2>1, WriteDoes
  <2>3. off \in Nat /\ data \in Seq(Byte)
    BY <2>1, BytesAssumption
  <2>4. QED
    BY <2>2, <2>3, WriteStep
<1>4. CASE UNCHANGED vars
  <2>1. dev' = dev /\ blocks' = blocks
    BY <1>4 DEF vars
  <2>2. Entries' = Entries
    BY <2>1 DEF Entries, dev_read_dir
  <2>3. TypeOK' /\ Apart'
    BY <2>1 DEF BInv, TypeOK, Apart
  <2>4. Headers'
    BY <2>1 DEF BInv, Headers
  <2>5. EntriesOwnBlocks'
    BY <2>1, <2>2 DEF BInv, EntriesOwnBlocks
  <2>6. QED
    BY <2>1, <2>3, <2>4, <2>5 DEF BInv
<1>5. QED
  BY <1>1, <1>2, <1>3, <1>4 DEF Next

\* The inductive invariant holds.
THEOREM BytesInvariant == Spec => []BInv
<1>1. Init => BInv
  BY InitBInv
<1>2. QED
  BY <1>1, NextBInv, PTL DEF Spec

\* The directory names exactly the files that have blocks, each once
\* (dev_create_file, dev_rm_from_dir, dev_write_dir), for every size of block
\* and directory.
THEOREM EntriesAlwaysOwn == Spec => []EntriesOwnBlocks
<1>1. BInv => EntriesOwnBlocks
  BY DEF BInv
<1>2. QED
  BY <1>1, BytesInvariant, PTL

\* The blocks of a file hold header and all bytes up to its size (ops_write,
\* dev_extd_blk_list, dev_set_file_size).
THEOREM SizeAlwaysCovered == Spec => []SizeCovered
<1>1. BInv => SizeCovered
  <2> SUFFICES ASSUME BInv, NEW f \in File, blocks[f] # <<>>
               PROVE  to_blk_cnt(dev_file_size(dev, blocks[f]) + Hdr) <= Len(blocks[f])
    BY DEF SizeCovered
  <2>1. Fits(dev, blocks[f]) /\ blocks[f] \in Seq(Block)
    BY RootFid DEF BInv, TypeOK, Headers
  <2>2. dev_file_size(dev, blocks[f]) = At(dev, blocks[f], 0)
    BY HeaderIs
  <2>3. PICK n \in Nat, m \in Nat : n = dev_file_size(dev, blocks[f]) + Hdr /\ m = Len(blocks[f])
    BY <2>1, <2>2 DEF Fits, Hdr
  <2>4. n <= m * BlkUnits
    BY <2>1, <2>2, <2>3 DEF Fits, Room
  <2>5. to_blk_cnt(n) <= m
    BY <2>3, <2>4, BlocksFor
  <2>6. QED
    BY <2>3, <2>5
<1>2. QED
  BY <1>1, BytesInvariant, PTL

-----------------------------------------------------------------------------
(* The refinement.                                                          *)

\* The files there are, as a function.
LEMMA FileIs ==
  ASSUME BInv
  PROVE  /\ DOMAIN file = ToSet(Entries) /\ ToSet(Entries) \subseteq File
         /\ file = [f \in ToSet(Entries) |-> BytesOf(dev, blocks[f])]
         /\ \A f \in ToSet(Entries) : blocks[f] # <<>>
<1>1. ToSet(Entries) = {f \in File : blocks[f] # <<>>}
  BY RootFacts
<1>2. ASSUME NEW f \in ToSet(Entries) PROVE Content(f) = BytesOf(dev, blocks[f])
  <2>1. At(dev, blocks[f], 0) \in Nat
    BY <1>1, RootFid DEF BInv, Headers, Fits
  <2>2. QED
    BY <2>1, LookedUp DEF Content
<1>3. QED
  BY <1>1, <1>2 DEF file

\* The same after a step.
LEMMA FileAfter ==
  ASSUME BInv'
  PROVE  file' = [f \in ToSet(Entries') |-> BytesOf(dev', blocks'[f])]
<1>1. \A f \in ToSet(Entries') : f \in File /\ blocks'[f] # <<>>
  BY DEF BInv, EntriesOwnBlocks, ToSet
<1>2. ASSUME NEW f \in ToSet(Entries') PROVE Content(f)' = BytesOf(dev', blocks'[f])
  <2>1. At(dev', blocks'[f], 0) \in Nat
    BY <1>1, RootFid DEF BInv, Headers, Fits
  <2>2. QED
    BY <2>1, LookedUp DEF Content
<1>3. QED
  BY <1>2 DEF file, ToSet

\* Every step is a step of ByteFile, or leaves the files as they are.
LEMMA NextBytes == BInv /\ [Next]_vars => [Bytes!Next]_file
<1> SUFFICES ASSUME BInv, [Next]_vars PROVE [Bytes!Next]_file
  OBVIOUS
<1>1. CASE ops_create
  <2>1. PICK f \in File, b \in Free : Creates(f, b)
    BY <1>1, CreateDoes
  <2>2. /\ BInv' /\ ToSet(Entries') = ToSet(Entries) \cup {f}
        /\ OthersKept(f) /\ BytesOf(dev', blocks'[f]) = <<>>
    BY <2>1, CreateStep
  <2>3. f \notin ToSet(Entries)
    BY <2>1 DEF Creates
  <2>4. \A g \in ToSet(Entries) : g \in File \ {f} /\ BytesOf(dev', blocks'[g]) = file[g]
    BY <2>2, <2>3, FileIs DEF OthersKept, SameFile
  <2>5. file' = [g \in DOMAIN file \cup {f} |-> IF g = f THEN <<>> ELSE file[g]]
    BY <2>2, <2>4, FileIs, FileAfter
  <2>6. Bytes!Create(f)
    BY <2>3, <2>5, FileIs DEF Bytes!Create
  <2>7. QED
    BY <2>6 DEF Bytes!Next
<1>2. CASE \E f \in File : ops_unlink(f)
  <2>1. PICK f \in File : ops_unlink(f)
    BY <1>2
  <2>2. Removes(f)
    BY <2>1, UnlinkDoes
  <2>3. BInv' /\ ToSet(Entries') = ToSet(Entries) \ {f} /\ OthersKept(f)
    BY <2>2, UnlinkStep
  <2>4. \A g \in ToSet(Entries) \ {f} : g \in File \ {f} /\ BytesOf(dev', blocks'[g]) = file[g]
    BY <2>3, FileIs DEF OthersKept, SameFile
  <2>5. file' = [g \in DOMAIN file \ {f} |-> file[g]]
    BY <2>3, <2>4, FileIs, FileAfter
  <2>6. Bytes!Remove(f)
    BY <2>2, <2>5, FileIs DEF Bytes!Remove, Removes
  <2>7. QED
    BY <2>6 DEF Bytes!Next
<1>3. CASE \E f \in File, off \in 0..(MaxLen - 1), data \in Data : ops_write(f, off, data)
  <2>1. PICK f \in File, off \in 0..(MaxLen - 1), data \in Data : ops_write(f, off, data)
    BY <1>3
  <2>2. PICK bl : Writes(f, off, data, bl)
    BY <2>1, WriteDoes
  <2>3. off \in Nat /\ data \in Seq(Byte)
    BY <2>1, BytesAssumption
  <2>4. /\ BInv' /\ Entries' = Entries /\ OthersKept(f)
        /\ Bytes!Written(BytesOf(dev, blocks[f]), off, data, BytesOf(dev', blocks'[f]))
    BY <2>2, <2>3, WriteStep
  <2>5. f \in ToSet(Entries)
    BY <2>2 DEF Writes
  <2>6. \A g \in ToSet(Entries) \ {f} : BytesOf(dev', blocks'[g]) = file[g]
    BY <2>4, FileIs DEF OthersKept, SameFile
  <2>7. file' = [g \in ToSet(Entries) |-> BytesOf(dev', blocks'[g])]
    BY <2>4, FileAfter
  <2>8. file' = [file EXCEPT ![f] = file'[f]]
    BY <2>5, <2>6, <2>7, FileIs
  <2>9. Bytes!Written(file[f], off, data, file'[f])
    BY <2>4, <2>5, <2>7, FileIs
  <2>10. Bytes!Write(f, off, data)
    BY <2>5, <2>8, <2>9, FileIs DEF Bytes!Write
  <2>11. QED
    BY <2>1, <2>10 DEF Bytes!Next
<1>4. CASE UNCHANGED vars
  BY <1>4 DEF vars, file, Content, Entries, dev_read_dir, dev_file_size, ReadBlocks
<1>5. QED
  BY <1>1, <1>2, <1>3, <1>4 DEF Next

\* The blocks, their lists and the directory implement files of bytes: what a
\* request (ops_create, ops_write, ops_unlink) does to the bytes of all files is
\* what ByteFile allows it.
THEOREM BytesImplemented == Spec => ImplementsByteFile
<1>1. Init => Bytes!Init
  <2> SUFFICES ASSUME Init PROVE file = <<>>
    BY DEF Bytes!Init
  <2>1. BInv /\ ToSet(Entries) = {}
    BY InitBInv DEF ToSet
  <2>2. file = [f \in {} |-> BytesOf(dev, blocks[f])]
    BY <2>1, FileIs
  <2>3. QED
    BY <2>2
<1>2. BInv /\ [Next]_vars => [Bytes!Next]_file
  BY NextBytes
<1>3. QED
  BY <1>1, <1>2, BytesInvariant, PTL DEF Spec, ImplementsByteFile, Bytes!Spec

-----------------------------------------------------------------------------
(* Reads.                                                                   *)

\* A read gathers the units at its offset.
LEMMA ReadGathers ==
  ASSUME BInv, NEW f \in ToSet(Entries), NEW sz \in Nat, sz = At(dev, blocks[f], 0),
         NEW off \in 0..(sz - 1), NEW n \in Nat \ {0}
  PROVE  LET m == IF sz < off + n THEN sz - off ELSE n
         IN ops_read(f, off, n) = [i \in 1..m |-> At(dev, blocks[f], off + i)]
<1> DEFINE bl  == blocks[f]
           m   == IF sz < off + n THEN sz - off ELSE n
           o   == Place(off)
           num == o \div BlkUnits
           at  == o % BlkUnits
           cnt == to_blk_cnt(at + m)
           buf == ReadBlocks(dev, bl, num, cnt)
<1>1. sz = dev_file_size(dev, bl)
  BY HeaderIs
<1>2. ops_read(f, off, n) = [i \in 1..m |-> buf[at + i - 1]]
  BY <1>1 DEF ops_read
<1>3. off \in Nat /\ m \in Nat /\ o = off + 1 /\ o \in Nat
  BY DEF Place, Hdr
<1>4. num \in Nat /\ at \in Unit /\ o = num * BlkUnits + at
  BY <1>3, UnitAt
<1>5. at \in Nat /\ num * BlkUnits \in Nat
  <2> HIDE DEF num, at
  <2>1. at \in Nat
    BY <1>4, BytesAssumption DEF Unit
  <2>2. num * BlkUnits \in Nat
    BY <1>4, InBlocks
  <2>3. QED
    BY <2>1, <2>2
<1>6. cnt \in Nat /\ at + m <= cnt * BlkUnits /\ cnt * BlkUnits \in Nat
  <2>1. at + m \in Nat
    BY <1>3, <1>5
  <2>2. cnt \in Nat
    BY <2>1, BlocksFor
  <2>3. QED
    BY <2>1, <2>2, BlocksFor, InBlocks
<1> HIDE DEF num, at, cnt, o, m
<1>7. ASSUME NEW i \in 1..m PROVE buf[at + i - 1] = At(dev, bl, off + i)
  <2>1. PICK k \in 0..(cnt * BlkUnits - 1) : k = at + i - 1
    BY <1>3, <1>5, <1>6
  <2>2. buf[k] = At(dev, bl, num * BlkUnits + k)
    BY <1>4, <1>6, ReadIs
  <2>3. num * BlkUnits + k = off + i
    BY <1>3, <1>4, <1>5, <2>1
  <2>4. QED
    BY <2>1, <2>2, <2>3
<1> HIDE DEF buf
<1>8. ops_read(f, off, n) = [i \in 1..m |-> At(dev, bl, off + i)]
  BY <1>2, <1>7
<1>9. QED
  BY <1>8 DEF m

\* A read answers the bytes of the file at its offset, up to the end, whatever
\* blocks they lie in (ops_read).
THEOREM ReadsAnswer == Spec => []ReadAnswers
<1>1. ASSUME BInv, NEW f \in ToSet(Entries),
             NEW off \in 0..(Len(Content(f)) - 1), NEW n \in 1..MaxLen
      PROVE  ops_read(f, off, n) = Bytes!Answer(Content(f), off, n)
  <2>1. blocks[f] \in Seq(Block) /\ Fits(dev, blocks[f]) /\ dev \in [Block -> Image]
    BY <1>1, RootFacts, RootFid DEF BInv, TypeOK, Headers
  <2>2. PICK sz \in Nat : sz = At(dev, blocks[f], 0)
    BY <2>1 DEF Fits
  <2>3. PICK bytes \in Seq(Byte) : bytes = Content(f) /\ Len(bytes) = sz /\ \A i \in 1..sz : bytes[i] = At(dev, blocks[f], i)
    <3>1. Content(f) = BytesOf(dev, blocks[f])
      BY <2>1, LookedUp DEF Content, Fits
    <3>2. QED
      BY <2>1, <2>2, <3>1, BytesType
  <2>4. off \in 0..(sz - 1) /\ n \in Nat \ {0}
    BY <1>1, <2>3, BytesAssumption
  <2>5. PICK m : m = IF sz < off + n THEN sz - off ELSE n
    OBVIOUS
  <2>6. m \in Nat /\ off + m <= sz /\ off + m = IF off + n <= sz THEN off + n ELSE sz
    BY <2>2, <2>4, <2>5
  <2>7. ops_read(f, off, n) = [i \in 1..m |-> At(dev, blocks[f], off + i)]
    BY <1>1, <2>2, <2>4, <2>5, ReadGathers
  <2>8. \A i \in 1..m : At(dev, blocks[f], off + i) = bytes[off + i]
    BY <2>2, <2>3, <2>4, <2>6
  <2>9. Bytes!Answer(bytes, off, n) = SubSeq(bytes, off + 1, off + m)
    BY <2>3, <2>6 DEF Bytes!Answer
  <2>10. SubSeq(bytes, off + 1, off + m) = [i \in 1..m |-> bytes[off + i]]
    <3>1. off + m - (off + 1) + 1 = m
      BY <2>4, <2>6
    <3>2. SubSeq(bytes, off + 1, off + m) = [i \in 1..m |-> bytes[i + (off + 1) - 1]]
      BY <2>3, <2>4, <2>6, <3>1
    <3>3. \A i \in 1..m : i + (off + 1) - 1 = off + i
      BY <2>4, <2>6
    <3>4. QED
      BY <3>2, <3>3
  <2>11. QED
    BY <2>3, <2>7, <2>8, <2>9, <2>10
<1>2. BInv => ReadAnswers
  BY <1>1 DEF ReadAnswers
<1>3. QED
  BY <1>2, BytesInvariant, PTL

=============================================================================
