------------------------------ MODULE FileBytes -------------------------------
(***************************************************************************)
(* How the driver lays the bytes of files into blocks (ops/read.c,         *)
(* ops/write.c, dev/read.c, dev/write.c, dev/file.c, dev/dir.c): block 0   *)
(* of a file begins with a header that holds its size, the bytes follow    *)
(* and run on through the other blocks.  A request reads whole blocks,     *)
(* changes them in memory and writes them back.  The root directory is     *)
(* such a file too; its bytes are its entries.                             *)
(*                                                                         *)
(* Which blocks a file has is FCFSVolume's subject: here a file has a list *)
(* of blocks in the order of their numbers, the allocator hands out the    *)
(* first free ones, and nothing runs out (a request that would have to     *)
(* fail for want of blocks is not made).  A removed file's blocks keep     *)
(* their bytes, and the next owner finds them there.                       *)
(*                                                                         *)
(* FileBytes implements ByteFile: the files that exist are the entries of  *)
(* the root directory, and their bytes are read out of the blocks.         *)
(***************************************************************************)
EXTENDS Integers, Sequences, FiniteSets, SequencesExt

CONSTANTS
  NB,       \* data blocks of the device
  NR,       \* blocks of the root directory: the first NR of them
  NF,       \* entries of the file table; 0 is the root directory
  BlkUnits, \* units of a block; a unit is a byte, an entry or the header
  Byte,     \* what a unit can hold
  Junk,     \* what is found where nothing was written
  MaxLen,   \* bound: bytes of a file
  Data      \* bound: what one write writes

ASSUME BytesAssumption ==
  /\ NB \in Nat /\ NR \in 1..NB /\ NF \in Nat \ {0} /\ BlkUnits \in Nat \ {0}
  /\ MaxLen \in Nat /\ 0..MaxLen \subseteq Byte /\ 0..NF \subseteq Byte
  /\ Junk \subseteq Byte /\ Data \subseteq Seq(Byte)

VARIABLES
  dev,     \* the bytes of every data block
  blocks   \* the blocks of every file, in the order of their numbers

vars == <<dev, blocks>>

Fid    == 0..(NF - 1)
File   == Fid \ {0}
Block  == 1..NB
Unit   == 0..(BlkUnits - 1)
Image  == [Unit -> Byte]   \* a block read into memory

Hdr == 1   \* sizeof(fcfs_file_header_t), in units

Used == UNION {ToSet(blocks[f]) : f \in Fid}
Free == Block \ Used

\* dev_free_blocks: the first n free blocks, ascending (none for n <= 0).
NewBlocks(n) ==
  [i \in 1..Max({0, n}) |->
     CHOOSE b \in Free : Cardinality({x \in Free : x < b}) = i - 1]

\* Blocks that hold n units.
to_blk_cnt(n) == (n + BlkUnits - 1) \div BlkUnits

\* dev_file_size: the header in block 0.
dev_file_size(d, bl) == d[bl[1]][0]

\* dev_set_file_size: block 0 is read, its header replaced, and written back.
dev_set_file_size(d, bl, n) == [d EXCEPT ![bl[1]][0] = n]

\* dev_read_by_id for blocks num, num + 1, ..., cnt of them, into one buffer.
ReadBlocks(d, bl, num, cnt) ==
  [k \in 0..(cnt * BlkUnits - 1) |-> d[bl[num + (k \div BlkUnits) + 1]][k % BlkUnits]]

\* dev_write_by_id for blocks num, num + 1, ..., cnt of them, out of one buffer.
WriteBlocks(d, bl, num, cnt, buf) ==
  [b \in Block |->
     IF \E i \in 1..cnt : bl[num + i] = b
     THEN LET i == CHOOSE i \in 1..cnt : bl[num + i] = b
          IN [u \in Unit |-> buf[(i - 1) * BlkUnits + u]]
     ELSE d[b]]

-----------------------------------------------------------------------------
(* dir.c, for the root directory.                                           *)

dev_read_dir(d) ==
  LET bl  == blocks[0]
      buf == ReadBlocks(d, bl, 0, Len(bl))
  IN [i \in 1..dev_file_size(d, bl) |-> buf[i - 1 + Hdr]]

\* dev_write_dir: the header and the entries, the last block filled with zeros.
\* All blocks of the directory are written; behind those the entries need, what
\* lies behind the buffer (junk) is written.
dev_write_dir(d, ent, junk) ==
  LET bl  == blocks[0]
      cnt == to_blk_cnt(Len(ent) + Hdr)
      buf == [k \in 0..(Len(bl) * BlkUnits - 1) |->
                IF k < Hdr THEN Len(ent)
                ELSE IF k < Len(ent) + Hdr THEN ent[k - Hdr + 1]
                ELSE IF k < cnt * BlkUnits THEN 0 ELSE junk]
  IN WriteBlocks(d, bl, 0, Len(bl), buf)

\* The entry is left in the middle and the last one cut off.
dev_rm_from_dir_slip(d, f, junk) ==
  dev_write_dir(d, Front(dev_read_dir(d)), junk)

\* dev_rm_from_dir: the last entry takes the place of the removed one.
dev_rm_from_dir(d, f, junk) ==
  LET ent == dev_read_dir(d)
      at  == SelectInSeq(ent, LAMBDA e : e = f)
  IN IF at = 0 THEN d
     ELSE dev_write_dir(d, Front([ent EXCEPT ![at] = Last(ent)]), junk)

-----------------------------------------------------------------------------
(* The requests.                                                            *)

\* The formatted device, its free blocks filled with junk.
Init ==
  /\ blocks = [f \in Fid |-> IF f = 0 THEN [i \in 1..NR |-> i] ELSE <<>>]
  /\ \E j \in Junk : dev = [b \in Block |-> [u \in Unit |-> IF b <= NR THEN 0 ELSE j]]

Entries == dev_read_dir(dev)

Exists(f) == f \in ToSet(Entries)

\* dev_init_file: the header, and zeros to the end of the block.
dev_init_file(d, b) == [d EXCEPT ![b] = [u \in Unit |-> 0]]

\* dev_create_file and dev_init_file, for the first free identifier.  (A
\* directory that has no room for the entry is FCFSVolume's subject.)
ops_create ==
  \E f \in File, junk \in Junk :
    /\ blocks[f] = <<>> /\ \A g \in File : g < f => blocks[g] # <<>>
    /\ Free # {}
    /\ to_blk_cnt(Len(Entries) + 1 + Hdr) <= NR
    /\ blocks' = [blocks EXCEPT ![f] = NewBlocks(1)]
    /\ dev' = dev_init_file(dev_write_dir(dev, Append(Entries, f), junk), NewBlocks(1)[1])

\* Where byte off of a file lies, counted in units from the file's first block.
Place(off) == off + Hdr

\* The header is counted in the size: its length is not taken off the offset.
NewSize_slip(old, end) == IF old < end + Hdr THEN end + Hdr ELSE old

\* A write that ends behind the end of the file lengthens it.
NewSize(old, end) == IF old < end THEN end ELSE old

\* The list after dev_extd_blk_list, for n bytes at off.
Extended(bl, off, n) ==
  bl \o NewBlocks((Place(off) \div BlkUnits) + to_blk_cnt((Place(off) % BlkUnits) + n) - Len(bl))

\* Data goes into buffers that were not read from the blocks.
Overlaid_slip(old, at, data) ==
  [k \in DOMAIN old |-> IF k \in at..(at + Len(data) - 1) THEN data[k - at + 1] ELSE 0]

\* The buffer of the old blocks with the data copied over it.
Overlaid(old, at, data) ==
  [k \in DOMAIN old |-> IF k \in at..(at + Len(data) - 1) THEN data[k - at + 1] ELSE old[k]]

\* ops_write: extend, read, overlay, write back; then the size in the header.
ops_write(f, off, data) ==
  LET o   == Place(off)
      num == o \div BlkUnits
      at  == o % BlkUnits
      cnt == to_blk_cnt(at + Len(data))
      bl  == Extended(blocks[f], off, Len(data))
      old == ReadBlocks(dev, bl, num, cnt)
      d   == WriteBlocks(dev, bl, num, cnt, Overlaid(old, at, data))
  IN /\ Exists(f)
     /\ off + Len(data) <= MaxLen
     /\ num + cnt - Len(blocks[f]) <= Cardinality(Free)
     /\ blocks' = [blocks EXCEPT ![f] = bl]
     /\ dev' = dev_set_file_size(d, bl, NewSize(dev_file_size(d, bl), off + Len(data)))

\* dev_rm_file: the blocks are free, then the entry goes.
ops_unlink(f) ==
  /\ Exists(f)
  /\ blocks' = [blocks EXCEPT ![f] = <<>>]
  /\ \E junk \in Junk : dev' = dev_rm_from_dir(dev, f, junk)

Next ==
  \/ ops_create
  \/ \E f \in File : ops_unlink(f)
  \/ \E f \in File, off \in 0..(MaxLen - 1), data \in Data : ops_write(f, off, data)

Spec == Init /\ [][Next]_vars

\* The blocks the answer needs are counted from its length alone.
ops_read_slip(f, off, n) ==
  LET bl  == blocks[f]
      sz  == dev_file_size(dev, bl)
      m   == IF sz < off + n THEN sz - off ELSE n
      o   == Place(off)
      cnt == to_blk_cnt(m)
      buf == ReadBlocks(dev, bl, o \div BlkUnits, cnt)
  IN [i \in 1..Min({m, cnt * BlkUnits - (o % BlkUnits)}) |-> buf[(o % BlkUnits) + i - 1]]

\* The answer of ops_read: cut to the size, whole blocks read, then copied.  The
\* kernel asks within the size getattr told it (off is not behind the end).
ops_read(f, off, n) ==
  LET bl  == blocks[f]
      sz  == dev_file_size(dev, bl)
      m   == IF sz < off + n THEN sz - off ELSE n
      o   == Place(off)
      cnt == to_blk_cnt((o % BlkUnits) + m)
      buf == ReadBlocks(dev, bl, o \div BlkUnits, cnt)
  IN [i \in 1..m |-> buf[(o % BlkUnits) + i - 1]]

-----------------------------------------------------------------------------
(* Properties.                                                              *)

\* The bytes of a file, each looked up in its block.
Content(f) ==
  LET bl == blocks[f]
  IN [i \in 1..dev_file_size(dev, bl) |->
        dev[bl[(Place(i - 1) \div BlkUnits) + 1]][Place(i - 1) % BlkUnits]]

\* Every unit of the device holds a byte, every list names blocks.
TypeOK ==
  /\ dev \in [Block -> Image]
  /\ blocks \in [Fid -> Seq(Block)]

\* The directory names exactly the files that have blocks, each once, through
\* all the swaps of dev_rm_from_dir and the rewrites of dev_write_dir.
EntriesOwnBlocks ==
  /\ IsInjective(Entries)
  /\ ToSet(Entries) = {f \in File : blocks[f] # <<>>}

\* The header never claims more bytes than the file's blocks hold, so a read
\* within the size finds all its blocks (ops_write extends before it sets the
\* size).
SizeCovered ==
  \A f \in File : blocks[f] # <<>> =>
    to_blk_cnt(dev_file_size(dev, blocks[f]) + Hdr) <= Len(blocks[f])

\* The files there are, and their bytes.
file == [f \in ToSet(Entries) |-> Content(f)]

Bytes == INSTANCE ByteFile WITH Name <- File

\* The blocks behave as files of bytes: what a request does to the content of
\* all files is what ByteFile allows it (ops_create, ops_write, ops_unlink).
ImplementsByteFile == Bytes!Spec

\* A read answers the bytes of the file at its offset, up to the end, whichever
\* blocks they lie in (ops_read).
ReadAnswers ==
  \A f \in ToSet(Entries) :
    LET bytes == Content(f)
    IN \A off \in 0..(Len(bytes) - 1), n \in 1..MaxLen :
         ops_read(f, off, n) = Bytes!Answer(bytes, off, n)
=============================================================================
