------------------------------ MODULE FCFSLayout ------------------------------
(***************************************************************************)
(* Where things are on a device: the numbers fcfsfmt computes when it      *)
(* formats one, and the byte positions dev_read_block and dev_write_block  *)
(* go to.  The constants of fcfs_structs.h keep their values; the sizes of *)
(* a sector, of the file table and of an int are parameters.               *)
(*                                                                         *)
(*   sectors  the sectors of the device                                    *)
(*   head     fs_head, as fcfsfmt wrote it and dev_mount reads it          *)
(*   pos      the position of the FILE                                     *)
(*   op       the last block access: where it went and what it answered    *)
(***************************************************************************)
EXTENDS Integers

CONSTANTS
  SecSize,     \* bytes of a sector
  TableBytes,  \* sizeof(struct fcfs_table)
  IntLimit,    \* INT_MAX + 1, half of what an int can hold
  HeadLen,     \* lengths shorter than a block that writes are given
  MinSec, MaxSec   \* bound: sectors of a device

FCFS_BLOCK_SIZE        == 2
FCFS_BLOKS_PER_CLUSTER == 8

lblk_sz == FCFS_BLOCK_SIZE * SecSize

\* The device holds header, table and a cluster: with less, fcfsfmt subtracts
\* below zero in unsigned arithmetic.
ASSUME LayoutAssumption ==
  /\ SecSize \in Nat \ {0} /\ TableBytes \in Nat
  /\ IntLimit \in Nat \ {0}
  /\ MinSec \in Nat /\ MaxSec \in Nat
  /\ HeadLen \in 1..(lblk_sz - 1)
  /\ MinSec >= FCFS_BLOCK_SIZE * (TableBytes \div lblk_sz + 2 + FCFS_BLOKS_PER_CLUSTER + 2) + 1

VARIABLES sectors, head, pos, op

layout_vars == <<sectors, head, pos, op>>

-----------------------------------------------------------------------------
(* fcfsfmt, main.                                                           *)

\* READ CAPACITY answers the address of the last sector, which get_disc_info
\* takes for their number.
sec_cnt(s) == s - 1

CeilDiv(a, b) == (a + b - 1) \div b

blk_cnt(s) == sec_cnt(s) \div FCFS_BLOCK_SIZE
tbl_len    == TableBytes \div lblk_sz + 1

\* Clusters if the bitmap took no room.
clu_cnt0(s) == (blk_cnt(s) - tbl_len - 1) \div FCFS_BLOKS_PER_CLUSTER

\* Rounded down.
bmp_len_slip(s) == (clu_cnt0(s) \div 8) \div lblk_sz

\* Blocks of the bitmap; the division by 8 is one of integers.
bmp_len(s) == CeilDiv(clu_cnt0(s) \div 8, lblk_sz)

\* The first count is kept.
clu_cnt_slip(s) == clu_cnt0(s)

clu_cnt(s) == (blk_cnt(s) - tbl_len - bmp_len(s) - 1) \div FCFS_BLOKS_PER_CLUSTER

\* The block of the header is forgotten.
dta_beg_slip(s) == bmp_len(s) + tbl_len

\* Header, bitmap, table, and one more.
dta_beg(s) == 2 + bmp_len(s) + tbl_len

Formatted(s) == [clu_cnt |-> clu_cnt(s), bmp_len |-> bmp_len(s),
                 tbl_len |-> tbl_len, dta_beg |-> dta_beg(s)]

-----------------------------------------------------------------------------
(* read.c, write.c.                                                         *)

Bytes == sectors * SecSize

Exact(c, b) == (head.dta_beg + FCFS_BLOKS_PER_CLUSTER * c + b) * lblk_sz

\* The value of an int that overflowed, on a machine that wraps around.
Wrapped(n) == LET m == n % (2 * IntLimit)
              IN IF m < IntLimit THEN m ELSE m - 2 * IntLimit

\* The argument of fseek.  Overflow of an int is undefined: the compiler may
\* compute in a wider register or wrap.
Address(c, b) == IF Exact(c, b) < IntLimit THEN {Exact(c, b)}
                 ELSE {Exact(c, b), Wrapped(Exact(c, b))}

\* fseek to a negative position fails and leaves the position; its answer -1 is
\* compared with 1.
Seek(a) == IF a < 0 THEN pos ELSE a

Shorter(x, y) == IF x <= y THEN x ELSE y

\* Bytes of a block at p that lie on the device.
Room(p) == IF p >= Bytes THEN 0 ELSE Shorter(lblk_sz, Bytes - p)

Access(call, c, b, p, answer, stored) ==
  /\ op' = [call |-> call, cid |-> c, bid |-> b, at |-> p, answer |-> answer, stored |-> stored]
  /\ UNCHANGED <<sectors, head>>

\* Answers 0 for a block, -1 for NULL.
dev_read_block(c, b) ==
  \E a \in Address(c, b) :
    LET p == Seek(a)
    IN /\ pos' = p + Room(p)
       /\ Access("dev_read_block", c, b, p, IF Room(p) = lblk_sz THEN 0 ELSE -1, FALSE)

\* fwrite is given a whole block; its answer is compared with len.  Behind the
\* end it may answer a whole block that is never stored (a buffered FILE).
dev_write_block(c, b, len) ==
  \E a \in Address(c, b) :
    LET p == Seek(a)
    IN \E res \in {lblk_sz, Room(p)} :
         /\ pos' = p + res
         /\ Access("dev_write_block", c, b, p, IF res = len THEN 0 ELSE -1, Room(p) = lblk_sz)

\* dev_write_by_id, once it found the block: the answer of dev_write_block is lost.
dev_write_by_id(c, b) ==
  \E a \in Address(c, b) :
    LET p == Seek(a)
    IN \E res \in {lblk_sz, Room(p)} :
         /\ pos' = p + res
         /\ Access("dev_write_by_id", c, b, p, 0, Room(p) = lblk_sz)

NoOp == [call |-> "none", cid |-> 0, bid |-> 0, at |-> 0, answer |-> 0, stored |-> FALSE]

LayoutInit == /\ sectors \in MinSec..MaxSec
              /\ head = Formatted(sectors)
              /\ pos = 0 /\ op = NoOp

DataCluster == 0..(head.clu_cnt - 1)
Blk         == 0..(FCFS_BLOKS_PER_CLUSTER - 1)

\* Cluster tables (block 0) and headers are shorter than a block.
LayoutNext ==
  \E c \in DataCluster, b \in Blk :
    \/ dev_read_block(c, b)
    \/ \E len \in {HeadLen, lblk_sz} : dev_write_block(c, b, len)
    \/ dev_write_by_id(c, b)

LayoutSpec == LayoutInit /\ [][LayoutNext]_layout_vars

-----------------------------------------------------------------------------
(* Properties.                                                              *)

Accessed == op.call # "none"

\* The areas do not overlap and a cluster more would not have fitted: the data
\* behind header, bitmap and table ends with the blocks of the device, or one
\* block behind them (dta_beg counts one block that clu_cnt does not).
AreasFit ==
  LET end == head.dta_beg + FCFS_BLOKS_PER_CLUSTER * head.clu_cnt
  IN /\ head.dta_beg >= 1 + head.bmp_len + head.tbl_len
     /\ head.tbl_len * lblk_sz >= TableBytes
     /\ end <= blk_cnt(sectors) + 1
     /\ end + FCFS_BLOKS_PER_CLUSTER > blk_cnt(sectors) + 1

\* The bitmap has a bit for every cluster but seven at most, those beyond the last
\* whole byte of the first count (fcfsfmt.c:58), and it has no block too many: a
\* block less would be too short, but for the clusters the bitmap itself displaced.
BitsNearlyCover ==
  /\ head.clu_cnt <= 8 * (head.bmp_len * lblk_sz) + 7
  /\ head.bmp_len > 0 => 8 * ((head.bmp_len - 1) * lblk_sz) < head.clu_cnt + head.bmp_len

\* Only the very last block of the last cluster can lie behind the end.
OnlyLastLost ==
  Accessed /\ Bytes < IntLimit /\ op.at + lblk_sz > Bytes =>
    /\ op.cid = head.clu_cnt - 1 /\ op.bid = FCFS_BLOKS_PER_CLUSTER - 1
    /\ sectors % FCFS_BLOCK_SIZE = 1

-----------------------------------------------------------------------------
(* What comments of the repository say, and the numbers refute.             *)

\* dev_read_block: "reading of one logical block from the device" by the number
\* of its cluster and its own (dev.h:64-67), on a device an int cannot address.
BlockOfNumberRead == op.call = "dev_read_block" => op.at = Exact(op.cid, op.bid)

\* dev_write_by_id answers "0 - success, -1 - error" (dev.h:284).
ByIdAnswers == op.call = "dev_write_by_id" => (op.answer = 0 => op.stored)

\* dev_write_block answers "0 - success, -1 - error" (dev.h:212).
WriteAnswers == op.call = "dev_write_block" => (op.stored => op.answer = 0)

\* dev_upd_bitmap updates "the bit of the cluster in the bitmap" (dev.h:176):
\* the bitmap has one for every cluster.
EveryClusterHasBit == head.clu_cnt <= 8 * (head.bmp_len * lblk_sz)
=============================================================================
