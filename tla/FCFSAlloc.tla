------------------------------ MODULE FCFSAlloc ------------------------------
(***************************************************************************)
(* The space allocator of the FCFS driver (fcfs/src/dev/common.c): the     *)
(* in-memory cluster bitmap, the cluster tables and the searches over      *)
(* them.  A cluster table (fcfs_block_list_t, block 0 of the cluster)      *)
(* records for each data block of the cluster the file that owns it and    *)
(* its number in that file; the bitmap has bit 1 for a cluster with no     *)
(* free block.                                                             *)
(*                                                                         *)
(* Everything here is a constant-level operator on a bitmap `bm` and a     *)
(* table `ct` of all data blocks.  BlockSearch checks the loops of the     *)
(* code, step by step, against the searches defined here.                  *)
(*                                                                         *)
(* Operators named *_slip are mutants: the definition after them with the  *)
(* mistake their comment names.  No specification uses one.                *)
(***************************************************************************)
EXTENDS Integers, FiniteSets

CONSTANTS
  NC,   \* fs_head->clu_cnt: clusters of the volume; cluster 0 is the root's
  BPC   \* FCFS_BLOKS_PER_CLUSTER - 1: data blocks of a cluster

\* A cluster number is stored in an unsigned short (fcfs_table_entry.clrs).
ASSUME SizeAssumption == /\ NC \in Nat /\ 2 <= NC /\ NC <= 65536
                         /\ BPC \in Nat \ {0}

Cluster == 0..(NC - 1)
Slot    == 1..BPC
Block   == Cluster \X Slot

\* fid of the entries of a cluster claimed for second-level addresses: the
\* code stores -1 in an unsigned field, which equals no file identifier.
CLAIMED == -1

FreeEntry == [fid |-> 0, num |-> 0]

HasFree(ct, c) == \E b \in Slot : ct[<<c, b>>].fid = 0

\* The bit is cleared by subtraction, without a look at its old value.
dev_upd_bitmap_slip(bm, ct, C) ==
  [c \in Cluster |-> IF c \in C
                     THEN IF HasFree(ct, c) THEN bm[c] - 1 ELSE 1
                     ELSE bm[c]]

\* Only a bit to be cleared is changed.
dev_upd_bitmap_slip2(bm, ct, C) ==
  [c \in Cluster |-> IF c \in C /\ HasFree(ct, c) THEN 0 ELSE bm[c]]

\* dev_upd_bitmap applied to each cluster of C after its table was written.
dev_upd_bitmap(bm, ct, C) ==
  [c \in Cluster |-> IF c \in C
                     THEN IF HasFree(ct, c) THEN 0 ELSE 1
                     ELSE bm[c]]

\* What the bitmap is for: bit 1 exactly on the clusters with no free block.
Agrees(bm, ct) == \A c \in Cluster : bm[c] = 1 <=> ~HasFree(ct, c)

\* The scan starts at the position it is given.
FreeClusters_slip(bm) == {c \in Cluster : bm[c] = 0}

\* The clusters dev_free_cluster_from can answer, in ascending order from the
\* start of the bitmap.  Cluster 0 is skipped: the scan starts one past the
\* position it is given.
FreeClusters(bm) == {c \in 1..(NC - 1) : bm[c] = 0}

Least(S) == CHOOSE x \in S : \A y \in S : x <= y

-----------------------------------------------------------------------------
(* Block lists, in the order in which dev_free_blocks links them.          *)

Before(p, q) == p[1] < q[1] \/ (p[1] = q[1] /\ p[2] < q[2])

Rank(S, p) == Cardinality({q \in S : Before(q, p)})

\* All blocks of a cluster are taken, not those dev_get_blocks finds free.
FreeBlocks_slip(bm, ct) == {p \in Block : p[1] \in FreeClusters(bm)}

FreeBlocks(bm, ct) ==
  {p \in Block : p[1] \in FreeClusters(bm) /\ ct[p].fid = 0}

\* The list dev_free_blocks returns: the first n free blocks.
dev_free_blocks(bm, ct, n) ==
  LET F == FreeBlocks(bm, ct) IN {p \in F : Rank(F, p) < n}

\* How dev_free_blocks ends.  A cluster whose bit is 0 although it has no free
\* block yields nothing and is offered again: the loop does not end.  When the
\* clusters run out the bits after the last one are 0 too, and a cluster behind
\* the last one is found.  If the device has no block there dev_read_block
\* returns NULL and dev_read_ctable copies from it; if it has one, blocks are
\* handed out that the volume does not have.
SearchOutcome(bm, ct, n) ==
  LET spins == {c \in FreeClusters(bm) :
                  /\ ~HasFree(ct, c)
                  /\ Cardinality({p \in FreeBlocks(bm, ct) : p[1] < c}) < n}
  IN IF spins # {} THEN "hung"
     ELSE IF Cardinality(FreeBlocks(bm, ct)) < n THEN "exhausted"
     ELSE "up"

\* The loop ends at the first cluster with a free block.
WholeClusters_slip(bm, ct) == FreeClusters(bm)

\* The clusters dev_full_free_cluster can answer: wholly free ones.
WholeClusters(bm, ct) ==
  {c \in FreeClusters(bm) : \A b \in Slot : ct[<<c, b>>].fid = 0}
=============================================================================
