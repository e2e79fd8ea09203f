----------------------------- MODULE BlockSearch -----------------------------
(***************************************************************************)
(* The searches for space, loop by loop: dev_free_blocks and               *)
(* dev_full_free_cluster call dev_free_cluster_from, which scans the bytes *)
(* and bits of the bitmap (fcfs/src/dev/common.c).  FCFSAlloc says in one  *)
(* operator what each search finds and how it ends; the properties here    *)
(* are that the loops find it and end that way.                            *)
(*                                                                         *)
(* A search starts in a volume as FCFSVolume leaves one: the bitmap agrees *)
(* with the cluster tables, except that the bits of an incomplete last     *)
(* byte may be 0 after a mount.  Operators named *_slip are mutants.       *)
(***************************************************************************)
EXTENDS FCFSAlloc, Sequences

CONSTANTS
  ByteBits,  \* bits of a bitmap byte (8)
  MaxCount   \* bound: blocks asked of dev_free_blocks

ASSUME SearchAssumption == ByteBits \in Nat \ {0} /\ MaxCount \in Nat

VARIABLES
  task,     \* the function running: "blocks" or "whole"
  count,    \* dev_free_blocks: the blocks wanted
  bitmap, ctab,
  pc,       \* next loop head: "call", "byte", "bit", "table", or how it ended
  start,    \* old_cid / start: where the next scan starts
  i, j, sc, \* the scan: byte, bit, first bit of the next byte with a 0
  cid,      \* the last answer of the scan
  taken     \* dev_free_blocks: the list so far

volume == <<task, count, bitmap, ctab>>
vars   == <<volume, pc, start, i, j, sc, cid, taken>>

\* Bits behind the last cluster are 0: the bitmap is padded to whole blocks.
Bit(k)      == IF k \in Cluster THEN bitmap[k] ELSE 0
ByteFull(b) == \A k \in 0..(ByteBits - 1) : Bit(b * ByteBits + k) = 1

\* dev_free_cluster_from takes the number of clusters for the number of bytes.
btm_len == NC

FreeSlots(c) == {b \in Slot : ctab[<<c, b>>].fid = 0}

\* Free slots are fid 0, the others belong to some file 1.
Tables == [Block -> {FreeEntry, [fid |-> 1, num |-> 0]}]

Init ==
  /\ task \in {"blocks", "whole"}
  /\ count \in 1..MaxCount
  /\ ctab \in {t \in Tables : \A b \in Slot : t[<<0, b>>] = FreeEntry}
  /\ bitmap \in {bm \in [Cluster -> {0, 1}] :
       \A c \in Cluster :
         IF HasFree(ctab, c) THEN bm[c] = 0
         ELSE c < (NC \div ByteBits) * ByteBits => bm[c] = 1}
  /\ pc = "call" /\ start = 0 /\ cid = 0 /\ taken = <<>>
  /\ i = 0 /\ j = 0 /\ sc = 0

-----------------------------------------------------------------------------

\* The loop of dev_free_blocks ends with one block missing.
Call_slip ==
  /\ pc = "call"
  /\ IF task = "blocks" /\ Len(taken) + 1 >= count
     THEN pc' = "done" /\ UNCHANGED <<i, sc>>
     ELSE /\ pc' = "byte"
          /\ i' = start \div ByteBits
          /\ sc' = (start % ByteBits) + 1
  /\ UNCHANGED <<volume, start, j, cid, taken>>

\* The loop of dev_free_blocks goes on while blocks are missing, that of
\* dev_full_free_cluster until it breaks off in Table.
Call ==
  /\ pc = "call"
  /\ IF task = "blocks" /\ Len(taken) >= count
     THEN pc' = "done" /\ UNCHANGED <<i, sc>>
     ELSE /\ pc' = "byte"
          /\ i' = start \div ByteBits
          /\ sc' = (start % ByteBits) + 1
  /\ UNCHANGED <<volume, start, j, cid, taken>>

\* The first bit is not reset.
Byte_slip ==
  /\ pc = "byte" /\ i < btm_len
  /\ IF ByteFull(i)
     THEN i' = i + 1 /\ UNCHANGED <<pc, j>>
     ELSE j' = sc /\ pc' = "bit" /\ UNCHANGED i
  /\ UNCHANGED <<volume, start, cid, taken, sc>>

\* The first bit is reset only after a byte with a 0 was entered, so that it
\* would carry over a full first byte.  The answer -1 behind the last byte has
\* no action: the bits behind the last cluster are 0 and stop the scan, which
\* would deadlock here if it ever got that far.
Byte ==
  /\ pc = "byte" /\ i < btm_len
  /\ IF ByteFull(i)
     THEN i' = i + 1 /\ UNCHANGED <<pc, j, sc>>
     ELSE j' = sc /\ sc' = 0 /\ pc' = "bit" /\ UNCHANGED i
  /\ UNCHANGED <<volume, start, cid, taken>>

TestBit ==
  /\ pc = "bit"
  /\ CASE j >= ByteBits -> i' = i + 1 /\ pc' = "byte" /\ UNCHANGED <<j, cid>>
       [] j < ByteBits /\ Bit(i * ByteBits + j) = 0 ->
            cid' = i * ByteBits + j /\ pc' = "table" /\ UNCHANGED <<i, j>>
       [] OTHER -> j' = j + 1 /\ UNCHANGED <<pc, i, cid>>
  /\ UNCHANGED <<volume, start, sc, taken>>

\* The first `n` slots of S, ascending.
FirstSlots(S, n) ==
  LET m == IF n < Cardinality(S) THEN n ELSE Cardinality(S)
  IN [k \in 1..m |-> CHOOSE b \in S : Cardinality({d \in S : d < b}) = k - 1]

\* The table of the cluster found.  Behind the last cluster there is none.
TakeBlocks ==
  LET new == FirstSlots(FreeSlots(cid), count - Len(taken))
  IN /\ pc' = "call"
     /\ taken' = taken \o [k \in 1..Len(new) |-> <<cid, new[k]>>]
     /\ start' = IF new = <<>> THEN start ELSE cid

\* The next scan starts where this one did.
WholeOrNext_slip ==
  /\ pc' = IF FreeSlots(cid) = Slot THEN "done" ELSE "call"
  /\ UNCHANGED <<start, taken>>

WholeOrNext ==
  /\ pc' = IF FreeSlots(cid) = Slot THEN "done" ELSE "call"
  /\ start' = cid
  /\ UNCHANGED taken

Table ==
  /\ pc = "table"
  /\ CASE cid \notin Cluster -> pc' = "exhausted" /\ UNCHANGED <<start, taken>>
       [] cid \in Cluster /\ task = "blocks" -> TakeBlocks
       [] OTHER -> WholeOrNext
  /\ UNCHANGED <<volume, i, j, sc, cid>>

\* The search has returned, or the driver is lost.
Ended == pc \in {"done", "exhausted"} /\ UNCHANGED vars

Next == Call \/ Byte \/ TestBit \/ Table \/ Ended

Spec == Init /\ [][Next]_vars /\ WF_vars(Next)

-----------------------------------------------------------------------------

\* Every variable has its type, and the list never gets longer than it was
\* asked to be (the inner loop of dev_free_blocks stops at count).
TypeOK ==
  /\ task \in {"blocks", "whole"} /\ count \in 1..MaxCount
  /\ pc \in {"call", "byte", "bit", "table", "done", "exhausted"}
  /\ start \in Cluster /\ cid \in Nat
  /\ i \in Nat /\ j \in Nat /\ sc \in 0..ByteBits
  /\ taken \in Seq(Block) /\ Len(taken) <= count

\* The scan answers the first cluster behind its start whose bit is 0: no bit is
\* passed over when a full byte, or the rest of one, is skipped
\* (dev_free_cluster_from, the first bit carried from byte to byte).
ScanFindsFirst ==
  pc = "table" =>
    /\ cid > start /\ Bit(cid) = 0
    /\ \A k \in (start + 1)..(cid - 1) : Bit(k) = 1

\* dev_free_blocks returns the first blocks free, in the order in which they get
\* their numbers; dev_full_free_cluster the first cluster wholly free.
SearchFinds ==
  pc = "done" =>
    IF task = "whole" THEN cid = Least(WholeClusters(bitmap, ctab))
    ELSE /\ {taken[k] : k \in 1..Len(taken)} = dev_free_blocks(bitmap, ctab, count)
         /\ Len(taken) = count
         /\ \A k \in 1..count : Rank(FreeBlocks(bitmap, ctab), taken[k]) = k - 1

Outcome ==
  IF task = "blocks" THEN SearchOutcome(bitmap, ctab, count)
  ELSE IF WholeClusters(bitmap, ctab) = {} THEN "exhausted" ELSE "up"

\* A search that ends does so the way FCFSAlloc says; one that should not end
\* never does.
EndsAsOutcome ==
  /\ pc = "done" => Outcome = "up"
  /\ pc = "exhausted" => Outcome = "exhausted"

\* A search ends unless a cluster with bit 0 has no free block: the loops make
\* progress whatever cluster is offered (liveness; the loops run on).
SearchEnds == Outcome # "hung" => <>(pc \in {"done", "exhausted"})

\* dev_free_cluster_from: "-1 - error, else the number of a cluster" (dev.h:328).
AnswersCluster == pc = "table" => cid \in Cluster \cup {-1}
=============================================================================
