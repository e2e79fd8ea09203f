------------------------------ MODULE FCFSThreads ------------------------------
(***************************************************************************)
(* Requests served by several threads, as fuse_main does without -s.  The  *)
(* driver has no lock.  All threads share the position of one FILE: every  *)
(* access to the device is a call of fseek and then one of fread or        *)
(* fwrite, so it takes two steps here, Seek and one of the transfers.  They *)
(* also share the bitmap, the file table and the cached block lists.       *)
(*                                                                         *)
(* Requests are reads and writes of one block on files that exist and      *)
(* whose block lists are cached; a write extends its file by at most a     *)
(* block.  At most one request is under way on a file: what the threads do *)
(* to each other here, they do over different files.  Memory is accessed   *)
(* in steps as large as the operations between two calls of stdio; races   *)
(* inside them are not modelled.                                           *)
(*                                                                         *)
(* A block of the device is a record with a `kind`: "ctab" a cluster table *)
(* with a valid hashsum, "data", "bits" the bitmap, "table" the file       *)
(* table, "none" what the formatter left.                                  *)
(***************************************************************************)
EXTENDS FCFSAlloc, Sequences

CONSTANTS
  Thread,
  NFiles,   \* files, each created with one block
  Pay,      \* payloads of a block
  Nothing,  \* no payload
  MaxLen,   \* bound: blocks of a file
  ByteBits  \* bits of a bitmap byte (8)

\* The volume has room for the files at their longest.
ASSUME ThreadsAssumption ==
  /\ NFiles \in Nat \ {0} /\ MaxLen \in Nat \ {0}
  /\ NFiles <= BPC /\ NFiles * MaxLen <= (NC - 1) * BPC
  /\ Nothing \notin Pay
  /\ ByteBits \in Nat \ {0}

VARIABLES
  dev,     \* the blocks of the device
  pos,     \* position of args->dev
  bitmap,  \* fs_bitmap
  clrs,    \* fs_table: the clusters each file lists
  seqs,    \* cached block lists, in the order of the blocks' numbers
  th       \* what each thread is doing

vars == <<dev, pos, bitmap, clrs, seqs, th>>

File == 1..NFiles

\* Positions, in blocks: bitmap, file table, clusters of a table and BPC blocks.
BitPos   == 0
TblPos   == 1
At(c, b) == 2 + c * (BPC + 1) + b
Last     == At(NC - 1, BPC)

None == [kind |-> "none"]

\* What dev_write_bitmap writes: clu_cnt / 8.0 bytes of the bitmap, cut to a whole
\* number, and zeros behind them.
BitsOf(bm) ==
  [kind |-> "bits",
   bits |-> [c \in Cluster |-> IF c < (NC \div ByteBits) * ByteBits THEN bm[c] ELSE 0]]

NoCtab == [b \in Slot |-> FreeEntry]

(* A thread: its request with file, block number and payload; the step it is *)
(* at, and whether its fseek was done; the cluster and slot it found; the    *)
(* cluster table, the block and the size it read; its answer.                *)
Idle == [req |-> "idle", f |-> 0, n |-> 0, v |-> Nothing, at |-> "idle", sought |-> FALSE,
         c |-> 0, b |-> 0, bl |-> NoCtab, buf |-> None, size |-> 0, got |-> Nothing]

\* File f was created as f-th: its first block is slot f of cluster 1.
Init ==
  LET own == [b \in Slot |-> IF b \in File THEN [fid |-> b, num |-> 0] ELSE FreeEntry]
  IN /\ bitmap = [c \in Cluster |-> IF c = 1 /\ NFiles = BPC THEN 1 ELSE 0]
     /\ clrs = [f \in File |-> <<1>>]
     /\ seqs = [f \in File |-> <<<<1, f>>>>]
     /\ dev = [p \in 0..Last |->
          CASE p = BitPos -> BitsOf(bitmap)
            [] p = TblPos -> [kind |-> "table", clrs |-> clrs]
            [] p = At(1, 0) -> [kind |-> "ctab", own |-> own]
            [] \E f \in File : p = At(1, f) -> [kind |-> "data", size |-> 0, pay |-> Nothing]
            [] OTHER -> None]
     /\ pos = At(1, 0)
     /\ th = [t \in Thread |-> Idle]

-----------------------------------------------------------------------------
(* Reading what a block holds.                                              *)

\* dev_read_ctable: a block whose hashsum is wrong is a table of free entries.
dev_read_ctable(x) == IF x.kind = "ctab" THEN x.own ELSE NoCtab

\* Decrypting something else gives neither a size nor a payload.
Data(x) == IF x.kind = "data" THEN x ELSE [kind |-> "data", size |-> 0, pay |-> Nothing]

\* dev_read_by_id, dev_write_by_id: where block n of a file is.
Loc(f, n) == At(seqs[f][n + 1][1], seqs[f][n + 1][2])

HeadSize(f) == Data(dev[Loc(f, 0)]).size

\* The entries that are free, for the loop of dev_free_blocks.
FreeIn(bl) == {b \in Slot : bl[b].fid = 0}

\* dev_upd_bitmap, with the cluster table in the caller's hands.
Updated(c, bl) == dev_upd_bitmap(bitmap, [p \in {c} \X Slot |-> bl[p[2]]], {c})

-----------------------------------------------------------------------------
(* The steps between the calls of stdio.                                    *)

Goto(t, at) == th' = [th EXCEPT ![t].at = at, ![t].sought = FALSE]

\* A request comes in; a write starts no further than at the end (bound).  Beyond
\* the last block it goes through
\* dev_extd_blk_list first; a read starts with dev_file_size.
Begin(t, req, f, n, v) ==
  /\ th[t].req = "idle"
  /\ \A u \in Thread : th[u].req # "idle" => th[u].f # f
  /\ req = "write" => n <= HeadSize(f)
  /\ th' = [th EXCEPT ![t] = [Idle EXCEPT !.req = req, !.f = f, !.n = n, !.v = v,
       !.at = CASE req = "read" -> "size_read"
                [] req = "write" /\ n >= Len(seqs[f]) -> "find"
                [] OTHER -> "pay_read"]]
  /\ UNCHANGED <<dev, pos, bitmap, clrs, seqs>>

\* dev_free_cluster_from; there is a cluster, unless threads lost blocks.
Find(t) ==
  /\ th[t].at = "find"
  /\ FreeClusters(bitmap) # {}
  /\ th' = [th EXCEPT ![t].at = "free_read", ![t].c = Least(FreeClusters(bitmap))]
  /\ UNCHANGED <<dev, pos, bitmap, clrs, seqs>>

\* dev_upd_bitmap with the table that was just written.
Update(t) ==
  /\ th[t].at = "update"
  /\ bitmap' = Updated(th[t].c, th[t].bl)
  /\ Goto(t, IF bitmap' # bitmap THEN "bits_copy" ELSE "list")
  /\ UNCHANGED <<dev, pos, clrs, seqs>>

\* dev_write_bitmap copies the whole bytes of the bitmap to a buffer before it
\* seeks.
CopyBits(t) ==
  /\ th[t].at = "bits_copy"
  /\ th' = [th EXCEPT ![t].at = "bits_write", ![t].buf = BitsOf(bitmap)]
  /\ UNCHANGED <<dev, pos, bitmap, clrs, seqs>>

\* dev_file_mem_clrs.  dev_tbl_clrs_add writes the table, and so does
\* dev_file_reserve afterwards.
List(t) ==
  LET f == th[t].f
      listed == \E i \in 1..Len(clrs[f]) : clrs[f][i] = th[t].c
  IN /\ th[t].at = "list"
     /\ clrs' = IF listed THEN clrs ELSE [clrs EXCEPT ![f] = Append(@, th[t].c)]
     /\ Goto(t, IF listed THEN "table_copy" ELSE "add_copy")
     /\ UNCHANGED <<dev, pos, bitmap, seqs>>

\* dev_write_table copies the table to a buffer before it seeks.
CopyTable(t) ==
  /\ th[t].at \in {"add_copy", "table_copy"}
  /\ th' = [th EXCEPT ![t].at = IF @ = "add_copy" THEN "add_write" ELSE "table_write",
                      ![t].buf = [kind |-> "table", clrs |-> clrs]]
  /\ UNCHANGED <<dev, pos, bitmap, clrs, seqs>>

\* The end of dev_extd_blk_list: the block is linked to the cached list.
Link(t) ==
  /\ th[t].at = "link"
  /\ seqs' = [seqs EXCEPT ![th[t].f] = Append(@, <<th[t].c, th[t].b>>)]
  /\ Goto(t, "pay_read")
  /\ UNCHANGED <<dev, pos, bitmap, clrs>>

End(t) ==
  /\ th[t].at = "answer"
  /\ th' = [th EXCEPT ![t] = Idle]
  /\ UNCHANGED <<dev, pos, bitmap, clrs, seqs>>

-----------------------------------------------------------------------------
(* The calls of stdio.                                                      *)

CtabStep == {"free_read", "take_read", "take_write"}
DataStep == {"pay_read", "pay_write", "data_read"}
HeadStep == {"size_read", "head_read", "head_write"}
DevStep  == CtabStep \cup DataStep \cup HeadStep \cup {"bits_write", "add_write", "table_write"}

\* The block the step is meant for: the formula in dev_read_block and
\* dev_write_block.
Target(t) ==
  LET x == th[t]
  IN CASE x.at \in CtabStep -> At(x.c, 0)
       [] x.at \in DataStep -> Loc(x.f, x.n)
       [] x.at \in HeadStep -> Loc(x.f, 0)
       [] x.at = "bits_write" -> BitPos
       [] x.at \in {"add_write", "table_write"} -> TblPos

Seek(t) ==
  /\ th[t].at \in DevStep /\ ~th[t].sought
  /\ pos' = Target(t)
  /\ th' = [th EXCEPT ![t].sought = TRUE]
  /\ UNCHANGED <<dev, bitmap, clrs, seqs>>

\* fread or fwrite of a block, where the position is now.
Transfer(t, at) == /\ th[t].at = at /\ th[t].sought
                   /\ pos \in DOMAIN dev
                   /\ pos' = pos + 1
                   /\ UNCHANGED <<bitmap, clrs, seqs>>

Fread(t, at, new) == /\ Transfer(t, at)
                     /\ th' = [th EXCEPT ![t] = [new EXCEPT !.sought = FALSE]]
                     /\ UNCHANGED dev

Fwrite(t, at, x, then) == /\ Transfer(t, at)
                          /\ dev' = [dev EXCEPT ![pos] = x]
                          /\ Goto(t, then)

\* dev_free_blocks reads the table of the cluster found; if nothing is free
\* there it looks for a cluster again.
ReadFree(t) ==
  LET F == FreeIn(dev_read_ctable(dev[pos]))
  IN Fread(t, "free_read",
       IF F = {} THEN [th[t] EXCEPT !.at = "find"]
                 ELSE [th[t] EXCEPT !.at = "take_read", !.b = Least(F)])

\* The number is that of the last block, not of the next.
ReadTake_slip(t) ==
  LET e == [fid |-> th[t].f, num |-> Len(seqs[th[t].f]) - 1]
  IN Fread(t, "take_read", [th[t] EXCEPT !.at = "take_write",
                                         !.bl = [dev_read_ctable(dev[pos]) EXCEPT ![th[t].b] = e]])

\* dev_file_reserve reads the table again and enters the file.
ReadTake(t) ==
  LET e == [fid |-> th[t].f, num |-> Len(seqs[th[t].f])]
  IN Fread(t, "take_read", [th[t] EXCEPT !.at = "take_write",
                                         !.bl = [dev_read_ctable(dev[pos]) EXCEPT ![th[t].b] = e]])

WriteTake(t) == Fwrite(t, "take_write", [kind |-> "ctab", own |-> th[t].bl], "update")

WriteBits(t) == Fwrite(t, "bits_write", th[t].buf, "list")

WriteTable(t) == \/ Fwrite(t, "add_write", th[t].buf, "table_copy")
                 \/ Fwrite(t, "table_write", th[t].buf, "link")

\* ops_write reads the block, lays the payload over it and writes it.
ReadPay(t) == Fread(t, "pay_read", [th[t] EXCEPT !.at = "pay_write", !.buf = Data(dev[pos])])

WritePay(t) == Fwrite(t, "pay_write", [th[t].buf EXCEPT !.pay = th[t].v], "size_read")

\* dev_file_size: a read behind the end is answered at once.
ReadSize(t) ==
  LET sz == Data(dev[pos]).size
  IN Fread(t, "size_read",
       [th[t] EXCEPT !.size = sz,
                     !.at = CASE th[t].req = "write" -> "head_read"
                              [] th[t].req = "read" /\ th[t].n < sz -> "data_read"
                              [] OTHER -> "answer"])

\* dev_set_file_size reads block 0, enters the size and writes it.
ReadHead(t) == Fread(t, "head_read", [th[t] EXCEPT !.at = "head_write", !.buf = Data(dev[pos])])

\* A file is cut to the end of the last write.
WriteHead_slip(t) ==
  Fwrite(t, "head_write", [th[t].buf EXCEPT !.size = th[t].n + 1], "answer")

WriteHead(t) ==
  LET end == th[t].n + 1
  IN Fwrite(t, "head_write",
            [th[t].buf EXCEPT !.size = IF th[t].size < end THEN end ELSE th[t].size], "answer")

ReadData(t) == Fread(t, "data_read", [th[t] EXCEPT !.at = "answer", !.got = Data(dev[pos]).pay])

-----------------------------------------------------------------------------

\* The rest of a request, once it has begun.
Step(t) ==
  \/ Find(t) \/ Update(t) \/ CopyBits(t) \/ List(t) \/ CopyTable(t) \/ Link(t) \/ End(t)
  \/ Seek(t) \/ ReadFree(t) \/ ReadTake(t) \/ WriteTake(t) \/ WriteBits(t) \/ WriteTable(t)
  \/ ReadPay(t) \/ WritePay(t) \/ ReadSize(t) \/ ReadHead(t) \/ WriteHead(t) \/ ReadData(t)

Next == \E t \in Thread :
  \/ Step(t)
  \/ \E f \in File, n \in 0..(MaxLen - 1), v \in Pay : Begin(t, "write", f, n, v)
  \/ \E f \in File, n \in 0..(MaxLen - 1) : Begin(t, "read", f, n, Nothing)

\* The system runs every thread again and again; requests need not come.
Spec == Init /\ [][Next]_vars /\ \A t \in Thread : WF_vars(Step(t))

-----------------------------------------------------------------------------
(* Properties.                                                              *)

\* A thread is between the search for a block and its link to the list.
Extending(t) == th[t].at \in {"find", "free_read", "take_read", "take_write", "update",
                              "bits_copy", "bits_write", "list", "add_copy", "add_write",
                              "table_copy", "table_write", "link"}

\* dev_read_block: "reading one logical block from the device", the one with the
\* numbers given (dev.h:64): what is transferred is what was sought.
BlockAsked == \A t \in Thread : th[t].sought => pos = Target(t)

\* What two locks would give: one held over each access to the device and one
\* over each extension.
Orderly == /\ BlockAsked
           /\ \A t, u \in Thread : Extending(t) /\ Extending(u) => t = u

TypeOK ==
  /\ dev \in [0..Last -> {None} \cup
                [kind : {"bits"}, bits : [Cluster -> {0, 1}]] \cup
                [kind : {"table"}, clrs : [File -> Seq(Cluster)]] \cup
                [kind : {"ctab"}, own : [Slot -> [fid : 0..NFiles, num : 0..MaxLen]]] \cup
                [kind : {"data"}, size : 0..MaxLen, pay : Pay \cup {Nothing}]]
  /\ pos \in 0..(Last + 1)
  /\ bitmap \in [Cluster -> {0, 1}]
  /\ clrs \in [File -> Seq(Cluster)]
  /\ seqs \in [File -> Seq(Block)]
  /\ \A t \in Thread : th[t].f \in 0..NFiles /\ th[t].sought \in BOOLEAN

\* While no thread extends a file, every block in a cached list is the one the
\* cluster table on the device gives to that file with that number, and the table
\* gives away no other: what two lists share, or a list lost, would show here.
ListsMatchTables ==
  (\A t \in Thread : ~Extending(t)) =>
    \A c \in Cluster, b \in Slot :
      LET e == dev_read_ctable(dev[At(c, 0)])[b]
      IN c # 0 => \A f \in File :
           {n \in 1..Len(seqs[f]) : seqs[f][n] = <<c, b>>} =
             IF e.fid = f THEN {e.num + 1} ELSE {}

\* While no thread extends a file, the bitmap has bit 1 exactly on the clusters
\* whose table has no free entry, and the device has the file table as it is in
\* memory, and the bitmap as far as its whole bytes go.
SavedAgrees ==
  (\A t \in Thread : ~Extending(t)) =>
    /\ \A c \in Cluster : bitmap[c] = 1 <=> FreeIn(dev_read_ctable(dev[At(c, 0)])) = {}
    /\ dev[BitPos] = BitsOf(bitmap)
    /\ dev[TblPos] = [kind |-> "table", clrs |-> clrs]

\* The abstract store: a file's payloads as far as its header says; a write has
\* taken effect when its payload is there and the header covers it.
Files == [f \in File |-> [n \in 1..HeadSize(f) |-> Data(dev[Loc(f, n - 1)]).pay]]

Calls == [t \in Thread |->
  LET x == th[t]
  IN [req |-> x.req, f |-> x.f, n |-> x.n, v |-> x.v, got |-> x.got,
      done |-> \/ x.at = "answer"
               \/ x.req = "write" /\ x.at \in HeadStep /\ x.n < HeadSize(x.f)]]

Store == INSTANCE BlockStore WITH files <- Files, call <- Calls

\* Every request takes effect at one moment between its beginning and its end.
ImplementsStore == Store!Spec

\* Every request is answered, as long as its thread is run (the loop of
\* dev_free_blocks ends).
Answered == \A t \in Thread : th[t].req # "idle" ~> th[t].req = "idle"

-----------------------------------------------------------------------------
(* What comments of the repository say, and two threads refute.             *)

\* dev_free_blocks: "get a list of free blocks" (dev.h:240): the block that is
\* about to be entered for a file is free.
FreeWhenTaken ==
  \A t \in Thread : th[t].at = "take_write" =>
    dev_read_ctable(dev[At(th[t].c, 0)])[th[t].b].fid = 0

\* dev_write_bitmap: "writing of the bitmap" (dev.h:112): afterwards the device
\* has the bitmap, its last, incomplete byte left aside.
BitmapWritten == (\A t \in Thread : ~Extending(t)) => dev[BitPos] = BitsOf(bitmap)

=============================================================================
