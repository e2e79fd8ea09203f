--------------------------- MODULE FCFSThreadsProofs ---------------------------
(***************************************************************************)
(* Volumes, files and threads of every size.                               *)
(*                                                                         *)
(* What -s buys: with one thread lists, tables and saved bitmap agree, and *)
(* the driver implements the store of blocks (SingleThreadStore).          *)
(*                                                                         *)
(* The way there: one thread's requests are orderly (SingleThreadOrderly), *)
(* and orderly steps, whoever takes them, preserve OInv.  The driver keeps *)
(* no lock that would make the requests of two threads orderly, so the     *)
(* lemmas under that hypothesis say nothing of it without -s: there a      *)
(* transfer can miss its seek (configuration threads_seek) and two         *)
(* extensions can take one block (run threads_alloc).                      *)
(***************************************************************************)
EXTENDS FCFSThreads, FCFSAllocProofs, SequenceTheorems, TLAPS

OneThread == \E t : Thread = {t}

Fields == {"req", "f", "n", "v", "at", "sought", "c", "b", "bl", "buf", "size", "got"}

\* The state of the threads is a function to records of the fields of Idle.
Shape == /\ th = [t \in Thread |-> th[t]]
         /\ \A t \in Thread : DOMAIN th[t] = Fields

(* A thread that has called fseek is at a step that uses the device, and the *)
(* position is still where that step wants it.  BlockAsked alone is not      *)
(* inductive: a step of another kind would keep `sought`.                    *)
Kept == \A t \in Thread : th[t].sought => th[t].at \in DevStep /\ pos = Target(t)

IInv == Shape /\ Kept

\* A thread that serves nothing has every field of the record, and has not called fseek.
LEMMA IdleShape == DOMAIN Idle = Fields /\ Idle.sought = FALSE
  BY DEF Idle, Fields

\* The threads start idle.
LEMMA InitIInv == Init => IInv
  BY IdleShape DEF Init, IInv, Shape, Kept

(* What a step does to the only thread there is. *)
LEMMA StepKeeps ==
  ASSUME IInv, NEW t \in Thread, Thread = {t}, NEW new, DOMAIN new = Fields,
         th' = [th EXCEPT ![t] = new],
         new.sought => new.at \in DevStep /\ pos' = Target(t)'
  PROVE  IInv'
<1>1. th'[t] = new /\ th' = [u \in Thread |-> th'[u]]
  BY DEF IInv, Shape
<1>2. Shape'
  BY <1>1 DEF Shape
<1>3. Kept'
  BY <1>1 DEF Kept
<1>4. QED
  BY <1>2, <1>3 DEF IInv

(* A step that ends with its transfer done. *)
LEMMA DoneKeeps ==
  ASSUME IInv, NEW t \in Thread, Thread = {t}, NEW new, DOMAIN new = Fields,
         th' = [th EXCEPT ![t] = new], new.sought = FALSE
  PROVE  IInv'
  BY StepKeeps

\* A step that forgets its fseek and goes on leaves nothing to keep.
LEMMA GotoKeeps ==
  ASSUME IInv, NEW t \in Thread, Thread = {t}, NEW at, Goto(t, at)
  PROVE  IInv'
<1> DEFINE new == [th[t] EXCEPT !.at = at, !.sought = FALSE]
<1>1. DOMAIN new = Fields /\ new.sought = FALSE
  BY DEF IInv, Shape, Fields
<1>2. th' = [th EXCEPT ![t] = new]
  BY DEF Goto, IInv, Shape, Fields
<1>3. QED
  BY <1>1, <1>2, DoneKeeps

\* fread uses up the fseek before it.
LEMMA FreadKeeps ==
  ASSUME IInv, NEW t \in Thread, Thread = {t}, NEW at, NEW new, DOMAIN new = Fields,
         Fread(t, at, new)
  PROVE  IInv'
<1>1. DOMAIN [new EXCEPT !.sought = FALSE] = Fields /\ [new EXCEPT !.sought = FALSE].sought = FALSE
  BY DEF Fields
<1>2. QED
  BY <1>1, DoneKeeps DEF Fread

\* fwrite uses up the fseek before it.
LEMMA FwriteKeeps ==
  ASSUME IInv, NEW t \in Thread, Thread = {t}, NEW at, NEW x, NEW then, Fwrite(t, at, x, then)
  PROVE  IInv'
  BY GotoKeeps DEF Fwrite

\* fseek leaves the position where its own step wants it.
LEMMA SeekKeeps ==
  ASSUME IInv, NEW t \in Thread, Thread = {t}, Seek(t)
  PROVE  IInv'
<1> DEFINE new == [th[t] EXCEPT !.sought = TRUE]
<1>1. DOMAIN new = Fields /\ new.at = th[t].at
  BY DEF IInv, Shape, Fields
<1>2. th' = [th EXCEPT ![t] = new] /\ th'[t] = new
  BY DEF Seek, IInv, Shape, Fields
<1>3. new.c = th[t].c /\ new.f = th[t].f /\ new.n = th[t].n
  BY DEF IInv, Shape, Fields
<1>4. Target(t)' = Target(t)
  BY <1>1, <1>2, <1>3 DEF Target, Loc, Seek
<1>5. new.at \in DevStep /\ pos' = Target(t)'
  BY <1>1, <1>4 DEF Seek
<1>6. QED
  BY <1>1, <1>2, <1>5, StepKeeps

\* A request starts without an fseek of its own.
LEMMA BeginKeeps ==
  ASSUME IInv, NEW t \in Thread, Thread = {t}, NEW req, NEW f, NEW n, NEW v, Begin(t, req, f, n, v)
  PROVE  IInv'
<1> DEFINE new == [Idle EXCEPT !.req = req, !.f = f, !.n = n, !.v = v,
                     !.at = CASE req = "read" -> "size_read"
                              [] req = "write" /\ n >= Len(seqs[f]) -> "find"
                              [] OTHER -> "pay_read"]
<1>1. DOMAIN new = Fields /\ new.sought = FALSE
  BY DEF Idle, Fields
<1>2. th' = [th EXCEPT ![t] = new]
  BY DEF Begin
<1>3. QED
  BY <1>1, <1>2, DoneKeeps

(* A step without the device, which keeps `sought`: it was FALSE. *)
LEMMA LocalKeeps ==
  ASSUME IInv, NEW t \in Thread, Thread = {t}, NEW new, DOMAIN new = Fields,
         th' = [th EXCEPT ![t] = new], new.sought = th[t].sought, th[t].at \notin DevStep
  PROVE  IInv'
<1>1. ~new.sought
  BY DEF IInv, Kept
<1>2. QED
  BY <1>1, StepKeeps

\* Every step of a request keeps the invariant when no other thread runs.
LEMMA StepIInv ==
  ASSUME IInv, NEW t \in Thread, Thread = {t}, Step(t)
  PROVE  IInv'
<1>0. /\ "find" \notin DevStep /\ "bits_copy" \notin DevStep
      /\ "add_copy" \notin DevStep /\ "table_copy" \notin DevStep
  BY DEF DevStep, CtabStep, DataStep, HeadStep
<1>1. CASE Find(t)
  <2> DEFINE new == [th[t] EXCEPT !.at = "free_read", !.c = Least(FreeClusters(bitmap))]
  <2>1. DOMAIN new = Fields /\ new.sought = th[t].sought
    BY DEF IInv, Shape, Fields
  <2>2. th' = [th EXCEPT ![t] = new]
    BY <1>1 DEF Find, IInv, Shape, Fields
  <2>3. QED
    BY <1>0, <1>1, <2>1, <2>2, LocalKeeps DEF Find
<1>2. CASE CopyBits(t)
  <2> DEFINE new == [th[t] EXCEPT !.at = "bits_write", !.buf = BitsOf(bitmap)]
  <2>1. DOMAIN new = Fields /\ new.sought = th[t].sought
    BY DEF IInv, Shape, Fields
  <2>2. th' = [th EXCEPT ![t] = new]
    BY <1>2 DEF CopyBits, IInv, Shape, Fields
  <2>3. QED
    BY <1>0, <1>2, <2>1, <2>2, LocalKeeps DEF CopyBits
<1>3. CASE CopyTable(t)
  <2> DEFINE new == [th[t] EXCEPT !.at = IF @ = "add_copy" THEN "add_write" ELSE "table_write",
                                  !.buf = [kind |-> "table", clrs |-> clrs]]
  <2>1. DOMAIN new = Fields /\ new.sought = th[t].sought
    BY DEF IInv, Shape, Fields
  <2>2. th' = [th EXCEPT ![t] = new]
    BY <1>3 DEF CopyTable, IInv, Shape, Fields
  <2>3. QED
    BY <1>0, <1>3, <2>1, <2>2, LocalKeeps DEF CopyTable
<1>4. CASE Update(t)
  BY <1>4, GotoKeeps DEF Update
<1>5. CASE List(t)
  BY <1>5, GotoKeeps DEF List
<1>6. CASE Link(t)
  BY <1>6, GotoKeeps DEF Link
<1>7. CASE End(t)
  BY <1>7, IdleShape, DoneKeeps DEF End
<1>8. CASE Seek(t)
  BY <1>8, SeekKeeps
<1>9. CASE ReadFree(t)
  <2>1. DOMAIN [th[t] EXCEPT !.at = "find"] = Fields
    BY DEF IInv, Shape
  <2>2. \A b : DOMAIN [th[t] EXCEPT !.at = "take_read", !.b = b] = Fields
    BY DEF IInv, Shape
  <2>3. QED
    BY <1>9, <2>1, <2>2, FreadKeeps DEF ReadFree
<1>10. CASE ReadTake(t)
  <2>1. \A x : DOMAIN [th[t] EXCEPT !.at = "take_write", !.bl = x] = Fields
    BY DEF IInv, Shape
  <2>2. QED
    BY <1>10, <2>1, FreadKeeps DEF ReadTake
<1>11. CASE WriteTake(t)
  BY <1>11, FwriteKeeps DEF WriteTake
<1>12. CASE WriteBits(t)
  BY <1>12, FwriteKeeps DEF WriteBits
<1>13. CASE WriteTable(t)
  BY <1>13, FwriteKeeps DEF WriteTable
<1>14. CASE ReadPay(t)
  <2>1. \A x : DOMAIN [th[t] EXCEPT !.at = "pay_write", !.buf = x] = Fields
    BY DEF IInv, Shape
  <2>2. QED
    BY <1>14, <2>1, FreadKeeps DEF ReadPay
<1>15. CASE WritePay(t)
  BY <1>15, FwriteKeeps DEF WritePay
<1>16. CASE ReadSize(t)
  <2>1. \A x, y : DOMAIN [th[t] EXCEPT !.size = x, !.at = y] = Fields
    BY DEF IInv, Shape
  <2>2. QED
    BY <1>16, <2>1, FreadKeeps DEF ReadSize
<1>17. CASE ReadHead(t)
  <2>1. \A x : DOMAIN [th[t] EXCEPT !.at = "head_write", !.buf = x] = Fields
    BY DEF IInv, Shape
  <2>2. QED
    BY <1>17, <2>1, FreadKeeps DEF ReadHead
<1>18. CASE WriteHead(t)
  BY <1>18, FwriteKeeps DEF WriteHead
<1>19. CASE ReadData(t)
  <2>1. \A x : DOMAIN [th[t] EXCEPT !.at = "answer", !.got = x] = Fields
    BY DEF IInv, Shape
  <2>2. QED
    BY <1>19, <2>1, FreadKeeps DEF ReadData
<1>20. QED
  BY <1>1, <1>2, <1>3, <1>4, <1>5, <1>6, <1>7, <1>8, <1>9, <1>10, <1>11, <1>12, <1>13,
     <1>14, <1>15, <1>16, <1>17, <1>18, <1>19 DEF Step

\* And so does every step of the system.
LEMMA NextIInv ==
  ASSUME OneThread
  PROVE  IInv /\ [Next]_vars => IInv'
<1> SUFFICES ASSUME IInv, [Next]_vars PROVE IInv'
  OBVIOUS
<1>1. CASE Next
  <2>1. PICK t \in Thread :
          \/ Step(t)
          \/ \E f \in File, n \in 0..(MaxLen - 1), v \in Pay : Begin(t, "write", f, n, v)
          \/ \E f \in File, n \in 0..(MaxLen - 1) : Begin(t, "read", f, n, Nothing)
    BY <1>1 DEF Next
  <2>2. Thread = {t}
    BY DEF OneThread
  <2>3. QED
    BY <2>1, <2>2, StepIInv, BeginKeeps
<1>2. CASE UNCHANGED vars
  BY <1>2 DEF vars, IInv, Shape, Kept, Target, Loc
<1>3. QED
  BY <1>1, <1>2

(* Served by one thread, dev_read_block and dev_write_block transfer the block *)
(* they were asked for: no position is lost between fseek and fread.           *)
LEMMA SingleThreadAsked == OneThread => (Spec => []BlockAsked)
<1> SUFFICES ASSUME OneThread PROVE Spec => []BlockAsked
  OBVIOUS
<1>1. Init => IInv
  BY InitIInv
<1>2. IInv /\ [Next]_vars => IInv'
  BY NextIInv
<1>3. IInv => BlockAsked
  BY DEF IInv, Kept, BlockAsked
<1>4. QED
  BY <1>1, <1>2, <1>3, PTL DEF Spec

-----------------------------------------------------------------------------
(* Requests that keep to Orderly: one access to the device and one extension *)
(* of a list at a time, whatever else the other threads do.                  *)

\* An extension has entered its block in the table, and not linked it yet.
Entered(t) == th[t].at \in {"update", "bits_copy", "bits_write", "list", "add_copy",
                            "add_write", "table_copy", "table_write", "link"}

Busy(t) == th[t].req # "idle"

Tab(c)      == dev_read_ctable(dev[At(c, 0)])
Entry(f, n) == [fid |-> f, num |-> n]
Payloads    == [kind : {"data"}, size : Nat, pay : Pay \cup {Nothing}]
BitsBlock   == BitsOf(bitmap)
TableBlock  == [kind |-> "table", clrs |-> clrs]

\* What each part of the device can be read as.
Device ==
  /\ DOMAIN dev = 0..Last /\ bitmap \in [Cluster -> {0, 1}]
  /\ \A c \in Cluster : Tab(c) \in [Slot -> [fid : Nat, num : Nat]]
  /\ \A c \in Cluster, b \in Slot : Data(dev[At(c, b)]) \in Payloads

\* A cached list is in the tables, block by block.
Lists ==
  /\ seqs \in [File -> Seq(Block)]
  /\ \A f \in File :
       /\ Len(seqs[f]) >= 1
       /\ \A n \in 1..Len(seqs[f]) :
            seqs[f][n][1] # 0 /\ Tab(seqs[f][n][1])[seqs[f][n][2]] = Entry(f, n - 1)

Listed(c, b) == \E f \in File : \E n \in 1..Len(seqs[f]) : seqs[f][n] = <<c, b>>

\* What the tables give to a file is in its list, or an extension will link it.
Covered ==
  \A c \in Cluster \ {0}, b \in Slot :
    Tab(c)[b].fid # 0 =>
      Listed(c, b) \/ \E t \in Thread : Entered(t) /\ th[t].c = c /\ th[t].b = b

\* Bitmap and tables agree, but for a cluster whose update is due; and the device
\* has both, unless a write of it is due.
Saved ==
  /\ \A c \in Cluster : \/ bitmap[c] = 1 <=> FreeIn(Tab(c)) = {}
                        \/ \E t \in Thread : th[t].at = "update" /\ th[t].c = c
  /\ dev[BitPos] = BitsBlock \/ \E t \in Thread : th[t].at \in {"bits_copy", "bits_write"}
  /\ dev[TblPos] = TableBlock \/ \E t \in Thread : th[t].at \in {"add_copy", "add_write"}

\* A header does not cover more than the list has.
Heads == \A f \in File : HeadSize(f) <= Len(seqs[f])

Alone == \A t, u \in Thread : Busy(t) /\ Busy(u) /\ th[t].f = th[u].f => t = u

\* A thread that extends a list: where it is going to enter which number, and
\* what it copied to write it to the device.
Extends(x) ==
  /\ x.n = Len(seqs[x.f])
  /\ x.at # "find" => x.c \in Cluster \ {0}
  /\ x.at \notin {"find", "free_read"} => x.b \in Slot
  /\ x.at \in {"take_read", "take_write"} => Tab(x.c)[x.b].fid = 0
  /\ x.at = "take_write" => x.bl = [Tab(x.c) EXCEPT ![x.b] = Entry(x.f, x.n)]
  /\ x.at = "update" => x.bl = Tab(x.c)
  /\ x.at \notin {"find", "free_read", "take_read", "take_write"} =>
       Tab(x.c)[x.b] = Entry(x.f, x.n) /\ ~Listed(x.c, x.b)
  /\ x.at = "bits_write" => x.buf = BitsBlock
  /\ x.at \in {"add_write", "table_write"} => x.buf = TableBlock

\* A write that has its block: what it read is still so, and what it wrote.
Writes(x) ==
  /\ x.n < Len(seqs[x.f])
  /\ x.at = "pay_write" => x.buf = Data(dev[Loc(x.f, x.n)])
  /\ x.at \in HeadStep => Data(dev[Loc(x.f, x.n)]).pay = x.v
  /\ x.at \in {"head_read", "head_write"} => x.size = HeadSize(x.f)
  /\ x.at = "head_write" => x.buf = Data(dev[Loc(x.f, 0)])

ExtendSteps == {"find", "free_read", "take_read", "take_write", "update", "bits_copy",
                "bits_write", "list", "add_copy", "add_write", "table_copy", "table_write", "link"}

\* What is kept of one thread.
Request(x) ==
  /\ x.req \in {"idle", "read", "write"}
  /\ x.req = "idle" => x.at = "idle"
  /\ x.req # "idle" => x.f \in File /\ x.n \in Nat
  /\ x.req = "read" =>
       /\ x.at \in {"size_read", "data_read", "answer"}
       /\ x.at # "answer" => x.got = Nothing
       /\ x.at = "data_read" => x.n < HeadSize(x.f)
  /\ x.req = "write" =>
       /\ x.at \in ExtendSteps \cup {"pay_read", "pay_write", "answer"} \cup HeadStep
       /\ x.n <= HeadSize(x.f) /\ x.v \in Pay /\ x.got = Nothing
       /\ IF x.at \in ExtendSteps THEN Extends(x) ELSE Writes(x)

\* The inductive invariant under Orderly.
OInv ==
  /\ Shape /\ Device /\ Lists /\ Covered /\ Saved /\ Heads /\ Alone
  /\ \A t \in Thread : Request(th[t])

\* The sizes are numbers.
LEMMA ThreadSizes ==
  /\ NC \in Nat /\ NC >= 2 /\ BPC \in Nat /\ BPC >= 1 /\ NFiles \in Nat /\ MaxLen \in Nat
  /\ Cluster = 0..(NC - 1) /\ Slot = 1..BPC /\ File = 1..NFiles /\ 0 \notin File
BY SizeAssumption, ThreadsAssumption, SMTT(30) DEF Cluster, Slot, File

\* No two blocks of the device have one position.
LEMMA AtApart ==
  ASSUME NEW c \in Cluster, NEW d \in Cluster, NEW b \in 0..BPC, NEW e \in 0..BPC
  PROVE  /\ At(c, b) \in 2..Last
         /\ At(c, b) = At(d, e) => c = d /\ b = e
<1> DEFINE w == BPC + 1
<1>1. /\ w \in Nat /\ BPC \in Nat /\ NC \in Nat /\ w > b /\ w > e /\ b \in Nat /\ e \in Nat
      /\ c \in Nat /\ d \in Nat /\ c <= NC - 1 /\ d <= NC - 1 /\ NC - 1 \in Nat
  BY ThreadSizes
<1> HIDE DEF w
<1>2. \A x, y \in Nat : x < y => x * w + w <= y * w
  <2>1. ASSUME NEW x \in Nat, NEW y \in Nat, x < y PROVE x * w + w <= y * w
    <3>1. PICK z \in Nat : y = (x + 1) + z
      <4>1. y - (x + 1) \in Nat /\ y = (x + 1) + (y - (x + 1))
        BY <2>1
      <4>2. QED
        BY <4>1
    <3>2. y * w = x * w + w + z * w /\ z * w \in Nat /\ x * w \in Nat
      BY <1>1, <3>1
    <3>3. QED
      BY <1>1, <3>2
  <2>2. QED
    BY <2>1
<1>3. c * w \in Nat /\ d * w \in Nat /\ (NC - 1) * w \in Nat
  BY <1>1
<1>4. At(c, b) = 2 + c * w + b /\ At(d, e) = 2 + d * w + e /\ Last = 2 + (NC - 1) * w + BPC
  BY DEF At, Last, w
<1>5. c * w <= (NC - 1) * w
  <2>1. CASE c = NC - 1
    BY <1>3, <2>1
  <2>2. CASE c < NC - 1
    <3>1. c * w + w <= (NC - 1) * w
      BY <1>1, <1>2, <2>2
    <3>2. QED
      BY <1>1, <1>3, <3>1
  <2>3. QED
    BY <1>1, <2>1, <2>2
<1>6. At(c, b) \in 2..Last
  BY <1>1, <1>3, <1>4, <1>5
<1>7. ASSUME At(c, b) = At(d, e) PROVE c = d /\ b = e
  <2>1. c * w + b = d * w + e
    BY <1>1, <1>3, <1>4, <1>7
  <2>2. ~(c < d)
    <3>1. SUFFICES ASSUME c * w + w <= d * w PROVE FALSE
      BY <1>1, <1>2
    <3>2. QED
      BY <1>1, <1>3, <2>1, <3>1
  <2>3. ~(d < c)
    <3>1. SUFFICES ASSUME d * w + w <= c * w PROVE FALSE
      BY <1>1, <1>2
    <3>2. QED
      BY <1>1, <1>3, <2>1, <3>1
  <2>4. c = d
    BY <1>1, <2>2, <2>3
  <2>5. QED
    BY <1>1, <1>3, <2>1, <2>4
<1>8. QED
  BY <1>6, <1>7

\* The bitmap and the file table are in front of the clusters.
LEMMA Fronts ==
  /\ BitPos \in 0..Last /\ TblPos \in 0..Last /\ BitPos # TblPos
  /\ \A c \in Cluster, b \in 0..BPC : At(c, b) \in 0..Last /\ At(c, b) # BitPos /\ At(c, b) # TblPos
  /\ \A c, d \in Cluster, b \in Slot : At(c, b) # At(d, 0) /\ b \in 0..BPC /\ 0 \in 0..BPC
<1>1. 0 \in Cluster /\ 0 \in 0..BPC /\ \A b \in Slot : b \in 0..BPC /\ b # 0
  BY ThreadSizes
<1>2. At(0, 0) \in 2..Last
  BY <1>1, AtApart
<1>3. Last \in Int /\ 0 \in 0..Last /\ 1 \in 0..Last
  <2>1. Last \in Int
    <3>1. (NC - 1) * (BPC + 1) \in Int
      BY ThreadSizes
    <3>2. QED
      BY <3>1, ThreadSizes DEF Last, At
  <2>2. QED
    BY <1>2, <2>1
<1>4. ASSUME NEW c \in Cluster, NEW b \in 0..BPC
      PROVE  At(c, b) \in 0..Last /\ At(c, b) # BitPos /\ At(c, b) # TblPos
  <2>1. At(c, b) \in 2..Last
    BY AtApart
  <2>2. QED
    BY <1>3, <2>1 DEF BitPos, TblPos
<1>5. \A c, d \in Cluster, b \in Slot : At(c, b) # At(d, 0)
  BY <1>1, AtApart
<1>6. QED
  BY <1>1, <1>3, <1>4, <1>5 DEF BitPos, TblPos

\* Where a block of a file is.
LEMMA LocAt ==
  ASSUME Lists, NEW f \in File, NEW n \in Nat, n < Len(seqs[f])
  PROVE  /\ n + 1 \in 1..Len(seqs[f]) /\ seqs[f][n + 1] \in Block
         /\ seqs[f][n + 1][1] \in Cluster \ {0} /\ seqs[f][n + 1][2] \in Slot
         /\ seqs[f][n + 1] = <<seqs[f][n + 1][1], seqs[f][n + 1][2]>>
         /\ Loc(f, n) = At(seqs[f][n + 1][1], seqs[f][n + 1][2])
         /\ Tab(seqs[f][n + 1][1])[seqs[f][n + 1][2]] = Entry(f, n)
         /\ Loc(f, n) \in 0..Last
<1>1. seqs[f] \in Seq(Block) /\ Len(seqs[f]) \in Nat
  BY LenProperties DEF Lists
<1>2. n + 1 \in 1..Len(seqs[f]) /\ (n + 1) - 1 = n
  BY <1>1
<1>3. seqs[f][n + 1] \in Block
  BY <1>1, <1>2, ElementOfSeq
<1>4. seqs[f][n + 1][1] # 0 /\ Tab(seqs[f][n + 1][1])[seqs[f][n + 1][2]] = Entry(f, n)
  BY <1>2 DEF Lists
<1>5. QED
  BY <1>2, <1>3, <1>4, Fronts DEF Block, Loc

\* No two blocks of files have one position.
LEMMA LocApart ==
  ASSUME Lists, NEW f \in File, NEW n \in Nat, n < Len(seqs[f]),
         NEW g \in File, NEW m \in Nat, m < Len(seqs[g]), Loc(f, n) = Loc(g, m)
  PROVE  f = g /\ n = m
<1> DEFINE p == seqs[f][n + 1]
           q == seqs[g][m + 1]
<1>1. /\ p[1] \in Cluster /\ p[2] \in Slot /\ Loc(f, n) = At(p[1], p[2])
      /\ Tab(p[1])[p[2]] = Entry(f, n)
  BY LocAt
<1>2. /\ q[1] \in Cluster /\ q[2] \in Slot /\ Loc(g, m) = At(q[1], q[2])
      /\ Tab(q[1])[q[2]] = Entry(g, m)
  BY LocAt
<1> HIDE DEF p, q
<1>3. p[1] = q[1] /\ p[2] = q[2]
  <2>1. p[2] \in 0..BPC /\ q[2] \in 0..BPC
    BY <1>1, <1>2, Fronts
  <2>2. At(p[1], p[2]) = At(q[1], q[2])
    BY <1>1, <1>2
  <2>3. QED
    BY <1>1, <1>2, <2>1, <2>2, AtApart
<1>4. Entry(f, n) = Entry(g, m)
  BY <1>1, <1>2, <1>3
<1>5. QED
  BY <1>4 DEF Entry

-----------------------------------------------------------------------------
\* A step gives one thread a new state and leaves those of the others.
Moves(t, new) == /\ th' = [th EXCEPT ![t] = new]
                 /\ DOMAIN new = Fields

\* Every table reads as before.
SameTabs == \A c \in Cluster : Tab(c)' = Tab(c)

\* The blocks of a file, and where they are, are as before.
SameFile(f) == /\ seqs'[f] = seqs[f]
               /\ \A n \in Nat : n < Len(seqs[f]) => Data(dev[Loc(f, n)])' = Data(dev[Loc(f, n)])

\* What a moving thread takes along of an extension.
Stays(x, y) ==
  /\ x.at \in ExtendSteps \ {"find", "free_read", "take_read", "take_write"} =>
       /\ y.at \in ExtendSteps \ {"find", "free_read", "take_read", "take_write"}
       /\ y.c = x.c /\ y.b = x.b
  /\ x.at = "update" => y.at = "update"
  /\ x.at \in {"bits_copy", "bits_write"} => y.at \in {"bits_copy", "bits_write"}
  /\ x.at \in {"add_copy", "add_write"} => y.at \in {"add_copy", "add_write"}

\* Which thread moves, and which do not.
LEMMA Moved ==
  ASSUME Shape, NEW t \in Thread, NEW new, Moves(t, new)
  PROVE  /\ Shape' /\ th'[t] = new
         /\ \A u \in Thread : u # t => th'[u] = th[u]
<1>1. th'[t] = new /\ \A u \in Thread : u # t => th'[u] = th[u]
  BY DEF Moves, Shape
<1>2. th' = [u \in Thread |-> th'[u]]
  BY DEF Moves, Shape
<1>3. \A u \in Thread : DOMAIN th'[u] = Fields
  <2> TAKE u \in Thread
  <2>1. CASE u = t
    BY <1>1, <2>1 DEF Moves
  <2>2. CASE u # t
    BY <1>1, <2>2 DEF Shape
  <2>3. QED
    BY <2>1, <2>2
<1>4. QED
  BY <1>1, <1>2, <1>3 DEF Shape

\* A request stays alone on its file.
LEMMA StaysAlone ==
  ASSUME Shape, Alone, NEW t \in Thread, NEW new, Moves(t, new),
         new.req # "idle" => \A u \in Thread : u # t /\ Busy(u) => th[u].f # new.f
  PROVE  Alone'
<1>1. th'[t] = new /\ \A u \in Thread : u # t => th'[u] = th[u]
  BY Moved
<1>2. SUFFICES ASSUME NEW u \in Thread, NEW s \in Thread, Busy(u)', Busy(s)', th'[u].f = th'[s].f
               PROVE  u = s
  BY DEF Alone
<1>3. CASE u # t /\ s # t
  BY <1>1, <1>2, <1>3 DEF Alone, Busy
<1>4. CASE u = t /\ s # t
  BY <1>1, <1>2, <1>4 DEF Busy
<1>5. CASE u # t /\ s = t
  BY <1>1, <1>2, <1>5 DEF Busy
<1>6. QED
  BY <1>3, <1>4, <1>5

\* What is kept of a thread that does not move: nobody else touches its file,
\* and what an extension reads or copied does not change under it.
LEMMA OtherRequest ==
  ASSUME NEW u \in Thread, th'[u] = th[u], Request(th[u]), Lists,
         Busy(u) => SameFile(th[u].f),
         th[u].at \in ExtendSteps => SameTabs /\ UNCHANGED <<bitmap, clrs, seqs>>
  PROVE  Request(th[u])'
<1>1. CASE th[u].req = "idle"
  BY <1>1 DEF Request
<1>2. CASE th[u].req # "idle"
  <2>1. th[u].f \in File /\ th[u].n \in Nat /\ SameFile(th[u].f)
    BY <1>2 DEF Request, Busy
  <2>2. Len(seqs[th[u].f]) \in Nat /\ Len(seqs[th[u].f]) >= 1
    BY <2>1, LenProperties DEF Lists
  <2>3. HeadSize(th[u].f)' = HeadSize(th[u].f) /\ Loc(th[u].f, 0)' = Loc(th[u].f, 0)
    <3>1. PICK f : f = th[u].f /\ f = th'[u].f
      OBVIOUS
    <3>2. seqs'[f] = seqs[f] /\ Data(dev[Loc(f, 0)])' = Data(dev[Loc(f, 0)])
      BY <2>1, <2>2, <3>1 DEF SameFile
    <3>3. Loc(f, 0)' = Loc(f, 0)
      BY <3>2 DEF Loc
    <3>4. HeadSize(f)' = HeadSize(f)
      BY <3>2 DEF HeadSize
    <3>5. QED
      BY <3>1, <3>3, <3>4
  <2>4. ASSUME Extends(th[u]), th[u].at \in ExtendSteps PROVE Extends(th[u])'
    <3>1. SameTabs /\ UNCHANGED <<bitmap, clrs, seqs>>
      BY <2>4
    <3>2. Listed(th[u].c, th[u].b)' <=> Listed(th[u].c, th[u].b)
      <4>1. PICK c, b : c = th[u].c /\ b = th[u].b /\ c = th'[u].c /\ b = th'[u].b
        OBVIOUS
      <4>2. Listed(c, b)' <=> Listed(c, b)
        BY <3>1 DEF Listed
      <4>3. QED
        BY <4>1, <4>2
    <3>3. BitsBlock' = BitsBlock /\ TableBlock' = TableBlock
      BY <3>1 DEF BitsBlock, TableBlock
    <3>4. th[u].at # "find" => Tab(th[u].c)' = Tab(th[u].c)
      BY <2>4, <3>1 DEF SameTabs, Extends, Tab
    <3>5. QED
      BY <2>4, <3>1, <3>2, <3>3, <3>4 DEF Extends
  <2>5. ASSUME Writes(th[u]) PROVE Writes(th[u])'
    <3>1. th[u].n < Len(seqs[th[u].f])
      BY <2>5 DEF Writes
    <3>2. Data(dev[Loc(th[u].f, th[u].n)])' = Data(dev[Loc(th[u].f, th[u].n)])
          /\ Data(dev[Loc(th[u].f, 0)])' = Data(dev[Loc(th[u].f, 0)])
      BY <2>1, <2>2, <3>1 DEF SameFile
    <3>3. QED
      BY <2>1, <2>3, <2>5, <3>2 DEF Writes, SameFile
  <2>6. QED
    BY <2>1, <2>3, <2>4, <2>5 DEF Request
<1>3. QED
  BY <1>1, <1>2

\* The same for all threads but the one that moves.
LEMMA OtherRequests ==
  ASSUME OInv, NEW t \in Thread, NEW new, Moves(t, new), Request(th[t])',
         \A u \in Thread : u # t /\ Busy(u) => SameFile(th[u].f),
         \A u \in Thread : u # t /\ th[u].at \in ExtendSteps =>
           SameTabs /\ UNCHANGED <<bitmap, clrs, seqs>>
  PROVE  \A u \in Thread : Request(th[u])'
<1> TAKE u \in Thread
<1>1. CASE u = t
  BY <1>1
<1>2. CASE u # t
  <2>1. th'[u] = th[u]
    BY <1>2, Moved DEF OInv
  <2>2. Request(th[u]) /\ Lists
    BY DEF OInv
  <2>3. QED
    BY <1>2, <2>1, <2>2, OtherRequest
<1>3. QED
  BY <1>1, <1>2

\* The lists stay in the tables, and the tables in the lists.
LEMMA ListsKept ==
  ASSUME OInv, NEW t \in Thread, NEW new, Moves(t, new),
         Entered(t) => Entered(t)' /\ new.c = th[t].c /\ new.b = th[t].b,
         SameTabs, UNCHANGED seqs
  PROVE  Lists' /\ Covered'
<1>1. th'[t] = new /\ \A u \in Thread : u # t => th'[u] = th[u]
  BY Moved DEF OInv
<1>2. Lists'
  <2>1. Lists
    BY DEF OInv
  <2>2. \A f \in File : \A n \in 1..Len(seqs[f]) : seqs[f][n][1] \in Cluster
    <3> TAKE f \in File
    <3> TAKE n \in 1..Len(seqs[f])
    <3>1. seqs[f][n] \in Block
      BY <2>1, ElementOfSeq DEF Lists
    <3>2. QED
      BY <3>1 DEF Block
  <2>3. \A f \in File : \A n \in 1..Len(seqs[f]) : Tab(seqs[f][n][1])' = Tab(seqs[f][n][1])
    BY <2>2 DEF SameTabs, Tab
  <2>4. QED
    BY <2>1, <2>3 DEF Lists
<1>3. ASSUME NEW u \in Thread, Entered(u)
      PROVE  Entered(u)' /\ th'[u].c = th[u].c /\ th'[u].b = th[u].b
  BY <1>1, <1>3 DEF Entered
<1>4. Covered'
  <2>1. \A c, b : Listed(c, b)' <=> Listed(c, b)
    BY DEF Listed
  <2>2. SUFFICES ASSUME NEW c \in Cluster \ {0}, NEW b \in Slot, Tab(c)'[b].fid # 0
                 PROVE  Listed(c, b)' \/ \E u \in Thread : Entered(u)' /\ th'[u].c = c /\ th'[u].b = b
    BY DEF Covered
  <2>3. Tab(c)[b].fid # 0
    BY <2>2 DEF SameTabs
  <2>4. Listed(c, b) \/ \E u \in Thread : Entered(u) /\ th[u].c = c /\ th[u].b = b
    BY <2>3 DEF OInv, Covered
  <2>5. QED
    BY <1>3, <2>1, <2>4
<1>5. QED
  BY <1>2, <1>4

\* A thread that moves on, with the tables and lists as they are.
LEMMA TablesKept ==
  ASSUME OInv, NEW t \in Thread, NEW new, Moves(t, new), Stays(th[t], new),
         SameTabs, UNCHANGED <<bitmap, clrs, seqs>>,
         dev'[BitPos] = dev[BitPos], dev'[TblPos] = dev[TblPos]
  PROVE  Lists' /\ Covered' /\ Saved'
<1>1. th'[t] = new /\ \A u \in Thread : u # t => th'[u] = th[u]
  BY Moved DEF OInv
<1>2. Entered(t) => Entered(t)' /\ new.c = th[t].c /\ new.b = th[t].b
  BY <1>1 DEF Entered, Stays, ExtendSteps
<1>3. Lists' /\ Covered'
  BY <1>2, ListsKept
<1>4. \A u \in Thread : Entered(u) => th'[u].c = th[u].c
  BY <1>1, <1>2
<1>5. Saved'
  <2>1. Saved
    BY DEF OInv
  <2>2. ASSUME NEW c \in Cluster
        PROVE  \/ bitmap'[c] = 1 <=> FreeIn(Tab(c)') = {}
               \/ \E u \in Thread : th'[u].at = "update" /\ th'[u].c = c
    <3>1. Tab(c)' = Tab(c)
      BY DEF SameTabs
    <3>2. CASE bitmap[c] = 1 <=> FreeIn(Tab(c)) = {}
      BY <3>1, <3>2
    <3>3. CASE \E u \in Thread : th[u].at = "update" /\ th[u].c = c
      <4>1. PICK u \in Thread : th[u].at = "update" /\ th[u].c = c
        BY <3>3
      <4>2. th'[u].at = "update" /\ th'[u].c = c
        BY <1>1, <1>4, <4>1 DEF Stays, Entered
      <4>3. QED
        BY <4>2
    <3>4. QED
      BY <2>1, <3>2, <3>3 DEF Saved
  <2>3. dev'[BitPos] = BitsBlock' \/ \E u \in Thread : th'[u].at \in {"bits_copy", "bits_write"}
    <3>1. CASE dev[BitPos] = BitsBlock
      BY <3>1 DEF BitsBlock
    <3>2. CASE \E u \in Thread : th[u].at \in {"bits_copy", "bits_write"}
      BY <1>1, <3>2 DEF Stays
    <3>3. QED
      BY <2>1, <3>1, <3>2 DEF Saved
  <2>4. dev'[TblPos] = TableBlock' \/ \E u \in Thread : th'[u].at \in {"add_copy", "add_write"}
    <3>1. CASE dev[TblPos] = TableBlock
      BY <3>1 DEF TableBlock
    <3>2. CASE \E u \in Thread : th[u].at \in {"add_copy", "add_write"}
      BY <1>1, <3>2 DEF Stays
    <3>3. QED
      BY <2>1, <3>1, <3>2 DEF Saved
  <2>5. QED
    BY <2>2, <2>3, <2>4 DEF Saved, FreeIn
<1>6. QED
  BY <1>3, <1>5

-----------------------------------------------------------------------------
(* Steps by what they touch.                                                *)

\* A step that touches nothing but its thread and the position.
LEMMA OnlyThread ==
  ASSUME OInv, NEW t \in Thread, NEW new, Moves(t, new), Stays(th[t], new),
         UNCHANGED <<dev, bitmap, clrs, seqs>>, Request(th[t])',
         new.req # "idle" => \A u \in Thread : u # t /\ Busy(u) => th[u].f # new.f
  PROVE  OInv'
<1>1. SameTabs /\ dev'[BitPos] = dev[BitPos] /\ dev'[TblPos] = dev[TblPos]
  BY DEF SameTabs, Tab
<1>2. \A f : SameFile(f)
  BY DEF SameFile, Loc
<1>3. Shape' /\ Alone'
  BY Moved, StaysAlone DEF OInv
<1>4. Device' /\ Heads'
  BY DEF OInv, Device, Heads, HeadSize, Loc, Tab
<1>5. Lists' /\ Covered' /\ Saved'
  BY <1>1, TablesKept
<1>6. \A u \in Thread : Request(th[u])'
  BY <1>1, <1>2, OtherRequests
<1>7. QED
  BY <1>3, <1>4, <1>5, <1>6 DEF OInv

(* Block n of f is overwritten: it reads back, the others are as they were. *)
Overwrites(f, n, x) ==
  /\ n < Len(seqs[f]) /\ x \in Payloads
  /\ dev' = [dev EXCEPT ![Loc(f, n)] = x] /\ UNCHANGED <<bitmap, seqs>>
Overwritten(f, n, x) ==
  /\ Data(dev[Loc(f, n)])' = x
  /\ \A g \in File : \A m \in Nat : m < Len(seqs[g]) /\ ~(g = f /\ m = n) =>
       Data(dev[Loc(g, m)])' = Data(dev[Loc(g, m)])

\* What is left when a data block of a file is written.
LEMMA DataWritten ==
  ASSUME Device, Lists, NEW f \in File, NEW n \in Nat, NEW x, Overwrites(f, n, x)
  PROVE  /\ Device' /\ SameTabs /\ dev'[BitPos] = dev[BitPos] /\ dev'[TblPos] = dev[TblPos]
         /\ Overwritten(f, n, x)
         /\ \A g \in File : g # f => SameFile(g)
<1> SUFFICES ASSUME n < Len(seqs[f]), x \in Payloads,
                    dev' = [dev EXCEPT ![Loc(f, n)] = x], UNCHANGED <<bitmap, seqs>>
             PROVE  /\ Device' /\ SameTabs /\ dev'[BitPos] = dev[BitPos] /\ dev'[TblPos] = dev[TblPos]
                    /\ Overwritten(f, n, x)
                    /\ \A g \in File : g # f => SameFile(g)
  BY DEF Overwrites
<1> DEFINE p == seqs[f][n + 1]
<1>1. /\ p[1] \in Cluster /\ p[2] \in Slot /\ Loc(f, n) = At(p[1], p[2]) /\ Loc(f, n) \in 0..Last
  BY LocAt
<1>2. p[2] \in 0..BPC
  BY <1>1, Fronts
<1>3. dev'[Loc(f, n)] = x /\ \A q \in 0..Last : q # Loc(f, n) => dev'[q] = dev[q]
  BY <1>1 DEF Device
<1>4. Data(x) = x
  BY DEF Payloads, Data
<1> HIDE DEF p
<1>5. \A c \in Cluster : At(c, 0) \in 0..Last /\ At(c, 0) # Loc(f, n)
  BY <1>1, Fronts
<1>6. SameTabs
  BY <1>3, <1>5 DEF SameTabs, Tab
<1>7. dev'[BitPos] = dev[BitPos] /\ dev'[TblPos] = dev[TblPos]
  BY <1>1, <1>2, <1>3, Fronts
<1>8. \A g : \A m : Loc(g, m)' = Loc(g, m)
  BY DEF Loc
<1>9. ASSUME NEW g \in File, NEW m \in Nat, m < Len(seqs[g]), ~(g = f /\ m = n)
      PROVE  Data(dev[Loc(g, m)])' = Data(dev[Loc(g, m)])
  <2>1. Loc(g, m) \in 0..Last
    BY <1>9, LocAt
  <2>2. Loc(g, m) # Loc(f, n)
    BY <1>9, LocApart
  <2>3. dev'[Loc(g, m)] = dev[Loc(g, m)]
    BY <1>3, <2>1, <2>2
  <2>4. QED
    BY <1>8, <2>3 DEF Data
<1>10. Data(dev[Loc(f, n)])' = x
  BY <1>3, <1>4, <1>8 DEF Data
<1>11. Device'
  <2>1. DOMAIN dev' = 0..Last
    BY DEF Device
  <2>2. ASSUME NEW c \in Cluster, NEW b \in Slot PROVE Data(dev'[At(c, b)]) \in Payloads
    <3>1. At(c, b) \in 0..Last
      BY Fronts
    <3>2. CASE At(c, b) = Loc(f, n)
      BY <1>3, <1>4, <3>2
    <3>3. CASE At(c, b) # Loc(f, n)
      BY <1>3, <3>1, <3>3 DEF Device
    <3>4. QED
      BY <3>2, <3>3
  <2>3. \A c \in Cluster : Tab(c)' \in [Slot -> [fid : Nat, num : Nat]]
    BY <1>6 DEF Device, SameTabs
  <2>4. bitmap' \in [Cluster -> {0, 1}]
    BY DEF Device
  <2>5. QED
    BY <2>1, <2>2, <2>3, <2>4 DEF Device
<1>12. \A g \in File : g # f => SameFile(g)
  BY <1>9 DEF SameFile
<1>13. Overwritten(f, n, x)
  BY <1>9, <1>10 DEF Overwritten
<1>14. QED
  BY <1>6, <1>7, <1>11, <1>12, <1>13

\* What is overwritten reads back, the rest as before.
LEMMA OverwriteIs ==
  ASSUME OInv, NEW f \in File, NEW n \in Nat, NEW x, Overwrites(f, n, x)
  PROVE  Overwritten(f, n, x)
<1>1. Device /\ Lists
  BY DEF OInv
<1>2. QED
  BY <1>1, DataWritten

\* A step that writes a block of its own file.
LEMMA OwnBlock ==
  ASSUME OInv, NEW t \in Thread, NEW new, Moves(t, new), Stays(th[t], new), Busy(t),
         NEW n \in Nat, n < Len(seqs[th[t].f]), NEW x, x \in Payloads,
         dev' = [dev EXCEPT ![Loc(th[t].f, n)] = x], UNCHANGED <<bitmap, clrs, seqs>>,
         n = 0 => x.size <= Len(seqs[th[t].f]),
         new.f = th[t].f, Request(th[t])'
  PROVE  OInv'
<1>0. PICK f \in File : f = th[t].f
  BY DEF OInv, Request, Busy
<1>1. Device /\ Lists
  BY DEF OInv
<1>2. /\ Device' /\ SameTabs /\ dev'[BitPos] = dev[BitPos] /\ dev'[TblPos] = dev[TblPos]
      /\ Data(dev[Loc(f, n)])' = x
      /\ \A g \in File : \A m \in Nat : m < Len(seqs[g]) /\ ~(g = f /\ m = n) =>
           Data(dev[Loc(g, m)])' = Data(dev[Loc(g, m)])
      /\ \A g \in File : g # f => SameFile(g)
  <2>1. Overwrites(f, n, x)
    BY <1>0 DEF Overwrites
  <2>2. /\ Device' /\ SameTabs /\ dev'[BitPos] = dev[BitPos] /\ dev'[TblPos] = dev[TblPos]
        /\ Overwritten(f, n, x)
        /\ \A g \in File : g # f => SameFile(g)
    BY <1>1, <2>1, DataWritten
  <2>3. QED
    BY <2>2 DEF Overwritten
<1>3. \A u \in Thread : u # t /\ Busy(u) => th[u].f \in File /\ th[u].f # f
  BY <1>0 DEF OInv, Alone, Request, Busy
<1>4. Shape' /\ Alone'
  BY <1>0, <1>3, Moved, StaysAlone DEF OInv
<1>5. Lists' /\ Covered' /\ Saved'
  BY <1>2, TablesKept
<1>6. Heads'
  <2>1. SUFFICES ASSUME NEW g \in File PROVE HeadSize(g)' <= Len(seqs[g])
    BY DEF Heads
  <2>2. Len(seqs[g]) \in Nat /\ 0 < Len(seqs[g])
    BY <1>1, LenProperties DEF Lists
  <2>3. CASE g = f /\ n = 0
    BY <1>0, <1>2, <2>3 DEF HeadSize
  <2>4. CASE ~(g = f /\ n = 0)
    <3>1. Data(dev[Loc(g, 0)])' = Data(dev[Loc(g, 0)])
      BY <1>2, <2>2, <2>4
    <3>2. HeadSize(g)' = HeadSize(g)
      BY <3>1 DEF HeadSize
    <3>3. QED
      BY <3>2 DEF OInv, Heads
  <2>5. QED
    BY <2>3, <2>4
<1>7. \A u \in Thread : Request(th[u])'
  BY <1>2, <1>3, OtherRequests
<1>8. QED
  BY <1>2, <1>4, <1>5, <1>6, <1>7 DEF OInv

-----------------------------------------------------------------------------
(* Steps that touch nothing but their thread.                               *)

\* The file of a busy thread is its own.
LEMMA OwnFile ==
  ASSUME OInv, NEW t \in Thread, Busy(t)
  PROVE  th[t].f \in File /\ \A u \in Thread : u # t /\ Busy(u) => th[u].f # th[t].f
BY DEF OInv, Alone, Request, Busy

\* A thread that is at a step has a request.
LEMMA AtBusy ==
  ASSUME OInv, NEW t \in Thread, th[t].at # "idle"
  PROVE  /\ Busy(t) /\ DOMAIN th[t] = Fields /\ Request(th[t])
         /\ th[t].f \in File /\ th[t].n \in Nat
         /\ Len(seqs[th[t].f]) \in Nat /\ Len(seqs[th[t].f]) >= 1
<1>1. Busy(t) /\ DOMAIN th[t] = Fields /\ Request(th[t]) /\ th[t].f \in File /\ th[t].n \in Nat
  BY DEF OInv, Shape, Request, Busy
<1>2. QED
  BY <1>1, LenProperties DEF OInv, Lists

\* A new request: the thread was idle, and no other thread serves the same file.
LEMMA BeginOInv ==
  ASSUME OInv, NEW t \in Thread, NEW req \in {"read", "write"}, NEW f \in File, NEW n \in Nat,
         NEW v, req = "write" => v \in Pay, Begin(t, req, f, n, v)
  PROVE  OInv'
<1>1. PICK x : x = [Idle EXCEPT !.req = req, !.f = f, !.n = n, !.v = v,
                      !.at = CASE req = "read" -> "size_read"
                               [] req = "write" /\ n >= Len(seqs[f]) -> "find"
                               [] OTHER -> "pay_read"]
  OBVIOUS
<1>2. /\ DOMAIN x = Fields /\ x.req = req /\ x.f = f /\ x.n = n /\ x.v = v /\ x.got = Nothing
      /\ x.at = IF req = "read" THEN "size_read" ELSE IF n >= Len(seqs[f]) THEN "find" ELSE "pay_read"
  BY <1>1 DEF Idle, Fields
<1>3. Moves(t, x)
  BY <1>1, <1>2 DEF Begin, Moves
<1>4. th'[t] = x
  BY <1>3, Moved DEF OInv
<1>5. th[t].at = "idle"
  BY DEF Begin, OInv, Request
<1>6. Len(seqs[f]) \in Nat /\ HeadSize(f) <= Len(seqs[f])
  BY LenProperties DEF OInv, Lists, Heads
<1>7. HeadSize(f)' = HeadSize(f) /\ seqs' = seqs
  BY DEF Begin, HeadSize, Loc
<1>8. HeadSize(f) \in Nat
  <2>1. 0 < Len(seqs[f])
    BY <1>6 DEF OInv, Lists
  <2>2. seqs[f][1][1] \in Cluster /\ seqs[f][1][2] \in Slot /\ Loc(f, 0) = At(seqs[f][1][1], seqs[f][1][2])
    BY <2>1, LocAt DEF OInv
  <2>3. QED
    BY <2>2 DEF OInv, Device, Payloads, HeadSize
<1>9. Request(th[t])'
  <2>1. CASE req = "read"
    BY <1>2, <1>4, <2>1 DEF Request
  <2>2. CASE req = "write"
    <3>1. n <= HeadSize(f)
      BY <2>2 DEF Begin
    <3>2. CASE n >= Len(seqs[f])
      <4>1. x.at = "find" /\ n = Len(seqs[f])
        BY <1>2, <1>6, <1>8, <2>2, <3>1, <3>2
      <4>2. Extends(th[t])'
        BY <1>2, <1>4, <1>7, <4>1 DEF Extends
      <4>3. QED
        BY <1>2, <1>4, <1>7, <2>2, <3>1, <4>1, <4>2 DEF Request, ExtendSteps
    <3>3. CASE ~(n >= Len(seqs[f]))
      <4>1. x.at = "pay_read" /\ n < Len(seqs[f])
        BY <1>2, <1>6, <2>2, <3>3
      <4>2. Writes(th[t])'
        BY <1>2, <1>4, <1>7, <4>1 DEF Writes, HeadStep
      <4>3. QED
        BY <1>2, <1>4, <1>7, <2>2, <3>1, <4>1, <4>2 DEF Request, ExtendSteps
    <3>4. QED
      BY <3>2, <3>3
  <2>3. QED
    BY <2>1, <2>2
<1>10. Stays(th[t], x)
  BY <1>5 DEF Stays, ExtendSteps
<1>11. \A u \in Thread : u # t /\ Busy(u) => th[u].f # x.f
  BY <1>2 DEF Begin, Busy
<1>12. QED
  BY <1>3, <1>9, <1>10, <1>11, OnlyThread DEF Begin

\* A thread that moves on with its request, to a step of the same kind.
LEMMA GoesOn ==
  ASSUME OInv, NEW t \in Thread, NEW new, Moves(t, new), Stays(th[t], new), Busy(t),
         new.f = th[t].f, UNCHANGED <<dev, bitmap, clrs, seqs>>, Request(th[t])'
  PROVE  OInv'
BY OwnFile, OnlyThread

\* With no block of the device and no list changed, everything reads as before.
LEMMA ReadsSame ==
  ASSUME UNCHANGED <<dev, bitmap, clrs, seqs>>
  PROVE  /\ \A f : HeadSize(f)' = HeadSize(f)
         /\ \A f, n : Data(dev[Loc(f, n)])' = Data(dev[Loc(f, n)]) /\ Loc(f, n)' = Loc(f, n)
         /\ \A c : Tab(c)' = Tab(c)
         /\ \A c, b : Listed(c, b)' <=> Listed(c, b)
         /\ BitsBlock' = BitsBlock /\ TableBlock' = TableBlock
BY DEF HeadSize, Loc, Tab, Listed, BitsBlock, TableBlock, Data

\* fseek moves the position only.
LEMMA SeekOInv ==
  ASSUME OInv, NEW t \in Thread, Seek(t)
  PROVE  OInv'
<1>0. th[t].at # "idle"
  BY DEF Seek, DevStep, CtabStep, DataStep, HeadStep
<1>1. PICK x : x = [th[t] EXCEPT !.sought = TRUE]
  OBVIOUS
<1>2. /\ DOMAIN x = Fields /\ x.req = th[t].req /\ x.f = th[t].f /\ x.n = th[t].n /\ x.v = th[t].v
      /\ x.at = th[t].at /\ x.c = th[t].c /\ x.b = th[t].b /\ x.bl = th[t].bl /\ x.buf = th[t].buf
      /\ x.size = th[t].size /\ x.got = th[t].got
  BY <1>0, <1>1, AtBusy DEF Fields
<1>3. Moves(t, x)
  BY <1>1, <1>2, <1>0, AtBusy DEF Seek, Moves, Fields, OInv, Shape
<1>4. th'[t] = x
  BY <1>3, Moved DEF OInv
<1>5. UNCHANGED <<dev, bitmap, clrs, seqs>>
  BY DEF Seek
<1>6. Request(th[t])'
  <2>1. Request(th[t])
    BY DEF OInv
  <2>2. Extends(th[t]) => Extends(th[t])'
    BY <1>2, <1>4, <1>5, ReadsSame DEF Extends
  <2>3. Writes(th[t]) => Writes(th[t])'
    BY <1>2, <1>4, <1>5, ReadsSame DEF Writes
  <2>4. QED
    BY <1>2, <1>4, <1>5, <2>1, <2>2, <2>3, ReadsSame DEF Request
<1>7. Stays(th[t], x)
  BY <1>2 DEF Stays
<1>8. QED
  BY <1>0, <1>2, <1>3, <1>5, <1>6, <1>7, AtBusy, GoesOn

\* An answer given leaves the thread idle.
LEMMA EndOInv ==
  ASSUME OInv, NEW t \in Thread, End(t)
  PROVE  OInv'
<1>1. PICK x : x = Idle
  OBVIOUS
<1>2. DOMAIN x = Fields /\ x.req = "idle" /\ x.at = "idle"
  BY <1>1 DEF Idle, Fields
<1>3. Moves(t, x)
  BY <1>1, <1>2 DEF End, Moves
<1>4. Request(th[t])'
  BY <1>2, <1>3, Moved DEF OInv, Request
<1>5. Stays(th[t], x)
  BY DEF Stays, End, ExtendSteps
<1>6. QED
  BY <1>2, <1>3, <1>4, <1>5, OnlyThread DEF End

\* The search proposes a cluster the bitmap calls free.
LEMMA FindOInv ==
  ASSUME OInv, NEW t \in Thread, Find(t)
  PROVE  OInv'
<1>0. th[t].at # "idle" /\ th[t].at = "find"
  BY DEF Find
<1>1. PICK c : c = Least(FreeClusters(bitmap))
  OBVIOUS
<1>2. c \in Cluster \ {0}
  <2>1. FreeClusters(bitmap) \subseteq Cluster /\ 0 \notin FreeClusters(bitmap)
    BY FreeIsCluster
  <2>2. IsFiniteSet(FreeClusters(bitmap)) /\ FreeClusters(bitmap) \in SUBSET Int
    BY <2>1, FiniteVolume, FS_Subset, ThreadSizes
  <2>3. Least(FreeClusters(bitmap)) \in FreeClusters(bitmap)
    BY <2>2, LeastExists DEF Find
  <2>4. QED
    BY <1>1, <2>1, <2>3
<1>3. PICK x : x = [th[t] EXCEPT !.at = "free_read", !.c = c]
  OBVIOUS
<1>4. /\ DOMAIN x = Fields /\ x.req = th[t].req /\ x.f = th[t].f /\ x.n = th[t].n /\ x.v = th[t].v
      /\ x.at = "free_read" /\ x.c = c /\ x.got = th[t].got
  BY <1>0, <1>3, AtBusy DEF Fields
<1>5. Moves(t, x)
  BY <1>1, <1>3, <1>4, <1>0, AtBusy DEF Find, Moves, Fields, OInv, Shape
<1>6. th'[t] = x
  BY <1>5, Moved DEF OInv
<1>7. UNCHANGED <<dev, bitmap, clrs, seqs>>
  BY DEF Find
<1>8. Request(th[t])'
  <2>1. Request(th[t])
    BY DEF OInv
  <2>2. Extends(th[t]) => Extends(th[t])'
    BY <1>2, <1>4, <1>6, <1>7 DEF Extends
  <2>3. QED
    BY <1>0, <1>4, <1>6, <1>7, <2>1, <2>2, ReadsSame DEF Request, ExtendSteps
<1>9. Stays(th[t], x)
  BY <1>0 DEF Stays, ExtendSteps
<1>10. QED
  BY <1>0, <1>4, <1>5, <1>7, <1>8, <1>9, AtBusy, GoesOn

\* What is left of the thread by a transfer that reads.
LEMMA ReadMoves ==
  ASSUME OInv, NEW t \in Thread, NEW at, NEW new, Fread(t, at, new), DOMAIN new = Fields, BlockAsked
  PROVE  \E x : /\ Moves(t, x) /\ th'[t] = x /\ pos = Target(t) /\ th[t].at = at
                /\ UNCHANGED <<dev, bitmap, clrs, seqs>>
                /\ x.req = new.req /\ x.f = new.f /\ x.n = new.n /\ x.v = new.v
                /\ x.at = new.at /\ x.c = new.c /\ x.b = new.b /\ x.bl = new.bl /\ x.buf = new.buf
                /\ x.size = new.size /\ x.got = new.got
<1>1. PICK x : x = [new EXCEPT !.sought = FALSE]
  OBVIOUS
<1>2. /\ DOMAIN x = Fields
      /\ x.req = new.req /\ x.f = new.f /\ x.n = new.n /\ x.v = new.v
      /\ x.at = new.at /\ x.c = new.c /\ x.b = new.b /\ x.bl = new.bl /\ x.buf = new.buf
      /\ x.size = new.size /\ x.got = new.got
  BY <1>1 DEF Fields
<1>3. Moves(t, x)
  BY <1>1, <1>2 DEF Fread, Moves
<1>4. th'[t] = x
  BY <1>3, Moved DEF OInv
<1>5. pos = Target(t) /\ th[t].at = at /\ UNCHANGED <<dev, bitmap, clrs, seqs>>
  BY DEF Fread, Transfer, BlockAsked
<1>6. QED
  BY <1>2, <1>3, <1>4, <1>5

\* Where each step wants the position.
LEMMA TargetIs ==
  ASSUME NEW t \in Thread
  PROVE  /\ th[t].at \in CtabStep => Target(t) = At(th[t].c, 0)
         /\ th[t].at \in DataStep => Target(t) = Loc(th[t].f, th[t].n)
         /\ th[t].at \in HeadStep => Target(t) = Loc(th[t].f, 0)
         /\ th[t].at = "bits_write" => Target(t) = BitPos
         /\ th[t].at \in {"add_write", "table_write"} => Target(t) = TblPos
BY DEF Target, CtabStep, DataStep, HeadStep

\* The table that dev_free_blocks reads is that of the cluster it found.
LEMMA ReadFreeOInv ==
  ASSUME OInv, Orderly, NEW t \in Thread, ReadFree(t)
  PROVE  OInv'
<1>0. th[t].at # "idle" /\ th[t].at = "free_read"
  BY DEF ReadFree, Fread, Transfer
<1>1. PICK y : y = IF FreeIn(dev_read_ctable(dev[pos])) = {}
                   THEN [th[t] EXCEPT !.at = "find"]
                   ELSE [th[t] EXCEPT !.at = "take_read", !.b = Least(FreeIn(dev_read_ctable(dev[pos])))]
  OBVIOUS
<1>2. /\ DOMAIN y = Fields /\ y.req = th[t].req /\ y.f = th[t].f /\ y.n = th[t].n /\ y.v = th[t].v
      /\ y.got = th[t].got /\ y.c = th[t].c
      /\ y.at = IF FreeIn(dev_read_ctable(dev[pos])) = {} THEN "find" ELSE "take_read"
      /\ FreeIn(dev_read_ctable(dev[pos])) # {} => y.b = Least(FreeIn(dev_read_ctable(dev[pos])))
  BY <1>0, <1>1, AtBusy DEF Fields
<1>3. Fread(t, "free_read", y)
  BY <1>1 DEF ReadFree
<1>4. PICK x : /\ Moves(t, x) /\ th'[t] = x /\ pos = Target(t) /\ UNCHANGED <<dev, bitmap, clrs, seqs>>
               /\ x.req = y.req /\ x.f = y.f /\ x.n = y.n /\ x.v = y.v
               /\ x.at = y.at /\ x.c = y.c /\ x.b = y.b /\ x.got = y.got
  BY <1>2, <1>3, ReadMoves DEF Orderly
<1>5. Request(th[t]) /\ Extends(th[t]) /\ th[t].req = "write"
  BY <1>0 DEF OInv, Request, ExtendSteps
<1>6. th[t].c \in Cluster \ {0} /\ pos = At(th[t].c, 0)
  BY <1>0, <1>4, <1>5, TargetIs DEF Extends, CtabStep
<1>7. dev_read_ctable(dev[pos]) = Tab(th[t].c)
  BY <1>6 DEF Tab
<1>8. FreeIn(Tab(th[t].c)) # {} => y.b \in FreeIn(Tab(th[t].c))
  <2>1. FreeIn(Tab(th[t].c)) \in SUBSET Int /\ IsFiniteSet(FreeIn(Tab(th[t].c)))
    BY FiniteVolume, FS_Subset, ThreadSizes DEF FreeIn
  <2>2. QED
    BY <1>2, <1>7, <2>1, LeastExists
<1>9. Request(th[t])'
  <2>1. Extends(th[t])'
    <3>1. CASE y.at = "find"
      BY <1>2, <1>4, <1>5, <3>1 DEF Extends
    <3>2. CASE y.at = "take_read"
      <4>1. y.b \in FreeIn(Tab(th[t].c))
        BY <1>2, <1>7, <1>8, <3>2
      <4>2. y.b \in Slot /\ Tab(th[t].c)[y.b].fid = 0
        BY <4>1 DEF FreeIn
      <4>3. Tab(th[t].c)' = Tab(th[t].c)
        BY <1>2, <1>4, ReadsSame DEF Tab
      <4>4. QED
        BY <1>0, <1>2, <1>4, <1>5, <1>6, <3>2, <4>2, <4>3 DEF Extends
    <3>3. QED
      BY <1>2, <3>1, <3>2
  <2>2. QED
    BY <1>2, <1>4, <1>5, <2>1, ReadsSame DEF Request, ExtendSteps
<1>10. Stays(th[t], x)
  BY <1>0 DEF Stays, ExtendSteps
<1>11. QED
  BY <1>0, <1>2, <1>4, <1>9, <1>10, AtBusy, GoesOn

\* The cluster's table is read, and the file entered in the copy.
LEMMA ReadTakeOInv ==
  ASSUME OInv, Orderly, NEW t \in Thread, ReadTake(t)
  PROVE  OInv'
<1>0. th[t].at # "idle" /\ th[t].at = "take_read"
  BY DEF ReadTake, Fread, Transfer
<1>1. PICK bl : bl = [dev_read_ctable(dev[pos]) EXCEPT
                        ![th[t].b] = [fid |-> th[t].f, num |-> Len(seqs[th[t].f])]]
  OBVIOUS
<1>2. PICK y : y = [th[t] EXCEPT !.at = "take_write", !.bl = bl]
  OBVIOUS
<1>3. /\ DOMAIN y = Fields /\ y.req = th[t].req /\ y.f = th[t].f /\ y.n = th[t].n /\ y.v = th[t].v
      /\ y.got = th[t].got /\ y.c = th[t].c /\ y.b = th[t].b /\ y.at = "take_write" /\ y.bl = bl
  BY <1>0, <1>2, AtBusy DEF Fields
<1>4. Fread(t, "take_read", y)
  BY <1>1, <1>2 DEF ReadTake
<1>5. PICK x : /\ Moves(t, x) /\ th'[t] = x /\ pos = Target(t) /\ UNCHANGED <<dev, bitmap, clrs, seqs>>
               /\ x.req = y.req /\ x.f = y.f /\ x.n = y.n /\ x.v = y.v
               /\ x.at = y.at /\ x.c = y.c /\ x.b = y.b /\ x.bl = y.bl /\ x.got = y.got
  BY <1>3, <1>4, ReadMoves DEF Orderly
<1>6. Request(th[t]) /\ Extends(th[t]) /\ th[t].req = "write"
  BY <1>0 DEF OInv, Request, ExtendSteps
<1>7. pos = At(th[t].c, 0)
  BY <1>0, <1>5, TargetIs DEF CtabStep
<1>8. bl = [Tab(th[t].c) EXCEPT ![th[t].b] = Entry(th[t].f, th[t].n)]
  BY <1>1, <1>6, <1>7 DEF Tab, Entry, Extends
<1>9. Request(th[t])'
  <2>1. Tab(th[t].c)' = Tab(th[t].c)
    BY <1>3, <1>5, ReadsSame DEF Tab
  <2>2. Extends(th[t])'
    BY <1>0, <1>3, <1>5, <1>6, <1>8, <2>1 DEF Extends
  <2>3. QED
    BY <1>3, <1>5, <1>6, <2>2, ReadsSame DEF Request, ExtendSteps
<1>10. Stays(th[t], x)
  BY <1>0 DEF Stays, ExtendSteps
<1>11. QED
  BY <1>0, <1>3, <1>5, <1>9, <1>10, AtBusy, GoesOn

\* The data block is read before it is written.
LEMMA ReadPayOInv ==
  ASSUME OInv, Orderly, NEW t \in Thread, ReadPay(t)
  PROVE  OInv'
<1>0. th[t].at # "idle" /\ th[t].at = "pay_read"
  BY DEF ReadPay, Fread, Transfer
<1>1. PICK y : y = [th[t] EXCEPT !.at = "pay_write", !.buf = Data(dev[pos])]
  OBVIOUS
<1>2. /\ DOMAIN y = Fields /\ y.req = th[t].req /\ y.f = th[t].f /\ y.n = th[t].n /\ y.v = th[t].v
      /\ y.got = th[t].got /\ y.at = "pay_write" /\ y.buf = Data(dev[pos])
  BY <1>0, <1>1, AtBusy DEF Fields
<1>3. Fread(t, "pay_read", y)
  BY <1>1 DEF ReadPay
<1>4. PICK x : /\ Moves(t, x) /\ th'[t] = x /\ pos = Target(t) /\ UNCHANGED <<dev, bitmap, clrs, seqs>>
               /\ x.req = y.req /\ x.f = y.f /\ x.n = y.n /\ x.v = y.v
               /\ x.at = y.at /\ x.buf = y.buf /\ x.got = y.got
  BY <1>2, <1>3, ReadMoves DEF Orderly
<1>5. Request(th[t]) /\ Writes(th[t]) /\ th[t].req = "write"
  BY <1>0 DEF OInv, Request, ExtendSteps
<1>6. pos = Loc(th[t].f, th[t].n)
  BY <1>0, <1>4, TargetIs DEF DataStep
<1>7. Writes(th[t])'
  <2>1. Data(dev[Loc(th[t].f, th[t].n)])' = Data(dev[pos])
    <3>1. PICK g, m : g = th[t].f /\ m = th[t].n /\ g = th'[t].f /\ m = th'[t].n
      BY <1>2, <1>4
    <3>2. Data(dev[Loc(g, m)])' = Data(dev[Loc(g, m)])
      BY <1>4, ReadsSame
    <3>3. QED
      BY <1>6, <3>1, <3>2
  <2>2. QED
    BY <1>2, <1>4, <1>5, <2>1 DEF Writes, HeadStep
<1>8. Request(th[t])'
  BY <1>2, <1>4, <1>5, <1>7, ReadsSame DEF Request, ExtendSteps
<1>9. Stays(th[t], x)
  BY <1>0 DEF Stays, ExtendSteps
<1>10. QED
  BY <1>0, <1>2, <1>4, <1>8, <1>9, AtBusy, GoesOn

\* The head of the file is read for its size.
LEMMA ReadSizeOInv ==
  ASSUME OInv, Orderly, NEW t \in Thread, ReadSize(t)
  PROVE  OInv'
<1>0. th[t].at # "idle" /\ th[t].at = "size_read"
  BY DEF ReadSize, Fread, Transfer
<1>1. PICK sz : sz = Data(dev[pos]).size
  OBVIOUS
<1>2. PICK at : at = IF th[t].req = "write" THEN "head_read"
                     ELSE IF th[t].req = "read" /\ th[t].n < sz THEN "data_read" ELSE "answer"
  OBVIOUS
<1>3. PICK y : y = [th[t] EXCEPT !.size = sz, !.at = at]
  OBVIOUS
<1>4. /\ DOMAIN y = Fields /\ y.req = th[t].req /\ y.f = th[t].f /\ y.n = th[t].n /\ y.v = th[t].v
      /\ y.got = th[t].got /\ y.at = at /\ y.size = sz
  BY <1>0, <1>3, AtBusy DEF Fields
<1>5. Fread(t, "size_read", y)
  <2>1. at = CASE th[t].req = "write" -> "head_read"
               [] th[t].req = "read" /\ th[t].n < sz -> "data_read"
               [] OTHER -> "answer"
    BY <1>2
  <2>2. QED
    BY <1>1, <1>3, <2>1, Zenon DEF ReadSize
<1>6. PICK x : /\ Moves(t, x) /\ th'[t] = x /\ pos = Target(t) /\ UNCHANGED <<dev, bitmap, clrs, seqs>>
               /\ x.req = y.req /\ x.f = y.f /\ x.n = y.n /\ x.v = y.v
               /\ x.at = y.at /\ x.size = y.size /\ x.got = y.got
  BY <1>4, <1>5, ReadMoves DEF Orderly
<1>7. Request(th[t])
  BY DEF OInv
<1>8. pos = Loc(th[t].f, 0) /\ sz = HeadSize(th[t].f)
  BY <1>0, <1>1, <1>6, TargetIs DEF HeadStep, HeadSize
<1>9. Request(th[t])'
  <2>1. HeadSize(th[t].f)' = HeadSize(th[t].f) /\ th'[t].f = th[t].f
    BY <1>4, <1>6, ReadsSame DEF HeadSize
  <2>2. CASE th[t].req = "read"
    BY <1>0, <1>2, <1>4, <1>6, <1>7, <1>8, <2>1, <2>2 DEF Request
  <2>3. CASE th[t].req = "write"
    <3>1. Writes(th[t]) /\ at = "head_read"
      BY <1>0, <1>2, <1>7, <2>3 DEF Request, ExtendSteps
    <3>2. Data(dev[Loc(th[t].f, th[t].n)])' = Data(dev[Loc(th[t].f, th[t].n)])
      BY <1>4, <1>6, ReadsSame DEF Data, Loc
    <3>3. Writes(th[t])'
      BY <1>0, <1>4, <1>6, <1>8, <2>1, <3>1, <3>2 DEF Writes, HeadStep
    <3>4. QED
      BY <1>0, <1>4, <1>6, <1>7, <2>1, <2>3, <3>1, <3>3 DEF Request, ExtendSteps, HeadStep
  <2>4. QED
    BY <1>0, <1>7, <2>2, <2>3 DEF Request
<1>10. Stays(th[t], x)
  BY <1>0 DEF Stays, ExtendSteps
<1>11. QED
  BY <1>0, <1>4, <1>6, <1>9, <1>10, AtBusy, GoesOn

\* The head of the file is read again, to be written with its size.
LEMMA ReadHeadOInv ==
  ASSUME OInv, Orderly, NEW t \in Thread, ReadHead(t)
  PROVE  OInv'
<1>0. th[t].at # "idle" /\ th[t].at = "head_read"
  BY DEF ReadHead, Fread, Transfer
<1>1. PICK y : y = [th[t] EXCEPT !.at = "head_write", !.buf = Data(dev[pos])]
  OBVIOUS
<1>2. /\ DOMAIN y = Fields /\ y.req = th[t].req /\ y.f = th[t].f /\ y.n = th[t].n /\ y.v = th[t].v
      /\ y.got = th[t].got /\ y.at = "head_write" /\ y.buf = Data(dev[pos]) /\ y.size = th[t].size
  BY <1>0, <1>1, AtBusy DEF Fields
<1>3. Fread(t, "head_read", y)
  BY <1>1 DEF ReadHead
<1>4. PICK x : /\ Moves(t, x) /\ th'[t] = x /\ pos = Target(t) /\ UNCHANGED <<dev, bitmap, clrs, seqs>>
               /\ x.req = y.req /\ x.f = y.f /\ x.n = y.n /\ x.v = y.v
               /\ x.at = y.at /\ x.buf = y.buf /\ x.size = y.size /\ x.got = y.got
  BY <1>2, <1>3, ReadMoves DEF Orderly
<1>5. Request(th[t]) /\ Writes(th[t]) /\ th[t].req = "write"
  BY <1>0 DEF OInv, Request, ExtendSteps
<1>6. pos = Loc(th[t].f, 0)
  BY <1>0, <1>4, TargetIs DEF HeadStep
<1>7. Writes(th[t])'
  <2>1. /\ Data(dev[Loc(th[t].f, 0)])' = Data(dev[pos])
        /\ Data(dev[Loc(th[t].f, th[t].n)])' = Data(dev[Loc(th[t].f, th[t].n)])
        /\ HeadSize(th[t].f)' = HeadSize(th[t].f) /\ th'[t].f = th[t].f
    <3>1. PICK g, m : g = th[t].f /\ m = th[t].n /\ g = th'[t].f /\ m = th'[t].n
      BY <1>2, <1>4
    <3>2. /\ Data(dev[Loc(g, 0)])' = Data(dev[Loc(g, 0)]) /\ Data(dev[Loc(g, m)])' = Data(dev[Loc(g, m)])
          /\ HeadSize(g)' = HeadSize(g)
      BY <1>4, ReadsSame
    <3>3. QED
      BY <1>6, <3>1, <3>2
  <2>2. QED
    BY <1>0, <1>2, <1>4, <1>5, <2>1 DEF Writes, HeadStep
<1>8. Request(th[t])'
  BY <1>2, <1>4, <1>5, <1>7, ReadsSame DEF Request, ExtendSteps, HeadStep
<1>9. Stays(th[t], x)
  BY <1>0 DEF Stays, ExtendSteps
<1>10. QED
  BY <1>0, <1>2, <1>4, <1>8, <1>9, AtBusy, GoesOn

\* The data block is read for the answer.
LEMMA ReadDataOInv ==
  ASSUME OInv, Orderly, NEW t \in Thread, ReadData(t)
  PROVE  OInv'
<1>0. th[t].at # "idle" /\ th[t].at = "data_read"
  BY DEF ReadData, Fread, Transfer
<1>1. PICK y : y = [th[t] EXCEPT !.at = "answer", !.got = Data(dev[pos]).pay]
  OBVIOUS
<1>2. DOMAIN y = Fields /\ y.req = th[t].req /\ y.f = th[t].f /\ y.n = th[t].n /\ y.at = "answer"
  BY <1>0, <1>1, AtBusy DEF Fields
<1>3. Fread(t, "data_read", y)
  BY <1>1 DEF ReadData
<1>4. PICK x : /\ Moves(t, x) /\ th'[t] = x /\ UNCHANGED <<dev, bitmap, clrs, seqs>>
               /\ x.req = y.req /\ x.f = y.f /\ x.n = y.n /\ x.at = y.at
  BY <1>2, <1>3, ReadMoves DEF Orderly
<1>5. Request(th[t]) /\ th[t].req = "read"
  BY <1>0 DEF OInv, Request, ExtendSteps, HeadStep
<1>6. Request(th[t])'
  BY <1>2, <1>4, <1>5 DEF Request
<1>7. Stays(th[t], x)
  BY <1>0 DEF Stays, ExtendSteps
<1>8. QED
  BY <1>0, <1>2, <1>4, <1>6, <1>7, AtBusy, GoesOn

\* The block of the bitmap that is about to be written is what the bitmap holds.
LEMMA CopyBitsOInv ==
  ASSUME OInv, NEW t \in Thread, CopyBits(t)
  PROVE  OInv'
<1>0. th[t].at # "idle" /\ th[t].at = "bits_copy"
  BY DEF CopyBits
<1>1. PICK x : x = [th[t] EXCEPT !.at = "bits_write", !.buf = BitsBlock]
  OBVIOUS
<1>2. /\ DOMAIN x = Fields /\ x.req = th[t].req /\ x.f = th[t].f /\ x.n = th[t].n /\ x.v = th[t].v
      /\ x.c = th[t].c /\ x.b = th[t].b /\ x.at = "bits_write" /\ x.buf = BitsBlock /\ x.got = th[t].got
  BY <1>0, <1>1, AtBusy DEF Fields
<1>3. Moves(t, x)
  BY <1>0, <1>1, <1>2, AtBusy DEF CopyBits, Moves, BitsBlock, Fields, OInv, Shape
<1>4. th'[t] = x /\ UNCHANGED <<dev, bitmap, clrs, seqs>>
  BY <1>3, Moved DEF OInv, CopyBits
<1>5. Request(th[t]) /\ Extends(th[t]) /\ th[t].req = "write"
  BY <1>0 DEF OInv, Request, ExtendSteps
<1>6. Extends(th[t])'
  <2>1. Tab(th[t].c)' = Tab(th[t].c) /\ (Listed(th[t].c, th[t].b)' <=> Listed(th[t].c, th[t].b))
        /\ BitsBlock' = BitsBlock
    BY <1>2, <1>4, ReadsSame DEF Tab, Listed
  <2>2. QED
    BY <1>0, <1>2, <1>4, <1>5, <2>1 DEF Extends
<1>7. Request(th[t])'
  BY <1>2, <1>4, <1>5, <1>6, ReadsSame DEF Request, ExtendSteps
<1>8. Stays(th[t], x)
  BY <1>0, <1>2 DEF Stays, ExtendSteps
<1>9. QED
  BY <1>0, <1>2, <1>3, <1>4, <1>7, <1>8, AtBusy, GoesOn

\* So is the block of the cluster table.
LEMMA CopyTableOInv ==
  ASSUME OInv, NEW t \in Thread, CopyTable(t)
  PROVE  OInv'
<1>0. th[t].at # "idle" /\ th[t].at \in {"add_copy", "table_copy"}
  BY DEF CopyTable
<1>1. PICK x : x = [th[t] EXCEPT !.at = IF @ = "add_copy" THEN "add_write" ELSE "table_write",
                                 !.buf = TableBlock]
  OBVIOUS
<1>2. /\ DOMAIN x = Fields /\ x.req = th[t].req /\ x.f = th[t].f /\ x.n = th[t].n /\ x.v = th[t].v
      /\ x.c = th[t].c /\ x.b = th[t].b /\ x.buf = TableBlock /\ x.got = th[t].got
      /\ x.at = IF th[t].at = "add_copy" THEN "add_write" ELSE "table_write"
  BY <1>0, <1>1, AtBusy DEF Fields
<1>3. Moves(t, x)
  BY <1>0, <1>1, <1>2, AtBusy DEF CopyTable, Moves, TableBlock, Fields, OInv, Shape
<1>4. th'[t] = x /\ UNCHANGED <<dev, bitmap, clrs, seqs>>
  BY <1>3, Moved DEF OInv, CopyTable
<1>5. Request(th[t]) /\ Extends(th[t]) /\ th[t].req = "write"
  BY <1>0 DEF OInv, Request, ExtendSteps
<1>6. Extends(th[t])'
  <2>1. Tab(th[t].c)' = Tab(th[t].c) /\ (Listed(th[t].c, th[t].b)' <=> Listed(th[t].c, th[t].b))
        /\ TableBlock' = TableBlock
    BY <1>2, <1>4, ReadsSame DEF Tab, Listed
  <2>2. QED
    BY <1>0, <1>2, <1>4, <1>5, <2>1 DEF Extends
<1>7. Request(th[t])'
  BY <1>2, <1>4, <1>5, <1>6, ReadsSame DEF Request, ExtendSteps
<1>8. Stays(th[t], x)
  BY <1>0, <1>2 DEF Stays, ExtendSteps
<1>9. QED
  BY <1>0, <1>2, <1>3, <1>4, <1>7, <1>8, AtBusy, GoesOn

-----------------------------------------------------------------------------
(* Steps that write a block of a file, or extend a list.                    *)

\* What is left of the thread by Goto.
LEMMA GotoMoves ==
  ASSUME OInv, NEW t \in Thread, NEW at, Goto(t, at)
  PROVE  \E x : /\ Moves(t, x) /\ th'[t] = x /\ x.at = at
                /\ x.req = th[t].req /\ x.f = th[t].f /\ x.n = th[t].n /\ x.v = th[t].v
                /\ x.c = th[t].c /\ x.b = th[t].b /\ x.bl = th[t].bl /\ x.buf = th[t].buf
                /\ x.size = th[t].size /\ x.got = th[t].got
<1>1. PICK x : x = [th[t] EXCEPT !.at = at, !.sought = FALSE]
  OBVIOUS
<1>2. /\ DOMAIN x = Fields /\ x.at = at
      /\ x.req = th[t].req /\ x.f = th[t].f /\ x.n = th[t].n /\ x.v = th[t].v
      /\ x.c = th[t].c /\ x.b = th[t].b /\ x.bl = th[t].bl /\ x.buf = th[t].buf
      /\ x.size = th[t].size /\ x.got = th[t].got
  BY <1>1 DEF Fields, OInv, Shape
<1>3. Moves(t, x)
  BY <1>1, <1>2 DEF Goto, Moves, OInv, Shape, Fields
<1>4. QED
  BY <1>2, <1>3, Moved DEF OInv

\* What a transfer that writes does.
LEMMA WriteMoves ==
  ASSUME OInv, NEW t \in Thread, NEW at, NEW x, NEW then, Fwrite(t, at, x, then), BlockAsked
  PROVE  /\ dev' = [dev EXCEPT ![Target(t)] = x] /\ UNCHANGED <<bitmap, clrs, seqs>>
         /\ th[t].at = at /\ Goto(t, then)
BY DEF Fwrite, Transfer, BlockAsked

\* The payload replaces that of one block, and the size in it stays.
LEMMA WritePayOInv ==
  ASSUME OInv, Orderly, NEW t \in Thread, WritePay(t)
  PROVE  OInv'
<1>0. th[t].at # "idle" /\ th[t].at = "pay_write"
  BY DEF WritePay, Fwrite, Transfer
<1>1. PICK y : y = [th[t].buf EXCEPT !.pay = th[t].v]
  OBVIOUS
<1>2. dev' = [dev EXCEPT ![Target(t)] = y] /\ UNCHANGED <<bitmap, clrs, seqs>> /\ Goto(t, "size_read")
  BY <1>1, WriteMoves DEF WritePay, Orderly
<1>3. PICK x : /\ Moves(t, x) /\ th'[t] = x /\ x.at = "size_read"
               /\ x.req = th[t].req /\ x.f = th[t].f /\ x.n = th[t].n /\ x.v = th[t].v /\ x.got = th[t].got
  BY <1>2, GotoMoves
<1>4. Request(th[t]) /\ Writes(th[t]) /\ th[t].req = "write"
  BY <1>0 DEF OInv, Request, ExtendSteps
<1>5. PICK f \in File, n \in Nat : f = th[t].f /\ n = th[t].n /\ n < Len(seqs[f])
  BY <1>0, <1>4, AtBusy DEF Writes
<1>6. Target(t) = Loc(f, n)
  BY <1>0, <1>5, TargetIs DEF DataStep
<1>7. th[t].buf \in Payloads /\ th[t].buf = Data(dev[Loc(f, n)])
  <2>1. seqs[f][n + 1][1] \in Cluster /\ seqs[f][n + 1][2] \in Slot
        /\ Loc(f, n) = At(seqs[f][n + 1][1], seqs[f][n + 1][2])
    BY <1>5, LocAt DEF OInv
  <2>2. QED
    BY <1>0, <1>4, <1>5, <2>1, ZenonT(30) DEF Writes, OInv, Device
<1>8. y \in Payloads /\ y.size = th[t].buf.size /\ y.pay = th[t].v
  BY <1>1, <1>4, <1>7 DEF Payloads, Request
<1>9. /\ Data(dev[Loc(f, n)])' = y
      /\ \A g \in File : \A m \in Nat : m < Len(seqs[g]) /\ ~(g = f /\ m = n) =>
           Data(dev[Loc(g, m)])' = Data(dev[Loc(g, m)])
  <2>1. Overwrites(f, n, y)
    BY <1>2, <1>5, <1>6, <1>8 DEF Overwrites
  <2>2. Overwritten(f, n, y)
    BY <2>1, OverwriteIs
  <2>3. QED
    BY <2>2 DEF Overwritten
<1>10. Len(seqs[f]) \in Nat /\ 0 < Len(seqs[f])
  BY <1>0, <1>5, AtBusy
<1>11. HeadSize(f)' = HeadSize(f)
  <2>1. CASE n = 0
    BY <1>7, <1>8, <1>9, <2>1 DEF HeadSize
  <2>2. CASE n # 0
    BY <1>9, <1>10, <2>2 DEF HeadSize
  <2>3. QED
    BY <2>1, <2>2
<1>12. Writes(th[t])'
  BY <1>2, <1>3, <1>4, <1>5, <1>8, <1>9, Zenon DEF Writes
<1>13. Request(th[t])'
  BY <1>2, <1>3, <1>4, <1>5, <1>11, <1>12 DEF Request, ExtendSteps, HeadStep
<1>14. n = 0 => y.size <= Len(seqs[f])
  BY <1>7, <1>8 DEF OInv, Heads, HeadSize
<1>15. Stays(th[t], x)
  BY <1>0 DEF Stays, ExtendSteps
<1>16. QED
  BY <1>0, <1>2, <1>3, <1>5, <1>6, <1>8, <1>13, <1>14, <1>15, AtBusy, OwnBlock

\* The size grows by one block when the block written was the next one.
LEMMA WriteHeadOInv ==
  ASSUME OInv, Orderly, NEW t \in Thread, WriteHead(t)
  PROVE  OInv'
<1>0. th[t].at # "idle" /\ th[t].at = "head_write"
  BY DEF WriteHead, Fwrite, Transfer
<1>1. PICK sz : sz = IF th[t].size < th[t].n + 1 THEN th[t].n + 1 ELSE th[t].size
  OBVIOUS
<1>2. PICK y : y = [th[t].buf EXCEPT !.size = sz]
  OBVIOUS
<1>3. dev' = [dev EXCEPT ![Target(t)] = y] /\ UNCHANGED <<bitmap, clrs, seqs>> /\ Goto(t, "answer")
  BY <1>1, <1>2, WriteMoves DEF WriteHead, Orderly
<1>4. PICK x : /\ Moves(t, x) /\ th'[t] = x /\ x.at = "answer"
               /\ x.req = th[t].req /\ x.f = th[t].f /\ x.n = th[t].n /\ x.v = th[t].v /\ x.got = th[t].got
  BY <1>3, GotoMoves
<1>5. Request(th[t]) /\ Writes(th[t]) /\ th[t].req = "write"
  BY <1>0 DEF OInv, Request, ExtendSteps, HeadStep
<1>6. PICK f \in File, n \in Nat : f = th[t].f /\ n = th[t].n /\ n < Len(seqs[f])
  BY <1>0, <1>5, AtBusy DEF Writes
<1>7. Target(t) = Loc(f, 0)
  BY <1>0, <1>6, TargetIs DEF HeadStep
<1>8. Len(seqs[f]) \in Nat /\ 0 < Len(seqs[f])
  BY <1>0, <1>6, AtBusy
<1>9. th[t].buf \in Payloads /\ th[t].buf = Data(dev[Loc(f, 0)]) /\ th[t].size = HeadSize(f)
  <2>1. seqs[f][0 + 1][1] \in Cluster /\ seqs[f][0 + 1][2] \in Slot
        /\ Loc(f, 0) = At(seqs[f][0 + 1][1], seqs[f][0 + 1][2])
    BY <1>8, LocAt DEF OInv
  <2>2. QED
    BY <1>0, <1>5, <1>6, <2>1 DEF Writes, OInv, Device
<1>10. th[t].size \in Nat /\ HeadSize(f) <= Len(seqs[f])
  BY <1>9 DEF Payloads, OInv, Heads, HeadSize
<1>11. sz \in Nat /\ sz <= Len(seqs[f]) /\ n <= sz
  BY <1>1, <1>6, <1>8, <1>9, <1>10
<1>12. y \in Payloads /\ y.size = sz
  BY <1>2, <1>9, <1>11 DEF Payloads
<1>13. Data(dev[Loc(f, 0)])' = y
  <2>1. PICK z \in Nat : z = 0
    OBVIOUS
  <2>2. Overwrites(f, z, y)
    BY <1>3, <1>7, <1>8, <1>12, <2>1 DEF Overwrites
  <2>3. Overwritten(f, z, y)
    BY <2>2, OverwriteIs
  <2>4. Data(dev[Loc(f, z)])' = y
    BY <2>3 DEF Overwritten
  <2>5. QED
    BY <2>1, <2>4
<1>14. HeadSize(f)' = sz
  BY <1>12, <1>13 DEF HeadSize
<1>15. Writes(th[t])'
  BY <1>3, <1>4, <1>5 DEF Writes, HeadStep
<1>16. Request(th[t])'
  BY <1>3, <1>4, <1>5, <1>6, <1>11, <1>14, <1>15 DEF Request, ExtendSteps, HeadStep
<1>17. Stays(th[t], x)
  BY <1>0 DEF Stays, ExtendSteps
<1>18. QED
  BY <1>0, <1>3, <1>4, <1>6, <1>7, <1>8, <1>11, <1>12, <1>16, <1>17, AtBusy, OwnBlock

\* No other thread extends a list.
LEMMA OnlyExtension ==
  ASSUME Orderly, NEW t \in Thread, th[t].at \in ExtendSteps
  PROVE  \A u \in Thread : th[u].at \in ExtendSteps => u = t
BY DEF Orderly, Extending, ExtendSteps

\* What is known of a thread that has entered its block.
LEMMA EnteredKnows ==
  ASSUME OInv, NEW t \in Thread, Entered(t)
  PROVE  /\ th[t].at \in ExtendSteps /\ th[t].at # "idle" /\ th[t].req = "write"
         /\ Request(th[t]) /\ Extends(th[t])
         /\ th[t].f \in File /\ th[t].n \in Nat /\ th[t].n = Len(seqs[th[t].f])
         /\ th[t].c \in Cluster \ {0} /\ th[t].b \in Slot
         /\ Tab(th[t].c)[th[t].b] = Entry(th[t].f, th[t].n) /\ ~Listed(th[t].c, th[t].b)
<1>1. th[t].at \in ExtendSteps /\ th[t].at # "idle"
  BY DEF Entered, ExtendSteps
<1>2. Request(th[t]) /\ th[t].req = "write" /\ Extends(th[t])
  BY <1>1 DEF OInv, Request, ExtendSteps, HeadStep
<1>3. QED
  BY <1>1, <1>2, AtBusy DEF Extends, Entered

\* A step of an extension that changes bitmap or file table, or writes them.
LEMMA ExtensionGoesOn ==
  ASSUME OInv, Orderly, NEW t \in Thread, NEW x, Moves(t, x), Entered(t), Entered(t)',
         x.req = th[t].req, x.f = th[t].f, x.n = th[t].n, x.v = th[t].v, x.got = th[t].got,
         x.c = th[t].c, x.b = th[t].b,
         SameTabs, UNCHANGED seqs, \A f \in File : SameFile(f), Device', Saved',
         x.at = "update" => x.bl = Tab(x.c)',
         x.at = "bits_write" => x.buf = BitsBlock',
         x.at \in {"add_write", "table_write"} => x.buf = TableBlock'
  PROVE  OInv'
<1>1. th'[t] = x
  BY Moved DEF OInv
<1>2. Lists' /\ Covered'
  BY ListsKept
<1>3. Shape' /\ Alone'
  BY EnteredKnows, AtBusy, OwnFile, Moved, StaysAlone DEF OInv
<1>4. \A f \in File : HeadSize(f)' = HeadSize(f)
  BY LenProperties DEF SameFile, HeadSize, OInv, Lists
<1>5. Heads'
  BY <1>4 DEF OInv, Heads
<1>6. Extends(th[t])'
  <2>1. Extends(th[t]) /\ th[t].c \in Cluster
    BY EnteredKnows
  <2>2. Tab(th[t].c)' = Tab(th[t].c) /\ (Listed(th[t].c, th[t].b)' <=> Listed(th[t].c, th[t].b))
    BY <1>1, <2>1 DEF SameTabs, Listed, Tab
  <2>3. QED
    BY <1>1, <2>1, <2>2, EnteredKnows DEF Extends, Entered
<1>7. Request(th[t])'
  BY <1>1, <1>4, <1>6, EnteredKnows DEF Request, Entered, ExtendSteps
<1>8. \A u \in Thread : u # t /\ Busy(u) => SameFile(th[u].f)
  BY DEF OInv, Request, Busy
<1>9. \A u \in Thread : u # t /\ th[u].at \in ExtendSteps => FALSE
  BY EnteredKnows, OnlyExtension
<1>10. \A u \in Thread : Request(th[u])'
  BY <1>7, <1>8, <1>9, OtherRequests
<1>11. QED
  BY <1>2, <1>3, <1>5, <1>10 DEF OInv

\* Marking a cluster full changes one bit of the bitmap, which the thread then saves.
LEMMA UpdateOInv ==
  ASSUME OInv, Orderly, NEW t \in Thread, Update(t)
  PROVE  OInv'
<1>0. Entered(t) /\ th[t].at = "update"
  BY DEF Update, Entered
<1>1. Extends(th[t]) /\ th[t].c \in Cluster /\ th[t].bl = Tab(th[t].c)
  BY <1>0, EnteredKnows DEF Extends
<1>2. PICK c \in Cluster : c = th[t].c
  BY <1>1
<1>3. PICK x : /\ Moves(t, x) /\ th'[t] = x /\ x.at = IF bitmap' # bitmap THEN "bits_copy" ELSE "list"
               /\ x.req = th[t].req /\ x.f = th[t].f /\ x.n = th[t].n /\ x.v = th[t].v
               /\ x.c = th[t].c /\ x.b = th[t].b /\ x.got = th[t].got
  BY GotoMoves DEF Update
<1>4. UNCHANGED <<dev, clrs, seqs>>
  BY DEF Update
<1>5. SameTabs /\ \A f \in File : SameFile(f)
  BY <1>4 DEF SameTabs, Tab, SameFile, Loc
<1>6. \A d \in Cluster : bitmap'[d] = IF d = c THEN IF FreeIn(Tab(c)) # {} THEN 0 ELSE 1 ELSE bitmap[d]
  <2>1. \A d \in Cluster : bitmap'[d] = IF d = c
          THEN IF \E b \in Slot : [p \in {c} \X Slot |-> Tab(c)[p[2]]][<<c, b>>].fid = 0 THEN 0 ELSE 1
          ELSE bitmap[d]
    BY <1>1, <1>2 DEF Update, Updated, dev_upd_bitmap, HasFree
  <2>2. \A b \in Slot : [p \in {c} \X Slot |-> Tab(c)[p[2]]][<<c, b>>] = Tab(c)[b]
    OBVIOUS
  <2>3. (\E b \in Slot : [p \in {c} \X Slot |-> Tab(c)[p[2]]][<<c, b>>].fid = 0) <=> FreeIn(Tab(c)) # {}
    BY <2>2 DEF FreeIn
  <2>4. QED
    BY <2>1, <2>3
<1>7. bitmap' \in [Cluster -> {0, 1}]
  <2>1. bitmap \in [Cluster -> {0, 1}]
    BY DEF OInv, Device
  <2>2. \A d \in Cluster : bitmap'[d] \in {0, 1}
    BY <1>6, <2>1
  <2>3. bitmap' = [d \in Cluster |-> bitmap'[d]]
    BY DEF Update, Updated, dev_upd_bitmap
  <2>4. QED
    BY <2>2, <2>3
<1>8. Device'
  BY <1>4, <1>7 DEF OInv, Device, Tab
<1>9. \A u \in Thread : th[u].at \in ExtendSteps => u = t
  BY <1>0, EnteredKnows, OnlyExtension
<1>10. Saved'
  <2>1. Saved
    BY DEF OInv
  <2>2. ASSUME NEW d \in Cluster PROVE bitmap'[d] = 1 <=> FreeIn(Tab(d)') = {}
    <3>1. Tab(d)' = Tab(d)
      BY <1>5 DEF SameTabs
    <3>2. CASE d = c
      BY <1>6, <3>1, <3>2
    <3>3. CASE d # c
      <4>1. ~\E u \in Thread : th[u].at = "update" /\ th[u].c = d
        BY <1>2, <1>9, <3>3 DEF ExtendSteps
      <4>2. QED
        BY <1>6, <2>1, <3>1, <3>3, <4>1 DEF Saved
    <3>4. QED
      BY <3>2, <3>3
  <2>3. dev'[BitPos] = BitsBlock' \/ \E u \in Thread : th'[u].at \in {"bits_copy", "bits_write"}
    <3>1. CASE bitmap' = bitmap
      <4>1. ~\E u \in Thread : th[u].at \in {"bits_copy", "bits_write"}
        BY <1>0, <1>9 DEF ExtendSteps
      <4>2. QED
        BY <1>4, <2>1, <3>1, <4>1 DEF Saved, BitsBlock
    <3>2. CASE bitmap' # bitmap
      BY <1>3, <3>2
    <3>3. QED
      BY <3>1, <3>2
  <2>4. dev'[TblPos] = TableBlock'
    <3>1. ~\E u \in Thread : th[u].at \in {"add_copy", "add_write"}
      BY <1>0, <1>9 DEF ExtendSteps
    <3>2. QED
      BY <1>4, <2>1, <3>1 DEF Saved, TableBlock
  <2>5. QED
    BY <2>2, <2>3, <2>4 DEF Saved, FreeIn
<1>11. Entered(t)'
  BY <1>3 DEF Entered
<1>12. QED
  BY <1>0, <1>3, <1>4, <1>5, <1>8, <1>10, <1>11, ExtensionGoesOn

\* What is left when bitmap or file table are written.
LEMMA FrontWritten ==
  ASSUME Device, Lists, NEW p \in {BitPos, TblPos}, NEW x, dev' = [dev EXCEPT ![p] = x],
         UNCHANGED <<bitmap, seqs>>
  PROVE  /\ Device' /\ SameTabs /\ dev'[p] = x /\ \A f \in File : SameFile(f)
         /\ \A q \in {BitPos, TblPos} : q # p => dev'[q] = dev[q]
<1>1. dev'[p] = x /\ \A q \in 0..Last : q # p => dev'[q] = dev[q]
  BY Fronts DEF Device
<1>2. \A c \in Cluster, b \in 0..BPC : dev'[At(c, b)] = dev[At(c, b)]
  BY <1>1, Fronts
<1>3. 0 \in 0..BPC /\ \A b \in Slot : b \in 0..BPC
  BY ThreadSizes
<1>4. SameTabs
  BY <1>2, <1>3 DEF SameTabs, Tab
<1>5. ASSUME NEW f \in File, NEW n \in Nat, n < Len(seqs[f])
      PROVE  Data(dev[Loc(f, n)])' = Data(dev[Loc(f, n)])
  <2>1. Loc(f, n) \in 0..Last /\ Loc(f, n) # p
    BY <1>3, <1>5, LocAt, Fronts
  <2>2. Loc(f, n)' = Loc(f, n)
    BY DEF Loc
  <2>3. QED
    BY <1>1, <2>1, <2>2 DEF Data
<1>6. \A f \in File : SameFile(f)
  BY <1>5 DEF SameFile
<1>7. Device'
  <2>1. DOMAIN dev' = 0..Last /\ bitmap' \in [Cluster -> {0, 1}]
    BY DEF Device
  <2>2. \A c \in Cluster : Tab(c)' \in [Slot -> [fid : Nat, num : Nat]]
    BY <1>4 DEF Device, SameTabs
  <2>3. \A c \in Cluster, b \in Slot : Data(dev'[At(c, b)]) \in Payloads
    BY <1>2, <1>3 DEF Device
  <2>4. QED
    BY <2>1, <2>2, <2>3 DEF Device
<1>8. \A q \in {BitPos, TblPos} : q # p => dev'[q] = dev[q]
  BY <1>1, Fronts
<1>9. QED
  BY <1>1, <1>4, <1>6, <1>7, <1>8

\* With the block of the bitmap written, device and bitmap agree again.
LEMMA WriteBitsOInv ==
  ASSUME OInv, Orderly, NEW t \in Thread, WriteBits(t)
  PROVE  OInv'
<1>0. Entered(t) /\ th[t].at = "bits_write"
  BY DEF WriteBits, Fwrite, Transfer, Entered
<1>1. th[t].buf = BitsBlock
  BY <1>0, EnteredKnows DEF Extends
<1>2. dev' = [dev EXCEPT ![BitPos] = BitsBlock] /\ UNCHANGED <<bitmap, clrs, seqs>> /\ Goto(t, "list")
  BY <1>0, <1>1, WriteMoves, TargetIs DEF WriteBits, Orderly
<1>3. PICK x : /\ Moves(t, x) /\ th'[t] = x /\ x.at = "list"
               /\ x.req = th[t].req /\ x.f = th[t].f /\ x.n = th[t].n /\ x.v = th[t].v
               /\ x.c = th[t].c /\ x.b = th[t].b /\ x.got = th[t].got
  BY <1>2, GotoMoves
<1>4. Device /\ Lists /\ Saved
  BY DEF OInv
<1>5. /\ Device' /\ SameTabs /\ dev'[BitPos] = BitsBlock /\ \A f \in File : SameFile(f)
      /\ dev'[TblPos] = dev[TblPos]
  BY <1>2, <1>4, FrontWritten, Fronts
<1>6. \A u \in Thread : th[u].at \in ExtendSteps => u = t
  BY <1>0, EnteredKnows, OnlyExtension
<1>7. ~\E u \in Thread : th[u].at \in {"update", "add_copy", "add_write"}
  BY <1>0, <1>6 DEF ExtendSteps
<1>8. Saved'
  <2>1. ASSUME NEW c \in Cluster PROVE bitmap'[c] = 1 <=> FreeIn(Tab(c)') = {}
    <3>1. Tab(c)' = Tab(c)
      BY <1>5 DEF SameTabs
    <3>2. QED
      BY <1>2, <1>4, <1>7, <3>1 DEF Saved
  <2>2. dev'[BitPos] = BitsBlock' /\ dev'[TblPos] = TableBlock'
    BY <1>2, <1>4, <1>5, <1>7 DEF Saved, BitsBlock, TableBlock
  <2>3. QED
    BY <2>1, <2>2 DEF Saved, FreeIn
<1>9. Entered(t)'
  BY <1>3 DEF Entered
<1>10. QED
  BY <1>0, <1>2, <1>3, <1>5, <1>8, <1>9, ExtensionGoesOn

\* With the block of the table written, device and tables agree again.
LEMMA WriteTableOInv ==
  ASSUME OInv, Orderly, NEW t \in Thread, WriteTable(t)
  PROVE  OInv'
<1>0. Entered(t) /\ th[t].at \in {"add_write", "table_write"}
  BY DEF WriteTable, Fwrite, Transfer, Entered
<1>1. th[t].buf = TableBlock
  BY <1>0, EnteredKnows DEF Extends
<1>2. PICK at \in {"table_copy", "link"} :
        dev' = [dev EXCEPT ![TblPos] = TableBlock] /\ UNCHANGED <<bitmap, clrs, seqs>> /\ Goto(t, at)
  BY <1>0, <1>1, WriteMoves, TargetIs DEF WriteTable, Orderly
<1>3. PICK x : /\ Moves(t, x) /\ th'[t] = x /\ x.at = at
               /\ x.req = th[t].req /\ x.f = th[t].f /\ x.n = th[t].n /\ x.v = th[t].v
               /\ x.c = th[t].c /\ x.b = th[t].b /\ x.got = th[t].got
  BY <1>2, GotoMoves
<1>4. Device /\ Lists /\ Saved
  BY DEF OInv
<1>5. /\ Device' /\ SameTabs /\ dev'[TblPos] = TableBlock /\ \A f \in File : SameFile(f)
      /\ dev'[BitPos] = dev[BitPos]
  BY <1>2, <1>4, FrontWritten, Fronts
<1>6. \A u \in Thread : th[u].at \in ExtendSteps => u = t
  BY <1>0, EnteredKnows, OnlyExtension
<1>7. ~\E u \in Thread : th[u].at \in {"update", "bits_copy", "bits_write"}
  BY <1>0, <1>6 DEF ExtendSteps
<1>8. Saved'
  <2>1. ASSUME NEW c \in Cluster PROVE bitmap'[c] = 1 <=> FreeIn(Tab(c)') = {}
    <3>1. Tab(c)' = Tab(c)
      BY <1>5 DEF SameTabs
    <3>2. QED
      BY <1>2, <1>4, <1>7, <3>1 DEF Saved
  <2>2. dev'[BitPos] = BitsBlock' /\ dev'[TblPos] = TableBlock'
    BY <1>2, <1>4, <1>5, <1>7 DEF Saved, BitsBlock, TableBlock
  <2>3. QED
    BY <2>1, <2>2 DEF Saved, FreeIn
<1>9. Entered(t)'
  BY <1>3 DEF Entered
<1>10. QED
  BY <1>0, <1>2, <1>3, <1>5, <1>8, <1>9, ExtensionGoesOn

\* The file's clusters gain that of the new block, unless it is there.
LEMMA ListOInv ==
  ASSUME OInv, Orderly, NEW t \in Thread, List(t)
  PROVE  OInv'
<1>0. Entered(t) /\ th[t].at = "list"
  BY DEF List, Entered
<1>1. PICK listed : /\ listed <=> \E i \in 1..Len(clrs[th[t].f]) : clrs[th[t].f][i] = th[t].c
                    /\ listed => clrs' = clrs
                    /\ Goto(t, IF listed THEN "table_copy" ELSE "add_copy")
                    /\ UNCHANGED <<dev, pos, bitmap, seqs>>
  BY Zenon DEF List
<1>2. PICK x : /\ Moves(t, x) /\ th'[t] = x /\ x.at = IF listed THEN "table_copy" ELSE "add_copy"
               /\ x.req = th[t].req /\ x.f = th[t].f /\ x.n = th[t].n /\ x.v = th[t].v
               /\ x.c = th[t].c /\ x.b = th[t].b /\ x.got = th[t].got
  BY <1>1, GotoMoves
<1>3. SameTabs /\ \A f \in File : SameFile(f)
  BY <1>1 DEF SameTabs, Tab, SameFile, Loc
<1>4. Device'
  BY <1>1 DEF OInv, Device, Tab
<1>5. \A u \in Thread : th[u].at \in ExtendSteps => u = t
  BY <1>0, EnteredKnows, OnlyExtension
<1>6. ~\E u \in Thread : th[u].at \in {"update", "bits_copy", "bits_write", "add_copy", "add_write"}
  BY <1>0, <1>5 DEF ExtendSteps
<1>7. Saved'
  <2>1. Saved
    BY DEF OInv
  <2>2. ASSUME NEW c \in Cluster PROVE bitmap'[c] = 1 <=> FreeIn(Tab(c)') = {}
    <3>1. Tab(c)' = Tab(c)
      BY <1>3 DEF SameTabs
    <3>2. QED
      BY <1>1, <1>6, <2>1, <3>1 DEF Saved
  <2>3. dev'[BitPos] = BitsBlock'
    BY <1>1, <1>6, <2>1 DEF Saved, BitsBlock
  <2>4. dev'[TblPos] = TableBlock' \/ \E u \in Thread : th'[u].at \in {"add_copy", "add_write"}
    <3>1. CASE listed
      BY <1>1, <1>6, <2>1, <3>1 DEF Saved, TableBlock
    <3>2. CASE ~listed
      BY <1>2, <3>2
    <3>3. QED
      BY <3>1, <3>2
  <2>5. QED
    BY <2>2, <2>3, <2>4 DEF Saved, FreeIn
<1>8. Entered(t)'
  BY <1>2 DEF Entered
<1>9. x.at \notin {"update", "bits_write", "add_write", "table_write"}
  BY <1>2
<1>10. QED
  BY <1>0, <1>1, <1>2, <1>3, <1>4, <1>7, <1>8, <1>9, ExtensionGoesOn

\* The cluster's table is written with the block entered.
LEMMA WriteTakeOInv ==
  ASSUME OInv, Orderly, NEW t \in Thread, WriteTake(t)
  PROVE  OInv'
<1>0. th[t].at # "idle" /\ th[t].at = "take_write" /\ th[t].at \in ExtendSteps
  BY DEF WriteTake, Fwrite, Transfer, ExtendSteps
<1>1. Request(th[t]) /\ Extends(th[t]) /\ th[t].req = "write"
  BY <1>0 DEF OInv, Request, ExtendSteps, HeadStep
<1>2. PICK f \in File, n \in Nat, c \in Cluster \ {0}, b \in Slot :
        /\ f = th[t].f /\ n = th[t].n /\ c = th[t].c /\ b = th[t].b /\ n = Len(seqs[f])
  BY <1>0, <1>1, AtBusy DEF Extends
<1>3. Tab(c)[b].fid = 0 /\ th[t].bl = [Tab(c) EXCEPT ![b] = Entry(f, n)]
  BY <1>0, <1>1, <1>2 DEF Extends
<1>4. PICK y : y = [kind |-> "ctab", own |-> th[t].bl]
  OBVIOUS
<1>5. dev' = [dev EXCEPT ![At(c, 0)] = y] /\ UNCHANGED <<bitmap, clrs, seqs>> /\ Goto(t, "update")
  BY <1>0, <1>2, <1>4, WriteMoves, TargetIs DEF WriteTake, Orderly, CtabStep
<1>6. PICK x : /\ Moves(t, x) /\ th'[t] = x /\ x.at = "update"
               /\ x.req = th[t].req /\ x.f = f /\ x.n = n /\ x.v = th[t].v
               /\ x.c = c /\ x.b = b /\ x.bl = th[t].bl /\ x.got = th[t].got
  <2>1. Goto(t, "update")
    BY <1>5
  <2>2. PICK x : /\ Moves(t, x) /\ th'[t] = x /\ x.at = "update"
                 /\ x.req = th[t].req /\ x.f = th[t].f /\ x.n = th[t].n /\ x.v = th[t].v
                 /\ x.c = th[t].c /\ x.b = th[t].b /\ x.bl = th[t].bl /\ x.got = th[t].got
    BY <2>1, GotoMoves
  <2>3. QED
    BY <1>2, <2>2
<1>7. Device /\ Lists /\ Covered /\ Saved /\ Heads
  BY DEF OInv
<1>8. 0 \in 0..BPC /\ \A e \in Slot : e \in 0..BPC /\ e # 0
  BY ThreadSizes
<1>9. /\ dev'[At(c, 0)] = y /\ DOMAIN dev' = 0..Last
      /\ \A q \in 0..Last : q # At(c, 0) => dev'[q] = dev[q]
  BY <1>5, <1>7, <1>8, Fronts DEF Device
<1>10. Tab(c)' = [Tab(c) EXCEPT ![b] = Entry(f, n)]
  BY <1>3, <1>4, <1>9 DEF Tab, dev_read_ctable
<1>11. ASSUME NEW d \in Cluster, d # c PROVE Tab(d)' = Tab(d)
  <2>1. At(d, 0) \in 0..Last /\ At(d, 0) # At(c, 0)
    BY <1>8, <1>11, AtApart, Fronts
  <2>2. QED
    BY <1>9, <2>1 DEF Tab
<1>12. \A d \in Cluster, e \in Slot : dev'[At(d, e)] = dev[At(d, e)]
  BY <1>8, <1>9, Fronts
<1>13. dev'[BitPos] = dev[BitPos] /\ dev'[TblPos] = dev[TblPos]
  BY <1>8, <1>9, Fronts
<1>14. Tab(c) \in [Slot -> [fid : Nat, num : Nat]] /\ f \in Nat /\ f # 0
  <2>1. Tab(c) \in [Slot -> [fid : Nat, num : Nat]]
    BY <1>7 DEF Device
  <2>2. f \in Nat /\ f # 0
    BY ThreadSizes
  <2>3. QED
    BY <2>1, <2>2
<1>15. Device'
  <2>1. Entry(f, n) \in [fid : Nat, num : Nat]
    BY <1>14 DEF Entry
  <2>2. Tab(c)' \in [Slot -> [fid : Nat, num : Nat]]
    BY <1>10, <1>14, <2>1
  <2>3. \A d \in Cluster : Tab(d)' \in [Slot -> [fid : Nat, num : Nat]]
    BY <1>7, <1>11, <2>2 DEF Device
  <2>4. QED
    BY <1>5, <1>7, <1>9, <1>12, <2>3 DEF Device
<1>16. \A d \in Cluster, e \in Slot :
         IF d = c /\ e = b THEN Tab(d)'[e] = Entry(f, n) ELSE Tab(d)'[e] = Tab(d)[e]
  BY <1>10, <1>11, <1>14
<1>17. ASSUME NEW g \in File, NEW m \in 1..Len(seqs[g])
       PROVE  /\ seqs[g][m][1] \in Cluster /\ seqs[g][m][2] \in Slot
              /\ ~(seqs[g][m][1] = c /\ seqs[g][m][2] = b)
              /\ Tab(seqs[g][m][1])[seqs[g][m][2]] = Entry(g, m - 1)
              /\ seqs[g][m][1] # 0
  <2>1. seqs[g][m] \in Block
    BY <1>7, ElementOfSeq DEF Lists
  <2>2. Tab(seqs[g][m][1])[seqs[g][m][2]] = Entry(g, m - 1) /\ seqs[g][m][1] # 0
    BY <1>7 DEF Lists
  <2>3. Entry(g, m - 1).fid # 0
    BY ThreadSizes DEF Entry
  <2>4. QED
    BY <1>3, <2>1, <2>2, <2>3 DEF Block
<1>18. Lists'
  <2>1. ASSUME NEW g \in File, NEW m \in 1..Len(seqs[g])
        PROVE  Tab(seqs[g][m][1])'[seqs[g][m][2]] = Entry(g, m - 1)
    <3>1. PICK d \in Cluster, e \in Slot : d = seqs[g][m][1] /\ e = seqs[g][m][2]
      BY <1>17
    <3>2. Tab(d)'[e] = Entry(g, m - 1)
      BY <1>16, <1>17, <3>1
    <3>3. Tab(seqs[g][m][1])' = Tab(d)'
      BY <1>5, <3>1 DEF Tab
    <3>4. QED
      BY <3>1, <3>2, <3>3
  <2>2. QED
    BY <1>5, <1>7, <2>1 DEF Lists
<1>19. ~Listed(c, b)
  BY <1>17 DEF Listed
<1>20. \A u \in Thread : th[u].at \in ExtendSteps => u = t
  BY <1>0, OnlyExtension
<1>21. \A u \in Thread : ~Entered(u)
  BY <1>0, <1>20 DEF Entered, ExtendSteps
<1>22. Covered'
  <2>1. SUFFICES ASSUME NEW d \in Cluster \ {0}, NEW e \in Slot, Tab(d)'[e].fid # 0
                 PROVE  Listed(d, e)' \/ \E u \in Thread : Entered(u)' /\ th'[u].c = d /\ th'[u].b = e
    BY DEF Covered
  <2>2. CASE d = c /\ e = b
    BY <1>6, <2>2 DEF Entered
  <2>3. CASE ~(d = c /\ e = b)
    <3>1. Tab(d)[e].fid # 0
      BY <1>16, <2>1, <2>3
    <3>2. Listed(d, e)
      BY <1>7, <1>21, <3>1 DEF Covered
    <3>3. QED
      BY <1>5, <3>2 DEF Listed
  <2>4. QED
    BY <2>2, <2>3
<1>23. Saved'
  <2>1. ~\E u \in Thread : th[u].at \in {"update", "bits_copy", "bits_write", "add_copy", "add_write"}
    BY <1>0, <1>20 DEF ExtendSteps
  <2>2. ASSUME NEW d \in Cluster
        PROVE  \/ bitmap'[d] = 1 <=> FreeIn(Tab(d)') = {}
               \/ \E u \in Thread : th'[u].at = "update" /\ th'[u].c = d
    <3>1. CASE d = c
      BY <1>6, <3>1
    <3>2. CASE d # c
      BY <1>5, <1>7, <1>11, <2>1, <3>2 DEF Saved
    <3>3. QED
      BY <3>1, <3>2
  <2>3. dev'[BitPos] = BitsBlock' /\ dev'[TblPos] = TableBlock'
    BY <1>5, <1>7, <1>13, <2>1 DEF Saved, BitsBlock, TableBlock
  <2>4. QED
    BY <2>2, <2>3 DEF Saved, FreeIn
<1>24. \A g \in File : SameFile(g)
  <2>1. ASSUME NEW g \in File, NEW m \in Nat, m < Len(seqs[g])
        PROVE  Data(dev[Loc(g, m)])' = Data(dev[Loc(g, m)])
    <3>1. dev'[Loc(g, m)] = dev[Loc(g, m)]
      BY <1>7, <1>12, <2>1, LocAt
    <3>2. Loc(g, m)' = Loc(g, m)
      BY <1>5 DEF Loc
    <3>3. QED
      BY <3>1, <3>2 DEF Data
  <2>2. QED
    BY <1>5, <2>1 DEF SameFile
<1>25. ASSUME NEW g \in File PROVE HeadSize(g)' = HeadSize(g)
  <2>1. Len(seqs[g]) \in Nat /\ 0 < Len(seqs[g])
    BY <1>7, LenProperties DEF Lists
  <2>2. Data(dev[Loc(g, 0)])' = Data(dev[Loc(g, 0)])
    BY <1>24, <2>1 DEF SameFile
  <2>3. QED
    BY <2>2 DEF HeadSize
<1>26. Heads'
  BY <1>5, <1>7, <1>25 DEF Heads
<1>27. Shape' /\ Alone'
  BY <1>0, <1>2, <1>6, AtBusy, OwnFile, Moved, StaysAlone DEF OInv
<1>28. Extends(th[t])'
  <2>1. Tab(c)'[b] = Entry(f, n) /\ th[t].bl = Tab(c)' /\ ~Listed(c, b)'
    BY <1>3, <1>5, <1>10, <1>16, <1>19 DEF Listed
  <2>2. QED
    BY <1>2, <1>5, <1>6, <2>1 DEF Extends, Tab, Listed
<1>29. Request(th[t])'
  BY <1>1, <1>2, <1>5, <1>6, <1>25, <1>28 DEF Request, ExtendSteps
<1>30. \A u \in Thread : Request(th[u])'
  <2>1. \A u \in Thread : u # t /\ Busy(u) => SameFile(th[u].f)
    BY <1>24 DEF OInv, Request, Busy
  <2>2. \A u \in Thread : u # t /\ th[u].at \in ExtendSteps => FALSE
    BY <1>20
  <2>3. QED
    BY <1>6, <1>29, <2>1, <2>2, OtherRequests
<1>31. QED
  BY <1>15, <1>18, <1>22, <1>23, <1>26, <1>27, <1>30 DEF OInv

\* The new block becomes the last one of its file's list.
LEMMA LinkOInv ==
  ASSUME OInv, Orderly, NEW t \in Thread, Link(t)
  PROVE  OInv'
<1>0. Entered(t) /\ th[t].at = "link"
  BY DEF Link, Entered
<1>1. PICK f \in File, n \in Nat, c \in Cluster \ {0}, b \in Slot :
        /\ f = th[t].f /\ n = th[t].n /\ c = th[t].c /\ b = th[t].b /\ n = Len(seqs[f])
        /\ Tab(c)[b] = Entry(f, n)
  BY <1>0, EnteredKnows
<1>2. seqs' = [seqs EXCEPT ![f] = Append(@, <<c, b>>)] /\ UNCHANGED <<dev, bitmap, clrs>>
  BY <1>1 DEF Link
<1>3. PICK x : /\ Moves(t, x) /\ th'[t] = x /\ x.at = "pay_read"
               /\ x.req = th[t].req /\ x.f = f /\ x.n = n /\ x.v = th[t].v /\ x.got = th[t].got
  <2>1. Goto(t, "pay_read")
    BY DEF Link
  <2>2. PICK x : /\ Moves(t, x) /\ th'[t] = x /\ x.at = "pay_read" /\ x.req = th[t].req
                 /\ x.f = th[t].f /\ x.n = th[t].n /\ x.v = th[t].v /\ x.got = th[t].got
    BY <2>1, GotoMoves
  <2>3. QED
    BY <1>1, <2>2
<1>4. Device /\ Lists /\ Covered /\ Saved /\ Heads
  BY DEF OInv
<1>5. <<c, b>> \in Block
  BY DEF Block
<1>6. /\ seqs[f] \in Seq(Block) /\ seqs'[f] = Append(seqs[f], <<c, b>>)
      /\ \A g \in File : g # f => seqs'[g] = seqs[g]
  BY <1>2, <1>4 DEF Lists
<1>7. /\ Len(seqs'[f]) = n + 1 /\ seqs'[f] \in Seq(Block)
      /\ \A m \in 1..n : seqs'[f][m] = seqs[f][m]
      /\ seqs'[f][n + 1] = <<c, b>>
  <2>1. PICK s \in Seq(Block), e \in Block : s = seqs[f] /\ e = <<c, b>>
    BY <1>5, <1>6
  <2>2. /\ Append(s, e) \in Seq(Block) /\ Len(Append(s, e)) = Len(s) + 1
        /\ \A m \in 1..Len(s) : Append(s, e)[m] = s[m]
        /\ Append(s, e)[Len(s) + 1] = e
    BY AppendProperties
  <2>3. seqs'[f] = Append(s, e) /\ n = Len(s)
    BY <1>1, <1>6, <2>1
  <2>4. QED
    BY <2>1, <2>2, <2>3
<1>8. \A d : Tab(d)' = Tab(d)
  BY <1>2 DEF Tab
<1>9. ASSUME NEW g \in File
      PROVE  \A m \in 1..Len(seqs[g]) : m \in 1..Len(seqs'[g]) /\ seqs'[g][m] = seqs[g][m]
  <2>1. CASE g = f
    <3>1. Len(seqs[g]) = n /\ Len(seqs'[g]) = n + 1
      BY <1>1, <1>7, <2>1
    <3>2. QED
      BY <1>7, <2>1, <3>1
  <2>2. CASE g # f
    BY <1>6, <2>2
  <2>3. QED
    BY <2>1, <2>2
<1>10. Lists'
  <2>1. seqs' \in [File -> Seq(Block)]
    BY <1>2, <1>4, <1>6, <1>7 DEF Lists
  <2>2. ASSUME NEW g \in File, NEW m \in 1..Len(seqs'[g])
        PROVE  seqs'[g][m][1] # 0 /\ Tab(seqs'[g][m][1])[seqs'[g][m][2]] = Entry(g, m - 1)
    <3>1. CASE g = f /\ m = n + 1
      <4>1. seqs'[g][m] = <<c, b>> /\ m - 1 = n
        BY <1>1, <1>7, <3>1
      <4>2. c # 0 /\ Tab(c)[b] = Entry(f, n)
        BY <1>1
      <4>3. QED
        BY <3>1, <4>1, <4>2
    <3>2. CASE ~(g = f /\ m = n + 1)
      <4>1. m \in 1..Len(seqs[g])
        <5>1. CASE g = f
          <6>1. m \in 1..(n + 1) /\ m # n + 1 /\ Len(seqs[g]) = n
            BY <1>1, <1>7, <3>2, <5>1
          <6>2. QED
            BY <6>1
        <5>2. CASE g # f
          BY <1>6, <5>2
        <5>3. QED
          BY <5>1, <5>2
      <4>2. seqs[g][m][1] # 0 /\ Tab(seqs[g][m][1])[seqs[g][m][2]] = Entry(g, m - 1)
        BY <1>4, <4>1 DEF Lists
      <4>3. seqs'[g][m] = seqs[g][m]
        BY <1>9, <4>1
      <4>4. QED
        BY <4>2, <4>3
    <3>3. QED
      BY <3>1, <3>2
  <2>3. ASSUME NEW g \in File PROVE Len(seqs'[g]) >= 1
    <3>1. CASE g = f
      BY <1>1, <1>7, <3>1
    <3>2. CASE g # f
      BY <1>4, <1>6, <3>2 DEF Lists
    <3>3. QED
      BY <3>1, <3>2
  <2>4. QED
    BY <1>2, <2>1, <2>2, <2>3 DEF Lists, Tab
<1>11. \A d, e : Listed(d, e) => Listed(d, e)'
  BY <1>9, Zenon DEF Listed
<1>12. Listed(c, b)'
  <2>1. n + 1 \in 1..Len(seqs'[f])
    BY <1>7
  <2>2. QED
    BY <1>7, <2>1 DEF Listed
<1>13. \A u \in Thread : th[u].at \in ExtendSteps => u = t
  BY <1>0, EnteredKnows, OnlyExtension
<1>14. Covered'
  <2>1. SUFFICES ASSUME NEW d \in Cluster \ {0}, NEW e \in Slot, Tab(d)'[e].fid # 0
                 PROVE  Listed(d, e)'
    BY DEF Covered
  <2>2. Listed(d, e) \/ \E u \in Thread : Entered(u) /\ th[u].c = d /\ th[u].b = e
    BY <1>4, <1>8, <2>1 DEF Covered
  <2>3. CASE Listed(d, e)
    BY <1>11, <2>3
  <2>4. CASE \E u \in Thread : Entered(u) /\ th[u].c = d /\ th[u].b = e
    <3>1. d = c /\ e = b
      BY <1>1, <1>13, <2>4 DEF Entered, ExtendSteps
    <3>2. QED
      BY <1>12, <3>1
  <2>5. QED
    BY <2>2, <2>3, <2>4
<1>15. Saved'
  <2>1. ~\E u \in Thread : th[u].at \in {"update", "bits_copy", "bits_write", "add_copy", "add_write"}
    BY <1>0, <1>13 DEF ExtendSteps
  <2>2. QED
    BY <1>2, <1>4, <1>8, <2>1 DEF Saved, BitsBlock, TableBlock
<1>16. ASSUME NEW g \in File, NEW m \in Nat, m < Len(seqs[g])
       PROVE  Loc(g, m)' = Loc(g, m) /\ Data(dev[Loc(g, m)])' = Data(dev[Loc(g, m)])
  <2>1. m + 1 \in 1..Len(seqs[g])
    BY <1>4, <1>16, LenProperties DEF Lists
  <2>2. Loc(g, m)' = Loc(g, m)
    BY <1>9, <2>1 DEF Loc
  <2>3. QED
    BY <1>2, <2>2 DEF Data
<1>17. ASSUME NEW g \in File PROVE HeadSize(g)' = HeadSize(g) /\ HeadSize(g) <= Len(seqs[g])
                                   /\ Len(seqs[g]) <= Len(seqs'[g]) /\ HeadSize(g) \in Nat
                                   /\ Len(seqs'[g]) \in Nat /\ Len(seqs[g]) \in Nat
  <2>1. Len(seqs[g]) \in Nat /\ 0 < Len(seqs[g])
    BY <1>4, LenProperties DEF Lists
  <2>2. HeadSize(g)' = HeadSize(g)
    BY <1>16, <2>1 DEF HeadSize
  <2>3. HeadSize(g) \in Nat
    <3>1. seqs[g][0 + 1][1] \in Cluster /\ seqs[g][0 + 1][2] \in Slot
          /\ Loc(g, 0) = At(seqs[g][0 + 1][1], seqs[g][0 + 1][2])
      BY <1>4, <2>1, LocAt
    <3>2. QED
      BY <1>4, <3>1 DEF Device, Payloads, HeadSize
  <2>4. QED
    <3>1. HeadSize(g) <= Len(seqs[g])
      BY <1>4 DEF Heads
    <3>2. Len(seqs'[g]) \in Nat /\ Len(seqs[g]) <= Len(seqs'[g])
      <4>1. CASE g = f
        BY <1>1, <1>7, <4>1
      <4>2. CASE g # f
        BY <1>6, <2>1, <4>2
      <4>3. QED
        BY <4>1, <4>2
    <3>3. QED
      BY <2>1, <2>2, <2>3, <3>1, <3>2
<1>18. Heads'
  <2>1. ASSUME NEW g \in File PROVE HeadSize(g)' <= Len(seqs'[g])
    BY <1>17
  <2>2. QED
    BY <2>1 DEF Heads
<1>19. Device'
  BY <1>2, <1>4 DEF Device, Tab
<1>20. Shape' /\ Alone'
  BY <1>0, <1>1, <1>3, EnteredKnows, AtBusy, OwnFile, Moved, StaysAlone DEF OInv
<1>21. Request(th[t])'
  <2>1. Request(th[t]) /\ th[t].req = "write"
    BY <1>0, EnteredKnows
  <2>2. Writes(th[t])'
    BY <1>3, <1>7 DEF Writes, HeadStep
  <2>3. QED
    BY <1>1, <1>3, <1>17, <2>1, <2>2 DEF Request, ExtendSteps
<1>22. \A u \in Thread : Request(th[u])'
  <2>1. \A u \in Thread : u # t /\ Busy(u) => th[u].f \in File /\ th[u].f # f
    BY <1>0, <1>1, EnteredKnows, AtBusy DEF OInv, Alone, Request, Busy
  <2>2. \A g \in File : g # f => SameFile(g)
    BY <1>6, <1>16 DEF SameFile
  <2>3. \A u \in Thread : u # t /\ th[u].at \in ExtendSteps => FALSE
    BY <1>13
  <2>4. QED
    BY <1>3, <1>21, <2>1, <2>2, <2>3, OtherRequests
<1>23. QED
  BY <1>10, <1>14, <1>15, <1>18, <1>19, <1>20, <1>22 DEF OInv

-----------------------------------------------------------------------------
\* No step of an orderly run breaks the invariant.
LEMMA NextOInv ==
  ASSUME OInv, Orderly, [Next]_vars
  PROVE  OInv'
<1>1. CASE Next
  <2>1. PICK t \in Thread :
          \/ Step(t)
          \/ \E f \in File, n \in 0..(MaxLen - 1), v \in Pay : Begin(t, "write", f, n, v)
          \/ \E f \in File, n \in 0..(MaxLen - 1) : Begin(t, "read", f, n, Nothing)
    BY <1>1 DEF Next
  <2>2. \A n \in 0..(MaxLen - 1) : n \in Nat
    OBVIOUS
  <2>3. CASE Step(t)
    BY <2>3, FindOInv, UpdateOInv, CopyBitsOInv, ListOInv, CopyTableOInv, LinkOInv, EndOInv,
       SeekOInv, ReadFreeOInv, ReadTakeOInv, WriteTakeOInv, WriteBitsOInv, WriteTableOInv,
       ReadPayOInv, WritePayOInv, ReadSizeOInv, ReadHeadOInv, WriteHeadOInv, ReadDataOInv DEF Step
  <2>4. CASE \E f \in File, n \in 0..(MaxLen - 1), v \in Pay : Begin(t, "write", f, n, v)
    BY <2>2, <2>4, BeginOInv
  <2>5. CASE \E f \in File, n \in 0..(MaxLen - 1) : Begin(t, "read", f, n, Nothing)
    BY <2>2, <2>5, BeginOInv
  <2>6. QED
    BY <2>1, <2>3, <2>4, <2>5
<1>2. CASE UNCHANGED vars
  <2>1. UNCHANGED <<dev, bitmap, clrs, seqs, th>>
    BY <1>2 DEF vars
  <2>2. SameTabs /\ \A f : SameFile(f)
    BY <2>1 DEF SameTabs, Tab, SameFile, Loc
  <2>3. \A u \in Thread : Request(th[u])'
    BY <2>1, <2>2, OtherRequest DEF OInv
  <2>4. Shape' /\ Device' /\ Lists' /\ Heads' /\ Alone'
    BY <2>1 DEF OInv, Shape, Device, Lists, Heads, HeadSize, Loc, Tab, Alone, Busy
  <2>5. Covered' /\ Saved'
    <3>1. Covered /\ Saved
      BY DEF OInv
    <3>2. /\ \A c, b : Listed(c, b)' <=> Listed(c, b)
          /\ \A u : Entered(u)' <=> Entered(u)
          /\ \A c : Tab(c)' = Tab(c)
          /\ BitsBlock' = BitsBlock /\ TableBlock' = TableBlock
      BY <2>1 DEF Entered, Listed, Tab, BitsBlock, TableBlock
    <3>3. Covered'
      BY <2>1, <3>1, <3>2 DEF Covered
    <3>4. Saved'
      BY <2>1, <3>1, <3>2 DEF Saved
    <3>5. QED
      BY <3>3, <3>4
  <2>6. QED
    BY <2>3, <2>4, <2>5 DEF OInv
<1>3. QED
  BY <1>1, <1>2

\* The files as they were created, each with its first block in cluster 1.
LEMMA InitOInv == Init => OInv
<1> SUFFICES ASSUME Init PROVE OInv
  OBVIOUS
<1>1. 1 \in Cluster /\ 1 \in Slot /\ 0 \in 0..BPC /\ File \subseteq Slot
      /\ (\A b \in Slot : b \in 0..BPC /\ b # 0 /\ b \in Nat)
  BY ThreadSizes, ThreadsAssumption
<1>2. PICK own : own = [b \in Slot |-> IF b \in File THEN [fid |-> b, num |-> 0] ELSE FreeEntry]
  OBVIOUS
<1>3. /\ \A f \in File : seqs[f] = <<<<1, f>>>>
      /\ seqs = [f \in File |-> seqs[f]] /\ clrs = clrs
      /\ bitmap = [c \in Cluster |-> IF c = 1 /\ NFiles = BPC THEN 1 ELSE 0]
      /\ th = [t \in Thread |-> Idle]
  BY DEF Init
<1>4. dev = [p \in 0..Last |->
          CASE p = BitPos -> BitsOf(bitmap)
            [] p = TblPos -> [kind |-> "table", clrs |-> clrs]
            [] p = At(1, 0) -> [kind |-> "ctab", own |-> own]
            [] \E f \in File : p = At(1, f) -> [kind |-> "data", size |-> 0, pay |-> Nothing]
            [] OTHER -> None]
  BY <1>2 DEF Init
<1>5. \A f \in File : At(1, f) # BitPos /\ At(1, f) # TblPos /\ At(1, f) # At(1, 0)
                      /\ At(1, f) \in 0..Last
  BY <1>1, Fronts
<1>6. dev[BitPos] = BitsBlock /\ dev[TblPos] = TableBlock /\ DOMAIN dev = 0..Last
  <2>1. DOMAIN dev = 0..Last
    BY <1>4
  <2>2. BitPos \in 0..Last /\ TblPos \in 0..Last /\ BitPos # TblPos
    BY Fronts
  <2>3. dev[BitPos] = BitsOf(bitmap)
    BY <1>1, <1>4, <1>5, <2>2, Fronts
  <2>4. dev[TblPos] = [kind |-> "table", clrs |-> clrs]
    BY <1>1, <1>4, <1>5, <2>2, Fronts
  <2>5. QED
    BY <2>1, <2>3, <2>4 DEF BitsBlock, TableBlock
<1>7. dev[At(1, 0)] = [kind |-> "ctab", own |-> own]
  BY <1>1, <1>4, <1>5, Fronts
<1>8. \A f \in File : dev[At(1, f)] = [kind |-> "data", size |-> 0, pay |-> Nothing]
  BY <1>4, <1>5
<1>9. ASSUME NEW c \in Cluster, NEW b \in 0..BPC, ~(c = 1 /\ b \in File), ~(c = 1 /\ b = 0)
      PROVE  dev[At(c, b)] = None
  <2>1. At(c, b) \in 0..Last /\ At(c, b) # BitPos /\ At(c, b) # TblPos
    BY Fronts
  <2>2. At(c, b) # At(1, 0) /\ ~\E f \in File : At(c, b) = At(1, f)
    BY <1>1, <1>9, AtApart
  <2>3. QED
    BY <1>4, <2>1, <2>2
<1>10. Tab(1) = own
  BY <1>7 DEF Tab, dev_read_ctable
<1>11. \A c \in Cluster : c # 1 => Tab(c) = NoCtab
  <2> SUFFICES ASSUME NEW c \in Cluster, c # 1 PROVE Tab(c) = NoCtab
    OBVIOUS
  <2>1. dev[At(c, 0)] = None
    BY <1>1, <1>9
  <2>2. QED
    BY <2>1 DEF Tab, dev_read_ctable, None
<1>12. Device
  <2>1. \A c \in Cluster : Tab(c) \in [Slot -> [fid : Nat, num : Nat]]
    BY <1>1, <1>2, <1>10, <1>11 DEF NoCtab, FreeEntry, Entry
  <2>2. ASSUME NEW c \in Cluster, NEW b \in Slot PROVE Data(dev[At(c, b)]) \in Payloads
    <3>1. CASE c = 1 /\ b \in File
      BY <1>8, <3>1 DEF Data, Payloads
    <3>2. CASE ~(c = 1 /\ b \in File)
      <4>1. dev[At(c, b)] = None
        BY <1>1, <1>9, <3>2
      <4>2. QED
        <5>1. dev[At(c, b)].kind = "none"
          BY <4>1 DEF None
        <5>2. Data(dev[At(c, b)]) = [kind |-> "data", size |-> 0, pay |-> Nothing]
          BY <5>1 DEF Data
        <5>3. QED
          BY <5>2 DEF Payloads
    <3>3. QED
      BY <3>1, <3>2
  <2>3. bitmap \in [Cluster -> {0, 1}]
    BY <1>3
  <2>4. QED
    BY <1>6, <2>1, <2>2, <2>3 DEF Device
<1>13. \A f \in File : Len(seqs[f]) = 1 /\ seqs[f][1] = <<1, f>> /\ seqs[f] \in Seq(Block)
  <2> SUFFICES ASSUME NEW f \in File
               PROVE  Len(seqs[f]) = 1 /\ seqs[f][1] = <<1, f>> /\ seqs[f] \in Seq(Block)
    OBVIOUS
  <2>1. <<1, f>> \in Block
    BY <1>1 DEF Block
  <2>2. QED
    <3>1. PICK x \in Block : x = <<1, f>>
      BY <2>1
    <3>2. Len(<<x>>) = 1 /\ <<x>>[1] = x /\ <<x>> \in Seq(Block)
      OBVIOUS
    <3>3. seqs[f] = <<x>>
      BY <1>3, <3>1
    <3>4. QED
      BY <3>1, <3>2, <3>3
<1>14. Lists
  <2>1. seqs \in [File -> Seq(Block)]
    BY <1>3, <1>13
  <2>2. ASSUME NEW f \in File, NEW n \in 1..Len(seqs[f])
        PROVE  seqs[f][n][1] # 0 /\ Tab(seqs[f][n][1])[seqs[f][n][2]] = Entry(f, n - 1)
    <3>1. n = 1 /\ n - 1 = 0 /\ seqs[f][n] = <<1, f>>
      BY <1>13
    <3>2. Tab(1)[f] = Entry(f, 0)
      BY <1>1, <1>2, <1>10 DEF Entry
    <3>3. QED
      BY <3>1, <3>2
  <2>3. QED
    BY <1>13, <2>1, <2>2 DEF Lists
<1>15. Covered
  <2> SUFFICES ASSUME NEW c \in Cluster \ {0}, NEW b \in Slot, Tab(c)[b].fid # 0
               PROVE  Listed(c, b)
    BY DEF Covered
  <2>1. c = 1
    BY <1>11 DEF NoCtab, FreeEntry
  <2>2. b \in File
    BY <1>2, <1>10, <2>1 DEF FreeEntry
  <2>3. 1 \in 1..Len(seqs[b]) /\ seqs[b][1] = <<c, b>>
    BY <1>13, <2>1, <2>2
  <2>4. QED
    BY <2>2, <2>3 DEF Listed
<1>16. Saved
  <2>1. ASSUME NEW c \in Cluster PROVE bitmap[c] = 1 <=> FreeIn(Tab(c)) = {}
    <3>1. CASE c = 1
      <4>1. FreeIn(Tab(1)) = {b \in Slot : b \notin File}
        <5>1. ASSUME NEW b \in Slot PROVE Tab(1)[b].fid = 0 <=> b \notin File
          BY <1>2, <1>10, ThreadSizes DEF Entry, FreeEntry
        <5>2. QED
          BY <5>1 DEF FreeIn
      <4>2. {b \in Slot : b \notin File} = {} <=> NFiles = BPC
        <5>1. NFiles <= BPC /\ NFiles \in Nat /\ BPC \in Nat /\ Slot = 1..BPC /\ File = 1..NFiles /\ BPC \in Slot
          BY ThreadSizes, ThreadsAssumption
        <5>2. QED
          BY <5>1
      <4>3. QED
        BY <1>1, <1>3, <3>1, <4>1, <4>2
    <3>2. CASE c # 1
      <4>1. 1 \in FreeIn(Tab(c))
        BY <1>1, <1>11, <3>2 DEF FreeIn, NoCtab, FreeEntry
      <4>2. QED
        BY <1>3, <3>2, <4>1
    <3>3. QED
      BY <3>1, <3>2
  <2>2. QED
    BY <1>6, <2>1 DEF Saved
<1>17. Heads
  <2> SUFFICES ASSUME NEW f \in File PROVE HeadSize(f) <= Len(seqs[f])
    BY DEF Heads
  <2>1. Loc(f, 0) = At(1, f)
    BY <1>13 DEF Loc
  <2>2. HeadSize(f) = 0
    BY <1>8, <2>1 DEF HeadSize, Data
  <2>3. QED
    BY <1>13, <2>2
<1>18. Shape /\ Alone /\ \A t \in Thread : Request(th[t])
  BY <1>3, IdleShape DEF Shape, Alone, Busy, Request, Idle
<1>19. QED
  BY <1>12, <1>14, <1>15, <1>16, <1>17, <1>18 DEF OInv

\* Requests that keep to Orderly keep the invariant.
LEMMA OrderlyOInv == Spec /\ []Orderly => []OInv
<1>1. Init => OInv
  BY InitOInv
<1>2. OInv /\ Orderly /\ [Next]_vars => OInv'
  BY NextOInv
<1>3. QED
  BY <1>1, <1>2, PTL DEF Spec

\* Once every extension has linked its block, tables and lists are each other's mirror.
LEMMA OInvMatches == OInv => ListsMatchTables
<1> SUFFICES ASSUME OInv, \A t \in Thread : ~Extending(t),
                    NEW c \in Cluster, NEW b \in Slot, c # 0, NEW f \in File
             PROVE  {n \in 1..Len(seqs[f]) : seqs[f][n] = <<c, b>>} =
                      IF Tab(c)[b].fid = f THEN {Tab(c)[b].num + 1} ELSE {}
  BY Zenon DEF ListsMatchTables, Tab
<1>1. ASSUME NEW g \in File, NEW n \in 1..Len(seqs[g]), seqs[g][n] = <<c, b>>
      PROVE  Tab(c)[b].fid = g /\ n = Tab(c)[b].num + 1
  <2>1. Tab(c)[b] = Entry(g, n - 1) /\ n \in Int
    BY <1>1 DEF OInv, Lists
  <2>2. QED
    BY <2>1 DEF Entry
<1>2. ASSUME Tab(c)[b].fid = f
      PROVE  \E n \in 1..Len(seqs[f]) : seqs[f][n] = <<c, b>>
  <2>1. Tab(c)[b].fid # 0
    BY <1>2, ThreadSizes
  <2>2. Listed(c, b)
    BY <2>1 DEF OInv, Covered, Entered, Extending
  <2>3. QED
    BY <1>1, <1>2, <2>2 DEF Listed
<1>3. QED
  BY <1>1, <1>2

\* No request at a step between memory and device: what is saved is what is held.
LEMMA OInvSaved == OInv => SavedAgrees
BY DEF OInv, Saved, SavedAgrees, Extending, BitsBlock, TableBlock, Tab

(* Requests served orderly, whatever their number: when no list is being extended, *)
(* dev_extd_blk_list and the cluster tables say the same of every block.           *)
LEMMA OrderlyLists == Spec /\ []Orderly => []ListsMatchTables
BY OrderlyOInv, OInvMatches, PTL

(* And what dev_write_bitmap and dev_write_table wrote is what is in memory. *)
LEMMA OrderlySaved == Spec /\ []Orderly => []SavedAgrees
BY OrderlyOInv, OInvSaved, PTL

(* One thread is orderly by itself, so all this is what fuse_main -s gives. *)
LEMMA SingleThreadOrderly == OneThread => (Spec => []Orderly)
<1> SUFFICES ASSUME OneThread PROVE Spec => []Orderly
  OBVIOUS
<1>1. Spec => []BlockAsked
  BY SingleThreadAsked
<1>2. BlockAsked => Orderly
  BY DEF Orderly, OneThread
<1>3. QED
  BY <1>1, <1>2, PTL

-----------------------------------------------------------------------------
(* What the requests do to the abstract store.                              *)

\* The request of x has taken effect.
Took(x) == \/ x.at = "answer"
           \/ x.req = "write" /\ x.at \in HeadStep /\ x.n < HeadSize(x.f)

CallOf(x) == [req |-> x.req, f |-> x.f, n |-> x.n, v |-> x.v, got |-> x.got, done |-> Took(x)]

\* What the store has of every file is as before.
Steady ==
  \A f \in File :
    /\ HeadSize(f)' = HeadSize(f)
    /\ \A n \in Nat : n < HeadSize(f) => Data(dev[Loc(f, n)])' = Data(dev[Loc(f, n)])

\* The calls of the store are those the threads serve.
LEMMA CallsAre == Calls = [t \in Thread |-> CallOf(th[t])]
BY Zenon DEF Calls, CallOf, Took

\* The size of a file counts blocks of its list, and the list is never empty.
LEMMA HeadSizes ==
  ASSUME OInv, NEW f \in File
  PROVE  /\ HeadSize(f) \in Nat /\ HeadSize(f) <= Len(seqs[f])
         /\ Len(seqs[f]) \in Nat /\ 0 < Len(seqs[f])
<1>1. Lists /\ Device /\ Heads
  BY DEF OInv
<1>2. Len(seqs[f]) \in Nat /\ 0 < Len(seqs[f])
  BY <1>1, LenProperties DEF Lists
<1>3. seqs[f][0 + 1][1] \in Cluster /\ seqs[f][0 + 1][2] \in Slot
      /\ Loc(f, 0) = At(seqs[f][0 + 1][1], seqs[f][0 + 1][2])
  BY <1>1, <1>2, LocAt
<1>4. HeadSize(f) \in Nat
  BY <1>1, <1>3 DEF Device, Payloads, HeadSize
<1>5. QED
  BY <1>1, <1>2, <1>4 DEF Heads

\* A file of the store has as many blocks as the header says.
LEMMA StoreFile ==
  ASSUME OInv, NEW f \in File
  PROVE  /\ Files[f] = [n \in 1..HeadSize(f) |-> Data(dev[Loc(f, n - 1)]).pay]
         /\ Len(Files[f]) = HeadSize(f)
<1>1. Files[f] = [n \in 1..HeadSize(f) |-> Data(dev[Loc(f, n - 1)]).pay]
  BY DEF Files
<1>2. HeadSize(f) \in Nat
  BY HeadSizes
<1>3. PICK k \in Nat : k = HeadSize(f)
  BY <1>2
<1>4. PICK s : s = Files[f]
  OBVIOUS
<1>5. s \in [1..k -> {s[n] : n \in 1..k}]
  BY <1>1, <1>3, <1>4
<1>6. s \in Seq({s[n] : n \in 1..k}) /\ DOMAIN s = 1..k
  BY <1>5, SeqDef
<1>7. Len(s) \in Nat /\ 1..Len(s) = 1..k
  BY <1>6, LenProperties
<1>8. Len(s) = k
  <2>1. ~(Len(s) < k)
    BY <1>7
  <2>2. ~(k < Len(s))
    BY <1>7
  <2>3. QED
    BY <1>7, <2>1, <2>2
<1>9. QED
  BY <1>1, <1>3, <1>4, <1>8

\* A step that leaves sizes and the payloads below them alone leaves the files alone.
LEMMA SteadyFiles ==
  ASSUME OInv, Steady
  PROVE  UNCHANGED Files
<1>1. ASSUME NEW f \in File
      PROVE  /\ HeadSize(f)' = HeadSize(f)
             /\ \A n \in 1..HeadSize(f) : Data(dev[Loc(f, n - 1)])' = Data(dev[Loc(f, n - 1)])
  <2>1. HeadSize(f)' = HeadSize(f) /\ HeadSize(f) \in Nat
    BY HeadSizes DEF Steady
  <2>2. ASSUME NEW n \in 1..HeadSize(f)
        PROVE  Data(dev[Loc(f, n - 1)])' = Data(dev[Loc(f, n - 1)])
    <3>1. n - 1 \in Nat /\ n - 1 < HeadSize(f)
      BY <2>1
    <3>2. QED
      BY <3>1 DEF Steady
  <2>3. QED
    BY <2>1, <2>2
<1>2. QED
  BY <1>1, Zenon DEF Files

\* What the other threads have asked for and got is as before.
LEMMA OtherCalls ==
  ASSUME OInv, NEW t \in Thread, NEW x, Moves(t, x),
         \A u \in Thread : u # t /\ Busy(u) => HeadSize(th[u].f)' = HeadSize(th[u].f)
  PROVE  /\ Calls' = [Calls EXCEPT ![t] = CallOf(th[t])']
         /\ Calls'[t] = CallOf(th[t])'
<1>1. \A u \in Thread : u # t => th'[u] = th[u]
  BY Moved DEF OInv
<1>2. Calls' = [u \in Thread |-> CallOf(th[u])']
  BY CallsAre, Zenon DEF Calls, CallOf, Took
<1>3. ASSUME NEW u \in Thread, u # t PROVE CallOf(th[u])' = CallOf(th[u])
  <2>1. Took(th[u])' = Took(th[u])
    <3>1. CASE Busy(u)
      BY <1>1, <1>3, <3>1 DEF Took
    <3>2. CASE ~Busy(u)
      <4>1. th[u].at = "idle"
        BY <3>2 DEF Busy, OInv, Request
      <4>2. QED
        BY <1>1, <1>3, <4>1 DEF Took, HeadStep
    <3>3. QED
      BY <3>1, <3>2
  <2>2. QED
    BY <1>1, <1>3, <2>1, Zenon DEF CallOf
<1>4. QED
  BY <1>2, <1>3, CallsAre

\* A step that no client of the store sees.
LEMMA Stutters ==
  ASSUME OInv, NEW t \in Thread, NEW x, Moves(t, x),
         x.req = th[t].req, x.f = th[t].f, x.n = th[t].n, x.v = th[t].v, x.got = th[t].got,
         Busy(t), Steady, Took(th[t])' = Took(th[t])
  PROVE  UNCHANGED <<Files, Calls>>
<1>1. UNCHANGED Files
  BY SteadyFiles
<1>2. ASSUME NEW u \in Thread, u # t, Busy(u)
      PROVE  HeadSize(th[u].f)' = HeadSize(th[u].f)
  <2>1. PICK f \in File : f = th[u].f /\ f = th'[u].f
    BY <1>2, Moved DEF OInv, Request, Busy
  <2>2. HeadSize(f)' = HeadSize(f)
    BY DEF Steady
  <2>3. QED
    BY <2>1, <2>2 DEF HeadSize
<1>3. Calls' = [Calls EXCEPT ![t] = CallOf(th[t])']
  BY <1>2, OtherCalls
<1>4. th'[t] = x
  BY Moved DEF OInv
<1>5. CallOf(th[t])' = CallOf(th[t])
  BY <1>4, Zenon DEF CallOf
<1>6. Calls[t] = CallOf(th[t]) /\ Calls = [u \in Thread |-> Calls[u]]
  BY CallsAre
<1>7. QED
  BY <1>1, <1>3, <1>5, <1>6

\* A step within a request: it keeps what was asked and what was answered.
Within(t) == /\ th' = [th EXCEPT ![t] = th'[t]]
             /\ th'[t].req = th[t].req /\ th'[t].f = th[t].f /\ th'[t].n = th[t].n
             /\ th'[t].v = th[t].v /\ th'[t].got = th[t].got

\* A step that only goes on stays within its request.
LEMMA GotoWithin ==
  ASSUME OInv, NEW t \in Thread, NEW at, Goto(t, at)
  PROVE  Within(t) /\ th'[t].at = at
<1>1. PICK x : /\ Moves(t, x) /\ th'[t] = x /\ x.at = at
               /\ x.req = th[t].req /\ x.f = th[t].f /\ x.n = th[t].n /\ x.v = th[t].v /\ x.got = th[t].got
  BY GotoMoves
<1>2. QED
  BY <1>1 DEF Within, Moves

\* A read changes the record of its thread and nothing else.
LEMMA FreadWithin ==
  ASSUME OInv, NEW t \in Thread, NEW at, NEW y, Fread(t, at, y), DOMAIN y = Fields
  PROVE  /\ th' = [th EXCEPT ![t] = th'[t]] /\ th[t].at = at /\ UNCHANGED <<dev, seqs>>
         /\ th'[t].req = y.req /\ th'[t].f = y.f /\ th'[t].n = y.n
         /\ th'[t].v = y.v /\ th'[t].got = y.got /\ th'[t].at = y.at
<1>1. PICK x : x = [y EXCEPT !.sought = FALSE]
  OBVIOUS
<1>2. x.req = y.req /\ x.f = y.f /\ x.n = y.n /\ x.v = y.v /\ x.got = y.got /\ x.at = y.at
  BY <1>1 DEF Fields
<1>3. th' = [th EXCEPT ![t] = x] /\ th[t].at = at /\ UNCHANGED <<dev, seqs>>
  BY <1>1 DEF Fread, Transfer
<1>4. th'[t] = x
  BY <1>3 DEF OInv, Shape
<1>5. QED
  BY <1>2, <1>3, <1>4

\* Steps of an extension, and the read of the block to be written, are seen by nobody.
Inner(t) == /\ Within(t)
            /\ th[t].at \in ExtendSteps \cup {"pay_read"}
            /\ th'[t].at \in ExtendSteps \cup {"pay_read", "pay_write"}

\* Every thread has every field.
LEMMA FieldsOf ==
  ASSUME OInv, NEW t \in Thread
  PROVE  DOMAIN th[t] = Fields /\ th = [u \in Thread |-> th[u]]
BY DEF OInv, Shape

\* The steps that use memory only take no effect.
LEMMA LocalInner ==
  ASSUME OInv, NEW t \in Thread, Find(t) \/ CopyBits(t) \/ CopyTable(t)
  PROVE  Inner(t) /\ UNCHANGED <<dev, seqs>>
<1>1. CASE Find(t)
  BY <1>1, FieldsOf DEF Find, Inner, Within, Fields, ExtendSteps
<1>2. CASE CopyBits(t)
  BY <1>2, FieldsOf DEF CopyBits, Inner, Within, Fields, ExtendSteps
<1>3. CASE CopyTable(t)
  BY <1>3, FieldsOf DEF CopyTable, Inner, Within, Fields, ExtendSteps
<1>4. QED
  BY <1>1, <1>2, <1>3

\* Neither do those that write bookkeeping and go on.
LEMMA GotoInner ==
  ASSUME OInv, NEW t \in Thread, Update(t) \/ List(t) \/ Link(t) \/ WriteTake(t) \/ WriteBits(t) \/ WriteTable(t)
  PROVE  Inner(t)
<1>1. PICK at \in ExtendSteps \cup {"pay_read"} : Goto(t, at)
  BY DEF Update, List, Link, WriteTake, WriteBits, WriteTable, Fwrite, ExtendSteps
<1>2. th[t].at \in ExtendSteps
  BY DEF Update, List, Link, WriteTake, WriteBits, WriteTable, Fwrite, Transfer, ExtendSteps
<1>3. QED
  BY <1>1, <1>2, GotoWithin DEF Inner

\* Nor do the reads before a write.
LEMMA ReadInner ==
  ASSUME OInv, NEW t \in Thread, ReadFree(t) \/ ReadTake(t) \/ ReadPay(t)
  PROVE  Inner(t) /\ UNCHANGED <<dev, seqs>>
<1>0. DOMAIN th[t] = Fields
  BY FieldsOf
<1>1. ASSUME NEW at \in ExtendSteps \cup {"pay_read"}, NEW y, Fread(t, at, y), DOMAIN y = Fields,
             y.req = th[t].req, y.f = th[t].f, y.n = th[t].n, y.v = th[t].v, y.got = th[t].got,
             y.at \in ExtendSteps \cup {"pay_read", "pay_write"}
      PROVE  Inner(t) /\ UNCHANGED <<dev, seqs>>
  BY <1>1, FreadWithin DEF Inner, Within
<1>2. CASE ReadFree(t)
  <2>1. PICK y : /\ Fread(t, "free_read", y)
                 /\ y = IF FreeIn(dev_read_ctable(dev[pos])) = {} THEN [th[t] EXCEPT !.at = "find"]
                        ELSE [th[t] EXCEPT !.at = "take_read", !.b = Least(FreeIn(dev_read_ctable(dev[pos])))]
    BY <1>2 DEF ReadFree
  <2>2. /\ DOMAIN y = Fields
        /\ y.req = th[t].req /\ y.f = th[t].f /\ y.n = th[t].n /\ y.v = th[t].v /\ y.got = th[t].got
        /\ y.at \in {"find", "take_read"}
    BY <1>0, <2>1 DEF Fields
  <2>3. QED
    BY <1>1, <2>1, <2>2 DEF ExtendSteps
<1>3. CASE ReadTake(t)
  <2>1. PICK bl : Fread(t, "take_read", [th[t] EXCEPT !.at = "take_write", !.bl = bl])
    BY <1>3 DEF ReadTake
  <2>2. PICK y : y = [th[t] EXCEPT !.at = "take_write", !.bl = bl]
    OBVIOUS
  <2>3. /\ DOMAIN y = Fields
        /\ y.req = th[t].req /\ y.f = th[t].f /\ y.n = th[t].n /\ y.v = th[t].v /\ y.got = th[t].got
        /\ y.at = "take_write"
    BY <1>0, <2>2 DEF Fields
  <2>4. QED
    BY <1>1, <2>1, <2>2, <2>3 DEF ExtendSteps
<1>4. CASE ReadPay(t)
  <2>1. PICK x : Fread(t, "pay_read", [th[t] EXCEPT !.at = "pay_write", !.buf = x])
    BY <1>4 DEF ReadPay
  <2>2. PICK y : y = [th[t] EXCEPT !.at = "pay_write", !.buf = x]
    OBVIOUS
  <2>3. /\ DOMAIN y = Fields
        /\ y.req = th[t].req /\ y.f = th[t].f /\ y.n = th[t].n /\ y.v = th[t].v /\ y.got = th[t].got
        /\ y.at = "pay_write"
    BY <1>0, <2>2 DEF Fields
  <2>4. QED
    BY <1>1, <2>1, <2>2, <2>3
<1>5. QED
  BY <1>2, <1>3, <1>4

\* Nothing of the store changes with what is not a block of a file.
LEMMA SteadyUnchanged == ASSUME UNCHANGED <<dev, seqs>> PROVE Steady
BY DEF Steady, HeadSize, Loc, Data

\* A step that keeps every file block by block keeps the files of the store.
LEMMA SteadyFilesKept ==
  ASSUME OInv, \A f \in File : SameFile(f)
  PROVE  Steady
<1> SUFFICES ASSUME NEW f \in File
             PROVE  /\ HeadSize(f)' = HeadSize(f)
                    /\ \A n \in Nat : n < HeadSize(f) => Data(dev[Loc(f, n)])' = Data(dev[Loc(f, n)])
  BY DEF Steady
<1>1. HeadSize(f) \in Nat /\ Len(seqs[f]) \in Nat /\ HeadSize(f) <= Len(seqs[f]) /\ 0 < Len(seqs[f])
  BY HeadSizes
<1>2. \A n \in Nat : n < Len(seqs[f]) => Data(dev[Loc(f, n)])' = Data(dev[Loc(f, n)])
  BY DEF SameFile
<1>3. Data(dev[Loc(f, 0)])' = Data(dev[Loc(f, 0)])
  BY <1>1, <1>2
<1>4. HeadSize(f)' = HeadSize(f)
  BY <1>3 DEF HeadSize
<1>5. QED
  BY <1>1, <1>2, <1>4

\* Bitmap and table blocks are outside every file.
LEMMA SteadyFronts ==
  ASSUME OInv, Orderly, NEW t \in Thread, WriteBits(t) \/ WriteTable(t)
  PROVE  Steady
<1>1. Device /\ Lists
  BY DEF OInv
<1>2. PICK p \in {BitPos, TblPos} : \E x : dev' = [dev EXCEPT ![p] = x]
  <2>1. CASE WriteBits(t)
    BY <2>1, WriteMoves, TargetIs DEF WriteBits, Orderly
  <2>2. CASE WriteTable(t)
    BY <2>2, WriteMoves, TargetIs DEF WriteTable, Orderly
  <2>3. QED
    BY <2>1, <2>2
<1>3. PICK x : dev' = [dev EXCEPT ![p] = x]
  BY <1>2
<1>4. UNCHANGED <<bitmap, seqs>>
  BY DEF WriteBits, WriteTable, Fwrite, Transfer
<1>5. \A f \in File : SameFile(f)
  BY <1>1, <1>3, <1>4, FrontWritten
<1>6. QED
  BY <1>5, SteadyFilesKept

\* The table of a cluster is outside every file.
LEMMA SteadyTake ==
  ASSUME OInv, Orderly, NEW t \in Thread, WriteTake(t)
  PROVE  Steady
<1>0. th[t].at # "idle" /\ th[t].at = "take_write"
  BY DEF WriteTake, Fwrite, Transfer
<1>1. Request(th[t]) /\ Extends(th[t])
  BY <1>0 DEF OInv, Request, ExtendSteps, HeadStep
<1>2. PICK c \in Cluster : c = th[t].c
  BY <1>0, <1>1 DEF Extends
<1>3. PICK x : dev' = [dev EXCEPT ![At(c, 0)] = x]
  BY <1>0, <1>2, WriteMoves, TargetIs DEF WriteTake, Orderly, CtabStep
<1>4. UNCHANGED <<bitmap, seqs>>
  BY DEF WriteTake, Fwrite, Transfer
<1>5. ASSUME NEW g \in File, NEW m \in Nat, m < Len(seqs[g])
      PROVE  Data(dev[Loc(g, m)])' = Data(dev[Loc(g, m)])
  <2>1. /\ seqs[g][m + 1][1] \in Cluster /\ seqs[g][m + 1][2] \in Slot
        /\ Loc(g, m) = At(seqs[g][m + 1][1], seqs[g][m + 1][2]) /\ Loc(g, m) \in 0..Last
    BY <1>5, LocAt DEF OInv
  <2>2. Loc(g, m) # At(c, 0)
    BY <2>1, Fronts
  <2>3. dev'[Loc(g, m)] = dev[Loc(g, m)]
    BY <1>3, <2>1, <2>2 DEF OInv, Device
  <2>4. Loc(g, m)' = Loc(g, m)
    BY <1>4 DEF Loc
  <2>5. QED
    BY <2>3, <2>4 DEF Data
<1>6. \A g \in File : SameFile(g)
  BY <1>4, <1>5 DEF SameFile
<1>7. QED
  BY <1>6, SteadyFilesKept

\* A list that grows at its end keeps the blocks below the size.
LEMMA SteadyLink ==
  ASSUME OInv, NEW t \in Thread, Link(t)
  PROVE  Steady
<1>1. PICK x : seqs' = [seqs EXCEPT ![th[t].f] = Append(@, x)]
  BY DEF Link
<1>2. th[t].f \in File
  BY AtBusy DEF Link
<1>3. PICK f \in File : f = th[t].f
  BY <1>2
<1>4. dev' = dev /\ Lists
  BY DEF Link, OInv
<1>5. ASSUME NEW g \in File, NEW m \in Nat, m < Len(seqs[g]) PROVE Loc(g, m)' = Loc(g, m)
  <2>1. CASE g = f
    <3>1. seqs[f] \in Seq(Block) /\ seqs'[f] = Append(seqs[f], x)
      BY <1>1, <1>3, <1>4 DEF Lists
    <3>2. m + 1 \in 1..Len(seqs[f])
      BY <1>5, <2>1, <3>1, LenProperties
    <3>3. seqs'[f][m + 1] = seqs[f][m + 1]
      BY <3>1, <3>2
    <3>4. QED
      BY <2>1, <3>3 DEF Loc
  <2>2. CASE g # f
    <3>1. seqs'[g] = seqs[g]
      BY <1>1, <1>3, <1>4, <2>2 DEF Lists
    <3>2. QED
      BY <3>1 DEF Loc
  <2>3. QED
    BY <2>1, <2>2
<1>6. ASSUME NEW g \in File, NEW m \in Nat, m < Len(seqs[g])
      PROVE  Data(dev[Loc(g, m)])' = Data(dev[Loc(g, m)])
  BY <1>4, <1>5, <1>6 DEF Data
<1>7. ASSUME NEW g \in File
      PROVE  /\ HeadSize(g)' = HeadSize(g)
             /\ \A m \in Nat : m < HeadSize(g) => Data(dev[Loc(g, m)])' = Data(dev[Loc(g, m)])
  <2>1. HeadSize(g) \in Nat /\ Len(seqs[g]) \in Nat /\ HeadSize(g) <= Len(seqs[g]) /\ 0 < Len(seqs[g])
    BY HeadSizes
  <2>2. Data(dev[Loc(g, 0)])' = Data(dev[Loc(g, 0)])
    BY <1>6, <2>1
  <2>3. HeadSize(g)' = HeadSize(g)
    BY <2>2 DEF HeadSize
  <2>4. QED
    BY <1>6, <2>1, <2>3
<1>8. QED
  BY <1>7 DEF Steady

-----------------------------------------------------------------------------
(* Every step is one of the store, or none.                                 *)

\* A step that takes no effect and keeps the files is a stutter of the store.
LEMMA InnerStutters ==
  ASSUME OInv, Orderly, OInv', NEW t \in Thread, Inner(t), Steady
  PROVE  UNCHANGED <<Files, Calls>>
<1>1. PICK x : x = th'[t]
  OBVIOUS
<1>2. Moves(t, x)
  BY <1>1, FieldsOf DEF Inner, Within, Moves, OInv, Shape
<1>3. Busy(t)
  <2>1. th[t].at # "idle"
    BY DEF Inner, ExtendSteps
  <2>2. QED
    BY <2>1, AtBusy
<1>4. Took(th[t])' = Took(th[t])
  BY DEF Inner, Took, ExtendSteps, HeadStep
<1>5. QED
  BY <1>1, <1>2, <1>3, <1>4, Stutters DEF Inner, Within

\* fseek is a stutter of the store.
LEMMA SeekStutters ==
  ASSUME OInv, NEW t \in Thread, Seek(t)
  PROVE  UNCHANGED <<Files, Calls>>
<1>0. th[t].at # "idle" /\ UNCHANGED <<dev, seqs>>
  BY DEF Seek, DevStep, CtabStep, DataStep, HeadStep
<1>1. PICK x : x = [th[t] EXCEPT !.sought = TRUE]
  OBVIOUS
<1>2. /\ DOMAIN x = Fields /\ x.req = th[t].req /\ x.f = th[t].f /\ x.n = th[t].n /\ x.v = th[t].v
      /\ x.at = th[t].at /\ x.got = th[t].got
  BY <1>0, <1>1, AtBusy DEF Fields
<1>3. Moves(t, x)
  BY <1>1, <1>2, FieldsOf DEF Seek, Moves, Fields
<1>4. th'[t] = x
  BY <1>3, Moved DEF OInv
<1>5. Steady
  BY <1>0, SteadyUnchanged
<1>6. HeadSize(th[t].f)' = HeadSize(th[t].f)
  BY <1>0, <1>2, <1>4 DEF HeadSize, Loc
<1>7. Took(th[t])' = Took(th[t])
  BY <1>2, <1>4, <1>6 DEF Took
<1>8. QED
  BY <1>0, <1>2, <1>3, <1>5, <1>7, AtBusy, Stutters

\* dev_set_file_size has read the header.
LEMMA ReadHeadStutters ==
  ASSUME OInv, NEW t \in Thread, ReadHead(t)
  PROVE  UNCHANGED <<Files, Calls>>
<1>0. th[t].at # "idle" /\ th[t].at = "head_read" /\ DOMAIN th[t] = Fields
  BY FieldsOf DEF ReadHead, Fread, Transfer
<1>1. PICK y : y = [th[t] EXCEPT !.at = "head_write", !.buf = Data(dev[pos])]
  OBVIOUS
<1>2. /\ DOMAIN y = Fields /\ y.req = th[t].req /\ y.f = th[t].f /\ y.n = th[t].n /\ y.v = th[t].v
      /\ y.at = "head_write" /\ y.got = th[t].got
  BY <1>0, <1>1 DEF Fields
<1>3. Fread(t, "head_read", y)
  BY <1>1 DEF ReadHead
<1>4. PICK x : x = [y EXCEPT !.sought = FALSE]
  OBVIOUS
<1>5. /\ Moves(t, x) /\ x.req = th[t].req /\ x.f = th[t].f /\ x.n = th[t].n /\ x.v = th[t].v
      /\ x.at = "head_write" /\ x.got = th[t].got /\ UNCHANGED <<dev, seqs>>
  BY <1>2, <1>3, <1>4 DEF Moves, Fread, Transfer, Fields
<1>6. th'[t] = x
  BY <1>5, Moved DEF OInv
<1>7. HeadSize(th[t].f)' = HeadSize(th[t].f)
  BY <1>5, <1>6 DEF HeadSize, Loc
<1>8. Took(th[t])' = Took(th[t])
  BY <1>0, <1>5, <1>6, <1>7 DEF Took, HeadStep
<1>9. QED
  BY <1>0, <1>5, <1>8, AtBusy, SteadyUnchanged, Stutters

\* A request begins where the store lets it.
LEMMA BeginRefines ==
  ASSUME OInv, NEW t \in Thread, NEW req \in {"read", "write"}, NEW f \in File, NEW n, NEW v,
         Begin(t, req, f, n, v)
  PROVE  Store!Begin(t, req, f, n, v)
<1>1. PICK x : x = [Idle EXCEPT !.req = req, !.f = f, !.n = n, !.v = v,
                      !.at = CASE req = "read" -> "size_read"
                               [] req = "write" /\ n >= Len(seqs[f]) -> "find"
                               [] OTHER -> "pay_read"]
  OBVIOUS
<1>2. /\ DOMAIN x = Fields /\ x.req = req /\ x.f = f /\ x.n = n /\ x.v = v /\ x.got = Nothing
      /\ x.at \in {"size_read", "find", "pay_read"} /\ (req = "write" => x.at # "size_read")
  BY <1>1 DEF Idle, Fields
<1>3. Moves(t, x) /\ UNCHANGED <<dev, seqs>>
  BY <1>1, <1>2 DEF Begin, Moves
<1>4. th'[t] = x
  BY <1>3, Moved DEF OInv
<1>5. UNCHANGED Files
  BY <1>3, SteadyUnchanged, SteadyFiles
<1>6. ASSUME NEW u \in Thread, u # t PROVE HeadSize(th[u].f)' = HeadSize(th[u].f)
  <2>1. th'[u] = th[u]
    BY <1>3, <1>6, Moved DEF OInv
  <2>2. QED
    BY <1>3, <2>1 DEF HeadSize, Loc
<1>7. Calls' = [Calls EXCEPT ![t] = CallOf(th[t])']
  BY <1>3, <1>6, OtherCalls
<1>8. Took(th[t])' = FALSE
  BY <1>2, <1>4 DEF Took, HeadStep
<1>9. CallOf(th[t])' = [req |-> req, f |-> f, n |-> n, v |-> v, done |-> FALSE, got |-> Nothing]
  BY <1>2, <1>4, <1>8, Zenon DEF CallOf
<1>10. \A u \in Thread : Calls[u].req = th[u].req /\ Calls[u].f = th[u].f
  BY CallsAre DEF CallOf
<1>11. Len(Files[f]) = HeadSize(f)
  BY StoreFile
<1>12. QED
  BY <1>5, <1>7, <1>9, <1>10, <1>11 DEF Begin, Store!Begin

\* An answer given is the answer of the store: what was read, or the write that took effect.
LEMMA EndRefines ==
  ASSUME OInv, NEW t \in Thread, End(t)
  PROVE  Store!End(t)
<1>1. PICK x : x = Idle
  OBVIOUS
<1>2. Moves(t, x) /\ UNCHANGED <<dev, seqs>>
  BY <1>1, IdleShape DEF End, Moves
<1>3. th'[t] = x
  BY <1>2, Moved DEF OInv
<1>4. UNCHANGED Files
  BY <1>2, SteadyUnchanged, SteadyFiles
<1>5. ASSUME NEW u \in Thread, u # t PROVE HeadSize(th[u].f)' = HeadSize(th[u].f)
  <2>1. th'[u] = th[u]
    BY <1>2, <1>5, Moved DEF OInv
  <2>2. QED
    BY <1>2, <2>1 DEF HeadSize, Loc
<1>6. Calls' = [Calls EXCEPT ![t] = CallOf(th[t])']
  BY <1>2, <1>5, OtherCalls
<1>7. Took(th[t])' = FALSE
  BY <1>1, <1>3 DEF Took, HeadStep, Idle
<1>8. CallOf(th[t])' = Store!Idle
  <2>1. /\ x.req = "idle" /\ x.f = 0 /\ x.n = 0 /\ x.v = Nothing /\ x.got = Nothing
    BY <1>1 DEF Idle
  <2>2. QED
    BY <1>3, <1>7, <2>1, Zenon DEF CallOf, Store!Idle
<1>9. Calls[t].done
  BY CallsAre DEF CallOf, Took, End
<1>10. QED
  BY <1>4, <1>6, <1>8, <1>9 DEF Store!End

TookFrom(c, d, h) ==
  /\ c = [x \in {"req", "f", "n", "v", "got", "done"} |-> c[x]]
  /\ d = [x \in {"req", "f", "n", "v", "got", "done"} |-> d[x]]
  /\ d.req = c.req /\ d.f = c.f /\ d.n = c.n /\ d.v = c.v /\ d.got = h /\ d.done = TRUE

TookTo(c, d, h) == /\ d = [c EXCEPT !.done = TRUE, !.got = h]
                   /\ h = c.got => d = [c EXCEPT !.done = TRUE]

\* A record of a request that takes effect.
LEMMA CallRecords ==
  ASSUME NEW c, NEW d, NEW h,
         TookFrom(c, d, h)
  PROVE  TookTo(c, d, h)
<1> USE DEF TookFrom
<1> DEFINE F == {"req", "f", "n", "v", "got", "done"}
<1>1. PICK e : e = [c EXCEPT !.done = TRUE, !.got = h]
  OBVIOUS
<1>2. DOMAIN e = F /\ e.req = c.req /\ e.f = c.f /\ e.n = c.n /\ e.v = c.v /\ e.got = h /\ e.done = TRUE
  BY <1>1
<1>3. e = [x \in F |-> e[x]]
  BY <1>1, <1>2
<1>4. e = d
  <2>1. /\ e["req"] = d["req"] /\ e["f"] = d["f"] /\ e["n"] = d["n"] /\ e["v"] = d["v"]
        /\ e["got"] = d["got"] /\ e["done"] = d["done"]
    BY <1>2
  <2>2. \A x \in F : e[x] = d[x]
    BY <2>1
  <2>3. QED
    BY <1>3, <2>2, Zenon
<1>5. PICK g : g = [c EXCEPT !.done = TRUE]
  OBVIOUS
<1>6. DOMAIN g = F /\ g.req = c.req /\ g.f = c.f /\ g.n = c.n /\ g.v = c.v /\ g.got = c.got /\ g.done = TRUE
  BY <1>5
<1>7. g = [x \in F |-> g[x]]
  BY <1>5, <1>6
<1>8. h = c.got => g = d
  <2> HAVE h = c.got
  <2>1. /\ g["req"] = d["req"] /\ g["f"] = d["f"] /\ g["n"] = d["n"] /\ g["v"] = d["v"]
        /\ g["got"] = d["got"] /\ g["done"] = d["done"]
    BY <1>6
  <2>2. \A x \in F : g[x] = d[x]
    BY <2>1
  <2>3. QED
    BY <1>7, <2>2, Zenon
<1>9. QED
  BY <1>1, <1>4, <1>5, <1>8, Zenon DEF TookTo

TookWith(t, got) == Calls' = [Calls EXCEPT ![t].done = TRUE, ![t].got = got]
TookOnly(t)      == Calls' = [Calls EXCEPT ![t].done = TRUE]
Pending(t)       == Calls[t].done = FALSE

\* A request takes effect: that, and its answer, is all that changes of it.
LEMMA TakesEffect ==
  ASSUME OInv, NEW t \in Thread, NEW x, Moves(t, x),
         x.req = th[t].req, x.f = th[t].f, x.n = th[t].n, x.v = th[t].v,
         Took(th[t])' = TRUE, Took(th[t]) = FALSE,
         \A u \in Thread : u # t /\ Busy(u) => HeadSize(th[u].f)' = HeadSize(th[u].f)
  PROVE  /\ Pending(t) /\ TookWith(t, x.got) /\ (x.got = th[t].got => TookOnly(t))
         /\ Calls[t].req = th[t].req /\ Calls[t].f = th[t].f /\ Calls[t].n = th[t].n
         /\ Calls[t].v = th[t].v
<1>1. th'[t] = x
  BY Moved DEF OInv
<1>2. Calls' = [Calls EXCEPT ![t] = CallOf(th[t])']
  BY OtherCalls
<1>3. Calls[t] = CallOf(th[t]) /\ Calls = [u \in Thread |-> Calls[u]]
  BY CallsAre
<1>4. CallOf(th[t])' = [req |-> th[t].req, f |-> th[t].f, n |-> th[t].n, v |-> th[t].v,
                        got |-> x.got, done |-> TRUE]
  BY <1>1, Zenon DEF CallOf
<1>5. Calls[t] = [req |-> th[t].req, f |-> th[t].f, n |-> th[t].n, v |-> th[t].v,
                  got |-> th[t].got, done |-> FALSE]
  BY <1>3, Zenon DEF CallOf
<1>6. PICK c, d : c = Calls[t] /\ d = CallOf(th[t])'
  OBVIOUS
<1>0. /\ c = [req |-> th[t].req, f |-> th[t].f, n |-> th[t].n, v |-> th[t].v,
              got |-> th[t].got, done |-> FALSE]
      /\ d = [req |-> th[t].req, f |-> th[t].f, n |-> th[t].n, v |-> th[t].v,
              got |-> x.got, done |-> TRUE]
  BY <1>4, <1>5, <1>6
<1>7. TookFrom(c, d, x.got) /\ c.got = th[t].got
  BY <1>0 DEF TookFrom
<1>8. TookTo(c, d, x.got)
  BY <1>7, CallRecords, Zenon
<1>9. TookWith(t, x.got)
  BY <1>2, <1>3, <1>6, <1>8 DEF TookWith, TookTo
<1>10. x.got = th[t].got => TookOnly(t)
  BY <1>2, <1>3, <1>6, <1>7, <1>8 DEF TookOnly, TookTo
<1>11. /\ Pending(t) /\ Calls[t].req = th[t].req /\ Calls[t].f = th[t].f
       /\ Calls[t].n = th[t].n /\ Calls[t].v = th[t].v
  BY <1>5 DEF Pending
<1>12. QED
  BY <1>3, <1>9, <1>10, <1>11, Zenon

\* dev_file_size: behind the end of its file a read takes effect.
LEMMA ReadSizeRefines ==
  ASSUME OInv, Orderly, NEW t \in Thread, ReadSize(t)
  PROVE  UNCHANGED <<Files, Calls>> \/ Store!Read(t)
<1>0. th[t].at # "idle" /\ th[t].at = "size_read"
  BY DEF ReadSize, Fread, Transfer
<1>1. PICK sz : sz = Data(dev[pos]).size
  OBVIOUS
<1>2. PICK at : at = IF th[t].req = "write" THEN "head_read"
                     ELSE IF th[t].req = "read" /\ th[t].n < sz THEN "data_read" ELSE "answer"
  OBVIOUS
<1>3. PICK y : y = [th[t] EXCEPT !.size = sz, !.at = at]
  OBVIOUS
<1>4. /\ DOMAIN y = Fields /\ y.req = th[t].req /\ y.f = th[t].f /\ y.n = th[t].n /\ y.v = th[t].v
      /\ y.got = th[t].got /\ y.at = at
  BY <1>0, <1>3, AtBusy DEF Fields
<1>5. Fread(t, "size_read", y)
  <2>1. at = CASE th[t].req = "write" -> "head_read"
               [] th[t].req = "read" /\ th[t].n < sz -> "data_read"
               [] OTHER -> "answer"
    BY <1>2
  <2>2. QED
    BY <1>1, <1>3, <2>1, Zenon DEF ReadSize
<1>6. PICK x : /\ Moves(t, x) /\ th'[t] = x /\ pos = Target(t) /\ UNCHANGED <<dev, bitmap, clrs, seqs>>
               /\ x.req = y.req /\ x.f = y.f /\ x.n = y.n /\ x.v = y.v /\ x.at = y.at /\ x.got = y.got
  BY <1>4, <1>5, ReadMoves DEF Orderly
<1>7. /\ x.req = th[t].req /\ x.f = th[t].f /\ x.n = th[t].n /\ x.v = th[t].v
      /\ x.at = at /\ x.got = th[t].got
  BY <1>4, <1>6
<1>8. sz = HeadSize(th[t].f)
  BY <1>0, <1>1, <1>6, TargetIs DEF HeadStep, HeadSize
<1>9. Request(th[t]) /\ Busy(t) /\ th[t].f \in File /\ th[t].n \in Nat
  BY <1>0, AtBusy
<1>10. Steady
  BY <1>6, SteadyUnchanged
<1>11. HeadSize(th[t].f)' = HeadSize(th[t].f)
  BY <1>6, <1>7 DEF HeadSize, Loc
<1>12. CASE th[t].req = "write" \/ at = "data_read"
  <2>1. Took(th[t])' = Took(th[t])
    <3>1. CASE th[t].req = "write"
      BY <1>0, <1>2, <1>6, <1>7, <1>11, <3>1 DEF Took, HeadStep
    <3>2. CASE th[t].req # "write" /\ at = "data_read"
      BY <1>0, <1>2, <1>6, <1>7, <3>2 DEF Took, HeadStep
    <3>3. QED
      BY <1>12, <3>1, <3>2
  <2>2. QED
    BY <1>6, <1>7, <1>9, <1>10, <2>1, Stutters
<1>13. CASE th[t].req # "write" /\ at = "answer"
  <2>1. th[t].req = "read" /\ th[t].got = Nothing /\ ~(th[t].n < HeadSize(th[t].f))
    BY <1>0, <1>2, <1>8, <1>9, <1>13 DEF Request, Busy
  <2>2. Took(th[t])' = TRUE /\ Took(th[t]) = FALSE
    BY <1>0, <1>6, <1>7, <1>13 DEF Took
  <2>3. \A u \in Thread : u # t /\ Busy(u) => HeadSize(th[u].f)' = HeadSize(th[u].f)
    <3>1. \A u \in Thread : u # t => th'[u] = th[u]
      BY <1>6, Moved DEF OInv
    <3>2. QED
      BY <1>6, <3>1 DEF HeadSize, Loc
  <2>4. /\ Pending(t) /\ Calls[t].req = "read" /\ Calls[t].f = th[t].f /\ Calls[t].n = th[t].n
        /\ TookWith(t, Nothing)
    BY <1>6, <1>7, <2>1, <2>2, <2>3, TakesEffect
  <2>5. Len(Files[th[t].f]) = HeadSize(th[t].f)
    BY <1>9, StoreFile
  <2>6. UNCHANGED Files
    BY <1>10, SteadyFiles
  <2>7. QED
    BY <2>1, <2>4, <2>5, <2>6 DEF Store!Read, Pending, TookWith
<1>14. QED
  BY <1>2, <1>12, <1>13

\* A read before the end takes effect with the transfer of its block.
LEMMA ReadDataRefines ==
  ASSUME OInv, Orderly, NEW t \in Thread, ReadData(t)
  PROVE  Store!Read(t)
<1>0. th[t].at # "idle" /\ th[t].at = "data_read"
  BY DEF ReadData, Fread, Transfer
<1>1. PICK got : got = Data(dev[pos]).pay
  OBVIOUS
<1>2. PICK y : y = [th[t] EXCEPT !.at = "answer", !.got = got]
  OBVIOUS
<1>3. /\ DOMAIN y = Fields /\ y.req = th[t].req /\ y.f = th[t].f /\ y.n = th[t].n /\ y.v = th[t].v
      /\ y.at = "answer" /\ y.got = got
  BY <1>0, <1>2, AtBusy DEF Fields
<1>4. Fread(t, "data_read", y)
  BY <1>1, <1>2 DEF ReadData
<1>5. PICK x : /\ Moves(t, x) /\ th'[t] = x /\ pos = Target(t) /\ UNCHANGED <<dev, bitmap, clrs, seqs>>
               /\ x.req = y.req /\ x.f = y.f /\ x.n = y.n /\ x.v = y.v /\ x.at = y.at /\ x.got = y.got
  BY <1>3, <1>4, ReadMoves DEF Orderly
<1>6. Request(th[t]) /\ th[t].req = "read" /\ Busy(t)
  BY <1>0, AtBusy DEF Request, ExtendSteps, HeadStep
<1>7. PICK f \in File, n \in Nat : f = th[t].f /\ n = th[t].n /\ n < HeadSize(f)
  BY <1>0, <1>6, AtBusy DEF Request
<1>8. got = Data(dev[Loc(f, n)]).pay
  BY <1>0, <1>1, <1>5, <1>7, TargetIs DEF DataStep
<1>9. Took(th[t])' = TRUE /\ Took(th[t]) = FALSE
  BY <1>0, <1>3, <1>5, <1>6 DEF Took
<1>10. \A u \in Thread : u # t /\ Busy(u) => HeadSize(th[u].f)' = HeadSize(th[u].f)
  <2>1. \A u \in Thread : u # t => th'[u] = th[u]
    BY <1>5, Moved DEF OInv
  <2>2. QED
    BY <1>5, <2>1 DEF HeadSize, Loc
<1>11. /\ Pending(t) /\ Calls[t].req = "read" /\ Calls[t].f = f /\ Calls[t].n = n
       /\ TookWith(t, got)
  BY <1>3, <1>5, <1>6, <1>7, <1>9, <1>10, TakesEffect, ZenonT(30)
<1>12. n < Len(Files[f]) /\ Files[f][n + 1] = got
  <2>1. Files[f] = [m \in 1..HeadSize(f) |-> Data(dev[Loc(f, m - 1)]).pay] /\ Len(Files[f]) = HeadSize(f)
    BY StoreFile
  <2>2. HeadSize(f) \in Nat /\ n + 1 \in 1..HeadSize(f) /\ (n + 1) - 1 = n
    BY <1>7, HeadSizes
  <2>3. QED
    BY <1>7, <1>8, <2>1, <2>2
<1>13. UNCHANGED Files
  BY <1>5, SteadyUnchanged, SteadyFiles
<1>14. QED
  BY <1>11, <1>12, <1>13 DEF Store!Read, Pending, TookWith

\* A payload put in its place is what the store has of the file afterwards.
LEMMA PutsPayload ==
  ASSUME OInv, OInv', NEW f \in File, NEW n \in Nat, NEW v, n <= HeadSize(f),
         HeadSize(f)' = IF n = HeadSize(f) THEN n + 1 ELSE HeadSize(f),
         Data(dev[Loc(f, n)])'.pay = v,
         \A m \in Nat : m < HeadSize(f) /\ m # n =>
           Data(dev[Loc(f, m)])'.pay = Data(dev[Loc(f, m)]).pay,
         \A g \in File : g # f =>
           /\ HeadSize(g)' = HeadSize(g)
           /\ \A m \in Nat : m < HeadSize(g) => Data(dev[Loc(g, m)])' = Data(dev[Loc(g, m)])
  PROVE  Files' = [Files EXCEPT ![f] = Store!Put(@, n, v)]
<1>1. HeadSize(f) \in Nat
  BY HeadSizes
<1>2. PICK s : s = Files[f]
  OBVIOUS
<1>3. s = [m \in 1..HeadSize(f) |-> Data(dev[Loc(f, m - 1)]).pay] /\ Len(s) = HeadSize(f)
  BY <1>2, StoreFile
<1>4. Files'[f] = [m \in 1..HeadSize(f)' |-> Data(dev[Loc(f, m - 1)])'.pay]
  BY Zenon DEF Files
<1>5. PICK k \in Nat : k = HeadSize(f)' /\ k = IF n = Len(s) THEN n + 1 ELSE Len(s)
  BY <1>1, <1>3
<1>6. ASSUME NEW m \in 1..k
      PROVE  Data(dev[Loc(f, m - 1)])'.pay = IF m = n + 1 THEN v ELSE s[m]
  <2>1. CASE m = n + 1
    <3>1. m - 1 = n
      BY <2>1
    <3>2. Data(dev[Loc(f, m - 1)])'.pay = v
      BY <3>1
    <3>3. QED
      BY <2>1, <3>2
  <2>2. CASE m # n + 1
    <3>1. m - 1 \in Nat /\ m - 1 < HeadSize(f) /\ m - 1 # n /\ m \in 1..HeadSize(f)
      BY <1>1, <1>3, <1>5, <2>2
    <3>2. Data(dev[Loc(f, m - 1)])'.pay = Data(dev[Loc(f, m - 1)]).pay
      BY <3>1
    <3>3. QED
      BY <1>3, <2>2, <3>1, <3>2
  <2>3. QED
    BY <2>1, <2>2
<1>7. Store!Put(s, n, v) = [m \in 1..k |-> IF m = n + 1 THEN v ELSE s[m]]
  BY <1>5 DEF Store!Put
<1>8. Files'[f] = [m \in 1..k |-> Data(dev[Loc(f, m - 1)])'.pay]
  BY <1>4, <1>5
<1>9. Files'[f] = Store!Put(s, n, v)
  BY <1>6, <1>7, <1>8
<1>10. ASSUME NEW g \in File, g # f PROVE Files'[g] = Files[g]
  <2>1. Files[g] = [m \in 1..HeadSize(g) |-> Data(dev[Loc(g, m - 1)]).pay]
    BY Zenon DEF Files
  <2>2. Files'[g] = [m \in 1..HeadSize(g)' |-> Data(dev[Loc(g, m - 1)])'.pay]
    BY Zenon DEF Files
  <2>3. HeadSize(g)' = HeadSize(g) /\ HeadSize(g) \in Nat
    BY <1>10, HeadSizes
  <2>4. ASSUME NEW m \in 1..HeadSize(g)
        PROVE  Data(dev[Loc(g, m - 1)])' = Data(dev[Loc(g, m - 1)])
    <3>1. m - 1 \in Nat /\ m - 1 < HeadSize(g)
      BY <2>3
    <3>2. QED
      BY <1>10, <3>1
  <2>5. QED
    BY <2>1, <2>2, <2>3, <2>4, Zenon
<1>11. Files' = [g \in File |-> Files'[g]] /\ Files = [g \in File |-> Files[g]]
  BY Zenon DEF Files
<1>12. QED
  BY <1>2, <1>9, <1>10, <1>11

\* A payload within the file takes effect when it is written; one behind its end
\* is not seen yet.
LEMMA WritePayRefines ==
  ASSUME OInv, Orderly, OInv', NEW t \in Thread, WritePay(t)
  PROVE  UNCHANGED <<Files, Calls>> \/ Store!Write(t)
<1>0. th[t].at # "idle" /\ th[t].at = "pay_write"
  BY DEF WritePay, Fwrite, Transfer
<1>1. PICK y : y = [th[t].buf EXCEPT !.pay = th[t].v]
  OBVIOUS
<1>2. dev' = [dev EXCEPT ![Target(t)] = y] /\ UNCHANGED <<bitmap, clrs, seqs>> /\ Goto(t, "size_read")
  BY <1>1, WriteMoves DEF WritePay, Orderly
<1>3. PICK x : /\ Moves(t, x) /\ th'[t] = x /\ x.at = "size_read"
               /\ x.req = th[t].req /\ x.f = th[t].f /\ x.n = th[t].n /\ x.v = th[t].v /\ x.got = th[t].got
  BY <1>2, GotoMoves
<1>4. Request(th[t]) /\ Writes(th[t]) /\ th[t].req = "write" /\ Busy(t)
  BY <1>0, AtBusy DEF Request, ExtendSteps
<1>5. PICK f \in File, n \in Nat, v \in Pay :
        f = th[t].f /\ n = th[t].n /\ v = th[t].v /\ n < Len(seqs[f]) /\ n <= HeadSize(f)
  BY <1>0, <1>4, AtBusy DEF Writes, Request
<1>6. Target(t) = Loc(f, n)
  BY <1>0, <1>5, TargetIs DEF DataStep
<1>7. th[t].buf \in Payloads /\ th[t].buf = Data(dev[Loc(f, n)])
  <2>1. seqs[f][n + 1][1] \in Cluster /\ seqs[f][n + 1][2] \in Slot
        /\ Loc(f, n) = At(seqs[f][n + 1][1], seqs[f][n + 1][2])
    BY <1>5, LocAt DEF OInv
  <2>2. QED
    BY <1>0, <1>4, <1>5, <2>1, ZenonT(30) DEF Writes, OInv, Device
<1>8. y \in Payloads /\ y.size = th[t].buf.size /\ y.pay = v
  BY <1>1, <1>4, <1>5, <1>7 DEF Payloads, Request
<1>9. /\ Data(dev[Loc(f, n)])' = y
      /\ \A g \in File : \A m \in Nat : m < Len(seqs[g]) /\ ~(g = f /\ m = n) =>
           Data(dev[Loc(g, m)])' = Data(dev[Loc(g, m)])
  <2>1. Overwrites(f, n, y)
    BY <1>2, <1>5, <1>6, <1>8 DEF Overwrites
  <2>2. Overwritten(f, n, y)
    BY <2>1, OverwriteIs
  <2>3. QED
    BY <2>2 DEF Overwritten
<1>10. ASSUME NEW g \in File
       PROVE  /\ HeadSize(g) \in Nat /\ HeadSize(g) <= Len(seqs[g]) /\ Len(seqs[g]) \in Nat
              /\ 0 < Len(seqs[g]) /\ HeadSize(g)' = HeadSize(g)
  <2>1. HeadSize(g) \in Nat /\ HeadSize(g) <= Len(seqs[g]) /\ Len(seqs[g]) \in Nat /\ 0 < Len(seqs[g])
    BY HeadSizes
  <2>2. HeadSize(g)' = HeadSize(g)
    <3>1. CASE g = f /\ n = 0
      BY <1>7, <1>8, <1>9, <3>1 DEF HeadSize
    <3>2. CASE ~(g = f /\ n = 0)
      <4>1. Data(dev[Loc(g, 0)])' = Data(dev[Loc(g, 0)])
        BY <1>9, <2>1, <3>2
      <4>2. QED
        BY <4>1 DEF HeadSize
    <3>3. QED
      BY <3>1, <3>2
  <2>3. QED
    BY <2>1, <2>2
<1>11. /\ n < HeadSize(f) => Took(th[t])' = TRUE
       /\ ~(n < HeadSize(f)) => Took(th[t])' = FALSE
       /\ Took(th[t]) = FALSE
  <2>1. HeadSize(th[t].f)' = HeadSize(f)
    <3>1. HeadSize(f)' = HeadSize(f) /\ th'[t].f = f
      BY <1>3, <1>5, <1>10
    <3>2. QED
      BY <3>1 DEF HeadSize
  <2>2. QED
    BY <1>0, <1>3, <1>4, <1>5, <2>1 DEF Took, HeadStep
<1>12. CASE n < HeadSize(f)
  <2>1. Files' = [Files EXCEPT ![f] = Store!Put(@, n, v)]
    <3>1. n <= HeadSize(f) /\ HeadSize(f)' = IF n = HeadSize(f) THEN n + 1 ELSE HeadSize(f)
      BY <1>10, <1>12
    <3>2. Data(dev[Loc(f, n)])'.pay = v
      BY <1>8, <1>9
    <3>3. \A m \in Nat : m < HeadSize(f) /\ m # n =>
            Data(dev[Loc(f, m)])'.pay = Data(dev[Loc(f, m)]).pay
      BY <1>9, <1>10
    <3>4. \A g \in File : g # f =>
            /\ HeadSize(g)' = HeadSize(g)
            /\ \A m \in Nat : m < HeadSize(g) => Data(dev[Loc(g, m)])' = Data(dev[Loc(g, m)])
      BY <1>9, <1>10
    <3>5. QED
      BY <3>1, <3>2, <3>3, <3>4, PutsPayload
  <2>2. \A u \in Thread : u # t /\ Busy(u) => HeadSize(th[u].f)' = HeadSize(th[u].f)
    <3> SUFFICES ASSUME NEW u \in Thread, u # t, Busy(u) PROVE HeadSize(th[u].f)' = HeadSize(th[u].f)
      OBVIOUS
    <3>1. PICK g \in File : g = th[u].f /\ g = th'[u].f
      BY <1>3, Moved DEF OInv, Request, Busy
    <3>2. HeadSize(g)' = HeadSize(g)
      BY <1>10
    <3>3. QED
      BY <3>1, <3>2 DEF HeadSize
  <2>3. /\ Pending(t) /\ TookOnly(t) /\ Calls[t].req = "write" /\ Calls[t].f = f
        /\ Calls[t].n = n /\ Calls[t].v = v
    <3>1. Took(th[t])' = TRUE /\ Took(th[t]) = FALSE
      BY <1>11, <1>12
    <3>2. QED
      BY <1>3, <1>4, <1>5, <2>2, <3>1, TakesEffect
  <2>4. Store!Write(t)
    BY <2>1, <2>3 DEF Store!Write, Pending, TookOnly
  <2>5. QED
    BY <2>4
<1>13. CASE ~(n < HeadSize(f))
  <2>1. Steady
    <3>1. ASSUME NEW g \in File, NEW m \in Nat, m < HeadSize(g)
          PROVE  Data(dev[Loc(g, m)])' = Data(dev[Loc(g, m)])
      <4>1. m < Len(seqs[g]) /\ ~(g = f /\ m = n)
        BY <1>10, <1>13, <3>1
      <4>2. QED
        BY <1>9, <4>1
    <3>2. QED
      BY <1>10, <3>1 DEF Steady
  <2>2. Took(th[t])' = Took(th[t])
    BY <1>11, <1>13
  <2>3. QED
    BY <1>3, <1>4, <2>1, <2>2, Stutters
<1>14. QED
  BY <1>12, <1>13

\* dev_set_file_size: a payload behind the end takes effect when the header covers it.
LEMMA WriteHeadRefines ==
  ASSUME OInv, Orderly, OInv', NEW t \in Thread, WriteHead(t)
  PROVE  UNCHANGED <<Files, Calls>> \/ Store!Write(t)
<1>0. th[t].at # "idle" /\ th[t].at = "head_write"
  BY DEF WriteHead, Fwrite, Transfer
<1>1. PICK sz : sz = IF th[t].size < th[t].n + 1 THEN th[t].n + 1 ELSE th[t].size
  OBVIOUS
<1>2. PICK y : y = [th[t].buf EXCEPT !.size = sz]
  OBVIOUS
<1>3. dev' = [dev EXCEPT ![Target(t)] = y] /\ UNCHANGED <<bitmap, clrs, seqs>> /\ Goto(t, "answer")
  BY <1>1, <1>2, WriteMoves DEF WriteHead, Orderly
<1>4. PICK x : /\ Moves(t, x) /\ th'[t] = x /\ x.at = "answer"
               /\ x.req = th[t].req /\ x.f = th[t].f /\ x.n = th[t].n /\ x.v = th[t].v /\ x.got = th[t].got
  BY <1>3, GotoMoves
<1>5. Request(th[t]) /\ Writes(th[t]) /\ th[t].req = "write" /\ Busy(t)
  BY <1>0, AtBusy DEF Request, ExtendSteps, HeadStep
<1>6. PICK f \in File, n \in Nat, v \in Pay :
        f = th[t].f /\ n = th[t].n /\ v = th[t].v /\ n < Len(seqs[f]) /\ n <= HeadSize(f)
  BY <1>0, <1>5, AtBusy DEF Writes, Request
<1>7. Target(t) = Loc(f, 0)
  BY <1>0, <1>6, TargetIs DEF HeadStep
<1>8. ASSUME NEW g \in File
      PROVE  /\ HeadSize(g) \in Nat /\ HeadSize(g) <= Len(seqs[g]) /\ Len(seqs[g]) \in Nat
             /\ 0 < Len(seqs[g])
  BY HeadSizes
<1>9. th[t].buf \in Payloads /\ th[t].buf = Data(dev[Loc(f, 0)]) /\ th[t].size = HeadSize(f)
      /\ Data(dev[Loc(f, n)]).pay = v
  <2>1. seqs[f][0 + 1][1] \in Cluster /\ seqs[f][0 + 1][2] \in Slot
        /\ Loc(f, 0) = At(seqs[f][0 + 1][1], seqs[f][0 + 1][2])
    BY <1>8, LocAt DEF OInv
  <2>2. QED
    BY <1>0, <1>5, <1>6, <2>1 DEF Writes, OInv, Device, HeadStep
<1>10. sz = IF n = HeadSize(f) THEN n + 1 ELSE HeadSize(f)
  BY <1>1, <1>6, <1>8, <1>9
<1>11. y \in Payloads /\ y.size = sz /\ y.pay = th[t].buf.pay
  BY <1>2, <1>6, <1>8, <1>9, <1>10 DEF Payloads
<1>12. /\ Data(dev[Loc(f, 0)])' = y
       /\ \A g \in File : \A m \in Nat : m < Len(seqs[g]) /\ ~(g = f /\ m = 0) =>
            Data(dev[Loc(g, m)])' = Data(dev[Loc(g, m)])
  <2>1. PICK z \in Nat : z = 0
    OBVIOUS
  <2>2. Overwrites(f, z, y)
    BY <1>3, <1>7, <1>8, <1>11, <2>1 DEF Overwrites
  <2>3. Overwritten(f, z, y)
    BY <2>2, OverwriteIs
  <2>4. /\ Data(dev[Loc(f, z)])' = y
        /\ \A g \in File : \A m \in Nat : m < Len(seqs[g]) /\ ~(g = f /\ m = z) =>
             Data(dev[Loc(g, m)])' = Data(dev[Loc(g, m)])
    BY <2>3 DEF Overwritten
  <2>5. QED
    BY <2>1, <2>4
<1>13. HeadSize(f)' = sz
  BY <1>11, <1>12 DEF HeadSize
<1>14. ASSUME NEW g \in File, g # f
       PROVE  /\ HeadSize(g)' = HeadSize(g)
              /\ \A m \in Nat : m < HeadSize(g) => Data(dev[Loc(g, m)])' = Data(dev[Loc(g, m)])
  <2>1. Data(dev[Loc(g, 0)])' = Data(dev[Loc(g, 0)])
    BY <1>8, <1>12, <1>14
  <2>2. \A m \in Nat : m < HeadSize(g) => Data(dev[Loc(g, m)])' = Data(dev[Loc(g, m)])
    BY <1>8, <1>12, <1>14
  <2>3. QED
    BY <2>1, <2>2 DEF HeadSize
<1>15. ASSUME NEW m \in Nat, m < Len(seqs[f])
       PROVE  Data(dev[Loc(f, m)])'.pay = Data(dev[Loc(f, m)]).pay
  <2>1. CASE m = 0
    BY <1>9, <1>11, <1>12, <2>1
  <2>2. CASE m # 0
    BY <1>12, <1>15, <2>2
  <2>3. QED
    BY <2>1, <2>2
<1>16. /\ Took(th[t])' = TRUE
       /\ n < HeadSize(f) => Took(th[t]) = TRUE
       /\ ~(n < HeadSize(f)) => Took(th[t]) = FALSE
  BY <1>0, <1>4, <1>5, <1>6 DEF Took, HeadStep
<1>17. \A u \in Thread : u # t /\ Busy(u) => HeadSize(th[u].f)' = HeadSize(th[u].f)
  <2> SUFFICES ASSUME NEW u \in Thread, u # t, Busy(u) PROVE HeadSize(th[u].f)' = HeadSize(th[u].f)
    OBVIOUS
  <2>1. PICK g \in File : g = th[u].f /\ g = th'[u].f
    BY <1>4, Moved DEF OInv, Request, Busy
  <2>2. g # f
    BY <1>5, <1>6, <2>1 DEF OInv, Alone
  <2>3. HeadSize(g)' = HeadSize(g)
    BY <1>14, <2>2
  <2>4. QED
    BY <2>1, <2>3 DEF HeadSize
<1>18. CASE n = HeadSize(f)
  <2>1. Files' = [Files EXCEPT ![f] = Store!Put(@, n, v)]
    <3>1. n <= HeadSize(f) /\ HeadSize(f)' = IF n = HeadSize(f) THEN n + 1 ELSE HeadSize(f)
      BY <1>6, <1>10, <1>13
    <3>2. Data(dev[Loc(f, n)])'.pay = v
      BY <1>6, <1>9, <1>15
    <3>3. \A m \in Nat : m < HeadSize(f) /\ m # n =>
            Data(dev[Loc(f, m)])'.pay = Data(dev[Loc(f, m)]).pay
      BY <1>8, <1>15
    <3>4. QED
      BY <1>14, <3>1, <3>2, <3>3, PutsPayload
  <2>2. /\ Pending(t) /\ TookOnly(t) /\ Calls[t].req = "write" /\ Calls[t].f = f
        /\ Calls[t].n = n /\ Calls[t].v = v
    <3>1. Took(th[t])' = TRUE /\ Took(th[t]) = FALSE
      BY <1>8, <1>16, <1>18
    <3>2. QED
      BY <1>4, <1>5, <1>6, <1>17, <3>1, TakesEffect
  <2>3. Store!Write(t)
    BY <2>1, <2>2 DEF Store!Write, Pending, TookOnly
  <2>4. QED
    BY <2>3
<1>19. CASE n # HeadSize(f)
  <2>1. n < HeadSize(f) /\ sz = HeadSize(f)
    BY <1>6, <1>8, <1>10, <1>19
  <2>2. y = Data(dev[Loc(f, 0)])
    BY <1>2, <1>9, <2>1 DEF Payloads, HeadSize
  <2>3. Steady
    <3>1. ASSUME NEW g \in File, NEW m \in Nat, m < HeadSize(g)
          PROVE  Data(dev[Loc(g, m)])' = Data(dev[Loc(g, m)])
      <4>1. CASE g = f /\ m = 0
        BY <1>12, <2>2, <4>1
      <4>2. CASE ~(g = f /\ m = 0)
        BY <1>8, <1>12, <3>1, <4>2
      <4>3. QED
        BY <4>1, <4>2
    <3>2. \A g \in File : HeadSize(g)' = HeadSize(g)
      BY <1>13, <1>14, <2>1
    <3>3. QED
      BY <3>1, <3>2 DEF Steady
  <2>4. Took(th[t])' = Took(th[t])
    BY <1>16, <2>1
  <2>5. QED
    BY <1>4, <1>5, <2>3, <2>4, Stutters
<1>20. QED
  BY <1>18, <1>19

\* The files are empty when they are created.
LEMMA InitRefines == Init => Store!Init
<1> SUFFICES ASSUME Init PROVE Store!Init
  OBVIOUS
<1>1. OInv
  BY InitOInv
<1>2. 1 \in Cluster /\ 1 \in Slot /\ 0 \in 0..BPC /\ File \subseteq Slot /\ \A b \in Slot : b \in 0..BPC
  BY ThreadSizes, ThreadsAssumption
<1>3. ASSUME NEW f \in File PROVE HeadSize(f) = 0
  <2>1. seqs[f] = <<<<1, f>>>>
    BY DEF Init
  <2>2. seqs[f][1][1] = 1 /\ seqs[f][1][2] = f
    BY <2>1
  <2>3. Loc(f, 0) = At(1, f)
    BY <2>2 DEF Loc
  <2>4. At(1, f) \in 0..Last /\ At(1, f) # BitPos /\ At(1, f) # TblPos /\ At(1, f) # At(1, 0)
    BY <1>2, Fronts
  <2>5. dev[At(1, f)] = [kind |-> "data", size |-> 0, pay |-> Nothing]
    BY <2>4 DEF Init
  <2>6. QED
    BY <2>3, <2>5 DEF HeadSize, Data
<1>4. ASSUME NEW f \in File PROVE Files[f] = <<>>
  <2>1. Files[f] = [n \in 1..HeadSize(f) |-> Data(dev[Loc(f, n - 1)]).pay] /\ Len(Files[f]) = 0
    BY <1>1, <1>3, StoreFile
  <2>2. PICK s : s = Files[f]
    OBVIOUS
  <2>3. DOMAIN s = {}
    BY <1>3, <2>1, <2>2
  <2>4. s = [n \in {} |-> s[n]]
    BY <2>1, <2>2, <2>3
  <2>5. s = <<>>
    BY <2>3, <2>4
  <2>6. QED
    BY <2>2, <2>5
<1>5. Files = [f \in File |-> <<>>]
  BY <1>4, Zenon DEF Files
<1>6. ASSUME NEW t \in Thread PROVE CallOf(th[t]) = Store!Idle
  <2>1. th[t] = Idle
    BY <1>6 DEF Init
  <2>2. /\ th[t].req = "idle" /\ th[t].f = 0 /\ th[t].n = 0 /\ th[t].v = Nothing
        /\ th[t].got = Nothing /\ th[t].at = "idle"
    BY <2>1 DEF Idle
  <2>3. Took(th[t]) = FALSE
    BY <2>2 DEF Took, HeadStep
  <2>4. QED
    BY <2>2, <2>3, Zenon DEF CallOf, Store!Idle
<1>7. Calls = [t \in Thread |-> Store!Idle]
  BY <1>6, CallsAre, Zenon
<1>8. QED
  BY <1>5, <1>7 DEF Store!Init

\* Every step of an orderly run is a step of the store, or leaves it alone.
LEMMA NextRefines ==
  ASSUME OInv, Orderly, OInv', [Next]_vars
  PROVE  [Store!Next]_(Store!vars)
<1>1. CASE Next
  <2>1. PICK t \in Thread :
          \/ Step(t)
          \/ \E f \in File, n \in 0..(MaxLen - 1), v \in Pay : Begin(t, "write", f, n, v)
          \/ \E f \in File, n \in 0..(MaxLen - 1) : Begin(t, "read", f, n, Nothing)
    BY <1>1 DEF Next
  <2>2. CASE Step(t)
    <3>1. UNCHANGED <<Files, Calls>> \/ Store!Write(t) \/ Store!Read(t) \/ Store!End(t)
      <4>1. CASE Find(t) \/ CopyBits(t) \/ CopyTable(t)
        BY <4>1, LocalInner, SteadyUnchanged, InnerStutters
      <4>2. CASE ReadFree(t) \/ ReadTake(t) \/ ReadPay(t)
        BY <4>2, ReadInner, SteadyUnchanged, InnerStutters
      <4>3. CASE Update(t) \/ List(t)
        <5>1. UNCHANGED <<dev, seqs>>
          BY <4>3 DEF Update, List
        <5>2. QED
          BY <4>3, <5>1, GotoInner, SteadyUnchanged, InnerStutters
      <4>4. CASE Link(t)
        BY <4>4, GotoInner, SteadyLink, InnerStutters
      <4>5. CASE WriteTake(t)
        BY <4>5, GotoInner, SteadyTake, InnerStutters
      <4>6. CASE WriteBits(t) \/ WriteTable(t)
        BY <4>6, GotoInner, SteadyFronts, InnerStutters
      <4>7. QED
        BY <2>2, <4>1, <4>2, <4>3, <4>4, <4>5, <4>6, EndRefines, SeekStutters, WritePayRefines,
           ReadSizeRefines, ReadHeadStutters, WriteHeadRefines, ReadDataRefines DEF Step
    <3>2. QED
      BY <3>1 DEF Store!Next, Store!vars
  <2>3. CASE \E f \in File, n \in 0..(MaxLen - 1), v \in Pay : Begin(t, "write", f, n, v)
    BY <2>3, BeginRefines DEF Store!Next
  <2>4. CASE \E f \in File, n \in 0..(MaxLen - 1) : Begin(t, "read", f, n, Nothing)
    BY <2>4, BeginRefines DEF Store!Next
  <2>5. QED
    BY <2>1, <2>2, <2>3, <2>4
<1>2. CASE UNCHANGED vars
  <2>1. UNCHANGED <<dev, seqs, th>>
    BY <1>2 DEF vars
  <2>2. UNCHANGED Files
    BY <2>1, SteadyUnchanged, SteadyFiles
  <2>3. UNCHANGED Calls
    BY <2>1, Zenon DEF Calls, HeadSize, Loc, Data
  <2>4. QED
    BY <2>2, <2>3 DEF Store!vars
<1>3. QED
  BY <1>1, <1>2

(* Every request takes effect at one moment between its beginning and its end, for *)
(* any number of threads that keep to Orderly: the abstract store is implemented.  *)
LEMMA OrderlyImplements == Spec /\ []Orderly => ImplementsStore
<1>1. OInv /\ Orderly /\ OInv' /\ [Next]_vars => [Store!Next]_(Store!vars)
  BY NextRefines
<1>2. QED
  BY <1>1, InitRefines, OrderlyOInv, PTL DEF Spec, ImplementsStore, Store!Spec

(* What one thread gives, with no assumption on the order of its steps. *)
THEOREM SingleThreadStore ==
  OneThread => (Spec => [](ListsMatchTables /\ SavedAgrees) /\ ImplementsStore)
<1> SUFFICES ASSUME OneThread PROVE Spec => [](ListsMatchTables /\ SavedAgrees) /\ ImplementsStore
  OBVIOUS
<1>1. Spec => []Orderly
  BY SingleThreadOrderly
<1>2. QED
  BY <1>1, OrderlyLists, OrderlySaved, OrderlyImplements, PTL
=============================================================================
