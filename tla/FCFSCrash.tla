------------------------------ MODULE FCFSCrash ------------------------------
(***************************************************************************)
(* The device under a mounted FCFS volume, and the process killed between  *)
(* two of the writes of one request.  FCFSVolume takes a request as one    *)
(* step; here a request is the sequence of its writes (`todo`), each step  *)
(* performs one, and Crash drops the rest.  Nothing repairs a volume       *)
(* afterwards: dev_mount reads the bitmap and the file table as they are.  *)
(*                                                                         *)
(* The writes reach the device in the order of the calls: the FILE writes  *)
(* its buffer out at every fseek, and every access starts with one, so a   *)
(* killed process leaves a prefix.  A power cut, which may reorder them,   *)
(* is not modelled.                                                        *)
(*                                                                         *)
(*   vol.table    file table in memory: link count and listed clusters     *)
(*   vol.bitmap   bitmap in memory                                         *)
(*   vol.ctab     cluster tables                                           *)
(*   vol.root     the root directory: number of entries, entry slots       *)
(*   vol.data     what a data block was last written with                  *)
(*   saved        file table and bitmap as the device holds them           *)
(*                                                                         *)
(* The process keeps the file table and the bitmap in memory and writes    *)
(* each whole; a mount reads what was saved: the bitmap without its last   *)
(* incomplete byte, the table without what no write followed.              *)
(*                                                                         *)
(* The block lists cached by file_seq.c are in `seqs`.  An identifier with *)
(* a cached list is not handed out again before the next mount: what stale *)
(* caches do to a second file is FCFSVolume's subject, as are full cluster *)
(* lists, second levels and a root directory that is full.                 *)
(***************************************************************************)
EXTENDS FCFSAlloc, SequencesExt

CONSTANTS
  NF,         \* fs_head->tbl_cnt: identifiers; 0 is the root directory
  PerBlock,   \* directory entries in a block of the root directory
  ByteBits,   \* bits of a bitmap byte (8)
  Junk,       \* entries the heap may hold where a write reads behind its buffer
  MaxBlocks,  \* bound: blocks of a file
  MaxCreates, \* bound: files created
  MaxCrash    \* bound: crashes

\* The root directory, with its BPC blocks, has a slot for every file.
ASSUME CrashAssumption ==
  /\ NF \in Nat \ {0} /\ PerBlock \in Nat \ {0} /\ ByteBits \in Nat \ {0}
  /\ MaxBlocks \in Nat /\ MaxCreates \in Nat /\ MaxCrash \in Nat
  /\ PerBlock * BPC >= NF - 1
  /\ Junk \subseteq 0..(NF - 1) /\ Junk # {}

VARIABLES
  vol,     \* the volume as the process sees it
  saved,   \* file table and bitmap on the device
  seqs,    \* map_seq: cached block lists, <<>> for none
  todo,    \* the writes of the current request that are due
  busy,    \* the current request: kind and file, or Idle
  status,  \* "up", or how the process was lost, as in FCFSVolume
  gen,     \* history: how often each identifier was handed out
  cut,     \* history: requests that were cut; "again": a file written to, or an
           \* identifier handed out, after a write was cut; "gaveup": a file whose
           \* creation got no block; "twice": an identifier handed out that an
           \* entry names
  crashes  \* history: number of crashes

vars == <<vol, saved, seqs, todo, busy, status, gen, cut, crashes>>

File == 1..(NF - 1)
RootSlot == 1..(PerBlock * BPC)
Idle == <<"idle", 0>>
Never == [f |-> 0, gen |-> 0, num |-> 0, size |-> 0]

\* The formatted volume: cluster 0 is the root's, its blocks count as free.
Formatted ==
  [table  |-> [f \in File |-> [lnk |-> 0, clrs |-> <<>>]],
   ctab   |-> [p \in Block |-> IF p[1] = 0 THEN [fid |-> 0, num |-> p[2] - 1] ELSE FreeEntry],
   bitmap |-> [c \in Cluster |-> 0],
   root   |-> [len |-> 0, slot |-> [s \in RootSlot |-> 0]],
   data   |-> [p \in Block |-> Never]]

Init ==
  /\ vol = Formatted
  /\ saved = [table |-> vol.table, bitmap |-> vol.bitmap]
  /\ seqs = [f \in File |-> <<>>]
  /\ todo = <<>> /\ busy = Idle /\ status = "up"
  /\ gen = [f \in File |-> 0]
  /\ cut = {} /\ crashes = 0

-----------------------------------------------------------------------------
(* Reading the device.                                                      *)

\* The elements of a set of pairs, in ascending order.
InOrder(S) == [i \in 1..Cardinality(S) |-> CHOOSE p \in S : Rank(S, p) = i - 1]

\* dev_get_file_seq without the cache: the blocks of f in the clusters it lists,
\* cluster by cluster, each with its number.
BlocksOf(d, f) ==
  LET clrs == d.table[f].clrs
      own  == {q \in (DOMAIN clrs) \X Slot : d.ctab[<<clrs[q[1]], q[2]>>].fid = f}
      at(q) == <<clrs[q[1]], q[2]>>
  IN [k \in 1..Cardinality(own) |->
        [at |-> at(InOrder(own)[k]), num |-> d.ctab[at(InOrder(own)[k])].num]]

Has(l, i) == \E k \in DOMAIN l : l[k].num = i

\* The block dev_read_by_id finds for number i: the first in the list.
Found(l, i) ==
  l[CHOOSE k \in DOMAIN l : l[k].num = i /\ \A j \in 1..(k - 1) : l[j].num # i].at

\* Blocks of payload the header in block 0 speaks of.
SizeOf(d, l) == IF Has(l, 0) THEN d.data[Found(l, 0)].size ELSE 0

\* Entries of the root directory.
Named(d) == SubSeq(d.root.slot, 1, d.root.len)
Entries(d) == {d.root.slot[s] : s \in 1..d.root.len} \ {0}

-----------------------------------------------------------------------------
(* The writes a request is made of.                                         *)

\* dev_write_ctable with block p given to f as its number i.
Own(p, f, i) == [w |-> "own", p |-> p, f |-> f, i |-> i]

\* dev_write_ctable with the blocks of f in cluster c free.
Drop(c, f) == [w |-> "drop", c |-> c, f |-> f]

\* dev_upd_bitmap for c, and dev_write_bitmap if that changes the bit.
Bit(c) == [w |-> "bit", c |-> c]

\* dev_write_table: f is taken and lists cluster c; f lists c too, unless it
\* does; f is free.  Note is the first of them in memory alone.
Take(f, c)  == [w |-> "take", f |-> f, c |-> c, kept |-> TRUE]
Note(f, c)  == [w |-> "take", f |-> f, c |-> c, kept |-> FALSE]
List(f, c)  == [w |-> "list", f |-> f, c |-> c]
Release(f)  == [w |-> "release", f |-> f]

\* Block i of the root directory, which then has len entries.
Dir(i, len, slot) == [w |-> "dir", i |-> i, len |-> len, slot |-> slot]

\* dev_write_block of a new header, of payload, and of the header's new size.
Header(p, x) == [w |-> "head", p |-> p, x |-> x]
Data(p, x)   == [w |-> "data", p |-> p, x |-> x]
Size(p, n)   == [w |-> "size", p |-> p, n |-> n]

\* dev_write_block to what the heap holds for the number of a block: dev_init_file
\* reads the first element of a list that has none.
Wild == [w |-> "wild"]

\* The block of the directory that slot s lies in.
DirBlock(s) == (s - 1) \div PerBlock + 1

\* The volume d, as the process sees it, after write w.
After(d, w) ==
  CASE w.w = "own"     -> [d EXCEPT !.ctab[w.p] = [fid |-> w.f, num |-> w.i]]
    [] w.w = "drop"    -> [d EXCEPT !.ctab = [p \in Block |->
                             IF p[1] = w.c /\ @[p].fid = w.f THEN FreeEntry ELSE @[p]]]
    [] w.w = "bit"     -> [d EXCEPT !.bitmap = dev_upd_bitmap(@, d.ctab, {w.c})]
    [] w.w = "take"    -> [d EXCEPT !.table[w.f] = [lnk |-> 1, clrs |-> <<w.c>>]]
    [] w.w = "list"    -> [d EXCEPT !.table[w.f].clrs =
                             IF w.c \in Range(@) THEN @ ELSE Append(@, w.c)]
    [] w.w = "release" -> [d EXCEPT !.table[w.f].lnk = 0]
    [] w.w = "dir"     -> [d EXCEPT !.root = [len |-> w.len, slot |-> [s \in RootSlot |->
                             IF DirBlock(s) = w.i THEN w.slot[s] ELSE @.slot[s]]]]
    [] w.w = "head"    -> [d EXCEPT !.data[w.p] = w.x]
    [] w.w = "data"    -> [d EXCEPT !.data[w.p] =
                             [w.x EXCEPT !.size = IF w.x.num = 0 THEN d.data[w.p].size ELSE 0]]
    [] w.w = "size"    -> [d EXCEPT !.data[w.p].size = IF @ < w.n THEN w.n ELSE @]
    [] w.w = "wild"    -> d

\* The whole bytes are written, the clusters of the last incomplete one are not.
Kept == {c \in Cluster : c < (NC \div ByteBits) * ByteBits}
dev_write_bitmap(bm) == [c \in Cluster |-> IF c \in Kept THEN bm[c] ELSE 0]

\* What the device holds of file table and bitmap when w made the volume e of it:
\* dev_write_table writes the entries of all files.
SavedAfter(w, e) ==
  [table  |-> IF w.w \in {"list", "release"} \/ (w.w = "take" /\ w.kept)
              THEN e.table ELSE saved.table,
   bitmap |-> IF w.w = "bit" THEN dev_write_bitmap(e.bitmap) ELSE saved.bitmap]

\* The volume as a mount reads it.
OnDevice == [vol EXCEPT !.table = saved.table, !.bitmap = saved.bitmap]

-----------------------------------------------------------------------------
(* The requests as sequences of writes.                                     *)

\* dev_write_dir on the root with the entries es: its blocks one by one, all it
\* has.  The buffer ends with the last block the entries need; behind it the
\* loop copies what the heap holds there, here an entry of `junk`.
WriteRoot(es, junk) ==
  LET need == (Len(es) + PerBlock - 1) \div PerBlock
      new  == [s \in RootSlot |-> IF s <= Len(es) THEN es[s]
                                  ELSE IF DirBlock(s) <= need \/ DirBlock(s) = 1 THEN 0 ELSE junk]
  IN [i \in 1..BPC |-> Dir(i, Len(es), new)]

\* The block of f that comes first in cluster c once block b is its own too.
HeaderSlot(f, c, b) == Least({i \in Slot : i = b \/ vol.ctab[<<c, i>>].fid = f})

\* The directory names the file before the table has it.
CreateWrites_slip(f, c, b, junk) ==
  <<Own(<<c, b>>, f, 0), Bit(c)>>
    \o WriteRoot(Append(Named(vol), f), junk)
    \o <<Take(f, c), Header(<<c, HeaderSlot(f, c, b)>>, [f |-> f, gen |-> gen[f] + 1, num |-> 0, size |-> 0])>>

\* dev_file_alloc, dev_write_dir, dev_init_file: cluster table, bitmap, file
\* table, directory, header (in the first block f has in the cluster).
CreateWrites(f, c, b, junk) ==
  <<Own(<<c, b>>, f, 0), Bit(c), Take(f, c)>>
    \o WriteRoot(Append(Named(vol), f), junk)
    \o <<Header(<<c, HeaderSlot(f, c, b)>>, [f |-> f, gen |-> gen[f] + 1, num |-> 0, size |-> 0])>>

\* dev_file_alloc gives up on the full cluster c, which f has in memory alone, and
\* dev_create_file goes on: directory, header in a block f has left over in c.
GiveUpWrites(f, c, junk) ==
  <<Note(f, c)>>
    \o WriteRoot(Append(Named(vol), f), junk)
    \o <<Header(<<c, Least({i \in Slot : vol.ctab[<<c, i>>].fid = f})>>,
                [f |-> f, gen |-> gen[f] + 1, num |-> 0, size |-> 0])>>

\* It gives up and f has no block for the header.  (What memory has of f then is
\* of no account: the process is lost with the last write.)
LostWrites(f, junk) == WriteRoot(Append(Named(vol), f), junk) \o <<Wild>>

\* The numbers go on from the length of the list, not from its last number.
Reserve_slip(f, ps, num0) ==
  [i \in 1..(2 * Len(ps)) |->
     LET k == (i + 1) \div 2 IN IF i % 2 = 1 THEN Own(ps[k], f, num0 + k) ELSE Bit(ps[k][1])]
    \o [k \in 1..Len(ps) |-> List(f, ps[k][1])]

\* dev_file_reserve and dev_file_mem_clrs: each block in turn, then the clusters
\* that are not listed yet.
Reserve(f, ps, num0) ==
  [i \in 1..(2 * Len(ps)) |->
     LET k == (i + 1) \div 2 IN IF i % 2 = 1 THEN Own(ps[k], f, num0 + k - 1) ELSE Bit(ps[k][1])]
    \o [k \in 1..Len(ps) |-> List(f, ps[k][1])]

Tag(f, i) == [f |-> f, gen |-> gen[f], num |-> i, size |-> 0]

\* The header is written before the data.
Payload_slip(f, l, s, n) ==
  <<Size(Found(l, 0), n)>> \o [k \in 1..(n - s) |-> Data(Found(l, s + k - 1), Tag(f, s + k - 1))]

\* ops_write of blocks s .. n-1 through the list l, then dev_set_file_size.
Payload(f, l, s, n) ==
  [k \in 1..(n - s) |-> Data(Found(l, s + k - 1), Tag(f, s + k - 1))] \o <<Size(Found(l, 0), n)>>

\* The listed clusters in which f has blocks, each with its place in the list.
Held(f) ==
  LET clrs == vol.table[f].clrs
  IN InOrder({<<k, clrs[k]>> : k \in {j \in DOMAIN clrs : \E b \in Slot : vol.ctab[<<clrs[j], b>>].fid = f}})

\* dev_rm_from_dir: the last entry takes the place of the removed one.
Without(f) ==
  LET n  == vol.root.len
      at == CHOOSE s \in 1..n : vol.root.slot[s] = f /\ \A t \in 1..(s - 1) : vol.root.slot[t] # f
  IN [s \in 1..(n - 1) |-> IF s = at THEN vol.root.slot[n] ELSE vol.root.slot[s]]

\* The bitmap is written once, when all blocks are free.
UnlinkWrites_slip(f, junk) ==
  LET h == Held(f)
  IN [k \in 1..Len(h) |-> Drop(h[k][2], f)] \o [k \in 1..Len(h) |-> Bit(h[k][2])]
       \o WriteRoot(Without(f), junk) \o <<Release(f)>>

\* dev_rm_file: per cluster its table and bit, then the directory, then the
\* file table.
UnlinkWrites(f, junk) ==
  LET h == Held(f)
  IN [i \in 1..(2 * Len(h)) |->
        LET k == (i + 1) \div 2 IN IF i % 2 = 1 THEN Drop(h[k][2], f) ELSE Bit(h[k][2])]
       \o WriteRoot(Without(f), junk) \o <<Release(f)>>

-----------------------------------------------------------------------------
(* The process.                                                             *)

Ready == status = "up" /\ busy = Idle

\* A request starts: its writes r are due.
Begin(kind, f, r) == /\ todo' = r
                     /\ busy' = IF r = <<>> THEN Idle ELSE <<kind, f>>
                     /\ UNCHANGED <<vol, saved, status, crashes>>

Lose(how) == /\ status' = how
             /\ UNCHANGED <<vol, saved, seqs, todo, busy, gen, cut, crashes>>

Created == FoldFunction(+, 0, gen)

FreeFids == {f \in File : vol.table[f].lnk = 0}

Again(f) == IF <<"write", f>> \in cut THEN {<<"again", f>>} ELSE {}

Twice(f) == IF f \in Entries(vol) THEN {<<"twice", f>>} ELSE {}

\* ops_create.  A cluster that is full although its bit is 0 makes dev_file_alloc
\* give up; dev_create_file does not look at its answer and writes the entry, no
\* write of the file table follows.
ops_create ==
  /\ Ready /\ FreeFids # {}
  /\ vol.root.len < PerBlock * BPC
  /\ LET f == Least(FreeFids)
         C == FreeClusters(vol.bitmap)
         c == Least(C)
         F == {b \in Slot : vol.ctab[<<c, b>>].fid = 0}
     IN /\ seqs[f] = <<>> /\ Created < MaxCreates
        /\ C # {}              \* bound: FCFSVolume has volumes that run out
        /\ \E junk \in Junk :
             \/ /\ F # {}
                /\ Begin("create", f, CreateWrites(f, c, Least(F), junk))
                /\ cut' = cut \cup Again(f) \cup Twice(f)
             \/ /\ F = {}
                /\ \E b \in Slot : vol.ctab[<<c, b>>].fid = f
                /\ Begin("create", f, GiveUpWrites(f, c, junk))
                /\ cut' = cut \cup Again(f) \cup Twice(f) \cup {<<"gaveup", f>>}
             \/ /\ F = {} /\ \A b \in Slot : vol.ctab[<<c, b>>].fid # f
                /\ Begin("create", f, LostWrites(f, junk))
                /\ cut' = cut \cup Again(f) \cup Twice(f) \cup {<<"gaveup", f>>}
        /\ gen' = [gen EXCEPT ![f] = @ + 1]
        /\ UNCHANGED seqs

\* ops_getattr, which libfuse asks for before it opens or removes a file: the
\* block list is built and cached.  A file without blocks ends in freed memory.
ops_getattr(f) ==
  /\ Ready /\ f \in Entries(vol) /\ seqs[f] = <<>>
  /\ IF BlocksOf(vol, f) = <<>> THEN Lose("undefined")
     ELSE /\ seqs' = [seqs EXCEPT ![f] = BlocksOf(vol, f)]
          /\ UNCHANGED <<vol, saved, todo, busy, status, gen, cut, crashes>>

\* ops_write from the end of the file up to its block n - 1.  Blocks that the
\* list lacks are reserved and appended to it; if a number is missing nothing is
\* written.  (A file that lost its header has size -1 and is not followed.)
ops_write(f, n) ==
  /\ Ready /\ f \in Entries(vol) /\ Has(seqs[f], 0)
  /\ LET len  == Len(seqs[f])
         s    == SizeOf(vol, seqs[f])
         lack == IF n > len THEN n - len ELSE 0
         ps   == InOrder(dev_free_blocks(vol.bitmap, vol.ctab, lack))
         l    == seqs[f] \o [k \in 1..Len(ps) |-> [at |-> ps[k], num |-> len + k - 1]]
         end  == SearchOutcome(vol.bitmap, vol.ctab, lack)
     IN /\ s < n
        /\ end # "exhausted"   \* bound: FCFSVolume has volumes that run out
        /\ IF end = "hung" THEN Lose("hung")
           ELSE /\ Begin("write", f, Reserve(f, ps, len)
                     \o (IF \A i \in s..(n - 1) : Has(l, i) THEN Payload(f, l, s, n) ELSE <<>>))
                /\ seqs' = [seqs EXCEPT ![f] = l]
                /\ cut' = cut \cup Again(f)
                /\ UNCHANGED gen

\* ops_unlink, of a file that is not open.  (Bound: the entry of a file that is
\* removed already, see ShownNotDeleted, is not removed.)
ops_unlink(f) ==
  /\ Ready /\ f \in Entries(vol) /\ seqs[f] # <<>> /\ vol.table[f].lnk = 1
  /\ \E junk \in Junk : Begin("unlink", f, UnlinkWrites(f, junk))
  /\ UNCHANGED <<seqs, gen, cut>>

\* The next write of the request; with the last one the handler returns.
Write ==
  /\ todo # <<>>
  /\ vol' = After(vol, Head(todo)) /\ saved' = SavedAfter(Head(todo), vol')
  /\ todo' = Tail(todo)
  /\ busy' = IF todo' = <<>> THEN Idle ELSE busy
  /\ status' = IF Head(todo).w = "wild" THEN "undefined" ELSE status
  /\ UNCHANGED <<seqs, gen, cut, crashes>>

\* dev_mount of a new process: empty caches, the device as it is.
Mounted == /\ vol' = OnDevice
           /\ seqs' = [f \in File |-> <<>>]
           /\ todo' = <<>> /\ busy' = Idle
           /\ UNCHANGED <<saved, status, gen>>

\* The process is killed with writes due, and the volume is mounted again.
Crash ==
  /\ todo # <<>> /\ crashes < MaxCrash
  /\ Mounted
  /\ cut' = cut \cup {busy}
  /\ crashes' = crashes + 1

\* Unmount and mount between requests.
Remount == /\ Ready
           /\ Mounted
           /\ UNCHANGED <<cut, crashes>>

Next ==
  \/ ops_create \/ Write \/ Crash \/ Remount
  \/ \E f \in File : ops_getattr(f) \/ ops_unlink(f)
  \/ \E f \in File, n \in 1..MaxBlocks : ops_write(f, n)

Spec == Init /\ [][Next]_vars

-----------------------------------------------------------------------------
(* Properties.  They are about the device in every state, that is about     *)
(* what a mount finds if the process is killed there.                       *)

\* Files whose creation got no block, and identifiers handed out although named.
GaveUp(f)     == <<"gaveup", f>> \in cut
NamedTwice(f) == <<"twice", f>> \in cut

\* Files no request of which was cut, and that no request is at work on.
Hit   == {q[2] : q \in cut \cup {busy}}
Unhit == File \ Hit

Owned(f) == {p \in Block : vol.ctab[p].fid = f}
Listed(f) == Range(saved.table[f].clrs)

\* What a block was last written with, and the entries of a cached list.
Content == [f : 0..(NF - 1), gen : Nat, num : Nat, size : Nat]
BlkInfo == [at : Block, num : Nat]

Table == [File -> [lnk : {0, 1}, clrs : Seq(Cluster)]]

Volume ==
  [table  : Table,
   ctab   : [Block -> [fid : 0..(NF - 1), num : Nat]],
   bitmap : [Cluster -> {0, 1}],
   root   : [len : 0..(PerBlock * BPC), slot : [RootSlot -> 0..(NF - 1)]],
   data   : [Block -> Content]]

Writes ==
       [w : {"own"}, p : Block, f : File, i : Nat]
  \cup [w : {"drop"}, c : Cluster, f : File]
  \cup [w : {"bit"}, c : Cluster]
  \cup [w : {"take"}, f : File, c : Cluster, kept : BOOLEAN]
  \cup [w : {"list"}, f : File, c : Cluster]
  \cup [w : {"release"}, f : File]
  \cup [w : {"dir"}, i : 1..BPC, len : 0..(PerBlock * BPC), slot : [RootSlot -> 0..(NF - 1)]]
  \cup [w : {"head", "data"}, p : Block, x : Content]
  \cup [w : {"size"}, p : Block, n : Nat]
  \cup [w : {"wild"}]

CutKinds == {"create", "write", "unlink", "again", "gaveup", "twice"}

TypeOK ==
  /\ vol \in Volume
  /\ saved \in [table : Table, bitmap : [Cluster -> {0, 1}]]
  /\ seqs \in [File -> Seq(BlkInfo)]
  /\ todo \in Seq(Writes)
  /\ IF todo = <<>> THEN busy = Idle ELSE busy \in {"create", "write", "unlink"} \X File
  /\ status \in {"up", "hung", "undefined"}
  /\ gen \in [File -> Nat]
  /\ crashes \in 0..MaxCrash
  /\ cut \subseteq CutKinds \X File

\* An entry of the root directory names an identifier that is taken, wherever a
\* request was cut: dev_file_alloc writes the table before the directory gets
\* the entry, dev_rm_file after it lost it.  Otherwise dev_free_fid would hand
\* the identifier out to a second name.  The one exception is a creation that got
\* no block, whose entry is written all the same.  (With entries behind the first
\* block of the directory there are others, see ShownNotDeleted.)
EntriesAllocated == \A f \in Entries(vol) : ~GaveUp(f) => saved.table[f].lnk # 0

\* A file that no cut request was about is whole, whatever was cut for others: it
\* is named if and only if its identifier is taken, its blocks are numbered
\* 0 .. k-1 and lie in clusters it lists.
UnhitWhole ==
  \A f \in Unhit :
    /\ f \in Entries(vol) <=> saved.table[f].lnk # 0
    /\ saved.table[f].lnk = 0 => Owned(f) = {}
    /\ {p[1] : p \in Owned(f)} \subseteq Listed(f)
    /\ {vol.ctab[p].num : p \in Owned(f)} = 0..(Cardinality(Owned(f)) - 1)

\* One crash spoils the bit of one cluster at most (table and bit of a cluster
\* are written one after the other, before the next cluster's), and so does the
\* request under way: bits are not repaired at a mount, but never get worse by
\* themselves.  This is so for the clusters whose bits are written at all, those
\* of the whole bytes.
BitsPerCrash ==
  Cardinality({c \in Kept : saved.bitmap[c] = 1 <=> HasFree(vol.ctab, c)})
    <= crashes + (IF todo # <<>> THEN 1 ELSE 0)

\* The bytes a mount reads back up to the size in the header are those last
\* written there, even when the last write was cut: the header comes last
\* (ops_write, dev_set_file_size).  Claimed until a file is written to, or its
\* identifier handed out, again after a cut, see WrittenIsRead and CreatedEmpty,
\* and until any identifier is named twice: a list cached by the one name
\* outlives the removal of the other, and writes through it go anywhere.
Intact(f) ==
  LET l == BlocksOf(OnDevice, f)
  IN \A i \in 0..(SizeOf(vol, l) - 1) :
       Has(l, i) /\ LET x == vol.data[Found(l, i)]
                    IN <<x.f, x.gen, x.num>> = <<f, gen[f], i>>

SizeCoversData ==
  (\A f \in File : ~NamedTwice(f)) =>
    \A f \in Entries(vol) :
      (\A k \in {"create", "unlink", "again", "gaveup"} : <<k, f>> \notin cut \cup {busy}) => Intact(f)

\* The steps of a request for one file leave the blocks, the cluster list and
\* the bytes of every other file alone, wherever requests were cut (whatever the
\* bitmap says, dev_get_blocks takes only blocks that are free in the cluster
\* table), unless the one file is named twice: then the cached list found by one
\* name outlives the removal of the other.  (That no cut leaves a second name by
\* itself takes a directory whose entries lie in its first block.  The cluster
\* list of a file that got no block is saved by any later write of the table.)
OthersKept ==
  [][~NamedTwice(busy[2]) =>
     \A f \in Entries(vol) \ {busy[2]} :
       /\ Owned(f)' = Owned(f)
       /\ ~GaveUp(f) => saved.table[f]' = saved.table[f]
       /\ \A p \in Owned(f) : vol.data[p]' = vol.data[p]]_vars

-----------------------------------------------------------------------------
(* What comments of the repository say, and a crash refutes.                *)

\* dev_get_file_seq: "NULL - no blocks (an unbelievable situation)"
\* (dev.h:234): a file the directory names has a block, between requests.
NamedHasBlocks == Ready => \A f \in Entries(vol) : BlocksOf(vol, f) # <<>>

\* dev_free_cluster: "search for the first cluster that is not full"
\* (dev.h:197), between requests.
FreeClusterNotFull ==
  Ready /\ FreeClusters(vol.bitmap) # {} => HasFree(vol.ctab, Least(FreeClusters(vol.bitmap)))

\* ops_readdir: "if entry is not deleted" (readdir.c:31): an entry it shows is
\* that of a file which is not removed.
ShownNotDeleted == Ready => \A f \in Entries(vol) : vol.table[f].lnk # 0

\* dev_free_fid: "-1 - an error, otherwise a free identifier" (dev.h:98): none
\* that an entry names.
HandedOutFree == \A f \in File : ~NamedTwice(f)

\* dev_init_file: "set the size of the file to 0 bytes" (dev.h:138): so it is
\* after the last write of a creation, for whoever looks the file up.
CreatedEmpty ==
  busy[1] = "create" /\ Len(todo) = 1 =>
    LET d == After(vol, Head(todo)) IN SizeOf(d, BlocksOf(d, busy[2])) = 0

\* dev_read_by_id: "read the block that belongs to the file by its logical
\* number" (dev.h:261): of a file that was created, is not removed and is not
\* being written to, the blocks found are those written.
WrittenIsRead ==
  \A f \in Entries(vol) :
    (\A k \in {"create", "unlink"} : <<k, f>> \notin cut) /\ busy[2] # f => Intact(f)
=============================================================================
