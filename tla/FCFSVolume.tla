------------------------------ MODULE FCFSVolume ------------------------------
(***************************************************************************)
(* A mounted FCFS volume and the requests FUSE makes of it, served one at  *)
(* a time (fuse -s).  The state is what the C process reaches through      *)
(* fcfs_args_t together with its two static caches:                        *)
(*                                                                         *)
(*   vol.table   fs_table: link count and cluster list of every file       *)
(*   vol.ctab    the cluster tables on the device, one entry per block     *)
(*   vol.bitmap  fs_bitmap                                                 *)
(*   vol.secs    second-level cluster lists, by the cluster holding them   *)
(*   vol.clrs    clrs_cache (table.c): cluster list of ONE file            *)
(*   vol.seqs    map_seq (cache/file_seq.c): block lists by file, {} = none *)
(*   vol.status  "up", or how the process was lost (see below)             *)
(*                                                                         *)
(* A request is one step: each operator below maps a volume to the volume  *)
(* the C function of that name leaves behind, and the handlers chain them  *)
(* in the order of the calls.  fs_table and the bitmap are written to the  *)
(* device by the function that changes them, so memory and device agree at *)
(* the end of a request (except for the cut in dev_write_bitmap, Remount). *)
(*                                                                         *)
(* The namespace is the root directory: one entry per live file.  A path   *)
(* is identified with the file it names, which is what the path cache      *)
(* (file_id.c) yields after libfuse's look-up of that path.                *)
(***************************************************************************)
EXTENDS FCFSAlloc, Sequences

CONSTANTS
  NF,        \* fs_head->tbl_cnt: entries of the file table, entry 0 is root
  Direct,    \* FCFS_CLUSTER_PER_FILE - 3: clusters listed in the table entry
  MaxClrs,   \* s1_len: clusters per file dev_tbl_clrs_add accepts
  MaxSaved,  \* clusters per file dev_tbl_save_sec keeps, the direct ones included
  BlkUnits, EntUnits, HdrUnits,  \* sizes: block, directory entry, file header
  ByteBits,  \* bits of a bitmap byte (8)
  MaxGen,    \* bound: how often one file identifier is handed out
  MaxBlocks, \* bound: blocks one write may ask the file to have
  MaxOpen    \* bound: handles open at once

ASSUME VolumeAssumption ==
  /\ NF \in Nat \ {0}
  /\ Direct \in Nat \ {0}
  /\ MaxClrs \in Nat /\ MaxSaved \in Nat
  /\ BlkUnits \in Nat \ {0} /\ EntUnits \in Nat \ {0} /\ HdrUnits \in Nat
  /\ ByteBits \in Nat \ {0}
  /\ MaxGen \in Nat /\ MaxBlocks \in Nat /\ MaxOpen \in Nat

VARIABLES
  vol,
  opened,   \* open handles: the file and the fi->fh the handle carries
  gen       \* history: how often each identifier was handed out

vars == <<vol, opened, gen>>

Fid  == 0..(NF - 1)
File == Fid \ {0}

(* "exhausted": a cluster behind the last one was used.  "hung": the        *)
(* request never returns.  "undefined": freed or foreign memory was used, or *)
(* the root directory was overwritten.  Nothing is claimed afterwards.      *)
Status  == {"up", "exhausted", "hung", "undefined"}
Entry   == [lnk : 0..255, clrs : [1..Direct -> Cluster], sec : Cluster]
BlkInfo == [cid : Cluster, bid : Slot, num : Nat]
Table   == [Fid -> Entry]
Ctab    == [Block -> [fid : Fid \cup {CLAIMED}, num : Nat]]
Bitmap  == [Cluster -> {0, 1}]
Secs    == [Cluster -> Seq(Cluster)]
Clrs    == [fid : Fid \cup {-1}, s0 : Seq(Cluster), s1 : Seq(Cluster)]
Seqs    == [Fid -> SUBSET BlkInfo]
Volume  == [table : Table, ctab : Ctab, bitmap : Bitmap, secs : Secs,
            clrs : Clrs, seqs : Seqs, status : Status]
Handle  == [file : File, fh : Fid]

\* The empty caches of a fresh process.
NoClrs == [fid |-> -1, s0 |-> <<>>, s1 |-> <<>>]
NoSeqs == [f \in Fid |-> {}]

Elems(s) == {s[i] : i \in 1..Len(s)}
Lesser(a, b) == IF a <= b THEN a ELSE b
\* The elements of a set of numbers, ascending.
Sorted(S) == [i \in 1..Cardinality(S) |->
                CHOOSE c \in S : Cardinality({d \in S : d < c}) = i - 1]

Lost(v, how) == [v EXCEPT !.status = how]

\* The rest of a handler runs only while the process does.
If(v, w) == IF v.status = "up" THEN w ELSE v

Live(v) == {f \in File : v.table[f].lnk # 0}

-----------------------------------------------------------------------------
(* table.c: the cluster list of a file, through the one-file cache          *)

dev_tbl_load_fir(v, f) ==
  LET t == v.table[f].clrs
      n == Cardinality({i \in 1..Direct : \A j \in 1..i : t[j] # 0})
  IN IF f = 0 THEN <<t[1]>> ELSE [i \in 1..n |-> t[i]]

\* The switch to another file forgets to drop the second-level list.
dev_tbl_clrs_cnt_slip(v, f) ==
  LET c0  == IF v.clrs.fid = f THEN v.clrs ELSE [fid |-> f, s0 |-> <<>>, s1 |-> v.clrs.s1]
      sec == v.table[f].sec
  IN [v EXCEPT !.clrs =
        [fid |-> f,
         s0  |-> IF c0.s0 = <<>> THEN dev_tbl_load_fir(v, f) ELSE c0.s0,
         s1  |-> IF sec # 0 /\ c0.s1 = <<>> THEN v.secs[sec] ELSE c0.s1]]

\* dev_tbl_clrs_cnt: switch the cache to f (tbl_clrs_reinit) and fill in what
\* is empty.  What the cache already holds for f is believed.
dev_tbl_clrs_cnt(v, f) ==
  LET c0  == IF v.clrs.fid = f THEN v.clrs ELSE [fid |-> f, s0 |-> <<>>, s1 |-> <<>>]
      sec == v.table[f].sec
  IN [v EXCEPT !.clrs =
        [fid |-> f,
         s0  |-> IF c0.s0 = <<>> THEN dev_tbl_load_fir(v, f) ELSE c0.s0,
         s1  |-> IF sec # 0 /\ c0.s1 = <<>> THEN v.secs[sec] ELSE c0.s1]]

ClrsCount(v) == Len(v.clrs.s0) + Len(v.clrs.s1)

\* The clusters dev_tbl_clrs_get yields for 0 .. count-1.
Listed(v) ==
  Elems(v.clrs.s0) \cup
  {v.clrs.s1[i] : i \in 1..Lesser(Len(v.clrs.s1), ClrsCount(v) - Direct)}

\* dev_full_free_cluster and dev_clust_claim.
dev_clust_claim(v, c) ==
  LET ct == [p \in Block |-> IF p[1] = c THEN [fid |-> CLAIMED, num |-> p[2] - 1]
                                         ELSE v.ctab[p]]
  IN [v EXCEPT !.ctab = ct, !.bitmap = dev_upd_bitmap(v.bitmap, ct, {c})]

\* dev_tbl_clrs_add for the clusters `add`, in order: the first go into the
\* table entry, the others into the second-level list, for which the first of
\* them claims a cluster.
dev_tbl_clrs_add(v, f, add) ==
  LET room   == IF ClrsCount(v) < Direct THEN Lesser(Direct - ClrsCount(v), Len(add)) ELSE 0
      s0     == v.clrs.s0 \o SubSeq(add, 1, room)
      s1     == v.clrs.s1 \o SubSeq(add, room + 1, Len(add))
      slots  == [i \in 1..Direct |-> IF i \in (Len(v.clrs.s0) + 1)..Len(s0)
                                     THEN s0[i] ELSE v.table[f].clrs[i]]
      direct == [v EXCEPT !.table[f].clrs = slots, !.clrs.s0 = s0]
      whole  == WholeClusters(v.bitmap, v.ctab)
      indir  == IF v.clrs.s1 # <<>> THEN direct
                ELSE [dev_clust_claim(direct, Least(whole)) EXCEPT
                        !.table[f].sec = Least(whole)]
      sec    == indir.table[f].sec
  IN IF s1 = v.clrs.s1 THEN direct
     ELSE IF v.clrs.s1 = <<>> /\ whole = {} THEN Lost(direct, "exhausted")
     \* a list saved to cluster 0 lands in the root directory's blocks
     ELSE [indir EXCEPT !.clrs.s1 = s1, !.secs[sec] = s1,
                        !.status = IF sec = 0 THEN "undefined" ELSE @]

-----------------------------------------------------------------------------
(* file.c, common.c: block lists                                            *)

InfoOf(v, f, C) ==
  {[cid |-> p[1], bid |-> p[2], num |-> v.ctab[p].num] :
     p \in {q \in Block : q[1] \in C /\ v.ctab[q].fid = f}}

\* dev_get_file_seq: the cached list, or the list built from the cluster tables
\* of the listed clusters and then cached.  An empty list is freed, written to
\* and cached nevertheless.
dev_get_file_seq(v, f) ==
  IF v.status # "up" \/ v.seqs[f] # {} THEN v
  ELSE LET w == dev_tbl_clrs_cnt(v, f)
           l == InfoOf(w, f, Listed(w))
       IN IF l = {} THEN Lost(w, "undefined") ELSE [w EXCEPT !.seqs[f] = l]

\* Only the first cluster that is not listed is added.
dev_file_mem_clrs_slip(v, f, C) ==
  LET add == Sorted(C \ Listed(v))
  IN dev_tbl_clrs_add(v, f, SubSeq(add, 1, Lesser(Len(add), 1)))

\* dev_file_mem_clrs: list the clusters C of new blocks that are not listed yet.
dev_file_mem_clrs(v, f, C) ==
  LET add == Sorted(C \ Listed(v))
  IN dev_tbl_clrs_add(v, f, SubSeq(add, 1, Lesser(Len(add), MaxClrs - ClrsCount(v))))

\* The numbers go on from the length of the list, not from its last number.
dev_file_reserve_slip(v, f, P, num0) ==
  LET w  == dev_tbl_clrs_cnt(v, f)
      ct == [p \in Block |-> IF p \in P THEN [fid |-> f, num |-> num0 + 1 + Rank(P, p)]
                                        ELSE w.ctab[p]]
      C  == {p[1] : p \in P}
  IN dev_file_mem_clrs([w EXCEPT !.ctab = ct,
                                 !.bitmap = dev_upd_bitmap(w.bitmap, ct, C)], f, C)

\* dev_file_reserve: the blocks P become blocks num0, num0 + 1, ... of f.
dev_file_reserve(v, f, P, num0) ==
  LET w  == dev_tbl_clrs_cnt(v, f)
      ct == [p \in Block |-> IF p \in P THEN [fid |-> f, num |-> num0 + Rank(P, p)]
                                        ELSE w.ctab[p]]
      C  == {p[1] : p \in P}
  IN dev_file_mem_clrs([w EXCEPT !.ctab = ct,
                                 !.bitmap = dev_upd_bitmap(w.bitmap, ct, C)], f, C)

\* The new blocks are not linked to the list that is cached.
dev_extd_blk_list_slip(v, f, n) ==
  LET end == SearchOutcome(v.bitmap, v.ctab, n)
  IN IF end # "up" THEN Lost(v, end)
     ELSE dev_file_reserve(v, f, dev_free_blocks(v.bitmap, v.ctab, n), Cardinality(v.seqs[f]))

\* dev_extd_blk_list: the new blocks are appended to the list in place, which
\* is the cached one.
dev_extd_blk_list(v, f, n) ==
  LET P   == dev_free_blocks(v.bitmap, v.ctab, n)
      len == Cardinality(v.seqs[f])
      end == SearchOutcome(v.bitmap, v.ctab, n)
      new == {[cid |-> p[1], bid |-> p[2], num |-> len + Rank(P, p)] : p \in P}
      w   == dev_file_reserve(v, f, P, len)
  IN IF end # "up" THEN Lost(v, end)
     ELSE If(w, [w EXCEPT !.seqs[f] = @ \cup new])

\* to_blk_cnt of a directory of n entries and its header.
DirBlocks(n) == (n * EntUnits + HdrUnits + BlkUnits - 1) \div BlkUnits

\* A directory that fills its blocks exactly is extended.
dev_write_dir_slip(v, n) ==
  LET w    == dev_get_file_seq(v, 0)
      lack == DirBlocks(n) - Cardinality(w.seqs[0])
      end  == SearchOutcome(w.bitmap, w.ctab, lack)
  IN If(w, IF lack < 0 THEN w ELSE Lost(w, IF end = "up" THEN "hung" ELSE end))

\* dev_write_dir on the root directory.  dev_file_reserve refuses to extend it;
\* dev_extd_blk_list returns -1, and the loop `size_t i < seq_sz` runs on.
dev_write_dir(v, n) ==
  LET w    == dev_get_file_seq(v, 0)
      lack == DirBlocks(n) - Cardinality(w.seqs[0])
      end  == SearchOutcome(w.bitmap, w.ctab, lack)
  IN If(w, IF lack <= 0 THEN w ELSE Lost(w, IF end = "up" THEN "hung" ELSE end))

\* dev_file_alloc: a fresh table entry and the first free block of the first
\* cluster whose bit is 0.
dev_file_alloc(v, f) ==
  LET C    == FreeClusters(v.bitmap)
      c    == Least(C)
      F    == {b \in Slot : v.ctab[<<c, b>>].fid = 0}
      ent  == [lnk |-> 1, clrs |-> [i \in 1..Direct |-> IF i = 1 THEN c ELSE 0], sec |-> 0]
      ct   == [v.ctab EXCEPT ![<<c, Least(F)>>] = [fid |-> f, num |-> 0]]
  IN CASE C = {} -> Lost(v, "exhausted")
       [] C # {} /\ F = {} -> [v EXCEPT !.table[f] = ent]
       [] OTHER -> [v EXCEPT !.table[f] = ent, !.ctab = ct,
                             !.bitmap = dev_upd_bitmap(v.bitmap, ct, {c})]

\* dev_init_file: writes the header to the first block f owns in its first
\* cluster, taken from the cluster cache; with none there it uses blks[0] of
\* an empty array.
dev_init_file(v, f) ==
  LET w == IF v.clrs.fid = f THEN v ELSE dev_tbl_clrs_cnt(v, f)
  IN IF w.clrs.s0 # <<>> /\ InfoOf(w, f, {w.clrs.s0[1]}) # {} THEN w
     ELSE Lost(w, "undefined")

\* The bitmap is not updated.
dev_rm_file_slip(v, f) ==
  LET w    == dev_tbl_clrs_cnt(v, f)
      gone == {p \in Block : p[1] \in Listed(w) /\ w.ctab[p].fid = f}
      r    == [w EXCEPT !.table[f].lnk = 0,
                        !.ctab = [p \in Block |-> IF p \in gone THEN FreeEntry ELSE w.ctab[p]]]
  IN dev_write_dir(r, Cardinality(Live(r)))

\* Only the clusters in the table entry are searched for blocks.
dev_rm_file_slip2(v, f) ==
  LET w    == dev_tbl_clrs_cnt(v, f)
      gone == {p \in Block : p[1] \in Elems(w.clrs.s0) /\ w.ctab[p].fid = f}
      ct   == [p \in Block |-> IF p \in gone THEN FreeEntry ELSE w.ctab[p]]
      r    == [w EXCEPT !.table[f].lnk = 0, !.ctab = ct,
                        !.bitmap = dev_upd_bitmap(w.bitmap, ct, {p[1] : p \in gone})]
  IN dev_write_dir(r, Cardinality(Live(r)))

\* The table entry is wiped together with the blocks.
dev_rm_file_slip3(v, f) ==
  LET w    == dev_tbl_clrs_cnt(v, f)
      gone == {p \in Block : p[1] \in Listed(w) /\ w.ctab[p].fid = f}
      ct   == [p \in Block |-> IF p \in gone THEN FreeEntry ELSE w.ctab[p]]
      r    == [w EXCEPT !.table[f] = [w.table[f] EXCEPT !.lnk = 0, !.sec = 0],
                        !.ctab = ct,
                        !.bitmap = dev_upd_bitmap(w.bitmap, ct, {p[1] : p \in gone})]
  IN dev_write_dir(r, Cardinality(Live(r)))

\* dev_rm_file, with dev_rm_from_dir.  The block list cached for f stays.
dev_rm_file(v, f) ==
  LET w    == dev_tbl_clrs_cnt(v, f)
      lnk  == (w.table[f].lnk - 1) % 256
      gone == {p \in Block : p[1] \in Listed(w) /\ w.ctab[p].fid = f}
      ct   == [p \in Block |-> IF p \in gone THEN FreeEntry ELSE w.ctab[p]]
      u    == [w EXCEPT !.table[f].lnk = lnk]
      r    == [u EXCEPT !.ctab = ct,
                        !.bitmap = dev_upd_bitmap(u.bitmap, ct, {p[1] : p \in gone})]
  IN IF lnk # 0 THEN u ELSE dev_write_dir(r, Cardinality(Live(r)))

cache_seq_rm(v, f) == [v EXCEPT !.seqs[f] = {}]

-----------------------------------------------------------------------------
(* fcfsfmt.c: the volume as it is formatted, then mounted.  The formatter    *)
(* writes the cluster table of cluster 0 only; what the others hold does    *)
(* not match its hashsum and is read as free entries (dev_read_ctable).     *)

Formatted ==
  [table  |-> [f \in Fid |-> [lnk |-> IF f = 0 THEN 1 ELSE 0,
                              clrs |-> [i \in 1..Direct |-> 0], sec |-> 0]],
   ctab   |-> [p \in Block |-> IF p[1] = 0 THEN [fid |-> 0, num |-> p[2] - 1]
                                           ELSE FreeEntry],
   bitmap |-> [c \in Cluster |-> 0],
   secs   |-> [c \in Cluster |-> <<>>],
   clrs   |-> NoClrs,
   seqs   |-> NoSeqs,
   status |-> "up"]

Init == /\ vol = Formatted
        /\ opened = {}
        /\ gen = [f \in Fid |-> 0]

-----------------------------------------------------------------------------
(* The requests.                                                            *)

Running == vol.status = "up"

\* _ops_getattr of an existing path, asked for the size as well.
Looked(v, f) == dev_get_file_seq(dev_get_file_seq(v, 0), f)

\* dev_create_file and dev_init_file, then libfuse's look-up of the new path.
Created(v, f) ==
  LET read  == dev_get_file_seq(v, 0)
      alloc == If(read, dev_file_alloc(read, f))
      dir   == If(alloc, dev_write_dir(alloc, Cardinality(Live(read)) + 1))
      init  == If(dir, dev_init_file(dir, f))
  IN If(init, Looked(init, f))

FreeFids(v) == {f \in File : v.table[f].lnk = 0}

\* With the table full dev_free_fid answers -1.  dev_create_file refuses it, its
\* answer is ignored, and dev_init_file goes on with entry -1.
ops_create ==
  /\ Running
  /\ Cardinality(opened) < MaxOpen
  /\ IF FreeFids(vol) = {}
     THEN /\ vol' = Lost(vol, "undefined")
          /\ UNCHANGED <<opened, gen>>
     ELSE LET f == Least(FreeFids(vol))
          IN /\ gen[f] < MaxGen
             /\ vol' = Created(vol, f)
             /\ gen' = [gen EXCEPT ![f] = @ + 1]
             \* the handle of a created file keeps the fh 0 libfuse gave it
             /\ opened' = opened \cup {[file |-> f, fh |-> 0]}

ops_getattr(f) ==
  /\ Running /\ f \in Live(vol)
  /\ vol' = Looked(vol, f)
  /\ UNCHANGED <<opened, gen>>

\* The identifier comes from the attributes cached by the look-up before.
ops_open(f) ==
  /\ Running /\ f \in Live(vol)
  /\ Cardinality(opened) < MaxOpen
  /\ opened' = opened \cup {[file |-> f, fh |-> f]}
  /\ UNCHANGED <<vol, gen>>

ops_release(h) ==
  /\ Running
  /\ vol' = cache_seq_rm(vol, h.fh)
  /\ opened' = opened \ {h}
  /\ UNCHANGED gen

\* The file is read through fh, which names the root for a created file.
ops_read(h) ==
  /\ Running
  /\ vol' = dev_get_file_seq(vol, h.fh)
  /\ UNCHANGED <<opened, gen>>

\* A write that ends in block n - 1.  With fh 0 the path is opened again.
ops_write(h, n) ==
  /\ Running
  /\ LET f    == h.file
         w    == dev_get_file_seq(vol, f)
         lack == n - Cardinality(w.seqs[f])
     IN vol' = If(w, IF lack > 0 THEN dev_extd_blk_list(w, f, lack) ELSE w)
  /\ UNCHANGED <<opened, gen>>

\* libfuse turns the removal of an open file into a rename, which the driver
\* does not have: the request fails.
ops_unlink(f) ==
  /\ Running /\ f \in Live(vol)
  /\ \A h \in opened : h.file # f
  /\ vol' = dev_rm_file(vol, f)
  /\ UNCHANGED <<opened, gen>>

ops_readdir ==
  /\ Running
  /\ vol' = dev_get_file_seq(vol, 0)
  /\ UNCHANGED <<opened, gen>>

ops_releasedir ==
  /\ Running
  /\ vol' = cache_seq_rm(vol, 0)
  /\ UNCHANGED <<opened, gen>>

\* Unmount and mount.  dev_write_bitmap writes clu_cnt / 8.0 bytes, cut to a
\* whole number: the bits of the last, incomplete byte are 0 on the device.
Kept == {c \in Cluster : c < (NC \div ByteBits) * ByteBits}

Remount ==
  /\ Running
  /\ opened = {}
  /\ vol' = [vol EXCEPT !.bitmap = [c \in Cluster |-> IF c \in Kept THEN vol.bitmap[c] ELSE 0],
                        !.clrs = NoClrs, !.seqs = NoSeqs]
  /\ UNCHANGED <<opened, gen>>

Next ==
  \/ ops_create \/ ops_readdir \/ ops_releasedir \/ Remount
  \/ \E f \in File : ops_getattr(f) \/ ops_open(f) \/ ops_unlink(f)
  \/ \E h \in opened : ops_read(h) \/ ops_release(h)
  \/ \E h \in opened, n \in 1..MaxBlocks : ops_write(h, n)

Spec == Init /\ [][Next]_vars

-----------------------------------------------------------------------------
(* Properties.  The caches are not emptied when a file is removed, so what  *)
(* they say is claimed for files whose identifier was not used before.      *)

\* Live files with a fresh identifier.
Fresh == {f \in Live(vol) : gen[f] = 1}

Owned(f) == {p \in Block : vol.ctab[p].fid = f}

\* The cluster list of a file as the table and the device record it.
TableClusters(f) ==
  LET t == vol.table[f]
  IN ({t.clrs[i] : i \in 1..Direct} \ {0})
     \cup (IF t.sec = 0 THEN {} ELSE Elems(vol.secs[t.sec]))

\* The list of a file is not at its limit.  Behind it blocks stay outside the list
\* (dev_file_mem_clrs), and after a mount they are neither found nor freed; nor
\* is it longer than what is saved of it (ClusterList has what becomes of the rest).
Stored(f)  == Cardinality(TableClusters(f)) <= MaxSaved
HasRoom(f) == Cardinality(TableClusters(f)) < MaxClrs /\ Stored(f)

\* Every part of the state has its type.
TypeOK ==
  /\ vol \in Volume
  /\ opened \subseteq Handle
  /\ gen \in [Fid -> 0..MaxGen]

\* The bitmap has bit 1 exactly on the clusters without a free block, whatever
\* was created, extended and removed in between (dev_upd_bitmap after each
\* dev_write_ctable; dev_free_blocks does not end where it fails).
BitmapAgrees == Agrees(vol.bitmap, vol.ctab)

\* The block list cached for a file is the list of the blocks the cluster
\* tables of the whole volume give it, with their numbers (dev_get_file_seq and
\* the list dev_extd_blk_list extends in place).
SeqTruth ==
  Running => \A f \in Fresh :
    HasRoom(f) => vol.seqs[f] \in {{}, InfoOf(vol, f, Cluster)}

\* The blocks of a file are numbered 0 .. k-1 without gap or duplicate
\* (dev_file_reserve continues from the length of the list it is given).
NumsDense ==
  Running => \A f \in Fresh :
    HasRoom(f) => {vol.ctab[p].num : p \in Owned(f)} = 0..(Cardinality(Owned(f)) - 1)

\* Every block of a file lies in a cluster the file lists, or the block is lost
\* at the next mount (dev_file_mem_clrs), as long as the list has room.
ClustersListed ==
  Running => \A f \in Fresh :
    HasRoom(f) => {p[1] : p \in Owned(f)} \subseteq TableClusters(f)

\* When the one-file cluster cache names a file it holds that file's list
\* (dev_tbl_clrs_cnt, dev_tbl_clrs_add), as long as all of it is saved.
ClrsCoherent ==
  Running /\ vol.clrs.fid \in Fresh /\ Stored(vol.clrs.fid) =>
    LET f == vol.clrs.fid
    IN /\ vol.clrs.s0 = dev_tbl_load_fir(vol, f)
       /\ vol.clrs.s1 = IF vol.table[f].sec = 0 THEN <<>> ELSE vol.secs[vol.table[f].sec]

\* No block stays with a file that was removed (dev_rm_file frees the blocks of
\* the listed clusters only).
NoLeak ==
  Running => \A p \in Block :
    LET f == vol.ctab[p].fid
    IN f \in File /\ gen[f] = 1 /\ HasRoom(f) => f \in Live(vol)

\* A second-level list lies in a cluster that holds nothing else: all its
\* blocks are claimed, and it belongs to one file (dev_full_free_cluster,
\* dev_clust_claim).
SecondLevelApart ==
  Running => \A f \in Fresh :
    LET s == vol.table[f].sec
    IN s # 0 => /\ \A b \in Slot : vol.ctab[<<s, b>>].fid = CLAIMED
                /\ \A g \in Live(vol) \ {f} : vol.table[g].sec # s
                /\ \A g \in Fresh : s \notin TableClusters(g)

\* The claimed clusters are those the table entries name as second level, of live
\* files and of removed ones: the claim of a removed file is kept, so its cluster
\* is lost to the volume, but nothing else is (dev_tbl_claim_sec_addr, dev_rm_file).
ClaimedAccounted ==
  Running /\ (\A f \in File : gen[f] <= 1) =>
    {p[1] : p \in {q \in Block : vol.ctab[q].fid = CLAIMED}} =
      {vol.table[f].sec : f \in File} \ {0}

\* The root directory keeps its cluster and the numbers of its blocks: they
\* count as free in the cluster table, and only the searches' start behind
\* cluster 0 keeps them from being handed out (dev_free_cluster_from).
RootKept(v) ==
  /\ \A p \in Block : p[1] = 0 => v.ctab[p] = Formatted.ctab[p]
  /\ v.table[0] = Formatted.table[0]
  /\ v.seqs[0] \in {{}, InfoOf(Formatted, 0, {0})}

RootIntact == RootKept(vol)

\* What it takes to lose the process: a search that does not end means that the
\* root directory is full, and memory is misused only when all identifiers are
\* in use or one was used before.
LossExplained ==
  /\ vol.status = "hung" => DirBlocks(Cardinality(Live(vol))) > BPC
  /\ vol.status = "undefined" => FreeFids(vol) = {} \/ \E f \in File : gen[f] > 1

\* A step moves blocks between the free ones and one file only, or claims free
\* clusters: no block passes from one file to another (dev_file_reserve writes
\* over whatever entry the list names).
Moved   == {p \in Block : vol'.ctab[p].fid # vol.ctab[p].fid}
Parties == {vol.ctab[p].fid : p \in Moved} \cup {vol'.ctab[p].fid : p \in Moved}

NoSteal ==
  [][/\ \A p \in Moved : 0 \in {vol.ctab[p].fid, vol'.ctab[p].fid}
     /\ Cardinality(Parties \cap File) <= 1]_vars

-----------------------------------------------------------------------------
(* What dev.h says of the functions, where the code differs.               *)

\* dev_get_file_seq: "get the list of the file's blocks" (dev.h:230), for every
\* live file.
SeqIsFilesBlocks ==
  Running => \A f \in Live(vol) : vol.seqs[f] \in {{}, InfoOf(vol, f, Cluster)}

\* dev_tbl_clrs_cnt: "get the number of clusters in which the file's blocks are"
\* (dev.h:351), here the clusters themselves, for the file the cache holds.
ClustersCounted ==
  Running /\ vol.clrs.fid \in Live(vol) =>
    Listed(vol) = {p[1] : p \in Owned(vol.clrs.fid)}

\* dev_free_cluster: "search for the first cluster that is not full"
\* (dev.h:197).
FreeClusterNotFull ==
  Running /\ FreeClusters(vol.bitmap) # {} =>
    HasFree(vol.ctab, Least(FreeClusters(vol.bitmap)))

\* dev_write_dir: "0 - success, -1 - error" (dev.h:90): it answers.
WriteDirReturns == vol.status # "hung"

=============================================================================
