------------------------------- MODULE FCFSTree -------------------------------
(***************************************************************************)
(* Paths: the directory operations and the path cache (cache/file_id.c).   *)
(*                                                                         *)
(* The handlers take paths.  fcfs_get_fid turns one into an identifier by  *)
(* _ops_getattr with flag 0, which believes the cache; ops_getattr, the    *)
(* look-up libfuse makes (flag 1), does not ask the cache for the path     *)
(* itself, only for its parent, and overwrites what the cache has.         *)
(* Removal evicts nothing, and ops_rmdir does not ask whether a directory  *)
(* is empty.  A path that does not exist gets identifier 0, the root's.    *)
(*                                                                         *)
(*   lnk[f]      fs_table: link count                                      *)
(*   kind[f]     the mode in the entry of f: "dir" or "file"               *)
(*   dir[f]      content of directory f: entries, in their order           *)
(*   cache[p]    map_fid: the identifier kept for path p, None if none     *)
(*   known[p]    external: what the kernel holds p to be, from the last    *)
(*               answer it got.  It asks for a name before it makes it     *)
(*               (nothing is kept about names that do not exist), and      *)
(*               libfuse asks for a path again right after it was made.    *)
(*   lost        history: identifiers that were below a removed directory  *)
(*                                                                         *)
(* Blocks are abstracted: a directory keeps the entries written to it.     *)
(* FCFSVolume has the cases where the block layer does not (a stale block  *)
(* list, a full root directory); with them this module claims nothing.     *)
(***************************************************************************)
EXTENDS Paths, FiniteSets

CONSTANT NF    \* fs_head->tbl_cnt: identifiers, 0 is the root directory

ASSUME TreeAssumption == NF \in Nat \ {0}

VARIABLES lnk, kind, dir, cache, known, lost

vars == <<lnk, kind, dir, cache, known, lost>>

Fid   == 0..(NF - 1)
File  == Fid \ {0}
None  == NF
Entry == [name : Names, fid : File]

Init ==
  /\ lnk = [f \in Fid |-> IF f = 0 THEN 1 ELSE 0]
  /\ kind = [f \in Fid |-> "dir"]
  /\ dir = [f \in Fid |-> <<>>]
  /\ cache = [p \in Path |-> None]
  /\ known = [p \in Path |-> IF p = Root THEN "dir" ELSE "none"]
  /\ lost = {}

-----------------------------------------------------------------------------
(* From paths to identifiers.                                               *)

\* The first entry of that name; 0, as stat structures are cleared, for none.
FidIn(es, name) ==
  IF \A i \in 1..Len(es) : es[i].name # name THEN 0
  ELSE es[CHOOSE i \in 1..Len(es) : /\ es[i].name = name
                                   /\ \A j \in 1..(i - 1) : es[j].name # name].fid

\* cache_stat_add: the path is added, or the full map is cleared.
cache_stat_add(c, p, f) == {[c EXCEPT ![p] = f], [q \in Path |-> None]}

\* _ops_getattr with flag 0: the cache is asked for the path; if it does not have
\* it, the parent's identifier says in which directory to look.
Ids(d, c) ==
  LET id[p \in Path] == IF c[p] # None THEN c[p]
                        ELSE IF p = Root THEN 0
                        ELSE FidIn(d[id[Parent(p)]], Base(p))
  IN id

fcfs_get_fid(d, c, p) == Ids(d, c)[p]

\* The caches it may leave: everything that was looked up is added.
Caches(d, c) ==
  LET after[p \in Path] ==
        IF c[p] # None \/ p = Root THEN {c}
        ELSE LET f == fcfs_get_fid(d, c, p)
             IN UNION {IF f = 0 THEN {x} ELSE cache_stat_add(x, p, f) : x \in after[Parent(p)]}
  IN after

Cached(d, c, p) == Caches(d, c)[p]

\* The path's own cache entry is believed.
ops_getattr_slip(d, c, p) ==
  IF p = Root THEN {[fid |-> 0, cache |-> c]}
  ELSE LET f == fcfs_get_fid(d, c, p)
       IN {[fid |-> f, cache |-> x] : x \in Cached(d, c, p)}

\* ops_getattr (flag 1): the parent through the cache, the path itself from its
\* directory.  Identifier 0 stands for the answer ENOENT of a path other than /.
ops_getattr(d, c, p) ==
  IF p = Root THEN {[fid |-> 0, cache |-> c]}
  ELSE LET f == FidIn(d[fcfs_get_fid(d, c, Parent(p))], Base(p))
       IN {[fid |-> f, cache |-> x] :
             x \in UNION {IF f = 0 THEN {y} ELSE cache_stat_add(y, p, f) :
                            y \in Cached(d, c, Parent(p))}}

-----------------------------------------------------------------------------
(* Entries.                                                                 *)

\* The entries behind the removed one are dropped with it.
dev_rm_from_dir_slip(es, f) ==
  LET E == {i \in 1..Len(es) : es[i].fid = f}
  IN IF E = {} THEN es ELSE SubSeq(es, 1, (CHOOSE j \in E : \A k \in E : j <= k) - 1)

\* dev_rm_from_dir: the last entry takes the place of the first one of f.
dev_rm_from_dir(es, f) ==
  LET E == {i \in 1..Len(es) : es[i].fid = f}
      n == Len(es)
  IN IF E = {} THEN es
     ELSE [i \in 1..(n - 1) |-> IF i = CHOOSE j \in E : \A k \in E : j <= k THEN es[n] ELSE es[i]]

\* dev_create_file and dev_init_file: an entry more in pf, and f is empty.
dev_create_file(d, pf, f, name) ==
  [d EXCEPT ![pf] = Append(@, [name |-> name, fid |-> f]), ![f] = <<>>]

-----------------------------------------------------------------------------
(* The requests.                                                            *)

FreeFids == {f \in File : lnk[f] = 0}

\* dev_free_fid.
dev_free_fid == CHOOSE f \in FreeFids : \A g \in FreeFids : f <= g

\* The kernel's look-up of p.
Lookup(p) ==
  /\ p # Root /\ known[Parent(p)] = "dir"
  /\ \E r \in ops_getattr(dir, cache, p) :
       /\ cache' = r.cache
       /\ known' = [q \in Path |->
            IF q = p THEN (IF r.fid = 0 THEN "none" ELSE kind[r.fid])
            ELSE IF r.fid = 0 /\ q \in Below(p) THEN "none" ELSE known[q]]
  /\ UNCHANGED <<lnk, kind, dir, lost>>

\* ops_mkdir and ops_create: after a look-up that found nothing, and with a
\* look-up of what was made.  (A full table is FCFSVolume's subject.)
Make(p, k) ==
  /\ p # Root /\ known[Parent(p)] = "dir" /\ FreeFids # {}
  /\ \E r \in ops_getattr(dir, cache, p) :
       /\ r.fid = 0
       /\ \E c \in Cached(dir, r.cache, Parent(p)) :
            LET f  == dev_free_fid
                pf == fcfs_get_fid(dir, r.cache, Parent(p))
                d  == dev_create_file(dir, pf, f, Base(p))
            IN /\ lnk' = [lnk EXCEPT ![f] = 1]
               /\ kind' = [kind EXCEPT ![f] = k]
               /\ dir' = d
               /\ \E s \in ops_getattr(d, c, p) :
                    /\ cache' = s.cache
                    /\ known' = [known EXCEPT ![p] = IF s.fid = 0 THEN "none" ELSE kind'[s.fid]]
  /\ UNCHANGED lost

ops_mkdir(p)  == Make(p, "dir")
ops_create(p) == Make(p, "file")

\* The identifiers the entries lead to, without any cache; None for no such path.
Leads(d) ==
  LET at[p \in Path] ==
        IF p = Root THEN 0
        ELSE IF at[Parent(p)] = None \/ FidIn(d[at[Parent(p)]], Base(p)) = 0 THEN None
        ELSE FidIn(d[at[Parent(p)]], Base(p))
  IN at

IdAt(p) == Leads(dir)[p]

\* ops_unlink and ops_rmdir: dev_rm_file on what fcfs_get_fid and fcfs_get_pfid
\* say, of a path the kernel knows.
RemovePath(p) ==
  /\ \E c \in Cached(dir, cache, p) : \E c2 \in Cached(dir, c, Parent(p)) :
       LET f  == fcfs_get_fid(dir, cache, p)
           pf == fcfs_get_fid(dir, c, Parent(p))
           n  == (lnk[f] - 1) % 256
       IN /\ cache' = c2
          /\ lnk' = IF f = 0 THEN lnk ELSE [lnk EXCEPT ![f] = n]
          /\ dir' = IF f = 0 \/ n # 0 THEN dir ELSE [dir EXCEPT ![pf] = dev_rm_from_dir(@, f)]
  /\ known' = [q \in Path |-> IF q \in Below(p) \cup {p} THEN "none" ELSE known[q]]
  /\ lost' = lost \cup ({IdAt(q) : q \in Below(p)} \ {None})
  /\ UNCHANGED kind

ops_unlink(p) == known[p] = "file" /\ RemovePath(p)
ops_rmdir(p)  == p # Root /\ known[p] = "dir" /\ RemovePath(p)

\* ops_open, ops_readdir: they turn a known path into an identifier.
Use(p) == /\ known[p] # "none"
          /\ cache' \in Cached(dir, cache, p)
          /\ UNCHANGED <<lnk, kind, dir, known, lost>>

\* Unmount and mount: an empty cache, and a kernel that has to ask.
Remount == /\ cache' = [p \in Path |-> None]
           /\ known' = [p \in Path |-> IF p = Root THEN "dir" ELSE "none"]
           /\ UNCHANGED <<lnk, kind, dir, lost>>

Next ==
  \/ Remount
  \/ \E p \in Path :
       Lookup(p) \/ ops_mkdir(p) \/ ops_create(p) \/ ops_unlink(p) \/ ops_rmdir(p) \/ Use(p)

Spec == Init /\ [][Next]_vars

-----------------------------------------------------------------------------
(* Properties.                                                              *)

TypeOK ==
  /\ lnk \in [Fid -> 0..255]
  /\ kind \in [Fid -> {"dir", "file"}]
  /\ dir \in [Fid -> Seq(Entry)]
  /\ cache \in [Path -> File \cup {None}]
  /\ known \in [Path -> {"dir", "file", "none"}]
  /\ lost \subseteq File

\* Whatever was made, removed and made again in between: a handler that is
\* called with a path the kernel knows gets the identifier the directories lead
\* to (fcfs_get_fid), although removal evicts nothing from the cache; and the
\* path is what the kernel takes it for.
KnownResolved ==
  \A p \in Path : known[p] # "none" =>
    /\ IdAt(p) # None
    /\ fcfs_get_fid(dir, cache, p) = IdAt(p)
    /\ known[p] = kind[IdAt(p)]

\* An identifier is taken if and only if a path leads to it, or it was below a
\* directory when that was removed: then it stays taken for ever (dev_rm_file
\* frees the directory alone).
TakenExplained ==
  LET named == {IdAt(p) : p \in Path} \ {None}
  IN /\ {f \in Fid : lnk[f] # 0} = named \cup lost
     /\ named \cap lost = {}

\* What every path is.
tree == [p \in Path |-> IF IdAt(p) = None THEN "none" ELSE kind[IdAt(p)]]

Abs == INSTANCE PathTree

\* The handlers implement the tree of paths: a request changes the path it was
\* about and, if it removed a directory, the paths below it, and no other.
ImplementsTree == Abs!Spec
=============================================================================
