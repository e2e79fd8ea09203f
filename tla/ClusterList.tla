------------------------------ MODULE ClusterList ------------------------------
(***************************************************************************)
(* table.c: the list of the clusters that hold blocks of one file, in      *)
(* memory and as it is saved.  The first Direct clusters are listed in the *)
(* file's table entry, as unsigned short; the others in the blocks of a    *)
(* cluster of its own (the second level), as unsigned int.  clrs_cache     *)
(* holds the list of one file at a time: a call for another file drops it, *)
(* and the next call for this one loads what was saved.                    *)
(*                                                                         *)
(* In FCFSVolume the list in memory and the saved one are one sequence;    *)
(* here they are two.                                                      *)
(***************************************************************************)
EXTENDS Integers, Sequences

CONSTANTS
  Direct,      \* FCFS_CLUSTER_PER_FILE - 3
  BPC,         \* FCFS_BLOKS_PER_CLUSTER
  EntsPerBlk,  \* unsigned ints in a logical block
  ShortSize,   \* USHRT_MAX + 1
  MaxCluster,  \* bound: clusters of the volume
  Gap          \* bound: how far apart clusters added one after the other are

ASSUME ListAssumption ==
  /\ Direct \in Nat \ {0} /\ BPC \in Nat /\ BPC >= 3
  /\ EntsPerBlk \in Nat /\ EntsPerBlk >= 2
  /\ ShortSize \in Nat \ {0} /\ MaxCluster \in Nat /\ Gap \in Nat

VARIABLES
  list,   \* history: the clusters dev_tbl_clrs_add accepted, in order
  entry,  \* the table entry: Direct slots, 0 for none
  saved,  \* the second level on the device: its count and its entries
  cache   \* clrs_cache: is it this file's, first and second level

vars == <<list, entry, saved, cache>>

Cluster == 1..MaxCluster
Lesser(a, b) == IF a <= b THEN a ELSE b
Take(s, n) == SubSeq(s, 1, Lesser(n, Len(s)))

\* What the stack held where an entry was never read into the buffer.
Junk == 0

\* The limit counts the whole list, the count's own int included.
s1_len_slip == EntsPerBlk * (BPC - 1) + Direct

\* dev_tbl_clrs_add: the limit is computed as one entry less in every block.
s1_len == (EntsPerBlk - 1) * (BPC - 1)

\* The loops of load and save stop one block early; the first int is the count.
SavedCap == (BPC - 2) * EntsPerBlk - 1

Short(c) == c % ShortSize

NoCache == [on |-> FALSE, s0 |-> <<>>, s1 |-> <<>>]

Init == /\ list = <<>>
        /\ entry = [i \in 1..Direct |-> 0]
        /\ saved = [used |-> FALSE, cnt |-> 0, ents |-> <<>>]
        /\ cache = NoCache

\* dev_tbl_load_fir: up to the first slot that is 0.
dev_tbl_load_fir ==
  LET n == CHOOSE k \in 0..Direct :
             /\ \A i \in 1..k : entry[i] # 0
             /\ k < Direct => entry[k + 1] = 0
  IN [i \in 1..n |-> entry[i]]

\* The count is that of the entries that were saved.
dev_tbl_load_sec_slip == saved.ents

\* dev_tbl_load_sec.
dev_tbl_load_sec ==
  [i \in 1..saved.cnt |-> IF i <= Len(saved.ents) THEN saved.ents[i] ELSE Junk]

\* dev_tbl_clrs_cnt: the cache after it.
Loaded ==
  LET c0 == IF cache.on THEN cache ELSE [NoCache EXCEPT !.on = TRUE]
  IN [c0 EXCEPT !.s0 = IF @ = <<>> THEN dev_tbl_load_fir ELSE @,
                !.s1 = IF @ = <<>> /\ saved.used THEN dev_tbl_load_sec ELSE @]

Count(c) == Len(c.s0) + Len(c.s1)

\* dev_tbl_clrs_get, counting from 1; -1 for an error.  No caller asks for an
\* entry behind the last.
Get(c, i) ==
  CASE i <= Direct /\ i <= Len(c.s0) -> c.s0[i]
    [] i > Direct /\ i <= s1_len /\ i - Direct <= Len(c.s1) -> c.s1[i - Direct]
    [] OTHER -> -1

\* The second level is not saved when it is new.
dev_tbl_save_sec_slip(s1) ==
  [used |-> TRUE, cnt |-> IF saved.used THEN Len(s1) ELSE 0, ents |-> Take(s1, SavedCap)]

\* dev_tbl_save_sec.
dev_tbl_save_sec(s1) == [used |-> TRUE, cnt |-> Len(s1), ents |-> Take(s1, SavedCap)]

\* dev_tbl_clrs_add, asked for a cluster that is not listed yet; what it refuses
\* is FCFSVolume's subject.
dev_tbl_clrs_add(c) ==
  LET l == Loaded
  IN /\ Count(l) < s1_len \/ Count(l) < Direct
     /\ list' = Append(list, c)
     /\ IF Count(l) < Direct
        THEN /\ entry' = [entry EXCEPT ![Len(l.s0) + 1] = Short(c)]
             /\ cache' = [l EXCEPT !.s0 = Append(@, c)]
             /\ UNCHANGED saved
        ELSE /\ cache' = [l EXCEPT !.s1 = Append(@, c)]
             /\ saved' = dev_tbl_save_sec(cache'.s1)
             /\ UNCHANGED entry

\* dev_tbl_clrs_cnt, from a handler that reads the list.
dev_tbl_clrs_cnt == /\ cache' = Loaded
                    /\ UNCHANGED <<list, entry, saved>>

\* tbl_clrs_reinit for another file; also a new mount.
Switch == /\ cache' = NoCache
          /\ UNCHANGED <<list, entry, saved>>

Last == IF list = <<>> THEN 0 ELSE list[Len(list)]

Next == \/ \E c \in Cluster : c > Last /\ c <= Last + Gap /\ dev_tbl_clrs_add(c)
        \/ dev_tbl_clrs_cnt
        \/ Switch

Spec == Init /\ [][Next]_vars

-----------------------------------------------------------------------------
(* Properties.                                                              *)

\* Whatever was added and dropped from the cache in between: the list has as many
\* clusters as were added, and dev_tbl_clrs_get answers the right one up to those
\* the six blocks of the second level hold, if a slot of the table entry holds
\* every cluster number.
ListKept ==
  MaxCluster < ShortSize =>
    /\ Count(Loaded) = Len(list)
    /\ \A i \in 1..Lesser(Len(list), Direct + SavedCap) : Get(Loaded, i) = list[i]

\* The list in memory never grows behind the buffer that is allocated for it
\* (dev_tbl_claim_sec_addr, dev_tbl_load_sec: one int less than BPC - 1 blocks).
BufferHolds == Len(cache.s1) <= (BPC - 1) * EntsPerBlk - 1

\* What is in the cache comes back after the cache was used for another file, as
\* far as it was saved: the save is part of the addition.
CacheSaved ==
  cache.on => /\ saved.cnt = Len(cache.s1)
              /\ saved.ents = Take(cache.s1, SavedCap)

-----------------------------------------------------------------------------
(* What a comment of the repository says, and a long list or a large volume  *)
(* refutes.                                                                 *)

\* dev_tbl_clrs_get: "the number of the cluster with blocks of the file by its
\* logical number" (dev.h:360).
GetsListed == \A i \in 1..Len(list) : Get(Loaded, i) = list[i]
=============================================================================
