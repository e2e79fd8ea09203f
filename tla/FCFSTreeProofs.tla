---------------------------- MODULE FCFSTreeProofs ----------------------------
(***************************************************************************)
(* The path cache and the tree of paths, for every number of names and     *)
(* identifiers and every depth.                                            *)
(*                                                                         *)
(* TInv is the inductive invariant: the entries make a tree in which every *)
(* identifier has one path, the link counts count paths and losses, and    *)
(* for the paths the kernel knows the cache has what the directories say   *)
(* or nothing.  It may have anything for the others: that is what removal  *)
(* leaves behind.                                                          *)
(***************************************************************************)
EXTENDS FCFSTree, SequenceTheorems, WellFoundedInduction, TLAPS

-----------------------------------------------------------------------------
(* Paths.                                                                   *)

\* A path is a sequence of at most Depth names.
LEMMA PathIs == Path = {p \in Seq(Names) : Len(p) <= Depth}
<1>1. ASSUME NEW p \in Path PROVE p \in Seq(Names) /\ Len(p) <= Depth
  <2>1. PICK n \in 0..Depth : p \in [1..n -> Names]
    BY DEF Path
  <2>2. QED
    BY <2>1, PathAssumption
<1>2. ASSUME NEW p \in Seq(Names), Len(p) <= Depth PROVE p \in Path
  <2>1. Len(p) \in 0..Depth /\ p \in [1..Len(p) -> Names]
    BY <1>2, PathAssumption
  <2>2. QED
    BY <2>1 DEF Path
<1>3. QED
  BY <1>1, <1>2

\* Every path but the root has a parent, one name shorter.
LEMMA ParentPath ==
  ASSUME NEW p \in Path, p # Root
  PROVE  /\ Parent(p) \in Path /\ Len(p) \in Nat /\ 1 <= Len(p) /\ Len(Parent(p)) = Len(p) - 1
         /\ Parent(p) # p /\ Base(p) \in Names
         /\ \A i \in 1..(Len(p) - 1) : Parent(p)[i] = p[i]
<1>1. p \in Seq(Names) /\ Len(p) <= Depth /\ Len(p) \in Nat
  BY PathIs
<1>2. 1 <= Len(p)
  BY <1>1 DEF Root
<1>3. Parent(p) = [i \in 1..(Len(p) - 1) |-> p[i]]
  BY <1>1, <1>2 DEF Parent, Prefix
<1>4. Parent(p) \in Seq(Names) /\ Len(Parent(p)) = Len(p) - 1
  <2>1. Len(p) - 1 \in Nat /\ [i \in 1..(Len(p) - 1) |-> p[i]] \in [1..(Len(p) - 1) -> Names]
    BY <1>1, <1>2
  <2>2. QED
    BY <1>3, <2>1
<1>5. Parent(p) \in Path
  BY <1>1, <1>4, PathIs, PathAssumption
<1>6. \A i \in 1..(Len(p) - 1) : Parent(p)[i] = p[i]
  BY <1>3
<1>7. Base(p) \in Names
  BY <1>1, <1>2 DEF Base
<1>8. Parent(p) # p
  BY <1>1, <1>4
<1>9. QED
  BY <1>1, <1>2, <1>4, <1>5, <1>6, <1>7, <1>8

\* A name and a parent make one path.
LEMMA SamePath ==
  ASSUME NEW p \in Path, NEW q \in Path, p # Root, q # Root, Parent(p) = Parent(q), Base(p) = Base(q)
  PROVE  p = q
<1>1. p \in Seq(Names) /\ q \in Seq(Names)
  BY PathIs
<1>2. Len(p) = Len(q)
  BY ParentPath
<1>3. ASSUME NEW i \in 1..Len(p) PROVE p[i] = q[i]
  <2>1. CASE i = Len(p)
    BY <1>2, <2>1 DEF Base
  <2>2. CASE i # Len(p)
    BY <1>2, <2>2, ParentPath
  <2>3. QED
    BY <2>1, <2>2
<1>4. QED
  BY <1>1, <1>2, <1>3

\* A path that is not too deep has a path for every name.
LEMMA ChildPath ==
  ASSUME NEW p \in Path, NEW m \in Names, Len(p) # Depth
  PROVE  /\ Append(p, m) \in Path /\ Append(p, m) # Root
         /\ Parent(Append(p, m)) = p /\ Base(Append(p, m)) = m
<1>1. p \in Seq(Names) /\ Len(p) <= Depth /\ Len(p) \in Nat
  BY PathIs
<1>2. Append(p, m) \in Seq(Names) /\ Len(Append(p, m)) = Len(p) + 1
  BY <1>1
<1>3. Append(p, m) \in Path /\ Append(p, m) # Root
  BY <1>1, <1>2, PathIs, PathAssumption DEF Root
<1>4. Base(Append(p, m)) = m
  BY <1>1, <1>2 DEF Base
<1>5. Parent(Append(p, m)) = p
  <2>1. PICK q \in Path : q = Append(p, m)
    BY <1>3
  <2>2. q # Root /\ Len(q) = Len(p) + 1
    BY <1>2, <1>3, <2>1
  <2>3. Parent(q) \in Path /\ Len(Parent(q)) = Len(p)
    BY <1>1, <2>2, ParentPath
  <2>4. Parent(q) \in Seq(Names)
    BY <2>3, PathIs
  <2>5. ASSUME NEW i \in 1..Len(p) PROVE Parent(q)[i] = p[i]
    <3>1. i \in 1..(Len(q) - 1)
      BY <1>1, <2>2
    <3>2. Parent(q)[i] = q[i]
      BY <2>2, <3>1, ParentPath
    <3>3. q[i] = p[i]
      BY <1>1, <2>1
    <3>4. QED
      BY <3>2, <3>3
  <2>6. Parent(q) = p
    BY <1>1, <2>3, <2>4, <2>5
  <2>7. QED
    BY <2>1, <2>6
<1>6. QED
  BY <1>3, <1>4, <1>5

\* The root is the path without names.
LEMMA RootPath == Root \in Path /\ Len(Root) = 0
  BY PathIs, PathAssumption DEF Root

\* What holds of the root and is inherited from parents holds of every path.
LEMMA PathInduction ==
  ASSUME NEW S, Root \in S, \A p \in Path : p # Root /\ Parent(p) \in S => p \in S
  PROVE  \A p \in Path : p \in S
<1> SUFFICES ASSUME NEW w \in Path, w \notin S PROVE FALSE
  OBVIOUS
<1> DEFINE T == {Len(p) : p \in Path \ S}
<1>1. T \subseteq Nat /\ T # {}
  BY PathIs
<1>2. PICK n \in T : \A y \in T : ~(<<y, n>> \in OpToRel(<, Nat))
  BY <1>1, NatLessThanWellFounded, WFMin
<1>3. \A y \in T : ~(y < n)
  BY <1>1, <1>2 DEF OpToRel
<1>4. PICK p \in Path : p \notin S /\ Len(p) = n
  OBVIOUS
<1>5. p # Root
  BY <1>4
<1>6. Parent(p) \notin S /\ Parent(p) \in Path
  BY <1>4, <1>5, ParentPath
<1>7. Len(Parent(p)) \in T /\ Len(Parent(p)) < n
  BY <1>4, <1>5, <1>6, ParentPath
<1>8. QED
  BY <1>3, <1>7

Under(p) == Below(p) \cup {p}

\* What is under p: p, and what has its parent there.
LEMMA UnderIs ==
  ASSUME NEW p \in Path, NEW q \in Path, q # Root
  PROVE  q \in Under(p) <=> q = p \/ Parent(q) \in Under(p)
<1>1. p \in Seq(Names) /\ q \in Seq(Names) /\ Len(p) \in Nat /\ Len(q) \in Nat /\ Len(p) <= Depth
      /\ Len(q) <= Depth
  BY PathIs
<1>2. 1 <= Len(q) /\ Len(Parent(q)) = Len(q) - 1 /\ Parent(q) \in Path
      /\ \A i \in 1..(Len(q) - 1) : Parent(q)[i] = q[i]
  BY ParentPath
<1>3. Parent(q) \in Seq(Names)
  BY <1>2, PathIs
<1>4. ASSUME NEW r \in Path PROVE r \in Under(p) <=> Len(r) >= Len(p) /\ \A i \in 1..Len(p) : r[i] = p[i]
  <2>1. r \in Seq(Names) /\ Len(r) \in Nat
    BY PathIs
  <2>2. ASSUME Len(r) >= Len(p)
        PROVE  /\ Prefix(r, Len(p)) \in Seq(Names) /\ Len(Prefix(r, Len(p))) = Len(p)
               /\ \A i \in 1..Len(p) : Prefix(r, Len(p))[i] = r[i]
    BY <1>1, <2>1, <2>2 DEF Prefix
  <2>3. ASSUME Len(r) >= Len(p), \A i \in 1..Len(p) : r[i] = p[i] PROVE Prefix(r, Len(p)) = p
    BY <1>1, <2>2, <2>3
  <2>4. ASSUME Len(r) = Len(p), \A i \in 1..Len(p) : r[i] = p[i] PROVE r = p
    BY <1>1, <2>1, <2>4
  <2>5. QED
    BY <1>1, <2>1, <2>2, <2>3, <2>4 DEF Under, Below
<1>5. CASE Len(q) = Len(p)
  <2>1. q \in Under(p) <=> q = p
    BY <1>1, <1>4, <1>5
  <2>2. Parent(q) \notin Under(p)
    BY <1>1, <1>2, <1>4, <1>5
  <2>3. QED
    BY <2>1, <2>2
<1>6. CASE Len(q) # Len(p)
  <2>1. q # p
    BY <1>6
  <2>2. q \in Under(p) <=> Len(q) >= Len(p) /\ \A i \in 1..Len(p) : q[i] = p[i]
    BY <1>4
  <2>3. Parent(q) \in Under(p) <=> Len(Parent(q)) >= Len(p) /\ \A i \in 1..Len(p) : Parent(q)[i] = p[i]
    BY <1>2, <1>4
  <2>4. Len(q) >= Len(p) <=> Len(Parent(q)) >= Len(p)
    BY <1>1, <1>2, <1>6
  <2>5. ASSUME Len(Parent(q)) >= Len(p), NEW i \in 1..Len(p) PROVE Parent(q)[i] = q[i]
    <3>1. i \in 1..(Len(q) - 1)
      BY <1>1, <1>2, <2>5
    <3>2. QED
      BY <1>2, <3>1
  <2>6. q \in Under(p) <=> Parent(q) \in Under(p)
    BY <2>2, <2>3, <2>4, <2>5
  <2>7. QED
    BY <2>1, <2>6
<1>7. QED
  BY <1>5, <1>6

\* The root is under nothing else.
LEMMA RootNotUnder == ASSUME NEW p \in Path, p # Root PROVE Root \notin Under(p)
  BY RootPath, ParentPath DEF Under, Below

-----------------------------------------------------------------------------
(* The look-ups: what is computed from the root on.                         *)

Follows(r, zero, step) ==
  \A p \in Path : r[p] = IF p = Root THEN zero ELSE step[<<p, r[Parent(p)]>>]

\* A step that is given the value of the parent computes a value for every path.
LEMMA PathRecursion ==
  ASSUME NEW V, NEW zero \in V, NEW step \in [Path \X V -> V]
  PROVE  \E r \in [Path -> V] : Follows(r, zero, step)
<1> DEFINE Upto(n)  == {p \in Path : Len(p) <= n}
           Is(r, n) == \A p \in Upto(n) : r[p] = IF p = Root THEN zero ELSE step[<<p, r[Parent(p)]>>]
           S == {n \in Nat : \E r \in [Path -> V] : Is(r, n)}
<1>1. 0 \in S
  <2>1. [p \in Path |-> zero] \in [Path -> V]
    OBVIOUS
  <2>2. \A p \in Upto(0) : p = Root
    BY ParentPath
  <2>3. Is([p \in Path |-> zero], 0)
    BY <2>2
  <2>4. QED
    BY <2>1, <2>3
<1>2. ASSUME NEW n \in S PROVE n + 1 \in S
  <2>1. PICK r \in [Path -> V] : Is(r, n)
    BY <1>2
  <2>2. PICK x : x = [p \in Path |-> IF p \in Upto(n) THEN r[p] ELSE step[<<p, r[Parent(p)]>>]]
    OBVIOUS
  <2>3. \A p \in Upto(n) : x[p] = r[p]
    BY <2>2
  <2>4. ASSUME NEW p \in Path, p \notin Upto(n)
        PROVE  p # Root /\ Parent(p) \in Path /\ x[p] = step[<<p, r[Parent(p)]>>]
    <3>1. p # Root
      BY <2>4, RootPath
    <3>2. QED
      BY <2>2, <2>4, <3>1, ParentPath
  <2>5. x \in [Path -> V]
    <3>1. ASSUME NEW p \in Path PROVE x[p] \in V
      <4>1. CASE p \in Upto(n)
        BY <2>3, <4>1
      <4>2. CASE p \notin Upto(n)
        <5>1. <<p, r[Parent(p)]>> \in Path \X V
          BY <2>4, <4>2
        <5>2. QED
          BY <2>4, <4>2, <5>1
      <4>3. QED
        BY <4>1, <4>2
    <3>2. QED
      BY <2>2, <3>1
  <2>6. ASSUME NEW p \in Upto(n + 1), p # Root PROVE x[p] = step[<<p, x[Parent(p)]>>]
    <3>1. Parent(p) \in Upto(n)
      BY <2>6, ParentPath
    <3>2. x[Parent(p)] = r[Parent(p)]
      BY <2>3, <3>1
    <3>3. CASE p \in Upto(n)
      BY <2>1, <2>3, <2>6, <3>2, <3>3
    <3>4. CASE p \notin Upto(n)
      BY <2>4, <3>2, <3>4
    <3>5. QED
      BY <3>3, <3>4
  <2>7. x[Root] = zero
    <3>1. Root \in Upto(n)
      BY <1>2, RootPath
    <3>2. QED
      BY <2>1, <2>3, <3>1
  <2>8. Is(x, n + 1)
    BY <2>6, <2>7
  <2>9. QED
    BY <1>2, <2>5, <2>8
<1>3. Depth \in S
  <2> SUFFICES ASSUME Depth \notin S PROVE FALSE
    OBVIOUS
  <2> DEFINE T == Nat \ S
  <2>1. T \subseteq Nat /\ T # {}
    BY PathAssumption
  <2> HIDE DEF S
  <2>2. PICK n \in T : \A y \in T : ~(<<y, n>> \in OpToRel(<, Nat))
    BY <2>1, NatLessThanWellFounded, WFMin
  <2>3. \A y \in T : ~(y < n)
    BY <2>1, <2>2 DEF OpToRel
  <2>4. n # 0 /\ n \in Nat
    BY <1>1
  <2>5. n - 1 \in S
    BY <2>3, <2>4
  <2>6. (n - 1) + 1 \in S
    BY <1>2, <2>5
  <2>7. QED
    BY <2>4, <2>6
<1>4. PICK r \in [Path -> V] : Is(r, Depth)
  BY <1>3
<1>5. \A p \in Path : p \in Upto(Depth)
  BY PathIs
<1>6. \A p \in Path : r[p] = IF p = Root THEN zero ELSE step[<<p, r[Parent(p)]>>]
  BY <1>4, <1>5
<1>7. QED
  BY <1>6 DEF Follows

\* The first of the entries that have a property.
LEMMA FirstOf ==
  ASSUME NEW n \in Nat, NEW E \in SUBSET (1..n), E # {}
  PROVE  \E i \in E : \A j \in E : i <= j
<1>1. E \subseteq Nat
  OBVIOUS
<1>2. PICK i \in E : \A y \in E : ~(<<y, i>> \in OpToRel(<, Nat))
  BY <1>1, NatLessThanWellFounded, WFMin
<1>3. \A y \in E : ~(y < i)
  BY <1>1, <1>2 DEF OpToRel
<1>4. \A y \in E : i <= y
  BY <1>1, <1>3
<1>5. QED
  BY <1>4

\* FidIn finds an entry of that name if there is one.
LEMMA FidInIs ==
  ASSUME NEW es \in Seq(Entry), NEW m
  PROVE  /\ FidIn(es, m) \in Fid
         /\ (\A i \in 1..Len(es) : es[i].name # m) => FidIn(es, m) = 0
         /\ (\E i \in 1..Len(es) : es[i].name = m) =>
              FidIn(es, m) # 0 /\ \E i \in 1..Len(es) : es[i].name = m /\ FidIn(es, m) = es[i].fid
<1>1. CASE \A i \in 1..Len(es) : es[i].name # m
  BY <1>1, TreeAssumption DEF FidIn, Fid
<1>2. CASE \E i \in 1..Len(es) : es[i].name = m
  <2> DEFINE E == {i \in 1..Len(es) : es[i].name = m}
             First(i) == es[i].name = m /\ \A j \in 1..(i - 1) : es[j].name # m
  <2> DEFINE n == Len(es)
  <2>0. n \in Nat /\ E \in SUBSET (1..n) /\ E # {}
    BY <1>2
  <2>1. PICK i \in E : \A j \in E : i <= j
    <3> HIDE DEF E, n
    <3>1. QED
      BY <2>0, FirstOf
  <2>2. i \in 1..Len(es) /\ First(i)
    BY <2>1
  <2>3. PICK k : k = CHOOSE j \in 1..Len(es) : First(j)
    OBVIOUS
  <2>4. k \in 1..Len(es) /\ es[k].name = m
    BY <2>2, <2>3
  <2>5. FidIn(es, m) = es[k].fid
    BY <1>2, <2>3 DEF FidIn
  <2>6. es[k].fid \in Fid /\ es[k].fid # 0
    <3>1. es[k] \in Entry
      BY <2>4
    <3>2. QED
      BY <3>1 DEF Entry, File
  <2>7. QED
    BY <1>2, <2>4, <2>5, <2>6
<1>3. QED
  BY <1>1, <1>2

Dirs == [Fid -> Seq(Entry)]

\* The recursion of Leads: defined for every path.
LEMMA LeadsIs ==
  ASSUME NEW d \in Dirs
  PROVE  /\ Leads(d) \in [Path -> Fid \cup {None}]
         /\ Leads(d)[Root] = 0
         /\ \A p \in Path : p # Root =>
              /\ Leads(d)[Parent(p)] = None => Leads(d)[p] = None
              /\ Leads(d)[Parent(p)] # None =>
                   Leads(d)[p] = IF FidIn(d[Leads(d)[Parent(p)]], Base(p)) = 0 THEN None
                                 ELSE FidIn(d[Leads(d)[Parent(p)]], Base(p))
<1>0. PICK V : V = Fid \cup {None}
  OBVIOUS
<1> DEFINE Then(p, v) == IF v = None \/ FidIn(d[v], Base(p)) = 0 THEN None ELSE FidIn(d[v], Base(p))
           Eq(at) == at = [p \in Path |-> IF p = Root THEN 0 ELSE Then(p, at[Parent(p)])]
<1>1. \A p \in Path, v \in V : Then(p, v) \in V
  BY <1>0, FidInIs DEF Dirs
<1>2. PICK step : step = [pv \in Path \X V |-> Then(pv[1], pv[2])]
  OBVIOUS
<1>3. PICK zero : zero \in V /\ zero = 0
  BY <1>0, TreeAssumption DEF Fid
<1>4. step \in [Path \X V -> V] /\ \A p \in Path, v \in V : step[<<p, v>>] = Then(p, v)
  BY <1>1, <1>2
<1> HIDE DEF Then
<1>5. PICK r \in [Path -> V] : Follows(r, zero, step)
  BY <1>3, <1>4, PathRecursion
<1>6. ASSUME NEW p \in Path PROVE r[p] = IF p = Root THEN 0 ELSE Then(p, r[Parent(p)])
  <2>1. CASE p = Root
    BY <1>3, <1>5, <2>1 DEF Follows
  <2>2. CASE p # Root
    <3>1. r[Parent(p)] \in V
      BY <1>5, <2>2, ParentPath
    <3>2. r[p] = step[<<p, r[Parent(p)]>>]
      BY <1>5, <2>2 DEF Follows
    <3>3. QED
      BY <1>4, <2>2, <3>1, <3>2
  <2>3. QED
    BY <2>1, <2>2
<1>7. r = [p \in Path |-> r[p]]
  OBVIOUS
<1>8. Eq(r)
  BY <1>6, <1>7, Zenon
<1>9. Leads(d) = CHOOSE at : Eq(at)
  BY DEF Leads, Then
<1>10. Eq(Leads(d))
  BY <1>8, <1>9, Zenon
<1>11. \A p \in Path : Leads(d)[p] = IF p = Root THEN 0 ELSE Then(p, Leads(d)[Parent(p)])
  BY <1>10
<1>12. \A p \in Path : Leads(d)[p] \in V
  <2> DEFINE S == {p \in Path : Leads(d)[p] \in V}
  <2>1. Root \in S
    BY <1>3, <1>11, RootPath
  <2>2. \A p \in Path : p # Root /\ Parent(p) \in S => p \in S
    BY <1>1, <1>11
  <2>3. \A p \in Path : p \in S
    BY <2>1, <2>2, PathInduction
  <2>4. QED
    BY <2>3
<1>13. Leads(d) \in [Path -> V]
  BY <1>10, <1>12
<1>14. QED
  BY <1>0, <1>11, <1>13, RootPath DEF Then

CacheTypes == [Path -> File \cup {None}]

\* The recursion of fcfs_get_fid.
LEMMA IdsIs ==
  ASSUME NEW d \in Dirs, NEW m \in CacheTypes
  PROVE  /\ \A p \in Path : fcfs_get_fid(d, m, p) \in Fid
         /\ m[Root] = None => fcfs_get_fid(d, m, Root) = 0
         /\ \A p \in Path : m[p] # None => fcfs_get_fid(d, m, p) = m[p]
         /\ \A p \in Path : p # Root /\ m[p] = None =>
              fcfs_get_fid(d, m, p) = FidIn(d[fcfs_get_fid(d, m, Parent(p))], Base(p))
<1> DEFINE Then(p, v) == IF m[p] # None THEN m[p] ELSE FidIn(d[v], Base(p))
           Eq(id) == id = [p \in Path |-> IF m[p] # None THEN m[p]
                                          ELSE IF p = Root THEN 0
                                          ELSE FidIn(d[id[Parent(p)]], Base(p))]
<1>1. \A p \in Path : m[p] # None => m[p] \in Fid
  BY DEF CacheTypes, File
<1>2. \A p \in Path, v \in Fid : FidIn(d[v], Base(p)) \in Fid
  BY FidInIs DEF Dirs
<1>3. \A p \in Path, v \in Fid : Then(p, v) \in Fid
  BY <1>1, <1>2
<1>4. PICK step : step = [pv \in Path \X Fid |-> Then(pv[1], pv[2])]
  OBVIOUS
<1>5. PICK zero : zero \in Fid /\ zero = IF m[Root] # None THEN m[Root] ELSE 0
  BY <1>1, RootPath, TreeAssumption DEF Fid
<1>6. step \in [Path \X Fid -> Fid] /\ \A p \in Path, v \in Fid : step[<<p, v>>] = Then(p, v)
  BY <1>3, <1>4
<1> HIDE DEF Then
<1>7. PICK r \in [Path -> Fid] : Follows(r, zero, step)
  <2>1. zero \in Fid
    BY <1>5
  <2>2. step \in [Path \X Fid -> Fid]
    BY <1>6
  <2>3. QED
    BY <2>1, <2>2, PathRecursion
<1>8. ASSUME NEW p \in Path
      PROVE  r[p] = IF m[p] # None THEN m[p] ELSE IF p = Root THEN 0 ELSE FidIn(d[r[Parent(p)]], Base(p))
  <2>1. CASE p = Root
    BY <1>5, <1>7, <2>1 DEF Follows
  <2>2. CASE p # Root
    <3>1. r[Parent(p)] \in Fid
      BY <1>7, <2>2, ParentPath
    <3>2. r[p] = step[<<p, r[Parent(p)]>>]
      BY <1>7, <2>2 DEF Follows
    <3>3. QED
      BY <1>6, <2>2, <3>1, <3>2 DEF Then
  <2>3. QED
    BY <2>1, <2>2
<1>9. r = [p \in Path |-> r[p]]
  OBVIOUS
<1>10. Eq(r)
  BY <1>8, <1>9, Zenon
<1>11. Ids(d, m) = CHOOSE id : Eq(id)
  BY DEF Ids
<1>12. Eq(Ids(d, m))
  BY <1>10, <1>11, Zenon
<1>13. \A p \in Path : Ids(d, m)[p] = IF m[p] # None THEN m[p] ELSE IF p = Root THEN 0
                                     ELSE FidIn(d[Ids(d, m)[Parent(p)]], Base(p))
  BY <1>12
<1>14. \A p \in Path : Ids(d, m)[p] \in Fid
  <2> DEFINE S == {p \in Path : Ids(d, m)[p] \in Fid}
  <2>1. Root \in S
    BY <1>1, <1>13, RootPath, TreeAssumption DEF Fid
  <2>2. \A p \in Path : p # Root /\ Parent(p) \in S => p \in S
    BY <1>1, <1>2, <1>13
  <2>3. \A p \in Path : p \in S
    BY <2>1, <2>2, PathInduction
  <2>4. QED
    BY <2>3
<1>15. QED
  BY <1>13, <1>14, RootPath DEF fcfs_get_fid

\* What cache_stat_add may leave.
LEMMA StatAdded ==
  ASSUME NEW c \in CacheTypes, NEW p \in Path, NEW f \in File, NEW x \in cache_stat_add(c, p, f)
  PROVE  x \in CacheTypes /\ x[p] \in {f, None} /\ \A q \in Path : q # p => x[q] \in {c[q], None}
<1>1. CASE x = [c EXCEPT ![p] = f]
  BY <1>1 DEF CacheTypes
<1>2. CASE x = [q \in Path |-> None]
  BY <1>2 DEF CacheTypes
<1>3. QED
  BY <1>1, <1>2 DEF cache_stat_add

\* The recursion of Cached: the caches left for a path are made from those left
\* for its parent.
LEMMA CachedIs ==
  ASSUME NEW d \in Dirs, NEW m \in CacheTypes
  PROVE  /\ \A p \in Path : m[p] # None \/ p = Root => Cached(d, m, p) = {m}
         /\ \A p \in Path : p # Root /\ m[p] = None =>
              \A x \in Cached(d, m, p) : \E y \in Cached(d, m, Parent(p)) :
                IF fcfs_get_fid(d, m, p) = 0 THEN x = y
                ELSE x \in cache_stat_add(y, p, fcfs_get_fid(d, m, p))
<1>0. PICK V : V = SUBSET CacheTypes
  OBVIOUS
<1> DEFINE Adds(p, y) == IF fcfs_get_fid(d, m, p) = 0 THEN {y}
                         ELSE cache_stat_add(y, p, fcfs_get_fid(d, m, p))
           More(p, v) == UNION {Adds(p, y) : y \in v}
           Then(p, v) == IF m[p] # None THEN {m} ELSE More(p, v)
           Eq(after) == after = [p \in Path |-> IF m[p] # None \/ p = Root THEN {m}
                                                ELSE More(p, after[Parent(p)])]
<1>1. \A p \in Path, y \in CacheTypes : \A x \in Adds(p, y) : x \in CacheTypes
  BY IdsIs, StatAdded DEF File
<1>2. \A p \in Path, v \in V : More(p, v) \in V
  BY <1>0, <1>1
<1>3. \A p \in Path, v \in V : Then(p, v) \in V
  BY <1>0, <1>2
<1> HIDE DEF More
<1>4. PICK step : step = [pv \in Path \X V |-> Then(pv[1], pv[2])]
  OBVIOUS
<1>5. PICK zero : zero \in V /\ zero = {m}
  BY <1>0
<1>6. step \in [Path \X V -> V] /\ \A p \in Path, v \in V : step[<<p, v>>] = Then(p, v)
  BY <1>3, <1>4
<1> HIDE DEF Then
<1>7. PICK r \in [Path -> V] : Follows(r, zero, step)
  <2>1. zero \in V
    BY <1>5
  <2>2. step \in [Path \X V -> V]
    BY <1>6
  <2>3. QED
    BY <2>1, <2>2, PathRecursion
<1>8. ASSUME NEW p \in Path
      PROVE  r[p] = IF m[p] # None \/ p = Root THEN {m} ELSE More(p, r[Parent(p)])
  <2>1. CASE p = Root
    BY <1>5, <1>7, <2>1 DEF Follows
  <2>2. CASE p # Root
    <3>1. r[Parent(p)] \in V
      BY <1>7, <2>2, ParentPath
    <3>2. r[p] = step[<<p, r[Parent(p)]>>]
      BY <1>7, <2>2 DEF Follows
    <3>3. QED
      BY <1>6, <2>2, <3>1, <3>2 DEF Then
  <2>3. QED
    BY <2>1, <2>2
<1>9. r = [p \in Path |-> r[p]]
  OBVIOUS
<1>10. Eq(r)
  BY <1>8, <1>9, Zenon
<1>11. Caches(d, m) = CHOOSE after : Eq(after)
  BY DEF Caches, More
<1>12. Eq(Caches(d, m))
  BY <1>10, <1>11, Zenon
<1>13. \A p \in Path : Caches(d, m)[p] = IF m[p] # None \/ p = Root THEN {m}
                                        ELSE More(p, Caches(d, m)[Parent(p)])
  BY <1>12
<1>14. ASSUME NEW p \in Path, p # Root, m[p] = None, NEW x \in Cached(d, m, p)
       PROVE  \E y \in Cached(d, m, Parent(p)) : x \in Adds(p, y)
  <2>1. x \in More(p, Cached(d, m, Parent(p)))
    BY <1>13, <1>14 DEF Cached
  <2>2. QED
    BY <2>1 DEF More
<1>15. QED
  BY <1>13, <1>14 DEF Cached

-----------------------------------------------------------------------------
(* Entries added and removed.                                               *)

NamesApart(es) == \A i, j \in 1..Len(es) : es[i].name = es[j].name => i = j
FidsApart(es)  == \A i, j \in 1..Len(es) : es[i].fid = es[j].fid => i = j

\* Where names differ, FidIn gives the entry of that name.
LEMMA FidOfEntry ==
  ASSUME NEW es \in Seq(Entry), NamesApart(es), NEW i \in 1..Len(es)
  PROVE  FidIn(es, es[i].name) = es[i].fid
  BY FidInIs DEF NamesApart

\* An entry more: its name is found, the others as before.
LEMMA FidAppended ==
  ASSUME NEW es \in Seq(Entry), NamesApart(es), NEW e \in Entry, FidIn(es, e.name) = 0
  PROVE  /\ Append(es, e) \in Seq(Entry) /\ NamesApart(Append(es, e))
         /\ \A m : FidIn(Append(es, e), m) = IF m = e.name THEN e.fid ELSE FidIn(es, m)
<1>1. PICK n \in Nat : n = Len(es)
  OBVIOUS
<1>2. Append(es, e) \in Seq(Entry)
  OBVIOUS
<1>2a. PICK s \in Seq(Entry) : s = Append(es, e)
  BY <1>2
<1>3. Len(s) = n + 1 /\ s[n + 1] = e /\ \A i \in 1..n : s[i] = es[i]
  BY <1>1, <1>2a
<1>4. \A i \in 1..n : es[i].name # e.name
  BY <1>1, FidInIs
<1>5. NamesApart(s)
  <2> SUFFICES ASSUME NEW i \in 1..(n + 1), NEW j \in 1..(n + 1), s[i].name = s[j].name PROVE i = j
    BY <1>3 DEF NamesApart
  <2>1. CASE i \in 1..n /\ j \in 1..n
    BY <1>1, <1>3, <2>1 DEF NamesApart
  <2>2. CASE i = n + 1 /\ j \in 1..n
    BY <1>3, <1>4, <2>2
  <2>3. CASE i \in 1..n /\ j = n + 1
    BY <1>3, <1>4, <2>3
  <2>4. QED
    BY <2>1, <2>2, <2>3
<1>6. ASSUME NEW m PROVE FidIn(s, m) = IF m = e.name THEN e.fid ELSE FidIn(es, m)
  <2>1. CASE m = e.name
    <3>1. n + 1 \in 1..Len(s)
      BY <1>3
    <3>2. FidIn(s, s[n + 1].name) = s[n + 1].fid
      BY <1>5, <3>1, FidOfEntry
    <3>3. QED
      BY <1>3, <2>1, <3>2
  <2>2. CASE m # e.name /\ \E i \in 1..n : es[i].name = m
    <3>1. PICK i \in 1..n : es[i].name = m
      BY <2>2
    <3>2. i \in 1..Len(s) /\ s[i] = es[i]
      BY <1>3
    <3>3. FidIn(s, s[i].name) = s[i].fid
      BY <1>5, <3>2, FidOfEntry
    <3>4. FidIn(es, es[i].name) = es[i].fid
      BY <1>1, FidOfEntry
    <3>5. QED
      BY <2>2, <3>1, <3>2, <3>3, <3>4
  <2>3. CASE m # e.name /\ \A i \in 1..n : es[i].name # m
    <3>1. \A i \in 1..Len(s) : s[i].name # m
      BY <1>3, <2>3
    <3>2. FidIn(s, m) = 0 /\ FidIn(es, m) = 0
      BY <1>1, <2>3, <3>1, FidInIs
    <3>3. QED
      BY <2>3, <3>2
  <2>4. QED
    BY <2>1, <2>2, <2>3
<1>7. QED
  BY <1>2a, <1>5, <1>6

\* An entry less: dev_rm_from_dir moves the last entry, so that the order
\* changes, and what is found under other names does not.
LEMMA FidRemoved ==
  ASSUME NEW es \in Seq(Entry), NamesApart(es), FidsApart(es), NEW k \in 1..Len(es)
  PROVE  /\ dev_rm_from_dir(es, es[k].fid) \in Seq(Entry)
         /\ NamesApart(dev_rm_from_dir(es, es[k].fid))
         /\ \A m : FidIn(dev_rm_from_dir(es, es[k].fid), m) = IF m = es[k].name THEN 0 ELSE FidIn(es, m)
<1>1. PICK n \in Nat : n = Len(es) /\ 1 <= n
  OBVIOUS
<1>2. {i \in 1..Len(es) : es[i].fid = es[k].fid} = {k}
  BY DEF FidsApart
<1>3. PICK s : s = [i \in 1..(n - 1) |-> IF i = k THEN es[n] ELSE es[i]]
  OBVIOUS
<1>4. dev_rm_from_dir(es, es[k].fid) = s
  BY <1>1, <1>2, <1>3, SMTT(30) DEF dev_rm_from_dir
<1>5. s \in Seq(Entry) /\ Len(s) = n - 1
  <2>1. n - 1 \in Nat /\ s \in [1..(n - 1) -> Entry]
    BY <1>1, <1>3
  <2>2. QED
    BY <2>1
<1>6. PICK from : from = [i \in 1..(n - 1) |-> IF i = k THEN n ELSE i]
  OBVIOUS
<1>7. ASSUME NEW i \in 1..(n - 1)
      PROVE  from[i] \in 1..n /\ from[i] # k /\ s[i] = es[from[i]]
  BY <1>1, <1>3, <1>6
<1>8. ASSUME NEW i \in 1..(n - 1), NEW j \in 1..(n - 1), from[i] = from[j] PROVE i = j
  BY <1>1, <1>6, <1>8
<1>9. ASSUME NEW j \in 1..n, j # k PROVE \E i \in 1..(n - 1) : s[i] = es[j]
  <2>1. CASE j = n
    BY <1>1, <1>3, <1>9, <2>1
  <2>2. CASE j # n
    BY <1>1, <1>3, <1>9, <2>2
  <2>3. QED
    BY <2>1, <2>2
<1>10. NamesApart(s)
  <2> SUFFICES ASSUME NEW i \in 1..(n - 1), NEW j \in 1..(n - 1), s[i].name = s[j].name PROVE i = j
    BY <1>5 DEF NamesApart
  <2>1. es[from[i]].name = es[from[j]].name /\ from[i] \in 1..n /\ from[j] \in 1..n
    BY <1>7
  <2>2. from[i] = from[j]
    BY <1>1, <2>1 DEF NamesApart
  <2>3. QED
    BY <1>8, <2>2
<1>11. ASSUME NEW m PROVE FidIn(s, m) = IF m = es[k].name THEN 0 ELSE FidIn(es, m)
  <2>1. CASE m = es[k].name
    <3>1. \A i \in 1..Len(s) : s[i].name # m
      BY <1>1, <1>5, <1>7, <2>1 DEF NamesApart
    <3>2. QED
      BY <1>5, <2>1, <3>1, FidInIs
  <2>2. CASE m # es[k].name /\ \E j \in 1..n : es[j].name = m
    <3>1. PICK j \in 1..n : es[j].name = m
      BY <2>2
    <3>2. PICK i \in 1..(n - 1) : s[i] = es[j]
      BY <1>9, <2>2, <3>1
    <3>3. FidIn(s, s[i].name) = s[i].fid
      BY <1>5, <1>10, FidOfEntry
    <3>4. FidIn(es, es[j].name) = es[j].fid
      BY <1>1, FidOfEntry
    <3>5. QED
      BY <2>2, <3>1, <3>2, <3>3, <3>4
  <2>3. CASE m # es[k].name /\ \A j \in 1..n : es[j].name # m
    <3>1. \A i \in 1..Len(s) : s[i].name # m
      BY <1>5, <1>7, <2>3
    <3>2. FidIn(s, m) = 0 /\ FidIn(es, m) = 0
      BY <1>1, <1>5, <2>3, <3>1, FidInIs
    <3>3. QED
      BY <2>3, <3>2
  <2>4. QED
    BY <2>1, <2>2, <2>3
<1>12. QED
  BY <1>4, <1>5, <1>10, <1>11

-----------------------------------------------------------------------------
(* What a cache is worth for the paths K that the kernel knows.             *)

Closed(K)   == K \subseteq Path /\ \A p \in K : p # Root => Parent(p) \in K
Sound(d, K) == \A p \in K : Leads(d)[p] # None

\* What it has for them is what the directories say.
Right(d, c, K) == c \in CacheTypes /\ \A p \in K : c[p] \in {None, Leads(d)[p]}

\* With such a cache fcfs_get_fid goes where the directories lead.
LEMMA Resolved ==
  ASSUME NEW d \in Dirs, NEW c, NEW K, Closed(K), Sound(d, K), Right(d, c, K)
  PROVE  \A p \in K : fcfs_get_fid(d, c, p) = Leads(d)[p]
<1> DEFINE S == {p \in Path : p \in K => fcfs_get_fid(d, c, p) = Leads(d)[p]}
<1>1. c \in CacheTypes
  BY DEF Right
<1>2. ASSUME Root \in K PROVE fcfs_get_fid(d, c, Root) = Leads(d)[Root]
  <2>1. c[Root] \in {None, 0} /\ c[Root] \in File \cup {None}
    BY <1>2, LeadsIs, RootPath DEF Right, CacheTypes
  <2>2. c[Root] = None
    BY <2>1 DEF File
  <2>3. QED
    BY <1>1, <2>2, IdsIs, LeadsIs
<1>3. Root \in S
  BY <1>2, RootPath
<1>4. ASSUME NEW p \in Path, p # Root, Parent(p) \in S, p \in K
      PROVE  fcfs_get_fid(d, c, p) = Leads(d)[p]
  <2>1. CASE c[p] # None
    BY <1>1, <1>4, <2>1, IdsIs DEF Right
  <2>2. CASE c[p] = None
    <3>1. Parent(p) \in K /\ fcfs_get_fid(d, c, Parent(p)) = Leads(d)[Parent(p)]
      BY <1>4 DEF Closed
    <3>2. fcfs_get_fid(d, c, p) = FidIn(d[Leads(d)[Parent(p)]], Base(p))
      BY <1>1, <1>4, <2>2, <3>1, IdsIs
    <3>3. Leads(d)[Parent(p)] # None /\ Leads(d)[p] # None
      BY <1>4, <3>1 DEF Sound
    <3>4. QED
      BY <1>4, <3>2, <3>3, LeadsIs
  <2>3. QED
    BY <2>1, <2>2
<1>5. \A p \in Path : p # Root /\ Parent(p) \in S => p \in S
  BY <1>4
<1>6. \A p \in Path : p \in S
  BY <1>3, <1>5, PathInduction
<1>7. QED
  BY <1>6 DEF Closed

\* Adding what the directories say keeps a cache right.
LEMMA AddsRight ==
  ASSUME NEW d \in Dirs, NEW c, NEW K, Right(d, c, K), K \subseteq Path,
         NEW p \in Path, Leads(d)[p] \in File, NEW x \in cache_stat_add(c, p, Leads(d)[p])
  PROVE  Right(d, x, K \cup {p})
<1>1. x \in CacheTypes /\ x[p] \in {Leads(d)[p], None} /\ \A q \in Path : q # p => x[q] \in {c[q], None}
  BY StatAdded DEF Right
<1>2. QED
  BY <1>1 DEF Right

\* Every cache that it may leave is right again.
LEMMA CachedRight ==
  ASSUME NEW d \in Dirs, NEW c, NEW K, Closed(K), Sound(d, K), Right(d, c, K)
  PROVE  \A p \in K : \A x \in Cached(d, c, p) : Right(d, x, K)
<1> DEFINE S == {p \in Path : p \in K => \A x \in Cached(d, c, p) : Right(d, x, K)}
<1>1. c \in CacheTypes
  BY DEF Right
<1>2. Root \in S
  BY <1>1, CachedIs, RootPath
<1>3. ASSUME NEW p \in Path, p # Root, Parent(p) \in S, p \in K, NEW x \in Cached(d, c, p)
      PROVE  Right(d, x, K)
  <2>1. CASE c[p] # None
    BY <1>1, <1>3, <2>1, CachedIs
  <2>2. CASE c[p] = None
    <3>1. PICK y \in Cached(d, c, Parent(p)) :
            IF fcfs_get_fid(d, c, p) = 0 THEN x = y
            ELSE x \in cache_stat_add(y, p, fcfs_get_fid(d, c, p))
      BY <1>1, <1>3, <2>2, CachedIs
    <3>2. Right(d, y, K)
      BY <1>3, <3>1 DEF Closed
    <3>3. fcfs_get_fid(d, c, p) = Leads(d)[p]
      BY <1>3, Resolved
    <3>4. CASE fcfs_get_fid(d, c, p) = 0
      BY <3>1, <3>2, <3>4
    <3>5. CASE fcfs_get_fid(d, c, p) # 0
      <4>1. Leads(d)[p] \in File
        BY <1>1, <3>3, <3>5, IdsIs DEF File
      <4>2. x \in cache_stat_add(y, p, Leads(d)[p])
        BY <3>1, <3>3, <3>5
      <4>3. Right(d, x, K \cup {p}) /\ K \cup {p} = K
        BY <1>3, <3>2, <4>1, <4>2, AddsRight DEF Closed
      <4>4. QED
        BY <4>3
    <3>6. QED
      BY <3>4, <3>5
  <2>3. QED
    BY <2>1, <2>2
<1>4. \A p \in Path : p # Root /\ Parent(p) \in S => p \in S
  BY <1>3
<1>5. \A p \in Path : p \in S
  BY <1>2, <1>4, PathInduction
<1>6. QED
  BY <1>5 DEF Closed

\* The kernel's look-up of a name in a directory it knows: the answer is what
\* the directory has, and the cache is right for that path too.
LEMMA Answered ==
  ASSUME NEW d \in Dirs, NEW c, NEW K, Closed(K), Sound(d, K), Right(d, c, K),
         NEW p \in Path, p # Root, Parent(p) \in K, NEW r \in ops_getattr(d, c, p)
  PROVE  /\ r.fid \in Fid
         /\ r.fid = 0 <=> Leads(d)[p] = None
         /\ r.fid # 0 => r.fid = Leads(d)[p] /\ Right(d, r.cache, K \cup {p})
         /\ Right(d, r.cache, K)
<1>1. PICK f : f = FidIn(d[fcfs_get_fid(d, c, Parent(p))], Base(p))
  OBVIOUS
<1>2. PICK x : /\ x \in UNION {IF f = 0 THEN {y} ELSE cache_stat_add(y, p, f) : y \in Cached(d, c, Parent(p))}
               /\ r = [fid |-> f, cache |-> x]
  BY <1>1 DEF ops_getattr
<1>3. PICK y \in Cached(d, c, Parent(p)) : x \in (IF f = 0 THEN {y} ELSE cache_stat_add(y, p, f))
  BY <1>2
<1>4. f = FidIn(d[Leads(d)[Parent(p)]], Base(p)) /\ Leads(d)[Parent(p)] # None
  BY <1>1, Resolved DEF Sound
<1>5. Leads(d)[p] = IF f = 0 THEN None ELSE f
  BY <1>4, LeadsIs
<1>6. f \in Fid
  <2>1. Leads(d)[Parent(p)] \in Fid
    BY <1>4, LeadsIs, ParentPath
  <2>2. QED
    BY <1>4, <2>1, FidInIs DEF Dirs
<1>7. Right(d, y, K) /\ K \subseteq Path
  BY <1>3, CachedRight DEF Closed
<1>8. None \notin Fid
  BY TreeAssumption DEF None, Fid
<1>9. CASE f = 0
  BY <1>2, <1>3, <1>5, <1>6, <1>7, <1>9
<1>10. CASE f # 0
  <2>1. Leads(d)[p] = f /\ f \in File
    BY <1>5, <1>6, <1>10 DEF File
  <2>2. Right(d, x, K \cup {p})
    BY <1>3, <1>7, <1>10, <2>1, AddsRight
  <2>3. Right(d, x, K)
    BY <2>2 DEF Right
  <2>4. QED
    BY <1>2, <1>6, <1>8, <1>10, <2>1, <2>2, <2>3
<1>11. QED
  BY <1>9, <1>10

-----------------------------------------------------------------------------
(* A tree: every identifier has one path.                                   *)

Single(d) == \A p, q \in Path : Leads(d)[p] # None /\ Leads(d)[p] = Leads(d)[q] => p = q

\* In a directory with a path names differ, and one at the bound is empty.
Tidy(d) == \A p \in Path : Leads(d)[p] # None =>
             /\ NamesApart(d[Leads(d)[p]])
             /\ Len(p) = Depth => d[Leads(d)[p]] = <<>>

Tree(d) == d \in Dirs /\ Single(d) /\ Tidy(d)

\* An entry of a directory with a path has a path itself.
LEMMA EntryPath ==
  ASSUME NEW d, Tree(d), NEW p \in Path, NEW es \in Seq(Entry), Leads(d)[p] # None,
         es = d[Leads(d)[p]], NEW i \in 1..Len(es)
  PROVE  /\ Append(p, es[i].name) \in Path /\ Append(p, es[i].name) # Root
         /\ Parent(Append(p, es[i].name)) = p
         /\ Base(Append(p, es[i].name)) = es[i].name
         /\ Leads(d)[Append(p, es[i].name)] = es[i].fid
<1>1. es[i] \in Entry
  OBVIOUS
<1>2. es[i].name \in Names /\ es[i].fid # 0
  BY <1>1 DEF Entry, File
<1>3. Len(p) # Depth
  BY DEF Tree, Tidy
<1>4. PICK q : q = Append(p, es[i].name)
  OBVIOUS
<1>5. q \in Path /\ q # Root /\ Parent(q) = p /\ Base(q) = es[i].name
  BY <1>2, <1>3, <1>4, ChildPath
<1>6. FidIn(es, es[i].name) = es[i].fid
  BY FidOfEntry DEF Tree, Tidy
<1>7. Leads(d)[q] = es[i].fid
  BY <1>2, <1>5, <1>6, LeadsIs DEF Tree
<1>8. QED
  BY <1>4, <1>5, <1>7

\* So its entries have different identifiers.
LEMMA FidsDiffer ==
  ASSUME NEW d, Tree(d), NEW p \in Path, NEW es \in Seq(Entry), Leads(d)[p] # None,
         es = d[Leads(d)[p]]
  PROVE  FidsApart(es) /\ NamesApart(es)
<1>1. NamesApart(es)
  BY DEF Tree, Tidy
<1>2. ASSUME NEW i \in 1..Len(es), NEW j \in 1..Len(es), es[i].fid = es[j].fid PROVE i = j
  <2>1. PICK q : q = Append(p, es[i].name)
    OBVIOUS
  <2>1a. q \in Path /\ Leads(d)[q] = es[i].fid /\ Base(q) = es[i].name
    BY <2>1, EntryPath
  <2>2. PICK r : r = Append(p, es[j].name)
    OBVIOUS
  <2>2a. r \in Path /\ Leads(d)[r] = es[j].fid /\ Base(r) = es[j].name
    BY <2>2, EntryPath
  <2>3. es[i].fid # None
    <3>1. es[i] \in Entry
      OBVIOUS
    <3>2. QED
      BY <3>1, TreeAssumption DEF Entry, File, Fid, None
  <2>4. q = r
    BY <1>2, <2>1a, <2>2a, <2>3 DEF Tree, Single
  <2>5. QED
    BY <1>1, <2>1a, <2>2a, <2>4 DEF NamesApart
<1>3. QED
  BY <1>1, <1>2 DEF FidsApart

\* An identifier no path leads to is made the entry of path p.
LEMMA MakeLeads ==
  ASSUME NEW d, Tree(d), NEW p \in Path, p # Root, Leads(d)[p] = None,
         NEW pf, pf = Leads(d)[Parent(p)], pf # None,
         NEW f \in File, \A q \in Path : Leads(d)[q] # f,
         NEW d2, d2 = dev_create_file(d, pf, f, Base(p))
  PROVE  /\ Tree(d2)
         /\ \A q \in Path : Leads(d2)[q] = IF q = p THEN f ELSE Leads(d)[q]
<1>0. d \in Dirs
  BY DEF Tree
<1>1. /\ Parent(p) \in Path /\ Len(Parent(p)) = Len(p) - 1 /\ Len(p) \in Nat /\ Len(p) <= Depth
      /\ Base(p) \in Names /\ Parent(p) # p
  BY ParentPath, PathIs
<1>2. pf \in Fid /\ f \in Fid /\ f # pf /\ f # None /\ f # 0
  BY <1>0, <1>1, LeadsIs, TreeAssumption DEF File, Fid, None
<1>3. PICK e \in Entry : e = [name |-> Base(p), fid |-> f]
  BY <1>1 DEF Entry
<1>4. PICK es \in Seq(Entry) : es = d[pf]
  BY <1>0, <1>2 DEF Dirs
<1>5. NamesApart(es) /\ FidIn(es, e.name) = 0
  <2>1. NamesApart(es)
    BY <1>1, <1>4 DEF Tree, Tidy
  <2>2. FidIn(es, e.name) \in Fid
    BY <1>4, FidInIs
  <2>3. e.name = Base(p)
    BY <1>3
  <2>4. FidIn(es, Base(p)) = 0
    BY <1>0, <1>4, <2>2, <2>3, LeadsIs, TreeAssumption DEF Fid, None
  <2>5. QED
    BY <2>1, <2>3, <2>4
<1>6. /\ Append(es, e) \in Seq(Entry) /\ NamesApart(Append(es, e))
      /\ \A m : FidIn(Append(es, e), m) = IF m = Base(p) THEN f ELSE FidIn(es, m)
  BY <1>3, <1>5, FidAppended
<1>7. d2 = [d EXCEPT ![pf] = Append(es, e), ![f] = <<>>]
  BY <1>2, <1>3, <1>4 DEF dev_create_file, Dirs
<1>8. /\ d2[pf] = Append(es, e) /\ d2[f] = <<>>
      /\ \A g \in Fid : g # pf /\ g # f => d2[g] = d[g]
  BY <1>0, <1>2, <1>7 DEF Dirs
<1>9. d2 \in Dirs
  <2>1. <<>> \in Seq(Entry)
    OBVIOUS
  <2>2. QED
    BY <1>0, <1>2, <1>6, <1>7, <2>1 DEF Dirs
<1> DEFINE Want(q) == IF q = p THEN f ELSE Leads(d)[q]
           S == {q \in Path : Leads(d2)[q] = Want(q)}
<1>10. Root \in S
  BY <1>0, <1>9, RootPath, LeadsIs
<1>11. ASSUME NEW q \in Path, q # Root, Parent(q) \in S PROVE q \in S
  <2>1. Leads(d2)[Parent(q)] = Want(Parent(q)) /\ Parent(q) \in Path
    BY <1>11
  <2>2. Leads(d)[Parent(q)] \in Fid \cup {None}
    BY <1>0, <2>1, LeadsIs
  <2>3. CASE q = p
    <3>1. Leads(d2)[Parent(q)] = pf
      BY <1>1, <2>1, <2>3
    <3>2. FidIn(d2[pf], Base(q)) = f
      BY <1>6, <1>8, <2>3
    <3>3. Leads(d2)[q] = f
      BY <1>2, <1>9, <1>11, <3>1, <3>2, LeadsIs
    <3>4. QED
      BY <2>3, <3>3
  <2>4. CASE q # p /\ Parent(q) = p
    <3>1. Leads(d2)[Parent(q)] = f
      BY <2>1, <2>4
    <3>2. FidIn(d2[f], Base(q)) = 0
      <4>1. Len(<<>>) = 0
        OBVIOUS
      <4>2. FidIn(<<>>, Base(q)) = 0
        BY <4>1 DEF FidIn
      <4>3. QED
        BY <1>8, <4>2
    <3>3. Leads(d2)[q] = None
      BY <1>2, <1>9, <1>11, <3>1, <3>2, LeadsIs
    <3>4. Leads(d)[q] = None
      BY <1>0, <1>11, <2>4, LeadsIs
    <3>5. QED
      BY <2>4, <3>3, <3>4
  <2>5. CASE q # p /\ Parent(q) # p /\ Leads(d)[Parent(q)] = None
    BY <1>0, <1>9, <1>11, <2>1, <2>5, LeadsIs
  <2>6. CASE q # p /\ Parent(q) # p /\ Leads(d)[Parent(q)] # None
    <3>1. PICK g \in Fid : g = Leads(d)[Parent(q)]
      BY <2>2, <2>6
    <3>2. g # f /\ Leads(d2)[Parent(q)] = g /\ g # None
      BY <2>1, <2>6, <3>1
    <3>3. FidIn(d2[g], Base(q)) = FidIn(d[g], Base(q))
      <4>1. CASE g # pf
        BY <1>8, <3>2, <4>1
      <4>2. CASE g = pf
        <5>1. Parent(q) = Parent(p)
          BY <1>1, <2>1, <2>6, <3>1, <4>2 DEF Tree, Single
        <5>2. Base(q) # Base(p)
          BY <1>11, <2>6, <5>1, SamePath
        <5>3. QED
          BY <1>4, <1>6, <1>8, <4>2, <5>2
      <4>3. QED
        BY <4>1, <4>2
    <3>4. Leads(d2)[q] = Leads(d)[q]
      BY <1>0, <1>9, <1>11, <3>1, <3>2, <3>3, LeadsIs
    <3>5. QED
      BY <2>6, <3>4
  <2>7. QED
    BY <2>3, <2>4, <2>5, <2>6
<1>12. \A q \in Path : Leads(d2)[q] = Want(q)
  <2>1. \A q \in Path : q \in S
    BY <1>10, <1>11, PathInduction
  <2>2. QED
    BY <2>1
<1>13. Single(d2)
  BY <1>12 DEF Tree, Single
<1>14. ASSUME NEW q \in Path, Leads(d2)[q] # None
       PROVE  NamesApart(d2[Leads(d2)[q]]) /\ (Len(q) = Depth => d2[Leads(d2)[q]] = <<>>)
  <2>1. CASE q = p
    <3>1. d2[Leads(d2)[q]] = <<>>
      BY <1>8, <1>12, <2>1
    <3>2. NamesApart(<<>>)
      BY DEF NamesApart
    <3>3. QED
      BY <3>1, <3>2
  <2>2. CASE q = Parent(p)
    <3>1. d2[Leads(d2)[q]] = Append(es, e) /\ Len(q) # Depth
      BY <1>1, <1>8, <1>12, <2>2
    <3>2. QED
      BY <1>6, <3>1
  <2>3. CASE q # p /\ q # Parent(p)
    <3>1. PICK g : g = Leads(d)[q]
      OBVIOUS
    <3>2. Leads(d2)[q] = g /\ g # None /\ g # f /\ g \in Fid
      BY <1>0, <1>12, <1>14, <2>3, <3>1, LeadsIs
    <3>3. g # pf
      BY <1>1, <2>3, <3>1, <3>2 DEF Tree, Single
    <3>4. d2[g] = d[g]
      BY <1>8, <3>2, <3>3
    <3>5. QED
      BY <3>1, <3>2, <3>4 DEF Tree, Tidy
  <2>4. QED
    BY <2>1, <2>2, <2>3
<1>15. QED
  BY <1>9, <1>12, <1>13, <1>14 DEF Tree, Tidy

\* Nothing under p has an identifier any more, and all else has what it had.
Removed(d, d2, p) ==
  \A q \in Path : Leads(d2)[q] = IF q \in Under(p) THEN None ELSE Leads(d)[q]

\* The entry of path p is removed: what was under it has no path any more.
LEMMA RemoveLeads ==
  ASSUME NEW d, Tree(d), NEW p \in Path, p # Root,
         NEW f, f = Leads(d)[p], f # None,
         NEW pf, pf = Leads(d)[Parent(p)],
         NEW s, s = dev_rm_from_dir(d[pf], f),
         NEW d2, d2 = [d EXCEPT ![pf] = s]
  PROVE  /\ Tree(d2)
         /\ Removed(d, d2, p)
<1>0. d \in Dirs
  BY DEF Tree
<1>1. /\ Parent(p) \in Path /\ Len(Parent(p)) = Len(p) - 1 /\ Len(p) \in Nat /\ Len(p) <= Depth
      /\ Base(p) \in Names /\ Parent(p) # p
  BY ParentPath, PathIs
<1>2. pf \in Fid /\ pf # None
  BY <1>0, <1>1, LeadsIs
<1>3. PICK es \in Seq(Entry) : es = d[pf]
  BY <1>0, <1>2 DEF Dirs
<1>4. NamesApart(es) /\ FidsApart(es)
  BY <1>1, <1>2, <1>3, FidsDiffer
<1>5. PICK k \in 1..Len(es) : es[k].name = Base(p) /\ es[k].fid = f
  <2>1. FidIn(es, Base(p)) = f /\ f # 0
    BY <1>0, <1>2, <1>3, LeadsIs
  <2>2. \E k \in 1..Len(es) : es[k].name = Base(p)
    BY <2>1, FidInIs
  <2>3. QED
    BY <2>1, <2>2, FidInIs
<1>6. s = dev_rm_from_dir(es, f)
  BY <1>3
<1>7. /\ s \in Seq(Entry) /\ NamesApart(s)
      /\ \A m : FidIn(s, m) = IF m = Base(p) THEN 0 ELSE FidIn(es, m)
  <2>1. /\ dev_rm_from_dir(es, es[k].fid) \in Seq(Entry)
        /\ NamesApart(dev_rm_from_dir(es, es[k].fid))
        /\ \A m : FidIn(dev_rm_from_dir(es, es[k].fid), m) = IF m = es[k].name THEN 0 ELSE FidIn(es, m)
    BY <1>4, FidRemoved
  <2>2. s = dev_rm_from_dir(es, es[k].fid)
    BY <1>5, <1>6
  <2>3. QED
    BY <1>5, <2>1, <2>2
<1>8. /\ d2[pf] = s /\ \A g \in Fid : g # pf => d2[g] = d[g]
      /\ d2 \in Dirs
  BY <1>0, <1>2, <1>3, <1>6, <1>7 DEF Dirs
<1> DEFINE Want(q) == IF q \in Under(p) THEN None ELSE Leads(d)[q]
           S == {q \in Path : Leads(d2)[q] = Want(q)}
<1>9. Root \in S
  BY <1>0, <1>8, RootPath, RootNotUnder, LeadsIs
<1>10. ASSUME NEW q \in Path, q # Root, Parent(q) \in S PROVE q \in S
  <2>1. Leads(d2)[Parent(q)] = Want(Parent(q)) /\ Parent(q) \in Path
    BY <1>10
  <2>2. Leads(d)[Parent(q)] \in Fid \cup {None}
    BY <1>0, <2>1, LeadsIs
  <2>3. q \in Under(p) <=> q = p \/ Parent(q) \in Under(p)
    BY <1>10, UnderIs
  <2>4. CASE Parent(q) \in Under(p)
    <3>1. Leads(d2)[Parent(q)] = None
      BY <2>1, <2>4
    <3>2. Leads(d2)[q] = None
      BY <1>8, <1>10, <3>1, LeadsIs
    <3>3. QED
      BY <2>3, <2>4, <3>2
  <2>5. CASE Parent(q) \notin Under(p) /\ q = p
    <3>1. Leads(d2)[Parent(q)] = pf
      BY <2>1, <2>5
    <3>2. FidIn(d2[pf], Base(q)) = 0
      BY <1>7, <1>8, <2>5
    <3>3. Leads(d2)[q] = None
      BY <1>2, <1>8, <1>10, <3>1, <3>2, LeadsIs
    <3>4. QED
      BY <2>3, <2>5, <3>3
  <2>6. CASE Parent(q) \notin Under(p) /\ q # p /\ Leads(d)[Parent(q)] = None
    BY <1>0, <1>8, <1>10, <2>1, <2>3, <2>6, LeadsIs
  <2>7. CASE Parent(q) \notin Under(p) /\ q # p /\ Leads(d)[Parent(q)] # None
    <3>1. PICK g \in Fid : g = Leads(d)[Parent(q)]
      BY <2>2, <2>7
    <3>2. Leads(d2)[Parent(q)] = g /\ g # None
      BY <2>1, <2>7, <3>1
    <3>3. FidIn(d2[g], Base(q)) = FidIn(d[g], Base(q))
      <4>1. CASE g # pf
        BY <1>8, <4>1
      <4>2. CASE g = pf
        <5>1. Parent(q) = Parent(p)
          BY <1>1, <2>1, <2>7, <3>1, <4>2 DEF Tree, Single
        <5>2. Base(q) # Base(p)
          BY <1>10, <2>7, <5>1, SamePath
        <5>3. QED
          BY <1>3, <1>7, <1>8, <4>2, <5>2
      <4>3. QED
        BY <4>1, <4>2
    <3>4. Leads(d2)[q] = Leads(d)[q]
      <4>1. PICK h : h = FidIn(d[g], Base(q))
        OBVIOUS
      <4>2. Leads(d)[q] = IF h = 0 THEN None ELSE h
        BY <1>0, <1>10, <3>1, <3>2, <4>1, LeadsIs
      <4>3. Leads(d2)[q] = IF h = 0 THEN None ELSE h
        <5>1. d2 \in Dirs /\ q \in Path /\ q # Root
          BY <1>8, <1>10
        <5>2. FidIn(d2[Leads(d2)[Parent(q)]], Base(q)) = h
          BY <3>2, <3>3, <4>1
        <5>3. QED
          BY <3>2, <5>1, <5>2, LeadsIs
      <4>4. QED
        BY <4>2, <4>3
    <3>5. QED
      BY <2>3, <2>7, <3>4
  <2>8. QED
    BY <2>4, <2>5, <2>6, <2>7
<1>11. \A q \in Path : Leads(d2)[q] = Want(q)
  <2>1. \A q \in Path : q \in S
    BY <1>9, <1>10, PathInduction
  <2>2. QED
    BY <2>1
<1>12. Single(d2)
  BY <1>11 DEF Tree, Single
<1>13. ASSUME NEW q \in Path, Leads(d2)[q] # None
       PROVE  NamesApart(d2[Leads(d2)[q]]) /\ (Len(q) = Depth => d2[Leads(d2)[q]] = <<>>)
  <2>1. PICK g : g = Leads(d)[q]
    OBVIOUS
  <2>2. Leads(d2)[q] = g /\ g # None /\ g \in Fid
    BY <1>0, <1>11, <1>13, <2>1, LeadsIs, ZenonT(30)
  <2>3. CASE q = Parent(p)
    <3>1. d2[g] = s /\ Len(q) # Depth
      BY <1>1, <1>8, <2>1, <2>3
    <3>2. QED
      BY <1>7, <2>2, <3>1
  <2>4. CASE q # Parent(p)
    <3>1. g # pf
      BY <1>1, <2>1, <2>2, <2>4 DEF Tree, Single
    <3>2. d2[g] = d[g]
      BY <1>8, <2>2, <3>1
    <3>3. QED
      BY <2>1, <2>2, <3>2 DEF Tree, Tidy
  <2>5. QED
    BY <2>3, <2>4
<1>14. QED
  BY <1>8, <1>11, <1>12, <1>13 DEF Tree, Tidy, Removed

-----------------------------------------------------------------------------
(* The inductive invariant.                                                 *)

\* An identifier is taken once, by a path or by being lost.
Links == /\ lnk \in [Fid -> {0, 1}] /\ lost \subseteq File
         /\ \A f \in Fid : lnk[f] = 1 <=> f \in lost \/ \E p \in Path : Leads(dir)[p] = f
         /\ \A p \in Path : Leads(dir)[p] \notin lost

\* Only a directory has anything in it.
Leaves == \A p \in Path : p # Root /\ Leads(dir)[p] # None => kind[Leads(dir)[Parent(p)]] = "dir"

Known == {p \in Path : known[p] # "none"}

\* The kernel knows a tree, and knows of a path what it is.
Kernel == /\ kind \in [Fid -> {"dir", "file"}] /\ known \in [Path -> {"dir", "file", "none"}]
          /\ known[Root] = "dir"
          /\ \A p \in Known : p # Root => known[Parent(p)] = "dir"
          /\ \A p \in Known : Leads(dir)[p] # None /\ known[p] = kind[Leads(dir)[p]]

TInv == Tree(dir) /\ Links /\ Leaves /\ Kernel /\ Right(dir, cache, Known)

\* The root's identifier, the files' and None are apart.
LEMMA NoneApart == None \notin Fid /\ 0 \in Fid /\ 0 \notin File /\ File \subseteq Fid
  BY TreeAssumption DEF None, Fid, File

\* The kernel's tree is closed, and the directories have what is in it.
LEMMA KnownClosed ==
  ASSUME TInv
  PROVE  Closed(Known) /\ Sound(dir, Known) /\ Root \in Known /\ dir \in Dirs
<1>1. Root \in Known
  BY RootPath DEF TInv, Kernel, Known
<1>2. \A p \in Known : p # Root => Parent(p) \in Known
  BY ParentPath DEF TInv, Kernel, Known
<1>3. QED
  BY <1>1, <1>2 DEF TInv, Kernel, Closed, Sound, Known, Tree

\* Only the root has identifier 0.
LEMMA RootAlone ==
  ASSUME NEW d, Tree(d), NEW p \in Path, Leads(d)[p] = 0
  PROVE  p = Root
<1>1. Leads(d)[Root] = 0 /\ 0 # None
  BY LeadsIs, NoneApart DEF Tree
<1>2. QED
  BY <1>1, RootPath DEF Tree, Single

\* dev_free_fid finds a free identifier if there is one.
LEMMA FreeFid ==
  ASSUME FreeFids # {}
  PROVE  dev_free_fid \in File /\ lnk[dev_free_fid] = 0
<1>1. NF \in Nat /\ FreeFids \in SUBSET (1..NF)
  BY TreeAssumption DEF FreeFids, File, Fid
<1>2. \E f \in FreeFids : \A g \in FreeFids : f <= g
  BY <1>1, FirstOf
<1>3. dev_free_fid \in FreeFids
  BY <1>2 DEF dev_free_fid
<1>4. QED
  BY <1>3 DEF FreeFids

\* A volume just formatted and mounted satisfies it.
LEMMA InitTInv == Init => TInv
<1> SUFFICES ASSUME Init PROVE TInv
  OBVIOUS
<1>1. dir \in Dirs /\ \A f \in Fid : dir[f] = <<>>
  <2>1. <<>> \in Seq(Entry)
    OBVIOUS
  <2>2. QED
    BY <2>1 DEF Init, Dirs
<1>2. \A p \in Path : p # Root => Leads(dir)[p] = None
  <2> SUFFICES ASSUME NEW p \in Path, p # Root, Leads(dir)[p] # None PROVE FALSE
    OBVIOUS
  <2>1. Leads(dir)[Parent(p)] \in Fid
    BY <1>1, LeadsIs, ParentPath
  <2>2. PICK f \in Fid : f = Leads(dir)[Parent(p)]
    BY <2>1
  <2>3. FidIn(<<>>, Base(p)) = 0
    <3>1. Len(<<>>) = 0
      OBVIOUS
    <3>2. QED
      BY <3>1 DEF FidIn
  <2>4. FidIn(dir[f], Base(p)) = 0
    BY <1>1, <2>3
  <2>5. QED
    BY <1>1, <2>2, <2>4, LeadsIs, NoneApart
<1>3. Leads(dir)[Root] = 0
  BY <1>1, LeadsIs
<1>4. Single(dir)
  BY <1>2, <1>3 DEF Single
<1>5. Tidy(dir)
  <2>1. NamesApart(<<>>)
    BY DEF NamesApart
  <2>2. QED
    BY <1>1, <1>2, <1>3, <2>1, NoneApart DEF Tidy
<1>6. Links
  <2>1. lnk \in [Fid -> {0, 1}] /\ lost = {}
    BY DEF Init
  <2>2. ASSUME NEW f \in Fid PROVE lnk[f] = 1 <=> \E p \in Path : Leads(dir)[p] = f
    <3>1. lnk[f] = 1 <=> f = 0
      BY DEF Init
    <3>2. (\E p \in Path : Leads(dir)[p] = f) <=> f = 0
      BY <1>2, <1>3, RootPath, NoneApart
    <3>3. QED
      BY <3>1, <3>2
  <2>3. QED
    BY <2>1, <2>2 DEF Links
<1>7. Known = {Root}
  BY RootPath DEF Init, Known
<1>8. Kernel
  <2>1. kind \in [Fid -> {"dir", "file"}] /\ known \in [Path -> {"dir", "file", "none"}]
    BY DEF Init
  <2>2. known[Root] = "dir" /\ kind[0] = "dir"
    BY RootPath, NoneApart DEF Init
  <2>3. QED
    BY <1>3, <1>7, <2>1, <2>2, NoneApart DEF Kernel
<1>9. Right(dir, cache, Known)
  BY DEF Init, Right, CacheTypes, Known
<1>10. Leaves
  BY <1>2 DEF Leaves
<1>11. QED
  BY <1>1, <1>4, <1>5, <1>6, <1>8, <1>9, <1>10 DEF TInv, Tree

\* A look-up changes what the kernel knows to what is there.
LEMMA LookupTInv ==
  ASSUME TInv, NEW p \in Path, Lookup(p)
  PROVE  TInv'
<1>1. p # Root /\ known[Parent(p)] = "dir" /\ UNCHANGED <<lnk, kind, dir, lost>>
  BY DEF Lookup
<1>2. PICK r \in ops_getattr(dir, cache, p) :
        /\ cache' = r.cache
        /\ known' = [q \in Path |->
             IF q = p THEN (IF r.fid = 0 THEN "none" ELSE kind[r.fid])
             ELSE IF r.fid = 0 /\ q \in Below(p) THEN "none" ELSE known[q]]
  BY DEF Lookup
<1>3. PICK d : d = dir
  OBVIOUS
<1>4. Tree(dir)' /\ Links' /\ Leaves'
  BY <1>1 DEF TInv, Links, Leaves
<1>5. Parent(p) \in Known /\ Parent(p) \in Path
  BY <1>1, ParentPath DEF Known
<1>6. /\ r.fid \in Fid /\ (r.fid = 0 <=> Leads(dir)[p] = None)
      /\ r.fid # 0 => r.fid = Leads(dir)[p] /\ Right(dir, r.cache, Known \cup {p})
      /\ Right(dir, r.cache, Known)
  BY <1>1, <1>2, <1>5, KnownClosed, Answered DEF TInv
<1>7. CASE r.fid = 0
  <2>1. \A q \in Path : known'[q] = IF q \in Under(p) THEN "none" ELSE known[q]
    BY <1>2, <1>7 DEF Under
  <2>2. \A q \in Path : q # Root /\ q \notin Under(p) => Parent(q) \notin Under(p) /\ Parent(q) \in Path
    BY UnderIs, ParentPath
  <2>3. \A q \in Known' : q \in Known /\ q \notin Under(p) /\ known'[q] = known[q]
    BY <2>1 DEF Known
  <2>4. known' \in [Path -> {"dir", "file", "none"}]
    BY <1>2, <1>7 DEF TInv, Kernel
  <2>5. known'[Root] = "dir"
    BY <1>1, <2>1, RootPath, RootNotUnder DEF TInv, Kernel
  <2>6. ASSUME NEW q \in Known', q # Root PROVE known'[Parent(q)] = "dir"
    <3>1. q \in Known /\ q \in Path /\ q \notin Under(p)
      BY <2>3 DEF Known
    <3>2. known'[Parent(q)] = known[Parent(q)]
      BY <2>1, <2>2, <2>6, <3>1
    <3>3. QED
      BY <2>6, <3>1, <3>2 DEF TInv, Kernel
  <2>7. \A q \in Known' : Leads(dir)[q] # None /\ known'[q] = kind[Leads(dir)[q]]
    BY <2>3 DEF TInv, Kernel
  <2>8. Kernel'
    BY <1>1, <2>4, <2>5, <2>6, <2>7 DEF TInv, Kernel
  <2>9. Right(dir, cache, Known)'
    BY <1>1, <1>2, <1>6, <2>3 DEF Right
  <2>10. QED
    BY <1>4, <2>8, <2>9 DEF TInv
<1>8. CASE r.fid # 0
  <2>1. known'[p] = kind[Leads(dir)[p]] /\ Leads(dir)[p] # None /\ Leads(dir)[p] \in Fid
    BY <1>2, <1>6, <1>8
  <2>2. \A q \in Path : q # p => known'[q] = known[q]
    BY <1>2, <1>8
  <2>3. \A q \in Known' : q = p \/ q \in Known
    BY <2>2 DEF Known
  <2>4. known' \in [Path -> {"dir", "file", "none"}]
    <3>1. kind[r.fid] \in {"dir", "file"}
      BY <1>6 DEF TInv, Kernel
    <3>2. QED
      BY <1>2, <1>8, <3>1 DEF TInv, Kernel
  <2>5. known'[Root] = "dir"
    BY <1>1, <2>2, RootPath DEF TInv, Kernel
  <2>6. ASSUME NEW q \in Known', q # Root PROVE known'[Parent(q)] = "dir"
    <3>1. CASE q = p
      <4>1. Parent(p) # p
        BY <1>1, ParentPath
      <4>2. QED
        BY <1>1, <1>5, <2>2, <3>1, <4>1
    <3>2. CASE q # p
      <4>1. q \in Known /\ known[Parent(q)] = "dir" /\ Parent(q) \in Path
        BY <2>3, <2>6, <3>2, ParentPath DEF TInv, Kernel, Known
      <4>2. CASE Parent(q) = p
        <5>1. p \in Known /\ known[p] = kind[Leads(dir)[p]]
          BY <4>1, <4>2 DEF TInv, Kernel, Known
        <5>2. QED
          BY <2>1, <4>1, <4>2, <5>1
      <4>3. CASE Parent(q) # p
        BY <2>2, <4>1, <4>3
      <4>4. QED
        BY <4>2, <4>3
    <3>3. QED
      BY <3>1, <3>2
  <2>7. ASSUME NEW q \in Known' PROVE Leads(dir)[q] # None /\ known'[q] = kind[Leads(dir)[q]]
    <3>1. CASE q = p
      BY <2>1, <3>1
    <3>2. CASE q # p
      BY <2>2, <2>3, <3>2 DEF TInv, Kernel, Known
    <3>3. QED
      BY <3>1, <3>2
  <2>8. Kernel'
    BY <1>1, <2>4, <2>5, <2>6, <2>7 DEF TInv, Kernel
  <2>9. Right(dir, cache, Known)'
    BY <1>1, <1>2, <1>6, <1>8, <2>3 DEF Right
  <2>10. QED
    BY <1>4, <2>8, <2>9 DEF TInv
<1>9. QED
  BY <1>7, <1>8

\* Opening and reading change the cache only.
LEMMA UseTInv ==
  ASSUME TInv, NEW p \in Path, Use(p)
  PROVE  TInv'
<1>1. p \in Known /\ cache' \in Cached(dir, cache, p) /\ UNCHANGED <<lnk, kind, dir, known, lost>>
  BY DEF Use, Known
<1>2. Right(dir, cache', Known)
  BY <1>1, KnownClosed, CachedRight DEF TInv
<1>3. Known' = Known
  BY <1>1 DEF Known
<1>4. QED
  BY <1>1, <1>2, <1>3 DEF TInv, Links, Leaves, Kernel

\* After a mount the cache is empty and the kernel knows the root.
LEMMA RemountTInv ==
  ASSUME TInv, Remount
  PROVE  TInv'
<1>1. UNCHANGED <<lnk, kind, dir, lost>>
  BY DEF Remount
<1>2. Known' = {Root}
  BY RootPath DEF Remount, Known
<1>3. known' \in [Path -> {"dir", "file", "none"}] /\ known'[Root] = "dir"
  BY RootPath DEF Remount
<1>4. Leads(dir)[Root] # None /\ kind[Leads(dir)[Root]] = "dir"
  BY KnownClosed DEF TInv, Kernel, Known
<1>5. Kernel'
  BY <1>1, <1>2, <1>3, <1>4 DEF TInv, Kernel
<1>6. Right(dir, cache, Known)'
  BY <1>2, RootPath DEF Remount, Right, CacheTypes
<1>7. QED
  BY <1>1, <1>5, <1>6 DEF TInv, Links, Leaves

\* What mkdir and create do: a path becomes f, which nothing led to.
LEMMA MakeDoes ==
  ASSUME TInv, NEW p \in Path, NEW k \in {"dir", "file"}, Make(p, k)
  PROVE  \E f \in File :
           /\ p # Root /\ known[Parent(p)] = "dir" /\ Parent(p) \in Known
           /\ lnk[f] = 0 /\ lnk' = [lnk EXCEPT ![f] = 1]
           /\ kind' = [kind EXCEPT ![f] = k]
           /\ Leads(dir)[p] = None /\ \A q \in Path : Leads(dir)[q] # f
           /\ Tree(dir') /\ \A q \in Path : Leads(dir')[q] = IF q = p THEN f ELSE Leads(dir)[q]
           /\ known' = [known EXCEPT ![p] = k]
           /\ Right(dir', cache', Known \cup {p}) /\ UNCHANGED lost
<1>1. p # Root /\ known[Parent(p)] = "dir" /\ FreeFids # {} /\ UNCHANGED lost
  BY DEF Make
<1> DEFINE Done(r, c) ==
             LET f  == dev_free_fid
                 pf == fcfs_get_fid(dir, r.cache, Parent(p))
                 d  == dev_create_file(dir, pf, f, Base(p))
             IN /\ lnk' = [lnk EXCEPT ![f] = 1]
                /\ kind' = [kind EXCEPT ![f] = k]
                /\ dir' = d
                /\ \E s \in ops_getattr(d, c, p) :
                     /\ cache' = s.cache
                     /\ known' = [known EXCEPT ![p] = IF s.fid = 0 THEN "none" ELSE kind'[s.fid]]
<1>2. PICK r \in ops_getattr(dir, cache, p) :
        r.fid = 0 /\ \E c \in Cached(dir, r.cache, Parent(p)) : Done(r, c)
  BY DEF Make
<1>2a. PICK c \in Cached(dir, r.cache, Parent(p)) : Done(r, c)
  BY <1>2
<1>3. PICK f \in File : f = dev_free_fid /\ lnk[f] = 0
  BY <1>1, FreeFid
<1>4. Parent(p) \in Known /\ Parent(p) \in Path
  BY <1>1, ParentPath DEF Known
<1>5. Leads(dir)[p] = None /\ Right(dir, r.cache, Known)
  <2>1. r \in ops_getattr(dir, cache, p) /\ r.fid = 0
    BY <1>2
  <2>2. Right(dir, cache, Known)
    BY DEF TInv
  <2>3. (r.fid = 0 <=> Leads(dir)[p] = None) /\ Right(dir, r.cache, Known)
    BY <1>1, <1>4, <2>1, <2>2, KnownClosed, Answered
  <2>4. QED
    BY <2>1, <2>3
<1>6. Right(dir, c, Known)
  BY <1>2a, <1>4, <1>5, KnownClosed, CachedRight
<1>7. PICK pf : pf = fcfs_get_fid(dir, r.cache, Parent(p))
  OBVIOUS
<1>8. pf = Leads(dir)[Parent(p)] /\ pf # None
  BY <1>4, <1>5, <1>7, KnownClosed, Resolved DEF Sound
<1>9. PICK d : d = dev_create_file(dir, pf, f, Base(p))
  OBVIOUS
<1>10. lnk' = [lnk EXCEPT ![f] = 1] /\ kind' = [kind EXCEPT ![f] = k] /\ dir' = d
  BY <1>2a, <1>3, <1>7, <1>9
<1>11. PICK s \in ops_getattr(d, c, p) :
         /\ cache' = s.cache
         /\ known' = [known EXCEPT ![p] = IF s.fid = 0 THEN "none" ELSE kind'[s.fid]]
  BY <1>2a, <1>3, <1>7, <1>9
<1>12. \A q \in Path : Leads(dir)[q] # f
  BY <1>3, NoneApart DEF TInv, Links
<1>13. Tree(d) /\ \A q \in Path : Leads(d)[q] = IF q = p THEN f ELSE Leads(dir)[q]
  BY <1>1, <1>5, <1>8, <1>9, <1>12, MakeLeads DEF TInv
<1>14. Sound(d, Known) /\ Right(d, c, Known) /\ d \in Dirs
  <2>1. \A q \in Known : q \in Path /\ Leads(d)[q] = Leads(dir)[q]
    BY <1>5, <1>13, KnownClosed DEF Sound, Known
  <2>2. QED
    BY <1>6, <1>13, <2>1, KnownClosed DEF Sound, Right, Tree
<1>15. Leads(d)[p] = f /\ f # None
  BY <1>13, NoneApart
<1>16. s.fid = f /\ Right(d, s.cache, Known \cup {p})
  <2>1. /\ s.fid = 0 <=> Leads(d)[p] = None
        /\ s.fid # 0 => s.fid = Leads(d)[p] /\ Right(d, s.cache, Known \cup {p})
    BY <1>1, <1>4, <1>11, <1>14, KnownClosed, Answered
  <2>2. QED
    BY <1>15, <2>1
<1>17. known' = [known EXCEPT ![p] = k]
  <2>1. kind'[f] = k /\ f # 0
    BY <1>10, NoneApart DEF TInv, Kernel
  <2>2. QED
    BY <1>11, <1>16, <2>1
<1>18. QED
  BY <1>1, <1>3, <1>4, <1>5, <1>10, <1>11, <1>12, <1>13, <1>16, <1>17

\* A path more.
LEMMA MakeTInv ==
  ASSUME TInv, NEW p \in Path, NEW k \in {"dir", "file"}, Make(p, k)
  PROVE  TInv'
<1>1. PICK f \in File :
        /\ p # Root /\ known[Parent(p)] = "dir" /\ Parent(p) \in Known
        /\ lnk[f] = 0 /\ lnk' = [lnk EXCEPT ![f] = 1]
        /\ kind' = [kind EXCEPT ![f] = k]
        /\ Leads(dir)[p] = None /\ \A q \in Path : Leads(dir)[q] # f
        /\ Tree(dir') /\ \A q \in Path : Leads(dir')[q] = IF q = p THEN f ELSE Leads(dir)[q]
        /\ known' = [known EXCEPT ![p] = k]
        /\ Right(dir', cache', Known \cup {p}) /\ UNCHANGED lost
  BY MakeDoes
<1>2. f \in Fid /\ f # None /\ f \notin lost
  BY <1>1, NoneApart DEF TInv, Links
<1>3. Links'
  <2>1. lnk' \in [Fid -> {0, 1}] /\ lost' \subseteq File
    BY <1>1, <1>2 DEF TInv, Links
  <2>2. ASSUME NEW g \in Fid
        PROVE  lnk'[g] = 1 <=> g \in lost' \/ \E q \in Path : Leads(dir')[q] = g
    <3>1. CASE g = f
      BY <1>1, <1>2, <3>1 DEF TInv, Links
    <3>2. CASE g # f
      <4>1. lnk'[g] = lnk[g]
        BY <1>1, <3>2 DEF TInv, Links
      <4>2. (\E q \in Path : Leads(dir')[q] = g) <=> (\E q \in Path : Leads(dir)[q] = g)
        BY <1>1, <3>2, NoneApart
      <4>3. QED
        BY <1>1, <4>1, <4>2 DEF TInv, Links
    <3>3. QED
      BY <3>1, <3>2
  <2>3. \A q \in Path : Leads(dir')[q] \notin lost'
    BY <1>1, <1>2 DEF TInv, Links
  <2>4. QED
    BY <2>1, <2>2, <2>3 DEF Links
<1>4. \A q \in Path : known'[q] = IF q = p THEN k ELSE known[q]
  BY <1>1 DEF TInv, Kernel
<1>5. Known' = Known \cup {p}
  BY <1>4 DEF Known
<1>6. \A q \in Known : q \in Path /\ q # p /\ Leads(dir)[q] \in Fid /\ Leads(dir)[q] # f
  BY <1>1, KnownClosed, LeadsIs DEF Sound, Known
<1>7. Kernel'
  <2>1. kind' \in [Fid -> {"dir", "file"}] /\ known' \in [Path -> {"dir", "file", "none"}]
    BY <1>1 DEF TInv, Kernel
  <2>2. known'[Root] = "dir"
    BY <1>1, <1>4, RootPath DEF TInv, Kernel
  <2>3. ASSUME NEW q \in Known', q # Root PROVE known'[Parent(q)] = "dir"
    <3>1. known[Parent(q)] = "dir" /\ Parent(q) \in Known
      BY <1>1, <1>5, <2>3, KnownClosed DEF TInv, Kernel, Closed
    <3>2. QED
      BY <1>4, <1>6, <3>1
  <2>4. ASSUME NEW q \in Known' PROVE Leads(dir')[q] # None /\ known'[q] = kind'[Leads(dir')[q]]
    <3>1. CASE q = p
      BY <1>1, <1>2, <1>4, <3>1 DEF TInv, Kernel
    <3>2. CASE q # p
      <4>1. q \in Known /\ Leads(dir')[q] = Leads(dir)[q] /\ known'[q] = known[q]
        BY <1>1, <1>4, <1>5, <1>6, <2>4, <3>2
      <4>2. kind'[Leads(dir)[q]] = kind[Leads(dir)[q]]
        BY <1>1, <1>6, <4>1 DEF TInv, Kernel
      <4>3. QED
        BY <4>1, <4>2 DEF TInv, Kernel
    <3>3. QED
      BY <3>1, <3>2
  <2>5. QED
    BY <2>1, <2>2, <2>3, <2>4 DEF Kernel
<1>8. Leaves'
  <2> SUFFICES ASSUME NEW q \in Path, q # Root, Leads(dir')[q] # None
               PROVE  kind'[Leads(dir')[Parent(q)]] = "dir"
    BY DEF Leaves
  <2>1. CASE q = p
    <3>1. Parent(p) # p /\ Leads(dir)[Parent(p)] \in Fid /\ Leads(dir)[Parent(p)] # f
          /\ kind[Leads(dir)[Parent(p)]] = "dir" /\ Parent(p) \in Path
      BY <1>1, <1>6, ParentPath DEF TInv, Kernel
    <3>2. QED
      BY <1>1, <2>1, <3>1 DEF TInv, Kernel
  <2>2. CASE q # p
    <3>1. Leads(dir)[q] # None /\ Parent(q) \in Path
      BY <1>1, <2>2, ParentPath
    <3>2. Leads(dir)[Parent(q)] # None /\ Leads(dir)[Parent(q)] \in Fid
      BY <3>1, KnownClosed, LeadsIs
    <3>3. Parent(q) # p /\ Leads(dir)[Parent(q)] # f
      BY <1>1, <3>1, <3>2
    <3>4. Leads(dir')[Parent(q)] = Leads(dir)[Parent(q)]
      BY <1>1, <3>1, <3>3
    <3>5. QED
      BY <1>1, <3>1, <3>2, <3>3, <3>4 DEF TInv, Leaves, Kernel
  <2>3. QED
    BY <2>1, <2>2
<1>9. QED
  BY <1>1, <1>3, <1>5, <1>7, <1>8 DEF TInv

\* What unlink and rmdir do to a path the kernel knows: the identifier under it
\* is freed, and what was below is lost.
LEMMA RemoveDoes ==
  ASSUME TInv, NEW p \in Known, p # Root, RemovePath(p)
  PROVE  \E f \in File :
           /\ f = Leads(dir)[p] /\ lnk' = [lnk EXCEPT ![f] = 0] /\ UNCHANGED kind
           /\ Tree(dir') /\ Removed(dir, dir', p)
           /\ \A q \in Path : known'[q] = IF q \in Under(p) THEN "none" ELSE known[q]
           /\ lost' = lost \cup ({Leads(dir)[q] : q \in Below(p)} \ {None})
           /\ Right(dir, cache', Known)
<1> DEFINE Done(c, c2) ==
             LET f  == fcfs_get_fid(dir, cache, p)
                 pf == fcfs_get_fid(dir, c, Parent(p))
                 n  == (lnk[f] - 1) % 256
             IN /\ cache' = c2
                /\ lnk' = IF f = 0 THEN lnk ELSE [lnk EXCEPT ![f] = n]
                /\ dir' = IF f = 0 \/ n # 0 THEN dir ELSE [dir EXCEPT ![pf] = dev_rm_from_dir(@, f)]
<1>0. PICK c \in Cached(dir, cache, p) : \E c2 \in Cached(dir, c, Parent(p)) : Done(c, c2)
  BY DEF RemovePath
<1>1. PICK c2 \in Cached(dir, c, Parent(p)) : Done(c, c2)
  BY <1>0
<1>2. p \in Path /\ Parent(p) \in Path /\ Parent(p) \in Known
  BY KnownClosed, ParentPath DEF Closed, Known
<1>3. Right(dir, c, Known)
  BY <1>0, KnownClosed, CachedRight DEF TInv
<1>4. Right(dir, c2, Known)
  BY <1>1, <1>2, <1>3, KnownClosed, CachedRight
<1>5. PICK f : f = fcfs_get_fid(dir, cache, p)
  OBVIOUS
<1>6. PICK pf : pf = fcfs_get_fid(dir, c, Parent(p))
  OBVIOUS
<1>7. f = Leads(dir)[p] /\ pf = Leads(dir)[Parent(p)]
  BY <1>2, <1>3, <1>5, <1>6, KnownClosed, Resolved DEF TInv
<1>8. f # None /\ f \in Fid /\ f # 0
  <2>1. f # None
    BY <1>7, KnownClosed DEF Sound
  <2>2. f \in Fid
    BY <1>2, <1>7, <2>1, KnownClosed, LeadsIs
  <2>3. f # 0
    BY <1>2, <1>7, RootAlone DEF TInv
  <2>4. QED
    BY <2>1, <2>2, <2>3
<1>9. f \in File
  BY <1>8 DEF File
<1>10. lnk[f] = 1
  BY <1>2, <1>7, <1>8 DEF TInv, Links
<1>11. lnk' = [lnk EXCEPT ![f] = 0] /\ dir' = [dir EXCEPT ![pf] = dev_rm_from_dir(@, f)] /\ cache' = c2
  <2>1. (lnk[f] - 1) % 256 = 0
    BY <1>10
  <2>2. QED
    BY <1>1, <1>5, <1>6, <1>8, <2>1
<1>12. Tree(dir') /\ Removed(dir, dir', p)
  <2>1. PICK s : s = dev_rm_from_dir(dir[pf], f)
    OBVIOUS
  <2>2. PICK d2 : d2 = [dir EXCEPT ![pf] = s]
    OBVIOUS
  <2>3. Tree(dir)
    BY DEF TInv
  <2>4. Tree(d2) /\ Removed(dir, d2, p)
    BY <1>2, <1>7, <1>8, <2>1, <2>2, <2>3, RemoveLeads
  <2>5. dir' = d2
    BY <1>11, <2>1, <2>2
  <2>6. QED
    BY <2>4, <2>5
<1>13. \A q \in Path : known'[q] = IF q \in Under(p) THEN "none" ELSE known[q]
  BY DEF RemovePath, Under
<1>14. lost' = lost \cup ({Leads(dir)[q] : q \in Below(p)} \ {None}) /\ UNCHANGED kind
  BY DEF RemovePath, IdAt
<1>15. QED
  BY <1>4, <1>7, <1>9, <1>11, <1>12, <1>13, <1>14

\* A path less, and those below it.
LEMMA RemoveTInv ==
  ASSUME TInv, NEW p \in Known, p # Root, RemovePath(p)
  PROVE  TInv'
<1>1. PICK f \in File :
        /\ f = Leads(dir)[p] /\ lnk' = [lnk EXCEPT ![f] = 0] /\ UNCHANGED kind
        /\ Tree(dir') /\ Removed(dir, dir', p)
        /\ \A q \in Path : known'[q] = IF q \in Under(p) THEN "none" ELSE known[q]
        /\ lost' = lost \cup ({Leads(dir)[q] : q \in Below(p)} \ {None})
        /\ Right(dir, cache', Known)
  BY RemoveDoes
<1>1a. \A q \in Path : Leads(dir')[q] = IF q \in Under(p) THEN None ELSE Leads(dir)[q]
  BY <1>1 DEF Removed
<1>2. p \in Path /\ Below(p) \subseteq Path /\ p \notin Below(p) /\ Under(p) = Below(p) \cup {p}
  BY PathIs DEF Known, Below, Under
<1>3. f \in Fid /\ f # None
  BY NoneApart
<1>4. \A q, r \in Path : Leads(dir)[q] # None /\ Leads(dir)[q] = Leads(dir)[r] => q = r
  BY DEF TInv, Tree, Single
<1>5. \A q \in Path : Leads(dir)[q] \in Fid \cup {None}
  BY KnownClosed, LeadsIs
<1>6. Links'
  <2>1. lnk' \in [Fid -> {0, 1}]
    BY <1>1, <1>1a DEF TInv, Links
  <2>2. lost' \subseteq File
    <3>1. ASSUME NEW q \in Below(p), Leads(dir)[q] # None PROVE Leads(dir)[q] \in File
      <4>1. q # Root
        BY <1>2, RootNotUnder
      <4>2. Leads(dir)[q] # 0
        BY <1>2, <4>1, RootAlone DEF TInv
      <4>3. QED
        BY <1>2, <1>5, <3>1, <4>2 DEF File
    <3>2. QED
      BY <1>1, <1>1a, <3>1 DEF TInv, Links
  <2>3. ASSUME NEW g \in Fid
        PROVE  lnk'[g] = 1 <=> g \in lost' \/ \E q \in Path : Leads(dir')[q] = g
    <3>1. lnk'[g] = 1 <=> g # f /\ lnk[g] = 1
      BY <1>1, <1>1a, <1>3 DEF TInv, Links
    <3>2. lnk[g] = 1 <=> g \in lost \/ \E q \in Path : Leads(dir)[q] = g
      BY DEF TInv, Links
    <3>3. ASSUME g # f, lnk[g] = 1 PROVE g \in lost' \/ \E q \in Path : Leads(dir')[q] = g
      <4>1. CASE g \in lost
        BY <1>1, <1>1a, <4>1
      <4>2. CASE \E q \in Path : Leads(dir)[q] = g
        <5>1. PICK q \in Path : Leads(dir)[q] = g
          BY <4>2
        <5>2. CASE q \in Below(p)
          BY <1>1, <1>1a, <5>1, <5>2, NoneApart
        <5>3. CASE q \notin Below(p)
          BY <1>1, <1>1a, <1>2, <3>3, <5>1, <5>3
        <5>4. QED
          BY <5>2, <5>3
      <4>3. QED
        BY <3>2, <3>3, <4>1, <4>2
    <3>4. ASSUME g \in lost' PROVE g # f /\ lnk[g] = 1
      <4>1. CASE g \in lost
        BY <1>1, <1>1a, <1>2, <3>2, <4>1 DEF TInv, Links
      <4>2. CASE g \notin lost
        <5>1. PICK q \in Below(p) : g = Leads(dir)[q]
          BY <1>1, <1>1a, <3>4, <4>2
        <5>2. g # f
          BY <1>1, <1>1a, <1>2, <1>3, <1>4, <5>1
        <5>3. QED
          BY <1>2, <3>2, <5>1, <5>2
      <4>3. QED
        BY <4>1, <4>2
    <3>5. ASSUME NEW q \in Path, Leads(dir')[q] = g PROVE g # f /\ lnk[g] = 1
      <4>1. q \notin Under(p) /\ Leads(dir)[q] = g
        BY <1>1, <1>1a, <3>5, NoneApart
      <4>2. QED
        BY <1>1, <1>1a, <1>2, <1>3, <1>4, <3>2, <4>1
    <3>6. QED
      BY <3>1, <3>3, <3>4, <3>5
  <2>4. ASSUME NEW q \in Path PROVE Leads(dir')[q] \notin lost'
    <3>1. CASE q \in Under(p)
      <4>1. Leads(dir')[q] = None
        BY <1>1, <1>1a, <3>1
      <4>2. QED
        BY <2>2, <4>1, NoneApart
    <3>2. CASE q \notin Under(p)
      <4>1. Leads(dir')[q] = Leads(dir)[q] /\ Leads(dir)[q] \notin lost
        BY <1>1, <1>1a, <3>2 DEF TInv, Links
      <4>2. ASSUME NEW r \in Below(p), Leads(dir)[r] # None PROVE Leads(dir)[q] # Leads(dir)[r]
        BY <1>2, <1>4, <3>2, <4>2
      <4>3. QED
        BY <1>1, <1>1a, <4>1, <4>2
    <3>3. QED
      BY <3>1, <3>2
  <2>5. QED
    BY <2>1, <2>2, <2>3, <2>4 DEF Links
<1>7. \A q \in Known' : /\ q \in Path /\ q \in Known /\ q \notin Under(p) /\ known'[q] = known[q]
                        /\ Leads(dir')[q] = Leads(dir)[q]
  BY <1>1, <1>1a DEF Known
<1>8. Kernel'
  <2>1. kind' \in [Fid -> {"dir", "file"}] /\ known' \in [Path -> {"dir", "file", "none"}]
    BY <1>1, <1>1a DEF RemovePath, TInv, Kernel
  <2>2. known'[Root] = "dir"
    BY <1>1, <1>1a, <1>2, RootPath, RootNotUnder DEF TInv, Kernel
  <2>3. ASSUME NEW q \in Known', q # Root PROVE known'[Parent(q)] = "dir"
    <3>1. Parent(q) \notin Under(p) /\ Parent(q) \in Path /\ known[Parent(q)] = "dir"
      BY <1>2, <1>7, <2>3, UnderIs, ParentPath DEF TInv, Kernel
    <3>2. QED
      BY <1>1, <1>1a, <3>1
  <2>4. \A q \in Known' : Leads(dir')[q] # None /\ known'[q] = kind'[Leads(dir')[q]]
    BY <1>1, <1>1a, <1>7 DEF TInv, Kernel
  <2>5. QED
    BY <2>1, <2>2, <2>3, <2>4 DEF Kernel
<1>9. Right(dir, cache, Known)'
  BY <1>1, <1>1a, <1>7 DEF Right
<1>10. Leaves'
  <2> SUFFICES ASSUME NEW q \in Path, q # Root, Leads(dir')[q] # None
               PROVE  kind'[Leads(dir')[Parent(q)]] = "dir"
    BY DEF Leaves
  <2>1. q \notin Under(p) /\ Leads(dir)[q] # None
    BY <1>1, <1>1a
  <2>2. Parent(q) \notin Under(p) /\ Parent(q) \in Path
    BY <1>2, <2>1, UnderIs, ParentPath
  <2>3. QED
    BY <1>1, <1>1a, <2>1, <2>2 DEF TInv, Leaves
<1>11. QED
  BY <1>1, <1>1a, <1>6, <1>8, <1>9, <1>10 DEF TInv

\* Every request keeps the invariant.
LEMMA NextTInv == TInv /\ [Next]_vars => TInv'
<1> SUFFICES ASSUME TInv, [Next]_vars PROVE TInv'
  OBVIOUS
<1>1. CASE Remount
  BY <1>1, RemountTInv
<1>2. ASSUME NEW p \in Path, Lookup(p) PROVE TInv'
  BY <1>2, LookupTInv
<1>3. ASSUME NEW p \in Path, ops_mkdir(p) PROVE TInv'
  BY <1>3, MakeTInv DEF ops_mkdir
<1>4. ASSUME NEW p \in Path, ops_create(p) PROVE TInv'
  BY <1>4, MakeTInv DEF ops_create
<1>5. ASSUME NEW p \in Path, ops_unlink(p) PROVE TInv'
  <2>1. p \in Known /\ p # Root /\ RemovePath(p)
    BY <1>5 DEF ops_unlink, Known, TInv, Kernel
  <2>2. QED
    BY <2>1, RemoveTInv
<1>6. ASSUME NEW p \in Path, ops_rmdir(p) PROVE TInv'
  <2>1. p \in Known /\ p # Root /\ RemovePath(p)
    BY <1>6 DEF ops_rmdir, Known
  <2>2. QED
    BY <2>1, RemoveTInv
<1>7. ASSUME NEW p \in Path, Use(p) PROVE TInv'
  BY <1>7, UseTInv
<1>8. CASE UNCHANGED vars
  BY <1>8 DEF vars, TInv, Links, Leaves, Kernel, Known
<1>9. QED
  BY <1>1, <1>2, <1>3, <1>4, <1>5, <1>6, <1>7, <1>8 DEF Next

-----------------------------------------------------------------------------
(* The theorems.                                                            *)

\* The invariant holds in every state.
THEOREM TreeInvariant == Spec => []TInv
BY InitTInv, NextTInv, PTL DEF Spec

\* KnownResolved, whatever the numbers of names, identifiers and nested
\* directories: a path the kernel knows is resolved to the identifier the
\* directories lead to, though nothing is ever evicted from the path cache.
THEOREM KnownAlwaysResolved == Spec => []KnownResolved
<1>1. TInv => KnownResolved
  <2> SUFFICES ASSUME TInv, NEW p \in Path, known[p] # "none"
               PROVE  /\ Leads(dir)[p] # None
                      /\ fcfs_get_fid(dir, cache, p) = Leads(dir)[p]
                      /\ known[p] = kind[Leads(dir)[p]]
    BY DEF KnownResolved, IdAt
  <2>1. p \in Known
    BY DEF Known
  <2>2. QED
    BY <2>1, KnownClosed, Resolved DEF TInv, Kernel
<1>2. QED
  BY <1>1, TreeInvariant, PTL

\* TakenExplained: an identifier in use has a path or was below a directory that
\* was removed, and never both.
THEOREM TakenAlwaysExplained == Spec => []TakenExplained
<1>1. TInv => TakenExplained
  <2> SUFFICES ASSUME TInv PROVE TakenExplained
    OBVIOUS
  <2> DEFINE named == {IdAt(p) : p \in Path} \ {None}
  <2>1. \A p \in Path : IdAt(p) \in Fid \cup {None}
    BY KnownClosed, LeadsIs DEF IdAt
  <2>2. \A f \in Fid : f \in named <=> \E p \in Path : IdAt(p) = f
    BY NoneApart
  <2>3. named \subseteq Fid /\ lost \subseteq Fid
    BY <2>1, NoneApart DEF TInv, Links
  <2>4. \A f \in Fid : lnk[f] # 0 <=> f \in lost \/ \E p \in Path : IdAt(p) = f
    BY DEF TInv, Links, IdAt
  <2>5. \A f \in named : f \notin lost
    BY DEF TInv, Links, IdAt
  <2> HIDE DEF named
  <2>6. {f \in Fid : lnk[f] # 0} = named \cup lost
    BY <2>2, <2>3, <2>4
  <2>7. named \cap lost = {}
    BY <2>5
  <2>8. QED
    BY <2>6, <2>7 DEF TakenExplained, named
<1>2. QED
  BY <1>1, TreeInvariant, PTL

\* The words of PathTree are those of this module.
LEMMA SameWords ==
  /\ Abs!Path = Path /\ Abs!Root = Root
  /\ \A p : Abs!Parent(p) = Parent(p) /\ Abs!Below(p) = Below(p)
  BY DEF Abs!Path, Path, Abs!Root, Root, Abs!Parent, Parent, Abs!Prefix, Prefix, Abs!Below, Below

\* What a path is, and that a step that changes no identifier and no kind
\* changes no path.
LEMMA TreeIs ==
  /\ tree = [p \in Path |-> tree[p]]
  /\ \A p \in Path : tree[p] = IF Leads(dir)[p] = None THEN "none" ELSE kind[Leads(dir)[p]]
  BY DEF tree, IdAt

\* What leaves directories and kinds alone leaves the tree alone.
LEMMA SameTree ==
  ASSUME UNCHANGED <<dir, kind>>
  PROVE  UNCHANGED tree
  BY DEF tree, IdAt

\* mkdir and create make the path they are asked for.
LEMMA MakeRefines ==
  ASSUME TInv, NEW p \in Path, NEW k \in {"dir", "file"}, Make(p, k)
  PROVE  Abs!Make(p, k) /\ tree'[p] # tree[p]
<1>1. PICK f \in File :
        /\ p # Root /\ known[Parent(p)] = "dir" /\ Parent(p) \in Known
        /\ lnk[f] = 0 /\ lnk' = [lnk EXCEPT ![f] = 1]
        /\ kind' = [kind EXCEPT ![f] = k]
        /\ Leads(dir)[p] = None /\ \A q \in Path : Leads(dir)[q] # f
        /\ Tree(dir') /\ \A q \in Path : Leads(dir')[q] = IF q = p THEN f ELSE Leads(dir)[q]
        /\ known' = [known EXCEPT ![p] = k]
        /\ Right(dir', cache', Known \cup {p}) /\ UNCHANGED lost
  BY MakeDoes
<1>2. f \in Fid /\ f # None /\ Parent(p) \in Path
  BY <1>1, NoneApart, ParentPath
<1>3. tree[p] = "none" /\ tree[Parent(p)] = "dir"
  BY <1>1, <1>2, TreeIs DEF TInv, Kernel
<1>4. /\ tree' = [q \in Path |-> tree'[q]]
      /\ \A q \in Path : tree'[q] = IF Leads(dir')[q] = None THEN "none" ELSE kind'[Leads(dir')[q]]
  BY DEF tree, IdAt
<1>5. tree'[p] = k
  BY <1>1, <1>2, <1>4 DEF TInv, Kernel
<1>6. ASSUME NEW q \in Path, q # p PROVE tree'[q] = tree[q]
  <2>1. Leads(dir')[q] = Leads(dir)[q] /\ Leads(dir)[q] # f
    BY <1>1, <1>6
  <2>2. Leads(dir)[q] # None => Leads(dir)[q] \in Fid
    BY KnownClosed, LeadsIs
  <2>3. Leads(dir)[q] # None => kind'[Leads(dir)[q]] = kind[Leads(dir)[q]]
    BY <1>1, <2>1, <2>2 DEF TInv, Kernel
  <2>4. QED
    BY <1>4, <2>1, <2>3, TreeIs
<1>7. tree' = [tree EXCEPT ![p] = k]
  BY <1>4, <1>5, <1>6, TreeIs
<1>8. Abs!Make(p, k)
  BY <1>1, <1>3, <1>7, SameWords DEF Abs!Make
<1>9. QED
  BY <1>3, <1>5, <1>8

\* unlink takes one path away, rmdir all that was under it.
LEMMA RemoveRefines ==
  ASSUME TInv, NEW p \in Known, p # Root, RemovePath(p)
  PROVE  /\ tree[p] = known[p] /\ tree'[p] # tree[p]
         /\ tree' = [q \in Path |-> IF q \in Under(p) THEN "none" ELSE tree[q]]
<1>1. PICK f \in File :
        /\ f = Leads(dir)[p] /\ lnk' = [lnk EXCEPT ![f] = 0] /\ UNCHANGED kind
        /\ Tree(dir') /\ Removed(dir, dir', p)
        /\ \A q \in Path : known'[q] = IF q \in Under(p) THEN "none" ELSE known[q]
        /\ lost' = lost \cup ({Leads(dir)[q] : q \in Below(p)} \ {None})
        /\ Right(dir, cache', Known)
  BY RemoveDoes
<1>2. p \in Path /\ p \in Under(p)
  BY DEF Known, Under
<1>3. /\ tree' = [q \in Path |-> tree'[q]]
      /\ \A q \in Path : tree'[q] = IF Leads(dir')[q] = None THEN "none" ELSE kind'[Leads(dir')[q]]
  BY DEF tree, IdAt
<1>4. \A q \in Path : tree'[q] = IF q \in Under(p) THEN "none" ELSE tree[q]
  BY <1>1, <1>3, TreeIs DEF Removed
<1>5. tree[p] = known[p] /\ known[p] # "none"
  BY <1>2, TreeIs DEF TInv, Kernel, Known
<1>6. tree' = [q \in Path |-> IF q \in Under(p) THEN "none" ELSE tree[q]]
  BY <1>3, <1>4, Zenon
<1>7. QED
  BY <1>2, <1>4, <1>5, <1>6

\* A path that is no directory has nothing below it.
LEMMA LeafAlone ==
  ASSUME TInv, NEW p \in Known, known[p] = "file"
  PROVE  \A q \in Below(p) : tree[q] = "none"
<1>1. p \in Path /\ Under(p) = Below(p) \cup {p} /\ p \notin Below(p) /\ Below(p) \subseteq Path
  BY PathIs DEF Known, Under, Below
<1>2. kind[Leads(dir)[p]] = "file" /\ p # Root
  BY DEF TInv, Kernel
<1> DEFINE S == {q \in Path : q \in Below(p) => Leads(dir)[q] = None}
<1>3. Root \in S
  BY <1>1, <1>2, RootPath, RootNotUnder
<1>4. ASSUME NEW q \in Path, q # Root, Parent(q) \in S, q \in Below(p)
      PROVE  Leads(dir)[q] = None
  <2>1. Parent(q) \in Below(p) \/ Parent(q) = p
    BY <1>1, <1>4, UnderIs
  <2>2. CASE Parent(q) \in Below(p)
    BY <1>4, <2>2, KnownClosed, LeadsIs
  <2>3. CASE Parent(q) = p
    BY <1>2, <1>4, <2>3 DEF TInv, Leaves
  <2>4. QED
    BY <2>1, <2>2, <2>3
<1>5. \A q \in Path : q \in S
  <2>1. \A q \in Path : q # Root /\ Parent(q) \in S => q \in S
    BY <1>4
  <2>2. QED
    BY <1>3, <2>1, PathInduction
<1>6. QED
  BY <1>1, <1>5, TreeIs

\* Every step of the handlers is a step of the tree, or leaves it alone.
LEMMA NextTree ==
  ASSUME TInv, [Next]_vars
  PROVE  [Abs!Next]_tree
<1>1. ASSUME NEW p \in Path, NEW k \in {"dir", "file"}, Make(p, k) PROVE Abs!Next
  BY <1>1, MakeRefines, SameWords DEF Abs!Next
<1>2. ASSUME NEW p \in Path, ops_unlink(p) PROVE Abs!Next
  <2>1. p \in Known /\ known[p] = "file" /\ p # Root /\ RemovePath(p)
    BY <1>2 DEF ops_unlink, Known, TInv, Kernel
  <2>2. /\ tree[p] = "file" /\ tree'[p] # tree[p]
        /\ tree' = [q \in Path |-> IF q \in Under(p) THEN "none" ELSE tree[q]]
    BY <2>1, RemoveRefines
  <2>3. \A q \in Path : (IF q \in Under(p) THEN "none" ELSE tree[q]) = IF q = p THEN "none" ELSE tree[q]
    BY <2>1, LeafAlone DEF Under
  <2>4. tree' = [q \in Path |-> IF q = p THEN "none" ELSE tree[q]]
    BY <2>2, <2>3
  <2>5. tree' = [tree EXCEPT ![p] = "none"]
    BY <2>4, TreeIs
  <2>6. QED
    BY <2>2, <2>5, SameWords DEF Abs!Next, Abs!Unlink
<1>3. ASSUME NEW p \in Path, ops_rmdir(p) PROVE Abs!Next
  <2>1. p \in Known /\ known[p] = "dir" /\ p # Root /\ RemovePath(p)
    BY <1>3 DEF ops_rmdir, Known
  <2>2. /\ tree[p] = "dir" /\ tree'[p] # tree[p]
        /\ tree' = [q \in Path |-> IF q \in Under(p) THEN "none" ELSE tree[q]]
    BY <2>1, RemoveRefines
  <2>3. QED
    BY <2>1, <2>2, SameWords DEF Abs!Next, Abs!Rmdir, Under
<1>4. CASE Remount
  BY <1>4, SameTree DEF Remount
<1>5. ASSUME NEW p \in Path, Lookup(p) PROVE UNCHANGED tree
  BY <1>5, SameTree DEF Lookup
<1>6. ASSUME NEW p \in Path, Use(p) PROVE UNCHANGED tree
  BY <1>6, SameTree DEF Use
<1>7. CASE UNCHANGED vars
  BY <1>7, SameTree DEF vars
<1>8. QED
  BY <1>1, <1>2, <1>3, <1>4, <1>5, <1>6, <1>7 DEF Next, ops_mkdir, ops_create

\* A volume just formatted is the root alone.
LEMMA InitTree == Init => Abs!Init
<1> SUFFICES ASSUME Init PROVE Abs!Init
  OBVIOUS
<1>1. TInv
  BY InitTInv
<1>2. ASSUME NEW p \in Path PROVE tree[p] = IF p = Root THEN "dir" ELSE "none"
  <2>1. CASE p = Root
    <3>1. Leads(dir)[p] = 0 /\ kind[0] = "dir"
      BY <1>1, <2>1, KnownClosed, LeadsIs, NoneApart DEF Init
    <3>2. QED
      BY <2>1, <3>1, NoneApart, TreeIs
  <2>2. CASE p # Root
    <3>1. ASSUME Leads(dir)[p] # None PROVE FALSE
      <4>1. Leads(dir)[p] \in Fid /\ Leads(dir)[p] # 0
        BY <1>1, <2>2, <3>1, KnownClosed, LeadsIs, RootAlone DEF TInv
      <4>2. lnk[Leads(dir)[p]] = 0 /\ lnk[Leads(dir)[p]] = 1
        BY <1>1, <4>1 DEF Init, TInv, Links
      <4>3. QED
        BY <4>2
    <3>2. QED
      BY <2>2, <3>1, TreeIs
  <2>3. QED
    BY <2>1, <2>2
<1>3. tree = [p \in Path |-> IF p = Root THEN "dir" ELSE "none"]
  BY <1>2, TreeIs, Zenon
<1>4. QED
  BY <1>3, SameWords DEF Abs!Init

\* ImplementsTree: the handlers with their cache are the tree of PathTree: every
\* request changes the path it is about, with what is below, and nothing else.
THEOREM TreeImplemented == Spec => ImplementsTree
<1>1. Init => Abs!Init
  BY InitTree
<1>2. TInv /\ [Next]_vars => [Abs!Next]_tree
  BY NextTree
<1>3. QED
  BY <1>1, <1>2, TreeInvariant, PTL DEF Spec, ImplementsTree, Abs!Spec
=============================================================================
