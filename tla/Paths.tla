-------------------------------- MODULE Paths --------------------------------
(***************************************************************************)
(* Paths as sequences of names; the root is the empty one.                 *)
(***************************************************************************)
EXTENDS Naturals, Sequences

CONSTANTS Names, Depth   \* names in a directory; bound: names in a path

ASSUME PathAssumption == Depth \in Nat \ {0}

Path == UNION {[1..n -> Names] : n \in 0..Depth}
Root == <<>>

Prefix(p, i) == SubSeq(p, 1, i)
Parent(p)    == Prefix(p, Len(p) - 1)
Base(p)      == p[Len(p)]
Below(p)     == {q \in Path : Len(q) > Len(p) /\ Prefix(q, Len(p)) = p}
=============================================================================
