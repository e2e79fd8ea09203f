------------------------------- MODULE PathTree -------------------------------
(***************************************************************************)
(* What the namespace of a mounted volume promises: a tree of paths.       *)
(* Removing a directory takes everything below it away, asked or not.      *)
(***************************************************************************)
EXTENDS Paths

VARIABLE tree   \* what every path is: "dir", "file" or "none"

Init == tree = [p \in Path |-> IF p = Root THEN "dir" ELSE "none"]

Make(p, k) == /\ p # Root /\ tree[p] = "none" /\ tree[Parent(p)] = "dir"
              /\ tree' = [tree EXCEPT ![p] = k]

Unlink(p) == /\ tree[p] = "file"
             /\ tree' = [tree EXCEPT ![p] = "none"]

Rmdir(p) == /\ p # Root /\ tree[p] = "dir"
            /\ tree' = [q \in Path |-> IF q \in Below(p) \cup {p} THEN "none" ELSE tree[q]]

\* The path a step is about is one that changes.
Next == \E p \in Path :
          /\ tree'[p] # tree[p]
          /\ (Make(p, "dir") \/ Make(p, "file") \/ Unlink(p) \/ Rmdir(p))

Spec == Init /\ [][Next]_tree
=============================================================================
