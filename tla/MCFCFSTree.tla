------------------------------ MODULE MCFCFSTree ------------------------------
EXTENDS FCFSTree, TLC

\* Names are interchangeable.
Symmetry == Permutations(Names)
=============================================================================
