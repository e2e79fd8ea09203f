CONSTANT Names = {a, b}
CONSTANT Depth = 2
CONSTANT NF = 3
SPECIFICATION Spec
SYMMETRY Symmetry
INVARIANTS KnownResolved TakenExplained
PROPERTY ImplementsTree
CHECK_DEADLOCK FALSE
