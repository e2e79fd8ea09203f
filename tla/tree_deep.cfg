CONSTANT Names = {a}
CONSTANT Depth = 3
CONSTANT NF = 5
SPECIFICATION Spec
SYMMETRY Symmetry
INVARIANTS KnownResolved TakenExplained
CHECK_DEADLOCK FALSE
