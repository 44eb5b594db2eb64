SPECIFICATION Spec

CONSTANTS
    Services = {s1, s2}
    Commands = {c1, c2}
    None = none
    LastGen = 2
    MaxBumps = 1

SYMMETRY Symmetry

INVARIANTS
    TypeOK
    TwoSpecsKept
    RevertedOrTold

CHECK_DEADLOCK FALSE
