SPECIFICATION Spec

CONSTANTS
    s1 = s1
    s2 = s2
    Services <- TwoServices
    Longer <- OneBeginsOther
    None = none
    MaxFaults = 0
    MaxBumps = 0
    MaxForeign = 0

INVARIANTS
    RollbackRestoresSnapshot
