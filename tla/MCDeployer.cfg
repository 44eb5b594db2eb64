SPECIFICATION FairSpec

CONSTANTS
    s1 = s1
    s2 = s2
    Services <- TwoServices
    Longer <- OneBeginsOther
    None = none
    MaxFaults = 1
    MaxBumps = 1
    MaxForeign = 1

INVARIANTS
    TypeOK
    KeptServicesSurvive
    RollbackUndoes
    FailsForCause

PROPERTIES
    NoLostUpdate
    NoneUnreported
    ImplementsTxn
    Terminates
