SPECIFICATION FairSpec

CONSTANTS
    Services = {s1, s2}
    MaxSignals = 2

INVARIANTS
    TypeOK
    SignalNeverLost
    QuiescentRollback
    RolledBackIffUnverified
    OkMeansVerified
    NoOrphans

PROPERTIES
    RollbackCompletes
    Exits
    ImplementsTxn
