SPECIFICATION FairSpec

CONSTANTS
    Services = {s1}
    Replicas = 2
    Slots = 3
    MaxFaults = 1

INVARIANTS
    TypeOK

PROPERTIES
    PassIsSound
    EndsWithContext
    WellOpens

CHECK_DEADLOCK FALSE
