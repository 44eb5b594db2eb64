SPECIFICATION FairSpec

CONSTANTS
    Applies = {a1, a2}
    Services = {s1}
    n1 = n1
    Networks = {n1, default}
    Default = default
    Volumes = {v1}
    Files <- FilesInUse
    MaxFaults = 1
    MaxRemovals = 1

INVARIANTS
    TypeOK
    NetworksReady
    RefusedByOthersOnly

PROPERTIES
    Converges
