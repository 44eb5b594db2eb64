SPECIFICATION FairSpec

CONSTANTS
    Tasks = {t1, t2}
    ChanCap = 1
    SubCap = 1
    MaxEvents = 2

INVARIANTS
    TypeOK
    RegistryIsExact
    NothingLeft

PROPERTIES
    Returns
    DeafMonitorEnds

CHECK_DEADLOCK FALSE
