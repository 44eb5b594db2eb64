SPECIFICATION FairSpec

CONSTANTS
    Tasks = {t1}
    EventCap = 1
    SubCap = 1
    StreamCap = 2
    MaxFaults = 1
    MaxCleanups = 1

INVARIANTS
    TypeOK
    RecordedIsHeard

PROPERTIES
    TaskAnnounced
    EveryoneReleased

CHECK_DEADLOCK FALSE
