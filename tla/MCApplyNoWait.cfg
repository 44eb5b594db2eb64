SPECIFICATION FairSpec

CONSTANTS
    Services = {s1, s2}
    MaxSignals = 2

PROPERTIES
    NoWaitExitsNow
