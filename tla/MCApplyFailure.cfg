SPECIFICATION Spec

CONSTANTS
    Services = {s1, s2}
    MaxSignals = 2

INVARIANTS
    FailureRolledBack
