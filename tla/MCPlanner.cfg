SPECIFICATION Spec

CONSTANTS
    Stack = "app"
    Objects <- AppObjects
    Keys <- AppKeys
    MaxChanges = 2

INVARIANTS
    TypeOK
    PlanReachesDesired
    PlanFitsCluster

CHECK_DEADLOCK FALSE
