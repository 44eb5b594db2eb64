SPECIFICATION Spec

CONSTANTS
    Services = {s1}
    Replicas = 2
    Slots = 3
    MaxFaults = 0

PROPERTIES
    EveryReplicaHealthy

CHECK_DEADLOCK FALSE
