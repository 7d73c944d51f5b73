\* Every reconcile handed the newest FleetService; one may fail.
SPECIFICATION HSpec
CONSTANTS
    Nodes = {n1, n2, n3}
    NoNode = NoNode
    MaxReplicas = 2
    ReplicaChoices = {0, 1, 2}
    HasSelector = TRUE
    Pool = {n1, n2, n3}
    Capable = {n1, n2, n3}
    Cap = 1
    StableRequired = 2
    FreshCache = TRUE
    MaxFaults = 1
    MaxEvents = 3
SYMMETRY NodeSymmetry
INVARIANTS
    StatusMatchesChildren
    
PROPERTIES
    RemovalWaited
