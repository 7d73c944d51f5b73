\* A scale-down from two replicas to one.
SPECIFICATION Spec
CONSTANTS
    Nodes = {n1, n2}
    NoNode = NoNode
    MaxReplicas = 2
    ReplicaChoices = {1, 2}
    HasSelector = FALSE
    Pool = {n1, n2}
    Capable = {n1, n2}
    Cap = 1
    StableRequired = 2
    FreshCache = TRUE
    MaxFaults = 0
    MaxEvents = 1
SYMMETRY NodeSymmetry
INVARIANTS
    ReadyMeansAllReady
