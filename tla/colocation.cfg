\* Two slots displaced together, a cap of two, two free nodes.
SPECIFICATION Spec
CONSTANTS
    Nodes = {n1, n2, n3, n4}
    NoNode = NoNode
    MaxReplicas = 2
    ReplicaChoices = {2}
    HasSelector = FALSE
    Pool = {n1, n2, n3, n4}
    Capable = {n1, n2, n3, n4}
    Cap = 2
    StableRequired = 2
    FreshCache = TRUE
    MaxFaults = 0
    MaxEvents = 2
SYMMETRY NodeSymmetry
INVARIANTS
    SharesOnlyWhenFull
