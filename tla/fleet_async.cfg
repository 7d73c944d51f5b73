\* A cache that lags, and one reconcile abandoned or without its Node list.
SPECIFICATION Spec
CONSTANTS
    Nodes = {n1, n2}
    NoNode = NoNode
    MaxReplicas = 2
    ReplicaChoices = {1, 2}
    HasSelector = FALSE
    Pool = {n1, n2}
    Capable = {n1, n2}
    Cap = 1
    StableRequired = 2
    FreshCache = FALSE
    MaxFaults = 1
    MaxEvents = 2
SYMMETRY NodeSymmetry
INVARIANTS
    TypeOK
    MovesWithinCap
PROPERTIES
    PinsChangeOnlyToEscape
    HoldIsDegraded
    KeepsPromise
