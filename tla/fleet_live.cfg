\* Liveness, with one abandoned reconcile: no symmetry.
SPECIFICATION FairSpec
CONSTANTS
    Nodes = {n1, n2, n3}
    NoNode = NoNode
    MaxReplicas = 2
    ReplicaChoices = {1, 2}
    HasSelector = FALSE
    Pool = {n1, n2, n3}
    Capable = {n1, n2, n3}
    Cap = 1
    StableRequired = 2
    FreshCache = TRUE
    MaxFaults = 1
    MaxEvents = 2
PROPERTIES
    DisplacedMove
    SurplusRemoved
    MissingCreated
    PinsSettle
