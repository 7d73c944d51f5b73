\* One replica, two nodes to move between.
SPECIFICATION SystemSpec
CONSTANTS
    Nodes = {n1, n2}
    NoNode = NoNode
    MaxReplicas = 1
    ReplicaChoices = {1}
    HasSelector = FALSE
    Pool = {n1, n2}
    Capable = {n1, n2}
    Cap = 1
    StableRequired = 1
    FreshCache = TRUE
    MaxFaults = 1
    MaxEvents = 1
    MaxFailures = 0
INVARIANTS
    ReadyIsServed
PROPERTIES
    MoveKeepsServing
    ServedInTheEnd
