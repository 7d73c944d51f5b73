\* The only node of the pool is cordoned.
SPECIFICATION Spec
CONSTANTS
    Nodes = {n1, n2}
    NoNode = NoNode
    MaxReplicas = 1
    ReplicaChoices = {1}
    HasSelector = TRUE
    Pool = {n1}
    Capable = {n1, n2}
    Cap = 1
    StableRequired = 2
    FreshCache = TRUE
    MaxFaults = 0
    MaxEvents = 1
PROPERTIES
    StrandedIsDegraded
