\* One name, two templates: pinned to a node or not. At rest once deleted, hence no deadlock check.
SPECIFICATION FairServiceSpec
CONSTANTS
    Nodes = {n1}
    NoNode = NoNode
    ReplicaValues = {1, 2}
    PolicyEnabled = TRUE
    MaxIncarnations = 2
    MaxAborts = 1
    MaxIncidents = 3
CHECK_DEADLOCK FALSE
INVARIANTS
    ServiceTypeOK
PROPERTIES
    KeepsCapacity
    PhaseConverges
    ChildrenFollowSpec
    NothingOrphaned
