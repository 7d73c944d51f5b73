\* Everything the lists may return, one change at a time.
SPECIFICATION Spec
CONSTANTS
    None = None
    Invalid = Invalid
    Names = {"a", "b"}
    Namespaces = {1, 2}
    Statuses <- MCStatuses
    NodeObjects <- MCNodeObjects
    Instances <- MCInstances
    Places <- MCPlaces
    Phases = {"Pending", "Ready"}
    NoKey = NoKey
    Gpus = 1
    Strategy = "EfficiencyAware"
    Horizon = 5
    Now = 10

    
PROPERTIES
    OwnPhaseMovesNothing
    SecondNodeStateOnlyDisplaces
    
    UndatedSwaysNothing
