\* Every list of up to three candidates out of eleven profiles.
SPECIFICATION Spec
CONSTANTS
    None = None
    Invalid = Invalid
    Profiles <- MCProfiles
    Horizons <- MCHorizons
    MaxCandidates = 3
    MaxSlots = 3
    Strategies = {"WarmthFirst", "EfficiencyAware", "Unsupported"}
INVARIANTS
    OneSelected
    Balanced
    StaleChangesNothing
PROPERTIES
    PickIsTierWinner
\* Planning ends when every slot is filled or no candidate is left.
CHECK_DEADLOCK FALSE
