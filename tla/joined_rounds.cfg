\* A target that misses a round whose energy is counted.
SPECIFICATION HSpec
CONSTANTS
    Targets = {t1}
    WithTokens = {t1}
    Devices = {d1}
    None = None
    MaxRounds = 3
    MaxWork = 3
    MaxFaults = 2
INVARIANTS
    TokensOfTheRound
