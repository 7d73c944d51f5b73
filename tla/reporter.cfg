\* Two engines, one without the token series, and two GPUs, of which one may
\* not answer, be reset or draw nothing.
SPECIFICATION HSpec
CONSTANTS
    Targets = {t1, t2}
    WithTokens = {t1}
    Devices = {d1, d2}
    None = None
    MaxRounds = 3
    MaxWork = 2
    MaxFaults = 2
SYMMETRY DeviceSymmetry
INVARIANTS
    TypeOK
    PublishedAsMeasured
    DemandIsCurrent
    
    EnergyOfOneRound
