CONSTANTS
    Handles <- HandlePool
    Durations <- BoostDurations
SPECIFICATION Spec
INVARIANT TypeOK
INVARIANT NoLeakedHint
PROPERTY LowPowerDrains
