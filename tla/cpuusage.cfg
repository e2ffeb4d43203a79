CONSTANTS
    Labels <- CpuAllLabel
    Possibles <- PossibleFiles
    Stats <- ProcStats
SPECIFICATION Spec
INVARIANT TypeOK
PROPERTY LegacyRefinement
CHECK_DEADLOCK FALSE
