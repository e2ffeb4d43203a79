CONSTANTS
    Labels <- CpuAllLabel
    Possibles <- PossibleFiles
    Stats <- ProcStats
SPECIFICATION Spec
INVARIANT SpecOfflineFill
CHECK_DEADLOCK FALSE
