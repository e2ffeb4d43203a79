CONSTANTS
    Modes = {FALSE, TRUE}
    OpenResults = {TRUE, FALSE}
    Labels <- CpuOnly
    Messages <- BothSources
    Garbage = Garbage
    MaxMsgs = 3
    NaN = NaN
    Readings <- CpuReadings
SPECIFICATION Spec
INVARIANT TypeOK
INVARIANT ClassifyCorrect
PROPERTY NotifyDelivered
