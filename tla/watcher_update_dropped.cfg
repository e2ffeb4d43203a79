CONSTANTS
    Modes = {FALSE}
    OpenResults = {TRUE}
    Labels <- CpuOnly
    Messages <- SocketOnly
    Garbage = Garbage
    MaxMsgs = 3
SPECIFICATION Spec
PROPERTY UpdateApplied
