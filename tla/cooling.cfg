CONSTANTS
    CData <- Table
    Trees <- DeviceTrees
    InitTree <- Boot
    States = {0, 1}
SPECIFICATION Spec
INVARIANT TypeOK
PROPERTY ReportedDevicesMatch
PROPERTY ProbeRevalidates
