CONSTANTS
    NodeKeys <- Keys
    Devices <- DeviceTrees
    Effects <- EffectSet
    Timeouts <- TimeoutSet
    MaxCalls = 3
SPECIFICATION Spec
PROPERTY OnVibrates
