CONSTANTS
    Storages = {"ufs", "emmc"}
    OK <- BsgOK
    ERROR <- BsgERROR
    Configs <- PartConfigs
    SlotArgs = {0, 1, 2}
SPECIFICATION Spec
INVARIANT ResultReflectsDevice
