CONSTANTS
    Storages = {"emmc", "ufs"}
    Platforms = {"mt6739", "mt6768"}
    HeaderKinds = {"EMMC", "UFS", "COMB", "junk"}
    Images <- PlImages
    TargetType = 18
    LinkInits = {"none"}
SPECIFICATION Spec
PROPERTY Terminates
CHECK_DEADLOCK FALSE
