SPECIFICATION Spec
CONSTANTS
    Families <- OneFamily
    Runs = {1, 2, 3}
    FamilyOf <- AllXray
    AssetNames <- XrayAssets
    Epoch = 10
    MaxRevision = 100
    PollLimit = 2
    ListLag = FALSE
    AllowYank = TRUE
    MaxSrc = 1
    MaxUp = 2
    MaxReruns = 1
PROPERTY NoDowngrade
CHECK_DEADLOCK FALSE
