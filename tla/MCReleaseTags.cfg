SPECIFICATION Spec
CONSTANTS
    Families <- OneFamily
    Runs = {1, 2, 3}
    FamilyOf <- AllXray
    AssetNames <- XrayAssets
    Epoch = 10
    MaxRevision = 100
    PollLimit = 2
    ListLag = FALSE
    AllowYank = FALSE
    MaxSrc = 1
    MaxUp = 1
    MaxReruns = 3
INVARIANT RunsChooseDistinctTags
CHECK_DEADLOCK FALSE
