SPECIFICATION FairSpec
CONSTANTS
    Families <- OneFamily
    Runs = {1, 2}
    FamilyOf <- AllXray
    AssetNames <- XrayAssets
    Epoch = 10
    MaxRevision = 100
    PollLimit = 2
    ListLag = TRUE
    AllowYank = FALSE
    MaxSrc = 1
    MaxUp = 2
    MaxReruns = 1
INVARIANT OnePublicPerTag
PROPERTIES NoDowngrade LaterRunsTagIsFree EveryRunEnds
CHECK_DEADLOCK FALSE
