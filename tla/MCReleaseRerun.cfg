SPECIFICATION Spec
CONSTANTS
    Families <- BothFamilies
    Runs = {1, 2}
    FamilyOf <- Alternating
    AssetNames <- ReleaseAssets
    Epoch = 10
    MaxRevision = 100
    PollLimit = 2
    ListLag = FALSE
    AllowYank = FALSE
    MaxSrc = 1
    MaxUp = 2
    MaxReruns = 1
INVARIANT RerunReusesDraft
CHECK_DEADLOCK FALSE
