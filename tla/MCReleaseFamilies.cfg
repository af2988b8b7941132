SPECIFICATION Spec
CONSTANTS
    Families <- BothFamilies
    Runs = {1, 2}
    FamilyOf <- Alternating
    AssetNames <- ReleaseAssets
    Epoch = 10
    MaxRevision = 100
    PollLimit = 2
    ListLag = FALSE
    AllowYank = TRUE
    MaxSrc = 2
    MaxUp = 2
    MaxReruns = 1
INVARIANTS TypeOK PublicIsComplete FinalNeverFails
PROPERTY ImplementsChannel
CHECK_DEADLOCK FALSE
