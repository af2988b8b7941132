SPECIFICATION Spec
CONSTANTS
    Artifacts <- SourceAndCore
    Cores = {"core.so"}
    Snapshot <- OneSnapshotFile
    Stray = "stray"
    old = old
    new = new
    Values = {old, new}
    Original <- Old
    Absent = Absent
    MaxChanges = 2
INVARIANTS TypeOK PublicIsTheCandidate
PROPERTY ReadsAreWhole
CHECK_DEADLOCK FALSE
