SPECIFICATION Spec
CONSTANTS
    Files = {"main.go", "pin"}
    Pins = {"pin"}
    Stray = "go.sum"
    Values = {1, 2}
    Absent = Absent
    Tree <- CommitTree
    Frozen <- FrozenPins
    MaxChanges = 3
    MaxWrites = 2
INVARIANTS TypeOK ArchiveIsTheCommit CopyIsOneInstant
CHECK_DEADLOCK FALSE
