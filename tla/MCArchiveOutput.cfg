SPECIFICATION Spec
CONSTANTS
    b1 = b1
    b2 = b2
    b3 = b3
    Previous = Previous
    Stranger = Stranger
    Absent = Absent
    Builders = {b1, b2, b3}
    MaxInterrupts = 2
    MaxCrashes = 1
    MaxTampers = 1
SYMMETRY Symmetry
INVARIANTS TypeOK OutputIsWhole OldIsRecoverable SuccessIsNotUndone NothingIsLeftBehind
CHECK_DEADLOCK FALSE
