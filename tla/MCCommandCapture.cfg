SPECIFICATION FairSpec
CONSTANTS
    Copies = {"api", "inputs", "bundle"}
    Descendants = {d1}
    MaxOut = 1
    MaxInterrupts = 2
    d1 = d1
INVARIANTS TypeOK NothingSurvives AcceptedIsSound
PROPERTIES NoForeignSignal EveryCaptureReturns
CHECK_DEADLOCK FALSE
