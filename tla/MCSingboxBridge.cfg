SPECIFICATION FairSpec
CONSTANTS
    c1 = c1
    c2 = c2
    c3 = c3
    NoCaller = NoCaller
    Callers = {c1, c2, c3}
    a1 = a1
    a2 = a2
    Nil = Nil
    Attempts = {a1, a2}
INVARIANTS TypeOK AtMostOneOpen NothingLeaks RunningIsUp
PROPERTIES ImplementsCore EveryCallReturns
