SPECIFICATION ThreadSpec
CONSTANTS
    Callers = {c1}
    Workers = {w1, w2}
    NoCaller = NoCaller
    ExitKinds = {"self"}
PROPERTIES
    CloseReturns
CHECK_DEADLOCK FALSE
