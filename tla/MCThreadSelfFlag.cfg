SPECIFICATION ThreadSpec
CONSTANTS
    Callers = {c1}
    Workers = {w1, w2}
    NoCaller = NoCaller
    ExitKinds = {"flag", "self"}
INVARIANTS
    JoinOnClose
CHECK_DEADLOCK FALSE
