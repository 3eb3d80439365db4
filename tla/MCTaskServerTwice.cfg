SPECIFICATION TaskServerSpec
CONSTANTS
    Callers = {owner}
    Workers = {w1}
    NoCaller = NoCaller
    ExitKinds = {"flag"}
    MaxTasks = 3
    Closes = 2
INVARIANTS
    AtMostOnce
CHECK_DEADLOCK FALSE
