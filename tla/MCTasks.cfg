SPECIFICATION MCSpec
CONSTANTS
    Callers = {c1, c2}
    Workers = {w1, w2, w3}
    NoCaller = NoCaller
    ExitKinds = {"flag"}
    MaxTasks = 3
    Closes = 1
    Owner = c1
INVARIANTS
    JoinOnClose
    NoResidualPermit
    SelfJoinHasWorker
    Conservation
PROPERTIES
    CloseReturns
    ImplementsTaskQueue
    TaskRuns
CHECK_DEADLOCK FALSE
