SPECIFICATION Spec
CONSTANTS
    WorkServers = {ws1, ws2}
    First = ws1
    Conns = {c1, c2, c3}
    NoConn = NoConn
    MaxMsgs = 0
    OutCap = 0
    SndCap = 1
    MaxClient = 2
    Env = {"close", "silent", "add", "wait", "signal"}
SYMMETRY ConnSymmetry
INVARIANTS
    CountAccurate
    OneOwner
PROPERTIES
    ImplementsAdmission
CHECK_DEADLOCK FALSE
