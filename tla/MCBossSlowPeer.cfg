SPECIFICATION Spec
CONSTANTS
    WorkServers = {ws1}
    First = ws1
    Conns = {c1, c2}
    NoConn = NoConn
    MaxMsgs = 2
    OutCap = 2
    SndCap = 1
    MaxClient = 2
    Env = {}
PROPERTIES
    MessagesRead
CHECK_DEADLOCK FALSE
