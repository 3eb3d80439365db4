SPECIFICATION MCSpec
CONSTANTS
    WorkServers = {ws1}
    First = ws1
    Conns = {c1, c2}
    NoConn = NoConn
    MaxMsgs = 4
    OutCap = 2
    SndCap = 1
    MaxClient = 2
    Env = {"close", "silent", "add"}
    Talker = c1
INVARIANTS
    NoStaleEvent
PROPERTIES
    MessagesRead
    RepliesSent
    DeadPeersReaped
    SilentRemoved
CHECK_DEADLOCK FALSE
