SPECIFICATION PartsSpec
CONSTANTS
  Threads = {t1, t2, t3, t4}
  MaxPermits = 3
  Servers = {v1, v2}
  Capacity = 26
  ShortRange = 48
  Schemas <- MCSchemas
  Destinations = {3, 4, 10}
  Senders = {s1, s2}
  WorkServers = {w1}
  Channels = {c1, c2}
  PoolNodes = {n1}
  BlockSize = 3
  RecvRoom = 1
  ReplySize <- MCReplySize
  Heart = "heart"
  DeadTime = 1
  Ticks = {0, 1}
  MaxSaid = 2
  Contexts = {x1, x2}
  Conns = {k1, k2}
  NoConn = NoConn
  MaxChunks = 2
  Visitors = {u1, u2}
  EnoughReads = 2
  MaxTalk = 2
  Sockets = {s1, s2}
  MaxAsked = 1
  Writers = {g1, g2}
  MaxCalls = 2
  Batches = 4
  PerBatch = 1
  Header = 2
  Size = 3
  BufSize = 5
  SockCap = 2
INVARIANTS
  NoLostWakeup WorkJoined RoundTrip CountMatches RepliesIntact HeartSeen NodeOwned EchoExact HeartPerRead
  ServesWhileClients NoMutualBlock LogInOrder
PROPERTIES
  ImplementsSemaphore CloseEnds ExitEnds RequestsRead ImplementsRequestReply Drained
CHECK_DEADLOCK FALSE
