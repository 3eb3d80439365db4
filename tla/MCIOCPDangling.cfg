SPECIFICATION Spec
CONSTANTS
  talker = talker
  silent = silent
  Clients <- MCClients
  Requests <- MCRequests
  MaxClient = 1
  Size = 2
  RecvSize = 3
  SendSize = 2
PROPERTIES
  LastCompletionDeletes
CHECK_DEADLOCK FALSE
