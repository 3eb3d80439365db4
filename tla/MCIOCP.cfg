SPECIFICATION Spec
CONSTANTS
  talker = talker
  silent = silent
  Clients <- MCClients
  Requests <- MCRequests
  MaxClient = 1
  Size = 2
  RecvSize = 3
  SendSize = 2
INVARIANTS
  InPlace AnswersInOrder CountAccurate OneLeftBehind
PROPERTIES
  GoneLeaves
CHECK_DEADLOCK FALSE
