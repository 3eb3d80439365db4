-------------------------------- MODULE MCIOCP --------------------------------
(* CRCWorkIOCPServer with a client that sends two requests and one that is  *)
(* silent. *)
EXTENDS CRCWorkIOCPServer

CONSTANTS talker, silent

MCClients == {talker, silent}
MCRequests == [c \in MCClients |-> IF c = talker THEN 2 ELSE 0]
=============================================================================
