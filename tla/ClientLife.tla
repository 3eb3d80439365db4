----------------------------- MODULE ClientLife -----------------------------
(***************************************************************************)
(* The life of the load client (src/EasyTcpClient/client.cpp): each sending*)
(* thread creates and connects its clients, waits for the others at a      *)
(* barrier, starts a detached receiving thread and sends until "exit";     *)
(* then it closes and deletes its clients.  The receiving thread uses the  *)
(* same clients without a lock.  main waits for the clients to be counted. *)
(*                                                                         *)
(* One client stands for those of a thread.  A use of a channel or client  *)
(* that is gone is undefined: the process stops there.                     *)
(***************************************************************************)
EXTENDS Naturals, FiniteSets

CONSTANT Senders  \* the sending threads

VARIABLES
    gRun,        \* g_run
    readyCount,
    exitCount,
    sendAt,      \* where each sending thread is
    recvAt,      \* where the receiving thread it started is
    clientIs,    \* "none", "made", "connected", "closed", "deleted"
    clientMain,  \* where main is
    misused      \* a client or a channel was used after its end

lifeVars == <<gRun, readyCount, exitCount, sendAt, recvAt, clientIs, clientMain, misused>>

LifeInit ==
    /\ gRun = TRUE /\ readyCount = 0 /\ exitCount = 1
    /\ sendAt = [s \in Senders |-> "create"]
    /\ recvAt = [s \in Senders |-> "none"]
    /\ clientIs = [s \in Senders |-> "none"]
    /\ clientMain = "running" /\ misused = FALSE

SendGoto(s, there) == sendAt' = [sendAt EXCEPT ![s] = there]
RecvGoto(s, there) == recvAt' = [recvAt EXCEPT ![s] = there]
ClientBecomes(s, state) == clientIs' = [clientIs EXCEPT ![s] = state]

-----------------------------------------------------------------------------
(* The command thread and main. *)

TypeExit ==
    /\ gRun /\ gRun' = FALSE
    /\ UNCHANGED <<readyCount, exitCount, sendAt, recvAt, clientIs, clientMain, misused>>

MainLoop ==
    /\ clientMain = "running" /\ ~gRun
    /\ clientMain' = "waiting"
    /\ UNCHANGED <<gRun, readyCount, exitCount, sendAt, recvAt, clientIs, misused>>

MainEnd ==
    /\ clientMain = "waiting" /\ exitCount >= Cardinality(Senders)
    /\ clientMain' = "ended"
    /\ UNCHANGED <<gRun, readyCount, exitCount, sendAt, recvAt, clientIs, misused>>

-----------------------------------------------------------------------------
(* A sending thread. *)

(* Each loop starts with if (!g_run) return. *)
CreateClient(s) ==
    /\ sendAt[s] = "create"
    /\ IF gRun
       THEN SendGoto(s, "connect") /\ ClientBecomes(s, "made")
       ELSE SendGoto(s, "returned") /\ UNCHANGED clientIs
    /\ UNCHANGED <<gRun, readyCount, exitCount, recvAt, clientMain, misused>>

(* connect() succeeds or not; the thread does not ask. *)
ConnectClient(s) ==
    /\ sendAt[s] = "connect"
    /\ IF gRun
       THEN SendGoto(s, "ready") /\ \E state \in {"made", "connected"} : ClientBecomes(s, state)
       ELSE SendGoto(s, "returned") /\ UNCHANGED clientIs
    /\ UNCHANGED <<gRun, readyCount, exitCount, recvAt, clientMain, misused>>

CountReady(s) ==
    /\ sendAt[s] = "ready"
    /\ readyCount' = readyCount + 1
    /\ SendGoto(s, "barrier")
    /\ UNCHANGED <<gRun, exitCount, recvAt, clientIs, clientMain, misused>>

(* Mutant: the thread waits for one more than there are. *)
MutBarrierOpen == readyCount > Cardinality(Senders)

BarrierOpen == readyCount >= Cardinality(Senders)

StartRecv(s) ==
    /\ sendAt[s] = "barrier" /\ BarrierOpen
    /\ RecvGoto(s, "loop")
    /\ SendGoto(s, "loop")
    /\ UNCHANGED <<gRun, readyCount, exitCount, clientIs, clientMain, misused>>

(* IsRunning(): a pass over a client that is not connected does nothing. *)
SendTest(s) ==
    /\ sendAt[s] = "loop"
    /\ SendGoto(s, IF ~gRun THEN "close" ELSE IF clientIs[s] = "connected" THEN "send" ELSE "loop")
    /\ UNCHANGED <<gRun, readyCount, exitCount, recvAt, clientIs, clientMain, misused>>

(* SendData() goes on with _pChannel. *)
Send(s) ==
    /\ sendAt[s] = "send"
    /\ misused' = (misused \/ clientIs[s] # "connected")
    /\ SendGoto(s, "loop")
    /\ UNCHANGED <<gRun, readyCount, exitCount, recvAt, clientIs, clientMain>>

(* Close() deletes the channel, if there is one, unless the receiving      *)
(* thread has; then the client is deleted. *)
CloseClient(s) ==
    /\ sendAt[s] = "close"
    /\ ClientBecomes(s, "closed")
    /\ SendGoto(s, "delete")
    /\ UNCHANGED <<gRun, readyCount, exitCount, recvAt, clientMain, misused>>

DeleteClient(s) ==
    /\ sendAt[s] = "delete"
    /\ ClientBecomes(s, "deleted")
    /\ exitCount' = exitCount + 1
    /\ SendGoto(s, "done")
    /\ UNCHANGED <<gRun, readyCount, recvAt, clientMain, misused>>

-----------------------------------------------------------------------------
(* The receiving thread it started: OnRun() of the client. *)

RecvTest(s) ==
    /\ recvAt[s] = "loop"
    /\ RecvGoto(s, IF ~gRun THEN "done" ELSE "call")
    /\ UNCHANGED <<gRun, readyCount, exitCount, sendAt, clientIs, clientMain, misused>>

RecvCall(s) ==
    /\ recvAt[s] = "call"
    /\ RecvGoto(s, IF clientIs[s] = "connected" THEN "use" ELSE "loop")
    /\ misused' = (misused \/ clientIs[s] = "deleted")
    /\ UNCHANGED <<gRun, readyCount, exitCount, sendAt, clientIs, clientMain>>

(* select(), receiving, handling and sending, each through _pChannel. *)
RecvUse(s) ==
    /\ recvAt[s] = "use"
    /\ misused' = (misused \/ clientIs[s] # "connected")
    /\ RecvGoto(s, "loop")
    /\ UNCHANGED <<gRun, readyCount, exitCount, sendAt, clientIs, clientMain>>

(* An error or the end of the stream: Close(). *)
RecvClose(s) ==
    /\ recvAt[s] = "use" /\ clientIs[s] = "connected"
    /\ ClientBecomes(s, "closed")
    /\ RecvGoto(s, "loop")
    /\ UNCHANGED <<gRun, readyCount, exitCount, sendAt, clientMain, misused>>

-----------------------------------------------------------------------------

SendStep(s) ==
    \/ CreateClient(s) \/ ConnectClient(s) \/ CountReady(s) \/ StartRecv(s)
    \/ SendTest(s) \/ Send(s) \/ CloseClient(s) \/ DeleteClient(s)

RecvStep(s) == RecvTest(s) \/ RecvCall(s) \/ RecvUse(s)

ProcessUp == ~misused /\ clientMain # "ended"

LifeNext ==
    /\ ProcessUp
    /\ \/ TypeExit \/ MainLoop \/ MainEnd
       \/ \E s \in Senders : SendStep(s) \/ RecvStep(s) \/ RecvClose(s)

LifeFairness ==
    /\ WF_lifeVars(ProcessUp /\ (MainLoop \/ MainEnd))
    /\ \A s \in Senders : WF_lifeVars(ProcessUp /\ SendStep(s)) /\ WF_lifeVars(ProcessUp /\ RecvStep(s))

LifeSpec == LifeInit /\ [][LifeNext]_lifeVars /\ LifeFairness

-----------------------------------------------------------------------------

(* After "exit" main returns, however the threads interleave; unless a     *)
(* thread returned before the barrier, where the others and main then wait *)
(* for ever, or a client was used after its end. *)
ExitEnds ==
    ~gRun ~> \/ clientMain = "ended"
            \/ misused
            \/ \E s \in Senders : sendAt[s] = "returned"
=============================================================================
