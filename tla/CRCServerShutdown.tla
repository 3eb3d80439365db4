------------------------- MODULE CRCServerShutdown -------------------------
(***************************************************************************)
(* The life of the server application (src/EasyTcpServer/server.cpp): main *)
(* starts the boss and its work servers, and on "exit" closes them while   *)
(* the boss thread may be dealing a connection out and the work threads    *)
(* run.  A work server is destroyed by whoever drops the last shared_ptr   *)
(* to it, main or the boss thread.                                         *)
(*                                                                         *)
(* CRCThread is reduced to its flag and its two waits: Close() waits for   *)
(* the thread with the mutex held, ExitInSelfThread() waits for the mutex. *)
(***************************************************************************)
EXTENDS Naturals, FiniteSets

CONSTANT Servers  \* the work servers

VARIABLES
    mainAt,    \* where main is
    bound,     \* Bind() and Listen() succeeded
    bossAt,    \* where the boss thread is
    bossRun,   \* _isRun of its CRCThread
    refs,      \* of each work server: who holds a shared_ptr
    workAt,    \* where the thread of each work server is
    workRun,   \* _isRun of its CRCThread
    object,    \* "none", "alive", "joining" (its destructor waits), "freed"
    selfEnded  \* history: work threads that called ExitInSelfThread()

mainVars == <<mainAt, bound>>
bossVars == <<bossAt, bossRun>>
workVars == <<refs, workAt, workRun, object, selfEnded>>
shutdownVars == <<mainAt, bound, bossAt, bossRun, refs, workAt, workRun, object, selfEnded>>

ShutdownInit ==
    /\ mainAt = "init" /\ bound = FALSE
    /\ bossAt = "none" /\ bossRun = FALSE
    /\ refs = [w \in Servers |-> {}]
    /\ workAt = [w \in Servers |-> "none"]
    /\ workRun = [w \in Servers |-> FALSE]
    /\ object = [w \in Servers |-> "none"]
    /\ selfEnded = {}

-----------------------------------------------------------------------------
(* main *)

(* InitSocket(), Bind(), Listen(): a failure closes the socket, and main   *)
(* goes on. *)
OpenSocket ==
    /\ mainAt = "init"
    /\ bound' \in BOOLEAN
    /\ mainAt' = "start"
    /\ UNCHANGED <<bossVars, workVars>>

StartAll ==
    /\ mainAt = "start"
    /\ refs' = [w \in Servers |-> {"main"}]
    /\ workAt' = [w \in Servers |-> "begin"]
    /\ workRun' = [w \in Servers |-> TRUE]
    /\ object' = [w \in Servers |-> "alive"]
    /\ bossAt' = "begin" /\ bossRun' = TRUE
    /\ mainAt' = "serving"
    /\ UNCHANGED <<bound, selfEnded>>

(* "exit": Close() closes the socket, unless there is none: then it        *)
(* returns at once. *)
CloseSocket ==
    /\ mainAt = "serving"
    /\ mainAt' = IF bound THEN "clearing" ELSE "closed"
    /\ UNCHANGED <<bound, bossVars, workVars>>

(* Mutant: the destructor does not wait for the thread. *)
MutJoins(w) == FALSE

Joins(w) == bound /\ workRun[w]

(* The destructor of a work server.  Its Close() returns at once if the    *)
(* server was started without a socket; otherwise it stops its task server *)
(* and, if the thread's flag is still set, clears it and waits. *)
DropLast(w) ==
    /\ object' = [object EXCEPT ![w] = IF Joins(w) THEN "joining" ELSE "freed"]
    /\ workRun' = [workRun EXCEPT ![w] = @ /\ ~bound]

(* A holder drops its shared_ptr. *)
Drop(who, w) ==
    /\ who \in refs[w]
    /\ refs' = [refs EXCEPT ![w] = @ \ {who}]
    /\ IF refs[w] = {who} THEN DropLast(w) ELSE UNCHANGED <<object, workRun>>

(* The wait in a destructor is over. *)
Joined(w) ==
    /\ object[w] = "joining" /\ workAt[w] = "done"
    /\ object' = [object EXCEPT ![w] = "freed"]
    /\ UNCHANGED <<mainVars, bossVars, refs, workAt, workRun, selfEnded>>

(* _workServers.clear(): one after the other; main waits while it destroys *)
(* one, the boss while it does. *)
ClearServer(w) ==
    /\ mainAt = "clearing"
    /\ \A v \in Servers : object[v] = "joining" => bossAt = "destroying"
    /\ Drop("main", w)
    /\ UNCHANGED <<mainVars, bossVars, workAt, selfEnded>>

(* if (_crcThread.IsRun()) _crcThread.Close() *)
CloseBoss ==
    /\ mainAt = "clearing"
    /\ \A w \in Servers : "main" \notin refs[w]
    /\ \A w \in Servers : object[w] = "joining" => bossAt = "destroying"
    /\ mainAt' = IF bossRun THEN "joining" ELSE "closed"
    /\ bossRun' = FALSE
    /\ UNCHANGED <<bound, bossAt, workVars>>

BossJoined ==
    /\ mainAt = "joining" /\ bossAt = "done"
    /\ mainAt' = "closed"
    /\ UNCHANGED <<bound, bossVars, workVars>>

(* The end of main: the destructor finds the socket closed, and what is    *)
(* left of _workServers goes with it. *)
DestroyServer(w) ==
    /\ mainAt = "closed"
    /\ Drop("main", w)
    /\ UNCHANGED <<mainVars, bossVars, workAt, selfEnded>>

-----------------------------------------------------------------------------
(* The boss thread: OnWork() of its CRCThread and OnRun(). *)

(* Mutant: Close() leaves _sock as it is. *)
MutIsRunning == bound

IsRunning == bound /\ mainAt = "serving"

BossBegin ==
    /\ bossAt = "begin"
    /\ bossAt' = IF bossRun THEN "loop" ELSE "ending"
    /\ UNCHANGED <<mainVars, bossRun, workVars>>

(* A connection is accepted, or the wait failed, or the socket is closed. *)
BossAccept ==
    /\ bossAt = "loop" /\ IsRunning
    /\ bossAt' = "scan"
    /\ UNCHANGED <<mainVars, bossRun, workVars>>

BossFails ==
    /\ bossAt = "loop" /\ IsRunning
    /\ bossAt' = "exit"
    /\ UNCHANGED <<mainVars, bossRun, workVars>>

BossLeave ==
    /\ bossAt = "loop" /\ ~IsRunning
    /\ bossAt' = "exit"
    /\ UNCHANGED <<mainVars, bossRun, workVars>>

(* addClient2WorkServer() copies a shared_ptr of the vector.  If main has  *)
(* begun to clear it, what happens is undefined: the thread stops here. *)
BossScan(w) ==
    /\ bossAt = "scan"
    /\ IF mainAt = "serving"
       THEN bossAt' = "holds" /\ refs' = [refs EXCEPT ![w] = @ \cup {"boss"}]
       ELSE bossAt' = "undefined" /\ UNCHANGED refs
    /\ UNCHANGED <<mainVars, bossRun, workAt, workRun, object, selfEnded>>

(* addClient(), OnJoin(), and the local shared_ptr ends. *)
BossDeal(w) ==
    /\ bossAt = "holds"
    /\ Drop("boss", w)
    /\ bossAt' = IF refs[w] = {"boss"} THEN "destroying" ELSE "loop"
    /\ UNCHANGED <<mainVars, bossRun, workAt, selfEnded>>

BossDestroyed ==
    /\ bossAt = "destroying"
    /\ \A w \in Servers : object[w] # "joining"
    /\ bossAt' = "loop"
    /\ UNCHANGED <<mainVars, bossRun, workVars>>

(* ExitInSelfThread() needs the mutex that Close() holds while it waits. *)
BossExit ==
    /\ bossAt = "exit" /\ mainAt # "joining"
    /\ bossRun' = FALSE
    /\ bossAt' = "ending"
    /\ UNCHANGED <<mainVars, workVars>>

BossEnd ==
    /\ bossAt = "ending"
    /\ bossAt' = "done"
    /\ UNCHANGED <<mainVars, bossRun, workVars>>

-----------------------------------------------------------------------------
(* The thread of a work server. *)

WorkGoto(w, there) == workAt' = [workAt EXCEPT ![w] = there]

WorkLoop(w) ==
    /\ \/ /\ workAt[w] \in {"begin", "loop"}
          /\ WorkGoto(w, IF workRun[w] THEN "loop" ELSE "ending")
       \/ workAt[w] = "ending" /\ WorkGoto(w, "done")
    /\ UNCHANGED <<mainVars, bossVars, refs, workRun, object, selfEnded>>

(* DoAction() fails. *)
WorkBreak(w) ==
    /\ workAt[w] = "loop"
    /\ WorkGoto(w, "exit")
    /\ UNCHANGED <<mainVars, bossVars, refs, workRun, object, selfEnded>>

WorkExit(w) ==
    /\ workAt[w] = "exit" /\ object[w] # "joining"
    /\ workRun' = [workRun EXCEPT ![w] = FALSE]
    /\ selfEnded' = selfEnded \cup {w}
    /\ WorkGoto(w, "ending")
    /\ UNCHANGED <<mainVars, bossVars, refs, object>>

-----------------------------------------------------------------------------

MainStep ==
    \/ OpenSocket \/ StartAll \/ CloseSocket \/ CloseBoss \/ BossJoined
    \/ \E w \in Servers : ClearServer(w) \/ DestroyServer(w)

BossStep ==
    \/ BossBegin \/ BossDestroyed \/ BossExit \/ BossEnd \/ BossLeave
    \/ \E w \in Servers : BossScan(w) \/ BossDeal(w)

WorkStep(w) == WorkLoop(w) \/ WorkExit(w) \/ Joined(w)

ShutdownNext ==
    \/ MainStep \/ BossStep \/ BossAccept \/ BossFails
    \/ \E w \in Servers : WorkStep(w) \/ WorkBreak(w)

ShutdownSpec ==
    /\ ShutdownInit /\ [][ShutdownNext]_shutdownVars
    /\ WF_shutdownVars(MainStep) /\ WF_shutdownVars(BossStep)
    /\ \A w \in Servers : WF_shutdownVars(WorkStep(w))

-----------------------------------------------------------------------------

(* A work server that had a socket is destroyed only when its thread has   *)
(* ended or, for a thread that ended itself, is past its loop: such a      *)
(* thread cleared the flag first (crc_thread.hpp:73), so the destructor    *)
(* does not wait for it and it may still be about to signal.               *)
WorkJoined ==
    \A w \in Servers :
      bound /\ object[w] = "freed" =>
        workAt[w] = "done" \/ (w \in selfEnded /\ workAt[w] = "ending")

(* The two sides of CRCThread wait for each other: the closer for the      *)
(* thread, the thread for the mutex. *)
Stuck ==
    \/ mainAt = "joining" /\ bossAt = "exit"
    \/ \E w \in Servers : object[w] = "joining" /\ workAt[w] = "exit"

(* Close() returns, except through that mutual wait or after the boss used *)
(* the vector while it was cleared. *)
CloseEnds == mainAt = "clearing" ~> mainAt = "closed" \/ Stuck \/ bossAt = "undefined"
=============================================================================
