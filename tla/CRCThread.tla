----------------------------- MODULE CRCThread -----------------------------
(***************************************************************************)
(* CRCThread (src/common/include/crc_thread.hpp): an object that spawns    *)
(* one detached thread, is asked to stop by a flag, and joins its thread   *)
(* through a CRCSemaphore.                                                 *)
(*                                                                         *)
(* Start() and ExitInSelfThread() hold _mutex from start to end, so each   *)
(* is one action.  Close() holds it too, but sleeps inside: it is          *)
(* CloseLock, CloseWait and CloseReturn, and mutex stays with the caller   *)
(* from the first to the last.                                             *)
(*                                                                         *)
(*   isRun    _isRun                                                       *)
(*   mutex    the caller that owns _mutex, or NoCaller                     *)
(*   cpc      where each caller is in Close()                              *)
(*   wpc      where each spawned thread is in OnWork()                     *)
(*   cleared  spawned threads that ran the onDestory callback              *)
(* and the four variables of the semaphore _sem.                           *)
(***************************************************************************)
EXTENDS Integers, FiniteSets

CONSTANTS
    Callers,     \* threads that start and close the object
    Workers,     \* the threads Start() may spawn, one per call: the bound
    NoCaller,    \* owner of a free mutex
    ExitKinds    \* how the onRun callback ends: "flag" when it reads _isRun
                 \* false, "self" when it gives up and calls ExitInSelfThread

ASSUME ThreadAssumption ==
    /\ NoCaller \notin Callers
    /\ ExitKinds \subseteq {"flag", "self"}

VARIABLES isRun, mutex, waitCount, wakeupCount, sleeping, notified, cpc, wpc,
          cleared

semVars == <<waitCount, wakeupCount, sleeping, notified>>
threadVars == <<isRun, mutex, waitCount, wakeupCount, sleeping, notified, cpc,
                wpc, cleared>>

Sem == INSTANCE CRCSemaphore WITH Threads <- Callers, MaxPermits <- 0

ThreadInit ==
    /\ isRun = FALSE
    /\ mutex = NoCaller
    /\ Sem!SemInit
    /\ cpc = [c \in Callers |-> "idle"]
    /\ wpc = [w \in Workers |-> "new"]
    /\ cleared = {}

(* Threads inside OnWork(). *)
Active == {w \in Workers : wpc[w] \in {"onRun", "body", "self", "onDestory", "wakeup"}}

-----------------------------------------------------------------------------

(* Start(), lines 41-57; the call that finds _isRun set does nothing. *)
Start(c, w) ==
    /\ cpc[c] = "idle"
    /\ mutex = NoCaller
    /\ ~isRun
    /\ wpc[w] = "new"
    /\ isRun' = TRUE
    /\ wpc' = [wpc EXCEPT ![w] = "onRun"]
    /\ UNCHANGED <<mutex, semVars, cpc, cleared>>

(* if (_crcThread.IsRun()) _crcThread.Close(): every owner reads the flag, *)
(* without the lock, before it calls Close().                              *)
CloseCall(c) ==
    /\ cpc[c] = "idle"
    /\ isRun
    /\ cpc' = [cpc EXCEPT ![c] = "close"]
    /\ UNCHANGED <<isRun, mutex, semVars, wpc, cleared>>

(* Mutants: Close() releases _mutex before it waits; it does not test      *)
(* _isRun again under the lock.                                            *)
MutCloseUnlocked(c) ==
    /\ cpc[c] = "close"
    /\ mutex = NoCaller
    /\ isRun
    /\ isRun' = FALSE
    /\ cpc' = [cpc EXCEPT ![c] = "wait"]
    /\ UNCHANGED <<mutex, semVars, wpc, cleared>>

MutCloseUntested(c) ==
    /\ cpc[c] = "close"
    /\ mutex = NoCaller
    /\ isRun' = FALSE
    /\ mutex' = c
    /\ cpc' = [cpc EXCEPT ![c] = "wait"]
    /\ UNCHANGED <<semVars, wpc, cleared>>

(* Close(), lines 60-68: _mutex is free and the flag is still set. *)
CloseLock(c) ==
    /\ cpc[c] = "close"
    /\ mutex = NoCaller
    /\ isRun
    /\ isRun' = FALSE
    /\ mutex' = c
    /\ cpc' = [cpc EXCEPT ![c] = "wait"]
    /\ UNCHANGED <<semVars, wpc, cleared>>

(* The flag was cleared between IsRun() and the lock: nothing to do. *)
CloseStale(c) ==
    /\ cpc[c] = "close"
    /\ mutex = NoCaller
    /\ ~isRun
    /\ cpc' = [cpc EXCEPT ![c] = "idle"]
    /\ UNCHANGED <<isRun, mutex, semVars, wpc, cleared>>

(* Mutant: Close() does not wait for the thread. *)
MutCloseWait(c) ==
    /\ cpc[c] = "wait"
    /\ cpc' = [cpc EXCEPT ![c] = "joining"]
    /\ UNCHANGED <<isRun, mutex, semVars, wpc, cleared>>

(* _sem.wait(), still holding _mutex. *)
CloseWait(c) ==
    /\ cpc[c] = "wait"
    /\ Sem!Wait(c)
    /\ cpc' = [cpc EXCEPT ![c] = "joining"]
    /\ UNCHANGED <<isRun, mutex, wpc, cleared>>

CloseResume(c) ==
    /\ Sem!Resume(c)
    /\ UNCHANGED <<isRun, mutex, cpc, wpc, cleared>>

CloseSpuriousWake(c) ==
    /\ Sem!SpuriousWake(c)
    /\ UNCHANGED <<isRun, mutex, cpc, wpc, cleared>>

CloseReturn(c) ==
    /\ cpc[c] = "joining"
    /\ c \notin Sem!Pending
    /\ mutex' = NoCaller
    /\ cpc' = [cpc EXCEPT ![c] = "idle"]
    /\ UNCHANGED <<isRun, semVars, wpc, cleared>>

-----------------------------------------------------------------------------

(* OnWork(), lines 96-103.  The onCreate callback is null in every use.    *)

(* if (_onRun && _isRun) _onRun(this) *)
OnRun(w) ==
    /\ wpc[w] = "onRun"
    /\ wpc' = [wpc EXCEPT ![w] = IF isRun THEN "body" ELSE "onDestory"]
    /\ UNCHANGED <<isRun, mutex, semVars, cpc, cleared>>

(* The callback's loop reads IsRun() false, without the lock. *)
BodyFlag(w) ==
    /\ wpc[w] = "body"
    /\ "flag" \in ExitKinds
    /\ ~isRun
    /\ wpc' = [wpc EXCEPT ![w] = "onDestory"]
    /\ UNCHANGED <<isRun, mutex, semVars, cpc, cleared>>

(* The callback breaks out of its loop for a reason of its own. *)
BodyBreak(w) ==
    /\ wpc[w] = "body"
    /\ "self" \in ExitKinds
    /\ wpc' = [wpc EXCEPT ![w] = "self"]
    /\ UNCHANGED <<isRun, mutex, semVars, cpc, cleared>>

(* ExitInSelfThread(), lines 70-74. *)
ExitInSelfThread(w) ==
    /\ wpc[w] = "self"
    /\ mutex = NoCaller
    /\ isRun' = FALSE
    /\ wpc' = [wpc EXCEPT ![w] = "onDestory"]
    /\ UNCHANGED <<mutex, semVars, cpc, cleared>>

(* if (_onDestory && _isRun) _onDestory(this) *)
OnDestory(w) ==
    /\ wpc[w] = "onDestory"
    /\ cleared' = IF isRun THEN cleared \cup {w} ELSE cleared
    /\ wpc' = [wpc EXCEPT ![w] = "wakeup"]
    /\ UNCHANGED <<isRun, mutex, semVars, cpc>>

(* Mutant: the thread ends without wakeup(). *)
MutOnWorkEnd(w) ==
    /\ wpc[w] = "wakeup"
    /\ wpc' = [wpc EXCEPT ![w] = "done"]
    /\ UNCHANGED <<isRun, mutex, semVars, cpc, cleared>>

(* _sem.wakeup() *)
OnWorkEnd(w) ==
    /\ wpc[w] = "wakeup"
    /\ Sem!Wakeup
    /\ wpc' = [wpc EXCEPT ![w] = "done"]
    /\ UNCHANGED <<isRun, mutex, cpc, cleared>>

-----------------------------------------------------------------------------

CallerStep(c) ==
    \/ \E w \in Workers : Start(c, w)
    \/ CloseCall(c) \/ CloseLock(c) \/ CloseStale(c) \/ CloseWait(c)
    \/ CloseResume(c) \/ CloseSpuriousWake(c) \/ CloseReturn(c)

WorkerStep(w) ==
    \/ OnRun(w) \/ BodyFlag(w) \/ BodyBreak(w) \/ ExitInSelfThread(w)
    \/ OnDestory(w) \/ OnWorkEnd(w)

ThreadNext ==
    \/ \E c \in Callers : CallerStep(c)
    \/ \E w \in Workers : WorkerStep(w)

(* A caller inside Close() and a spawned thread are scheduled; nobody is   *)
(* obliged to call Start() or Close(), and a callback is not obliged to    *)
(* give up by itself.                                                      *)
ThreadFairness ==
    /\ \A c \in Callers :
        /\ WF_threadVars(CloseLock(c) \/ CloseStale(c))
        /\ WF_threadVars(CloseWait(c) \/ CloseResume(c) \/ CloseReturn(c))
    /\ \A w \in Workers :
        WF_threadVars(OnRun(w) \/ BodyFlag(w) \/ ExitInSelfThread(w)
                      \/ OnDestory(w) \/ OnWorkEnd(w))

ThreadSpec == ThreadInit /\ [][ThreadNext]_threadVars /\ ThreadFairness

-----------------------------------------------------------------------------

ThreadTypeOK ==
    /\ isRun \in BOOLEAN
    /\ mutex \in Callers \cup {NoCaller}
    /\ Sem!SemTypeOK
    /\ cpc \in [Callers -> {"idle", "close", "wait", "joining"}]
    /\ wpc \in [Workers -> {"new", "onRun", "body", "self", "onDestory",
                            "wakeup", "done"}]
    /\ cleared \subseteq Workers

(* Close() joins: once _isRun is false and no Close() is in progress, no   *)
(* spawned thread is inside OnWork(), so the owner may destroy the object, *)
(* and a new Start() never runs beside an old thread.  Holds for callbacks *)
(* that stop only on the flag (CRCTaskServer, CRCLogServer); a thread that *)
(* ends itself clears the flag first (crc_thread.hpp:73).                  *)
JoinOnClose == (~isRun /\ mutex = NoCaller) => Active = {}

(* The semaphore starts every life of the thread empty: a permit left over *)
(* from an earlier life would let the next Close() return without waiting. *)
NoResidualPermit == (~isRun /\ mutex = NoCaller) => Sem!Permits = 0

(* A caller asleep in Close() with no wake-up on its way has a thread that *)
(* still has to give one: Close() never waits for a thread that is gone.   *)
JoinHasWorker ==
    \A c \in Callers :
        (cpc[c] = "joining" /\ c \in Sem!Pending /\ wakeupCount = 0) => Active # {}

(* Close() returns (crc_thread.hpp:59). *)
CloseReturns == \A c \in Callers : cpc[c] = "close" ~> cpc[c] = "idle"
=============================================================================
