-------------------------------- MODULE MCTasks --------------------------------
(***************************************************************************)
(* The uses of CRCThread, one per behaviour:                               *)
(*   "thread"  a thread that stops on the flag, with callers that start    *)
(*             and close it several times;                                 *)
(*   "tasks"   the task server, started once and closed once, by its       *)
(*             owner;                                                      *)
(*   "self"    a second thread object, whose callback may end itself with  *)
(*             ExitInSelfThread() as the loops of the work servers do.     *)
(***************************************************************************)
EXTENDS CRCTaskServer

CONSTANT Owner

VARIABLES part, isRun2, mutex2, waitCount2, wakeupCount2, sleeping2, notified2, cpc2,
          wpc2, cleared2

SelfThread == INSTANCE CRCThread WITH
    ExitKinds <- {"flag", "self"}, isRun <- isRun2, mutex <- mutex2,
    waitCount <- waitCount2, wakeupCount <- wakeupCount2, sleeping <- sleeping2,
    notified <- notified2, cpc <- cpc2, wpc <- wpc2, cleared <- cleared2

selfVars == <<isRun2, mutex2, waitCount2, wakeupCount2, sleeping2, notified2, cpc2,
              wpc2, cleared2>>
allVars == <<part, vars, selfVars>>

MCInit == part \in {"thread", "tasks", "self"} /\ TaskServerInit /\ SelfThread!ThreadInit

ThreadPart == part = "thread" /\ ThreadNext /\ UNCHANGED <<part, taskVars, selfVars>>

TasksPart ==
    /\ part = "tasks"
    /\ TaskServerNext
    /\ \A c \in Callers \ {Owner} : cpc'[c] = "idle" /\ opc'[c] = "idle"
    /\ opc[Owner] # "idle" => \A w \in Workers : wpc[w] = "new" => wpc'[w] = "new"
    /\ UNCHANGED <<part, selfVars>>

SelfPart == part = "self" /\ SelfThread!ThreadNext /\ UNCHANGED <<part, vars>>

MCNext == ThreadPart \/ TasksPart \/ SelfPart

(* ThreadFairness and TaskServerFairness, each for its part. *)
MCFairness ==
    /\ \A c \in Callers :
         /\ WF_vars(part = "thread" /\ (CloseLock(c) \/ CloseStale(c)) /\ UNCHANGED taskVars)
         /\ WF_vars(part = "thread" /\ (CloseWait(c) \/ CloseResume(c) \/ CloseReturn(c))
                      /\ UNCHANGED taskVars)
         /\ WF_vars(part = "tasks"
                      /\ (CloseStep(c) \/ CloseThreadDone(c) \/ DrainTask(c) \/ DrainEnd(c)))
    /\ \A w \in Workers :
         /\ WF_vars(part = "thread" /\ UNCHANGED taskVars
                      /\ (OnRun(w) \/ BodyFlag(w) \/ OnDestory(w) \/ OnWorkEnd(w)))
         /\ WF_vars(part = "tasks" /\ (OnWorkStep(w) \/ LoopStep(w)))

MCSpec == MCInit /\ [][MCNext]_allVars /\ MCFairness

-----------------------------------------------------------------------------

(* JoinHasWorker of the second object: a Close() that waits has a thread   *)
(* to wait for, although that thread may end itself at any moment.         *)
SelfJoinHasWorker == SelfThread!JoinHasWorker
=============================================================================
