--------------------------- MODULE CRCTaskServer ---------------------------
(***************************************************************************)
(* CRCTaskServer (src/common/include/crc_task_server.hpp), and             *)
(* CRCLogServer, which has the same code: other threads append tasks to    *)
(* _tasksBuf under a lock; the thread of a CRCThread moves them to _tasks  *)
(* and runs them; Close() stops the thread and runs what is left in        *)
(* _tasksBuf on the caller's thread, without the lock.                     *)
(*                                                                         *)
(* The module extends CRCThread: the onRun callback is the loop below.     *)
(* A task is its number in the order of the addTask() calls.               *)
(*                                                                         *)
(*   tasksBuf, tasks   _tasksBuf, _tasks                                   *)
(*   ran               tasks of _tasks already run by the for loop         *)
(*   lpc               where each spawned thread is in OnRun()             *)
(*   opc, pos          where each owner is in Close(), and its position in *)
(*                     _tasksBuf                                           *)
(*   added, executed   history: addTask() calls, tasks run                 *)
(*   closes            history: Close() calls that returned                *)
(***************************************************************************)
EXTENDS CRCThread, Sequences

CONSTANTS
    MaxTasks,   \* bound of the model: addTask() calls
    Closes      \* Close() calls in the life of the object; the last one is
                \* the destructor's

ASSUME TaskServerAssumption ==
    MaxTasks \in Nat /\ Closes \in Nat /\ ExitKinds = {"flag"}

VARIABLES tasksBuf, tasks, ran, lpc, opc, pos, added, executed, closes

loopVars == <<tasks, ran, lpc>>
ownerVars == <<opc, pos, closes>>
taskVars == <<tasksBuf, tasks, ran, lpc, opc, pos, added, executed, closes>>
vars == <<threadVars, taskVars>>

TaskServerInit ==
    /\ ThreadInit
    /\ tasksBuf = <<>>
    /\ tasks = <<>>
    /\ ran = 0
    /\ lpc = [w \in Workers |-> "test"]
    /\ opc = [c \in Callers |-> "idle"]
    /\ pos = [c \in Callers |-> 1]
    /\ added = 0
    /\ executed = <<>>
    /\ closes = 0

Alive == closes < Closes

-----------------------------------------------------------------------------

(* addTask(), lines 32-36. *)
AddTask ==
    /\ Alive
    /\ added < MaxTasks
    /\ added' = added + 1
    /\ tasksBuf' = Append(tasksBuf, added + 1)
    /\ UNCHANGED <<threadVars, loopVars, ownerVars, executed>>

(* Start(), lines 39-47. *)
StartServer(c) ==
    /\ Alive
    /\ opc[c] = "idle"
    /\ \E w \in Workers : Start(c, w)
    /\ UNCHANGED taskVars

(* Close(), line 51: the thread runs, so close it first. *)
CloseServer(c) ==
    /\ Alive
    /\ opc[c] = "idle"
    /\ CloseCall(c)
    /\ opc' = [opc EXCEPT ![c] = "closing"]
    /\ UNCHANGED <<tasksBuf, loopVars, pos, added, executed, closes>>

(* Line 51: the thread does not run. *)
CloseServerIdle(c) ==
    /\ Alive
    /\ opc[c] = "idle"
    /\ ~isRun
    /\ opc' = [opc EXCEPT ![c] = "drain"]
    /\ pos' = [pos EXCEPT ![c] = 1]
    /\ UNCHANGED <<threadVars, tasksBuf, loopVars, added, executed, closes>>

(* _crcThread.Close() has returned. *)
CloseThreadDone(c) ==
    /\ opc[c] = "closing"
    /\ cpc[c] = "idle"
    /\ opc' = [opc EXCEPT ![c] = "drain"]
    /\ pos' = [pos EXCEPT ![c] = 1]
    /\ UNCHANGED <<threadVars, tasksBuf, loopVars, added, executed, closes>>

(* Lines 54-57, one turn: the task at the iterator runs; it stays in       *)
(* _tasksBuf.                                                              *)
DrainTask(c) ==
    /\ opc[c] = "drain"
    /\ pos[c] <= Len(tasksBuf)
    /\ executed' = Append(executed, tasksBuf[pos[c]])
    /\ pos' = [pos EXCEPT ![c] = @ + 1]
    /\ UNCHANGED <<threadVars, tasksBuf, loopVars, opc, added, closes>>

(* Mutant: Close() returns without running what is left. *)
MutDrainEnd(c) ==
    /\ opc[c] = "drain"
    /\ opc' = [opc EXCEPT ![c] = "idle"]
    /\ closes' = closes + 1
    /\ UNCHANGED <<threadVars, tasksBuf, loopVars, pos, added, executed>>

DrainEnd(c) ==
    /\ opc[c] = "drain"
    /\ pos[c] > Len(tasksBuf)
    /\ opc' = [opc EXCEPT ![c] = "idle"]
    /\ closes' = closes + 1
    /\ UNCHANGED <<threadVars, tasksBuf, loopVars, pos, added, executed>>

-----------------------------------------------------------------------------

(* OnRun(), lines 61-97, the callback of the thread.                       *)

InLoop(w, at) == wpc[w] = "body" /\ lpc[w] = at

(* while (threadPtr->IsRun()) *)
LoopTest(w) ==
    /\ InLoop(w, "test")
    /\ isRun
    /\ lpc' = [lpc EXCEPT ![w] = "size"]
    /\ UNCHANGED <<threadVars, tasksBuf, tasks, ran, ownerVars, added, executed>>

LoopExit(w) ==
    /\ lpc[w] = "test"
    /\ BodyFlag(w)
    /\ UNCHANGED taskVars

(* if (_tasksBuf.size() > 0), read without the lock. *)
SizeCheck(w) ==
    /\ InLoop(w, "size")
    /\ lpc' = [lpc EXCEPT ![w] = IF Len(tasksBuf) > 0 THEN "swap" ELSE "run"]
    /\ UNCHANGED <<threadVars, tasksBuf, tasks, ran, ownerVars, added, executed>>

(* Mutant: _tasksBuf is not cleared after the copy. *)
MutSwap(w) ==
    /\ InLoop(w, "swap")
    /\ tasks' = tasks \o tasksBuf
    /\ lpc' = [lpc EXCEPT ![w] = "run"]
    /\ UNCHANGED <<threadVars, tasksBuf, ran, ownerVars, added, executed>>

(* Lines 70-75, under the lock. *)
Swap(w) ==
    /\ InLoop(w, "swap")
    /\ tasks' = tasks \o tasksBuf
    /\ tasksBuf' = <<>>
    /\ lpc' = [lpc EXCEPT ![w] = "run"]
    /\ UNCHANGED <<threadVars, ran, ownerVars, added, executed>>

(* Lines 79-84: nothing to run, sleep and start over. *)
NoTask(w) ==
    /\ InLoop(w, "run")
    /\ tasks = <<>>
    /\ lpc' = [lpc EXCEPT ![w] = "test"]
    /\ UNCHANGED <<threadVars, tasksBuf, tasks, ran, ownerVars, added, executed>>

(* Lines 87-90, one turn of the for loop. *)
RunTask(w) ==
    /\ InLoop(w, "run")
    /\ ran < Len(tasks)
    /\ executed' = Append(executed, tasks[ran + 1])
    /\ ran' = ran + 1
    /\ UNCHANGED <<threadVars, tasksBuf, tasks, lpc, ownerVars, added>>

(* Mutant: the list is cleared after one task. *)
MutClearEarly(w) ==
    /\ InLoop(w, "run")
    /\ tasks # <<>>
    /\ ran > 0
    /\ tasks' = <<>>
    /\ ran' = 0
    /\ lpc' = [lpc EXCEPT ![w] = "test"]
    /\ UNCHANGED <<threadVars, tasksBuf, ownerVars, added, executed>>

(* _tasks.clear() *)
ClearTasks(w) ==
    /\ InLoop(w, "run")
    /\ tasks # <<>>
    /\ ran = Len(tasks)
    /\ tasks' = <<>>
    /\ ran' = 0
    /\ lpc' = [lpc EXCEPT ![w] = "test"]
    /\ UNCHANGED <<threadVars, tasksBuf, ownerVars, added, executed>>

-----------------------------------------------------------------------------

(* The steps of CRCThread that the task server does not see. *)
CloseStep(c) ==
    /\ \/ CloseLock(c) \/ CloseStale(c) \/ CloseWait(c) \/ CloseResume(c)
       \/ CloseReturn(c)
    /\ UNCHANGED taskVars

OnWorkStep(w) ==
    /\ OnRun(w) \/ OnDestory(w) \/ OnWorkEnd(w)
    /\ UNCHANGED taskVars

SpuriousStep(c) == CloseSpuriousWake(c) /\ UNCHANGED taskVars

OwnerStep(c) ==
    \/ StartServer(c) \/ CloseServer(c) \/ CloseServerIdle(c)
    \/ CloseThreadDone(c) \/ DrainTask(c) \/ DrainEnd(c)

LoopStep(w) ==
    \/ LoopTest(w) \/ LoopExit(w) \/ SizeCheck(w) \/ Swap(w) \/ NoTask(w)
    \/ RunTask(w) \/ ClearTasks(w)

TaskServerNext ==
    \/ AddTask
    \/ \E c \in Callers : OwnerStep(c) \/ CloseStep(c) \/ SpuriousStep(c)
    \/ \E w \in Workers : OnWorkStep(w) \/ LoopStep(w)

(* The spawned thread and a Close() in progress are scheduled. *)
TaskServerFairness ==
    /\ \A c \in Callers :
         WF_vars(CloseStep(c) \/ CloseThreadDone(c) \/ DrainTask(c) \/ DrainEnd(c))
    /\ \A w \in Workers : WF_vars(OnWorkStep(w) \/ LoopStep(w))

TaskServerSpec ==
    TaskServerInit /\ [][TaskServerNext]_vars /\ TaskServerFairness

-----------------------------------------------------------------------------

(* The tasks that wait: those of _tasks that the loop has not run, then    *)
(* those of _tasksBuf that no Close() has run.                             *)
Drained == IF \E c \in Callers : opc[c] = "drain"
           THEN pos[CHOOSE c \in Callers : opc[c] = "drain"] - 1
           ELSE IF Alive THEN 0 ELSE Len(tasksBuf)

Waiting == SubSeq(tasks, ran + 1, Len(tasks))
             \o SubSeq(tasksBuf, Drained + 1, Len(tasksBuf))

(* No task is lost, run twice or overtaken: what ran followed by what      *)
(* waits is always 1, 2, ..., added.  It spans the two lists, the two      *)
(* threads that run tasks and the unlocked size test.                      *)
Conservation == executed \o Waiting = [n \in 1..added |-> n]

(* The task server is a first-in first-out queue of tasks, each run once. *)
Queue == INSTANCE TaskQueue
ImplementsTaskQueue == Queue!Spec

(* A task handed over while the thread runs is run, by the thread or by    *)
(* the Close() that stops it.                                              *)
TaskRuns ==
    \A n \in 1..MaxTasks :
        (n <= added /\ isRun) ~> \E i \in 1..Len(executed) : executed[i] = n

(* A task that the loop did not get to is run by Close() (the comment of   *)
(* crc_task_server.hpp:53) - and is not run again.                         *)
AtMostOnce ==
    \A i, j \in 1..Len(executed) : executed[i] = executed[j] => i = j
=============================================================================
