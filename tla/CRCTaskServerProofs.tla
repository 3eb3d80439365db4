------------------------ MODULE CRCTaskServerProofs -------------------------
(***************************************************************************)
(* The threads of common: CRCThread joins its thread, for any number of    *)
(* callers and any number of restarts, when the callback stops only on     *)
(* the flag; and the task server of one owner, closed once, loses no       *)
(* task, runs none twice and overtakes none, for any number of tasks and   *)
(* threads, and whatever the thread and the owner do between each          *)
(* other's steps.                                                          *)
(*                                                                         *)
(* The two hypotheses about the task server are the use CRCWorkServer      *)
(* makes of it: its destructor is the owner that closes. Closed twice it   *)
(* runs tasks twice (AtMostOnce of CRCTaskServer).                         *)
(***************************************************************************)
EXTENDS CRCTaskServer, SequenceTheorems, TLAPS

(* CRCThread. *)

USE DEF semVars

LEMMA ThreadInitType == ThreadInit => ThreadTypeOK
<1> SUFFICES ASSUME ThreadInit PROVE ThreadTypeOK
  OBVIOUS
<1>1. Sem!SemTypeOK
  BY DEF ThreadInit, Sem!SemInit, Sem!SemTypeOK
<1>2. /\ isRun \in BOOLEAN
      /\ mutex \in Callers \cup {NoCaller}
      /\ cleared \subseteq Workers
  BY DEF ThreadInit
<1>3. /\ cpc \in [Callers -> {"idle", "close", "wait", "joining"}]
      /\ wpc \in [Workers -> {"new", "onRun", "body", "self", "onDestory",
                              "wakeup", "done"}]
  BY DEF ThreadInit
<1>4. QED
  BY <1>1, <1>2, <1>3 DEF ThreadTypeOK

LEMMA ThreadNextType == ThreadTypeOK /\ [ThreadNext]_threadVars => ThreadTypeOK'
<1> SUFFICES ASSUME ThreadTypeOK, [ThreadNext]_threadVars
             PROVE  ThreadTypeOK'
  OBVIOUS
<1> USE DEF ThreadTypeOK
<1>1. ASSUME NEW c \in Callers, NEW w \in Workers, Start(c, w)
      PROVE  ThreadTypeOK'
  BY <1>1 DEF Start, Sem!SemTypeOK
<1>2. ASSUME NEW c \in Callers, CloseCall(c)
      PROVE  ThreadTypeOK'
  BY <1>2 DEF CloseCall, Sem!SemTypeOK
<1>3. ASSUME NEW c \in Callers, CloseLock(c)
      PROVE  ThreadTypeOK'
  BY <1>3 DEF CloseLock, Sem!SemTypeOK
<1>4. ASSUME NEW c \in Callers, CloseStale(c)
      PROVE  ThreadTypeOK'
  BY <1>4 DEF CloseStale, Sem!SemTypeOK
<1>5. ASSUME NEW c \in Callers, CloseWait(c)
      PROVE  ThreadTypeOK'
  <2>1. Sem!SemTypeOK'
    BY <1>5 DEF CloseWait, Sem!SemTypeOK, Sem!Pending, Sem!Wait, Sem!WaitFast,
                Sem!WaitBarge, Sem!WaitSleep
  <2>2. QED
    BY <1>5, <2>1 DEF CloseWait
<1>6. ASSUME NEW c \in Callers, CloseResume(c)
      PROVE  ThreadTypeOK'
  <2>1. Sem!SemTypeOK'
    BY <1>6 DEF CloseResume, Sem!SemTypeOK, Sem!Resume, Sem!ResumeTake,
                Sem!ResumeSleep
  <2>2. QED
    BY <1>6, <2>1 DEF CloseResume
<1>7. ASSUME NEW c \in Callers, CloseSpuriousWake(c)
      PROVE  ThreadTypeOK'
  BY <1>7 DEF CloseSpuriousWake, Sem!SemTypeOK, Sem!SpuriousWake
<1>8. ASSUME NEW c \in Callers, CloseReturn(c)
      PROVE  ThreadTypeOK'
  BY <1>8 DEF CloseReturn, Sem!SemTypeOK
<1>9. ASSUME NEW w \in Workers,
             OnRun(w) \/ BodyFlag(w) \/ BodyBreak(w) \/ ExitInSelfThread(w)
               \/ OnDestory(w)
      PROVE  ThreadTypeOK'
  BY <1>9 DEF OnRun, BodyFlag, BodyBreak, ExitInSelfThread, OnDestory,
              Sem!SemTypeOK
<1>10. ASSUME NEW w \in Workers, OnWorkEnd(w)
       PROVE  ThreadTypeOK'
  <2>1. Sem!SemTypeOK'
    BY <1>10 DEF OnWorkEnd, Sem!SemTypeOK, Sem!Wakeup, Sem!WakeupBlocked,
                 Sem!WakeupBank, Sem!NotifyOne
  <2>2. QED
    BY <1>10, <2>1 DEF OnWorkEnd
<1>11. CASE UNCHANGED threadVars
  BY <1>11 DEF threadVars, Sem!SemTypeOK
<1>12. QED
  BY <1>1, <1>2, <1>3, <1>4, <1>5, <1>6, <1>7, <1>8, <1>9, <1>10, <1>11
  DEF ThreadNext, CallerStep, WorkerStep

(* Every variable of crc_thread.hpp keeps its type. *)
THEOREM ThreadTypeCorrect == ThreadSpec => []ThreadTypeOK
  BY ThreadInitType, ThreadNextType, PTL DEF ThreadSpec

-----------------------------------------------------------------------------

SemEmpty == waitCount = 0 /\ wakeupCount = 0 /\ sleeping = {} /\ notified = {}

(* What the semaphore holds while the owner c of _mutex is inside Close(). *)
ClosePhase(c) ==
    \/ /\ cpc[c] = "wait"
       /\ sleeping = {} /\ notified = {} /\ wakeupCount = 0
       /\ waitCount = IF Active = {} THEN 1 ELSE 0
    \/ /\ cpc[c] = "joining"
       /\ sleeping \cup notified = {c}
       /\ IF Active = {} THEN waitCount = 0 /\ wakeupCount = 1
                         ELSE waitCount = -1 /\ wakeupCount = 0
    \/ /\ cpc[c] = "joining"
       /\ SemEmpty
       /\ Active = {}

(* The inductive invariant.  JoinOnClose says nothing of the states inside *)
(* Close(), so it is not inductive by itself: the semaphore must be known  *)
(* empty when Close() begins, and to hold exactly the one wake-up of the   *)
(* one active thread while Close() waits.                                  *)
JoinInv ==
    /\ ThreadTypeOK
    /\ \A v, w \in Active : v = w
    /\ isRun => /\ mutex = NoCaller
                /\ SemEmpty
                /\ Active # {}
                /\ \A w \in Active : wpc[w] \in {"onRun", "body"}
    /\ (~isRun /\ mutex = NoCaller) => (SemEmpty /\ Active = {})
    /\ \A c \in Callers : mutex = c => ClosePhase(c)
    /\ \A c \in Callers : cpc[c] \in {"wait", "joining"} => mutex = c
    /\ \A w \in Workers : wpc[w] # "self"

LEMMA JoinInitInv == ThreadInit => JoinInv
  BY ThreadInitType, ThreadAssumption
  DEF ThreadInit, JoinInv, Active, SemEmpty, Sem!SemInit

LEMMA JoinNextInv ==
    ASSUME ExitKinds = {"flag"}, JoinInv, [ThreadNext]_threadVars
    PROVE  JoinInv'
<1>0. ThreadTypeOK'
  BY ThreadNextType DEF JoinInv
<1> USE DEF JoinInv
<1>1. ASSUME NEW c \in Callers, NEW w \in Workers, Start(c, w)
      PROVE  JoinInv'
  <2>1. Active = {} /\ SemEmpty /\ SemEmpty'
    BY <1>1 DEF Start, SemEmpty
  <2>2. Active' = {w}
    BY <1>1, <2>1 DEF Start, Active, ThreadTypeOK
  <2>3. QED
    BY <1>0, <1>1, <2>1, <2>2, ThreadAssumption DEF Start, ThreadTypeOK
<1>2. ASSUME NEW c \in Callers, CloseCall(c)
      PROVE  JoinInv'
  BY <1>0, <1>2, ThreadAssumption
  DEF CloseCall, ThreadTypeOK, Active, SemEmpty, ClosePhase
<1>3. ASSUME NEW c \in Callers, CloseLock(c)
      PROVE  JoinInv'
  <2>1. Active' = Active /\ Active # {} /\ SemEmpty /\ SemEmpty'
    BY <1>3 DEF CloseLock, Active, SemEmpty
  <2>2. ClosePhase(c)'
    BY <1>3, <2>1 DEF CloseLock, ThreadTypeOK, ClosePhase, SemEmpty
  <2>3. QED
    BY <1>0, <1>3, <2>1, <2>2, ThreadAssumption DEF CloseLock, ThreadTypeOK
<1>4. ASSUME NEW c \in Callers, CloseStale(c)
      PROVE  JoinInv'
  BY <1>0, <1>4, ThreadAssumption
  DEF CloseStale, ThreadTypeOK, Active, SemEmpty, ClosePhase
<1>5. ASSUME NEW c \in Callers, CloseWait(c)
      PROVE  JoinInv'
  <2>1. /\ mutex = c /\ ~isRun /\ c # NoCaller /\ Active' = Active
        /\ sleeping = {} /\ notified = {} /\ wakeupCount = 0
        /\ waitCount = IF Active = {} THEN 1 ELSE 0
    BY <1>5, ThreadAssumption DEF CloseWait, ClosePhase, Active
  <2>2. cpc'[c] = "joining"
    BY <1>5 DEF CloseWait, ThreadTypeOK
  <2>3. ClosePhase(c)'
    BY <1>5, <2>1, <2>2
    DEF CloseWait, Sem!Wait, Sem!WaitFast, Sem!WaitBarge, Sem!WaitSleep,
        Sem!Pending, ClosePhase, SemEmpty
  <2>4. QED
    BY <1>0, <1>5, <2>1, <2>3 DEF CloseWait, ThreadTypeOK
<1>6. ASSUME NEW c \in Callers, CloseResume(c)
      PROVE  JoinInv'
  <2>1. c \in notified
    BY <1>6 DEF CloseResume, Sem!Resume, Sem!ResumeTake, Sem!ResumeSleep
  <2>2. ~isRun /\ mutex # NoCaller /\ mutex \in Callers
    BY <2>1 DEF SemEmpty, ThreadTypeOK
  <2>3. /\ mutex = c /\ cpc[c] = "joining" /\ sleeping \cup notified = {c}
        /\ IF Active = {} THEN waitCount = 0 /\ wakeupCount = 1
                          ELSE waitCount = -1 /\ wakeupCount = 0
    BY <2>1, <2>2 DEF ClosePhase, SemEmpty
  <2>4. Active' = Active /\ cpc' = cpc /\ wpc' = wpc /\ mutex' = mutex /\ isRun' = isRun
    BY <1>6 DEF CloseResume, Active
  <2>5. sleeping \cap notified = {}
    BY DEF ThreadTypeOK, Sem!SemTypeOK
  <2>6. ClosePhase(c)'
    <3>1. CASE Sem!ResumeTake(c)
      BY <2>1, <2>3, <2>4, <2>5, <3>1 DEF Sem!ResumeTake, ClosePhase, SemEmpty
    <3>2. CASE Sem!ResumeSleep(c)
      BY <2>1, <2>3, <2>4, <2>5, <3>2 DEF Sem!ResumeSleep, ClosePhase
    <3>3. QED
      BY <1>6, <3>1, <3>2 DEF CloseResume, Sem!Resume
  <2>7. QED
    BY <1>0, <2>2, <2>3, <2>4, <2>6
<1>7. ASSUME NEW c \in Callers, CloseSpuriousWake(c)
      PROVE  JoinInv'
  <2>1. c \in sleeping
    BY <1>7 DEF CloseSpuriousWake, Sem!SpuriousWake
  <2>2. ~isRun /\ mutex # NoCaller /\ mutex \in Callers
    BY <2>1 DEF SemEmpty, ThreadTypeOK
  <2>3. /\ mutex = c /\ cpc[c] = "joining" /\ sleeping \cup notified = {c}
        /\ IF Active = {} THEN waitCount = 0 /\ wakeupCount = 1
                          ELSE waitCount = -1 /\ wakeupCount = 0
    BY <2>1, <2>2 DEF ClosePhase, SemEmpty
  <2>4. Active' = Active /\ cpc' = cpc /\ wpc' = wpc /\ mutex' = mutex /\ isRun' = isRun
    BY <1>7 DEF CloseSpuriousWake, Active
  <2>5. ClosePhase(c)'
    BY <1>7, <2>3, <2>4 DEF CloseSpuriousWake, Sem!SpuriousWake, ClosePhase
  <2>6. QED
    BY <1>0, <2>2, <2>3, <2>4, <2>5
<1>8. ASSUME NEW c \in Callers, CloseReturn(c)
      PROVE  JoinInv'
  <2>1. mutex = c /\ ~isRun /\ SemEmpty /\ Active = {}
    BY <1>8, ThreadAssumption DEF CloseReturn, ClosePhase, Sem!Pending
  <2>2. SemEmpty' /\ Active' = {}
    BY <1>8, <2>1 DEF CloseReturn, SemEmpty, Active
  <2>3. QED
    BY <1>0, <1>8, <2>1, <2>2, ThreadAssumption DEF CloseReturn, ThreadTypeOK
<1>9. ASSUME NEW w \in Workers,
             OnRun(w) \/ BodyFlag(w) \/ OnDestory(w)
      PROVE  JoinInv'
  <2>1. w \in Active
    BY <1>9 DEF OnRun, BodyFlag, OnDestory, Active
  <2>2. Active' = Active
    BY <1>9, <2>1 DEF OnRun, BodyFlag, OnDestory, Active, ThreadTypeOK
  <2>3. \A v \in Active : v = w
    BY <2>1
  <2>4. /\ isRun' = isRun /\ mutex' = mutex /\ cpc' = cpc
        /\ UNCHANGED semVars
    BY <1>9 DEF OnRun, BodyFlag, OnDestory
  <2>5. isRun => wpc'[w] \in {"onRun", "body"}
    BY <1>9, <2>1 DEF OnRun, BodyFlag, OnDestory, ThreadTypeOK
  <2>6. \A v \in Workers : wpc'[v] # "self"
    BY <1>9 DEF OnRun, BodyFlag, OnDestory, ThreadTypeOK
  <2>7. QED
    BY <1>0, <2>2, <2>3, <2>4, <2>5, <2>6 DEF SemEmpty, ClosePhase
<1>10. ASSUME NEW w \in Workers, BodyBreak(w) \/ ExitInSelfThread(w)
       PROVE  FALSE
  BY <1>10 DEF BodyBreak, ExitInSelfThread
<1>11. ASSUME NEW w \in Workers, OnWorkEnd(w)
       PROVE  JoinInv'
  <2>1. w \in Active /\ wpc[w] = "wakeup"
    BY <1>11 DEF OnWorkEnd, Active
  <2>2. Active' = {}
    BY <1>11, <2>1 DEF OnWorkEnd, Active, ThreadTypeOK
  <2>3. ~isRun /\ mutex # NoCaller /\ mutex \in Callers
    BY <2>1 DEF ThreadTypeOK
  <2>4. PICK c \in Callers : mutex = c
    BY <2>3
  <2>5. /\ isRun' = isRun /\ mutex' = mutex /\ cpc' = cpc
        /\ \A v \in Workers : wpc'[v] # "self"
    BY <1>11 DEF OnWorkEnd, ThreadTypeOK
  <2>6. ClosePhase(c)'
    <3>1. CASE /\ cpc[c] = "wait"
               /\ sleeping = {} /\ notified = {} /\ wakeupCount = 0
               /\ waitCount = 0
      BY <1>11, <2>2, <2>5, <3>1
      DEF OnWorkEnd, Sem!Wakeup, Sem!WakeupBlocked, Sem!WakeupBank,
          Sem!SomebodyBlocked, ClosePhase
    <3>2. CASE /\ cpc[c] = "joining"
               /\ sleeping \cup notified = {c}
               /\ waitCount = -1 /\ wakeupCount = 0
      BY <1>11, <2>2, <2>5, <3>2
      DEF OnWorkEnd, Sem!Wakeup, Sem!WakeupBlocked, Sem!WakeupBank,
          Sem!SomebodyBlocked, Sem!NotifyOne, ClosePhase
    <3>3. QED
      BY <2>1, <2>4, <3>1, <3>2 DEF ClosePhase
  <2>7. QED
    BY <1>0, <2>2, <2>3, <2>4, <2>5, <2>6
<1>12. CASE UNCHANGED threadVars
  BY <1>0, <1>12 DEF threadVars, Active, SemEmpty, ClosePhase
<1>13. QED
  BY <1>1, <1>2, <1>3, <1>4, <1>5, <1>6, <1>7, <1>8, <1>9, <1>10, <1>11, <1>12
  DEF ThreadNext, CallerStep, WorkerStep

(* When the callback stops only on the flag, Close() returns with no       *)
(* thread left inside OnWork(), for any number of callers and restarts.    *)
THEOREM ThreadJoins ==
    ASSUME ExitKinds = {"flag"}
    PROVE  ThreadSpec => []JoinOnClose
<1>1. JoinInv => JoinOnClose
  BY DEF JoinInv, JoinOnClose
<1>2. JoinInv /\ [ThreadNext]_threadVars => JoinInv'
  BY JoinNextInv
<1>3. QED
  BY <1>1, <1>2, JoinInitInv, PTL DEF ThreadSpec

(* And it leaves no wake-up behind that would spoil the next Close(). *)
THEOREM ThreadSemaphoreBalanced ==
    ASSUME ExitKinds = {"flag"}
    PROVE  ThreadSpec => []NoResidualPermit
<1>1. JoinInv => NoResidualPermit
  BY DEF JoinInv, NoResidualPermit, SemEmpty, Sem!Permits
<1>2. JoinInv /\ [ThreadNext]_threadVars => JoinInv'
  BY JoinNextInv
<1>3. QED
  BY <1>1, <1>2, JoinInitInv, PTL DEF ThreadSpec

-----------------------------------------------------------------------------

(* Callbacks that may also end by themselves.  Threads of earlier lives    *)
(* may still be inside OnWork(), and leave wake-ups behind, so little of   *)
(* JoinInv is left: the flag promises a thread that has not cleared it,    *)
(* and the two counters tell whether a thread in Close() is still owed its *)
(* wake-up. *)
FlagHasWorker ==
    isRun => \E w \in Workers : wpc[w] \in {"onRun", "body", "self"}

InClose == \A c \in Callers : cpc[c] \in {"wait", "joining"} <=> mutex = c

CloseOwed ==
    /\ \A c \in Sem!Pending : cpc[c] = "joining"
    /\ Sem!Pending = {} => waitCount >= 0 /\ wakeupCount = 0
    /\ Sem!Pending # {} => \/ waitCount = -1 /\ wakeupCount = 0 /\ Active # {}
                           \/ waitCount >= 0 /\ wakeupCount = 1
    /\ \A c \in Callers : cpc[c] = "wait" => waitCount > 0 \/ Active # {}

OwedInv == ThreadTypeOK /\ FlagHasWorker /\ InClose /\ CloseOwed

LEMMA OwedInitInv == ThreadInit => OwedInv
  BY ThreadInitType, ThreadAssumption
  DEF ThreadInit, OwedInv, FlagHasWorker, InClose, CloseOwed, Sem!SemInit, Sem!Pending

(* The threads inside Close() are the owner of _mutex, so one at most is   *)
(* pending. *)
LEMMA OnePending ==
    ASSUME OwedInv, NEW c \in Callers, mutex = c
    PROVE  Sem!Pending \subseteq {c}
  BY DEF OwedInv, InClose, CloseOwed, ThreadTypeOK, Sem!SemTypeOK, Sem!Pending

LEMMA OwedNextInv == OwedInv /\ [ThreadNext]_threadVars => OwedInv'
<1> SUFFICES ASSUME OwedInv, [ThreadNext]_threadVars
             PROVE  OwedInv'
  OBVIOUS
<1>0. ThreadTypeOK'
  BY ThreadNextType DEF OwedInv
<1> USE DEF OwedInv, FlagHasWorker, InClose, CloseOwed
<1>1. ASSUME NEW c \in Callers, NEW w \in Workers, Start(c, w)
      PROVE  OwedInv'
  <2>1. Sem!Pending' = Sem!Pending /\ Active \subseteq Active' /\ w \in Active'
    BY <1>1 DEF Start, Active, ThreadTypeOK, Sem!Pending
  <2>2. FlagHasWorker'
    BY <1>1 DEF Start, ThreadTypeOK
  <2>3. InClose' /\ CloseOwed'
    BY <1>1, <2>1 DEF Start
  <2>4. QED
    BY <1>0, <2>2, <2>3
<1>2. ASSUME NEW c \in Callers, CloseCall(c) \/ CloseStale(c)
      PROVE  OwedInv'
  <2>1. Sem!Pending' = Sem!Pending /\ Active' = Active /\ FlagHasWorker'
    BY <1>2 DEF CloseCall, CloseStale, Active, Sem!Pending
  <2>2. InClose' /\ CloseOwed'
    BY <1>2, <2>1 DEF CloseCall, CloseStale, ThreadTypeOK, Sem!Pending, Sem!SemTypeOK
  <2>3. QED
    BY <1>0, <2>1, <2>2
<1>3. ASSUME NEW c \in Callers, CloseLock(c)
      PROVE  OwedInv'
  <2>1. Sem!Pending' = Sem!Pending /\ Active' = Active /\ FlagHasWorker' /\ Active # {}
    BY <1>3 DEF CloseLock, Active, Sem!Pending
  <2>2. InClose'
    BY <1>3, ThreadAssumption DEF CloseLock, ThreadTypeOK
  <2>3. CloseOwed'
    BY <1>3, <2>1 DEF CloseLock, ThreadTypeOK, Sem!Pending, Sem!SemTypeOK
  <2>4. QED
    BY <1>0, <2>1, <2>2, <2>3
<1>4. ASSUME NEW c \in Callers, CloseWait(c)
      PROVE  OwedInv'
  <2>1. Active' = Active /\ FlagHasWorker' /\ mutex = c /\ cpc[c] = "wait"
    BY <1>4 DEF CloseWait, Active
  <2>2. Sem!Pending = {}
    BY <2>1, OnePending
  <2>3. waitCount \in Int /\ waitCount >= 0 /\ wakeupCount = 0 /\ (waitCount > 0 \/ Active # {})
    BY <2>1, <2>2 DEF ThreadTypeOK, Sem!SemTypeOK
  <2>4. InClose'
    BY <1>4, <2>1 DEF CloseWait, ThreadTypeOK
  <2>5. cpc' = [cpc EXCEPT ![c] = "joining"]
    BY <1>4 DEF CloseWait
  <2>6. \A d \in Callers : cpc'[d] # "wait"
    BY <2>1, <2>5 DEF ThreadTypeOK
  <2>7. \/ Sem!Pending' = {} /\ waitCount' >= 0 /\ wakeupCount' = 0
        \/ Sem!Pending' = {c} /\ waitCount' = -1 /\ wakeupCount' = 0 /\ Active # {}
    BY <1>4, <2>2, <2>3 DEF CloseWait, Sem!Wait, Sem!WaitFast, Sem!WaitBarge, Sem!WaitSleep, Sem!Pending
  <2>8. CloseOwed'
    <3>1. \A d \in Sem!Pending' : cpc'[d] = "joining"
      BY <2>5, <2>7 DEF ThreadTypeOK
    <3>2. Sem!Pending' = {} => waitCount' >= 0 /\ wakeupCount' = 0
      BY <2>7
    <3>3. Sem!Pending' # {} => waitCount' = -1 /\ wakeupCount' = 0 /\ Active' # {}
      BY <2>1, <2>7
    <3>4. QED
      BY <2>6, <3>1, <3>2, <3>3
  <2>9. QED
    BY <1>0, <2>1, <2>4, <2>8
<1>5. ASSUME NEW c \in Callers, CloseResume(c)
      PROVE  OwedInv'
  <2>1. /\ c \in Sem!Pending /\ mutex = c /\ Active' = Active /\ FlagHasWorker' /\ InClose'
        /\ cpc' = cpc
    BY <1>5 DEF CloseResume, Sem!Resume, Sem!ResumeTake, Sem!ResumeSleep, Sem!Pending, Active
  <2>2. Sem!Pending = {c}
    BY <2>1, OnePending
  <2>3. CASE Sem!ResumeTake(c)
    <3>1. Sem!Pending' = {} /\ waitCount' >= 0 /\ wakeupCount' = 0
      BY <2>2, <2>3 DEF Sem!ResumeTake, Sem!Pending, ThreadTypeOK, Sem!SemTypeOK
    <3>2. \A d \in Callers : cpc[d] # "wait"
      BY <2>1, <2>2
    <3>3. QED
      BY <1>0, <2>1, <3>1, <3>2
  <2>4. CASE Sem!ResumeSleep(c)
    <3>1. Sem!Pending' = Sem!Pending /\ UNCHANGED <<waitCount, wakeupCount>>
      BY <2>4 DEF Sem!ResumeSleep, Sem!Pending
    <3>2. QED
      BY <1>0, <2>1, <3>1
  <2>5. QED
    BY <1>5, <2>3, <2>4 DEF CloseResume, Sem!Resume
<1>6. ASSUME NEW c \in Callers, CloseSpuriousWake(c)
      PROVE  OwedInv'
  <2>1. /\ Sem!Pending' = Sem!Pending /\ UNCHANGED <<waitCount, wakeupCount, isRun, mutex, cpc, wpc>>
        /\ Active' = Active
    BY <1>6 DEF CloseSpuriousWake, Sem!SpuriousWake, Sem!Pending, Active
  <2>2. QED
    BY <1>0, <2>1
<1>7. ASSUME NEW c \in Callers, CloseReturn(c)
      PROVE  OwedInv'
  <2>1. /\ mutex = c /\ Sem!Pending = {} /\ Sem!Pending' = Sem!Pending /\ Active' = Active
        /\ FlagHasWorker'
    <3>1. mutex = c /\ c \notin Sem!Pending
      BY <1>7 DEF CloseReturn
    <3>2. QED
      BY <1>7, <3>1, OnePending DEF CloseReturn, Active, Sem!Pending
  <2>2. InClose'
    BY <1>7, <2>1, ThreadAssumption DEF CloseReturn, ThreadTypeOK
  <2>3. CloseOwed'
    BY <1>7, <2>1 DEF CloseReturn, ThreadTypeOK
  <2>4. QED
    BY <1>0, <2>1, <2>2, <2>3
<1>8. ASSUME NEW w \in Workers, OnRun(w) \/ BodyFlag(w) \/ BodyBreak(w) \/ OnDestory(w)
      PROVE  OwedInv'
  <2>1. Active' = Active
    BY <1>8 DEF OnRun, BodyFlag, BodyBreak, OnDestory, Active, ThreadTypeOK
  <2>2. Sem!Pending' = Sem!Pending /\ UNCHANGED <<isRun, mutex, cpc, waitCount, wakeupCount>>
    BY <1>8 DEF OnRun, BodyFlag, BodyBreak, OnDestory, Sem!Pending
  <2>3. FlagHasWorker'
    BY <1>8 DEF OnRun, BodyFlag, BodyBreak, OnDestory, ThreadTypeOK
  <2>4. QED
    BY <1>0, <2>1, <2>2, <2>3
<1>9. ASSUME NEW w \in Workers, ExitInSelfThread(w)
      PROVE  OwedInv'
  <2>1. Active' = Active
    BY <1>9 DEF ExitInSelfThread, Active, ThreadTypeOK
  <2>2. Sem!Pending' = Sem!Pending /\ ~isRun' /\ UNCHANGED <<mutex, cpc, waitCount, wakeupCount>>
    BY <1>9 DEF ExitInSelfThread, Sem!Pending
  <2>3. QED
    BY <1>0, <2>1, <2>2
<1>10. ASSUME NEW w \in Workers, OnWorkEnd(w)
       PROVE  OwedInv'
  <2>1. UNCHANGED <<isRun, mutex, cpc>> /\ FlagHasWorker' /\ InClose'
    BY <1>10 DEF OnWorkEnd, ThreadTypeOK
  <2>2. Sem!Pending' = Sem!Pending
    BY <1>10 DEF OnWorkEnd, Sem!Wakeup, Sem!WakeupBlocked, Sem!WakeupBank, Sem!NotifyOne, Sem!Pending
  <2>3. waitCount \in Int /\ waitCount' = waitCount + 1
    BY <1>10 DEF OnWorkEnd, Sem!Wakeup, Sem!WakeupBlocked, Sem!WakeupBank, ThreadTypeOK, Sem!SemTypeOK
  <2>4. wakeupCount' = IF waitCount + 1 <= 0 THEN wakeupCount + 1 ELSE wakeupCount
    BY <1>10 DEF OnWorkEnd, Sem!Wakeup, Sem!WakeupBlocked, Sem!WakeupBank, Sem!SomebodyBlocked
  <2>5. Sem!Pending # {} => waitCount' >= 0 /\ wakeupCount' = 1
    BY <2>3, <2>4
  <2>6. Sem!Pending = {} => waitCount' > 0 /\ wakeupCount' = 0
    BY <2>3, <2>4
  <2>7. \A c \in Callers : cpc[c] = "wait" => Sem!Pending = {}
    BY OnePending
  <2>8. CloseOwed'
    <3>1. \A d \in Sem!Pending' : cpc'[d] = "joining"
      BY <2>1, <2>2
    <3>2. Sem!Pending' = {} => waitCount' >= 0 /\ wakeupCount' = 0
      BY <2>2, <2>3, <2>6
    <3>3. Sem!Pending' # {} => waitCount' >= 0 /\ wakeupCount' = 1
      BY <2>2, <2>5
    <3>4. \A c \in Callers : cpc'[c] = "wait" => waitCount' > 0
      BY <2>1, <2>6, <2>7
    <3>5. QED
      BY <3>1, <3>2, <3>3, <3>4
  <2>9. QED
    BY <1>0, <2>1, <2>8
<1>11. CASE UNCHANGED threadVars
  BY <1>0, <1>11 DEF threadVars, Active, Sem!Pending
<1>12. QED
  BY <1>1, <1>2, <1>3, <1>4, <1>5, <1>6, <1>7, <1>8, <1>9, <1>10, <1>11
  DEF ThreadNext, CallerStep, WorkerStep

(* Whatever the callback does, and with threads of earlier lives still on  *)
(* their way out, a Close() that sleeps with no wake-up for it has a       *)
(* thread that has yet to give one. *)
THEOREM ThreadOwesWakeup == ThreadSpec => []JoinHasWorker
<1>1. OwedInv => JoinHasWorker
  BY DEF OwedInv, CloseOwed, JoinHasWorker
<1>2. QED
  BY <1>1, OwedInitInv, OwedNextInv, PTL DEF ThreadSpec

-----------------------------------------------------------------------------

(* CRCTaskServer: the use CRCWorkServer makes of it. *)

OneOwner == \A c, d \in Callers : c = d
ClosedOnce == Closes <= 1

(* Type correctness, as far as the proof needs it. *)
TaskTypeOK ==
    /\ tasksBuf \in Seq(Nat) /\ tasks \in Seq(Nat) /\ executed \in Seq(Nat)
    /\ ran \in 0..Len(tasks)
    /\ added \in Nat /\ closes \in Nat
    /\ lpc \in [Workers -> {"test", "size", "swap", "run"}]
    /\ opc \in [Callers -> {"idle", "closing", "drain"}]
    /\ pos \in [Callers -> Nat \ {0}]

(* A thread that is not in the callback is at the start of the loop, and   *)
(* _tasks is empty unless a thread is at the for loop. *)
AtLoop ==
    /\ \A w \in Workers : lpc[w] # "test" => wpc[w] = "body"
    /\ (\A w \in Workers : lpc[w] # "run") => tasks = <<>>

(* The owner's Close() and that of the thread object go together; it runs  *)
(* the tasks only when the thread is over, and it does so once. *)
AtClose ==
    /\ \A c \in Callers :
         /\ opc[c] # "idle" => Alive
         /\ opc[c] # "closing" => cpc[c] = "idle"
         /\ (opc[c] = "closing" /\ cpc[c] # "close") => ~isRun
         /\ opc[c] = "drain" => ~isRun /\ pos[c] - 1 <= Len(tasksBuf)
    /\ ~Alive => ~isRun

(* s holds n + 1, n + 2, ... *)
CountsFrom(s, n) == \A i \in 1..Len(s) : s[i] = n + i

(* Conservation, list by list: what has run, then what is left of _tasks,  *)
(* then what is left of _tasksBuf. *)
Numbered ==
    /\ CountsFrom(executed, 0)
    /\ CountsFrom(tasks, Len(executed) - ran)
    /\ CountsFrom(tasksBuf, Len(executed) + Len(tasks) - ran - Drained)
    /\ added = Len(executed) + Len(tasks) - ran + Len(tasksBuf) - Drained

QueueInv == JoinInv /\ TaskTypeOK /\ AtLoop /\ AtClose /\ Numbered

-----------------------------------------------------------------------------

LEMMA CountsAppend ==
    ASSUME NEW s \in Seq(Nat), NEW n \in Int, CountsFrom(s, n), n + Len(s) + 1 \in Nat
    PROVE  /\ Append(s, n + Len(s) + 1) \in Seq(Nat)
           /\ Len(Append(s, n + Len(s) + 1)) = Len(s) + 1
           /\ CountsFrom(Append(s, n + Len(s) + 1), n)
<1> DEFINE t == Append(s, n + Len(s) + 1)
<1>1. /\ t \in Seq(Nat) /\ Len(t) = Len(s) + 1 /\ Len(s) \in Nat
      /\ \A i \in 1..Len(s) : t[i] = s[i]
      /\ t[Len(s) + 1] = n + Len(s) + 1
  BY AppendProperties
<1>2. QED
  BY <1>1 DEF CountsFrom

LEMMA CountsConcat ==
    ASSUME NEW s \in Seq(Nat), NEW t \in Seq(Nat), NEW n \in Int,
           CountsFrom(s, n), CountsFrom(t, n + Len(s))
    PROVE  /\ s \o t \in Seq(Nat)
           /\ Len(s \o t) = Len(s) + Len(t)
           /\ CountsFrom(s \o t, n)
<1> DEFINE u == s \o t
<1>1. /\ u \in Seq(Nat) /\ Len(u) = Len(s) + Len(t)
      /\ Len(s) \in Nat /\ Len(t) \in Nat
      /\ \A i \in 1..Len(s) + Len(t) : u[i] = IF i <= Len(s) THEN s[i] ELSE t[i - Len(s)]
  BY ConcatProperties
<1> HIDE DEF u
<1>2. \A i \in 1..Len(s) + Len(t) : u[i] = n + i
  <2> TAKE i \in 1..Len(s) + Len(t)
  <2>1. CASE i <= Len(s)
    <3>1. i \in 1..Len(s)
      BY <1>1, <2>1
    <3>2. u[i] = s[i]
      BY <1>1, <2>1
    <3>3. s[i] = n + i
      BY <3>1 DEF CountsFrom
    <3>4. QED
      BY <3>2, <3>3
  <2>2. CASE i > Len(s)
    <3>1. i - Len(s) \in 1..Len(t)
      BY <1>1, <2>2
    <3>2. t[i - Len(s)] = n + Len(s) + (i - Len(s))
      BY <3>1 DEF CountsFrom
    <3>3. QED
      BY <1>1, <2>2, <3>2
  <2>3. QED
    BY <1>1, <2>1, <2>2
<1>3. QED
  BY <1>1, <1>2 DEF CountsFrom, u

LEMMA CountsRest ==
    ASSUME NEW s \in Seq(Nat), NEW n \in Int, CountsFrom(s, n), NEW k \in 0..Len(s)
    PROVE  /\ SubSeq(s, k + 1, Len(s)) \in Seq(Nat)
           /\ Len(SubSeq(s, k + 1, Len(s))) = Len(s) - k
           /\ CountsFrom(SubSeq(s, k + 1, Len(s)), n + k)
<1>1. Len(s) \in Nat /\ \A i \in 1..Len(s) : s[i] \in Nat /\ s[i] = n + i
  BY DEF CountsFrom
<1>2. /\ SubSeq(s, k + 1, Len(s)) \in Seq(Nat)
      /\ Len(SubSeq(s, k + 1, Len(s))) = Len(s) - k
      /\ \A i \in 1..Len(s) - k : SubSeq(s, k + 1, Len(s))[i] = s[k + 1 + i - 1]
  BY <1>1, SubSeqProperties
<1>3. QED
  BY <1>1, <1>2 DEF CountsFrom

(* What Drained is, with one owner. *)
LEMMA DrainedIs ==
    ASSUME OneOwner
    PROVE  /\ \A c \in Callers : opc[c] = "drain" => Drained = pos[c] - 1
           /\ (\A c \in Callers : opc[c] # "drain") =>
                 Drained = IF Alive THEN 0 ELSE Len(tasksBuf)
<1>1. ASSUME NEW c \in Callers, opc[c] = "drain"
      PROVE  Drained = pos[c] - 1
  <2>1. (CHOOSE d \in Callers : opc[d] = "drain") \in Callers
    BY <1>1
  <2>2. (CHOOSE d \in Callers : opc[d] = "drain") = c
    BY <2>1 DEF OneOwner
  <2>3. QED
    BY <1>1, <2>2 DEF Drained
<1>2. QED
  BY <1>1 DEF Drained

LEMMA DrainedNext ==
    ASSUME OneOwner
    PROVE  /\ \A c \in Callers : opc'[c] = "drain" => Drained' = pos'[c] - 1
           /\ (\A c \in Callers : opc'[c] # "drain") =>
                 Drained' = IF Alive' THEN 0 ELSE Len(tasksBuf')
<1>1. ASSUME NEW c \in Callers, opc'[c] = "drain"
      PROVE  Drained' = pos'[c] - 1
  <2>1. (CHOOSE d \in Callers : opc'[d] = "drain") \in Callers
    BY <1>1
  <2>2. (CHOOSE d \in Callers : opc'[d] = "drain") = c
    BY <2>1 DEF OneOwner
  <2>3. QED
    BY <1>1, <2>2 DEF Drained
<1>2. QED
  BY <1>1 DEF Drained

(* A step of the task server is a step of its thread object, or leaves it. *)
LEMMA StepOfThread == [TaskServerNext]_vars => [ThreadNext]_threadVars
<1> SUFFICES ASSUME [TaskServerNext]_vars
             PROVE  [ThreadNext]_threadVars
  OBVIOUS
<1>1. CASE AddTask
  BY <1>1 DEF AddTask
<1>2. ASSUME NEW c \in Callers, OwnerStep(c) \/ CloseStep(c) \/ SpuriousStep(c)
      PROVE  [ThreadNext]_threadVars
  BY <1>2 DEF OwnerStep, CloseStep, SpuriousStep, StartServer, CloseServer, CloseServerIdle,
              CloseThreadDone, DrainTask, DrainEnd, ThreadNext, CallerStep
<1>3. ASSUME NEW w \in Workers, OnWorkStep(w) \/ LoopStep(w)
      PROVE  [ThreadNext]_threadVars
  BY <1>3 DEF OnWorkStep, LoopStep, LoopTest, LoopExit, SizeCheck, Swap, NoTask, RunTask,
              ClearTasks, ThreadNext, WorkerStep
<1>4. CASE UNCHANGED vars
  BY <1>4 DEF vars
<1>5. QED
  BY <1>1, <1>2, <1>3, <1>4 DEF TaskServerNext

LEMMA QueueHoldsFirst ==
    ASSUME OneOwner, TaskServerInit
    PROVE  QueueInv
<1>1. JoinInv
  BY JoinInitInv DEF TaskServerInit
<1>2. TaskTypeOK /\ AtLoop
  BY DEF TaskServerInit, TaskTypeOK, AtLoop
<1>3. AtClose
  BY DEF TaskServerInit, ThreadInit, AtClose, Alive
<1>4. Drained = 0
  BY DrainedIs DEF TaskServerInit
<1>5. Numbered
  <2>1. Len(<<>>) = 0
    BY EmptySeq
  <2>2. \A n \in Int : CountsFrom(<<>>, n)
    BY <2>1 DEF CountsFrom
  <2>3. executed = <<>> /\ tasks = <<>> /\ tasksBuf = <<>> /\ ran = 0 /\ added = 0
    BY DEF TaskServerInit
  <2>4. QED
    BY <1>4, <2>1, <2>2, <2>3 DEF Numbered
<1>6. QED
  BY <1>1, <1>2, <1>3, <1>5 DEF QueueInv

(* The steps of the semaphore and of the thread object leave the loop, and *)
(* the steps of the loop leave the thread object, alone. *)
LEMMA TypesKept == TaskTypeOK /\ [TaskServerNext]_vars => TaskTypeOK'
<1> SUFFICES ASSUME TaskTypeOK, [TaskServerNext]_vars
             PROVE  TaskTypeOK'
  OBVIOUS
<1> USE DEF TaskTypeOK
<1>1. CASE AddTask
  BY <1>1 DEF AddTask, loopVars, ownerVars
<1>2. ASSUME NEW c \in Callers, CloseServer(c) \/ CloseServerIdle(c) \/ CloseThreadDone(c)
      PROVE  TaskTypeOK'
  <2>1. \A at \in {"idle", "closing", "drain"} :
           [opc EXCEPT ![c] = at] \in [Callers -> {"idle", "closing", "drain"}]
    OBVIOUS
  <2>2. [pos EXCEPT ![c] = 1] \in [Callers -> Nat \ {0}]
    OBVIOUS
  <2>3. QED
    BY <1>2, <2>1, <2>2 DEF CloseServer, CloseServerIdle, CloseThreadDone, loopVars
<1>3. ASSUME NEW c \in Callers, DrainTask(c)
      PROVE  TaskTypeOK'
  <2>1. tasksBuf[pos[c]] \in Nat
    BY <1>3 DEF DrainTask
  <2>2. QED
    BY SMTT(30), <1>3, <2>1 DEF DrainTask, loopVars
<1>4. ASSUME NEW c \in Callers, DrainEnd(c)
      PROVE  TaskTypeOK'
  BY <1>4 DEF DrainEnd, loopVars
<1>5. ASSUME NEW c \in Callers, StartServer(c) \/ CloseStep(c) \/ SpuriousStep(c)
      PROVE  TaskTypeOK'
  BY <1>5 DEF StartServer, CloseStep, SpuriousStep, taskVars
<1>6. ASSUME NEW w \in Workers, OnWorkStep(w) \/ LoopExit(w)
      PROVE  TaskTypeOK'
  BY <1>6 DEF OnWorkStep, LoopExit, taskVars
<1>7. ASSUME NEW w \in Workers, LoopTest(w) \/ SizeCheck(w) \/ NoTask(w)
      PROVE  TaskTypeOK'
  BY <1>7 DEF LoopTest, SizeCheck, NoTask, ownerVars
<1>11. ASSUME NEW w \in Workers, ClearTasks(w)
      PROVE  TaskTypeOK'
  <2>1. <<>> \in Seq(Nat) /\ Len(<<>>) = 0
    BY EmptySeq
  <2>2. tasks' \in Seq(Nat) /\ ran' \in 0..Len(tasks')
    BY <1>11, <2>1 DEF ClearTasks
  <2>3. QED
    BY <1>11, <2>2 DEF ClearTasks, ownerVars
<1>8. ASSUME NEW w \in Workers, Swap(w)
      PROVE  TaskTypeOK'
  <2>1. /\ tasks \o tasksBuf \in Seq(Nat)
        /\ Len(tasks \o tasksBuf) = Len(tasks) + Len(tasksBuf)
    BY ConcatProperties
  <2>2. ran \in 0..Len(tasks \o tasksBuf)
    <3>1. Len(tasks) \in Nat /\ Len(tasksBuf) \in Nat
      OBVIOUS
    <3>2. QED
      BY <2>1, <3>1
  <2>3. QED
    BY <1>8, <2>1, <2>2 DEF Swap, ownerVars
<1>9. ASSUME NEW w \in Workers, RunTask(w)
      PROVE  TaskTypeOK'
  <2>1. tasks[ran + 1] \in Nat
    BY <1>9 DEF RunTask
  <2>2. QED
    BY <1>9, <2>1 DEF RunTask, ownerVars
<1>10. CASE UNCHANGED vars
  BY <1>10 DEF vars, taskVars
<1>12. QED
  BY <1>1, <1>2, <1>3, <1>4, <1>5, <1>6, <1>7, <1>8, <1>9, <1>10, <1>11
  DEF TaskServerNext, OwnerStep, LoopStep

LEMMA LoopKept == QueueInv /\ [TaskServerNext]_vars => AtLoop'
<1> SUFFICES ASSUME QueueInv, [TaskServerNext]_vars
             PROVE  AtLoop'
  OBVIOUS
<1> USE DEF QueueInv, JoinInv, ThreadTypeOK, TaskTypeOK, AtLoop
<1>1. CASE AddTask
  BY <1>1 DEF AddTask, loopVars, threadVars
<1>2. ASSUME NEW c \in Callers, StartServer(c)
      PROVE  AtLoop'
  BY <1>2 DEF StartServer, Start, taskVars
<1>3. ASSUME NEW c \in Callers,
             \/ CloseServer(c) \/ CloseServerIdle(c) \/ CloseThreadDone(c)
             \/ DrainTask(c) \/ DrainEnd(c)
      PROVE  AtLoop'
  BY <1>3 DEF CloseServer, CloseCall, CloseServerIdle, CloseThreadDone, DrainTask, DrainEnd,
              loopVars, threadVars
<1>4. ASSUME NEW c \in Callers, CloseStep(c) \/ SpuriousStep(c)
      PROVE  AtLoop'
  BY <1>4 DEF CloseStep, CloseLock, CloseStale, CloseWait, CloseResume, CloseReturn,
              SpuriousStep, CloseSpuriousWake, taskVars
<1>5. ASSUME NEW w \in Workers, OnWorkStep(w)
      PROVE  AtLoop'
  BY <1>5 DEF OnWorkStep, OnRun, OnDestory, OnWorkEnd, taskVars
<1>6. ASSUME NEW w \in Workers, LoopExit(w)
      PROVE  AtLoop'
  BY <1>6 DEF LoopExit, BodyFlag, taskVars
<1>7. ASSUME NEW w \in Workers, LoopStep(w), ~LoopExit(w)
      PROVE  AtLoop'
  <2>1. wpc' = wpc /\ wpc[w] = "body"
    BY <1>7 DEF LoopStep, LoopTest, SizeCheck, Swap, NoTask, RunTask, ClearTasks, InLoop, threadVars
  <2>2. \A v \in Workers : v # w => lpc[v] = "test"
    BY <2>1 DEF Active
  <2>3. (lpc[w] # "run" => tasks = <<>>) /\ (lpc'[w] # "run" => tasks' = <<>>)
    BY <1>7, <2>2 DEF LoopStep, LoopTest, SizeCheck, Swap, NoTask, RunTask, ClearTasks, InLoop
  <2>4. \A v \in Workers : v # w => lpc'[v] = lpc[v]
    BY <1>7 DEF LoopStep, LoopTest, SizeCheck, Swap, NoTask, RunTask, ClearTasks
  <2>5. QED
    BY <2>1, <2>2, <2>3, <2>4
<1>8. CASE UNCHANGED vars
  BY <1>8 DEF vars, taskVars, threadVars
<1>9. QED
  BY <1>1, <1>2, <1>3, <1>4, <1>5, <1>6, <1>7, <1>8 DEF TaskServerNext, OwnerStep

LEMMA CloseKept ==
    ASSUME OneOwner, QueueInv, [TaskServerNext]_vars
    PROVE  AtClose'
<1> USE DEF QueueInv, JoinInv, ThreadTypeOK, TaskTypeOK, AtClose, OneOwner
<1>1. CASE AddTask
  BY <1>1 DEF AddTask, loopVars, ownerVars, threadVars, Alive
<1>2. ASSUME NEW c \in Callers, StartServer(c)
      PROVE  AtClose'
  BY <1>2 DEF StartServer, Start, taskVars, Alive
<1>3. ASSUME NEW c \in Callers, CloseServer(c)
      PROVE  AtClose'
  BY <1>3 DEF CloseServer, CloseCall, loopVars, Alive
<1>4. ASSUME NEW c \in Callers, CloseServerIdle(c) \/ CloseThreadDone(c)
      PROVE  AtClose'
  BY <1>4 DEF CloseServerIdle, CloseThreadDone, loopVars, threadVars, Alive
<1>5. ASSUME NEW c \in Callers, DrainTask(c)
      PROVE  AtClose'
  BY <1>5 DEF DrainTask, loopVars, threadVars, Alive
<1>6. ASSUME NEW c \in Callers, DrainEnd(c)
      PROVE  AtClose'
  BY <1>6 DEF DrainEnd, loopVars, threadVars, Alive
<1>7. ASSUME NEW c \in Callers, CloseStep(c)
      PROVE  AtClose'
  BY <1>7 DEF CloseStep, CloseLock, CloseStale, CloseWait, CloseResume, CloseReturn,
              taskVars, Alive
<1>8. ASSUME NEW c \in Callers, SpuriousStep(c)
      PROVE  AtClose'
  BY <1>8 DEF SpuriousStep, CloseSpuriousWake, taskVars, Alive
<1>9. ASSUME NEW w \in Workers, OnWorkStep(w) \/ LoopExit(w)
      PROVE  AtClose'
  BY <1>9 DEF OnWorkStep, OnRun, OnDestory, OnWorkEnd, LoopExit, BodyFlag, taskVars, Alive
<1>10. ASSUME NEW w \in Workers, LoopStep(w), ~LoopExit(w)
       PROVE  AtClose'
  <2>1. UNCHANGED <<isRun, cpc, opc, pos, closes>> /\ (tasksBuf' = tasksBuf \/ wpc[w] = "body")
    BY <1>10 DEF LoopStep, LoopTest, SizeCheck, Swap, NoTask, RunTask, ClearTasks, InLoop,
                 threadVars, ownerVars
  <2>2. wpc[w] = "body" => \A c \in Callers : opc[c] # "drain"
    BY SMTT(30), ThreadAssumption DEF Active, ClosePhase
  <2>3. QED
    BY <2>1, <2>2 DEF Alive
<1>11. CASE UNCHANGED vars
  BY <1>11 DEF vars, taskVars, threadVars, Alive
<1>12. QED
  BY <1>1, <1>2, <1>3, <1>4, <1>5, <1>6, <1>7, <1>8, <1>9, <1>10, <1>11
  DEF TaskServerNext, OwnerStep

(* Nobody runs tasks of _tasksBuf while a thread is in its loop. *)
LEMMA NoneDrained ==
    ASSUME OneOwner, QueueInv, NEW w \in Workers, wpc[w] = "body"
    PROVE  /\ Alive
           /\ \A c \in Callers : opc[c] # "drain"
           /\ Drained = 0
<1>1. w \in Active
  BY DEF Active
<1>2. \A c \in Callers : opc[c] # "drain"
  <2>1. SUFFICES ASSUME NEW c \in Callers, opc[c] = "drain" PROVE FALSE
    OBVIOUS
  <2>2. ~isRun /\ cpc[c] = "idle"
    BY <2>1 DEF QueueInv, AtClose
  <2>3. mutex \in Callers
    BY <1>1, <2>2 DEF QueueInv, JoinInv, ThreadTypeOK
  <2>4. ClosePhase(mutex) /\ mutex = c
    BY <2>3 DEF QueueInv, JoinInv, OneOwner
  <2>5. QED
    BY <2>2, <2>4 DEF ClosePhase
<1>3. Alive
  <2>1. SUFFICES ASSUME ~Alive PROVE FALSE
    OBVIOUS
  <2>2. ~isRun /\ \A c \in Callers : opc[c] = "idle" /\ cpc[c] = "idle"
    BY <2>1 DEF QueueInv, AtClose
  <2>3. mutex = NoCaller
    BY <2>2 DEF QueueInv, JoinInv, ClosePhase, ThreadTypeOK
  <2>4. QED
    BY <1>1, <2>2, <2>3 DEF QueueInv, JoinInv
<1>4. QED
  BY <1>2, <1>3, DrainedIs

(* While the owner runs what is left, no thread is in its loop. *)
LEMMA NoneTaken ==
    ASSUME QueueInv, NEW c \in Callers, opc[c] = "drain", OneOwner
    PROVE  tasks = <<>> /\ ran = 0 /\ Len(tasks) = 0
<1>1. \A w \in Workers : wpc[w] # "body"
  BY NoneDrained
<1>2. \A w \in Workers : lpc[w] # "run"
  BY <1>1 DEF QueueInv, AtLoop
<1>3. tasks = <<>>
  BY <1>2 DEF QueueInv, AtLoop
<1>4. QED
  BY <1>3 DEF QueueInv, TaskTypeOK

LEMMA DrainedFits == QueueInv /\ OneOwner => Drained \in 0..Len(tasksBuf)
<1> SUFFICES ASSUME QueueInv, OneOwner
             PROVE  Drained \in 0..Len(tasksBuf)
  OBVIOUS
<1>1. CASE \E c \in Callers : opc[c] = "drain"
  BY <1>1, DrainedIs DEF QueueInv, AtClose, TaskTypeOK
<1>2. CASE \A c \in Callers : opc[c] # "drain"
  BY <1>2, DrainedIs DEF QueueInv, TaskTypeOK
<1>3. QED
  BY <1>1, <1>2

(* As long as nobody begins or ends to run what is left, Drained stays. *)
LEMMA DrainedKept ==
    ASSUME OneOwner, pos' = pos, closes' = closes,
           \A c \in Callers : opc'[c] = "drain" <=> opc[c] = "drain",
           tasksBuf' = tasksBuf \/ Alive
    PROVE  Drained' = Drained
<1>1. CASE \E c \in Callers : opc[c] = "drain"
  BY <1>1, DrainedIs, DrainedNext
<1>2. CASE \A c \in Callers : opc[c] # "drain"
  BY <1>2, DrainedIs, DrainedNext DEF Alive
<1>3. QED
  BY <1>1, <1>2

LEMMA NumberedKept ==
    ASSUME OneOwner, ClosedOnce, QueueInv, [TaskServerNext]_vars
    PROVE  Numbered'
<1>0. /\ Len(executed) \in Nat /\ Len(tasks) \in Nat /\ Len(tasksBuf) \in Nat /\ ran \in Nat
      /\ Drained \in 0..Len(tasksBuf)
  BY DrainedFits DEF QueueInv, TaskTypeOK
<1> USE DEF QueueInv, TaskTypeOK, Numbered
<1>1. CASE AddTask
  <2>1. /\ UNCHANGED <<tasks, ran, executed, opc, pos, closes>>
        /\ tasksBuf' = Append(tasksBuf, added + 1) /\ added' = added + 1
        /\ Drained' = Drained
    BY <1>1, DrainedKept DEF AddTask, loopVars, ownerVars
  <2>2. added = (Len(executed) + Len(tasks) - ran - Drained) + Len(tasksBuf)
    BY <1>0
  <2>3. /\ Len(tasksBuf') = Len(tasksBuf) + 1
        /\ CountsFrom(tasksBuf', Len(executed) + Len(tasks) - ran - Drained)
    BY <1>0, <2>1, <2>2, CountsAppend
  <2>4. QED
    BY <1>0, <2>1, <2>3
<1>2. ASSUME NEW c \in Callers,
             StartServer(c) \/ CloseServer(c) \/ CloseStep(c) \/ SpuriousStep(c)
      PROVE  Numbered'
  <2>1. /\ UNCHANGED <<tasks, ran, executed, tasksBuf, added, pos, closes>>
        /\ \A d \in Callers : opc'[d] = "drain" <=> opc[d] = "drain"
    BY <1>2 DEF StartServer, CloseServer, CloseStep, SpuriousStep, taskVars, loopVars
  <2>2. QED
    BY <2>1, DrainedKept
<1>3. ASSUME NEW c \in Callers, CloseServerIdle(c) \/ CloseThreadDone(c)
      PROVE  Numbered'
  <2>1. /\ UNCHANGED <<tasks, ran, executed, tasksBuf, added, closes>>
        /\ opc[c] # "drain" /\ opc'[c] = "drain" /\ pos'[c] = 1
    BY <1>3 DEF CloseServerIdle, CloseThreadDone, loopVars
  <2>2. Alive
    BY <1>3 DEF CloseServerIdle, CloseThreadDone, AtClose
  <2>3. Drained = 0 /\ Drained' = 0
    BY <2>1, <2>2, DrainedIs, DrainedNext DEF OneOwner
  <2>4. QED
    BY <2>1, <2>3
<1>4. ASSUME NEW c \in Callers, DrainTask(c)
      PROVE  Numbered'
  <2>1. Len(tasks) = 0 /\ ran = 0
    BY <1>4, NoneTaken DEF DrainTask
  <2>2. /\ UNCHANGED <<tasks, ran, tasksBuf, added>>
        /\ Drained = pos[c] - 1 /\ Drained' = pos[c] /\ pos[c] \in 1..Len(tasksBuf)
    BY SMTT(30), <1>4, DrainedIs, DrainedNext DEF DrainTask, loopVars
  <2>3. tasksBuf[pos[c]] = Len(executed) + 1
    <3>1. CountsFrom(tasksBuf, Len(executed) + 1 - pos[c])
      <4>1. Len(executed) + Len(tasks) - ran - Drained = Len(executed) + 1 - pos[c]
        BY <1>0, <2>1, <2>2
      <4>2. QED
        BY <4>1
    <3>2. tasksBuf[pos[c]] = Len(executed) + 1 - pos[c] + pos[c]
      BY <2>2, <3>1 DEF CountsFrom
    <3>3. Len(executed) + 1 - pos[c] + pos[c] = Len(executed) + 1
      <4>1. Len(executed) \in Nat /\ pos[c] \in Int
        BY <1>0, <2>2
      <4> HIDE DEF QueueInv, TaskTypeOK, Numbered
      <4>2. QED
        BY <4>1
    <3>4. QED
      BY <3>2, <3>3
  <2>4. executed' = Append(executed, 0 + Len(executed) + 1)
    <3>1. executed' = Append(executed, tasksBuf[pos[c]])
      BY <1>4 DEF DrainTask
    <3>2. QED
      BY <1>0, <2>3, <3>1
  <2>5. Len(executed') = Len(executed) + 1 /\ CountsFrom(executed', 0)
    BY <1>0, <2>4, CountsAppend
  <2>6. Len(executed') + Len(tasks') - ran' - Drained' = Len(executed) + Len(tasks) - ran - Drained
    BY SMTT(30), <1>0, <2>1, <2>2, <2>5
  <2>7. CountsFrom(tasks', Len(executed') - ran')
    BY <2>1, <2>2 DEF CountsFrom
  <2>8. CountsFrom(tasksBuf', Len(executed') + Len(tasks') - ran' - Drained')
    BY <2>2, <2>6
  <2>9. added' = Len(executed') + Len(tasks') - ran' + Len(tasksBuf') - Drained'
    BY SMTT(30), <1>0, <2>1, <2>2, <2>5
  <2>10. QED
    BY <2>5, <2>7, <2>8, <2>9
<1>5. ASSUME NEW c \in Callers, DrainEnd(c)
      PROVE  Numbered'
  <2>1. /\ UNCHANGED <<tasks, ran, executed, tasksBuf, added>>
        /\ Drained = pos[c] - 1 /\ pos[c] - 1 = Len(tasksBuf)
    <3>1. pos[c] > Len(tasksBuf) /\ opc[c] = "drain"
      BY <1>5 DEF DrainEnd
    <3>2. pos[c] - 1 <= Len(tasksBuf) /\ pos[c] \in Nat
      BY <3>1 DEF AtClose
    <3>3. UNCHANGED <<tasks, ran, executed, tasksBuf, added>>
      BY <1>5 DEF DrainEnd, loopVars
    <3>4. QED
      BY <1>0, <3>1, <3>2, <3>3, DrainedIs
  <2>2. ~Alive'
    BY <1>5, TaskServerAssumption DEF DrainEnd, Alive, ClosedOnce
  <2>3. \A d \in Callers : opc'[d] # "drain"
    BY <1>5 DEF DrainEnd, OneOwner
  <2>4. Drained' = Len(tasksBuf')
    BY <2>2, <2>3, DrainedNext
  <2>5. Drained' = Drained
    BY <2>1, <2>4
  <2>6. QED
    BY <2>1, <2>5
<1>6. ASSUME NEW w \in Workers, OnWorkStep(w) \/ LoopExit(w)
      PROVE  Numbered'
  <2>1. UNCHANGED taskVars
    BY <1>6 DEF OnWorkStep, LoopExit
  <2>2. QED
    BY <2>1, DrainedKept DEF taskVars
<1>7. ASSUME NEW w \in Workers,
             \/ LoopTest(w) \/ SizeCheck(w) \/ NoTask(w)
             \/ Swap(w) \/ RunTask(w) \/ ClearTasks(w)
      PROVE  Numbered'
  <2>1. wpc[w] = "body" /\ UNCHANGED <<opc, pos, closes, added>>
    BY <1>7 DEF LoopTest, SizeCheck, NoTask, Swap, RunTask, ClearTasks, InLoop, ownerVars
  <2>2. Drained = 0 /\ Drained' = 0
    BY <2>1, NoneDrained, DrainedNext DEF Alive
  <2>3. CASE LoopTest(w) \/ SizeCheck(w) \/ NoTask(w)
    BY <2>2, <2>3 DEF LoopTest, SizeCheck, NoTask
  <2>4. CASE Swap(w)
    <3>1. \A v \in Workers : lpc[v] # "run"
      <4>1. \A v \in Workers : lpc[v] = "run" => v \in Active /\ w \in Active
        BY <2>1 DEF AtLoop, Active
      <4>2. lpc[w] = "swap"
        BY <2>4 DEF Swap, InLoop
      <4>3. QED
        BY <4>1, <4>2 DEF JoinInv
    <3>2. tasks = <<>> /\ Len(tasks) = 0 /\ ran = 0
      BY <3>1 DEF AtLoop
    <3>3. tasks' = tasksBuf /\ Len(tasksBuf') = 0 /\ ran' = 0 /\ executed' = executed
      BY <2>4, <3>2 DEF Swap
    <3>4. CountsFrom(tasks', Len(executed') - ran')
      BY <1>0, <2>2, <3>2, <3>3
    <3>5. CountsFrom(tasksBuf', Len(executed') + Len(tasks') - ran' - Drained')
      BY <3>3 DEF CountsFrom
    <3>6. QED
      BY <1>0, <2>1, <2>2, <3>2, <3>3, <3>4, <3>5
  <2>5. CASE RunTask(w)
    <3>1. tasks[ran + 1] = Len(executed) + 1
      BY <1>0, <2>5 DEF RunTask, CountsFrom
    <3>2. executed' = Append(executed, 0 + Len(executed) + 1) /\ ran' = ran + 1
      BY <2>5, <3>1 DEF RunTask
    <3>3. Len(executed') = Len(executed) + 1 /\ CountsFrom(executed', 0)
      BY <1>0, <3>2, CountsAppend
    <3>4. tasks' = tasks /\ tasksBuf' = tasksBuf
      BY <2>5 DEF RunTask
    <3>5. Len(executed') - ran' = Len(executed) - ran
      BY <1>0, <3>2, <3>3
    <3>6. QED
      BY <1>0, <2>1, <2>2, <3>2, <3>3, <3>4, <3>5
  <2>6. CASE ClearTasks(w)
    <3>1. /\ tasks' = <<>> /\ Len(tasks') = 0 /\ ran' = 0 /\ ran = Len(tasks)
          /\ UNCHANGED <<tasksBuf, executed>>
      BY <2>6 DEF ClearTasks
    <3>2. CountsFrom(tasks', Len(executed') - ran')
      BY <3>1 DEF CountsFrom
    <3>3. QED
      BY <1>0, <2>1, <2>2, <3>1, <3>2
  <2>7. QED
    BY <1>7, <2>3, <2>4, <2>5, <2>6
<1>8. CASE UNCHANGED vars
  BY <1>8, DrainedKept DEF vars, taskVars
<1>9. QED
  BY <1>1, <1>2, <1>3, <1>4, <1>5, <1>6, <1>7, <1>8 DEF TaskServerNext, OwnerStep, LoopStep

LEMMA QueueStep ==
    ASSUME OneOwner, ClosedOnce, QueueInv, [TaskServerNext]_vars
    PROVE  QueueInv'
<1>1. JoinInv'
  BY StepOfThread, JoinNextInv, TaskServerAssumption DEF QueueInv
<1>2. TaskTypeOK'
  BY TypesKept DEF QueueInv
<1>3. QED
  BY <1>1, <1>2, LoopKept, CloseKept, NumberedKept DEF QueueInv

(* List by list, what has run and what waits are 1, 2, ..., added. *)
LEMMA NumberedConserves ==
    ASSUME QueueInv, OneOwner
    PROVE  Conservation
<1> DEFINE Rest == SubSeq(tasks, ran + 1, Len(tasks))
           RestBuf == SubSeq(tasksBuf, Drained + 1, Len(tasksBuf))
           All == executed \o (Rest \o RestBuf)
<1> USE DEF QueueInv, TaskTypeOK, Numbered
<1>1. /\ Drained \in 0..Len(tasksBuf)
      /\ Len(executed) \in Nat /\ Len(tasks) \in Nat /\ Len(tasksBuf) \in Nat
  BY DrainedFits
<1>2. Rest \in Seq(Nat) /\ Len(Rest) = Len(tasks) - ran /\ CountsFrom(Rest, Len(executed))
  <2>1. CountsFrom(Rest, Len(executed) - ran + ran) /\ Rest \in Seq(Nat) /\ Len(Rest) = Len(tasks) - ran
    BY <1>1, CountsRest
  <2>2. QED
    BY <1>1, <2>1
<1>3. /\ RestBuf \in Seq(Nat) /\ Len(RestBuf) = Len(tasksBuf) - Drained
      /\ CountsFrom(RestBuf, Len(executed) + Len(Rest))
  <2>1. /\ CountsFrom(RestBuf, Len(executed) + Len(tasks) - ran - Drained + Drained)
        /\ RestBuf \in Seq(Nat) /\ Len(RestBuf) = Len(tasksBuf) - Drained
    BY <1>1, CountsRest
  <2>2. Len(executed) + Len(tasks) - ran - Drained + Drained = Len(executed) + Len(Rest)
    <3>1. ran \in Int /\ Drained \in Int
      BY <1>1
    <3> HIDE DEF QueueInv, TaskTypeOK, Numbered, Rest, RestBuf, All
    <3>2. QED
      BY <1>1, <1>2, <3>1
  <2>3. QED
    BY <2>1, <2>2
<1> HIDE DEF Rest, RestBuf
<1>4. /\ Rest \o RestBuf \in Seq(Nat) /\ Len(Rest \o RestBuf) = Len(Rest) + Len(RestBuf)
      /\ CountsFrom(Rest \o RestBuf, 0 + Len(executed))
  <2>1. CountsFrom(Rest, 0 + Len(executed)) /\ CountsFrom(RestBuf, 0 + Len(executed) + Len(Rest))
        /\ 0 + Len(executed) \in Int
    BY <1>1, <1>2, <1>3
  <2>2. QED
    BY <1>2, <1>3, <2>1, CountsConcat
<1>5. All \in Seq(Nat) /\ Len(All) = added /\ CountsFrom(All, 0)
  <2>1. All \in Seq(Nat) /\ CountsFrom(All, 0) /\ Len(All) = Len(executed) + Len(Rest \o RestBuf)
    <3>1. CountsFrom(executed, 0) /\ executed \in Seq(Nat) /\ 0 \in Int
      OBVIOUS
    <3> HIDE DEF QueueInv, TaskTypeOK, Numbered
    <3>2. QED
      BY <1>4, <3>1, CountsConcat
  <2>2. QED
    BY <1>1, <1>2, <1>3, <1>4, <2>1
<1> HIDE DEF All
<1>6. All = [n \in 1..added |-> n]
  <2>1. DOMAIN All = 1..added /\ All = [n \in DOMAIN All |-> All[n]]
    BY <1>5
  <2>2. \A n \in 1..added : All[n] = n
    BY <1>5 DEF CountsFrom
  <2>3. QED
    BY <2>1, <2>2
<1>7. QED
  BY <1>6 DEF Conservation, Waiting, Rest, RestBuf, All

(* No task is lost, run twice or overtaken, whichever of the two threads   *)
(* runs it and wherever the unlocked size test and the two lists catch it. *)
THEOREM TasksConserved ==
    ASSUME OneOwner, ClosedOnce
    PROVE  TaskServerSpec => []Conservation
<1>1. TaskServerInit => QueueInv
  BY QueueHoldsFirst
<1>2. QueueInv /\ [TaskServerNext]_vars => QueueInv'
  BY QueueStep
<1>3. QueueInv => Conservation
  BY NumberedConserves
<1>4. QED
  BY <1>1, <1>2, <1>3, PTL DEF TaskServerSpec

(* The task that runs next, on either thread, is the one after the last    *)
(* that ran, and it was handed over before. *)
LEMMA RunsNext ==
    ASSUME QueueInv, OneOwner,
           \/ \E c \in Callers : DrainTask(c)
           \/ \E w \in Workers : RunTask(w)
    PROVE  Queue!Execute
<1>0. /\ Len(executed) \in Nat /\ Len(tasks) \in Nat /\ Len(tasksBuf) \in Nat
      /\ ran \in 0..Len(tasks) /\ Drained \in 0..Len(tasksBuf)
  BY DrainedFits DEF QueueInv, TaskTypeOK
<1>1. ASSUME NEW c \in Callers, DrainTask(c)
      PROVE  Queue!Execute
  <2>1. Len(tasks) = 0 /\ ran = 0
    BY <1>1, NoneTaken DEF DrainTask
  <2>2. Drained = pos[c] - 1 /\ pos[c] \in 1..Len(tasksBuf)
    BY <1>1, DrainedIs DEF DrainTask, QueueInv, TaskTypeOK
  <2>3. Len(executed) + Len(tasks) - ran - Drained = Len(executed) + 1 - pos[c]
    BY <1>0, <2>1, <2>2
  <2>4. CountsFrom(tasksBuf, Len(executed) + 1 - pos[c])
    BY <2>3 DEF QueueInv, Numbered
  <2>5. tasksBuf[pos[c]] = Len(executed) + 1 - pos[c] + pos[c]
    BY <2>2, <2>4 DEF CountsFrom
  <2>6. tasksBuf[pos[c]] = Len(executed) + 1
    BY <1>0, <2>2, <2>5
  <2>7. Len(executed) < added
    <3>1. added = Len(executed) + Len(tasks) - ran + Len(tasksBuf) - Drained
      BY DEF QueueInv, Numbered
    <3>2. QED
      BY <1>0, <2>1, <2>2, <3>1
  <2>8. QED
    BY <1>1, <2>6, <2>7 DEF DrainTask, Queue!Execute
<1>2. ASSUME NEW w \in Workers, RunTask(w)
      PROVE  Queue!Execute
  <2>1. Drained = 0
    BY <1>2, NoneDrained DEF RunTask, InLoop
  <2>2. ran + 1 \in 1..Len(tasks)
    BY <1>0, <1>2 DEF RunTask
  <2>3. tasks[ran + 1] = Len(executed) - ran + (ran + 1)
    BY <2>2 DEF CountsFrom, QueueInv, Numbered
  <2>4. tasks[ran + 1] = Len(executed) + 1
    BY <1>0, <2>3
  <2>5. Len(executed) < added
    BY <1>0, <2>1, <2>2 DEF QueueInv, Numbered
  <2>6. QED
    BY <1>2, <2>4, <2>5 DEF RunTask, Queue!Execute
<1>3. QED
  BY <1>1, <1>2

(* A step that hands over a task adds one, a step that runs one executes   *)
(* the next, and every other step changes neither. *)
LEMMA QueueStepRefines ==
    ASSUME QueueInv, OneOwner, [TaskServerNext]_vars
    PROVE  [Queue!Next]_<<added, executed>>
<1>1. CASE AddTask
  BY <1>1 DEF AddTask, Queue!Next, Queue!Add
<1>2. CASE (\E c \in Callers : DrainTask(c)) \/ \E w \in Workers : RunTask(w)
  BY <1>2, RunsNext DEF Queue!Next
<1>3. ASSUME NEW c \in Callers, OwnerStep(c) \/ CloseStep(c) \/ SpuriousStep(c), ~DrainTask(c)
      PROVE  UNCHANGED <<added, executed>>
  BY <1>3 DEF OwnerStep, CloseStep, SpuriousStep, StartServer, CloseServer, CloseServerIdle,
              CloseThreadDone, DrainEnd, taskVars
<1>4. ASSUME NEW w \in Workers, OnWorkStep(w) \/ LoopStep(w), ~RunTask(w)
      PROVE  UNCHANGED <<added, executed>>
  BY <1>4 DEF OnWorkStep, LoopStep, LoopTest, LoopExit, SizeCheck, Swap, NoTask, ClearTasks, taskVars
<1>5. CASE UNCHANGED vars
  BY <1>5 DEF vars, taskVars
<1>6. QED
  BY <1>1, <1>2, <1>3, <1>4, <1>5 DEF TaskServerNext

(* The two lists, the loop and Close() implement the first-in first-out    *)
(* queue that runs each task once. *)
THEOREM TaskQueueRefined ==
    ASSUME OneOwner, ClosedOnce
    PROVE  TaskServerSpec => ImplementsTaskQueue
<1>1. TaskServerInit => QueueInv
  BY QueueHoldsFirst
<1>2. QueueInv /\ [TaskServerNext]_vars => QueueInv'
  BY QueueStep
<1>3. TaskServerInit => Queue!Init
  BY DEF TaskServerInit, Queue!Init
<1>4. QueueInv /\ [TaskServerNext]_vars => [Queue!Next]_<<added, executed>>
  BY QueueStepRefines
<1>5. QED
  BY <1>1, <1>2, <1>3, <1>4, PTL DEF TaskServerSpec, ImplementsTaskQueue, Queue!Spec

=============================================================================
