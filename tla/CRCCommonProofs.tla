-------------------------- MODULE CRCCommonProofs ---------------------------
(***************************************************************************)
(* What the servers are made of. CRCSemaphore is a counting semaphore,     *)
(* for any set of threads: the accounting invariants and the refinement    *)
(* of module Semaphore.                                                    *)
(*                                                                         *)
(* No work server with a socket is destroyed under its thread, for any     *)
(* number of them and whoever drops the last shared_ptr.                   *)
(*                                                                         *)
(* The logger keeps the lines of each thread in order, for any number of   *)
(* threads and lines.                                                      *)
(*                                                                         *)
(* The stream of a message gives back what was put into it, for any fields *)
(* and any capacity.                                                       *)
(***************************************************************************)
EXTENDS CRCSemaphore, CRCServerShutdown, CRCLogger, CRCStream, FiniteSetTheorems, SequenceLemmas, TLAPS

(* CRCSemaphore. *)

(* The inductive invariant: Balance and NoLostWakeup speak of              *)
(* cardinalities, so the sets have to be known finite.                     *)
SemInv ==
    /\ SemTypeOK
    /\ IsFiniteSet(sleeping)
    /\ IsFiniteSet(notified)
    /\ Cardinality(sleeping) + Cardinality(notified) = wakeupCount + Owed
    /\ NoLostWakeup

(* One thread added to, or removed from, a finite set of threads. *)
LEMMA AddOne ==
    ASSUME NEW S, NEW t, IsFiniteSet(S), t \notin S
    PROVE  /\ IsFiniteSet(S \cup {t})
           /\ Cardinality(S \cup {t}) = Cardinality(S) + 1
  BY FS_AddElement

LEMMA DropOne ==
    ASSUME NEW S, NEW t, IsFiniteSet(S), t \in S
    PROVE  /\ IsFiniteSet(S \ {t})
           /\ Cardinality(S \ {t}) = Cardinality(S) - 1
  BY FS_RemoveElement

LEMMA SemInitInv == SemInit => SemInv
  BY FS_EmptySet DEF SemInit, SemInv, SemTypeOK, NoLostWakeup, Owed

(* notify_one() changes the two sets, never their total size. *)
LEMMA NotifyOneMoves ==
    ASSUME SemInv, NotifyOne
    PROVE  /\ sleeping' \subseteq Threads /\ notified' \subseteq Threads
           /\ sleeping' \cap notified' = {}
           /\ sleeping' \cup notified' = Pending
           /\ IsFiniteSet(sleeping') /\ IsFiniteSet(notified')
           /\ Cardinality(sleeping') + Cardinality(notified')
                = Cardinality(sleeping) + Cardinality(notified)
           /\ \/ sleeping = {} /\ Cardinality(notified') = Cardinality(notified)
              \/ Cardinality(notified') = Cardinality(notified) + 1
<1>1. CASE sleeping = {} /\ UNCHANGED <<sleeping, notified>>
  BY <1>1 DEF SemInv, SemTypeOK, Pending
<1>2. CASE \E t \in sleeping : /\ sleeping' = sleeping \ {t}
                               /\ notified' = notified \cup {t}
  <2>1. PICK t \in sleeping : /\ sleeping' = sleeping \ {t}
                              /\ notified' = notified \cup {t}
    BY <1>2
  <2>2. t \notin notified
    BY <2>1 DEF SemInv, SemTypeOK
  <2>3. /\ IsFiniteSet(sleeping \ {t}) /\ IsFiniteSet(notified \cup {t})
        /\ Cardinality(sleeping) \in Nat /\ Cardinality(notified) \in Nat
        /\ Cardinality(sleeping \ {t}) = Cardinality(sleeping) - 1
        /\ Cardinality(notified \cup {t}) = Cardinality(notified) + 1
    <3>1. IsFiniteSet(notified) /\ IsFiniteSet(sleeping)
      BY DEF SemInv
    <3>2. IsFiniteSet(sleeping \ {t}) /\ Cardinality(sleeping \ {t}) = Cardinality(sleeping) - 1
      BY <2>1, <3>1, DropOne
    <3>3. IsFiniteSet(notified \cup {t}) /\ Cardinality(notified \cup {t}) = Cardinality(notified) + 1
      BY <2>2, <3>1, AddOne
    <3>4. QED
      BY <3>1, <3>2, <3>3, FS_CardinalityType
  <2>4. QED
    BY <2>1, <2>2, <2>3 DEF SemInv, SemTypeOK, Pending
<1>3. QED
  BY <1>1, <1>2 DEF NotifyOne

LEMMA WakeupPreserves ==
    ASSUME SemInv, Wakeup
    PROVE  SemInv'
<1>0. Cardinality(sleeping) \in Nat /\ Cardinality(notified) \in Nat
  BY FS_CardinalityType DEF SemInv
<1>1. CASE WakeupBlocked
  <2>1. /\ sleeping' \subseteq Threads /\ notified' \subseteq Threads
        /\ sleeping' \cap notified' = {}
        /\ IsFiniteSet(sleeping') /\ IsFiniteSet(notified')
        /\ Cardinality(sleeping') + Cardinality(notified')
             = Cardinality(sleeping) + Cardinality(notified)
        /\ \/ sleeping = {} /\ Cardinality(notified') = Cardinality(notified)
           \/ Cardinality(notified') = Cardinality(notified) + 1
    BY <1>1, NotifyOneMoves DEF WakeupBlocked
  <2>2. SemTypeOK'
    BY <1>1, <2>1 DEF WakeupBlocked, SemInv, SemTypeOK
  <2>3. wakeupCount' + Owed' = wakeupCount + Owed
    BY <1>1 DEF WakeupBlocked, SomebodyBlocked, SemInv, SemTypeOK, Owed
  <2>4. NoLostWakeup'
    <3>1. CASE sleeping = {} /\ Cardinality(notified') = Cardinality(notified)
      <4>1. Cardinality(sleeping) = 0 /\ Owed > 0 /\ Owed \in Nat
        BY <1>1, <3>1, FS_EmptySet
        DEF WakeupBlocked, SomebodyBlocked, SemInv, SemTypeOK, Owed
      <4>2. QED
        BY <1>0, <1>1, <3>1, <4>1
        DEF WakeupBlocked, SemInv, SemTypeOK, NoLostWakeup
    <3>2. CASE Cardinality(notified') = Cardinality(notified) + 1
      BY <1>0, <1>1, <3>2 DEF WakeupBlocked, SemInv, SemTypeOK, NoLostWakeup
    <3>3. QED
      BY <2>1, <3>1, <3>2
  <2>5. QED
    BY <2>1, <2>2, <2>3, <2>4 DEF SemInv
<1>2. CASE WakeupBank
  BY <1>2
  DEF WakeupBank, SomebodyBlocked, SemInv, SemTypeOK, NoLostWakeup, Owed
<1>3. QED
  BY <1>1, <1>2 DEF Wakeup

LEMMA WaitPreserves ==
    ASSUME SemInv, NEW t \in Threads, Wait(t)
    PROVE  SemInv'
<1>0. Cardinality(sleeping) \in Nat /\ Cardinality(notified) \in Nat
  BY FS_CardinalityType DEF SemInv
<1>1. CASE WaitFast(t)
  BY <1>1 DEF WaitFast, SemInv, SemTypeOK, NoLostWakeup, Owed
<1>2. CASE WaitBarge(t)
  BY <1>0, <1>2 DEF WaitBarge, SemInv, SemTypeOK, NoLostWakeup, Owed
<1>3. CASE WaitSleep(t)
  <2>1. t \notin sleeping /\ t \notin notified
    BY <1>3 DEF WaitSleep, Pending
  <2>2. /\ IsFiniteSet(sleeping \cup {t})
        /\ Cardinality(sleeping \cup {t}) = Cardinality(sleeping) + 1
    BY <2>1, FS_AddElement DEF SemInv
  <2>3. QED
    BY <1>0, <1>3, <2>1, <2>2
    DEF WaitSleep, SemInv, SemTypeOK, NoLostWakeup, Owed
<1>4. QED
  BY <1>1, <1>2, <1>3 DEF Wait

LEMMA ResumePreserves ==
    ASSUME SemInv, NEW t \in Threads, Resume(t)
    PROVE  SemInv'
<1>0. Cardinality(sleeping) \in Nat /\ Cardinality(notified) \in Nat
  BY FS_CardinalityType DEF SemInv
<1>1. CASE ResumeTake(t)
  <2>1. /\ IsFiniteSet(notified \ {t})
        /\ Cardinality(notified \ {t}) = Cardinality(notified) - 1
    BY <1>1, FS_RemoveElement DEF ResumeTake, SemInv
  <2>2. QED
    BY <1>0, <1>1, <2>1 DEF ResumeTake, SemInv, SemTypeOK, NoLostWakeup, Owed
<1>2. CASE ResumeSleep(t)
  <2>1. t \in notified /\ t \notin sleeping
    BY <1>2 DEF ResumeSleep, SemInv, SemTypeOK
  <2>2. /\ IsFiniteSet(notified \ {t}) /\ IsFiniteSet(sleeping \cup {t})
        /\ Cardinality(notified \ {t}) = Cardinality(notified) - 1
        /\ Cardinality(sleeping \cup {t}) = Cardinality(sleeping) + 1
    <3>1. IsFiniteSet(notified) /\ IsFiniteSet(sleeping)
      BY DEF SemInv
    <3>2. IsFiniteSet(notified \ {t}) /\ Cardinality(notified \ {t}) = Cardinality(notified) - 1
      BY <2>1, <3>1, DropOne
    <3>3. IsFiniteSet(sleeping \cup {t}) /\ Cardinality(sleeping \cup {t}) = Cardinality(sleeping) + 1
      BY <2>1, <3>1, AddOne
    <3>4. QED
      BY <3>2, <3>3
  <2>3. SemTypeOK'
    BY <1>2 DEF ResumeSleep, SemInv, SemTypeOK
  <2>4. NoLostWakeup'
    <3>1. Cardinality(notified \ {t}) \in Nat
      BY <2>2, FS_CardinalityType
    <3>2. QED
      BY <1>2, <3>1 DEF ResumeSleep, NoLostWakeup
  <2>5. wakeupCount' + Owed' = wakeupCount + Owed
    BY <1>2 DEF ResumeSleep, Owed
  <2>6. Cardinality(sleeping') + Cardinality(notified')
          = Cardinality(sleeping) + Cardinality(notified)
    BY <1>0, <1>2, <2>2 DEF ResumeSleep
  <2>7. IsFiniteSet(sleeping') /\ IsFiniteSet(notified')
    BY <1>2, <2>2 DEF ResumeSleep
  <2>8. QED
    BY <2>3, <2>4, <2>5, <2>6, <2>7 DEF SemInv
<1>3. QED
  BY <1>1, <1>2 DEF Resume

LEMMA SpuriousWakePreserves ==
    ASSUME SemInv, NEW t \in Threads, SpuriousWake(t)
    PROVE  SemInv'
<1>0. Cardinality(sleeping) \in Nat /\ Cardinality(notified) \in Nat
  BY FS_CardinalityType DEF SemInv
<1>1. t \in sleeping /\ t \notin notified
  BY DEF SpuriousWake, SemInv, SemTypeOK
<1>2. /\ IsFiniteSet(sleeping \ {t}) /\ IsFiniteSet(notified \cup {t})
      /\ Cardinality(sleeping \ {t}) = Cardinality(sleeping) - 1
      /\ Cardinality(notified \cup {t}) = Cardinality(notified) + 1
  <2>1. IsFiniteSet(notified) /\ IsFiniteSet(sleeping)
    BY DEF SemInv
  <2>2. IsFiniteSet(sleeping \ {t}) /\ Cardinality(sleeping \ {t}) = Cardinality(sleeping) - 1
    BY <1>1, <2>1, DropOne
  <2>3. IsFiniteSet(notified \cup {t}) /\ Cardinality(notified \cup {t}) = Cardinality(notified) + 1
    BY <1>1, <2>1, AddOne
  <2>4. QED
    BY <2>2, <2>3
<1>3. SemTypeOK'
  BY DEF SpuriousWake, SemInv, SemTypeOK
<1>4. NoLostWakeup'
  BY <1>0, <1>2 DEF SpuriousWake, SemInv, SemTypeOK, NoLostWakeup
<1>5. QED
  BY <1>0, <1>2, <1>3, <1>4 DEF SpuriousWake, SemInv, Owed

LEMMA SemNextInv == SemInv /\ [SemNext]_semVars => SemInv'
<1>1. ASSUME SemInv, UNCHANGED semVars
      PROVE  SemInv'
  BY <1>1 DEF semVars, SemInv, SemTypeOK, NoLostWakeup, Owed
<1>2. QED
  BY <1>1, WakeupPreserves, WaitPreserves, ResumePreserves,
     SpuriousWakePreserves DEF SemNext

(* SemInv implies the invariants as the runs check them. *)
LEMMA SemInvImplies == SemInv => SemTypeOK /\ Balance /\ NoLostWakeup
<1>1. ASSUME SemInv
      PROVE  Cardinality(Pending) = Cardinality(sleeping) + Cardinality(notified)
  <2>1. Cardinality(sleeping \cap notified) = 0
    BY <1>1, FS_EmptySet DEF SemInv, SemTypeOK
  <2>2. Cardinality(sleeping \cup notified)
          = Cardinality(sleeping) + Cardinality(notified)
              - Cardinality(sleeping \cap notified)
    BY <1>1, FS_Union DEF SemInv
  <2>3. QED
    BY <1>1, <2>1, <2>2, FS_CardinalityType DEF Pending, SemInv
<1>2. QED
  BY <1>1 DEF SemInv, Balance

(* The counters of crc_semaphore.hpp keep their types. *)
THEOREM SemTypeCorrect == SemSpec => []SemTypeOK
<1>1. SemInv => SemTypeOK
  BY DEF SemInv
<1>2. QED
  BY <1>1, SemInitInv, SemNextInv, PTL DEF SemSpec

(* Every thread blocked in wait() is either already answered by a wakeup() *)
(* or still owed one by the negative counter.                              *)
THEOREM SemBalance == SemSpec => []Balance
<1>1. SemInv => Balance
  BY SemInvImplies
<1>2. QED
  BY <1>1, SemInitInv, SemNextInv, PTL DEF SemSpec

(* However notify_one(), spurious wake-ups and newcomers interleave, a     *)
(* wake-up that was given has a thread awake to take it.                   *)
THEOREM SemNoLostWakeup == SemSpec => []NoLostWakeup
<1>1. SemInv => NoLostWakeup
  BY DEF SemInv
<1>2. QED
  BY <1>1, SemInitInv, SemNextInv, PTL DEF SemSpec

(* Every step of the two counters is a step of the abstract semaphore or   *)
(* changes nothing it can see.                                             *)
LEMMA StepRefines ==
    SemInv /\ [SemNext]_semVars => [Abstract!Next]_<<Permits, Pending>>
<1>1. ASSUME SemInv, Wakeup
      PROVE  Abstract!Release
  <2>1. CASE WakeupBlocked
    <3>1. Pending' = Pending
      BY <1>1, <2>1, NotifyOneMoves DEF WakeupBlocked, Pending
    <3>2. Permits' = Permits + 1
      BY <1>1, <2>1
      DEF WakeupBlocked, SomebodyBlocked, Permits, SemInv, SemTypeOK
    <3>3. QED
      BY <3>1, <3>2 DEF Abstract!Release
  <2>2. CASE WakeupBank
    BY <1>1, <2>2
    DEF WakeupBank, SomebodyBlocked, Permits, Pending, SemInv, SemTypeOK,
        Abstract!Release
  <2>3. QED
    BY <1>1, <2>1, <2>2 DEF Wakeup
<1>2. ASSUME SemInv, NEW t \in Threads, Wait(t)
      PROVE  Abstract!Block(t) \/ Abstract!Acquire(t)
  <2>1. CASE WaitFast(t)
    BY <1>2, <2>1
    DEF WaitFast, Permits, Pending, SemInv, SemTypeOK, Abstract!Acquire
  <2>2. CASE WaitBarge(t)
    BY <1>2, <2>2
    DEF WaitBarge, Permits, Pending, SemInv, SemTypeOK, Abstract!Acquire
  <2>3. CASE WaitSleep(t)
    BY <1>2, <2>3
    DEF WaitSleep, Permits, Pending, SemInv, SemTypeOK, Abstract!Block
  <2>4. QED
    BY <1>2, <2>1, <2>2, <2>3 DEF Wait
<1>3. ASSUME SemInv, NEW t \in Threads, Resume(t)
      PROVE  Abstract!Unblock(t) \/ UNCHANGED <<Permits, Pending>>
  <2>1. CASE ResumeTake(t)
    BY <1>3, <2>1
    DEF ResumeTake, Permits, Pending, SemInv, SemTypeOK, Abstract!Unblock
  <2>2. CASE ResumeSleep(t)
    BY <1>3, <2>2 DEF ResumeSleep, Permits, Pending
  <2>3. QED
    BY <1>3, <2>1, <2>2 DEF Resume
<1>4. ASSUME SemInv, NEW t \in Threads, SpuriousWake(t)
      PROVE  UNCHANGED <<Permits, Pending>>
  BY <1>4 DEF SpuriousWake, Permits, Pending
<1>5. ASSUME UNCHANGED semVars
      PROVE  UNCHANGED <<Permits, Pending>>
  BY <1>5 DEF semVars, Permits, Pending
<1>6. QED
  BY <1>1, <1>2, <1>3, <1>4, <1>5 DEF SemNext, Abstract!Next

(* CRCSemaphore implements the counting semaphore: a thread leaves wait()  *)
(* only with a wake-up of its own.                                         *)
THEOREM SemRefines == SemSpec => ImplementsSemaphore
<1>1. SemInit => Abstract!Init
  BY DEF SemInit, Abstract!Init, Permits, Pending
<1>2. QED
  BY <1>1, SemInitInv, SemNextInv, StepRefines, PTL
  DEF SemSpec, ImplementsSemaphore, Abstract!Spec

-----------------------------------------------------------------------------

(* CRCServerShutdown. *)

(* Type correctness, as far as the proof needs it. *)
LifeTypeOK ==
    /\ bound \in BOOLEAN
    /\ workRun \in [Servers -> BOOLEAN]
    /\ object \in [Servers -> {"none", "alive", "joining", "freed"}]
    /\ workAt \in [Servers -> {"none", "begin", "loop", "exit", "ending", "done"}]
    /\ refs \in [Servers -> SUBSET {"main", "boss"}]
    /\ selfEnded \subseteq Servers

(* Before StartAll there are no work servers. *)
NotStarted ==
    mainAt \in {"init", "start"} =>
        /\ \A w \in Servers : object[w] = "none" /\ refs[w] = {} /\ workAt[w] = "none"
        /\ selfEnded = {}

(* A thread that ended itself is past its loop. *)
PastLoop == \A w \in selfEnded : workAt[w] \in {"ending", "done"}

(* Until Close() the vector of the boss refers to all of them. *)
InVector == mainAt = "serving" => \A w \in Servers : "main" \in refs[w]

(* Who is referred to lives. *)
Referred == \A w \in Servers : refs[w] # {} => object[w] = "alive"

(* The flag of a living work server's thread is cleared by that thread     *)
(* only. *)
FlagOwned == \A w \in Servers : object[w] = "alive" => workRun[w] \/ w \in selfEnded

LifeInv == LifeTypeOK /\ NotStarted /\ InVector /\ Referred /\ FlagOwned /\ PastLoop /\ WorkJoined

LEMMA LifeHoldsFirst == ShutdownInit => LifeInv
  BY DEF ShutdownInit, LifeInv, LifeTypeOK, NotStarted, InVector, Referred, FlagOwned, PastLoop, WorkJoined

(* A shared_ptr dropped: with the last one the destructor begins, and it   *)
(* waits for a thread that has not ended itself. *)
LEMMA DropKeeps ==
    ASSUME LifeInv, NEW who, NEW w \in Servers, Drop(who, w),
           mainAt \notin {"init", "start"}, mainAt = "serving" => who # "main",
           UNCHANGED <<mainAt, bound, workAt, selfEnded>>
    PROVE  LifeInv'
<1> USE DEF LifeInv, LifeTypeOK, NotStarted, InVector, Referred, FlagOwned, PastLoop, WorkJoined
<1>1. object[w] = "alive" /\ refs' \in [Servers -> SUBSET {"main", "boss"}]
  BY DEF Drop
<1>2. CASE refs[w] # {who}
  BY <1>1, <1>2 DEF Drop
<1>3. ASSUME refs[w] = {who}
      PROVE  mainAt # "serving"
  BY <1>3
<1>4. CASE refs[w] = {who} /\ bound /\ workRun[w]
  <2>1. /\ object' = [object EXCEPT ![w] = "joining"]
        /\ workRun' = [workRun EXCEPT ![w] = FALSE]
        /\ refs' = [refs EXCEPT ![w] = {}]
    BY <1>4 DEF Drop, DropLast, Joins
  <2>2. LifeTypeOK'
    BY <1>1, <2>1
  <2>3. NotStarted' /\ InVector'
    BY <1>3, <1>4
  <2>4. Referred' /\ FlagOwned' /\ PastLoop' /\ WorkJoined'
    BY <2>1
  <2>5. QED
    BY <2>2, <2>3, <2>4
<1>5. CASE refs[w] = {who} /\ ~(bound /\ workRun[w])
  <2>1. /\ object' = [object EXCEPT ![w] = "freed"]
        /\ workRun' = [workRun EXCEPT ![w] = @ /\ ~bound]
        /\ refs' = [refs EXCEPT ![w] = {}]
    BY <1>5 DEF Drop, DropLast, Joins
  <2>2. bound => w \in selfEnded /\ workAt[w] \in {"ending", "done"}
    BY <1>1, <1>5
  <2>3. LifeTypeOK'
    BY <1>1, <2>1
  <2>4. NotStarted' /\ InVector'
    BY <1>3, <1>5
  <2>5. Referred' /\ FlagOwned' /\ PastLoop' /\ WorkJoined'
    BY <2>1, <2>2
  <2>6. QED
    BY <2>3, <2>4, <2>5
<1>6. QED
  BY <1>2, <1>4, <1>5

LEMMA LifeStep == LifeInv /\ [ShutdownNext]_shutdownVars => LifeInv'
<1> SUFFICES ASSUME LifeInv, [ShutdownNext]_shutdownVars
             PROVE  LifeInv'
  OBVIOUS
<1> USE DEF LifeInv
<1>1. CASE OpenSocket
  BY <1>1 DEF OpenSocket, bossVars, workVars, LifeTypeOK, NotStarted, InVector, Referred, FlagOwned, PastLoop,
              WorkJoined
<1>2. CASE StartAll
  BY <1>2 DEF StartAll, LifeTypeOK, NotStarted, InVector, Referred, FlagOwned, PastLoop, WorkJoined
<1>3. CASE CloseSocket \/ CloseBoss \/ BossJoined
  BY <1>3 DEF CloseSocket, CloseBoss, BossJoined, bossVars, workVars, LifeTypeOK, NotStarted,
              InVector, Referred, FlagOwned, PastLoop, WorkJoined
<1>4. ASSUME NEW w \in Servers, ClearServer(w) \/ DestroyServer(w)
      PROVE  LifeInv'
  BY <1>4, DropKeeps DEF ClearServer, DestroyServer, mainVars
<1>5. CASE BossBegin \/ BossDestroyed \/ BossExit \/ BossEnd \/ BossLeave \/ BossAccept \/ BossFails
  BY <1>5 DEF BossBegin, BossDestroyed, BossExit, BossEnd, BossLeave, BossAccept, BossFails,
              mainVars, workVars, LifeTypeOK, NotStarted, InVector, Referred, FlagOwned, PastLoop, WorkJoined
<1>6. ASSUME NEW w \in Servers, BossScan(w)
      PROVE  LifeInv'
  <2>1. CASE mainAt = "serving"
    <3>1. /\ refs' = [refs EXCEPT ![w] = @ \cup {"boss"}]
          /\ UNCHANGED <<mainAt, bound, workAt, workRun, object, selfEnded>>
      BY <1>6, <2>1 DEF BossScan, mainVars
    <3>2. object[w] = "alive"
      BY <2>1 DEF InVector, Referred
    <3>3. QED
      BY <2>1, <3>1, <3>2 DEF LifeTypeOK, NotStarted, InVector, Referred, FlagOwned, PastLoop, WorkJoined
  <2>2. CASE mainAt # "serving"
    BY <1>6, <2>2 DEF BossScan, mainVars, LifeTypeOK, NotStarted, InVector, Referred,
                      FlagOwned, PastLoop, WorkJoined
  <2>3. QED
    BY <2>1, <2>2
<1>7. ASSUME NEW w \in Servers, BossDeal(w)
      PROVE  LifeInv'
  BY <1>7, DropKeeps DEF BossDeal, mainVars, NotStarted, Drop
<1>8. ASSUME NEW w \in Servers, WorkLoop(w) \/ WorkBreak(w) \/ WorkExit(w)
      PROVE  LifeInv'
  <2>1. /\ UNCHANGED <<mainAt, bound, refs, object>>
        /\ selfEnded \subseteq selfEnded'
        /\ \A v \in Servers : workRun'[v] # workRun[v] => v \in selfEnded'
    BY <1>8 DEF WorkLoop, WorkBreak, WorkExit, mainVars, bossVars, LifeTypeOK
  <2>2. LifeTypeOK'
    BY <1>8 DEF WorkLoop, WorkBreak, WorkExit, WorkGoto, mainVars, bossVars, LifeTypeOK
  <2>3. /\ \A v \in Servers : workAt[v] = "done" => workAt'[v] = "done"
        /\ \A v \in Servers : workAt[v] = "ending" => workAt'[v] \in {"ending", "done"}
    BY <1>8 DEF WorkLoop, WorkBreak, WorkExit, WorkGoto, LifeTypeOK
  <2>4. PastLoop'
    <3>1. CASE WorkExit(w)
      BY <2>3, <3>1 DEF WorkExit, WorkGoto, LifeTypeOK, LifeInv, PastLoop
    <3>2. CASE WorkLoop(w) \/ WorkBreak(w)
      <4>1. UNCHANGED selfEnded /\ selfEnded \subseteq Servers
        BY <3>2 DEF WorkLoop, WorkBreak, LifeInv, LifeTypeOK
      <4>2. QED
        BY <2>3, <4>1 DEF PastLoop
    <3>3. QED
      BY <1>8, <3>1, <3>2
  <2>5. mainAt \notin {"init", "start"}
    BY <1>8 DEF WorkLoop, WorkBreak, WorkExit, NotStarted
  <2>6. NotStarted' /\ InVector' /\ Referred' /\ FlagOwned'
    BY <2>1, <2>5 DEF NotStarted, InVector, Referred, FlagOwned
  <2>7. WorkJoined'
    BY <2>1, <2>3 DEF WorkJoined
  <2>8. QED
    BY <2>2, <2>4, <2>6, <2>7
<1>9. ASSUME NEW w \in Servers, Joined(w)
      PROVE  LifeInv'
  BY <1>9 DEF Joined, mainVars, bossVars, LifeTypeOK, NotStarted, InVector, Referred, FlagOwned, PastLoop,
              WorkJoined
<1>10. CASE UNCHANGED shutdownVars
  BY <1>10 DEF shutdownVars, LifeTypeOK, NotStarted, InVector, Referred, FlagOwned, PastLoop, WorkJoined
<1>11. QED
  BY <1>1, <1>2, <1>3, <1>4, <1>5, <1>6, <1>7, <1>8, <1>9, <1>10
     DEF ShutdownNext, MainStep, BossStep, WorkStep

(* A work server that had a socket is freed only when its thread has ended *)
(* or has left its loop by itself: the destructor (crc_work_server.hpp     *)
(* 294-302) waits for a thread that runs, whether main or the boss thread  *)
(* runs it, and one that ended itself has only its signal left to give.    *)
THEOREM ThreadsOutlived == ShutdownSpec => []WorkJoined
<1>1. LifeInv => WorkJoined
  BY DEF LifeInv
<1>2. QED
  BY LifeHoldsFirst, LifeStep, <1>1, PTL DEF ShutdownSpec

-----------------------------------------------------------------------------

(* CRCLogger. *)

LinesAll == Writers \X Nat \X {1, 2}

(* LinesOf() on what the lines are made of. *)
Picks(w, lines) == [i \in 1..Len(lines) |-> IF lines[i][1] = w THEN <<lines[i]>> ELSE <<>>]

LEMMA PicksType ==
    ASSUME NEW w, NEW S, NEW s \in Seq(S)
    PROVE  Picks(w, s) \in Seq(Seq(S)) /\ Len(Picks(w, s)) = Len(s) /\ LinesOf(w, s) \in Seq(S)
<1>1. \A i \in 1..Len(s) : s[i] \in S
  BY ElementOfSeq
<1>2. \A i \in 1..Len(s) : <<s[i]>> \in Seq(S) /\ <<>> \in Seq(S)
  BY <1>1, EmptySeq
<1>3. Picks(w, s) \in Seq(Seq(S)) /\ Len(Picks(w, s)) = Len(s)
  BY <1>2 DEF Picks
<1>4. LinesOf(w, s) = FlattenSeq(Picks(w, s))
  BY DEF LinesOf, Picks
<1>5. QED
  BY <1>3, <1>4, FlattenType

(* Of lines that follow each other those of the thread follow each other. *)
Splits(w, s, t) == LinesOf(w, s \o t) = LinesOf(w, s) \o LinesOf(w, t)

LEMMA LinesSplit ==
    ASSUME NEW w, NEW S, NEW s \in Seq(S), NEW t \in Seq(S) PROVE Splits(w, s, t)
<1>1. PICK r \in Seq(S) : r = s \o t
  BY ConcatProperties
<1>2. Chained(s, t, r)
  BY <1>1, Chain
<1>3. /\ Picks(w, s) \in Seq(Seq(S)) /\ Picks(w, t) \in Seq(Seq(S)) /\ Picks(w, r) \in Seq(Seq(S))
      /\ Len(Picks(w, s)) = Len(s) /\ Len(Picks(w, t)) = Len(t) /\ Len(Picks(w, r)) = Len(r)
  BY PicksType
<1>4. PICK q \in Seq(Seq(S)) : q = Picks(w, s) \o Picks(w, t)
  BY <1>3, ConcatProperties
<1>5. Chained(Picks(w, s), Picks(w, t), q)
  BY <1>3, <1>4, Chain
<1>6. Len(s) \in Nat /\ Len(t) \in Nat
  OBVIOUS
<1>7. Len(q) = Len(Picks(w, r)) /\ Len(q) = Len(s) + Len(t)
  BY <1>2, <1>3, <1>5 DEF Chained
<1>8. ASSUME NEW i \in 1..(Len(s) + Len(t)) PROVE q[i] = Picks(w, r)[i]
  <2>1. q[i] = IF i <= Len(s) THEN Picks(w, s)[i] ELSE Picks(w, t)[i - Len(s)]
    BY <1>3, <1>5 DEF Chained
  <2>2. r[i] = IF i <= Len(s) THEN s[i] ELSE t[i - Len(s)]
    BY <1>2 DEF Chained
  <2>3. i \in 1..Len(r)
    BY <1>2 DEF Chained
  <2>4. CASE i <= Len(s)
    <3>1. i \in 1..Len(s)
      BY <1>6, <2>4
    <3>2. QED
      BY <2>1, <2>2, <2>3, <2>4, <3>1 DEF Picks
  <2>5. CASE ~(i <= Len(s))
    <3>1. i - Len(s) \in 1..Len(t)
      BY <1>6, <2>5
    <3>2. QED
      BY <2>1, <2>2, <2>3, <2>5, <3>1 DEF Picks
  <2>6. QED
    BY <2>4, <2>5
<1>9. q = Picks(w, r)
  BY <1>3, <1>7, <1>8, SeqEqual
<1>10. FlattenSeq(q) = FlattenSeq(Picks(w, s)) \o FlattenSeq(Picks(w, t))
  BY <1>3, <1>4, FlattenConcat
<1>11. QED
  BY <1>1, <1>9, <1>10 DEF Splits, LinesOf, Picks

LEMMA NoLines == ASSUME NEW w PROVE LinesOf(w, <<>>) = <<>>
<1>1. Picks(w, <<>>) = <<>>
  BY DEF Picks
<1>2. LinesOf(w, <<>>) = FlattenSeq(Picks(w, <<>>))
  BY DEF LinesOf, Picks
<1>3. QED
  BY <1>1, <1>2, FlattenNothing

LEMMA OneLine ==
    ASSUME NEW w, NEW l PROVE LinesOf(w, <<l>>) = IF l[1] = w THEN <<l>> ELSE <<>>
<1> DEFINE x == IF l[1] = w THEN <<l>> ELSE <<>>
<1>1. x \in Seq({l})
  <2>1. <<l>> \in Seq({l}) /\ <<>> \in Seq({l})
    BY EmptySeq
  <2>2. QED
    BY <2>1
<1>2. Picks(w, <<l>>) = <<x>>
  BY DEF Picks
<1>3. PICK e \in Seq(Seq({l})) : e = <<>>
  BY EmptySeq
<1>4. FlattenSeq(<<x>>) = <<>> \o x
  <2>1. FlattenSeq(Append(e, x)) = FlattenSeq(e) \o x
    BY <1>1, FlattenAppend
  <2>2. Append(e, x) = <<x>>
    BY <1>3
  <2>3. QED
    BY <1>3, <2>1, <2>2, FlattenNothing
<1>5. <<>> \o x = x
  BY <1>1, ConcatEmptySeq
<1>6. LinesOf(w, <<l>>) = FlattenSeq(Picks(w, <<l>>))
  BY DEF LinesOf, Picks
<1>7. QED
  BY <1>2, <1>4, <1>5, <1>6

(* Every one of these lines is of thread v. *)
By(v, lines) == \A i \in 1..Len(lines) : lines[i][1] = v

LEMMA OwnLines ==
    ASSUME NEW v, NEW w, NEW S, NEW s \in Seq(S), By(v, s)
    PROVE  LinesOf(w, s) = IF v = w THEN s ELSE <<>>
<1> DEFINE T == {n \in Nat : \A u \in Seq(S) :
                   Len(u) = n /\ By(v, u) => LinesOf(w, u) = IF v = w THEN u ELSE <<>>}
<1>1. 0 \in T
  <2>1. SUFFICES ASSUME NEW u \in Seq(S), Len(u) = 0
                 PROVE  LinesOf(w, u) = IF v = w THEN u ELSE <<>>
    OBVIOUS
  <2>2. u = <<>>
    BY <2>1
  <2>3. QED
    BY <2>2, NoLines
<1>2. ASSUME NEW n \in Nat, n \in T PROVE n + 1 \in T
  <2>1. SUFFICES ASSUME NEW u \in Seq(S), Len(u) = n + 1, By(v, u)
                 PROVE  LinesOf(w, u) = IF v = w THEN u ELSE <<>>
    OBVIOUS
  <2>2. u # <<>>
    BY <2>1, EmptySeq
  <2>3. PICK t \in Seq(S), l \in S : u = Append(t, l)
    BY <2>2, SequenceEmptyOrAppend
  <2>4. Len(t) = n /\ u[n + 1] = l /\ \A i \in 1..n : u[i] = t[i]
    BY <2>1, <2>3, AppendProperties
  <2>5. By(v, t) /\ l[1] = v
    BY <2>1, <2>4 DEF By
  <2>6. LinesOf(w, t) = IF v = w THEN t ELSE <<>>
    BY <1>2, <2>4, <2>5
  <2>7. PICK one \in Seq(S) : one = <<l>> /\ u = t \o one
    <3>1. <<l>> \in Seq(S)
      OBVIOUS
    <3>2. Append(t, l) = t \o <<l>>
      BY AppendIsConcat
    <3>3. QED
      BY <2>3, <3>1, <3>2
  <2>8. LinesOf(w, one) = IF v = w THEN one ELSE <<>>
    BY <2>5, <2>7, OneLine
  <2>9. Splits(w, t, one)
    BY LinesSplit
  <2>10. LinesOf(w, u) = LinesOf(w, t) \o LinesOf(w, one)
    BY <2>7, <2>9 DEF Splits
  <2>11. <<>> \o <<>> = <<>>
    BY EmptySeq, ConcatEmptySeq
  <2>12. QED
    BY <2>6, <2>7, <2>8, <2>10, <2>11
<1>3. Nat \subseteq T
  <2> HIDE DEF T
  <2>1. QED
    BY <1>1, <1>2, Induction
<1>4. QED
  BY <1>3

Three(w, p, n, b) ==
    LinesOf(w, (p \o n) \o b) = (LinesOf(w, p) \o LinesOf(w, n)) \o LinesOf(w, b)

LEMMA LinesThree ==
    ASSUME NEW w, NEW S, NEW p \in Seq(S), NEW n \in Seq(S), NEW b \in Seq(S)
    PROVE  Three(w, p, n, b)
<1>1. PICK m \in Seq(S) : m = p \o n
  BY ConcatProperties
<1>2. Splits(w, p, n) /\ Splits(w, m, b)
  BY LinesSplit
<1>3. QED
  BY <1>1, <1>2 DEF Splits, Three

-----------------------------------------------------------------------------
(* The invariant. *)

Levels == {"info", "error"}

LogTypeOK ==
    /\ records \in [Writers -> Seq(Levels)] /\ writing \in [Writers -> Seq(LinesAll)]
    /\ writerAt \in [Writers -> {"idle", "choose", "direct", "queue"}]
    /\ loopAt \in {"off", "start", "loop", "run"}
    /\ tasksBuf \in Seq(LinesAll) /\ tasksNow \in Seq(LinesAll) /\ printed \in Seq(LinesAll)

Queued ==
    /\ loopAt # "off" \/ isStart => logServer
    /\ ~isStart => tasksNow = <<>> /\ tasksBuf = <<>>
    /\ loopAt # "run" => tasksNow = <<>>

(* A thread that prints itself has no lines in the queue: it found the log  *)
(* thread not running, and will find it running from then on. *)
Writes(w) ==
    /\ By(w, writing[w])
    /\ writerAt[w] = "idle" <=> writing[w] = <<>>
    /\ writerAt[w] = "direct" =>
         LinesOf(w, tasksNow) = <<>> /\ LinesOf(w, tasksBuf) = <<>>
    /\ writerAt[w] = "queue" => isStart

Held == (printed \o tasksNow) \o tasksBuf

AllLines(w) == [i \in 1..Len(records[w]) |-> Lines(w, i, records[w][i])]

InOrder(w) == LinesOf(w, Held) \o writing[w] = FlattenSeq(AllLines(w))

LEMMA LinesType ==
    ASSUME NEW w \in Writers, NEW i \in Nat, NEW level
    PROVE  /\ Lines(w, i, level) \in Seq(LinesAll) /\ Lines(w, i, level) # <<>>
           /\ By(w, Lines(w, i, level))
<1>1. CASE level = "error"
  BY <1>1 DEF Lines, LinesAll, By
<1>2. CASE level # "error"
  BY <1>2 DEF Lines, LinesAll, By
<1>3. QED
  BY <1>1, <1>2

LEMMA HeldType == ASSUME LogTypeOK PROVE Held \in Seq(LinesAll)
  BY ConcatProperties DEF LogTypeOK, Held

LEMMA AllLinesType ==
    ASSUME LogTypeOK, NEW w \in Writers
    PROVE  AllLines(w) \in Seq(Seq(LinesAll)) /\ Len(AllLines(w)) = Len(records[w])
<1>1. \A i \in 1..Len(records[w]) : Lines(w, i, records[w][i]) \in Seq(LinesAll)
  BY LinesType
<1>2. QED
  BY <1>1 DEF AllLines, LogTypeOK

LEMMA LogFirst ==
    LogInit => LogTypeOK /\ Queued /\ \A w \in Writers : Writes(w) /\ InOrder(w)
<1> SUFFICES ASSUME LogInit PROVE LogTypeOK /\ Queued /\ \A w \in Writers : Writes(w) /\ InOrder(w)
  OBVIOUS
<1>1. <<>> \in Seq(LinesAll) /\ <<>> \in Seq(Levels) /\ Len(<<>>) = 0 /\ <<>> \o <<>> = <<>>
  BY EmptySeq, ConcatEmptySeq
<1>2. LogTypeOK /\ Queued
  BY <1>1 DEF LogInit, LogTypeOK, Queued
<1>3. ASSUME NEW w \in Writers PROVE Writes(w) /\ InOrder(w)
  <2>1. records[w] = <<>> /\ writing[w] = <<>> /\ Held = <<>> /\ writerAt[w] = "idle"
    BY <1>1 DEF LogInit, Held
  <2>2. AllLines(w) = <<>>
    BY <1>1, <2>1 DEF AllLines
  <2>3. QED
    BY <1>1, <2>1, <2>2, NoLines, FlattenNothing DEF Writes, By, InOrder
<1>4. QED
  BY <1>2, <1>3
-----------------------------------------------------------------------------
(* The steps. *)

LEMMA LogSame ==
    ASSUME NEW w, Writes(w), InOrder(w), UNCHANGED <<records, tasksBuf, tasksNow, printed>>,
           writing'[w] = writing[w], writerAt'[w] = writerAt[w], isStart => isStart'
    PROVE  Writes(w)' /\ InOrder(w)'
<1>1. Held' = Held /\ AllLines(w)' = AllLines(w)
  BY DEF Held, AllLines
<1>2. QED
  BY <1>1 DEF Writes, InOrder

LEMMA LogRecords ==
    ASSUME LogTypeOK, NEW w \in Writers, Writes(w), InOrder(w), NEW v \in Writers,
           NEW level \in Levels, Record(v, level)
    PROVE  LogTypeOK' /\ Writes(w)' /\ InOrder(w)'
<1> DEFINE n == Len(records[v])
           lines == Lines(v, n + 1, level)
<1>1. /\ records \in [Writers -> Seq(Levels)] /\ writing \in [Writers -> Seq(LinesAll)]
      /\ writerAt \in [Writers -> {"idle", "choose", "direct", "queue"}] /\ n \in Nat
  BY LenProperties DEF LogTypeOK
<1>2. /\ Append(records[v], level) \in Seq(Levels) /\ Len(Append(records[v], level)) = n + 1
      /\ Append(records[v], level)[n + 1] = level
      /\ \A i \in 1..n : Append(records[v], level)[i] = records[v][i]
  BY <1>1, AppendProperties
<1>3. lines \in Seq(LinesAll) /\ lines # <<>> /\ By(v, lines)
  BY <1>1, LinesType
<1>4. /\ records' = [records EXCEPT ![v] = Append(records[v], level)]
      /\ records'[v] = Append(records[v], level)
  BY <1>1 DEF Record
<1>5. /\ writerAt[v] = "idle" /\ writerAt' = [writerAt EXCEPT ![v] = "choose"]
      /\ writing' = [writing EXCEPT ![v] = lines]
      /\ UNCHANGED <<logServer, isStart, loopAt, tasksBuf, tasksNow, printed>>
  BY <1>2, <1>4 DEF Record, queueVars
<1> HIDE DEF lines
<1>6. LogTypeOK'
  BY <1>1, <1>2, <1>3, <1>4, <1>5 DEF LogTypeOK
<1>7. Writes(w)'
  BY <1>1, <1>3, <1>5 DEF Writes, By
<1>8. InOrder(w)'
  <2>1. Held' = Held
    BY <1>5 DEF Held
  <2>2. CASE w # v
    <3>1. records'[w] = records[w] /\ writing'[w] = writing[w]
      BY <1>1, <1>4, <1>5, <2>2
    <3>2. AllLines(w)' = AllLines(w)
      BY <3>1 DEF AllLines
    <3>3. QED
      BY <2>1, <3>1, <3>2 DEF InOrder
  <2>3. CASE w = v
    <3>1. writing[w] = <<>> /\ writing'[w] = lines
      BY <1>1, <1>5, <2>3 DEF Writes
    <3>2. PICK all \in Seq(Seq(LinesAll)) : all = AllLines(w)
      BY AllLinesType
    <3>3. Len(all) = n
      BY <2>3, <3>2, AllLinesType
    <3>4. AllLines(w)' = Append(all, lines)
      <4>1. \A i \in 1..n : all[i] = Lines(w, i, records[w][i])
        BY <2>3, <3>2 DEF AllLines
      <4>2. AllLines(w)' = [i \in 1..(n + 1) |-> Lines(w, i, records'[w][i])]
        BY <1>2, <1>4, <2>3 DEF AllLines
      <4>3. \A i \in 1..n : Lines(w, i, records'[w][i]) = all[i]
        BY <1>2, <1>4, <2>3, <4>1
      <4>4. Lines(w, n + 1, records'[w][n + 1]) = lines
        BY <1>2, <1>4, <2>3 DEF lines
      <4> HIDE DEF n
      <4>5. /\ Append(all, lines) \in Seq(Seq(LinesAll)) /\ Len(Append(all, lines)) = n + 1
            /\ Append(all, lines)[n + 1] = lines
            /\ \A i \in 1..n : Append(all, lines)[i] = all[i]
        BY <1>3, <3>3, AppendProperties
      <4>6. PICK new : new = AllLines(w)'
        OBVIOUS
      <4>7. \A i \in 1..(n + 1) : new[i] = Append(all, lines)[i]
        <5>1. ASSUME NEW i \in 1..(n + 1) PROVE new[i] = Append(all, lines)[i]
          <6>1. CASE i \in 1..n
            BY <4>2, <4>3, <4>5, <4>6, <6>1
          <6>2. CASE i \notin 1..n
            <7>1. i = n + 1
              BY <1>1, <6>2
            <7>2. QED
              BY <1>1, <4>2, <4>4, <4>5, <4>6, <7>1
          <6>3. QED
            BY <6>1, <6>2
        <5>2. QED
          BY <5>1
      <4>8. PICK g \in Seq(Seq(LinesAll)) : g = Append(all, lines)
        BY <4>5
      <4>9. Len(g) = n + 1 /\ new = [i \in 1..(n + 1) |-> g[i]]
        BY <4>2, <4>5, <4>6, <4>7, <4>8
      <4>10. new = g
        BY <4>9, SameSeq
      <4>11. QED
        BY <4>6, <4>8, <4>10
    <3>5. FlattenSeq(AllLines(w)') = FlattenSeq(all) \o lines
      BY <1>3, <3>4, FlattenAppend
    <3>6. LinesOf(w, Held) \in Seq(LinesAll)
      BY HeldType, PicksType
    <3>7. FlattenSeq(all) = LinesOf(w, Held)
      BY <3>1, <3>2, <3>6, ConcatEmptySeq DEF InOrder
    <3>8. QED
      BY <2>1, <3>1, <3>5, <3>7 DEF InOrder
  <2>4. QED
    BY <2>2, <2>3
<1>9. QED
  BY <1>6, <1>7, <1>8

LEMMA LogChooses ==
    ASSUME LogTypeOK, Queued, NEW w \in Writers, Writes(w), InOrder(w), NEW v \in Writers,
           Choose(v)
    PROVE  LogTypeOK' /\ Writes(w)' /\ InOrder(w)'
<1>1. /\ writerAt[v] = "choose"
      /\ writerAt' = [writerAt EXCEPT ![v] = IF Queues THEN "queue" ELSE "direct"]
      /\ UNCHANGED <<records, writing, logServer, isStart, loopAt, tasksBuf, tasksNow, printed>>
  BY DEF Choose, queueVars
<1>2. writerAt \in [Writers -> {"idle", "choose", "direct", "queue"}]
  BY DEF LogTypeOK
<1>3. LogTypeOK'
  BY <1>1 DEF LogTypeOK
<1>4. CASE w # v
  <2>1. writerAt'[w] = writerAt[w] /\ writing'[w] = writing[w] /\ (isStart => isStart')
    BY <1>1, <1>2, <1>4
  <2>2. QED
    BY <1>1, <1>3, <2>1, LogSame
<1>5. CASE w = v
  <2>1. Held' = Held /\ AllLines(w)' = AllLines(w)
    BY <1>1 DEF Held, AllLines
  <2>2. InOrder(w)'
    BY <1>1, <2>1 DEF InOrder
  <2>3. writerAt[w] = "choose" /\ writerAt'[w] = IF Queues THEN "queue" ELSE "direct"
    BY <1>1, <1>2, <1>5
  <2>4. ~Queues => tasksNow = <<>> /\ tasksBuf = <<>>
    BY DEF Queues, Queued
  <2>5. Queues => isStart
    BY DEF Queues
  <2>6. LinesOf(w, <<>>) = <<>>
    BY NoLines
  <2>7. Writes(w)'
    BY <1>1, <2>3, <2>4, <2>5, <2>6 DEF Writes, By
  <2>8. QED
    BY <1>3, <2>2, <2>7
<1>6. QED
  BY <1>4, <1>5

(* A line moves from what a thread writes to what is printed. *)
LEMMA LogEchoes ==
    ASSUME LogTypeOK, NEW w \in Writers, Writes(w), InOrder(w), NEW v \in Writers, Writes(v),
           EchoReal(v)
    PROVE  LogTypeOK' /\ Writes(w)' /\ InOrder(w)'
<1>1. /\ writerAt[v] = "direct" /\ printed' = Append(printed, Head(writing[v]))
      /\ writing' = [writing EXCEPT ![v] = Tail(writing[v])]
      /\ writerAt' = [writerAt EXCEPT ![v] = IF Len(writing[v]) = 1 THEN "idle" ELSE writerAt[v]]
      /\ UNCHANGED <<records, logServer, isStart, loopAt, tasksBuf, tasksNow>>
  BY DEF EchoReal, queueVars
<1>2. /\ writerAt \in [Writers -> {"idle", "choose", "direct", "queue"}]
      /\ writing \in [Writers -> Seq(LinesAll)] /\ writing[v] \in Seq(LinesAll)
      /\ writing[w] \in Seq(LinesAll)
      /\ printed \in Seq(LinesAll) /\ tasksNow \in Seq(LinesAll) /\ tasksBuf \in Seq(LinesAll)
  BY DEF LogTypeOK
<1>3. writing[v] # <<>>
  BY <1>1 DEF Writes
<1>4. PICK l \in LinesAll, rest \in Seq(LinesAll) : Begins(writing[v], l, rest)
  BY <1>2, <1>3, FirstAndRest
<1>5. PICK one \in Seq(LinesAll) : one = <<l>> /\ Append(printed, l) = printed \o one
  <2>1. <<l>> \in Seq(LinesAll)
    OBVIOUS
  <2>2. Append(printed, l) = printed \o <<l>>
    BY <1>2, AppendIsConcat
  <2>3. QED
    BY <2>1, <2>2
<1>6. /\ By(v, rest) /\ l[1] = v /\ Len(rest) \in Nat
      /\ Len(writing[v]) = Len(rest) + 1
  <2>1. \A i \in 1..Len(writing[v]) : writing[v][i][1] = v
    BY DEF Writes, By
  <2>2. /\ Len(rest) \in Nat /\ Len(writing[v]) = Len(rest) + 1 /\ writing[v][1] = l
        /\ \A i \in 1..Len(rest) : rest[i] = writing[v][i + 1]
    BY <1>4 DEF Begins
  <2>3. 1 \in 1..Len(writing[v]) /\ \A i \in 1..Len(rest) : i + 1 \in 1..Len(writing[v])
    BY <1>2, <2>2
  <2>4. QED
    BY <2>1, <2>2, <2>3 DEF By
<1>7. LogTypeOK'
  <2>1. Append(printed, l) \in Seq(LinesAll)
    BY <1>2, AppendProperties
  <2>2. QED
    BY <1>1, <1>2, <1>4, <2>1 DEF LogTypeOK, Begins
<1>8. Writes(w)'
  <2>1. CASE w # v
    BY <1>1, <1>2, <2>1 DEF Writes, By
  <2>2. CASE w = v
    <3>1. /\ writing'[w] = rest
          /\ writerAt'[w] = IF Len(writing[v]) = 1 THEN "idle" ELSE "direct"
      BY <1>1, <1>2, <1>4, <2>2 DEF Begins
    <3>2. rest = <<>> <=> Len(writing[v]) = 1
      <4>1. rest = <<>> <=> Len(rest) = 0
        BY EmptySeq
      <4>2. QED
        BY <1>2, <1>6, <4>1
    <3>3. By(w, rest)
      BY <1>6, <2>2
    <3>4. /\ writerAt'[w] = "idle" <=> writing'[w] = <<>>
          /\ writerAt'[w] # "queue"
      BY <3>1, <3>2
    <3>5. LinesOf(w, tasksNow') = <<>> /\ LinesOf(w, tasksBuf') = <<>>
      BY <1>1, <2>2 DEF Writes
    <3>6. By(w, writing'[w])
      BY <3>1, <3>3
    <3>7. QED
      BY <3>4, <3>5, <3>6 DEF Writes, By
  <2>3. QED
    BY <2>1, <2>2
<1>9. PICK p \in Seq(LinesAll) : p = printed \o one
  BY <1>2, ConcatProperties
<1>10. printed' = p
  BY <1>1, <1>4, <1>5, <1>9 DEF Begins
<1>11. PICK a \in Seq(LinesAll), n \in Seq(LinesAll), b \in Seq(LinesAll) :
         /\ a = LinesOf(w, printed) /\ n = LinesOf(w, tasksNow) /\ b = LinesOf(w, tasksBuf)
  BY <1>2, PicksType
<1>12. LinesOf(w, p) = a \o LinesOf(w, one)
  <2>1. Splits(w, printed, one)
    BY <1>2, LinesSplit
  <2>2. QED
    BY <1>9, <1>11, <2>1 DEF Splits
<1>13. LinesOf(w, one) = IF v = w THEN one ELSE <<>>
  BY <1>5, <1>6, OneLine
<1>14. /\ LinesOf(w, Held) = (a \o n) \o b
       /\ LinesOf(w, Held)' = (LinesOf(w, p) \o n) \o b
  <2>1. Three(w, printed, tasksNow, tasksBuf) /\ Three(w, p, tasksNow, tasksBuf)
    BY <1>2, LinesThree
  <2>2. Held = (printed \o tasksNow) \o tasksBuf /\ Held' = (p \o tasksNow) \o tasksBuf
    BY <1>1, <1>10 DEF Held
  <2>3. LinesOf(w, Held)' = LinesOf(w, Held')
    BY DEF LinesOf
  <2>4. QED
    BY <1>11, <2>1, <2>2, <2>3 DEF Three
<1>15. AllLines(w)' = AllLines(w)
  BY <1>1 DEF AllLines
<1>16. CASE w # v
  <2>1. LinesOf(w, p) = a
    BY <1>12, <1>13, <1>16, ConcatEmptySeq
  <2>2. writing'[w] = writing[w]
    BY <1>1, <1>2, <1>16
  <2>3. QED
    BY <1>7, <1>8, <1>14, <1>15, <2>1, <2>2 DEF InOrder
<1>17. CASE w = v
  <2>1. n = <<>> /\ b = <<>>
    BY <1>1, <1>11, <1>17 DEF Writes
  <2>2. LinesOf(w, p) = a \o one
    BY <1>12, <1>13, <1>17
  <2>3. LinesOf(w, Held) = a
    BY <1>14, <2>1, ConcatEmptySeq
  <2>4. PICK q \in Seq(LinesAll) : q = a \o one
    BY ConcatProperties
  <2>5. LinesOf(w, Held)' = q
    BY <1>14, <2>1, <2>2, <2>4, ConcatEmptySeq
  <2>6. Grouped(a, one, rest)
    BY Regroup
  <2>7. q \o rest = a \o writing[w]
    BY <1>4, <1>5, <1>17, <2>4, <2>6 DEF Grouped, Begins
  <2>8. writing'[w] = rest
    BY <1>1, <1>2, <1>4, <1>17 DEF Begins
  <2>9. QED
    BY <1>7, <1>8, <1>15, <2>3, <2>5, <2>7, <2>8 DEF InOrder
<1>18. QED
  BY <1>16, <1>17

(* The lines of a record are queued behind the others. *)
LEMMA LogQueues ==
    ASSUME LogTypeOK, NEW w \in Writers, Writes(w), InOrder(w), NEW v \in Writers, Writes(v),
           AddTask(v)
    PROVE  LogTypeOK' /\ Writes(w)' /\ InOrder(w)'
<1>1. /\ writerAt[v] = "queue" /\ tasksBuf' = tasksBuf \o writing[v]
      /\ writing' = [writing EXCEPT ![v] = <<>>]
      /\ writerAt' = [writerAt EXCEPT ![v] = "idle"]
      /\ UNCHANGED <<records, logServer, isStart, loopAt, tasksNow, printed>>
  BY DEF AddTask
<1>2. /\ writerAt \in [Writers -> {"idle", "choose", "direct", "queue"}]
      /\ writing \in [Writers -> Seq(LinesAll)]
      /\ printed \in Seq(LinesAll) /\ tasksNow \in Seq(LinesAll) /\ tasksBuf \in Seq(LinesAll)
  BY DEF LogTypeOK
<1>3. PICK lines \in Seq(LinesAll), b \in Seq(LinesAll) :
        lines = writing[v] /\ b = tasksBuf \o lines
  BY <1>2, ConcatProperties
<1>4. LinesOf(w, lines) = IF v = w THEN lines ELSE <<>>
  <2>1. By(v, lines)
    BY <1>3 DEF Writes
  <2>2. QED
    BY <2>1, OwnLines
<1>5. LogTypeOK'
  BY <1>1, <1>2, <1>3, EmptySeq DEF LogTypeOK
<1>6. Writes(w)'
  <2>1. CASE w = v
    <3>1. writing'[w] = <<>> /\ writerAt'[w] = "idle"
      BY <1>1, <1>2, <2>1
    <3>2. QED
      BY <3>1, EmptySeq DEF Writes, By
  <2>2. CASE w # v
    <3>1. writing'[w] = writing[w] /\ writerAt'[w] = writerAt[w]
      BY <1>1, <1>2, <2>2
    <3>2. writerAt[w] = "direct" => LinesOf(w, b) = <<>>
      <4>1. Splits(w, tasksBuf, lines)
        BY <1>2, LinesSplit
      <4>2. LinesOf(w, b) = LinesOf(w, tasksBuf) \o <<>>
        BY <1>3, <1>4, <2>2, <4>1 DEF Splits
      <4>3. <<>> \o <<>> = <<>>
        BY EmptySeq, ConcatEmptySeq
      <4>4. QED
        BY <4>2, <4>3 DEF Writes
    <3>3. tasksBuf' = b /\ tasksNow' = tasksNow /\ isStart' = isStart
      BY <1>1, <1>3
    <3>4. QED
      BY <3>1, <3>2, <3>3 DEF Writes, By
  <2>3. QED
    BY <2>1, <2>2
<1>7. InOrder(w)'
  <2>1. PICK m \in Seq(LinesAll), h \in Seq(LinesAll) :
          m = printed \o tasksNow /\ h = m \o tasksBuf
    BY <1>2, ConcatProperties
  <2>2. Held = h /\ Held' = h \o lines
    <3>1. Grouped(m, tasksBuf, lines)
      BY <1>2, Regroup
    <3>2. QED
      BY <1>1, <1>3, <2>1, <3>1 DEF Held, Grouped
  <2>3. Splits(w, h, lines)
    BY LinesSplit
  <2>4. PICK own \in Seq(LinesAll) : own = LinesOf(w, h)
    BY PicksType
  <2>5. LinesOf(w, Held') = own \o LinesOf(w, lines)
    BY <2>2, <2>3, <2>4 DEF Splits
  <2>6. LinesOf(w, Held)' = LinesOf(w, Held')
    BY DEF LinesOf
  <2>7. AllLines(w)' = AllLines(w)
    BY <1>1 DEF AllLines
  <2>8. writing'[w] = IF w = v THEN <<>> ELSE writing[w]
    BY <1>1, <1>2
  <2>9. CASE w = v
    <3>1. PICK q \in Seq(LinesAll) : q = own \o lines
      BY ConcatProperties
    <3>2. q \o <<>> = q
      BY ConcatEmptySeq
    <3>3. QED
      BY <1>3, <1>4, <2>2, <2>4, <2>5, <2>6, <2>7, <2>8, <2>9, <3>1, <3>2 DEF InOrder
  <2>10. CASE w # v
    <3>1. own \o <<>> = own
      BY ConcatEmptySeq
    <3>2. QED
      BY <1>4, <2>2, <2>4, <2>5, <2>6, <2>7, <2>8, <2>10, <3>1 DEF InOrder
  <2>11. QED
    BY <2>9, <2>10
<1>8. QED
  BY <1>5, <1>6, <1>7

(* What the log thread moves stays in one sequence. *)
LEMMA LogKept ==
    ASSUME NEW w \in Writers, Writes(w), InOrder(w), UNCHANGED writerVars, Held' = Held,
           isStart => isStart',
           writerAt[w] = "direct" =>
             LinesOf(w, tasksNow') = <<>> /\ LinesOf(w, tasksBuf') = <<>>
    PROVE  Writes(w)' /\ InOrder(w)'
<1>1. UNCHANGED <<records, writerAt, writing>>
  BY DEF writerVars
<1>2. AllLines(w)' = AllLines(w)
  BY <1>1 DEF AllLines
<1>3. InOrder(w)'
  BY <1>1, <1>2 DEF InOrder
<1>4. Writes(w)'
  <2>1. LinesOf(w, tasksNow)' = LinesOf(w, tasksNow') /\ LinesOf(w, tasksBuf)' = LinesOf(w, tasksBuf')
    BY DEF LinesOf
  <2>2. QED
    BY <1>1, <2>1 DEF Writes, By
<1>5. QED
  BY <1>3, <1>4

LEMMA LogTakes ==
    ASSUME LogTypeOK, Queued, NEW w \in Writers, Writes(w), InOrder(w), TakeTasks
    PROVE  Writes(w)' /\ InOrder(w)'
<1>1. /\ tasksNow = <<>> /\ tasksNow' = tasksBuf /\ tasksBuf' = <<>>
      /\ UNCHANGED writerVars /\ isStart' = isStart /\ printed' = printed
  BY DEF TakeTasks, Queued
<1>2. Held' = Held
  <2>1. printed \in Seq(LinesAll) /\ tasksBuf \in Seq(LinesAll)
    BY DEF LogTypeOK
  <2>2. PICK h \in Seq(LinesAll) : h = printed \o tasksBuf
    BY <2>1, ConcatProperties
  <2>3. printed \o <<>> = printed /\ h \o <<>> = h
    BY <2>1, ConcatEmptySeq
  <2>4. QED
    BY <1>1, <2>2, <2>3 DEF Held
<1>3. LinesOf(w, <<>>) = <<>>
  BY NoLines
<1>4. writerAt[w] = "direct" => LinesOf(w, tasksNow') = <<>> /\ LinesOf(w, tasksBuf') = <<>>
  BY <1>1, <1>3 DEF Writes
<1>5. QED
  BY <1>1, <1>2, <1>4, LogKept

LEMMA LogRunsLine ==
    ASSUME LogTypeOK, NEW w \in Writers, Writes(w), InOrder(w), RunLine
    PROVE  Writes(w)' /\ InOrder(w)'
<1>1. /\ tasksNow # <<>> /\ printed' = Append(printed, Head(tasksNow))
      /\ tasksNow' = Tail(tasksNow)
      /\ UNCHANGED <<logServer, isStart, loopAt, tasksBuf>> /\ UNCHANGED writerVars
  BY DEF RunLine
<1>2. printed \in Seq(LinesAll) /\ tasksNow \in Seq(LinesAll) /\ tasksBuf \in Seq(LinesAll)
  BY DEF LogTypeOK
<1>3. PICK l \in LinesAll, rest \in Seq(LinesAll) : Begins(tasksNow, l, rest)
  BY <1>1, <1>2, FirstAndRest
<1>4. PICK one \in Seq(LinesAll) : one = <<l>> /\ Append(printed, l) = printed \o one
  <2>1. <<l>> \in Seq(LinesAll)
    OBVIOUS
  <2>2. Append(printed, l) = printed \o <<l>>
    BY <1>2, AppendIsConcat
  <2>3. QED
    BY <2>1, <2>2
<1>5. printed' = printed \o one /\ tasksNow' = rest /\ tasksNow = one \o rest
  BY <1>1, <1>3, <1>4 DEF Begins
<1>6. Grouped(printed, one, rest)
  BY <1>2, Regroup
<1>7. Held' = Held
  BY <1>1, <1>5, <1>6 DEF Held, Grouped
<1>8. writerAt[w] = "direct" => LinesOf(w, tasksNow') = <<>> /\ LinesOf(w, tasksBuf') = <<>>
  <2>1. SUFFICES ASSUME writerAt[w] = "direct"
                 PROVE  LinesOf(w, rest) = <<>> /\ LinesOf(w, tasksBuf) = <<>>
    BY <1>1, <1>5
  <2>2. LinesOf(w, tasksNow) = <<>> /\ LinesOf(w, tasksBuf) = <<>>
    BY <2>1 DEF Writes
  <2>3. Splits(w, one, rest)
    BY LinesSplit
  <2>4. PICK a \in Seq(LinesAll), b \in Seq(LinesAll) :
          a = LinesOf(w, one) /\ b = LinesOf(w, rest)
    BY PicksType
  <2>5. a \o b = <<>>
    BY <1>5, <2>2, <2>3, <2>4 DEF Splits
  <2>6. Chained(a, b, <<>>)
    BY <2>5, Chain
  <2>7. Len(a) + Len(b) = 0
    BY <2>6, EmptySeq DEF Chained
  <2>8. Len(b) = 0
    BY <2>7
  <2>9. QED
    BY <2>2, <2>4, <2>8, EmptySeq
<1>9. QED
  BY <1>1, <1>7, <1>8, LogKept

LogInv == LogTypeOK /\ Queued /\ \A w \in Writers : Writes(w) /\ InOrder(w)

LEMMA LogKeeps == LogInv /\ [LogNext]_logVars => LogInv'
<1> SUFFICES ASSUME LogTypeOK, Queued, \A w \in Writers : Writes(w) /\ InOrder(w),
                    [LogNext]_logVars
             PROVE  LogTypeOK' /\ Queued' /\ \A w \in Writers : Writes(w)' /\ InOrder(w)'
  BY DEF LogInv
<1>1. ASSUME NEW v \in Writers, Info(v) \/ Error(v)
      PROVE  LogTypeOK' /\ Queued' /\ \A w \in Writers : Writes(w)' /\ InOrder(w)'
  <2>1. PICK level \in Levels : Record(v, level)
    BY <1>1 DEF Info, Error, Levels
  <2>2. Queued'
    BY <2>1 DEF Record, Queued, queueVars
  <2>3. QED
    BY <2>1, <2>2, LogRecords
<1>2. ASSUME NEW v \in Writers, Choose(v)
      PROVE  LogTypeOK' /\ Queued' /\ \A w \in Writers : Writes(w)' /\ InOrder(w)'
  <2>1. Queued'
    BY <1>2 DEF Choose, Queued, queueVars
  <2>2. QED
    BY <1>2, <2>1, LogChooses
<1>3. ASSUME NEW v \in Writers, EchoReal(v)
      PROVE  LogTypeOK' /\ Queued' /\ \A w \in Writers : Writes(w)' /\ InOrder(w)'
  <2>1. Queued'
    BY <1>3 DEF EchoReal, Queued, queueVars
  <2>2. QED
    BY <1>3, <2>1, LogEchoes
<1>4. ASSUME NEW v \in Writers, AddTask(v)
      PROVE  LogTypeOK' /\ Queued' /\ \A w \in Writers : Writes(w)' /\ InOrder(w)'
  <2>1. isStart
    BY <1>4 DEF AddTask, Writes
  <2>2. Queued'
    BY <1>4, <2>1 DEF AddTask, Queued
  <2>3. QED
    BY <1>4, <2>2, LogQueues
<1>5. CASE LogStart \/ LogRuns \/ TasksDone \/ UNCHANGED logVars
  <2>1. /\ UNCHANGED <<records, writerAt, writing, tasksBuf, tasksNow, printed>>
        /\ isStart => isStart'
    BY <1>5 DEF LogStart, LogRuns, TasksDone, logVars, writerVars
  <2>2. \A w \in Writers : Writes(w)' /\ InOrder(w)'
    BY <2>1, LogSame
  <2>3. LogTypeOK'
    BY <1>5, <2>1 DEF LogStart, LogRuns, TasksDone, logVars, LogTypeOK
  <2>4. Queued'
    BY <1>5 DEF LogStart, LogRuns, TasksDone, logVars, Queued
  <2>5. QED
    BY <2>2, <2>3, <2>4
<1>6. CASE TakeTasks
  <2>1. LogTypeOK'
    BY <1>6, EmptySeq DEF TakeTasks, LogTypeOK, writerVars
  <2>2. Queued'
    BY <1>6 DEF TakeTasks, Queued
  <2>3. QED
    BY <1>6, <2>1, <2>2, LogTakes
<1>7. CASE RunLine
  <2>1. isStart /\ loopAt = "run"
    BY <1>7 DEF RunLine, Queued
  <2>2. Queued'
    BY <1>7, <2>1 DEF RunLine, Queued
  <2>3. LogTypeOK'
    <3>1. PICK l \in LinesAll, rest \in Seq(LinesAll) : Begins(tasksNow, l, rest)
      BY <1>7, FirstAndRest DEF RunLine, LogTypeOK
    <3>2. printed' = Append(printed, l) /\ tasksNow' = rest
      BY <1>7, <3>1 DEF RunLine, Begins
    <3>3. Append(printed, l) \in Seq(LinesAll)
      BY AppendProperties DEF LogTypeOK
    <3>4. QED
      BY <1>7, <3>2, <3>3 DEF RunLine, LogTypeOK, writerVars
  <2>4. QED
    BY <1>7, <2>2, <2>3, LogRunsLine
<1>8. QED
  BY <1>1, <1>2, <1>3, <1>4, <1>5, <1>6, <1>7 DEF LogNext

(* Whatever is logged while main() starts the log server and its thread     *)
(* begins to run, the lines of each thread come out in the order it wrote   *)
(* them, none lost and none twice. *)
THEOREM LogIsOrdered == LogSpec => []LogInOrder
<1>1. LogInit => LogInv
  BY LogFirst DEF LogInv
<1>2. LogInv => LogInOrder
  BY DEF LogInv, InOrder, Held, AllLines, LogInOrder
<1>3. QED
  BY <1>1, <1>2, LogKeeps, PTL DEF LogSpec

-----------------------------------------------------------------------------

(* CRCStream. *)

Fields == [width : Nat \ {0}, count : Nat]
Labels == {"length", "cmd", "count", "data"}
Bytes == Nat \X Labels \X Nat

StreamTypeOK ==
    /\ streamAt \in {"new", "writing", "sent", "reading"}
    /\ schema \in Seq(Fields) /\ stream \in Seq(Bytes) /\ wrote \in Seq(BOOLEAN)
    /\ readPos \in Nat /\ received \in Int /\ received <= Len(stream)
    /\ got \in Seq(Seq(Bytes))
    /\ Len(wrote) <= Len(schema) /\ Len(got) <= Len(schema)
    /\ streamAt = "new" => wrote = <<>>
    /\ streamAt \in {"sent", "reading"} => Len(wrote) = Len(schema)
    /\ streamAt # "reading" => got = <<>>
    /\ streamAt \in {"new", "writing"} => received = 0

Written(k) == \A j \in 1..k : wrote[j]

(* Field k begins behind the first at[k] bytes, as far as all fields fit,  *)
(* and its bytes are there.                                                *)
Places(at) ==
    /\ at \in Seq(Nat) /\ Len(at) = Len(wrote) + 1 /\ at[1] = 2 * ShortWidth
    /\ \A k \in 1..Len(wrote) :
         /\ at[k + 1] = at[k] + Len(Item(k))
         /\ Written(k) =>
              /\ at[k + 1] <= Len(stream)
              /\ \A i \in 1..Len(Item(k)) : stream[at[k] + i] = Item(k)[i]
    /\ Written(Len(wrote)) => at[Len(wrote) + 1] = Len(stream)

(* The receiver is at the beginning of a field. *)
ReadTo(at) ==
    streamAt = "reading" /\ received >= 2 * ShortWidth /\ Through(Len(got)) =>
        readPos = at[Len(got) + 1]

StreamInv ==
    /\ StreamTypeOK /\ RoundTrip
    /\ streamAt = "new" \/ \E at : Places(at) /\ ReadTo(at)

LEMMA PartType ==
    ASSUME NEW k \in Nat, NEW part \in Labels, NEW n \in Nat
    PROVE  /\ Part(k, part, n) \in Seq(Bytes) /\ Len(Part(k, part, n)) = n
           /\ \A i \in 1..n : Part(k, part, n)[i] = <<k, part, i>>
<1>1. \A i \in 1..n : <<k, part, i>> \in Bytes
  BY DEF Bytes
<1>2. QED
  BY <1>1 DEF Part

(* How long a field is, and where its count is. *)
LEMMA ItemType ==
    ASSUME StreamTypeOK, NEW k \in 1..Len(schema)
    PROVE  /\ Item(k) \in Seq(Bytes) /\ Len(Item(k)) \in Nat
           /\ ~IsArray(schema[k]) => Len(Item(k)) = schema[k].width
           /\ IsArray(schema[k]) =>
                /\ Len(Item(k)) = CountWidth + schema[k].width * Elements(schema[k])
                /\ \A i \in 1..CountWidth : Item(k)[i] = <<k, "count", i>>
<1>1. PICK f \in Fields : f = schema[k]
  BY ElementOfSeq DEF StreamTypeOK
<1>2. f.width \in Nat /\ f.count \in Nat /\ k \in Nat
  BY <1>1 DEF Fields, StreamTypeOK
<1>3. CASE IsArray(f)
  <2>1. Elements(f) \in Nat
    BY <1>2, <1>3 DEF IsArray, Elements
  <2>2. PICK n \in Nat : n = f.width * Elements(f)
    BY <1>2, <2>1
  <2>3. CountWidth \in Nat
    BY DEF CountWidth
  <2>4. PICK a \in Seq(Bytes) : /\ a = Part(k, "count", CountWidth) /\ Len(a) = CountWidth
                                /\ \A i \in 1..CountWidth : a[i] = <<k, "count", i>>
    BY <1>2, <2>3, PartType DEF Labels
  <2>5. PICK b \in Seq(Bytes) : b = Part(k, "data", n) /\ Len(b) = n
    BY SMTT(30), <1>2, <2>2, PartType DEF Labels
  <2>6. Item(k) = a \o b
    BY <1>1, <1>3, <2>2, <2>4, <2>5 DEF Item
  <2>7. /\ a \o b \in Seq(Bytes) /\ Len(a \o b) = CountWidth + n
        /\ \A i \in 1..CountWidth : (a \o b)[i] = <<k, "count", i>>
    <3>1. /\ a \o b \in Seq(Bytes) /\ Len(a \o b) = CountWidth + n
          /\ \A i \in 1..(CountWidth + n) : (a \o b)[i] = IF i <= CountWidth THEN a[i] ELSE b[i - CountWidth]
      BY <2>4, <2>5, ConcatProperties
    <3>2. \A i \in 1..CountWidth : i \in 1..(CountWidth + n) /\ i <= CountWidth
      BY <2>3
    <3>3. QED
      BY <2>4, <3>1, <3>2
  <2>8. Len(Item(k)) \in Nat
    BY <2>3, <2>6, <2>7
  <2>9. QED
    BY <1>1, <1>3, <2>2, <2>6, <2>7, <2>8
<1>4. CASE ~IsArray(f)
  BY <1>1, <1>2, <1>4, PartType DEF Item, Labels
<1>5. QED
  BY <1>1, <1>3, <1>4

LEMMA StreamFirst == StreamInit => StreamInv
<1> SUFFICES ASSUME StreamInit PROVE StreamInv
  OBVIOUS
<1>1. StreamTypeOK
  BY EmptySeq DEF StreamInit, StreamTypeOK
<1>2. RoundTrip
  BY DEF StreamInit, RoundTrip
<1>3. QED
  BY <1>1, <1>2 DEF StreamInit, StreamInv

LEMMA CmdKeeps == ASSUME StreamInv, SetCmd PROVE StreamInv'
<1>1. PICK s \in Seq(Bytes) : s = Part(0, "length", ShortWidth) \o Part(0, "cmd", ShortWidth)
                              /\ Len(s) = 2 * ShortWidth
  <2>1. ShortWidth \in Nat /\ 0 \in Nat
    BY DEF ShortWidth
  <2>2. /\ Part(0, "length", ShortWidth) \in Seq(Bytes) /\ Part(0, "cmd", ShortWidth) \in Seq(Bytes)
        /\ Len(Part(0, "length", ShortWidth)) = ShortWidth
        /\ Len(Part(0, "cmd", ShortWidth)) = ShortWidth
    BY <2>1, PartType DEF Labels
  <2>3. /\ Part(0, "length", ShortWidth) \o Part(0, "cmd", ShortWidth) \in Seq(Bytes)
        /\ Len(Part(0, "length", ShortWidth) \o Part(0, "cmd", ShortWidth)) = ShortWidth + ShortWidth
    BY <2>2, ConcatProperties
  <2>4. ShortWidth + ShortWidth = 2 * ShortWidth
    BY DEF ShortWidth
  <2>5. QED
    BY <2>3, <2>4
<1>2. /\ streamAt = "new" /\ streamAt' = "writing" /\ stream' = s /\ schema' \in Seq(Fields)
      /\ wrote' = wrote /\ readPos' = readPos /\ received' = received /\ got' = got
  BY <1>1, StreamAssumption DEF SetCmd, Fields
<1>3. StreamTypeOK
  BY DEF StreamInv
<1>4. wrote = <<>> /\ got = <<>>
  BY <1>2, <1>3 DEF StreamTypeOK
<1>5. received = 0 /\ Len(s) = 4 /\ Len(schema') \in Nat
  BY <1>1, <1>2, <1>3 DEF StreamTypeOK, ShortWidth
<1>6. StreamTypeOK'
  BY <1>2, <1>3, <1>4, <1>5 DEF StreamTypeOK
<1>7. RoundTrip'
  BY <1>2, <1>4 DEF RoundTrip
<1>8. Places(<<4>>)' /\ ReadTo(<<4>>)'
  <2>1. <<4>> \in Seq(Nat) /\ Len(<<4>>) = 1 /\ <<4>>[1] = 4
    OBVIOUS
  <2>2. wrote' = <<>> /\ Len(wrote') = 0
    BY <1>2, <1>4
  <2>3. 2 * ShortWidth = 4
    BY DEF ShortWidth
  <2>4. QED
    BY <1>2, <1>5, <2>1, <2>2, <2>3 DEF Places, ReadTo
<1>9. QED
  BY <1>6, <1>7, <1>8 DEF StreamInv

LEMMA FieldWrites == ASSUME StreamInv, WriteItem PROVE StreamInv'
<1>1. StreamTypeOK
  BY DEF StreamInv
<1>2. /\ streamAt = "writing" /\ streamAt' = streamAt /\ schema' = schema
      /\ readPos' = readPos /\ received' = received /\ got' = got
  BY DEF WriteItem
<1>3. PICK n \in Nat : n = Len(wrote) /\ n + 1 \in 1..Len(schema)
  BY <1>1 DEF WriteItem, StreamTypeOK
<1>4. PICK item \in Seq(Bytes) : item = Item(n + 1) /\ Len(item) \in Nat
  BY <1>1, <1>3, ItemType
<1>5. PICK fits \in BOOLEAN : /\ wrote' = Append(wrote, fits)
                              /\ stream' = IF fits THEN stream \o item ELSE stream
  <2>1. CASE RoomFor(Len(item))
    <3>1. wrote' = Append(wrote, TRUE) /\ stream' = stream \o item
      BY <1>3, <1>4, <2>1 DEF WriteItem, RoomFor
    <3>2. QED
      BY <3>1
  <2>2. CASE ~RoomFor(Len(item))
    <3>1. RoomFor(Len(item)) = FALSE
      BY <2>2 DEF RoomFor
    <3>2. wrote' = Append(wrote, RoomFor(Len(item))) /\ stream' = stream
      BY <1>3, <1>4, <2>2 DEF WriteItem
    <3>3. QED
      BY <3>1, <3>2
  <2>3. QED
    BY <2>1, <2>2
<1>6. PICK at : Places(at)
  BY <1>2 DEF StreamInv
<1>7. /\ wrote' \in Seq(BOOLEAN) /\ Len(wrote') = n + 1 /\ wrote'[n + 1] = fits
      /\ \A j \in 1..n : wrote'[j] = wrote[j]
  BY <1>1, <1>3, <1>5, AppendProperties DEF StreamTypeOK
<1>8. PICK l \in Nat : l = Len(stream)
  BY <1>1 DEF StreamTypeOK
<1>9. /\ stream' \in Seq(Bytes) /\ Len(stream') = IF fits THEN l + Len(item) ELSE l
      /\ \A i \in 1..l : stream'[i] = stream[i]
      /\ fits => \A i \in 1..Len(item) : stream'[l + i] = item[i]
  <2>1. CASE fits
    <3>1. stream \in Seq(Bytes) /\ stream' = stream \o item
      BY <1>1, <1>5, <2>1 DEF StreamTypeOK
    <3>2. /\ stream' \in Seq(Bytes) /\ Len(stream') = l + Len(item)
          /\ \A i \in 1..(l + Len(item)) : stream'[i] = IF i <= l THEN stream[i] ELSE item[i - l]
      BY <1>8, <3>1, ConcatProperties
    <3>3. \A i \in 1..l : i \in 1..(l + Len(item)) /\ i <= l
      BY <1>4
    <3>4. \A i \in 1..Len(item) : l + i \in 1..(l + Len(item)) /\ ~(l + i <= l) /\ (l + i) - l = i
      BY <1>4
    <3>5. QED
      BY <2>1, <3>2, <3>3, <3>4
  <2>2. CASE ~fits
    BY <1>1, <1>5, <1>8, <2>2 DEF StreamTypeOK
  <2>3. QED
    BY <2>1, <2>2
<1>10. StreamTypeOK'
  BY <1>1, <1>2, <1>3, <1>4, <1>7, <1>8, <1>9 DEF StreamTypeOK
<1>11. RoundTrip'
  BY <1>1, <1>2 DEF RoundTrip, StreamTypeOK
<1>12. at \in Seq(Nat) /\ Len(at) = n + 1 /\ at[1] = 2 * ShortWidth
  BY <1>3, <1>6 DEF Places
<1>13. PICK p \in Nat : p = at[n + 1]
  BY <1>12, ElementOfSeq
<1>14. PICK at2 \in Seq(Nat) : /\ Len(at2) = n + 2 /\ at2[n + 2] = p + Len(item)
                              /\ \A i \in 1..(n + 1) : at2[i] = at[i]
  <2>1. PICK q \in Nat : q = p + Len(item)
    BY <1>4
  <2>2. /\ Append(at, q) \in Seq(Nat) /\ Len(Append(at, q)) = n + 2
        /\ Append(at, q)[n + 2] = q /\ \A i \in 1..(n + 1) : Append(at, q)[i] = at[i]
    BY <1>12, AppendProperties
  <2>3. QED
    BY <2>1, <2>2
<1>15. \A k : Item(k)' = Item(k)
  BY <1>2 DEF Item
<1>16. \A k \in 1..n : Written(k)' <=> Written(k)
  BY SMTT(30), <1>7 DEF Written
<1>17. Written(n + 1)' <=> Written(n) /\ fits
  BY <1>7 DEF Written
<1>18. ASSUME NEW k \in 1..n
       PROVE  /\ at2[k + 1] = at2[k] + Len(Item(k))
              /\ Written(k) =>
                   /\ at2[k + 1] <= Len(stream')
                   /\ \A i \in 1..Len(Item(k)) : stream'[at2[k] + i] = Item(k)[i]
  <2>1. at2[k] = at[k] /\ at2[k + 1] = at[k + 1] /\ k \in 1..Len(schema)
    <3>1. k \in 1..(n + 1) /\ k + 1 \in 1..(n + 1)
      OBVIOUS
    <3>2. Len(schema) \in Nat /\ n + 1 <= Len(schema)
      BY <1>1, <1>3 DEF StreamTypeOK
    <3>3. QED
      BY <1>14, <3>1, <3>2
  <2>2. PICK a \in Nat, m \in Nat : a = at[k] /\ m = Len(Item(k))
    <3>1. k \in 1..Len(at)
      BY <1>12
    <3>2. QED
      BY <1>1, <1>12, <2>1, <3>1, ItemType, ElementOfSeq
  <2>3. at[k + 1] = a + m
    BY <1>3, <1>6, <2>2 DEF Places
  <2>4. CASE Written(k)
    <3>1. a + m <= l /\ \A i \in 1..m : stream[a + i] = Item(k)[i]
      BY <1>3, <1>6, <1>8, <2>2, <2>3, <2>4 DEF Places
    <3>2. \A i \in 1..m : a + i \in 1..l
      BY <3>1
    <3>3. \A i \in 1..m : stream'[a + i] = Item(k)[i]
      BY <1>9, <3>1, <3>2
    <3>4. l <= Len(stream')
      BY <1>4, <1>9
    <3>5. a + m <= Len(stream')
      BY <1>4, <1>9, <3>1
    <3>6. QED
      BY <2>1, <2>2, <2>3, <3>3, <3>5
  <2>5. QED
    BY <2>1, <2>2, <2>3, <2>4
<1>19. /\ at2[n + 2] = at2[n + 1] + Len(Item(n + 1))
       /\ Written(n + 1)' =>
            /\ at2[n + 2] <= Len(stream')
            /\ \A i \in 1..Len(Item(n + 1)) : stream'[at2[n + 1] + i] = Item(n + 1)[i]
            /\ at2[n + 2] = Len(stream')
  <2>1. at2[n + 1] = p
    BY <1>13, <1>14
  <2>2. Written(n + 1)' => fits /\ p = l
    BY <1>3, <1>6, <1>8, <1>13, <1>17 DEF Places
  <2>3. at2[n + 2] = at2[n + 1] + Len(Item(n + 1))
    BY <1>4, <1>14, <2>1
  <2>4. CASE Written(n + 1)'
    <3>1. fits /\ p = l
      BY <2>2, <2>4
    <3>2. at2[n + 2] = Len(stream')
      BY <1>9, <1>14, <3>1
    <3>3. \A i \in 1..Len(item) : stream'[p + i] = item[i]
      BY <1>9, <3>1
    <3>4. at2[n + 2] <= Len(stream')
      BY <1>4, <1>9, <3>1, <3>2
    <3>5. QED
      BY <1>4, <2>1, <2>3, <3>2, <3>3, <3>4
  <2>5. QED
    BY <2>3, <2>4
<1>20. Places(at2)'
  <2>1. at2[1] = 2 * ShortWidth
    BY <1>12, <1>14
  <2>2. ASSUME NEW k \in 1..(n + 1)
        PROVE  /\ at2[k + 1] = at2[k] + Len(Item(k)')
               /\ Written(k)' =>
                    /\ at2[k + 1] <= Len(stream')
                    /\ \A i \in 1..Len(Item(k)') : stream'[at2[k] + i] = Item(k)'[i]
    <3>1. Item(k)' = Item(k)
      BY <1>15
    <3>2. CASE k \in 1..n
      BY <1>16, <1>18, <3>1, <3>2
    <3>3. CASE k = n + 1
      <4>1. k + 1 = n + 2
        BY <3>3
      <4>2. QED
        BY <1>19, <3>1, <3>3, <4>1
    <3>4. QED
      BY <3>2, <3>3
  <2>3. Written(n + 1)' => at2[(n + 1) + 1] = Len(stream')
    BY <1>19
  <2>4. Len(at2) = (n + 1) + 1
    BY <1>14
  <2>5. QED
    BY <1>7, <1>14, <2>1, <2>2, <2>3, <2>4 DEF Places
<1>21. ReadTo(at2)'
  BY <1>2 DEF ReadTo
<1>22. QED
  BY <1>10, <1>11, <1>20, <1>21 DEF StreamInv

(* What is at which place depends on the sender only. *)
LEMMA PlacesStay ==
    ASSUME NEW at, Places(at), UNCHANGED <<schema, stream, wrote>> PROVE Places(at)'
<1>1. schema' = schema /\ stream' = stream /\ wrote' = wrote
  OBVIOUS
<1>2. QED
  BY ZenonT(30), <1>1 DEF Places, Written, Item

(* A number stored in a short is no larger afterwards. *)
LEMMA AsShortBound ==
    ASSUME NEW n \in Nat
    PROVE  AsShort(n) \in Int /\ AsShort(n) <= n
<1>1. PICK h \in Nat : h = ShortRange \div 2
  BY StreamAssumption
<1>2. /\ (n + h) % ShortRange \in 0..(ShortRange - 1)
      /\ (n + h) % ShortRange <= n + h
  <2>1. PICK m \in Nat : m = n + h
    OBVIOUS
  <2>2. m % ShortRange \in 0..(ShortRange - 1) /\ m % ShortRange <= m
    BY StreamAssumption
  <2>3. QED
    BY <2>1, <2>2
<1>3. QED
  BY <1>1, <1>2, StreamAssumption DEF AsShort

LEMMA FinishKeeps == ASSUME StreamInv, Finish PROVE StreamInv'
<1>1. StreamTypeOK
  BY DEF StreamInv
<1>2. PICK l \in Nat : l = Len(stream)
  BY <1>1 DEF StreamTypeOK
<1>3. AsShort(l) \in Int /\ AsShort(l) <= l
  BY AsShortBound
<1>4. /\ streamAt = "writing" /\ streamAt' = "sent" /\ received' = AsShort(l)
      /\ Len(wrote) = Len(schema) /\ schema' = schema /\ stream' = stream /\ wrote' = wrote
      /\ readPos' = readPos /\ got' = got
  BY <1>2 DEF Finish
<1>5. StreamTypeOK'
  BY <1>1, <1>2, <1>3, <1>4 DEF StreamTypeOK
<1>6. RoundTrip'
  BY <1>1, <1>4 DEF RoundTrip, StreamTypeOK
<1>7. PICK at : Places(at)
  BY <1>4 DEF StreamInv
<1>8. Places(at)' /\ ReadTo(at)'
  BY <1>4, <1>7, PlacesStay DEF ReadTo
<1>9. QED
  BY <1>5, <1>6, <1>8 DEF StreamInv

LEMMA ReceiveKeeps == ASSUME StreamInv, Receive PROVE StreamInv'
<1>1. StreamTypeOK
  BY DEF StreamInv
<1>2. /\ streamAt = "sent" /\ streamAt' = "reading" /\ readPos' \in Nat
      /\ received >= 2 * ShortWidth => readPos' = 2 * ShortWidth
      /\ schema' = schema /\ stream' = stream /\ wrote' = wrote
      /\ received' = received /\ got' = got /\ got = <<>>
  BY <1>1 DEF Receive, StreamTypeOK, ShortWidth
<1>3. StreamTypeOK'
  BY <1>1, <1>2 DEF StreamTypeOK, ShortWidth
<1>4. RoundTrip'
  BY <1>2 DEF RoundTrip
<1>5. PICK at : Places(at)
  BY <1>2 DEF StreamInv
<1>6. Places(at)' /\ ReadTo(at)'
  <2>1. Len(got') + 1 = 1 /\ at[1] = 2 * ShortWidth
    BY <1>2, <1>5 DEF Places
  <2>2. QED
    BY <1>2, <1>5, <2>1, PlacesStay DEF ReadTo
<1>7. QED
  BY <1>3, <1>4, <1>6 DEF StreamInv

(* The bytes of one field are consumed, of the right one if all fit. *)
LEMMA ConsumeKeeps ==
    ASSUME StreamInv, Reading, NEW n \in Nat, CanRead(n), Consume(n),
           received >= 2 * ShortWidth /\ Through(Len(got)) /\ Written(Len(got) + 1) =>
               n = Len(Item(Len(got) + 1)),
           UNCHANGED <<streamAt, schema, stream, wrote, received>>
    PROVE  StreamInv'
<1>1. StreamTypeOK
  BY DEF StreamInv
<1>2. PICK g \in Nat : g = Len(got) /\ g + 1 \in 1..Len(schema) /\ Len(wrote) = Len(schema)
  BY <1>1 DEF StreamTypeOK, Reading
<1>3. PICK p \in Nat, l \in Nat : p = readPos /\ l = Len(stream) /\ p + n <= received /\ received <= l
  <2>1. readPos \in Nat /\ Len(stream) \in Nat /\ received \in Int /\ received <= Len(stream)
    BY <1>1 DEF StreamTypeOK
  <2>2. received - readPos >= n
    BY DEF CanRead
  <2>3. readPos + n <= received
    BY <2>1, <2>2
  <2>4. QED
    BY <2>1, <2>3
<1>4. PICK b \in Seq(Bytes) : /\ b = BytesAt(p, n) /\ Len(b) = n
                              /\ \A i \in 1..n : b[i] = stream[p + i]
  <2>1. \A i \in (p + 1)..(p + n) : stream[i] \in Bytes
    <3>1. \A i \in (p + 1)..(p + n) : i \in 1..l
      BY <1>1, <1>3 DEF StreamTypeOK
    <3>2. stream \in Seq(Bytes)
      BY <1>1 DEF StreamTypeOK
    <3>3. QED
      BY <1>3, <3>1, <3>2, ElementOfSeq
  <2>2. PICK u \in Int, v \in Int : u = p + 1 /\ v = p + n
    OBVIOUS
  <2>3. /\ SubSeq(stream, u, v) \in Seq(Bytes)
        /\ Len(SubSeq(stream, u, v)) = IF u <= v THEN v - u + 1 ELSE 0
        /\ \A i \in 1..(v - u + 1) : SubSeq(stream, u, v)[i] = stream[u + i - 1]
    BY <2>1, <2>2, SubSeqProperties
  <2>4. Len(SubSeq(stream, u, v)) = n
    BY <2>2, <2>3
  <2>5. \A i \in 1..n : i \in 1..(v - u + 1) /\ u + i - 1 = p + i
    BY <2>2
  <2>6. QED
    BY <2>2, <2>3, <2>4, <2>5 DEF BytesAt
<1>5. /\ got' = Append(got, b) /\ readPos' = p + n
      /\ streamAt' = "reading" /\ schema' = schema /\ stream' = stream /\ wrote' = wrote
      /\ received' = received /\ streamAt = "reading"
  BY <1>3, <1>4 DEF Consume, Reading
<1>6. /\ got' \in Seq(Seq(Bytes)) /\ Len(got') = g + 1 /\ got'[g + 1] = b
      /\ \A j \in 1..g : got'[j] = got[j]
  BY <1>1, <1>2, <1>5, AppendProperties DEF StreamTypeOK
<1>7. StreamTypeOK'
  BY <1>1, <1>2, <1>3, <1>5, <1>6 DEF StreamTypeOK
<1>8. PICK at : Places(at) /\ ReadTo(at)
  BY <1>5 DEF StreamInv
<1>9. \A k : (Item(k)' = Item(k)) /\ (Written(k)' <=> Written(k))
  BY <1>5 DEF Item, Written
<1>9a. /\ \A k \in 1..g : Through(k)' <=> Through(k)
       /\ Through(g)' <=> Through(g)
       /\ Through(g + 1)' => Through(g) /\ Written(g + 1)
  <2>1. wrote' = wrote
    BY <1>5
  <2>2. \A j \in 1..g : got'[j] # <<>> <=> got[j] # <<>>
    BY <1>6
  <2>3. ASSUME NEW k \in 0..g PROVE Through(k)' <=> Through(k)
    <3>1. \A j \in 1..k : j \in 1..g
      OBVIOUS
    <3>2. QED
      BY <2>1, <2>2, <3>1 DEF Through
  <2>4. ASSUME Through(g + 1)' PROVE Through(g) /\ Written(g + 1)
    <3>1. \A j \in 1..g : j \in 1..(g + 1)
      OBVIOUS
    <3>2. Through(g)' /\ Written(g + 1)
      BY <2>1, <2>4, <3>1 DEF Through, Written
    <3>3. QED
      BY <2>3, <3>2
  <2>5. QED
    BY <2>3, <2>4
<1>10. CASE received >= 2 * ShortWidth /\ Through(g) /\ Written(g + 1)
  <2>1. Through(g) /\ \A k \in 1..g : Through(k)
    BY <1>10 DEF Through
  <2>2. p = at[g + 1] /\ n = Len(Item(g + 1))
    BY <1>2, <1>3, <1>5, <1>8, <1>10, <2>1 DEF ReadTo
  <2>3. p + n = at[(g + 1) + 1] /\ \A i \in 1..n : stream[p + i] = Item(g + 1)[i]
    BY <1>2, <1>8, <1>10, <2>2 DEF Places
  <2>4. b = Item(g + 1)
    <3>1. PICK c \in Seq(Bytes) : c = Item(g + 1)
      BY <1>1, <1>2, ItemType
    <3>2. Len(c) = Len(b) /\ \A i \in 1..Len(c) : c[i] = b[i]
      BY <1>4, <2>2, <2>3, <3>1
    <3>3. QED
      BY <3>1, <3>2, SeqEqual
  <2>5. \A k \in 1..g : got[k] = Item(k)
    BY <1>2, <1>10, <2>1 DEF StreamInv, RoundTrip
  <2>6. RoundTrip'
    <3>1. ASSUME NEW k \in 1..(g + 1) PROVE got'[k] = Item(k)'
      <4>1. CASE k \in 1..g
        BY <1>6, <1>9, <2>5, <4>1
      <4>2. CASE k = g + 1
        BY <1>6, <1>9, <2>4, <4>2
      <4>3. QED
        BY <4>1, <4>2
    <3>2. QED
      BY <1>6, <3>1 DEF RoundTrip
  <2>7. Places(at)' /\ ReadTo(at)'
    <3>1. Places(at)'
      BY <1>5, <1>8, PlacesStay
    <3>2. QED
      BY <1>5, <1>6, <2>3, <3>1 DEF ReadTo
  <2>8. QED
    BY <1>7, <2>6, <2>7 DEF StreamInv
<1>11. CASE ~(received >= 2 * ShortWidth /\ Through(g) /\ Written(g + 1))
  <2>1. RoundTrip'
    <3>1. ASSUME NEW k \in 1..(g + 1), Through(k)', received >= 2 * ShortWidth
          PROVE  got'[k] = Item(k)'
      <4>1. k \in 1..g /\ Through(k)
        BY <1>9a, <1>11, <3>1
      <4>2. got[k] = Item(k)
        BY <1>2, <3>1, <4>1 DEF StreamInv, RoundTrip
      <4>3. QED
        BY <1>6, <1>9, <4>1, <4>2
    <3>2. QED
      BY <1>5, <1>6, <3>1 DEF RoundTrip
  <2>2. Places(at)' /\ ReadTo(at)'
    <3>1. Places(at)'
      BY <1>5, <1>8, PlacesStay
    <3>2. QED
      BY <1>5, <1>6, <1>9a, <1>11, <3>1 DEF ReadTo
  <2>3. QED
    BY <1>7, <2>1, <2>2 DEF StreamInv
<1>12. QED
  BY <1>10, <1>11

(* A read is refused: the receiver stays where it is. *)
LEMMA RefuseKeeps ==
    ASSUME StreamInv, Reading, Refuse(readPos), UNCHANGED <<streamAt, schema, stream, wrote, received>>
    PROVE  StreamInv'
<1>1. StreamTypeOK /\ RoundTrip
  BY DEF StreamInv
<1>2. /\ streamAt' = streamAt /\ schema' = schema /\ stream' = stream /\ wrote' = wrote
      /\ received' = received /\ readPos' = readPos /\ streamAt = "reading"
  BY DEF Refuse, Reading
<1>3. PICK g \in Nat : g = Len(got) /\ g + 1 \in 1..Len(schema)
  BY <1>1 DEF StreamTypeOK, Reading
<1>4. PICK at : Places(at) /\ ReadTo(at)
  BY <1>2 DEF StreamInv
<1>5. Places(at)'
  BY <1>2, <1>4, PlacesStay
<1>6. \A k : Item(k)' = Item(k)
  BY <1>2 DEF Item
<1>7. CASE got' = got
  <2>1. StreamTypeOK'
    BY <1>1, <1>2, <1>7 DEF StreamTypeOK
  <2>2. \A k : Through(k)' <=> Through(k)
    BY <1>2, <1>7 DEF Through
  <2>3. RoundTrip'
    BY <1>1, <1>2, <1>6, <1>7, <2>2 DEF RoundTrip
  <2>4. ReadTo(at)'
    BY <1>2, <1>4, <1>7, <2>2 DEF ReadTo
  <2>5. QED
    BY <1>5, <2>1, <2>3, <2>4 DEF StreamInv
<1>8. CASE got' = Append(got, <<>>)
  <2>1. /\ got' \in Seq(Seq(Bytes)) /\ Len(got') = g + 1 /\ got'[g + 1] = <<>>
        /\ \A j \in 1..g : got'[j] = got[j]
    <3>1. <<>> \in Seq(Bytes) /\ got \in Seq(Seq(Bytes))
      BY <1>1, EmptySeq DEF StreamTypeOK
    <3>2. QED
      BY <1>3, <1>8, <3>1, AppendProperties
  <2>2. StreamTypeOK'
    BY <1>1, <1>2, <1>3, <2>1 DEF StreamTypeOK
  <2>3. ~Through(g + 1)' /\ \A k \in 1..g : Through(k)' => Through(k)
    <3>1. wrote' = wrote
      BY <1>2
    <3>2. ~Through(g + 1)'
      BY <2>1 DEF Through
    <3>3. ASSUME NEW k \in 1..g, Through(k)' PROVE Through(k)
      <4>1. \A j \in 1..k : j \in 1..g
        OBVIOUS
      <4>2. QED
        BY <2>1, <3>1, <3>3, <4>1 DEF Through
    <3>4. QED
      BY <3>2, <3>3
  <2>4. ASSUME NEW k \in 1..(g + 1), Through(k)', received >= 2 * ShortWidth
        PROVE  got'[k] = Item(k)'
    <3>1. k \in 1..g /\ Through(k)
      BY <2>3, <2>4
    <3>2. QED
      BY <1>1, <1>3, <1>6, <2>1, <2>4, <3>1 DEF RoundTrip
  <2>5. RoundTrip'
    BY <1>2, <2>1, <2>4 DEF RoundTrip
  <2>6. ReadTo(at)'
    BY <2>1, <2>3 DEF ReadTo
  <2>7. QED
    BY <1>5, <2>2, <2>5, <2>6 DEF StreamInv
<1>9. QED
  BY <1>7, <1>8 DEF Refuse

LEMMA ValueKeeps == ASSUME StreamInv, ReadValue PROVE StreamInv'
<1>1. PICK k \in 1..Len(schema) : k = Len(got) + 1
  BY DEF ReadValue, Reading, StreamInv, StreamTypeOK
<1>2. PICK f \in Fields : f = schema[k]
  BY <1>1, ElementOfSeq DEF StreamInv, StreamTypeOK
<1>3. PICK n \in Nat : n = f.width
  BY <1>2 DEF Fields
<1>4. Len(Item(k)) = n
  BY <1>1, <1>2, <1>3, ItemType DEF ReadValue, NextField, StreamInv
<1>5. \/ CanRead(n) /\ Consume(n)
      \/ Refuse(readPos)
  BY <1>1, <1>2, <1>3 DEF ReadValue, NextField
<1>6. QED
  BY <1>1, <1>4, <1>5, ConsumeKeeps, RefuseKeeps DEF ReadValue

(* What the peek at the count yields is a number, and the length of the    *)
(* array if the reader is at its beginning. *)
LEMMA CountRead ==
    ASSUME StreamInv, Reading, NEW k \in 1..Len(schema), k = Len(got) + 1, IsArray(schema[k]),
           NEW n \in Counts
    PROVE  /\ n \in Nat
           /\ received >= 2 * ShortWidth /\ Through(Len(got)) /\ Written(k) /\ CanRead(CountWidth) =>
                n = Elements(schema[k])
<1>1. StreamTypeOK
  BY DEF StreamInv
<1>2. \A j \in 1..Len(schema) : IsArray(schema[j]) => Elements(schema[j]) \in Nat
  <2>1. ASSUME NEW j \in 1..Len(schema) PROVE schema[j] \in Fields
    BY <1>1, ElementOfSeq DEF StreamTypeOK
  <2>2. QED
    BY <2>1 DEF Fields, IsArray, Elements
<1>3. \A j \in 1..Len(schema) : /\ Len(Part(j, "count", CountWidth)) = CountWidth
                                 /\ Part(j, "count", CountWidth)[1] = <<j, "count", 1>>
  <2>1. CountWidth \in Nat /\ 1 \in 1..CountWidth
    BY DEF CountWidth
  <2>2. "count" \in Labels
    BY DEF Labels
  <2>3. ASSUME NEW j \in 1..Len(schema)
        PROVE  /\ Len(Part(j, "count", CountWidth)) = CountWidth
               /\ \A i \in 1..CountWidth : Part(j, "count", CountWidth)[i] = <<j, "count", i>>
    <3>1. j \in Nat
      BY <1>1 DEF StreamTypeOK
    <3>2. QED
      BY <2>1, <2>2, <3>1, PartType
  <2>4. QED
    BY <2>1, <2>3
<1>4. CASE ~CanRead(CountWidth)
  BY <1>4 DEF Counts
<1>5. CASE CanRead(CountWidth)
  <2> DEFINE b == BytesAt(readPos, CountWidth)
             Is(j) == IsArray(schema[j]) /\ b = Part(j, "count", CountWidth)
  <2>1. Counts = IF \E j \in 1..Len(schema) : Is(j)
                 THEN {Elements(schema[b[1][1]])} ELSE 0..(Capacity + 1)
    BY <1>5 DEF Counts
  <2>2. ASSUME NEW j \in 1..Len(schema), Is(j) PROVE n = Elements(schema[j])
    <3>1. b[1][1] = j
      BY <1>3, <2>2
    <3>2. QED
      BY <2>1, <2>2, <3>1
  <2>3. n \in Nat
    <3>1. CASE \E j \in 1..Len(schema) : Is(j)
      BY <1>2, <2>2, <3>1
    <3>2. CASE ~\E j \in 1..Len(schema) : Is(j)
      BY <2>1, <3>2, StreamAssumption
    <3>3. QED
      BY <3>1, <3>2
  <2>4. ASSUME received >= 2 * ShortWidth, Through(Len(got)), Written(k) PROVE Is(k)
    <3>1. PICK at : Places(at) /\ ReadTo(at)
      BY DEF StreamInv, Reading
    <3>2. PICK g \in Nat : g = Len(got) /\ k = g + 1 /\ Len(wrote) = Len(schema)
      BY <1>1 DEF StreamTypeOK, Reading
    <3>3. PICK p \in Nat, l \in Nat : p = readPos /\ l = Len(stream) /\ p + 4 <= l
      <4>1. readPos \in Nat /\ Len(stream) \in Nat /\ received \in Int /\ received <= Len(stream)
        BY <1>1 DEF StreamTypeOK
      <4>2. received - readPos >= 4
        BY <1>5 DEF CanRead, CountWidth
      <4>3. readPos + 4 <= Len(stream)
        BY <4>1, <4>2
      <4>4. QED
        BY <4>1, <4>3
    <3>4. p = at[k]
      <4>1. streamAt = "reading"
        BY DEF Reading
      <4>2. QED
        BY <2>4, <3>1, <3>2, <3>3, <4>1 DEF ReadTo
    <3>5. \A i \in 1..4 : Item(k)[i] = <<k, "count", i>>
      BY <1>1, ItemType DEF CountWidth
    <3>6. Len(Item(k)) \in Nat /\ 4 <= Len(Item(k))
      <4>1. PICK m \in Nat : m = schema[k].width * Elements(schema[k])
        <5>1. schema[k] \in Fields
          BY <1>1, ElementOfSeq DEF StreamTypeOK
        <5>2. schema[k].width \in Nat
          BY <5>1 DEF Fields
        <5>3. QED
          BY <1>2, <5>2
      <4>2. Len(Item(k)) = 4 + m
        BY <1>1, <4>1, ItemType DEF CountWidth
      <4>3. QED
        BY <4>2
    <3>7. \A i \in 1..4 : stream[p + i] = <<k, "count", i>>
      <4>1. \A i \in 1..Len(Item(k)) : stream[p + i] = Item(k)[i]
        BY <2>4, <3>1, <3>2, <3>4 DEF Places
      <4>2. \A i \in 1..4 : i \in 1..Len(Item(k))
        BY <3>6
      <4>3. QED
        BY <3>5, <4>1, <4>2
    <3>8. b = [i \in 1..4 |-> stream[p + i]]
      BY <3>3 DEF BytesAt, CountWidth
    <3>9. b = Part(k, "count", CountWidth)
      BY <3>7, <3>8 DEF Part, CountWidth
    <3>10. QED
      BY <3>9
  <2>5. QED
    BY <2>2, <2>3, <2>4
<1>6. QED
  BY <1>4, <1>5

LEMMA ArrayKeeps == ASSUME StreamInv, NEW d \in Destinations, ReadArray(d) PROVE StreamInv'
<1>1. PICK k \in 1..Len(schema) : k = Len(got) + 1
  BY DEF ReadArray, Reading, StreamInv, StreamTypeOK
<1>2. PICK f \in Fields : f = schema[k]
  BY <1>1, ElementOfSeq DEF StreamInv, StreamTypeOK
<1>3. Reading /\ IsArray(schema[k]) /\ UNCHANGED <<streamAt, schema, stream, wrote, received>>
  BY <1>1 DEF ReadArray, NextField
<1>4. PICK n \in Counts :
        LET size == CountWidth + f.width * n
        IN  IF n < d /\ CanRead(size)
            THEN Consume(size)
            ELSE Refuse(Refused)
  BY <1>1, <1>2 DEF ReadArray, NextField
<1>5. /\ n \in Nat
      /\ received >= 2 * ShortWidth /\ Through(Len(got)) /\ Written(k) /\ CanRead(CountWidth) =>
           n = Elements(schema[k])
  BY <1>1, <1>3, CountRead
<1>6. PICK m \in Nat : m = f.width * n
  BY <1>2, <1>5 DEF Fields
<1>7. CASE CanRead(CountWidth + m) /\ Consume(CountWidth + m)
  <2>1. CanRead(CountWidth)
    BY <1>7 DEF CanRead, CountWidth, StreamInv, StreamTypeOK
  <2>2. received >= 2 * ShortWidth /\ Through(Len(got)) /\ Written(k) => CountWidth + m = Len(Item(k))
    BY <1>2, <1>3, <1>5, <1>6, <2>1, ItemType DEF StreamInv
  <2>3. CountWidth + m \in Nat
    BY DEF CountWidth
  <2>4. QED
    BY <1>1, <1>3, <1>7, <2>2, <2>3, ConsumeKeeps
<1>8. CASE Refuse(readPos)
  BY <1>3, <1>8, RefuseKeeps
<1>9. QED
  BY <1>4, <1>6, <1>7, <1>8 DEF Refused

LEMMA StreamKeeps == StreamInv /\ [StreamNext]_streamVars => StreamInv'
<1> SUFFICES ASSUME StreamInv, [StreamNext]_streamVars PROVE StreamInv'
  OBVIOUS
<1>1. CASE UNCHANGED streamVars
  <2>1. /\ streamAt' = streamAt /\ schema' = schema /\ stream' = stream /\ wrote' = wrote
        /\ received' = received /\ got' = got /\ readPos' = readPos
    BY <1>1 DEF streamVars
  <2>2. StreamTypeOK'
    BY <2>1 DEF StreamInv, StreamTypeOK
  <2>3. RoundTrip'
    BY <2>1 DEF StreamInv, RoundTrip, Through, Item
  <2>4. ASSUME NEW at, Places(at), ReadTo(at) PROVE Places(at)' /\ ReadTo(at)'
    BY <2>1, <2>4, PlacesStay DEF ReadTo, Through
  <2>5. QED
    BY <2>1, <2>2, <2>3, <2>4 DEF StreamInv
<1>2. QED
  BY <1>1, CmdKeeps, FieldWrites, FinishKeeps, ReceiveKeeps, ValueKeeps, ArrayKeeps
  DEF StreamNext

(* Whatever the schema, the capacity and the destinations, the receiver    *)
(* reads the fields that the sender could write, byte for byte, up to the  *)
(* first one that it gave up reading, however often a destination was too  *)
(* small and the read was tried again.                                     *)
THEOREM StreamReadsBack == StreamSpec => []RoundTrip
<1>1. StreamInv => RoundTrip
  BY DEF StreamInv
<1>2. QED
  BY <1>1, StreamFirst, StreamKeeps, PTL DEF StreamSpec

=============================================================================
