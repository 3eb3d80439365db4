---------------------------- MODULE CRCSemaphore ----------------------------
(***************************************************************************)
(* CRCSemaphore (src/common/include/crc_semaphore.hpp): a counting         *)
(* semaphore made of two counters and a condition variable.  wait() and    *)
(* wakeup() hold the mutex from start to end, except that the condition    *)
(* variable releases it while a thread sleeps, so each critical section is *)
(* one action.                                                             *)
(*                                                                         *)
(*   waitCount    _waitCount: negative when threads are owed a wake-up     *)
(*   wakeupCount  _wakeupCount: wake-ups given to blocked threads and not  *)
(*                taken yet                                                *)
(*   sleeping     threads inside _condv.wait() that were not notified      *)
(*   notified     threads inside _condv.wait() that were notified, or woke *)
(*                spuriously, and have to test the predicate again         *)
(***************************************************************************)
EXTENDS Integers, FiniteSets

CONSTANTS
    Threads,     \* the threads that share the semaphore
    MaxPermits   \* bound of the model: wake-ups that may be banked

ASSUME SemaphoreAssumption == MaxPermits \in Nat

VARIABLES waitCount, wakeupCount, sleeping, notified

semVars == <<waitCount, wakeupCount, sleeping, notified>>

(* Threads that have called wait() and have not returned. *)
Pending == sleeping \cup notified

SemInit ==
    /\ waitCount = 0
    /\ wakeupCount = 0
    /\ sleeping = {}
    /\ notified = {}

(***************************************************************************)
(* wait(), lines 37-47.                                                    *)
(***************************************************************************)

(* The decremented counter is not negative: wait() returns at once. *)
WaitFast(t) ==
    /\ t \notin Pending
    /\ waitCount > 0
    /\ waitCount' = waitCount - 1
    /\ UNCHANGED <<wakeupCount, sleeping, notified>>

(* The counter becomes negative but a wake-up meant for another blocked    *)
(* thread is there: the predicate is true before sleeping, so this thread  *)
(* takes it (condition_variable::wait(lock, pred) tests pred first).       *)
WaitBarge(t) ==
    /\ t \notin Pending
    /\ waitCount <= 0
    /\ wakeupCount > 0
    /\ waitCount' = waitCount - 1
    /\ wakeupCount' = wakeupCount - 1
    /\ UNCHANGED <<sleeping, notified>>

WaitSleep(t) ==
    /\ t \notin Pending
    /\ waitCount <= 0
    /\ wakeupCount = 0
    /\ waitCount' = waitCount - 1
    /\ sleeping' = sleeping \cup {t}
    /\ UNCHANGED <<wakeupCount, notified>>

Wait(t) == WaitFast(t) \/ WaitBarge(t) \/ WaitSleep(t)

(* Mutant: the wake-up is not consumed. *)
MutResumeTake(t) ==
    /\ t \in notified
    /\ wakeupCount > 0
    /\ notified' = notified \ {t}
    /\ UNCHANGED <<waitCount, wakeupCount, sleeping>>

(* A notified thread holds the mutex again and tests the predicate.        *)
ResumeTake(t) ==
    /\ t \in notified
    /\ wakeupCount > 0
    /\ wakeupCount' = wakeupCount - 1
    /\ notified' = notified \ {t}
    /\ UNCHANGED <<waitCount, sleeping>>

ResumeSleep(t) ==
    /\ t \in notified
    /\ wakeupCount = 0
    /\ notified' = notified \ {t}
    /\ sleeping' = sleeping \cup {t}
    /\ UNCHANGED <<waitCount, wakeupCount>>

Resume(t) == ResumeTake(t) \/ ResumeSleep(t)

(* A condition variable may wake a thread that nobody notified. *)
SpuriousWake(t) ==
    /\ t \in sleeping
    /\ sleeping' = sleeping \ {t}
    /\ notified' = notified \cup {t}
    /\ UNCHANGED <<waitCount, wakeupCount>>

(***************************************************************************)
(* wakeup(), lines 49-58.                                                  *)
(***************************************************************************)

(* Mutant: notify_one() is forgotten. *)
MutNotifyNobody == UNCHANGED <<sleeping, notified>>

(* notify_one(): wakes one sleeping thread, nobody when nobody sleeps. *)
NotifyOne ==
    \/ /\ sleeping = {}
       /\ UNCHANGED <<sleeping, notified>>
    \/ \E t \in sleeping : /\ sleeping' = sleeping \ {t}
                           /\ notified' = notified \cup {t}

(* The test of wakeup(), line 52: somebody is blocked. *)
SomebodyBlocked == waitCount + 1 <= 0

WakeupBlocked ==
    /\ SomebodyBlocked
    /\ waitCount' = waitCount + 1
    /\ wakeupCount' = wakeupCount + 1
    /\ NotifyOne

WakeupBank ==
    /\ ~SomebodyBlocked
    /\ waitCount' = waitCount + 1
    /\ UNCHANGED <<wakeupCount, sleeping, notified>>

Wakeup == WakeupBlocked \/ WakeupBank

-----------------------------------------------------------------------------

SemNext ==
    \/ waitCount < MaxPermits /\ Wakeup
    \/ \E t \in Threads : Wait(t) \/ Resume(t) \/ SpuriousWake(t)

(* A notified thread is scheduled and reacquires the mutex. *)
SemFairness == \A t \in Threads : WF_semVars(Resume(t))

SemSpec == SemInit /\ [][SemNext]_semVars /\ SemFairness

-----------------------------------------------------------------------------

SemTypeOK ==
    /\ waitCount \in Int
    /\ wakeupCount \in Nat
    /\ sleeping \subseteq Threads
    /\ notified \subseteq Threads
    /\ sleeping \cap notified = {}

(* What blocked threads are owed: a negative counter is the number of      *)
(* blocked threads that no wakeup() has answered yet.                      *)
Owed == IF waitCount < 0 THEN 0 - waitCount ELSE 0

(* Every thread blocked in wait() is accounted for exactly once: either a  *)
(* wakeup() already answered it (wakeupCount) or the negative counter      *)
(* still owes it one.  Were it to fail, wakeup() could skip its            *)
(* notification while somebody sleeps.                                     *)
Balance == Cardinality(Pending) = wakeupCount + Owed

(* No wake-up is lost: there are at least as many threads on their way out *)
(* of the condition variable as there are wake-ups to take, although       *)
(* notify_one() may find nobody asleep and a newcomer may take a wake-up   *)
(* meant for another thread.                                               *)
NoLostWakeup == wakeupCount <= Cardinality(notified)

(* Seen from outside, the two counters are one counting semaphore: wait()  *)
(* returns exactly when it consumes one of the wake-ups given.             *)
Permits == wakeupCount + (IF waitCount > 0 THEN waitCount ELSE 0)

Abstract == INSTANCE Semaphore WITH permits <- Permits, pending <- Pending

ImplementsSemaphore == Abstract!Spec
=============================================================================
