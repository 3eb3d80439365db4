----------------------------- MODULE Semaphore -----------------------------
(***************************************************************************)
(* The abstract counting semaphore that CRCSemaphore promises to be.       *)
(*                                                                         *)
(*   permits  wake-ups given and not yet consumed;                         *)
(*   pending  threads that have called wait() and have not returned.       *)
(***************************************************************************)
EXTENDS Naturals

CONSTANT Threads

VARIABLES permits, pending

Init == permits = 0 /\ pending = {}

(* A thread calls wait() and has to block. *)
Block(t) ==
    /\ t \notin pending
    /\ pending' = pending \cup {t}
    /\ UNCHANGED permits

(* A thread calls wait() and returns at once with a permit. *)
Acquire(t) ==
    /\ t \notin pending
    /\ permits > 0
    /\ permits' = permits - 1
    /\ UNCHANGED pending

(* A blocked thread takes a permit and returns from wait(). *)
Unblock(t) ==
    /\ t \in pending
    /\ permits > 0
    /\ permits' = permits - 1
    /\ pending' = pending \ {t}

(* Any thread gives a permit. *)
Release ==
    /\ permits' = permits + 1
    /\ UNCHANGED pending

Next == Release \/ \E t \in Threads : Block(t) \/ Acquire(t) \/ Unblock(t)

Spec == Init /\ [][Next]_<<permits, pending>>
=============================================================================
