----------------------------- MODULE Allocator -----------------------------
(***************************************************************************)
(* What an allocator promises to the threads of a program: a block is     *)
(* given to a thread only while nobody holds it, it has room for what the  *)
(* thread asked for, and its room does not change until it is released.    *)
(* Blocks may be handed from thread to thread.                             *)
(***************************************************************************)
EXTENDS Naturals

CONSTANTS Thread, Block, Null

VARIABLES held,    \* the blocks each thread holds
          want,    \* the size each thread waits for, or Null
          bytes    \* the room of each block

InUse == UNION {held[t] : t \in Thread}

Init ==
    /\ held = [t \in Thread |-> {}]
    /\ want = [t \in Thread |-> Null]
    /\ bytes \in [Block -> Nat]

Ask(t) ==
    /\ want[t] = Null
    /\ want'[t] \in Nat
    /\ want' = [want EXCEPT ![t] = want'[t]]
    /\ UNCHANGED <<held, bytes>>

Give(t, b) ==
    /\ want[t] # Null
    /\ b \notin InUse
    /\ held' = [held EXCEPT ![t] = @ \cup {b}]
    /\ want' = [want EXCEPT ![t] = Null]
    /\ bytes' = [bytes EXCEPT ![b] = bytes'[b]]
    /\ bytes'[b] \in Nat
    /\ want[t] <= bytes'[b]

Take(t, b) ==
    /\ b \in held[t]
    /\ held' = [held EXCEPT ![t] = @ \ {b}]
    /\ UNCHANGED <<want, bytes>>

Hand(t, u, b) ==
    /\ b \in held[t]
    /\ held' = [held EXCEPT ![t] = @ \ {b}, ![u] = @ \cup {b}]
    /\ UNCHANGED <<want, bytes>>

Next ==
    \E t \in Thread :
        \/ Ask(t)
        \/ \E b \in Block :
               Give(t, b) \/ Take(t, b) \/ \E u \in Thread \ {t} : Hand(t, u, b)

Spec == Init /\ [][Next]_<<held, want, bytes>>
=============================================================================
