---------------------------- MODULE RequestReply ----------------------------
(***************************************************************************)
(* What a client and a server promise each other over one connection: the  *)
(* requests submitted are handled in the order of submission, each once;   *)
(* the client gets answers to requests that were handled, in their order   *)
(* and none twice, but a request may remain unanswered.                    *)
(***************************************************************************)
EXTENDS Naturals, Sequences

CONSTANT PerBatch  \* requests submitted at a time

VARIABLES
    submitted,     \* how many requests were submitted
    handled,       \* the requests the server handled, in that order
    answered       \* the requests whose answer the client got, in that order

Init == submitted = 0 /\ handled = <<>> /\ answered = <<>>

Submit ==
    /\ submitted' = submitted + PerBatch
    /\ UNCHANGED <<handled, answered>>

Handle ==
    /\ Len(handled) < submitted
    /\ handled' = Append(handled, Len(handled) + 1)
    /\ UNCHANGED <<submitted, answered>>

Answer ==
    /\ \E m \in 1..Len(handled) :
         /\ answered # <<>> => m > answered[Len(answered)]
         /\ answered' = Append(answered, m)
    /\ UNCHANGED <<submitted, handled>>

Next == Submit \/ Handle \/ Answer

Spec == Init /\ [][Next]_<<submitted, handled, answered>>
=============================================================================
