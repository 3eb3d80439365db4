----------------------------- MODULE Admission -----------------------------
(***************************************************************************)
(* What the server promises about the number of its clients: it serves at  *)
(* most MaxClient connections at a time, and it refuses a connection only  *)
(* when it serves that many.                                               *)
(***************************************************************************)
EXTENDS Naturals, FiniteSets

CONSTANTS Conns, MaxClient

VARIABLES open,      \* the connections served
          refused    \* the connections turned away

Init == open = {} /\ refused = {}

Admit(c) ==
    /\ c \notin open \cup refused
    /\ Cardinality(open) < MaxClient
    /\ open' = open \cup {c}
    /\ UNCHANGED refused

Refuse(c) ==
    /\ c \notin open \cup refused
    /\ Cardinality(open) = MaxClient
    /\ refused' = refused \cup {c}
    /\ UNCHANGED open

Leave(c) ==
    /\ c \in open
    /\ open' = open \ {c}
    /\ UNCHANGED refused

Next == \E c \in Conns : Admit(c) \/ Refuse(c) \/ Leave(c)

Spec == Init /\ [][Next]_<<open, refused>>
=============================================================================
