---------------------------- MODULE EpollSample ----------------------------
(***************************************************************************)
(* The sample server on epoll (src/HelloSocket/iocp-epoll.cpp, Linux part):*)
(* a client is watched for input; when something was received it is        *)
(* watched for output instead, gets one heart beat, and is watched for     *)
(* input again.  After EnoughReads receptions in all a client that was     *)
(* answered is not watched any more.                                       *)
(*                                                                         *)
(* One thread; epoll_wait() is level-triggered and returns a batch.  A     *)
(* client is one connection; nothing is assumed of the order of a batch.   *)
(***************************************************************************)
EXTENDS Naturals, FiniteSets

CONSTANTS
    Visitors,     \* connections of peers
    EnoughReads,  \* 50
    MaxTalk       \* bound: messages of a visitor

VARIABLES
    visitor,    \* "none", "calling", "here", "gone": the peer's end
    mask,       \* what its socket is watched for: "in", "out", "off", "lost", "none", "closed"
    waiting,    \* messages in the receive buffer of its socket
    talk,       \* messages it sent
    reads,      \* receptions from it
    hearts,     \* heart beats sent to it
    batch,      \* <<visitor, event>> of this round not looked at yet
    calls,      \* the listening socket is in the batch
    totalReads, \* g_count
    up          \* the loop runs

sampleVars == <<visitor, mask, waiting, talk, reads, hearts, batch, calls, totalReads, up>>
visitorVars == <<visitor, talk>>

SampleInit ==
    /\ visitor = [v \in Visitors |-> "none"]
    /\ mask = [v \in Visitors |-> "none"]
    /\ waiting = [v \in Visitors |-> 0]
    /\ talk = waiting /\ reads = waiting /\ hearts = waiting
    /\ batch = {} /\ calls = FALSE /\ totalReads = 0 /\ up = TRUE

-----------------------------------------------------------------------------

VisitorCalls(v) ==
    /\ visitor[v] = "none"
    /\ visitor' = [visitor EXCEPT ![v] = "calling"]
    /\ UNCHANGED <<mask, waiting, talk, reads, hearts, batch, calls, totalReads, up>>

VisitorTalks(v) ==
    /\ visitor[v] \in {"calling", "here"} /\ talk[v] < MaxTalk
    /\ talk' = [talk EXCEPT ![v] = @ + 1]
    /\ waiting' = [waiting EXCEPT ![v] = @ + 1]
    /\ UNCHANGED <<visitor, mask, reads, hearts, batch, calls, totalReads, up>>

VisitorGoes(v) ==
    /\ visitor[v] = "here"
    /\ visitor' = [visitor EXCEPT ![v] = "gone"]
    /\ UNCHANGED <<mask, waiting, talk, reads, hearts, batch, calls, totalReads, up>>

-----------------------------------------------------------------------------

RoundOver == batch = {} /\ ~calls

(* epoll_wait(): what is ready of what is watched for. *)
WaitEvents ==
    /\ up /\ RoundOver
    /\ batch' = {<<v, mask[v]>> : v \in {u \in Visitors :
                   \/ mask[u] = "out"
                   \/ mask[u] = "in" /\ (waiting[u] > 0 \/ visitor[u] = "gone")}}
    /\ calls' = (\E v \in Visitors : visitor[v] = "calling")
    /\ UNCHANGED <<visitorVars, mask, waiting, reads, hearts, totalReads, up>>

(* "exit", or epoll_wait() fails: the clients of g_clients are closed. *)
SampleEnds ==
    /\ up /\ RoundOver
    /\ up' = FALSE
    /\ mask' = [v \in Visitors |-> IF mask[v] \in {"none", "lost"} THEN mask[v] ELSE "closed"]
    /\ UNCHANGED <<visitorVars, waiting, reads, hearts, batch, calls, totalReads>>

(* The listening socket: a client that cannot be registered is forgotten,  *)
(* open, and the rest of the batch with it. *)
AcceptOne(v) ==
    /\ calls /\ visitor[v] = "calling"
    /\ visitor' = [visitor EXCEPT ![v] = "here"]
    /\ calls' = FALSE
    /\ \/ mask' = [mask EXCEPT ![v] = "in"] /\ UNCHANGED batch
       \/ mask' = [mask EXCEPT ![v] = "lost"] /\ batch' = {}
    /\ UNCHANGED <<waiting, talk, reads, hearts, totalReads, up>>

Leave(v) == mask' = [mask EXCEPT ![v] = "closed"]

(* EPOLLIN: everything that is there, or the end. *)
OnInput(v) ==
    /\ <<v, "in">> \in batch
    /\ batch' = batch \ {<<v, "in">>}
    /\ totalReads' = totalReads + 1
    /\ \/ /\ waiting[v] > 0
          /\ waiting' = [waiting EXCEPT ![v] = 0]
          /\ reads' = [reads EXCEPT ![v] = @ + 1]
          /\ mask' = [mask EXCEPT ![v] = "out"]
       \/ visitor[v] = "gone" /\ Leave(v) /\ UNCHANGED <<waiting, reads>>
    /\ UNCHANGED <<visitorVars, hearts, calls, up>>

(* Mutant: the socket stays watched for output. *)
MutAfterSend(v) == mask' = [mask EXCEPT ![v] = IF totalReads > EnoughReads THEN "off" ELSE "out"]

(* EPOLL_CTL_MOD of a socket that is open and registered has no way to     *)
(* fail, so its result (lines 676 and 693, ignored) is not modelled.       *)
AfterSend(v) == mask' = [mask EXCEPT ![v] = IF totalReads > EnoughReads THEN "off" ELSE "in"]

(* EPOLLOUT: one heart beat; sending to a peer that is gone may fail. *)
OnOutput(v) ==
    /\ <<v, "out">> \in batch
    /\ batch' = batch \ {<<v, "out">>}
    /\ \/ /\ hearts' = [hearts EXCEPT ![v] = @ + 1]
          /\ AfterSend(v)
       \/ visitor[v] = "gone" /\ Leave(v) /\ UNCHANGED hearts
    /\ UNCHANGED <<visitorVars, waiting, reads, calls, totalReads, up>>

SampleStep == WaitEvents \/ \E v \in Visitors : AcceptOne(v) \/ OnInput(v) \/ OnOutput(v)

SampleNext ==
    \/ SampleStep \/ SampleEnds
    \/ \E v \in Visitors : VisitorCalls(v) \/ VisitorTalks(v) \/ VisitorGoes(v)

SampleSpec == SampleInit /\ [][SampleNext]_sampleVars

-----------------------------------------------------------------------------

(* Every reception is answered by one heart beat before the next: the      *)
(* watch says which of the two is due, and an event in the batch is never  *)
(* one the client is no longer watched for. *)
HeartPerRead ==
    /\ \A v \in Visitors : mask[v] \in {"in", "out", "off"} =>
         reads[v] = hearts[v] + (IF mask[v] = "out" THEN 1 ELSE 0)
    /\ \A e \in batch : mask[e[1]] = e[2]
=============================================================================
