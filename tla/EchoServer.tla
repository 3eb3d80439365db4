----------------------------- MODULE EchoServer -----------------------------
(***************************************************************************)
(* The sample server on a completion port (src/HelloSocket/iocp-epoll.cpp, *)
(* Windows part): a fixed number of I/O contexts, each with one buffer and *)
(* one operation at a time, accept, receive, send, receive, ...; a context *)
(* whose connection ends is posted to accept the next.                     *)
(*                                                                         *)
(* The kernel completes posted operations in any order; one thread handles *)
(* the completions.  A connection is served by at most one context.        *)
(***************************************************************************)
EXTENDS Naturals, Sequences, SequencesExt, FiniteSetsExt

CONSTANTS
    Contexts,  \* ioData, permit_clients of them
    Conns,     \* connections of peers
    NoConn,
    MaxChunks  \* bound: what all peers send

ASSUME EchoAssumption == NoConn \notin Conns

VARIABLES
    opType,  \* _OpType: "accept", "recv", "send"
    status,  \* "posted", "ok", "zero", "gone", or "idle": nothing is posted
    sock,    \* the connection of _sockfd
    chunk,   \* _szBuffer
    peerAt,  \* "none", "calling", "open", "closed"
    typed,   \* what the peer sent
    unread,  \* of that, what is in the receive buffer of the socket
    echoed,  \* what the peer was sent
    serving  \* the loop runs

echoVars == <<opType, status, sock, chunk, peerAt, typed, unread, echoed, serving>>
peerEcho == <<peerAt, typed, unread, echoed>>

EchoInit ==
    /\ opType = [x \in Contexts |-> "accept"]
    /\ status = [x \in Contexts |-> "posted"]
    /\ sock = [x \in Contexts |-> NoConn]
    /\ chunk = [x \in Contexts |-> <<>>]
    /\ peerAt = [k \in Conns |-> "none"]
    /\ typed = [k \in Conns |-> <<>>] /\ unread = typed /\ echoed = typed
    /\ serving = TRUE

-----------------------------------------------------------------------------
(* The peers. *)

Call(k) ==
    /\ peerAt[k] = "none"
    /\ peerAt' = [peerAt EXCEPT ![k] = "calling"]
    /\ UNCHANGED <<opType, status, sock, chunk, typed, unread, echoed, serving>>

Type(k) ==
    /\ peerAt[k] \in {"calling", "open"}
    /\ MapThenSumSet(LAMBDA j : Len(typed[j]), Conns) < MaxChunks
    /\ typed' = [typed EXCEPT ![k] = Append(@, Len(@) + 1)]
    /\ unread' = [unread EXCEPT ![k] = Append(@, Len(typed[k]) + 1)]
    /\ UNCHANGED <<opType, status, sock, chunk, peerAt, echoed, serving>>

HangUp(k) ==
    /\ peerAt[k] = "open"
    /\ peerAt' = [peerAt EXCEPT ![k] = "closed"]
    /\ UNCHANGED <<opType, status, sock, chunk, typed, unread, echoed, serving>>

-----------------------------------------------------------------------------
(* The kernel. *)

Completed(x, how) == status' = [status EXCEPT ![x] = how]

EchoAcceptDone(x, k) ==
    /\ opType[x] = "accept" /\ status[x] = "posted" /\ peerAt[k] = "calling"
    /\ Completed(x, "ok")
    /\ sock' = [sock EXCEPT ![x] = k]
    /\ peerAt' = [peerAt EXCEPT ![k] = "open"]
    /\ UNCHANGED <<opType, chunk, typed, unread, echoed, serving>>

(* As much as there is of what the peer sent. *)
EchoRecvDone(x) ==
    /\ opType[x] = "recv" /\ status[x] = "posted"
    /\ LET k == sock[x]
       IN  \/ /\ unread[k] # <<>>
              /\ \E n \in 1..Len(unread[k]) :
                   /\ chunk' = [chunk EXCEPT ![x] = SubSeq(unread[k], 1, n)]
                   /\ unread' = [unread EXCEPT ![k] = SubSeq(@, n + 1, Len(@))]
              /\ Completed(x, "ok")
           \/ /\ unread[k] = <<>> /\ peerAt[k] = "closed"
              /\ \E how \in {"zero", "gone"} : Completed(x, how)
              /\ UNCHANGED <<chunk, unread>>
    /\ UNCHANGED <<opType, sock, peerAt, typed, echoed, serving>>

EchoDone(x) ==
    /\ opType[x] = "send" /\ status[x] = "posted"
    /\ LET k == sock[x]
       IN  \/ /\ echoed' = [echoed EXCEPT ![k] = @ \o chunk[x]]
              /\ Completed(x, "ok")
           \/ /\ peerAt[k] = "closed"
              /\ \E how \in {"zero", "gone"} : Completed(x, how)
              /\ UNCHANGED echoed
    /\ UNCHANGED <<opType, sock, chunk, peerAt, typed, unread, serving>>

-----------------------------------------------------------------------------
(* The loop. *)

PostOp(x, what) ==
    /\ opType' = [opType EXCEPT ![x] = what]
    /\ status' = [status EXCEPT ![x] = "posted"]

(* The socket is closed, and the context posted again; nobody looks        *)
(* whether that worked. *)
AcceptAgain(x) ==
    /\ sock' = [sock EXCEPT ![x] = NoConn]
    /\ opType' = [opType EXCEPT ![x] = "accept"]
    /\ \E how \in {"posted", "idle"} : status' = [status EXCEPT ![x] = how]

(* The socket is closed, and that is all. *)
CloseOnly(x) ==
    /\ sock' = [sock EXCEPT ![x] = NoConn]
    /\ status' = [status EXCEPT ![x] = "idle"]
    /\ UNCHANGED opType

Kept == UNCHANGED sock

(* A completion of an accepted connection: it is registered and a receive  *)
(* posted; either may fail. *)
OnAccept(x) ==
    /\ opType[x] = "accept" /\ status[x] = "ok"
    /\ \/ PostOp(x, "recv") /\ Kept
       \/ AcceptAgain(x)

(* Mutant: the next receive is posted before the echo is sent (the code    *)
(* has it as a comment): the loop goes on as if the echo was out. *)
MutAfterRecv(x) == PostOp(x, "recv")

AfterRecv(x) == PostOp(x, "send")

(* What was received is sent back from the same buffer. *)
OnRecv(x) ==
    /\ opType[x] = "recv"
    /\ \/ status[x] = "ok" /\ AfterRecv(x) /\ Kept
       \/ status[x] = "ok" /\ CloseOnly(x)
       \/ status[x] = "zero" /\ AcceptAgain(x)

OnSend(x) ==
    /\ opType[x] = "send"
    /\ \/ status[x] = "ok" /\ PostOp(x, "recv") /\ Kept
       \/ status[x] \in {"ok", "zero"} /\ AcceptAgain(x)

(* ERROR_NETNAME_DELETED. *)
OnGone(x) == status[x] = "gone" /\ CloseOnly(x)

Handle(x) ==
    /\ serving
    /\ OnAccept(x) \/ OnRecv(x) \/ OnSend(x) \/ OnGone(x)
    /\ UNCHANGED <<chunk, peerEcho, serving>>

(* "exit", or another error of the wait. *)
StopServing ==
    /\ serving /\ serving' = FALSE
    /\ UNCHANGED <<opType, status, sock, chunk, peerEcho>>

KernelStep(x) == EchoRecvDone(x) \/ EchoDone(x) \/ \E k \in Conns : EchoAcceptDone(x, k)

EchoNext ==
    \/ \E k \in Conns : Call(k) \/ Type(k) \/ HangUp(k)
    \/ \E x \in Contexts : KernelStep(x) \/ Handle(x)
    \/ StopServing

EchoSpec == EchoInit /\ [][EchoNext]_echoVars

-----------------------------------------------------------------------------

(* The chunk of a connection that was received and not sent back yet. *)
Between(k) ==
    LET busy == {x \in Contexts : sock[x] = k /\ (\/ opType[x] = "recv" /\ status[x] = "ok"
                                                  \/ opType[x] = "send" /\ status[x] = "posted")}
    IN  IF busy = {} THEN <<>> ELSE chunk[CHOOSE x \in busy : TRUE]

(* A peer that is connected gets back what it sent, no byte twice, none    *)
(* lost and none overtaken, from the one buffer its connection has. *)
EchoExact ==
    \A k \in Conns :
      peerAt[k] = "open" /\ (\E x \in Contexts : sock[x] = k) =>
        echoed[k] \o Between(k) \o unread[k] = typed[k]
=============================================================================
