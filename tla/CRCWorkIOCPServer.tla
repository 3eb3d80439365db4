------------------------- MODULE CRCWorkIOCPServer -------------------------
(***************************************************************************)
(* The Windows server: CRCBossIOCPServer accepts, one CRCWorkIOCPServer    *)
(* runs its loop over the channels, and the completion port carries out    *)
(* the operations they post.  The port writes into a channel's receive     *)
(* buffer and reads its send buffer while the loop goes on, and holds      *)
(* pointers into channels that the loop may delete.                        *)
(*                                                                         *)
(* Requests are Size units long, answers one unit; the units of a send     *)
(* buffer are numbered in the order of SendDataBuffer().  A use of a       *)
(* deleted channel, or of an erased place in _clients, may end in          *)
(* "undefined", where the loop stops.                                      *)
(***************************************************************************)
EXTENDS Integers, Sequences, FiniteSets, FiniteSetsExt

CONSTANTS
    Clients,    \* the connections
    MaxClient,  \* _maxClient
    Requests,   \* bound of the model: how many requests each client sends
    Size,       \* units of a request
    RecvSize,   \* units of a receive buffer
    SendSize    \* units of a send buffer

ASSUME IOCPAssumption ==
    /\ MaxClient \in Nat /\ SendSize \in Nat /\ Requests \in [Clients -> Nat]
    /\ Size \in Nat \ {0} /\ RecvSize \in Nat /\ Size <= RecvSize
    /\ "posted" \notin Clients /\ "none" \notin Clients

VARIABLES
    accept,       \* the AcceptEx() of the boss: "posted", "none", or the client it brought
    bossPc,       \* what the boss does next with that client: "test", "add" or "join" it
    net,          \* of each client: its end of the connection
    chan,         \* of each client: its CRCChannel
    ops,          \* the operations the port has to carry out
    port,         \* completions not taken from the port yet
    pc, todo,     \* where the loop is, and the channels DoAction() has still to visit
    late,         \* channels whose heart beat is overdue
    clientCount,  \* _clientCount
    answering     \* whether the handler answers: CMD_LOGIN does, CMD_LOGOUT does not

vars == <<accept, bossPc, net, chan, ops, port, pc, todo, late, clientCount, answering>>

Init ==
    /\ accept = "posted"
    /\ bossPc = "test"
    /\ net = [c \in Clients |-> [peer |-> "none", sent |-> 0, wire |-> 0, got |-> <<>>]]
    /\ chan = [c \in Clients |->
                 [life |-> "none", known |-> FALSE, recv |-> 0, from |-> 1, next |-> 1,
                  recvBusy |-> FALSE, sendBusy |-> FALSE]]
    /\ ops = {}
    /\ port = <<>>
    /\ pc = "loop"
    /\ todo = {}
    /\ late = {}
    /\ clientCount = 0
    /\ answering \in BOOLEAN

With(life) == {c \in Clients : chan[c].life = life}
Live == With("joined")     \* the channels in _clients

-----------------------------------------------------------------------------
(* The peers, and the clock.                                               *)

Connect(c) ==
    /\ net[c].peer = "none"
    /\ net' = [net EXCEPT ![c].peer = "open"]
    /\ UNCHANGED <<accept, bossPc, chan, ops, port, pc, todo, late, clientCount, answering>>

PeerSend(c) ==
    /\ net[c].peer = "open"
    /\ net[c].sent < Requests[c] * Size
    /\ net' = [net EXCEPT ![c].sent = @ + 1, ![c].wire = @ + 1]
    /\ UNCHANGED <<accept, bossPc, chan, ops, port, pc, todo, late, clientCount, answering>>

PeerClose(c) ==
    /\ net[c].peer = "open"
    /\ net' = [net EXCEPT ![c].peer = "closed"]
    /\ UNCHANGED <<accept, bossPc, chan, ops, port, pc, todo, late, clientCount, answering>>

(* CLIENT_HEART_DEAD_TIME passes. *)
HeartTimeout(c) ==
    /\ c \in Live \ late
    /\ late' = late \cup {c}
    /\ UNCHANGED <<accept, bossPc, net, chan, ops, port, pc, todo, clientCount, answering>>

-----------------------------------------------------------------------------
(* The boss thread.                                                        *)

AcceptCompletes(c) ==
    /\ accept = "posted"
    /\ net[c].peer # "none" /\ chan[c].life = "none"
    /\ accept' = c
    /\ UNCHANGED <<bossPc, net, chan, ops, port, pc, todo, late, clientCount, answering>>

(* IOCPAccept() tests the count, addClient() shows the channel to the work *)
(* server, and OnJoin() counts it, each on its own; then the next          *)
(* AcceptEx(), whose failure nobody looks at.                              *)
Admit ==
    /\ bossPc = "test" /\ accept \in Clients
    /\ clientCount < MaxClient
    /\ bossPc' = "add"
    /\ UNCHANGED <<accept, net, chan, ops, port, pc, todo, late, clientCount, answering>>

Reject ==
    /\ bossPc = "test" /\ accept \in Clients
    /\ ~(clientCount < MaxClient)
    /\ chan' = [chan EXCEPT ![accept].life = "refused"]
    /\ net' = [net EXCEPT ![accept].peer = "closed"]
    /\ accept' \in {"posted", "none"}
    /\ UNCHANGED <<bossPc, ops, port, pc, todo, late, clientCount, answering>>

AddClient ==
    /\ bossPc = "add"
    /\ chan' = [chan EXCEPT ![accept].life = "buffered"]
    /\ bossPc' = "join"
    /\ UNCHANGED <<accept, net, ops, port, pc, todo, late, clientCount, answering>>

OnJoin ==
    /\ bossPc = "join"
    /\ clientCount' = clientCount + 1
    /\ accept' \in {"posted", "none"}
    /\ bossPc' = "test"
    /\ UNCHANGED <<net, chan, ops, port, pc, todo, late, answering>>

-----------------------------------------------------------------------------
(* The completion port.  An operation on a socket that the server has      *)
(* closed is aborted; after the peer's close a receive brings 0 bytes.  Of *)
(* a socket that is not registered the port sees nothing.                  *)

SendRange(c) == [i \in 1..(chan[c].next - chan[c].from) |-> chan[c].from + i - 1]

Bytes(op) ==
    LET c == op.c IN
    IF chan[c].life # "joined" THEN {0}
    ELSE CASE op.type = "recv" /\ net[c].wire > 0 -> 1..Min({op.len, net[c].wire})
           [] op.type = "recv" /\ net[c].wire = 0 /\ net[c].peer = "closed" -> {0}
           [] op.type = "send" -> IF net[c].peer = "closed" THEN {0, op.len} ELSE 1..op.len
           [] OTHER -> {}

Complete(op) ==
    /\ chan[op.c].known
    /\ \E n \in Bytes(op) :
         /\ port' = Append(port, [c |-> op.c, type |-> op.type, n |-> n])
         /\ net' = IF op.type = "recv" THEN [net EXCEPT ![op.c].wire = IF n = 0 THEN @ ELSE @ - n]
                   ELSE [net EXCEPT ![op.c].got = @ \o SubSeq(SendRange(op.c), 1, n)]
    /\ ops' = ops \ {op}
    /\ UNCHANGED <<accept, bossPc, chan, pc, todo, late, clientCount, answering>>

-----------------------------------------------------------------------------
(* CRCWorkServer::OnRun().                                                 *)

RecvOp(c) == [c |-> c, type |-> "recv", at |-> chan[c].recv, len |-> RecvSize - chan[c].recv]
SendOp(c) == [c |-> c, type |-> "send", at |-> chan[c].from,
              len |-> chan[c].next - chan[c].from]

(* The buffered clients join: register_sock(), get_recv_io_ctx() and       *)
(* delivery_receive(), whose failures have no effect on _clients.  Without *)
(* clients the loop starts again.                                          *)
Join ==
    /\ pc = "loop"
    /\ \E unknown \in SUBSET With("buffered") :
         LET new == With("buffered") \ unknown IN
         /\ \E failed \in SUBSET {c \in new : net[c].peer = "closed"} :
              ops' = ops \cup {RecvOp(c) : c \in new \ failed}
         /\ chan' = [c \in Clients |-> IF c \in With("buffered")
                       THEN [chan[c] EXCEPT !.life = "joined", !.known = c \in new,
                                            !.recvBusy = c \in new]
                       ELSE chan[c]]
    /\ pc' = IF With("buffered") \cup Live = {} THEN "loop" ELSE "check"
    /\ UNCHANGED <<accept, bossPc, net, port, todo, late, clientCount, answering>>

(* Mutant: an overdue channel is deleted whatever it has posted. *)
MutBusy(c) == FALSE

(* hasDeliveryIoAction(). *)
Busy(c) == chan[c].recvBusy \/ chan[c].sendBusy

(* Mutant: channels with an operation under way are left to the port. *)
MutOverdue == {c \in Live \cap late : ~Busy(c)}

Overdue == Live \cap late

(* Mutant: OnLeave() is called for every overdue channel. *)
MutLeavesNow == Overdue

LeavesNow == {c \in Overdue : ~Busy(c)}

(* Of the overdue channels, one with an operation under way loses its      *)
(* socket and its place in _clients, and the completion is to delete it;   *)
(* the others are deleted here, by way of their place in _clients, which   *)
(* OnClientLeave() has erased by then.                                     *)
CheckTime ==
    /\ pc = "check"
    /\ chan' = [c \in Clients |-> IF c \notin Overdue THEN chan[c]
                 ELSE [chan[c] EXCEPT !.life = IF Busy(c) THEN "evicted" ELSE "deleted"]]
    /\ clientCount' = clientCount - Cardinality(LeavesNow)
    /\ todo' = Live \ Overdue
    /\ \/ pc' = "action"
       \/ LeavesNow # {} /\ pc' = "undefined"
    /\ UNCHANGED <<accept, bossPc, net, ops, port, late, answering>>

(* Mutant: the flag of an outstanding send is not looked at. *)
MutPostsSend(c) == chan[c].next > chan[c].from

(* is_need_write() and get_send_io_ctx(). *)
PostsSend(c) == chan[c].next > chan[c].from /\ ~chan[c].sendBusy

(* Mutant: the flag of an outstanding receive is not looked at. *)
MutPostsRecv(c) == chan[c].recv < RecvSize

(* get_recv_io_ctx() sets the flag before it finds the buffer full. *)
PostsRecv(c) == ~chan[c].recvBusy /\ chan[c].recv < RecvSize

(* One turn of the first loop of DoAction(): a send, if there is something *)
(* to send, and a receive, each unless one is under way.                   *)
Post(c) ==
    /\ pc = "action" /\ c \in todo
    /\ ops' = ops \cup (IF PostsSend(c) THEN {SendOp(c)} ELSE {})
                  \cup (IF PostsRecv(c) THEN {RecvOp(c)} ELSE {})
    /\ chan' = [chan EXCEPT ![c].recvBusy = TRUE, ![c].sendBusy = @ \/ PostsSend(c)]
    /\ todo' = todo \ {c}
    /\ UNCHANGED <<accept, bossPc, net, port, pc, late, clientCount, answering>>

(* delivery_receive() fails: OnClientLeave(). *)
PostRecvFails(c) ==
    /\ pc = "action" /\ c \in todo
    /\ net[c].peer = "closed" /\ PostsRecv(c)
    /\ ops' = ops \cup (IF PostsSend(c) THEN {SendOp(c)} ELSE {})
    /\ chan' = [chan EXCEPT ![c].life = "deleted"]
    /\ clientCount' = clientCount - 1
    /\ todo' = todo \ {c}
    /\ UNCHANGED <<accept, bossPc, net, port, pc, late, answering>>

(* delivery_send() fails: the channel is deleted, and asked for its        *)
(* receive context next.                                                   *)
PostSendFails(c) ==
    /\ pc = "action" /\ c \in todo
    /\ net[c].peer = "closed" /\ PostsSend(c)
    /\ chan' = [chan EXCEPT ![c].life = "deleted"]
    /\ clientCount' = clientCount - 1
    /\ pc' = "undefined"
    /\ UNCHANGED <<accept, bossPc, net, ops, port, todo, late, answering>>

Posted ==
    /\ pc = "action" /\ todo = {}
    /\ pc' = "events"
    /\ UNCHANGED <<accept, bossPc, net, chan, ops, port, todo, late, clientCount, answering>>

(* DoIOCPAction(): no byte means that the connection is over, and          *)
(* OnClientLeave() deletes the channel; otherwise recv4Iocp() or           *)
(* send4Iocp() takes note of the bytes.                                    *)
Dispatch ==
    /\ pc = "events" /\ port # <<>>
    /\ LET e == Head(port)
           c == e.c
       IN CASE chan[c].life = "deleted" ->
                 /\ pc' = "undefined"
                 /\ UNCHANGED <<chan, clientCount>>
            [] chan[c].life # "deleted" /\ e.n = 0 ->
                 /\ chan' = [chan EXCEPT ![c].life = "deleted"]
                 /\ clientCount' = clientCount - 1
                 /\ UNCHANGED pc
            [] OTHER ->
                 /\ chan' = IF e.type = "recv"
                      THEN [chan EXCEPT ![c].recvBusy = FALSE, ![c].recv = @ + e.n]
                      ELSE [chan EXCEPT ![c].sendBusy = FALSE, ![c].from = @ + e.n]
                 /\ UNCHANGED <<pc, clientCount>>
    /\ port' = Tail(port)
    /\ UNCHANGED <<accept, bossPc, net, ops, todo, late, answering>>

(* wait() times out. *)
NoEvent ==
    /\ pc = "events" /\ port = <<>>
    /\ pc' = "messages"
    /\ UNCHANGED <<accept, bossPc, net, chan, ops, port, todo, late, clientCount, answering>>

(* wait() fails in a way it does not know: the thread of the work server   *)
(* ends.                                                                   *)
WaitFails ==
    /\ pc = "events"
    /\ pc' = "exited"
    /\ UNCHANGED <<accept, bossPc, net, chan, ops, port, todo, late, clientCount, answering>>

Whole(c) == chan[c].recv \div Size

(* OnNetMessage() of the application: the answers that fit, in the send    *)
(* buffer; one that does not fit is dropped.                               *)
Answers(c) ==
    IF answering THEN Min({Whole(c), SendSize - (chan[c].next - chan[c].from)}) ELSE 0

(* DoMessage(): every whole message is handled and removed.  Some of them  *)
(* are heart beats (CMD_HEART_C2S).                                        *)
DoMessage ==
    /\ pc = "messages"
    /\ chan' = [c \in Clients |-> IF c \notin Live THEN chan[c]
                 ELSE [chan[c] EXCEPT !.recv = @ % Size, !.next = @ + Answers(c)]]
    /\ \E beats \in SUBSET {c \in Live : Whole(c) > 0} : late' = late \ beats
    /\ pc' = "loop"
    /\ UNCHANGED <<accept, bossPc, net, ops, port, todo, clientCount, answering>>

-----------------------------------------------------------------------------

LoopStep ==
    \/ Join \/ CheckTime \/ Posted \/ Dispatch \/ NoEvent \/ DoMessage
    \/ \E c \in Clients : Post(c) \/ PostRecvFails(c) \/ PostSendFails(c)

Next ==
    \/ \E c \in Clients :
         Connect(c) \/ PeerSend(c) \/ PeerClose(c) \/ HeartTimeout(c) \/ AcceptCompletes(c)
    \/ \E op \in ops : Complete(op)
    \/ Admit \/ Reject \/ AddClient \/ OnJoin \/ LoopStep \/ WaitFails

(* The work server is scheduled, the port completes what it can, and a     *)
(* peer that is gone sends no heart beats.                                 *)
Spec ==
    /\ Init /\ [][Next]_vars
    /\ WF_vars(LoopStep)
    /\ \A c \in Clients :
         /\ WF_vars(\E op \in ops : op.c = c /\ Complete(op))
         /\ WF_vars(net[c].peer = "closed" /\ HeartTimeout(c))

-----------------------------------------------------------------------------

Outstanding(type) == {op \in ops : op.type = type /\ chan[op.c].life = "joined"}

(* What the port was given stays true while it works on it: a receive goes *)
(* to the end of the received bytes, never over bytes the loop is still to *)
(* handle, a send takes the front of the send buffer; and there is at most *)
(* one of each per channel.  (DoMessage() moves the receive buffer and     *)
(* send4Iocp() the send buffer, without looking at the operations.)        *)
InPlace ==
    /\ \A op \in Outstanding("recv") : op.at = chan[op.c].recv /\ chan[op.c].recv < Size
    /\ \A op \in Outstanding("send") :
         op.at = chan[op.c].from /\ op.at + op.len <= chan[op.c].next
    /\ \A o, p \in ops : o.c = p.c /\ o.type = p.type => o = p

(* The peer gets the answers in order, none twice and none left out. *)
AnswersInOrder == \A c \in Clients : \A i \in DOMAIN net[c].got : net[c].got[i] = i

(* The channels that were handed over and OnLeave() was not called for:    *)
(* also those that lost their place in _clients and wait for a completion. *)
Unreported == With("buffered") \cup Live \cup With("evicted")

(* What the boss has handed over and not counted. *)
Uncounted == IF bossPc = "join" THEN 1 ELSE 0

(* The count that limits admission is exact but for the channel the boss   *)
(* has in hand, though the work server may count it out before it is       *)
(* counted in; and there are never more than MaxClient of them.  It holds  *)
(* up to the first use of a deleted channel. *)
CountAccurate ==
    pc # "undefined" =>
      /\ clientCount + Uncounted = Cardinality(Unreported)
      /\ Cardinality(Unreported) <= MaxClient

(* What still points into the memory of a channel. *)
Pointing(c) == {op \in ops : op.c = c} \cup {i \in DOMAIN port : port[i].c = c}

(* A deleted channel leaves at most one operation or completion behind     *)
(* that points to it, the other direction of the one that deleted it, and  *)
(* none if nothing was ever sent to its client.  (The one left behind is   *)
(* the use of a deleted channel in Dispatch().) *)
OneLeftBehind ==
    pc # "undefined" =>
      \A c \in With("deleted") :
        Cardinality(Pointing(c)) <= (IF chan[c].next = 1 THEN 0 ELSE 1)

(* A channel that CheckTime() closed and took out of _clients is deleted   *)
(* by its last completion: that is "the more elegant way" the work server  *)
(* leaves the aborted operations to. *)
LastCompletionDeletes ==
    [][\A c \in Clients :
         chan[c].life = "evicted" /\ chan'[c].life = "deleted" => Pointing(c)' = {}]_vars

(* A channel that CheckTime() took out of _clients is counted out in the   *)
(* end, while the work server runs. *)
OfflineCounted ==
    \A c \in Clients :
      chan[c].life = "evicted" ~> chan[c].life # "evicted" \/ pc \in {"undefined", "exited"}

(* A client that is gone leaves _clients, even when its first receive      *)
(* could not be posted. *)
GoneLeaves ==
    \A c \in Clients :
      net[c].peer = "closed" /\ chan[c].life \in {"buffered", "joined"}
        ~> chan[c].life \notin {"buffered", "joined"} \/ pc \in {"undefined", "exited"}
=============================================================================
