------------------------ MODULE CRCWorkServerProofs -------------------------
(***************************************************************************)
(* The work server on select() never gives it the socket of a client       *)
(* that left, for any number of connections, however they come and go      *)
(* and whatever the erased iterators lead to.                              *)
(*                                                                         *)
(* The work server on IOCP, for any number of clients, requests and        *)
(* sizes: operations and completions name a channel's buffers, flags and   *)
(* life that the loop goes on changing. At most one is out per channel     *)
(* and direction, the part of the buffer it names stays where it is, and   *)
(* of a channel that is deleted at most one is left.                       *)
(***************************************************************************)
EXTENDS CRCWorkIOCPServer, CRCWorkSelectServer, Integers, FiniteSetTheorems,
SequenceTheorems, TLAPS

(* CRCWorkSelectServer. *)

(* The backup is the set of clients unless _clients_change says that it is *)
(* not; the set is right when select() is called, and nobody is left when  *)
(* the server ends by itself. *)
SetsInv ==
    /\ dirty \in BOOLEAN
    /\ ~dirty => bak = served
    /\ stage = "select" => fdRead = served
    /\ ServesWhileClients

LEMMA SetsHoldFirst == SelInit => SetsInv
  BY DEF SelInit, SetsInv, ServesWhileClients

(* Whoever leaves, _clients_change tells. *)
LEMMA GoneTells ==
    ASSUME dirty \in BOOLEAN, ~dirty => bak = served, NEW gone, Gone(gone), bak' = bak
    PROVE  dirty' \in BOOLEAN /\ (~dirty' => bak' = served')
<1>1. CASE gone = {}
  BY <1>1 DEF Gone
<1>2. CASE gone # {}
  BY <1>2 DEF Gone
<1>3. QED
  BY <1>1, <1>2

LEMMA SetsStep == SetsInv /\ [SelNext]_selVars => SetsInv'
<1> SUFFICES ASSUME SetsInv, [SelNext]_selVars
             PROVE  SetsInv'
  OBVIOUS
<1> USE DEF SetsInv, ServesWhileClients
<1>1. ASSUME NEW s \in Sockets, HandOver(s) \/ Asks(s) \/ HangsUp(s) \/ BeatMissed(s)
      PROVE  SetsInv'
  BY <1>1 DEF HandOver, Asks, HangsUp, BeatMissed, setVars
<1>2. CASE TakeIn
  <2>1. CASE handed = {}
    BY <1>2, <2>1 DEF TakeIn, NowDirty
  <2>2. CASE handed # {}
    BY <1>2, <2>2 DEF TakeIn, NowDirty
  <2>3. QED
    BY <2>1, <2>2
<1>3. CASE CheckBeats
  <2>1. stage' \in {"sets", "undefined"} /\ bak' = bak /\ Gone(served \cap missed)
    BY <1>3 DEF CheckBeats
  <2>2. QED
    BY <2>1, GoneTells
<1>4. CASE FillSets
  BY <1>4 DEF FillSets, NewSet
<1>5. CASE SelectFinds \/ SelectNothing
  BY <1>5 DEF SelectFinds, SelectNothing, setVars
<1>6. CASE SelectErrs
  BY <1>6 DEF SelectErrs, setVars
<1>7. CASE ReadAll \/ WriteAll
  BY <1>7 DEF ReadAll, WriteAll, setVars
<1>8. ASSUME NEW s \in Sockets, ReadOne(s) \/ WriteOne(s)
      PROVE  SetsInv'
  BY <1>8 DEF ReadOne, WriteOne
<1>9. ASSUME NEW s \in Sockets, ReadEof(s) \/ WriteFails(s)
      PROVE  SetsInv'
  <2>1. stage' \in {"read", "write", "undefined"} /\ bak' = bak /\ Gone({s})
    BY <1>9 DEF ReadEof, WriteFails
  <2>2. QED
    BY <2>1, GoneTells
<1>10. CASE UNCHANGED selVars
  BY <1>10 DEF selVars
<1>11. QED
  BY <1>1, <1>2, <1>3, <1>4, <1>5, <1>6, <1>7, <1>8, <1>9, <1>10 DEF SelNext, ServerStep

(* A work server that ends by itself, because select() failed, has no      *)
(* clients: the set it gives to select() (crc_work_select_server.hpp       *)
(* 36-54) holds no closed socket. *)
THEOREM SelectSetsFresh == SelSpec => []ServesWhileClients
<1>1. SetsInv => ServesWhileClients
  BY DEF SetsInv
<1>2. QED
  BY SetsHoldFirst, SetsStep, <1>1, PTL DEF SelSpec

-----------------------------------------------------------------------------

(* CRCWorkIOCPServer. *)

Types == {"recv", "send"}
Lives == {"none", "buffered", "refused", "joined", "evicted", "deleted"}

Channel == [life : Lives, known : BOOLEAN, recv : Nat, from : Nat, next : Nat,
            recvBusy : BOOLEAN, sendBusy : BOOLEAN]
Connection == [peer : {"none", "open", "closed"}, sent : Nat, wire : Nat, got : Seq(Nat)]
Operation == [c : Clients, type : Types, at : Nat, len : Nat]
Completion == [c : Clients, type : Types, n : Nat]

IOCPTypeOK ==
    /\ net \in [Clients -> Connection] /\ chan \in [Clients -> Channel]
    /\ ops \subseteq Operation /\ port \in Seq(Completion)
    /\ todo \subseteq Clients
    /\ answering \in BOOLEAN

(* A client that AcceptEx() brought has no channel before it is handed     *)
(* over; the channels that DoAction() has still to visit are in _clients. *)
AtHand ==
    /\ accept \in Clients \cup {"posted", "none"}
    /\ bossPc \in {"test", "add", "join"}
    /\ bossPc # "test" => accept \in Clients
    /\ accept \in Clients /\ bossPc # "join" => chan[accept].life = "none"
    /\ pc = "action" => todo \subseteq Live

(* An operation or its completion is out for direction t of channel c. *)
OpOut(c, t) == \E o \in ops : o.c = c /\ o.type = t
DoneOut(c, t) == \E i \in 1..Len(port) : port[i].c = c /\ port[i].type = t
Out(c, t) == OpOut(c, t) \/ DoneOut(c, t)

(* The flag of get_recv_io_ctx() or get_send_io_ctx(). *)
Flag(c, t) == IF t = "recv" THEN chan[c].recvBusy ELSE chan[c].sendBusy

(* At most one is out per channel and direction. *)
OneOut ==
    /\ \A o, p \in ops : o.c = p.c /\ o.type = p.type => o = p
    /\ \A i, j \in 1..Len(port) : port[i].c = port[j].c /\ port[i].type = port[j].type => i = j
    /\ \A o \in ops, i \in 1..Len(port) : ~(o.c = port[i].c /\ o.type = port[i].type)

(* Only channels that joined have anything out, and as long as they are    *)
(* not deleted their flag says so. *)
Flagged ==
    \A c \in Clients, t \in Types : Out(c, t) =>
      /\ chan[c].life \in {"joined", "evicted", "deleted"}
      /\ chan[c].life # "deleted" => Flag(c, t)

(* A channel that has not joined is as it was made. *)
NewChannels ==
    \A c \in Clients : chan[c].life \in {"none", "buffered", "refused"} =>
      /\ chan[c].recv = 0 /\ chan[c].from = 1 /\ chan[c].next = 1
      /\ ~chan[c].recvBusy /\ ~chan[c].sendBusy
      /\ net[c].got = <<>>

(* Whole messages wait in a receive buffer only between the events and     *)
(* DoMessage(), and never while a receive is out. *)
ReceiveAt(c) ==
    /\ pc \in {"loop", "check", "action"} => chan[c].recv < Size
    /\ DoneOut(c, "recv") => chan[c].recv < Size
    /\ \A o \in ops : o.c = c /\ o.type = "recv" => o.at = chan[c].recv /\ chan[c].recv < Size

ReceivePlace == \A c \in Live : ReceiveAt(c)

(* What the peer got is what was sent, and what a completion not taken     *)
(* from the port yet says was sent. *)
SendAt(c) ==
    /\ chan[c].from <= chan[c].next /\ chan[c].next <= chan[c].from + SendSize
    /\ \A o \in ops : o.c = c /\ o.type = "send" =>
         o.at = chan[c].from /\ chan[c].from + o.len <= chan[c].next
    /\ \A i \in 1..Len(port) : port[i].c = c /\ port[i].type = "send" =>
         /\ chan[c].from + port[i].n <= chan[c].next
         /\ Len(net[c].got) = chan[c].from - 1 + port[i].n
    /\ ~DoneOut(c, "send") => Len(net[c].got) = chan[c].from - 1

SendPlace == \A c \in Live : SendAt(c)

(* A send goes out only of a channel that was answered, and a channel is   *)
(* deleted with at most one direction out: none, if it was never answered. *)
LeftAt(c) ==
    /\ chan[c].from >= 1
    /\ chan[c].next = 1 => ~Out(c, "send")
    /\ pc # "undefined" /\ chan[c].life = "deleted" =>
         /\ ~(Out(c, "recv") /\ Out(c, "send"))
         /\ chan[c].next = 1 => ~Out(c, "recv")

OneLeft == \A c \in Clients : LeftAt(c)

IOCPInv ==
    /\ IOCPTypeOK /\ AtHand /\ OneOut /\ Flagged /\ NewChannels /\ ReceivePlace
    /\ SendPlace /\ AnswersInOrder /\ OneLeft

-----------------------------------------------------------------------------

LEMMA MinIs ==
    ASSUME NEW a \in Nat, NEW b \in Nat
    PROVE  Min({a, b}) \in Nat /\ Min({a, b}) <= a /\ Min({a, b}) <= b
<1>1. \E x \in {a, b} : \A y \in {a, b} : x <= y
  OBVIOUS
<1>2. Min({a, b}) \in {a, b} /\ \A y \in {a, b} : Min({a, b}) <= y
  BY <1>1 DEF Min
<1>3. QED
  BY <1>2

LEMMA ModIs ==
    ASSUME NEW n \in Nat
    PROVE  /\ n % Size \in 0..Size - 1 /\ n \div Size \in Nat
           /\ n < Size => n % Size = n
  BY IOCPAssumption

(* The answers a ... b - 1 of a send buffer, and the first n of them. *)
LEMMA RangePrefix ==
    ASSUME NEW a \in Nat, NEW b \in Nat, NEW n \in Nat, n = 0 \/ n <= b - a
    PROVE  LET t == SubSeq([i \in 1..(b - a) |-> a + i - 1], 1, n)
           IN  t \in Seq(Nat) /\ Len(t) = n /\ \A i \in 1..n : t[i] = a + i - 1
<1> DEFINE s == [i \in 1..(b - a) |-> a + i - 1]
           k == IF a <= b THEN b - a ELSE 0
<1>1. k \in Nat /\ 1..(b - a) = 1..k
  OBVIOUS
<1>2. s \in [1..k -> Nat] /\ \A i \in 1..k : s[i] = a + i - 1
  BY <1>1
<1> HIDE DEF s
<1>4. n \in 0..k
  OBVIOUS
<1>3. \A i \in 1..n : i \in 1..k /\ s[i] \in Nat
  BY <1>1, <1>2, <1>4
<1>5. /\ SubSeq(s, 1, n) \in Seq(Nat) /\ Len(SubSeq(s, 1, n)) = n
      /\ \A i \in 1..n : SubSeq(s, 1, n)[i] = s[i]
  BY <1>3, <1>4, SubSeqProperties
<1>6. QED
  BY <1>1, <1>2, <1>4, <1>5 DEF s

LEMMA ConcatIndices ==
    ASSUME NEW s \in Seq(Nat), NEW t \in Seq(Nat)
    PROVE  /\ s \o t \in Seq(Nat) /\ Len(s) \in Nat /\ Len(s \o t) = Len(s) + Len(t)
           /\ \A i \in 1..Len(s) : (s \o t)[i] = s[i]
           /\ \A i \in 1..Len(t) : (s \o t)[Len(s) + i] = t[i]
<1> DEFINE u == s \o t
<1>1. /\ u \in Seq(Nat) /\ Len(u) = Len(s) + Len(t)
      /\ Len(s) \in Nat /\ Len(t) \in Nat
      /\ \A i \in 1..Len(s) + Len(t) : u[i] = IF i <= Len(s) THEN s[i] ELSE t[i - Len(s)]
  BY ConcatProperties
<1> HIDE DEF u
<1>2. \A i \in 1..Len(t) : u[Len(s) + i] = t[i]
  <2> TAKE i \in 1..Len(t)
  <2>1. Len(s) + i \in 1..Len(s) + Len(t) /\ ~(Len(s) + i <= Len(s)) /\ Len(s) + i - Len(s) = i
    BY <1>1
  <2>2. QED
    BY SMTT(30), <1>1, <2>1
<1>3. \A i \in 1..Len(s) : u[i] = s[i]
  BY <1>1
<1>4. QED
  BY <1>1, <1>2, <1>3 DEF u

LEMMA IOCPStart == Init => IOCPInv
<1> SUFFICES ASSUME Init PROVE IOCPInv
  OBVIOUS
<1>1. /\ accept = "posted" /\ bossPc = "test" /\ ops = {} /\ port = <<>> /\ pc = "loop" /\ todo = {}
      /\ answering \in BOOLEAN
      /\ \A c \in Clients : net[c] = [peer |-> "none", sent |-> 0, wire |-> 0, got |-> <<>>]
      /\ \A c \in Clients : chan[c] = [life |-> "none", known |-> FALSE, recv |-> 0,
                                      from |-> 1, next |-> 1,
                                      recvBusy |-> FALSE, sendBusy |-> FALSE]
  BY DEF Init
<1>2. IOCPTypeOK
  <2>1. <<>> \in Seq(Nat) /\ <<>> \in Seq(Completion)
    BY EmptySeq
  <2>2. net \in [Clients -> Connection]
    BY <2>1 DEF Init, Connection
  <2>3. chan \in [Clients -> Channel]
    BY DEF Init, Channel, Lives
  <2>4. QED
    BY <1>1, <2>1, <2>2, <2>3 DEF IOCPTypeOK
<1>3. Len(port) = 0 /\ Live = {}
  BY <1>1, EmptySeq DEF Live, With
<1>4. AtHand
  BY <1>1, IOCPAssumption DEF AtHand
<1>5. \A c, t : ~Out(c, t)
  BY <1>1, <1>3 DEF Out, OpOut, DoneOut
<1>6. OneOut /\ Flagged /\ NewChannels
  BY <1>1, <1>3, <1>5 DEF OneOut, Flagged, NewChannels
<1>7. ReceivePlace /\ SendPlace
  BY <1>3 DEF ReceivePlace, ReceiveAt, SendPlace
<1>8. AnswersInOrder
  <2>1. DOMAIN <<>> = {}
    BY EmptySeq
  <2>2. QED
    BY <1>1, <2>1 DEF AnswersInOrder
<1>9. OneLeft
  BY <1>1, <1>5 DEF OneLeft, LeftAt
<1>10. QED
  BY <1>2, <1>4, <1>6, <1>7, <1>8, <1>9 DEF IOCPInv

-----------------------------------------------------------------------------

(* What takes nothing new out, deletes nothing and answers nobody for the  *)
(* first time leaves no more behind. *)
LEMMA OneLeftKept ==
    ASSUME OneLeft, pc' # "undefined" => pc # "undefined",
           \A c \in Clients : /\ chan'[c].from >= 1
                              /\ chan'[c].next = 1 => chan[c].next = 1
                              /\ chan'[c].life = "deleted" => chan[c].life = "deleted"
                              /\ \A t \in Types : Out(c, t)' => Out(c, t)
    PROVE  OneLeft'
<1> SUFFICES ASSUME NEW c \in Clients PROVE LeftAt(c)'
  BY DEF OneLeft
<1>1. LeftAt(c) /\ "recv" \in Types /\ "send" \in Types
  BY DEF OneLeft, Types
<1>2. QED
  BY <1>1 DEF LeftAt

(* The steps of the peers, of the clock and between the loop's phases      *)
(* leave the channels, the operations and what the peers got alone. *)
LEMMA QuietSteps ==
    ASSUME IOCPInv, net' \in [Clients -> Connection],
           \A c \in Clients : net'[c].got = net[c].got,
           UNCHANGED <<chan, ops, port, answering>>, todo' \subseteq Clients, AtHand',
           pc' \in {"loop", "check", "action"} => pc \in {"loop", "check", "action"},
           pc' # "undefined" => pc # "undefined"
    PROVE  IOCPInv'
<1> USE DEF IOCPInv
<1>1. IOCPTypeOK' /\ OneOut'
  BY DEF IOCPTypeOK, OneOut
<1>2. /\ Live' = Live
      /\ \A c, t : Out(c, t)' <=> Out(c, t)
      /\ \A c, t : DoneOut(c, t)' <=> DoneOut(c, t)
      /\ \A c, t : Flag(c, t)' <=> Flag(c, t)
  BY DEF Live, With, Out, OpOut, DoneOut, Flag
<1>3. Flagged' /\ NewChannels'
  BY <1>2 DEF Flagged, NewChannels
<1>4. ReceivePlace'
  BY <1>2 DEF ReceivePlace, ReceiveAt
<1>5. SendPlace'
  BY <1>2 DEF SendPlace, SendAt, Live, With
<1>6. AnswersInOrder'
  BY DEF AnswersInOrder
<1>8. OneLeft'
  BY <1>2, OneLeftKept DEF OneLeft, LeftAt
<1>7. QED
  BY <1>1, <1>3, <1>4, <1>5, <1>6, <1>8

LEMMA PeersKeep ==
    ASSUME IOCPInv, NEW c \in Clients,
           Connect(c) \/ PeerSend(c) \/ PeerClose(c) \/ HeartTimeout(c) \/ AcceptCompletes(c)
    PROVE  IOCPInv'
<1>1. net' \in [Clients -> Connection] /\ \A d \in Clients : net'[d].got = net[d].got
  <2>1. net \in [Clients -> Connection] /\ net[c] \in Connection
    BY DEF IOCPInv, IOCPTypeOK
  <2>2. \/ net' = net
        \/ net' = [net EXCEPT ![c] = [net[c] EXCEPT !.peer = "open"]]
        \/ net' = [net EXCEPT ![c] = [net[c] EXCEPT !.peer = "closed"]]
        \/ net' = [net EXCEPT ![c] = [net[c] EXCEPT !.sent = @ + 1, !.wire = @ + 1]]
    BY DEF Connect, PeerSend, PeerClose, HeartTimeout, AcceptCompletes
  <2>3. \A p \in {"open", "closed"} :
          [net[c] EXCEPT !.peer = p] \in Connection /\ [net[c] EXCEPT !.peer = p].got = net[c].got
    BY <2>1 DEF Connection
  <2>4. /\ [net[c] EXCEPT !.sent = @ + 1, !.wire = @ + 1] \in Connection
        /\ [net[c] EXCEPT !.sent = @ + 1, !.wire = @ + 1].got = net[c].got
    <3>1. net[c].sent + 1 \in Nat /\ net[c].wire + 1 \in Nat
      BY <2>1 DEF Connection
    <3>2. \A v, w \in Nat : /\ [net[c] EXCEPT !.sent = v, !.wire = w] \in Connection
                            /\ [net[c] EXCEPT !.sent = v, !.wire = w].got = net[c].got
      BY <2>1 DEF Connection
    <3>3. QED
      BY <3>1, <3>2
  <2>5. QED
    BY <2>1, <2>2, <2>3, <2>4
<1>2. UNCHANGED <<bossPc, chan, ops, port, answering, clientCount, todo, pc>>
  BY DEF Connect, PeerSend, PeerClose, HeartTimeout, AcceptCompletes
<1>3. AtHand'
  BY <1>2 DEF Connect, PeerSend, PeerClose, HeartTimeout, AcceptCompletes, IOCPInv, AtHand,
              Live, With
<1>4. QED
  BY <1>1, <1>2, <1>3, QuietSteps DEF IOCPInv, IOCPTypeOK

LEMMA PhasesKeep ==
    ASSUME IOCPInv, Posted \/ NoEvent \/ WaitFails
    PROVE  IOCPInv'
<1>1. UNCHANGED <<net, chan, ops, port, answering, clientCount, todo, accept, bossPc>>
  BY DEF Posted, NoEvent, WaitFails
<1>2. pc' \in {"events", "messages", "exited"} /\ pc # "undefined"
  BY DEF Posted, NoEvent, WaitFails
<1>3. AtHand'
  BY <1>1, <1>2 DEF IOCPInv, AtHand
<1>4. QED
  BY <1>1, <1>2, <1>3, QuietSteps DEF IOCPInv, IOCPTypeOK

(* IOCPAccept() makes or refuses a channel for a client that has none. *)
LEMMA AcceptKeeps ==
    ASSUME IOCPInv, Reject \/ AddClient
    PROVE  IOCPInv'
<1> DEFINE c == accept
<1> USE DEF IOCPInv, IOCPTypeOK
<1>1. /\ c \in Clients /\ chan[c].life = "none" /\ chan[c] \in Channel
      /\ UNCHANGED <<ops, port, pc, todo, answering>>
  BY DEF Reject, AddClient, AtHand
<1>2. PICK l \in {"buffered", "refused"} : chan' = [chan EXCEPT ![c].life = l]
  BY DEF Reject, AddClient
<1>3. /\ chan'[c] = [chan[c] EXCEPT !.life = l]
      /\ \A d \in Clients \ {c} : chan'[d] = chan[d]
  BY <1>1, <1>2
<1>4. chan' \in [Clients -> Channel]
  BY <1>1, <1>2 DEF Channel, Lives
<1>5. net' \in [Clients -> Connection] /\ \A d \in Clients : net'[d].got = net[d].got
  <2>1. net[c] \in Connection
    BY <1>1
  <2>2. net' = net \/ net' = [net EXCEPT ![c] = [net[c] EXCEPT !.peer = "closed"]]
    BY DEF Reject, AddClient
  <2>3. /\ [net[c] EXCEPT !.peer = "closed"] \in Connection
        /\ [net[c] EXCEPT !.peer = "closed"].got = net[c].got
    BY <2>1 DEF Connection
  <2>4. QED
    BY <1>1, <2>2, <2>3
<1>7. Live' = Live
  BY <1>1, <1>3 DEF Live, With, Channel
<1>8. AtHand'
  BY <1>1, <1>7, IOCPAssumption DEF AtHand, Reject, AddClient
<1>9. /\ \A d, t : Out(d, t)' <=> Out(d, t)
      /\ \A d, t : DoneOut(d, t)' <=> DoneOut(d, t)
  BY <1>1 DEF Out, OpOut, DoneOut
<1>10. \A d \in Clients : \A f \in {"recv", "from", "next", "recvBusy", "sendBusy"} :
         chan'[d][f] = chan[d][f]
  BY <1>1, <1>3 DEF Channel
<1>11. \A t \in Types : ~Out(c, t)
  BY <1>1 DEF Flagged
<1>12. OneOut'
  BY <1>1 DEF OneOut
<1>13. Flagged'
  BY <1>3, <1>9, <1>11 DEF Flagged, Flag
<1>14. NewChannels'
  BY <1>1, <1>3, <1>5, <1>10 DEF NewChannels
<1>15. ReceivePlace'
  BY <1>1, <1>7, <1>9, <1>10 DEF ReceivePlace, ReceiveAt, Live, With
<1>16. SendPlace'
  BY <1>1, <1>5, <1>7, <1>9, <1>10 DEF SendPlace, SendAt, Live, With
<1>17. AnswersInOrder'
  BY <1>5 DEF AnswersInOrder
<1>18. OneLeft'
  <2>1. \A d \in Clients : /\ chan'[d].from = chan[d].from /\ chan'[d].next = chan[d].next
                           /\ chan'[d].life = "deleted" => chan[d].life = "deleted"
    BY <1>1, <1>3, <1>10 DEF Channel
  <2>2. QED
    BY <1>1, <1>9, <2>1, OneLeftKept DEF OneLeft, LeftAt
<1>19. QED
  BY <1>1, <1>4, <1>5, <1>8, <1>12, <1>13, <1>14, <1>15, <1>16, <1>17, <1>18

(* The test of the count and the count itself touch no channel. *)
LEMMA BossKeeps ==
    ASSUME IOCPInv, Admit \/ OnJoin
    PROVE  IOCPInv'
<1>1. UNCHANGED <<net, chan, ops, port, pc, todo, answering>>
  BY DEF Admit, OnJoin
<1>2. AtHand'
  BY <1>1, IOCPAssumption DEF Admit, OnJoin, IOCPInv, AtHand, Live, With
<1>3. QED
  BY <1>1, <1>2, QuietSteps DEF IOCPInv, IOCPTypeOK

(* The port carries out an operation: its completion replaces it, and what *)
(* a send took from the front of the send buffer reached the peer. *)
LEMMA CompleteKeeps ==
    ASSUME IOCPInv, NEW op \in ops, Complete(op)
    PROVE  IOCPInv'
<1> DEFINE c == op.c
<1> USE DEF IOCPInv, IOCPTypeOK
<1>1. /\ op \in Operation /\ c \in Clients /\ op.type \in Types /\ op.len \in Nat
      /\ net[c] \in Connection /\ chan[c] \in Channel
  BY DEF Operation
<1>2. PICK n \in Bytes(op) :
        /\ port' = Append(port, [c |-> c, type |-> op.type, n |-> n])
        /\ net' = IF op.type = "recv" THEN [net EXCEPT ![c].wire = IF n = 0 THEN @ ELSE @ - n]
                  ELSE [net EXCEPT ![c].got = @ \o SubSeq(SendRange(c), 1, n)]
  BY DEF Complete
<1>3. /\ UNCHANGED <<accept, bossPc, chan, pc, todo, late, clientCount, answering>>
      /\ ops' = ops \ {op}
  BY DEF Complete
<1>4. /\ n \in Nat
      /\ op.type = "recv" => n <= net[c].wire
      /\ op.type = "send" => n <= op.len
      /\ chan[c].life # "joined" => n = 0
  <2>1. net[c].wire \in Nat
    BY <1>1 DEF Connection
  <2>2. Min({op.len, net[c].wire}) \in Nat /\ Min({op.len, net[c].wire}) <= net[c].wire
    BY <1>1, <2>1, MinIs
  <2>3. CASE chan[c].life # "joined"
    BY <1>1, <2>1, <2>3 DEF Bytes
  <2>4. CASE chan[c].life = "joined" /\ op.type = "recv"
    BY <2>1, <2>2, <2>4 DEF Bytes
  <2>5. CASE chan[c].life = "joined" /\ op.type = "send"
    BY <1>1, <2>5 DEF Bytes
  <2>6. QED
    BY <1>1, <2>3, <2>4, <2>5 DEF Types
<1> DEFINE e == [c |-> c, type |-> op.type, n |-> n]
<1>5. /\ e \in Completion /\ e.c = c /\ e.type = op.type /\ e.n = n
      /\ port' \in Seq(Completion) /\ Len(port') = Len(port) + 1 /\ Len(port) \in Nat
      /\ \A i \in 1..Len(port) : port'[i] = port[i]
      /\ port'[Len(port) + 1] = e
  <2>1. e \in Completion
    BY <1>1, <1>4 DEF Completion
  <2>2. QED
    BY <1>2, <2>1, AppendProperties
<1> HIDE DEF e
<1>6. /\ \A d, t : DoneOut(d, t)' <=> DoneOut(d, t) \/ (d = c /\ t = op.type)
      /\ \A d, t : OpOut(d, t)' <=> OpOut(d, t) /\ ~(d = c /\ t = op.type)
  <2>1. \A d, t : DoneOut(d, t)' <=> DoneOut(d, t) \/ (d = c /\ t = op.type)
    BY SMTT(30), <1>5 DEF DoneOut
  <2>2. \A d, t : OpOut(d, t)' <=> OpOut(d, t) /\ ~(d = c /\ t = op.type)
    BY <1>3 DEF OpOut, OneOut
  <2>3. QED
    BY <2>1, <2>2
<1>7. \A d, t : Out(d, t)' <=> Out(d, t)
  <2>1. OpOut(c, op.type)
    BY DEF OpOut
  <2>2. QED
    BY <1>6, <2>1 DEF Out
<1>8. ~DoneOut(c, op.type)
  BY DEF OneOut, DoneOut
<1>9. OneOut'
  <2>0. \A i \in 1..Len(port') : i \in 1..Len(port) \/ i = Len(port) + 1
    BY <1>5
  <2>1. \A o, p \in ops' : o.c = p.c /\ o.type = p.type => o = p
    BY <1>3 DEF OneOut
  <2>2. \A i, j \in 1..Len(port') :
          port'[i].c = port'[j].c /\ port'[i].type = port'[j].type => i = j
    BY <1>5, <1>8, <2>0 DEF OneOut, DoneOut
  <2>3. \A o \in ops', i \in 1..Len(port') : ~(o.c = port'[i].c /\ o.type = port'[i].type)
    <3> TAKE o \in ops', i \in 1..Len(port')
    <3>1. o \in ops /\ ~(o.c = c /\ o.type = op.type)
      BY <1>3 DEF OneOut
    <3>2. QED
      BY <1>5, <2>0, <3>1 DEF OneOut
  <2>4. QED
    BY <2>1, <2>2, <2>3 DEF OneOut
<1>10. Live' = Live /\ Live \subseteq Clients
  BY <1>3 DEF Live, With
<1>11. Flagged'
  BY <1>3, <1>7 DEF Flagged, Flag
<1>12. chan[c].life \in {"joined", "evicted", "deleted"} /\ Out(c, op.type)
  BY <1>1 DEF Flagged, Out, OpOut
<1>13. \A d \in Clients : d # c \/ op.type = "recv" => net'[d].got = net[d].got
  <2>1. CASE op.type = "recv"
    <3>1. net' = [net EXCEPT ![c].wire = IF n = 0 THEN @ ELSE @ - n]
      BY <1>2, <2>1
    <3>2. [net[c] EXCEPT !.wire = IF n = 0 THEN @ ELSE @ - n].got = net[c].got
      BY <1>1 DEF Connection
    <3>3. QED
      BY <1>1, <3>1, <3>2
  <2>2. CASE op.type = "send"
    BY <1>1, <1>2, <2>2
  <2>3. QED
    BY <1>1, <2>1, <2>2 DEF Types
<1>14. op.type = "send" => net'[c].got = net[c].got \o SubSeq(SendRange(c), 1, n)
  BY <1>1, <1>2 DEF Connection
<1>15. op.type = "send" =>
         /\ SubSeq(SendRange(c), 1, n) \in Seq(Nat)
         /\ Len(SubSeq(SendRange(c), 1, n)) = n
         /\ \A i \in 1..n : SubSeq(SendRange(c), 1, n)[i] = chan[c].from + i - 1
  <2>1. op.type = "send" => n = 0 \/ n <= chan[c].next - chan[c].from
    <3>1. CASE op.type = "send" /\ chan[c].life = "joined"
      <4>1. c \in Live
        BY <3>1, <1>1 DEF Live, With
      <4>2. chan[c].from + op.len <= chan[c].next
        BY <4>1, <3>1 DEF SendPlace, SendAt
      <4>3. QED
        BY <4>2, <3>1, <1>1, <1>4 DEF Channel
    <3>2. QED
      BY <3>1, <1>4
  <2>2. chan[c].from \in Nat /\ chan[c].next \in Nat
    BY <1>1 DEF Channel
  <2>3. QED
    BY SMTT(30), <1>4, <2>1, <2>2, RangePrefix DEF SendRange
<1>30. op.type = "send" =>
         /\ net[c].got \in Seq(Nat) /\ Len(net[c].got) \in Nat
         /\ net'[c].got \in Seq(Nat) /\ Len(net'[c].got) = Len(net[c].got) + n
         /\ \A i \in 1..Len(net[c].got) : net'[c].got[i] = net[c].got[i]
         /\ \A i \in 1..n : net'[c].got[Len(net[c].got) + i] = chan[c].from + i - 1
  <2>1. net[c].got \in Seq(Nat)
    BY <1>1 DEF Connection
  <2>2. QED
    <3> DEFINE t == SubSeq(SendRange(c), 1, n)
    <3> SUFFICES ASSUME op.type = "send"
                 PROVE  /\ Len(net[c].got) \in Nat
                        /\ net[c].got \o t \in Seq(Nat) /\ Len(net[c].got \o t) = Len(net[c].got) + n
                        /\ \A i \in 1..Len(net[c].got) : (net[c].got \o t)[i] = net[c].got[i]
                        /\ \A i \in 1..n : (net[c].got \o t)[Len(net[c].got) + i] = chan[c].from + i - 1
      BY <1>14, <2>1
    <3>1. t \in Seq(Nat) /\ Len(t) = n /\ \A i \in 1..n : t[i] = chan[c].from + i - 1
      BY <1>15
    <3> HIDE DEF t
    <3>2. QED
      BY <2>1, <3>1, ConcatIndices
<1>16. \A d \in Clients : /\ net'[d].got \in Seq(Nat) /\ net[d].got \in Seq(Nat)
                          /\ Len(net[d].got) \in Nat
                          /\ Len(net'[d].got) = IF d = c /\ op.type = "send"
                                                THEN Len(net[d].got) + n ELSE Len(net[d].got)
  <2> TAKE d \in Clients
  <2>1. net[d].got \in Seq(Nat) /\ Len(net[d].got) \in Nat
    BY DEF Connection
  <2>2. CASE d = c /\ op.type = "send"
    BY <1>30, <2>1, <2>2
  <2>3. CASE d # c \/ op.type = "recv"
    BY <1>13, <2>1, <2>3
  <2>4. QED
    BY <1>1, <2>1, <2>2, <2>3 DEF Types
<1>17. net' \in [Clients -> Connection]
  <2>1. CASE op.type = "recv"
    <3>1. net' = [net EXCEPT ![c].wire = IF n = 0 THEN @ ELSE @ - n]
      BY <1>2, <2>1
    <3>2. net[c].wire \in Nat /\ (IF n = 0 THEN net[c].wire ELSE net[c].wire - n) \in Nat
      BY <1>1, <1>4, <2>1 DEF Connection
    <3>3. [net[c] EXCEPT !.wire = IF n = 0 THEN @ ELSE @ - n] \in Connection
      BY <1>1, <3>2 DEF Connection
    <3>4. QED
      BY <1>1, <3>1, <3>3
  <2>2. CASE op.type = "send"
    <3>1. net' = [net EXCEPT ![c].got = @ \o SubSeq(SendRange(c), 1, n)]
      BY <1>2, <2>2
    <3>2. net[c].got \o SubSeq(SendRange(c), 1, n) \in Seq(Nat)
      BY <1>14, <1>30, <2>2
    <3>3. [net[c] EXCEPT !.got = @ \o SubSeq(SendRange(c), 1, n)] \in Connection
      BY <1>1, <3>2 DEF Connection
    <3>4. QED
      BY <1>1, <3>1, <3>3
  <2>3. QED
    BY <1>1, <2>1, <2>2 DEF Types
<1>18. NewChannels'
  BY <1>3, <1>12, <1>13 DEF NewChannels
<1>19. ReceivePlace'
  <2> SUFFICES ASSUME NEW d \in Live
               PROVE  /\ pc \in {"loop", "check", "action"} => chan[d].recv < Size
                      /\ DoneOut(d, "recv")' => chan[d].recv < Size
                      /\ \A o \in ops' : o.c = d /\ o.type = "recv" =>
                           o.at = chan[d].recv /\ chan[d].recv < Size
    BY <1>3, <1>10 DEF ReceivePlace, ReceiveAt
  <2>1. DoneOut(d, "recv")' => chan[d].recv < Size
    BY <1>6 DEF ReceivePlace, ReceiveAt
  <2>2. QED
    BY <1>3, <2>1 DEF ReceivePlace, ReceiveAt
<1>20. SendPlace'
  <2> SUFFICES ASSUME NEW d \in Live
               PROVE  /\ \A i \in 1..Len(port') : port'[i].c = d /\ port'[i].type = "send" =>
                           /\ chan[d].from + port'[i].n <= chan[d].next
                           /\ Len(net'[d].got) = chan[d].from - 1 + port'[i].n
                      /\ ~DoneOut(d, "send")' => Len(net'[d].got) = chan[d].from - 1
    BY <1>3, <1>10 DEF SendPlace, SendAt
  <2>1. d \in Clients /\ chan[d] \in Channel /\ chan[d].life = "joined" /\ chan[d].from \in Nat
    BY DEF Live, With, Channel
  <2>2. CASE d = c /\ op.type = "send"
    <3>1. ~DoneOut(d, "send") /\ DoneOut(d, "send")'
      BY <1>6, <1>8, <2>2
    <3>2. Len(net'[d].got) = chan[d].from - 1 + n
      BY <1>16, <2>1, <2>2, <3>1 DEF SendPlace, SendAt
    <3>3. chan[d].from + n <= chan[d].next
      <4>1. chan[d].from + op.len <= chan[d].next
        BY <2>2 DEF SendPlace, SendAt
      <4>2. QED
        BY <4>1, <1>1, <1>4, <2>1, <2>2 DEF Channel
    <3>4. \A i \in 1..Len(port') : port'[i].c = d /\ port'[i].type = "send" => port'[i].n = n
      BY <1>5, <2>2, <3>1 DEF DoneOut
    <3>5. QED
      BY <3>1, <3>2, <3>3, <3>4
  <2>3. CASE d # c \/ op.type # "send"
    <3>1. Len(net'[d].got) = Len(net[d].got)
      BY <1>16, <2>1, <2>3
    <3>2. DoneOut(d, "send")' <=> DoneOut(d, "send")
      BY <1>6, <2>3
    <3>3. \A i \in 1..Len(port') : port'[i].c = d /\ port'[i].type = "send" =>
            i \in 1..Len(port) /\ port'[i] = port[i]
      BY <1>5, <2>3
    <3>4. QED
      BY <3>1, <3>2, <3>3 DEF SendPlace, SendAt
  <2>4. QED
    BY <2>2, <2>3
<1>21. AnswersInOrder'
  <2> SUFFICES ASSUME NEW d \in Clients, NEW i \in 1..Len(net'[d].got)
               PROVE  net'[d].got[i] = i
    BY <1>16 DEF AnswersInOrder
  <2>1. \A j \in 1..Len(net[d].got) : net[d].got[j] = j
    BY <1>16 DEF AnswersInOrder
  <2>2. CASE d = c /\ op.type = "send" /\ i > Len(net[d].got)
    <3>1. n # 0 /\ chan[c].life = "joined"
      BY <1>4, <1>16, <2>2
    <3>2. c \in Live
      BY <1>1, <3>1 DEF Live, With
    <3>3. Len(net[c].got) = chan[c].from - 1
      <4>1. ~DoneOut(c, "send")
        BY <1>8, <2>2
      <4>2. QED
        BY <3>2, <4>1 DEF SendPlace, SendAt
    <3>4. i - Len(net[c].got) \in 1..n
      <4>1. /\ Len(net[c].got) \in Nat /\ Len(net'[c].got) = Len(net[c].got) + n
            /\ i \in 1..Len(net'[c].got) /\ i > Len(net[c].got)
        BY <1>16, <2>2
      <4> HIDE DEF IOCPInv, IOCPTypeOK
      <4>2. QED
        BY SMTT(30), <1>4, <4>1
    <3>5. net'[c].got[Len(net[c].got) + (i - Len(net[c].got))] = chan[c].from + (i - Len(net[c].got)) - 1
      BY <1>30, <2>2, <3>4
    <3>6. net'[c].got[i] = chan[c].from + (i - Len(net[c].got)) - 1
      BY <1>30, <2>2, <3>5
    <3>7. QED
      BY <1>1, <1>16, <2>2, <3>3, <3>6 DEF Channel
  <2>3. CASE d = c /\ op.type = "send" /\ i <= Len(net[d].got)
    <3>1. i \in 1..Len(net[c].got)
      BY <1>16, <2>3
    <3>2. QED
      BY <1>30, <2>1, <2>3, <3>1
  <2>4. CASE d # c \/ op.type = "recv"
    BY <1>13, <2>1, <2>4
  <2>5. QED
    BY <1>1, <1>16, <2>2, <2>3, <2>4 DEF Types
<1>22. OneLeft'
  BY <1>3, <1>7, OneLeftKept DEF OneLeft, LeftAt
<1>23. AtHand'
  BY <1>3, <1>10 DEF AtHand
<1>24. QED
  BY <1>3, <1>5, <1>9, <1>11, <1>17, <1>18, <1>19, <1>20, <1>21, <1>22, <1>23

(* The channels that join, and those of them that the port knows and that  *)
(* are given a receive. *)
LEMMA JoinShape ==
    ASSUME Join
    PROVE  \E reading \in SUBSET With("buffered") :
             /\ \E failed \in SUBSET reading : ops' = ops \cup {RecvOp(c) : c \in reading \ failed}
             /\ chan' = [c \in Clients |-> IF c \in With("buffered")
                           THEN [chan[c] EXCEPT !.life = "joined", !.known = c \in reading,
                                                !.recvBusy = c \in reading]
                           ELSE chan[c]]
<1>1. PICK unknown \in SUBSET With("buffered") :
        LET new == With("buffered") \ unknown IN
         /\ \E failed \in SUBSET {c \in new : net[c].peer = "closed"} :
              ops' = ops \cup {RecvOp(c) : c \in new \ failed}
         /\ chan' = [c \in Clients |-> IF c \in With("buffered")
                       THEN [chan[c] EXCEPT !.life = "joined", !.known = c \in new,
                                            !.recvBusy = c \in new]
                       ELSE chan[c]]
  BY DEF Join
<1> DEFINE reading == With("buffered") \ unknown
<1>2. PICK failed \in SUBSET {c \in reading : net[c].peer = "closed"} :
        ops' = ops \cup {RecvOp(c) : c \in reading \ failed}
  BY <1>1
<1>3. failed \in SUBSET reading
  OBVIOUS
<1>4. reading \in SUBSET With("buffered")
  OBVIOUS
<1>5. QED
  BY <1>1, <1>2, <1>3, <1>4

(* The channels that join are new, and get a receive unless the port does  *)
(* not know them or their peer has gone. *)
LEMMA JoinKeeps ==
    ASSUME IOCPInv, Join
    PROVE  IOCPInv'
<1> DEFINE new == With("buffered")
<1> USE DEF IOCPInv, IOCPTypeOK
<1>0. PICK reading \in SUBSET new :
        /\ \E failed \in SUBSET reading : ops' = ops \cup {RecvOp(c) : c \in reading \ failed}
        /\ chan' = [c \in Clients |-> IF c \in new
                      THEN [chan[c] EXCEPT !.life = "joined", !.known = c \in reading,
                                           !.recvBusy = c \in reading]
                      ELSE chan[c]]
  BY JoinShape
<1>1. PICK posted \in SUBSET reading : ops' = ops \cup {RecvOp(c) : c \in posted}
  <2>1. PICK failed \in SUBSET reading : ops' = ops \cup {RecvOp(c) : c \in reading \ failed}
    BY <1>0
  <2>2. reading \ failed \in SUBSET reading
    OBVIOUS
  <2>3. QED
    BY <2>1, <2>2
<1>2. /\ pc' \in {"loop", "check"} /\ pc = "loop"
      /\ UNCHANGED <<accept, bossPc, net, port, todo, late, clientCount, answering>>
  BY DEF Join
<1>3. \A c \in new : /\ c \in Clients /\ chan[c] \in Channel
                     /\ chan[c].recv = 0 /\ chan[c].from = 1 /\ chan[c].next = 1
                     /\ net[c].got = <<>> /\ ~Out(c, "recv") /\ ~Out(c, "send")
  BY DEF With, NewChannels, Flagged, Types
<1>4. /\ \A c \in Clients \ new : chan'[c] = chan[c]
      /\ \A c \in new : /\ chan'[c] \in Channel /\ chan'[c].life = "joined"
                        /\ c \in reading => chan'[c].recvBusy
      /\ \A c \in Clients : \A f \in {"recv", "from", "next", "sendBusy"} :
           chan'[c][f] = chan[c][f]
  <2>1. \A c \in reading : c \in new
    OBVIOUS
  <2>2. \A c \in new : chan'[c] = [chan[c] EXCEPT !.life = "joined", !.known = c \in reading,
                                              !.recvBusy = c \in reading]
    BY <1>0, <1>3
  <2>3. \A c \in new :
          \/ chan'[c] = [chan[c] EXCEPT !.life = "joined", !.known = TRUE, !.recvBusy = TRUE]
          \/ chan'[c] = [chan[c] EXCEPT !.life = "joined", !.known = FALSE, !.recvBusy = FALSE]
    <3> TAKE c \in new
    <3>1. CASE c \in reading
      <4>1. (c \in reading) = TRUE
        BY <3>1
      <4>2. QED
        BY <2>2, <4>1
    <3>2. CASE c \notin reading
      <4>1. (c \in reading) = FALSE
        BY <3>2
      <4>2. QED
        BY <2>2, <4>1
    <3>3. QED
      BY <3>1, <3>2
  <2>4. \A c \in reading : chan'[c].recvBusy
    <3> TAKE c \in reading
    <3>1. (c \in reading) = TRUE /\ c \in new
      OBVIOUS
    <3>2. chan'[c] = [chan[c] EXCEPT !.life = "joined", !.known = TRUE, !.recvBusy = TRUE]
      BY <2>2, <3>1
    <3>3. QED
      BY <1>3, <3>1, <3>2 DEF Channel
  <2>5. \A c \in Clients \ new : chan'[c] = chan[c]
    BY <1>0
  <2>6. \A c \in new : /\ chan'[c] \in Channel /\ chan'[c].life = "joined"
                       /\ \A f \in {"recv", "from", "next", "sendBusy"} :
                            chan'[c][f] = chan[c][f]
    <3> TAKE c \in new
    <3>1. CASE chan'[c] = [chan[c] EXCEPT !.life = "joined", !.known = TRUE, !.recvBusy = TRUE]
      BY <1>3, <3>1 DEF Channel, Lives
    <3>2. CASE chan'[c] = [chan[c] EXCEPT !.life = "joined", !.known = FALSE,
                                          !.recvBusy = FALSE]
      BY <1>3, <3>2 DEF Channel, Lives
    <3>3. QED
      BY <2>3, <3>1, <3>2
  <2>7. QED
    BY <2>4, <2>5, <2>6
<1>5. chan' \in [Clients -> Channel]
  BY <1>0, <1>4
<1>6. \A c \in new : RecvOp(c) = [c |-> c, type |-> "recv", at |-> 0, len |-> RecvSize]
  BY <1>3, IOCPAssumption DEF RecvOp
<1>7. ops' \subseteq Operation
  BY <1>1, <1>3, <1>6, IOCPAssumption DEF Operation, Types
<1>8. \A o \in ops' : o \in ops \/ (/\ o.c \in new /\ o.c \in reading
                                    /\ o.type = "recv" /\ o.at = 0 /\ o = RecvOp(o.c))
  BY <1>1, <1>6
<1>9. /\ \A c, t : DoneOut(c, t)' <=> DoneOut(c, t)
      /\ \A c, t : OpOut(c, t)' => OpOut(c, t) \/ (c \in new /\ c \in reading /\ t = "recv")
  BY <1>2, <1>8 DEF DoneOut, OpOut
<1>10. AtHand'
  BY <1>2, <1>4 DEF AtHand, With
<1>11. OneOut'
  <2>1. \A o, p \in ops' : o.c = p.c /\ o.type = p.type => o = p
    BY <1>3, <1>8 DEF OneOut, Out, OpOut
  <2>2. \A o \in ops', i \in 1..Len(port) : ~(o.c = port[i].c /\ o.type = port[i].type)
    BY <1>3, <1>8 DEF OneOut, Out, DoneOut
  <2>3. QED
    BY <1>2, <2>1, <2>2 DEF OneOut
<1>12. Flagged'
  <2> SUFFICES ASSUME NEW c \in Clients, NEW t \in Types, Out(c, t)'
               PROVE  /\ chan'[c].life \in {"joined", "evicted", "deleted"}
                      /\ chan'[c].life # "deleted" => Flag(c, t)'
    BY DEF Flagged
  <2>1. CASE c \in new
    <3>1. t = "recv" /\ c \in reading
      BY <1>3, <1>9, <2>1 DEF Out, Types
    <3>2. QED
      BY <1>4, <2>1, <3>1 DEF Flag
  <2>2. CASE c \notin new
    BY <1>4, <1>9, <2>2 DEF Flagged, Flag, Out
  <2>3. QED
    BY <2>1, <2>2
<1>13. NewChannels'
  BY <1>2, <1>4 DEF NewChannels
<1>14. Live' = Live \cup new
  BY <1>3, <1>4 DEF Live, With
<1>15. ReceivePlace'
  <2> SUFFICES ASSUME NEW c \in Live \cup new
               PROVE  /\ chan'[c].recv < Size
                      /\ \A o \in ops' : o.c = c /\ o.type = "recv" => o.at = chan'[c].recv
    BY <1>14 DEF ReceivePlace, ReceiveAt
  <2>1. c \in Clients /\ chan'[c].recv = chan[c].recv
    BY <1>3, <1>4 DEF Live, With
  <2>2. CASE c \in new
    <3>1. \A o \in ops' : o.c = c /\ o.type = "recv" => o.at = 0
      BY <1>3, <1>8, <2>2 DEF Out, OpOut
    <3>2. QED
      BY <1>3, <2>1, <2>2, <3>1, IOCPAssumption
  <2>3. CASE c \in Live /\ c \notin new
    BY <1>2, <1>8, <2>1, <2>3 DEF ReceivePlace, ReceiveAt
  <2>4. QED
    BY <2>2, <2>3
<1>16. SendPlace'
  <2> SUFFICES ASSUME NEW c \in Live \cup new
               PROVE  SendAt(c)'
    BY <1>14 DEF SendPlace
  <2>0. c \in Clients /\ chan'[c].from = chan[c].from /\ chan'[c].next = chan[c].next
    BY <1>3, <1>4 DEF Live, With
  <2>1. CASE c \in new
    <3>1. Len(net[c].got) = 0
      BY <1>3, <2>1, EmptySeq
    <3>2. /\ \A o \in ops' : ~(o.c = c /\ o.type = "send")
          /\ \A i \in 1..Len(port) : ~(port[i].c = c /\ port[i].type = "send")
      BY <1>3, <1>8, <2>1 DEF Out, OpOut, DoneOut
    <3>3. chan[c].from = 1 /\ chan[c].next = 1 /\ SendSize \in Nat
      BY <1>3, <2>1, IOCPAssumption
    <3> HIDE DEF IOCPInv, IOCPTypeOK
    <3>4. port' = port /\ net' = net /\ chan'[c].from = 1 /\ chan'[c].next = 1
      BY <1>2, <2>0, <3>3
    <3>5. /\ chan'[c].from <= chan'[c].next /\ chan'[c].next <= chan'[c].from + SendSize
          /\ Len(net'[c].got) = chan'[c].from - 1
      BY <3>1, <3>3, <3>4
    <3>6. QED
      BY <3>2, <3>4, <3>5 DEF SendAt
  <2>2. CASE c \in Live /\ c \notin new
    BY <1>2, <1>8, <1>9, <2>0, <2>2 DEF SendPlace, SendAt
  <2>3. QED
    BY <2>1, <2>2
<1>17. AnswersInOrder'
  BY <1>2 DEF AnswersInOrder
<1>18. OneLeft'
  <2> SUFFICES ASSUME NEW c \in Clients PROVE LeftAt(c)'
    BY DEF OneLeft
  <2>1. LeftAt(c) /\ chan'[c].from = chan[c].from /\ chan'[c].next = chan[c].next
    BY <1>4 DEF OneLeft
  <2>2. Out(c, "send")' => Out(c, "send")
    BY <1>9 DEF Out
  <2>3. chan'[c].life = "deleted" =>
          chan[c].life = "deleted" /\ (Out(c, "recv")' => Out(c, "recv"))
    BY <1>4, <1>9 DEF Out
  <2>4. QED
    BY <1>2, <2>1, <2>2, <2>3 DEF LeftAt
<1>19. QED
  BY <1>2, <1>5, <1>7, <1>10, <1>11, <1>12, <1>13, <1>15, <1>16, <1>17, <1>18

(* CheckTime() takes the overdue channels out, and deletes only those that *)
(* have nothing out. *)
LEMMA CheckTimeKeeps ==
    ASSUME IOCPInv, CheckTime
    PROVE  IOCPInv'
<1> USE DEF IOCPInv, IOCPTypeOK
<1>1. /\ pc = "check" /\ pc' \in {"action", "undefined"} /\ todo' = Live \ Overdue
      /\ UNCHANGED <<accept, bossPc, net, ops, port, late, answering>>
      /\ chan' = [c \in Clients |-> IF c \notin Overdue THEN chan[c]
                   ELSE [chan[c] EXCEPT !.life = IF Busy(c) THEN "evicted" ELSE "deleted"]]
  BY DEF CheckTime
<1>2. \A c \in Overdue : c \in Clients /\ chan[c] \in Channel /\ chan[c].life = "joined"
  BY DEF Overdue, Live, With
<1>3. /\ \A c \in Clients \ Overdue : chan'[c] = chan[c]
      /\ \A c \in Overdue : chan'[c] \in Channel /\ chan'[c].life = IF Busy(c) THEN "evicted" ELSE "deleted"
      /\ \A c \in Clients : \A f \in {"recv", "from", "next", "recvBusy", "sendBusy"} :
           chan'[c][f] = chan[c][f]
  BY <1>1, <1>2 DEF Channel, Lives
<1>4. chan' \in [Clients -> Channel]
  BY <1>1, <1>3
<1>5. /\ Live' = Live \ Overdue /\ Live \subseteq Clients
      /\ \A c \in Live \ Overdue : chan'[c] = chan[c]
  BY <1>3 DEF Live, With
<1>6. /\ \A c, t : Out(c, t)' <=> Out(c, t)
      /\ \A c, t : DoneOut(c, t)' <=> DoneOut(c, t)
  BY <1>1 DEF Out, OpOut, DoneOut
<1>7. AtHand'
  <2>1. accept \in Clients /\ bossPc # "join" => accept \notin Overdue
    BY <1>2 DEF AtHand
  <2>2. QED
    BY <1>1, <1>3, <1>5, <2>1 DEF AtHand
<1>8. OneOut'
  BY <1>1 DEF OneOut
<1>9. Flagged'
  <2>1. \A c \in Clients, t \in Types : Flag(c, t)' = Flag(c, t)
    BY <1>3 DEF Flag
  <2>2. QED
    BY <1>2, <1>3, <1>6, <2>1 DEF Flagged
<1>10. NewChannels'
  BY <1>1, <1>3 DEF NewChannels
<1>11. ReceivePlace'
  BY <1>1, <1>5, <1>6 DEF ReceivePlace, ReceiveAt
<1>12. SendPlace'
  BY <1>1, <1>5, <1>6 DEF SendPlace, SendAt
<1>13. AnswersInOrder'
  BY <1>1 DEF AnswersInOrder
<1>14. OneLeft'
  <2> SUFFICES ASSUME NEW c \in Clients PROVE LeftAt(c)'
    BY DEF OneLeft
  <2>1. /\ LeftAt(c) /\ chan'[c].from = chan[c].from /\ chan'[c].next = chan[c].next
        /\ "recv" \in Types /\ "send" \in Types
    BY <1>3 DEF OneLeft, Types
  <2>2. CASE c \in Overdue /\ chan'[c].life = "deleted"
    <3>1. ~Busy(c) /\ chan[c].life = "joined"
      BY <1>2, <1>3, <2>2
    <3>2. ~Out(c, "recv") /\ ~Out(c, "send")
      BY <2>1, <3>1 DEF Flagged, Flag, Busy
    <3>3. QED
      BY <1>6, <2>1, <3>2 DEF LeftAt
  <2>3. CASE ~(c \in Overdue /\ chan'[c].life = "deleted")
    <3>1. chan'[c].life = "deleted" => chan[c].life = "deleted"
      BY <1>3, <2>3
    <3>2. QED
      BY <1>1, <1>6, <2>1, <3>1 DEF LeftAt
  <2>4. QED
    BY <2>2, <2>3
<1>16. QED
  BY <1>1, <1>4, <1>5, <1>7, <1>8, <1>9, <1>10, <1>11, <1>12, <1>13, <1>14

(* What DoAction() posts for a channel goes where the channel's buffers    *)
(* are, and nothing of the same direction is out. *)
LEMMA PostedOps ==
    ASSUME IOCPInv, pc = "action", NEW c \in todo,
           NEW posted \in SUBSET ((IF PostsSend(c) THEN {SendOp(c)} ELSE {})
                                    \cup (IF PostsRecv(c) THEN {RecvOp(c)} ELSE {})),
           ops' = ops \cup posted, port' = port
    PROVE  /\ c \in Clients /\ c \in Live /\ chan[c] \in Channel /\ chan[c].life = "joined"
           /\ ops' \subseteq Operation /\ OneOut'
           /\ \A o \in posted :
                \/ /\ o = SendOp(c) /\ o.c = c /\ o.type = "send" /\ PostsSend(c)
                   /\ o.at = chan[c].from /\ chan[c].from + o.len = chan[c].next
                \/ /\ o = RecvOp(c) /\ o.c = c /\ o.type = "recv" /\ PostsRecv(c)
                   /\ o.at = chan[c].recv /\ chan[c].recv < Size
           /\ \A d, t : Out(d, t)' => \/ Out(d, t)
                                      \/ d = c /\ t = "send" /\ PostsSend(c)
                                      \/ d = c /\ t = "recv" /\ PostsRecv(c)
           /\ \A d, t : DoneOut(d, t)' <=> DoneOut(d, t)
<1> USE DEF IOCPInv, IOCPTypeOK
<1>1. c \in Clients /\ c \in Live /\ chan[c] \in Channel /\ chan[c].life = "joined"
  BY DEF AtHand, Live, With
<1>2. /\ chan[c].recv \in Nat /\ chan[c].from \in Nat /\ chan[c].next \in Nat
      /\ chan[c].recv < Size
  BY <1>1 DEF Channel, ReceivePlace, ReceiveAt
<1>3. PostsSend(c) => /\ SendOp(c) \in Operation /\ SendOp(c).c = c /\ SendOp(c).type = "send"
                      /\ SendOp(c).at = chan[c].from
                      /\ chan[c].from + SendOp(c).len = chan[c].next
                      /\ ~Out(c, "send")
  <2> SUFFICES ASSUME PostsSend(c)
               PROVE  /\ SendOp(c) \in Operation /\ SendOp(c).c = c /\ SendOp(c).type = "send"
                      /\ SendOp(c).at = chan[c].from
                      /\ chan[c].from + SendOp(c).len = chan[c].next
                      /\ ~Out(c, "send")
    OBVIOUS
  <2>1. chan[c].next - chan[c].from \in Nat /\ ~chan[c].sendBusy
    BY <1>2 DEF PostsSend
  <2>2. ~Out(c, "send")
    BY <1>1, <2>1 DEF Flagged, Flag, Types
  <2>3. chan[c].from + (chan[c].next - chan[c].from) = chan[c].next
    BY <1>2
  <2>4. QED
    BY <1>1, <1>2, <2>1, <2>2, <2>3 DEF SendOp, Operation, Types
<1>4. PostsRecv(c) => /\ RecvOp(c) \in Operation /\ RecvOp(c).c = c /\ RecvOp(c).type = "recv"
                      /\ RecvOp(c).at = chan[c].recv
                      /\ ~Out(c, "recv")
  <2> SUFFICES ASSUME PostsRecv(c)
               PROVE  /\ RecvOp(c) \in Operation /\ RecvOp(c).c = c /\ RecvOp(c).type = "recv"
                      /\ RecvOp(c).at = chan[c].recv
                      /\ ~Out(c, "recv")
    OBVIOUS
  <2>1. RecvSize - chan[c].recv \in Nat /\ ~chan[c].recvBusy
    BY <1>2, IOCPAssumption DEF PostsRecv
  <2>2. ~Out(c, "recv")
    BY <1>1, <2>1 DEF Flagged, Flag, Types
  <2>3. QED
    BY <1>1, <1>2, <2>1, <2>2 DEF RecvOp, Operation, Types
<1>5. \A o \in posted :
                \/ /\ o = SendOp(c) /\ o.c = c /\ o.type = "send" /\ PostsSend(c)
                   /\ o.at = chan[c].from /\ chan[c].from + o.len = chan[c].next
                \/ /\ o = RecvOp(c) /\ o.c = c /\ o.type = "recv" /\ PostsRecv(c)
                   /\ o.at = chan[c].recv /\ chan[c].recv < Size
  BY <1>2, <1>3, <1>4
<1>6. ops' \subseteq Operation
  BY <1>3, <1>4, <1>5
<1>7. OneOut'
  <2>1. \A o, p \in ops' : o.c = p.c /\ o.type = p.type => o = p
    <3>1. \A o \in posted, p \in ops : ~(o.c = p.c /\ o.type = p.type)
      BY <1>3, <1>4, <1>5 DEF Out, OpOut
    <3>2. \A o, p \in posted : o.type = p.type => o = p
      BY <1>5
    <3>3. QED
      BY <3>1, <3>2 DEF OneOut
  <2>2. \A o \in ops', i \in 1..Len(port) : ~(o.c = port[i].c /\ o.type = port[i].type)
    <3>1. \A o \in posted, i \in 1..Len(port) : ~(o.c = port[i].c /\ o.type = port[i].type)
      BY <1>3, <1>4, <1>5 DEF Out, DoneOut
    <3>2. QED
      BY <3>1 DEF OneOut
  <2>3. QED
    BY <2>1, <2>2 DEF OneOut
<1>8. \A d, t : DoneOut(d, t)' <=> DoneOut(d, t)
  BY DEF DoneOut
<1>9. \A d, t : OpOut(d, t)' => \/ OpOut(d, t)
                                \/ d = c /\ t = "send" /\ PostsSend(c)
                                \/ d = c /\ t = "recv" /\ PostsRecv(c)
  BY <1>5 DEF OpOut
<1>10. QED
  BY <1>1, <1>5, <1>6, <1>7, <1>8, <1>9 DEF Out

LEMMA PostKeeps ==
    ASSUME IOCPInv, NEW c \in Clients, Post(c)
    PROVE  IOCPInv'
<1> USE DEF IOCPInv, IOCPTypeOK
<1> DEFINE posted == (IF PostsSend(c) THEN {SendOp(c)} ELSE {})
                       \cup (IF PostsRecv(c) THEN {RecvOp(c)} ELSE {})
<1>1. /\ pc = "action" /\ c \in todo /\ ops' = ops \cup posted
      /\ chan' = [chan EXCEPT ![c] = [chan[c] EXCEPT !.recvBusy = TRUE,
                                                     !.sendBusy = @ \/ PostsSend(c)]]
      /\ todo' = todo \ {c}
      /\ UNCHANGED <<accept, bossPc, net, port, pc, late, clientCount, answering>>
  BY DEF Post
<1>2. posted \in SUBSET posted
  OBVIOUS
<1>3. /\ c \in Clients /\ c \in Live /\ chan[c] \in Channel /\ chan[c].life = "joined"
      /\ ops' \subseteq Operation /\ OneOut'
      /\ \A o \in posted :
           \/ /\ o = SendOp(c) /\ o.c = c /\ o.type = "send" /\ PostsSend(c)
              /\ o.at = chan[c].from /\ chan[c].from + o.len = chan[c].next
           \/ /\ o = RecvOp(c) /\ o.c = c /\ o.type = "recv" /\ PostsRecv(c)
              /\ o.at = chan[c].recv /\ chan[c].recv < Size
      /\ \A d, t : Out(d, t)' => \/ Out(d, t)
                                 \/ d = c /\ t = "send" /\ PostsSend(c)
                                 \/ d = c /\ t = "recv" /\ PostsRecv(c)
      /\ \A d, t : DoneOut(d, t)' <=> DoneOut(d, t)
  BY <1>1, <1>2, PostedOps
<1> HIDE DEF posted
<1>4. PostsSend(c) \in BOOLEAN
  BY DEF PostsSend
<1>5. /\ chan'[c] \in Channel /\ chan'[c].recvBusy /\ (PostsSend(c) => chan'[c].sendBusy)
      /\ chan[c].sendBusy => chan'[c].sendBusy
      /\ \A f \in {"life", "recv", "from", "next"} : chan'[c][f] = chan[c][f]
      /\ \A d \in Clients \ {c} : chan'[d] = chan[d]
  BY <1>1, <1>3, <1>4 DEF Channel
<1>6. chan' \in [Clients -> Channel]
  BY <1>1, <1>5
<1>7. /\ \A d \in Clients : \A f \in {"life", "recv", "from", "next"} : chan'[d][f] = chan[d][f]
      /\ Live' = Live /\ Live \subseteq Clients
  BY <1>5 DEF Live, With
<1>8. AtHand'
  BY <1>1, <1>7 DEF AtHand
<1>9. Flagged'
  BY <1>3, <1>5, <1>7 DEF Flagged, Flag, Types
<1>10. NewChannels'
  BY <1>1, <1>3, <1>5 DEF NewChannels
<1>11. ReceivePlace'
  <2> SUFFICES ASSUME NEW d \in Live PROVE ReceiveAt(d)'
    BY <1>7 DEF ReceivePlace
  <2>1. \A o \in posted : o.c = d /\ o.type = "recv" => o.at = chan[d].recv /\ chan[d].recv < Size
    BY <1>3
  <2>2. QED
    BY <1>1, <1>3, <1>7, <2>1 DEF ReceivePlace, ReceiveAt
<1>12. SendPlace'
  <2> SUFFICES ASSUME NEW d \in Live PROVE SendAt(d)'
    BY <1>7 DEF SendPlace
  <2>1. d \in Clients /\ chan[d].from \in Nat /\ chan[d].next \in Nat
    BY <1>7 DEF Channel
  <2>2. \A o \in posted : o.c = d /\ o.type = "send" =>
           o.at = chan[d].from /\ chan[d].from + o.len <= chan[d].next
    BY <1>3, <2>1
  <2>3. chan'[d].from = chan[d].from /\ chan'[d].next = chan[d].next
    BY <1>7, <2>1
  <2>4. \A o \in ops' : o.c = d /\ o.type = "send" =>
           o.at = chan[d].from /\ chan[d].from + o.len <= chan[d].next
    BY <1>1, <2>2 DEF SendPlace, SendAt
  <2>5. QED
    BY <1>1, <1>3, <2>3, <2>4 DEF SendPlace, SendAt
<1>13. AnswersInOrder'
  BY <1>1 DEF AnswersInOrder
<1>14. OneLeft'
  <2> SUFFICES ASSUME NEW d \in Clients PROVE LeftAt(d)'
    BY DEF OneLeft
  <2>1. /\ LeftAt(d) /\ chan'[d].from = chan[d].from /\ chan'[d].next = chan[d].next
        /\ chan'[d].life = chan[d].life
    BY <1>7 DEF OneLeft
  <2>2. PostsSend(c) => chan[c].next # 1
    <3>1. chan[c].from >= 1 /\ chan[c].from \in Nat /\ chan[c].next \in Nat
      BY <1>3 DEF OneLeft, LeftAt, Channel
    <3>2. QED
      BY <3>1 DEF PostsSend
  <2>3. d = c => chan[d].life # "deleted"
    BY <1>3
  <2>4. QED
    BY <1>1, <1>3, <2>1, <2>2, <2>3 DEF LeftAt
<1>15. QED
  BY <1>1, <1>3, <1>6, <1>8, <1>9, <1>10, <1>11, <1>12, <1>13, <1>14

(* A channel whose peer is gone is deleted, after what it had to send was  *)
(* posted, or with it. *)
LEMMA PostFailsKeeps ==
    ASSUME IOCPInv, NEW c \in Clients, PostRecvFails(c) \/ PostSendFails(c)
    PROVE  IOCPInv'
<1> USE DEF IOCPInv, IOCPTypeOK
<1> DEFINE sends == IF PostsSend(c) THEN {SendOp(c)} ELSE {}
<1>1. /\ pc = "action" /\ c \in todo
      /\ chan' = [chan EXCEPT ![c].life = "deleted"]
      /\ todo' \subseteq todo \ {c} \/ pc' = "undefined"
      /\ todo' \subseteq todo /\ pc' \in {"action", "undefined"}
      /\ UNCHANGED <<accept, bossPc, net, port, late, answering>>
  BY DEF PostRecvFails, PostSendFails
<1>2. PICK posted \in SUBSET sends : ops' = ops \cup posted
  <2>1. PostRecvFails(c) => ops' = ops \cup sends
    BY DEF PostRecvFails
  <2>2. PostSendFails(c) => ops' = ops \cup {}
    BY DEF PostSendFails
  <2>3. sends \in SUBSET sends /\ {} \in SUBSET sends
    OBVIOUS
  <2>4. QED
    BY <2>1, <2>2, <2>3
<1>3. posted \in SUBSET (sends \cup (IF PostsRecv(c) THEN {RecvOp(c)} ELSE {}))
  OBVIOUS
<1>4. /\ c \in Live /\ chan[c] \in Channel /\ chan[c].life = "joined"
      /\ ops' \subseteq Operation /\ OneOut'
      /\ \A o \in posted :
           \/ /\ o = SendOp(c) /\ o.c = c /\ o.type = "send" /\ PostsSend(c)
              /\ o.at = chan[c].from /\ chan[c].from + o.len = chan[c].next
           \/ /\ o = RecvOp(c) /\ o.c = c /\ o.type = "recv" /\ PostsRecv(c)
              /\ o.at = chan[c].recv /\ chan[c].recv < Size
      /\ \A d, t : DoneOut(d, t)' <=> DoneOut(d, t)
  BY <1>1, <1>2, <1>3, PostedOps
<1>5. /\ \A o \in posted : o.c = c /\ o.type = "send" /\ PostsSend(c)
      /\ \A o \in posted : o \in {SendOp(c)}
  BY <1>4 DEF SendOp
<1>6. \A d, t : Out(d, t)' => Out(d, t) \/ (d = c /\ t = "send" /\ PostsSend(c))
  BY <1>1, <1>2, <1>5 DEF Out, OpOut, DoneOut
<1> HIDE DEF sends
<1>7. /\ chan'[c] \in Channel /\ chan'[c].life = "deleted"
      /\ \A d \in Clients \ {c} : chan'[d] = chan[d]
      /\ chan'[c].from = chan[c].from /\ chan'[c].next = chan[c].next
  BY <1>1, <1>4 DEF Channel, Lives
<1>8. chan' \in [Clients -> Channel]
  BY <1>1, <1>7
<1>9. /\ Live' = Live \ {c} /\ Live \subseteq Clients
      /\ \A d \in Live \ {c} : d \in Clients /\ d # c /\ chan'[d] = chan[d]
  BY <1>7 DEF Live, With
<1>10. AtHand'
  BY <1>1, <1>4, <1>7, <1>9 DEF AtHand
<1>11. Flagged'
  <2> SUFFICES ASSUME NEW d \in Clients, NEW t \in Types, Out(d, t)'
               PROVE  /\ chan'[d].life \in {"joined", "evicted", "deleted"}
                      /\ chan'[d].life # "deleted" => Flag(d, t)'
    BY DEF Flagged
  <2>1. CASE d = c
    BY <1>7, <2>1
  <2>2. CASE d # c
    BY <1>6, <1>7, <2>2 DEF Flagged, Flag
  <2>3. QED
    BY <2>1, <2>2
<1>12. NewChannels'
  BY <1>1, <1>7 DEF NewChannels
<1>13. ReceivePlace'
  <2> SUFFICES ASSUME NEW d \in Live \ {c} PROVE ReceiveAt(d)'
    BY <1>9 DEF ReceivePlace
  <2>1. \A o \in ops' : o.c = d => o \in ops
    BY <1>2, <1>5
  <2>2. QED
    BY <1>1, <1>4, <1>9, <2>1 DEF ReceivePlace, ReceiveAt
<1>14. SendPlace'
  <2> SUFFICES ASSUME NEW d \in Live \ {c} PROVE SendAt(d)'
    BY <1>9 DEF SendPlace
  <2>1. \A o \in ops' : o.c = d => o \in ops
    BY <1>2, <1>5
  <2>2. QED
    BY <1>1, <1>4, <1>9, <2>1 DEF SendPlace, SendAt
<1>15. AnswersInOrder'
  BY <1>1 DEF AnswersInOrder
<1>16. OneLeft'
  <2> SUFFICES ASSUME NEW d \in Clients PROVE LeftAt(d)'
    BY DEF OneLeft
  <2>1. /\ LeftAt(d) /\ chan'[d].from = chan[d].from /\ chan'[d].next = chan[d].next
        /\ d # c => chan'[d].life = chan[d].life
    BY <1>7 DEF OneLeft
  <2>2. PostsSend(c) => chan[c].next # 1
    <3>1. chan[c].from >= 1 /\ chan[c].from \in Nat /\ chan[c].next \in Nat
      BY <1>4 DEF OneLeft, LeftAt, Channel
    <3>2. QED
      BY <3>1 DEF PostsSend
  <2>3. pc' # "undefined" => ~Out(c, "recv")'
    <3> SUFFICES ASSUME pc' # "undefined" PROVE ~Out(c, "recv")'
      OBVIOUS
    <3>1. ~chan[c].recvBusy
      BY DEF PostRecvFails, PostSendFails, PostsRecv
    <3>2. ~Out(c, "recv")
      BY <1>4, <3>1 DEF Flagged, Flag, Types
    <3>3. QED
      BY <1>6, <3>2
  <2>4. pc # "undefined"
    BY <1>1
  <2>5. QED
    BY <1>6, <2>1, <2>2, <2>3, <2>4 DEF LeftAt
<1>17. QED
  BY <1>1, <1>4, <1>8, <1>10, <1>11, <1>12, <1>13, <1>14, <1>15, <1>16

(* The first completion of the port is taken: nothing is out any more for  *)
(* its channel and direction. *)
LEMMA DispatchKeeps ==
    ASSUME IOCPInv, Dispatch
    PROVE  IOCPInv'
<1> USE DEF IOCPInv, IOCPTypeOK
<1>0. PICK e : e = Head(port)
  OBVIOUS
<1> DEFINE c == e.c
<1>1. /\ pc = "events" /\ port # <<>> /\ port' = Tail(port)
      /\ UNCHANGED <<accept, bossPc, net, ops, todo, late, answering>>
  BY DEF Dispatch
<1>2. /\ port' \in Seq(Completion) /\ Len(port) \in Nat /\ Len(port) >= 1 /\ Len(port') = Len(port) - 1
      /\ \A i \in 1..Len(port') : port'[i] = port[i + 1]
      /\ e = port[1] /\ e \in Completion
  BY <1>0, <1>1, HeadTailProperties, EmptySeq
<1>3. c \in Clients /\ e.type \in Types /\ e.n \in Nat /\ chan[c] \in Channel
  BY <1>2 DEF Completion
<1>4. DoneOut(c, e.type) /\ ~OpOut(c, e.type)
  <2>1. 1 \in 1..Len(port)
    BY <1>2
  <2>2. QED
    BY <1>2, <2>1 DEF DoneOut, OpOut, OneOut
<1>5. /\ \A d, t : DoneOut(d, t)' <=> DoneOut(d, t) /\ ~(d = c /\ t = e.type)
      /\ \A d, t : OpOut(d, t)' <=> OpOut(d, t)
  <2>1. \A i \in 1..Len(port') : i + 1 \in 1..Len(port) /\ i + 1 # 1
    BY <1>2
  <2>2. \A i \in 1..Len(port) : i = 1 \/ (i - 1 \in 1..Len(port') /\ (i - 1) + 1 = i)
    BY <1>2
  <2>3. ASSUME NEW d, NEW t, DoneOut(d, t)'
        PROVE  DoneOut(d, t) /\ ~(d = c /\ t = e.type)
    <3>1. PICK i \in 1..Len(port') : port'[i].c = d /\ port'[i].type = t
      BY <2>3 DEF DoneOut
    <3>2. port[i + 1].c = d /\ port[i + 1].type = t /\ i + 1 \in 1..Len(port) /\ i + 1 # 1
      BY <1>2, <2>1, <3>1
    <3>3. 1 \in 1..Len(port)
      BY <1>2
    <3>4. ~(d = c /\ t = e.type)
      BY <1>2, <3>2, <3>3 DEF OneOut
    <3>5. QED
      BY <3>2, <3>4 DEF DoneOut
  <2>4. ASSUME NEW d, NEW t, DoneOut(d, t), ~(d = c /\ t = e.type)
        PROVE  DoneOut(d, t)'
    <3>1. PICK i \in 1..Len(port) : port[i].c = d /\ port[i].type = t
      BY <2>4 DEF DoneOut
    <3>2. i # 1
      BY <1>2, <2>4, <3>1
    <3>3. i - 1 \in 1..Len(port') /\ port'[i - 1] = port[i]
      BY <1>2, <2>2, <3>2
    <3>4. QED
      BY <3>1, <3>3 DEF DoneOut
  <2>5. \A d, t : OpOut(d, t)' <=> OpOut(d, t)
    BY <1>1 DEF OpOut
  <2>6. QED
    BY <2>3, <2>4, <2>5
<1>6. \A d, t : Out(d, t)' <=> Out(d, t) /\ ~(d = c /\ t = e.type)
  BY <1>4, <1>5 DEF Out
<1>7. OneOut'
  <2>1. \A i \in 1..Len(port') : i + 1 \in 1..Len(port)
    BY <1>2
  <2>2. \A i, j \in 1..Len(port') : i + 1 = j + 1 => i = j
    BY <1>2
  <2>3. \A i, j \in 1..Len(port') :
          port'[i].c = port'[j].c /\ port'[i].type = port'[j].type => i = j
    <3> SUFFICES ASSUME NEW i \in 1..Len(port'), NEW j \in 1..Len(port'),
                        port'[i].c = port'[j].c, port'[i].type = port'[j].type
                 PROVE  i = j
      OBVIOUS
    <3>1. /\ i + 1 \in 1..Len(port) /\ port'[i] = port[i + 1]
          /\ j + 1 \in 1..Len(port) /\ port'[j] = port[j + 1]
      BY <1>2, <2>1
    <3>2. i + 1 = j + 1
      BY <3>1 DEF OneOut
    <3>3. QED
      BY <2>2, <3>2
  <2>4. \A o \in ops', i \in 1..Len(port') : ~(o.c = port'[i].c /\ o.type = port'[i].type)
    BY <1>1, <1>2, <2>1 DEF OneOut
  <2>5. QED
    BY <1>1, <2>3, <2>4 DEF OneOut
<1>8. /\ chan[c].life \in {"joined", "evicted", "deleted"}
      /\ chan[c].life # "deleted" => Flag(c, e.type)
  BY <1>3, <1>4 DEF Flagged, Out
<1>9. c \in Live => /\ e.type = "send" => /\ chan[c].from + e.n <= chan[c].next
                                          /\ Len(net[c].got) = chan[c].from - 1 + e.n
                    /\ chan[c].recv < Size \/ e.type = "send"
  <2>1. 1 \in 1..Len(port) /\ port[1] = e
    BY <1>2
  <2>2. QED
    BY <1>3, <1>4, <2>1 DEF SendPlace, SendAt, ReceivePlace, ReceiveAt, Types
<1>10. AnswersInOrder'
  BY <1>1 DEF AnswersInOrder
<1>11. CASE chan[c].life = "deleted"
  <2>1. UNCHANGED chan /\ pc' = "undefined"
    BY <1>0, <1>11 DEF Dispatch
  <2>2. Live' = Live /\ c \notin Live
    BY <1>11, <2>1 DEF Live, With
  <2>3. \A d, t : d # c => (DoneOut(d, t)' <=> DoneOut(d, t))
    BY <1>5
  <2>4. AtHand' /\ NewChannels'
    BY <1>1, <2>1, <2>2 DEF AtHand, NewChannels
  <2>5. Flagged'
    BY <1>6, <2>1 DEF Flagged, Flag
  <2>6. ReceivePlace'
    BY <1>1, <2>1, <2>2, <2>3 DEF ReceivePlace, ReceiveAt
  <2>7. SendPlace'
    <3> SUFFICES ASSUME NEW d \in Live PROVE SendAt(d)'
      BY <2>2 DEF SendPlace
    <3>1. \A i \in 1..Len(port') : i + 1 \in 1..Len(port) /\ port'[i] = port[i + 1]
      BY <1>2
    <3>2. QED
      BY <1>1, <2>1, <2>2, <2>3, <3>1 DEF SendPlace, SendAt
  <2>8. OneLeft'
    BY <1>6, <2>1, OneLeftKept DEF OneLeft, LeftAt
  <2>9. QED
    BY <1>1, <1>2, <1>7, <1>10, <2>1, <2>4, <2>5, <2>6, <2>7, <2>8
<1>12. CASE chan[c].life # "deleted" /\ e.n = 0
  <2>1. chan' = [chan EXCEPT ![c].life = "deleted"] /\ pc' = pc
    BY <1>0, <1>12 DEF Dispatch
  <2>2. /\ chan'[c] \in Channel /\ chan'[c].life = "deleted"
        /\ chan'[c].from = chan[c].from /\ chan'[c].next = chan[c].next
        /\ \A d \in Clients \ {c} : chan'[d] = chan[d]
    BY <1>3, <2>1 DEF Channel, Lives
  <2>3. chan' \in [Clients -> Channel]
    BY <1>3, <2>1, <2>2
  <2>4. /\ Live' = Live \ {c} /\ Live \subseteq Clients
        /\ \A d \in Live \ {c} : d \in Clients /\ d # c /\ chan'[d] = chan[d]
    BY <1>3, <2>2 DEF Live, With
  <2>5. \A d, t : d # c => (DoneOut(d, t)' <=> DoneOut(d, t))
    BY <1>5
  <2>6. AtHand' /\ NewChannels'
    BY <1>1, <1>8, <2>1, <2>2, <2>4 DEF AtHand, NewChannels
  <2>7. Flagged'
    <3> SUFFICES ASSUME NEW d \in Clients, NEW t \in Types, Out(d, t)'
                 PROVE  /\ chan'[d].life \in {"joined", "evicted", "deleted"}
                        /\ chan'[d].life # "deleted" => Flag(d, t)'
      BY DEF Flagged
    <3>1. CASE d = c
      BY <2>2, <3>1
    <3>2. CASE d # c
      BY <1>6, <2>2, <3>2 DEF Flagged, Flag
    <3>3. QED
      BY <3>1, <3>2
  <2>8. ReceivePlace'
    <3> SUFFICES ASSUME NEW d \in Live \ {c} PROVE ReceiveAt(d)'
      BY <2>4 DEF ReceivePlace
    <3>1. QED
      BY <1>1, <2>1, <2>4, <2>5 DEF ReceivePlace, ReceiveAt
  <2>9. SendPlace'
    <3> SUFFICES ASSUME NEW d \in Live \ {c} PROVE SendAt(d)'
      BY <2>4 DEF SendPlace
    <3>1. \A i \in 1..Len(port') : i + 1 \in 1..Len(port) /\ port'[i] = port[i + 1]
      BY <1>2
    <3>2. QED
      BY <1>1, <2>4, <2>5, <3>1 DEF SendPlace, SendAt
  <2>10. OneLeft'
    <3> SUFFICES ASSUME NEW d \in Clients PROVE LeftAt(d)'
      BY DEF OneLeft
    <3>1. /\ LeftAt(d) /\ chan'[d].from = chan[d].from
          /\ d # c => chan'[d].life = chan[d].life
      BY <2>2 DEF OneLeft
    <3>2. chan'[d].next = chan[d].next
      BY <2>2
    <3>3. ~Out(c, e.type)' /\ Out(c, e.type) /\ (e.type = "recv" \/ e.type = "send")
      BY <1>3, <1>4, <1>6 DEF Out, Types
    <3>4. \A t : Out(d, t)' => Out(d, t)
      BY <1>6
    <3>5. QED
      BY <1>1, <2>1, <3>1, <3>2, <3>3, <3>4 DEF LeftAt
  <2>11. QED
    BY <1>1, <1>2, <1>7, <1>10, <2>3, <2>6, <2>7, <2>8, <2>9, <2>10
<1>13. CASE chan[c].life # "deleted" /\ e.n # 0
  <2>1. /\ chan' = IF e.type = "recv"
                   THEN [chan EXCEPT ![c] = [chan[c] EXCEPT !.recvBusy = FALSE,
                                                            !.recv = @ + e.n]]
                   ELSE [chan EXCEPT ![c] = [chan[c] EXCEPT !.sendBusy = FALSE,
                                                            !.from = @ + e.n]]
        /\ pc' = pc
    BY <1>0, <1>13 DEF Dispatch
  <2>2. chan[c].recv + e.n \in Nat /\ chan[c].from + e.n \in Nat
    BY <1>3 DEF Channel
  <2>3. e.type = "recv" =>
          /\ chan'[c] \in Channel /\ chan'[c].recv = chan[c].recv + e.n
          /\ \A f \in {"life", "from", "next", "sendBusy"} : chan'[c][f] = chan[c][f]
    BY <1>3, <2>1, <2>2 DEF Channel
  <2>4. e.type # "recv" =>
          /\ chan'[c] \in Channel /\ chan'[c].from = chan[c].from + e.n
          /\ \A f \in {"life", "recv", "next", "recvBusy"} : chan'[c][f] = chan[c][f]
    BY <1>3, <2>1, <2>2 DEF Channel
  <2>5. \A d \in Clients \ {c} : chan'[d] = chan[d]
    BY <1>3, <2>1
  <2>6. chan' \in [Clients -> Channel]
    BY <1>3, <2>1, <2>3, <2>4
  <2>7. /\ \A d \in Clients : chan'[d].life = chan[d].life
        /\ Live' = Live /\ Live \subseteq Clients
    BY <1>3, <2>3, <2>4, <2>5 DEF Live, With
  <2>8. AtHand'
    BY <1>1, <2>1, <2>7 DEF AtHand
  <2>9. NewChannels'
    BY <1>1, <1>8, <2>5, <2>7 DEF NewChannels
  <2>10. Flagged'
    <3> SUFFICES ASSUME NEW d \in Clients, NEW t \in Types, Out(d, t)'
                 PROVE  /\ chan'[d].life \in {"joined", "evicted", "deleted"}
                        /\ chan'[d].life # "deleted" => Flag(d, t)'
      BY DEF Flagged
    <3>1. Out(d, t) /\ ~(d = c /\ t = e.type)
      BY <1>6
    <3>2. Flag(d, t)' = Flag(d, t)
      BY <1>3, <2>3, <2>4, <2>5, <3>1 DEF Flag, Types
    <3>3. QED
      BY <2>7, <3>1, <3>2 DEF Flagged
  <2>11. ReceivePlace'
    <3> SUFFICES ASSUME NEW d \in Live PROVE ReceiveAt(d)'
      BY <2>7 DEF ReceivePlace
    <3>1. CASE d # c \/ e.type # "recv"
      <4>1. chan'[d].recv = chan[d].recv
        BY <2>4, <2>5, <2>7, <3>1
      <4>2. QED
        BY <1>1, <1>5, <2>1, <4>1 DEF ReceivePlace, ReceiveAt
    <3>2. CASE d = c /\ e.type = "recv"
      BY <1>1, <1>4, <1>5, <2>1, <3>2 DEF ReceiveAt, OpOut
    <3>3. QED
      BY <3>1, <3>2
  <2>12. SendPlace'
    <3> SUFFICES ASSUME NEW d \in Live PROVE SendAt(d)'
      BY <2>7 DEF SendPlace
    <3>1. \A i \in 1..Len(port') : i + 1 \in 1..Len(port) /\ port'[i] = port[i + 1]
      BY <1>2
    <3>2. CASE d # c \/ e.type # "send"
      <4>1. chan'[d].from = chan[d].from /\ chan'[d].next = chan[d].next
        BY <1>3, <2>3, <2>5, <2>7, <3>2 DEF Types
      <4>2. DoneOut(d, "send")' <=> DoneOut(d, "send")
        BY <1>5, <3>2
      <4>3. QED
        BY <1>1, <3>1, <4>1, <4>2 DEF SendPlace, SendAt
    <3>3. CASE d = c /\ e.type = "send"
      <4>1. ~OpOut(c, "send")' /\ ~DoneOut(c, "send")'
        BY <1>4, <1>5, <3>3
      <4>2. /\ chan[c].from \in Nat /\ chan[c].next \in Nat /\ SendSize \in Nat
            /\ chan[c].from + e.n <= chan[c].next /\ chan[c].next <= chan[c].from + SendSize
            /\ Len(net[c].got) = chan[c].from - 1 + e.n
        BY <1>3, <1>9, <3>3, IOCPAssumption DEF SendPlace, SendAt, Channel
      <4>3. chan'[c].from = chan[c].from + e.n /\ chan'[c].next = chan[c].next /\ net' = net
        BY <1>1, <2>4, <3>3
      <4>4. /\ chan'[c].from <= chan'[c].next /\ chan'[c].next <= chan'[c].from + SendSize
            /\ Len(net'[c].got) = chan'[c].from - 1
        <5> HIDE DEF IOCPInv, IOCPTypeOK
        <5>1. QED
          BY SMTT(30), <1>3, <4>2, <4>3
      <4>5. QED
        BY <3>3, <4>1, <4>4 DEF SendAt, OpOut, DoneOut
    <3>4. QED
      BY <3>2, <3>3
  <2>13. OneLeft'
    <3>1. \A d \in Clients : chan'[d].next = chan[d].next /\ chan'[d].from >= 1
      <4> TAKE d \in Clients
      <4>1. chan[d].from >= 1 /\ chan[d].from \in Nat
        BY DEF OneLeft, LeftAt, Channel
      <4>2. chan'[d].next = chan[d].next
        BY <2>3, <2>4, <2>5
      <4>3. chan'[d].from = chan[d].from \/ chan'[d].from = chan[d].from + e.n
        BY <2>3, <2>4, <2>5
      <4>4. QED
        BY <1>3, <4>1, <4>2, <4>3
    <3>2. QED
      BY <1>1, <1>6, <2>1, <2>7, <3>1, OneLeftKept
  <2>14. QED
    BY <1>1, <1>2, <1>7, <1>10, <2>6, <2>8, <2>9, <2>10, <2>11, <2>12, <2>13
<1>14. QED
  BY <1>11, <1>12, <1>13

(* DoMessage() moves a receive buffer only when no receive is out, and     *)
(* lengthens a send buffer at its end. *)
LEMMA DoMessageKeeps ==
    ASSUME IOCPInv, DoMessage
    PROVE  IOCPInv'
<1> USE DEF IOCPInv, IOCPTypeOK
<1>1. /\ pc = "messages" /\ pc' = "loop"
      /\ UNCHANGED <<accept, bossPc, net, ops, port, todo, clientCount, answering>>
      /\ chan' = [c \in Clients |-> IF c \notin Live THEN chan[c]
                   ELSE [chan[c] EXCEPT !.recv = @ % Size, !.next = @ + Answers(c)]]
  BY DEF DoMessage
<1>2. \A c \in Live : /\ c \in Clients /\ chan[c] \in Channel /\ chan[c].life = "joined"
                      /\ chan[c].recv \in Nat /\ chan[c].from \in Nat /\ chan[c].next \in Nat
                      /\ chan[c].from <= chan[c].next /\ chan[c].next <= chan[c].from + SendSize
  BY DEF Live, With, Channel, SendPlace, SendAt
<1>3. \A c \in Live : /\ Answers(c) \in Nat /\ chan[c].next + Answers(c) <= chan[c].from + SendSize
                      /\ ~answering => Answers(c) = 0
  <2> TAKE c \in Live
  <2>1. SendSize - (chan[c].next - chan[c].from) \in Nat /\ Whole(c) \in Nat
    <3>1. /\ chan[c].recv \in Nat /\ chan[c].from \in Nat /\ chan[c].next \in Nat /\ SendSize \in Nat
          /\ chan[c].from <= chan[c].next /\ chan[c].next <= chan[c].from + SendSize
      BY <1>2, IOCPAssumption
    <3> HIDE DEF IOCPInv, IOCPTypeOK
    <3>2. QED
      BY <3>1, ModIs DEF Whole
  <2>2. Answers(c) \in Nat /\ Answers(c) <= SendSize - (chan[c].next - chan[c].from)
    <3>1. CASE answering
      BY <2>1, <3>1, MinIs DEF Answers
    <3>2. CASE ~answering
      BY <2>1, <3>2 DEF Answers
    <3>3. QED
      BY <3>1, <3>2
  <2>3. chan[c].next + Answers(c) <= chan[c].from + SendSize
    BY <1>2, <2>2, IOCPAssumption
  <2>4. QED
    BY <2>2, <2>3 DEF Answers
<1>4. \A c \in Live : chan[c].recv % Size \in 0..Size - 1 /\ chan[c].next + Answers(c) \in Nat
  <2> TAKE c \in Live
  <2>1. chan[c].recv \in Nat /\ chan[c].next \in Nat /\ Answers(c) \in Nat
    BY <1>2, <1>3
  <2> HIDE DEF IOCPInv, IOCPTypeOK
  <2>2. QED
    BY <2>1, ModIs
<1>5. \A c \in Live : /\ chan'[c] \in Channel
                      /\ chan'[c].recv = chan[c].recv % Size /\ chan'[c].next = chan[c].next + Answers(c)
                      /\ \A f \in {"life", "from", "recvBusy", "sendBusy"} : chan'[c][f] = chan[c][f]
  <2> TAKE c \in Live
  <2> DEFINE r == chan[c].recv % Size
             m == chan[c].next + Answers(c)
  <2>1. r \in Nat /\ m \in Nat
    BY <1>4, IOCPAssumption
  <2>2. chan'[c] = [chan[c] EXCEPT !.recv = r, !.next = m]
    BY <1>1, <1>2
  <2> HIDE DEF r, m
  <2>3. /\ chan'[c] \in Channel /\ chan'[c].recv = r /\ chan'[c].next = m
        /\ \A f \in {"life", "from", "recvBusy", "sendBusy"} : chan'[c][f] = chan[c][f]
    BY <1>2, <2>1, <2>2 DEF Channel
  <2>4. QED
    BY <2>3 DEF r, m
<1>6. \A c \in Clients : c \notin Live => chan'[c] = chan[c]
  BY <1>1
<1>7. chan' \in [Clients -> Channel]
  BY <1>1, <1>5, <1>6
<1>8. /\ \A c \in Clients : \A f \in {"life", "from", "recvBusy", "sendBusy"} : chan'[c][f] = chan[c][f]
      /\ Live' = Live
  BY <1>5, <1>6 DEF Live, With
<1>9. /\ \A d, t : Out(d, t)' <=> Out(d, t)
      /\ \A d, t : DoneOut(d, t)' <=> DoneOut(d, t)
  BY <1>1 DEF Out, OpOut, DoneOut
<1>10. AtHand' /\ OneOut'
  BY <1>1, <1>8 DEF AtHand, OneOut
<1>11. Flagged'
  BY <1>8, <1>9 DEF Flagged, Flag
<1>12. NewChannels'
  BY <1>1, <1>2, <1>6, <1>8 DEF NewChannels
<1>13. ReceivePlace'
  <2> SUFFICES ASSUME NEW c \in Live PROVE ReceiveAt(c)'
    BY <1>8 DEF ReceivePlace
  <2>1. chan'[c].recv < Size
    BY <1>4, <1>5, IOCPAssumption
  <2>2. \A o \in ops : o.c = c /\ o.type = "recv" => o.at = chan'[c].recv
    BY <1>2, <1>5, ModIs DEF ReceivePlace, ReceiveAt
  <2>3. QED
    BY <1>1, <2>1, <2>2 DEF ReceiveAt
<1>14. SendPlace'
  <2> SUFFICES ASSUME NEW c \in Live PROVE SendAt(c)'
    BY <1>8 DEF SendPlace
  <2>1. /\ chan'[c].from = chan[c].from /\ chan[c].next <= chan'[c].next
        /\ chan'[c].next <= chan[c].from + SendSize /\ chan'[c].next \in Nat
    BY <1>2, <1>3, <1>5
  <2>2. \A o \in ops : o.c = c /\ o.type = "send" =>
          o.at = chan[c].from /\ chan[c].from + o.len <= chan'[c].next
    <3> SUFFICES ASSUME NEW o \in ops, o.c = c, o.type = "send"
                 PROVE  o.at = chan[c].from /\ chan[c].from + o.len <= chan'[c].next
      OBVIOUS
    <3>1. o.len \in Nat /\ o.at = chan[c].from /\ chan[c].from + o.len <= chan[c].next
      BY DEF SendPlace, SendAt, Operation
    <3>2. QED
      BY <1>2, <2>1, <3>1
  <2>3. \A i \in 1..Len(port) : port[i].c = c /\ port[i].type = "send" =>
          /\ chan[c].from + port[i].n <= chan'[c].next
          /\ Len(net[c].got) = chan[c].from - 1 + port[i].n
    <3> SUFFICES ASSUME NEW i \in 1..Len(port), port[i].c = c, port[i].type = "send"
                 PROVE  /\ chan[c].from + port[i].n <= chan'[c].next
                        /\ Len(net[c].got) = chan[c].from - 1 + port[i].n
      OBVIOUS
    <3>1. /\ port[i].n \in Nat /\ chan[c].from + port[i].n <= chan[c].next
          /\ Len(net[c].got) = chan[c].from - 1 + port[i].n
      <4>1. port[i] \in Completion
        OBVIOUS
      <4>2. QED
        BY <4>1 DEF SendPlace, SendAt, Completion
    <3>2. QED
      BY <1>2, <2>1, <3>1
  <2>4. ~DoneOut(c, "send") => Len(net[c].got) = chan[c].from - 1
    BY DEF SendPlace, SendAt
  <2>5. chan[c].from <= chan'[c].next
    BY <1>2, <2>1
  <2>6. QED
    BY <1>1, <1>9, <2>1, <2>2, <2>3, <2>4, <2>5 DEF SendAt
<1>15. AnswersInOrder'
  BY <1>1 DEF AnswersInOrder
<1>16. OneLeft'
  <2>1. \A c \in Clients : /\ chan'[c].from >= 1 /\ chan'[c].from = chan[c].from
                           /\ chan'[c].life = chan[c].life
    BY <1>8 DEF OneLeft, LeftAt
  <2>2. \A c \in Clients : chan'[c].next = 1 => chan[c].next = 1
    <3> TAKE c \in Clients
    <3>1. CASE c \in Live
      <4>1. chan[c].from >= 1 /\ chan[c].from <= chan[c].next /\ chan[c].next \in Nat /\ chan[c].from \in Nat
        BY <1>2, <3>1 DEF OneLeft, LeftAt
      <4>2. Answers(c) \in Nat /\ chan'[c].next = chan[c].next + Answers(c)
        BY <1>3, <1>5, <3>1
      <4>3. QED
        BY <4>1, <4>2
    <3>2. QED
      BY <1>6, <3>1
  <2>3. QED
    BY <1>1, <1>9, <2>1, <2>2, OneLeftKept
<1>17. QED
  BY <1>1, <1>7, <1>10, <1>11, <1>12, <1>13, <1>14, <1>15, <1>16

LEMMA IOCPStep == IOCPInv /\ [Next]_vars => IOCPInv'
<1> SUFFICES ASSUME IOCPInv, [Next]_vars PROVE IOCPInv'
  OBVIOUS
<1>1. CASE LoopStep
  BY <1>1, JoinKeeps, CheckTimeKeeps, PhasesKeep, DispatchKeeps, DoMessageKeeps, PostKeeps,
     PostFailsKeeps DEF LoopStep
<1>2. CASE UNCHANGED vars
  BY <1>2, QuietSteps DEF vars, IOCPInv, IOCPTypeOK, AtHand, Live, With
<1>3. QED
  BY <1>1, <1>2, PeersKeep, CompleteKeeps, AcceptKeeps, BossKeeps, PhasesKeep DEF Next

(* The port never works on a part of a buffer that the loop has moved or   *)
(* is still to handle, and has one operation per channel and direction. *)
THEOREM OperationsInPlace == Spec => []InPlace
<1>1. IOCPInv => InPlace
  <2> SUFFICES ASSUME IOCPInv PROVE InPlace
    OBVIOUS
  <2>1. \A o \in ops : chan[o.c].life = "joined" => o.c \in Live
    BY DEF IOCPInv, IOCPTypeOK, Operation, Live, With
  <2>2. \A o \in Outstanding("recv") : o.at = chan[o.c].recv /\ chan[o.c].recv < Size
    BY <2>1 DEF IOCPInv, Outstanding, ReceivePlace, ReceiveAt
  <2>3. \A o \in Outstanding("send") : o.at = chan[o.c].from /\ o.at + o.len <= chan[o.c].next
    BY <2>1 DEF IOCPInv, Outstanding, SendPlace, SendAt
  <2>4. QED
    BY <2>2, <2>3 DEF IOCPInv, OneOut, InPlace
<1>2. QED
  BY <1>1, IOCPStart, IOCPStep, PTL DEF Spec

(* Whatever the sizes of the completions, and however answers are added to *)
(* a send buffer that the port reads, the peer gets them all, in order. *)
THEOREM AnswersOrdered == Spec => []AnswersInOrder
<1>1. IOCPInv => AnswersInOrder
  BY DEF IOCPInv
<1>2. QED
  BY <1>1, IOCPStart, IOCPStep, PTL DEF Spec

(* Whoever deletes a channel, the time check, a failed post or a           *)
(* completion, leaves at most the other direction behind, and nothing of a *)
(* channel that was never answered. *)
THEOREM OneDangles == Spec => []OneLeftBehind
<1>1. IOCPInv => OneLeftBehind
  <2> SUFFICES ASSUME IOCPInv, pc # "undefined", NEW c \in Clients, chan[c].life = "deleted"
               PROVE  Cardinality(Pointing(c)) <= (IF chan[c].next = 1 THEN 0 ELSE 1)
    BY DEF OneLeftBehind, With
  <2>1. /\ ~(Out(c, "recv") /\ Out(c, "send"))
        /\ chan[c].next = 1 => ~Out(c, "recv") /\ ~Out(c, "send")
    BY DEF IOCPInv, OneLeft, LeftAt
  <2>2. /\ \A o \in ops : o.c = c => Out(c, o.type) /\ o.type \in {"recv", "send"}
        /\ \A i \in DOMAIN port :
             port[i].c = c => Out(c, port[i].type) /\ port[i].type \in {"recv", "send"}
    <3>1. DOMAIN port = 1..Len(port) /\ \A i \in DOMAIN port : port[i] \in Completion
      BY DEF IOCPInv, IOCPTypeOK
    <3>2. \A o \in ops : o \in Operation
      BY DEF IOCPInv, IOCPTypeOK
    <3>3. QED
      BY <3>1, <3>2 DEF Out, OpOut, DoneOut, Operation, Completion, Types
  <2>3. CASE Pointing(c) = {}
    BY <2>3, FS_EmptySet
  <2>4. CASE Pointing(c) # {}
    <3>1. chan[c].next # 1
      BY <2>1, <2>2, <2>4 DEF Pointing
    <3>2. \A x, y \in Pointing(c) : x = y
      <4>1. \A o, p \in ops : o.c = c /\ p.c = c => o = p
        BY <2>1, <2>2 DEF IOCPInv, OneOut
      <4>2. \A i, j \in DOMAIN port : port[i].c = c /\ port[j].c = c => i = j
        <5>1. DOMAIN port = 1..Len(port)
          BY DEF IOCPInv, IOCPTypeOK
        <5>2. QED
          BY <2>1, <2>2, <5>1 DEF IOCPInv, OneOut
      <4>3. \A o \in ops, i \in DOMAIN port : ~(o.c = c /\ port[i].c = c)
        <5>1. DOMAIN port = 1..Len(port)
          BY DEF IOCPInv, IOCPTypeOK
        <5>2. QED
          BY <2>1, <2>2, <5>1 DEF IOCPInv, OneOut
      <4>4. QED
        BY <4>1, <4>2, <4>3 DEF Pointing
    <3>3. PICK x : Pointing(c) = {x}
      BY <2>4, <3>2
    <3>4. Cardinality(Pointing(c)) = 1
      BY <3>3, FS_Singleton
    <3>5. QED
      BY <3>1, <3>4
  <2>5. QED
    BY <2>3, <2>4
<1>2. QED
  BY <1>1, IOCPStart, IOCPStep, PTL DEF Spec

-----------------------------------------------------------------------------

(* A step that moves channels between the counted lives only leaves the    *)
(* counted channels. *)
LEMMA CountedKept ==
    ASSUME \A c \in Clients : chan'[c].life \in {"buffered", "joined", "evicted"}
                                <=> chan[c].life \in {"buffered", "joined", "evicted"}
    PROVE  Unreported' = Unreported
  BY DEF Unreported, Live, With

LEMMA CountedLess ==
    ASSUME NEW gone \in SUBSET Clients,
           \A c \in gone : chan'[c].life = "deleted",
           \A c \in Clients \ gone : chan'[c].life \in {"buffered", "joined", "evicted"}
                                <=> chan[c].life \in {"buffered", "joined", "evicted"}
    PROVE  Unreported' = Unreported \ gone
  BY DEF Unreported, Live, With

(* The count is exact but for the channel in hand, and after the test that *)
(* admits a channel there is room for it. *)
Exact ==
    /\ clientCount + Uncounted = Cardinality(Unreported)
    /\ Cardinality(Unreported) <= MaxClient
    /\ bossPc = "add" => Cardinality(Unreported) < MaxClient

CountInv == clientCount \in Int /\ (pc # "undefined" => Exact)

LEMMA CountKept ==
    ASSUME IsFiniteSet(Clients), IOCPInv, CountInv, [Next]_vars
    PROVE  CountInv'
<1>0. /\ Unreported \subseteq Clients /\ IsFiniteSet(Unreported) /\ Cardinality(Unreported) \in Nat
      /\ chan \in [Clients -> Channel] /\ \A c \in Clients : chan[c] \in Channel
      /\ clientCount \in Int /\ MaxClient \in Nat
  <2>1. Unreported \subseteq Clients
    BY DEF Unreported, Live, With
  <2>2. QED
    BY <2>1, FS_Subset, FS_CardinalityType, IOCPAssumption DEF IOCPInv, IOCPTypeOK, CountInv
<1>3. ASSUME Unreported' = Unreported, clientCount' = clientCount, bossPc' = bossPc,
             pc' # "undefined" => pc # "undefined"
      PROVE  CountInv'
  BY <1>3 DEF CountInv, Exact, Uncounted
<1>18. ASSUME NEW gone \in SUBSET Unreported, Unreported' = Unreported \ gone,
              clientCount' = clientCount - Cardinality(gone), bossPc' = bossPc, pc # "undefined"
       PROVE  CountInv'
  <2>1. /\ Cardinality(Unreported \ gone) = Cardinality(Unreported) - Cardinality(gone)
        /\ Cardinality(gone) \in Nat
    <3>1. Unreported \cap gone = gone
      OBVIOUS
    <3>2. IsFiniteSet(gone)
      BY <1>0, FS_Subset
    <3>3. QED
      BY <1>0, <3>1, <3>2, FS_Difference, FS_CardinalityType
  <2>2. Exact /\ Uncounted' = Uncounted /\ Uncounted \in {0, 1}
    BY <1>18 DEF CountInv, Uncounted
  <2>3. Exact'
    <3>1. Cardinality(Unreported') = Cardinality(Unreported) - Cardinality(gone)
      BY <1>18, <2>1
    <3>2. QED
      BY <1>0, <1>18, <2>1, <2>2, <3>1 DEF Exact
  <2>4. QED
    BY <1>0, <1>18, <2>1, <2>3 DEF CountInv
<1>4. ASSUME NEW c \in Clients,
             Connect(c) \/ PeerSend(c) \/ PeerClose(c) \/ HeartTimeout(c) \/ AcceptCompletes(c)
      PROVE  CountInv'
  <2>1. UNCHANGED <<chan, clientCount, bossPc, pc>>
    BY <1>4 DEF Connect, PeerSend, PeerClose, HeartTimeout, AcceptCompletes
  <2>2. QED
    BY <1>3, <2>1 DEF Unreported, Live, With
<1>5. ASSUME NEW op \in ops, Complete(op)
      PROVE  CountInv'
  <2>1. UNCHANGED <<chan, clientCount, bossPc, pc>>
    BY <1>5 DEF Complete
  <2>2. QED
    BY <1>3, <2>1 DEF Unreported, Live, With
<1>6. CASE Posted \/ NoEvent \/ WaitFails
  <2>1. UNCHANGED <<chan, clientCount, bossPc>> /\ pc # "undefined"
    BY <1>6 DEF Posted, NoEvent, WaitFails
  <2>2. QED
    BY <1>3, <2>1 DEF Unreported, Live, With
<1>7. CASE Admit
  <2>1. /\ UNCHANGED <<chan, clientCount, pc>> /\ bossPc = "test" /\ bossPc' = "add"
        /\ clientCount < MaxClient
    BY <1>7 DEF Admit
  <2>2. Unreported' = Unreported /\ Uncounted = 0 /\ Uncounted' = 0
    BY <2>1 DEF Unreported, Live, With, Uncounted
  <2>3. QED
    BY <1>0, <2>1, <2>2 DEF CountInv, Exact
<1>19. CASE Reject
  <2> DEFINE c == accept
  <2>1. /\ c \in Clients /\ chan[c].life = "none" /\ chan[c] \in Channel
        /\ UNCHANGED <<bossPc, clientCount, pc>>
        /\ chan' = [chan EXCEPT ![c].life = "refused"]
    BY <1>0, <1>19 DEF Reject, IOCPInv, AtHand
  <2>2. chan'[c].life = "refused" /\ \A d \in Clients \ {c} : chan'[d] = chan[d]
    BY <1>0, <2>1 DEF Channel
  <2>3. Unreported' = Unreported
    BY <2>1, <2>2, CountedKept
  <2>4. QED
    BY <1>3, <2>1, <2>3
<1>20. CASE AddClient
  <2> DEFINE c == accept
  <2>1. /\ c \in Clients /\ chan[c].life = "none" /\ chan[c] \in Channel
        /\ UNCHANGED <<clientCount, pc>> /\ bossPc = "add" /\ bossPc' = "join"
        /\ chan' = [chan EXCEPT ![c].life = "buffered"]
    BY <1>0, <1>20 DEF AddClient, IOCPInv, AtHand
  <2>2. chan'[c].life = "buffered" /\ \A d \in Clients \ {c} : chan'[d] = chan[d]
    BY <1>0, <2>1 DEF Channel
  <2>3. Unreported' = Unreported \cup {c} /\ c \notin Unreported
    BY <2>1, <2>2 DEF Unreported, Live, With
  <2>4. Cardinality(Unreported \cup {c}) = Cardinality(Unreported) + 1
    BY <1>0, <2>3, FS_AddElement
  <2>5. Uncounted = 0 /\ Uncounted' = 1
    BY <2>1 DEF Uncounted
  <2>6. QED
    BY <1>0, <2>1, <2>3, <2>4, <2>5 DEF CountInv, Exact
<1>21. CASE OnJoin
  <2>1. /\ UNCHANGED <<chan, pc>> /\ bossPc = "join" /\ bossPc' = "test"
        /\ clientCount' = clientCount + 1
    BY <1>21 DEF OnJoin
  <2>2. Unreported' = Unreported /\ Uncounted = 1 /\ Uncounted' = 0
    BY <2>1 DEF Unreported, Live, With, Uncounted
  <2>3. QED
    BY <1>0, <2>1, <2>2 DEF CountInv, Exact
<1>8. CASE Join
  <2>1. clientCount' = clientCount /\ bossPc' = bossPc /\ pc = "loop"
    BY <1>8 DEF Join
  <2>5. PICK reading \in SUBSET With("buffered") :
          chan' = [c \in Clients |-> IF c \in With("buffered")
                    THEN [chan[c] EXCEPT !.life = "joined", !.known = c \in reading,
                                         !.recvBusy = c \in reading]
                    ELSE chan[c]]
    BY <1>8, JoinShape
  <2>2. \A c \in Clients : \/ chan'[c] = chan[c]
                           \/ chan[c].life = "buffered" /\ chan'[c].life = "joined"
    BY <1>0, <2>5 DEF With, Channel
  <2>3. Unreported' = Unreported
    BY <2>2, CountedKept
  <2>4. QED
    BY <1>3, <2>1, <2>3
<1>9. CASE CheckTime
  <2>1. /\ chan' = [c \in Clients |-> IF c \notin Overdue THEN chan[c]
                       ELSE [chan[c] EXCEPT !.life = IF Busy(c) THEN "evicted" ELSE "deleted"]]
        /\ clientCount' = clientCount - Cardinality(LeavesNow) /\ pc = "check"
        /\ bossPc' = bossPc
    BY <1>9 DEF CheckTime
  <2>2. LeavesNow \subseteq Clients /\ \A c \in Overdue : c \in Clients /\ chan[c].life = "joined"
    BY DEF LeavesNow, Overdue, Live, With
  <2>3. \A c \in LeavesNow : chan'[c].life = "deleted"
    BY <1>0, <2>1, <2>2 DEF LeavesNow, Channel
  <2>4. \A c \in Clients \ LeavesNow :
          chan'[c] = chan[c] \/ (chan[c].life = "joined" /\ chan'[c].life = "evicted")
    BY <1>0, <2>1, <2>2 DEF LeavesNow, Channel
  <2>5. Unreported' = Unreported \ LeavesNow
    BY <2>2, <2>3, <2>4, CountedLess
  <2>6. LeavesNow \subseteq Unreported
    BY <2>2 DEF LeavesNow, Overdue, Unreported
  <2>8. QED
    BY <1>18, <2>1, <2>5, <2>6
<1>10. ASSUME NEW c \in Clients, Post(c)
       PROVE  CountInv'
  <2>1. /\ chan' = [chan EXCEPT ![c] = [chan[c] EXCEPT !.recvBusy = TRUE,
                                                       !.sendBusy = @ \/ PostsSend(c)]]
        /\ UNCHANGED <<clientCount, bossPc, pc>>
    BY <1>10 DEF Post
  <2>2. \A d \in Clients : chan'[d].life = chan[d].life
    BY <1>0, <2>1 DEF Channel
  <2>3. Unreported' = Unreported
    BY <2>2, CountedKept
  <2>4. QED
    BY <1>3, <2>1, <2>3
<1>11. ASSUME NEW c \in Unreported, chan' = [chan EXCEPT ![c].life = "deleted"],
              clientCount' = clientCount - 1, bossPc' = bossPc, pc' = pc, pc # "undefined"
       PROVE  CountInv'
  <2>1. chan'[c].life = "deleted" /\ \A d \in Clients \ {c} : chan'[d] = chan[d]
    BY <1>0, <1>11 DEF Channel
  <2>2. Unreported' = Unreported \ {c}
    BY <1>0, <2>1, CountedLess
  <2>3. Cardinality({c}) = 1
    BY FS_Singleton
  <2>4. QED
    BY <1>11, <1>18, <2>2, <2>3
<1>12. ASSUME NEW c \in Clients, PostRecvFails(c)
       PROVE  CountInv'
  <2>1. c \in Unreported
    BY <1>12 DEF PostRecvFails, IOCPInv, AtHand, Unreported
  <2>2. QED
    BY <1>11, <1>12, <2>1 DEF PostRecvFails
<1>13. ASSUME NEW c \in Clients, PostSendFails(c)
       PROVE  CountInv'
  <2>1. clientCount' = clientCount - 1 /\ pc' = "undefined"
    BY <1>13 DEF PostSendFails
  <2>2. QED
    BY <1>0, <2>1 DEF CountInv
<1>14. CASE Dispatch
  <2>0. PICK e : e = Head(port)
    OBVIOUS
  <2> DEFINE c == e.c
  <2>1. pc = "events" /\ port # <<>> /\ port \in Seq(Completion)
    BY <1>14 DEF Dispatch, IOCPInv, IOCPTypeOK
  <2>2. e \in Completion /\ Len(port) >= 1 /\ Len(port) \in Nat /\ e = port[1]
    BY <2>0, <2>1, HeadTailProperties, EmptySeq
  <2>3. c \in Clients /\ e.type \in Types
    BY <2>2 DEF Completion
  <2>4. chan[c].life \in {"joined", "evicted", "deleted"}
    <3>1. DoneOut(c, e.type)
      BY <2>2 DEF DoneOut
    <3>2. QED
      BY <2>3, <3>1 DEF IOCPInv, Flagged, Out
  <2>5. CASE chan[c].life = "deleted"
    <3>1. clientCount' = clientCount /\ pc' = "undefined"
      BY <1>14, <2>0, <2>5 DEF Dispatch
    <3>2. QED
      BY <1>0, <3>1 DEF CountInv
  <2>6. CASE chan[c].life # "deleted" /\ e.n = 0
    <3>1. c \in Unreported
      BY <2>3, <2>4, <2>6 DEF Unreported, Live, With
    <3>2. /\ chan' = [chan EXCEPT ![c].life = "deleted"] /\ clientCount' = clientCount - 1
          /\ pc' = pc /\ bossPc' = bossPc
      BY <1>14, <2>0, <2>6 DEF Dispatch
    <3>3. QED
      BY <1>11, <2>1, <3>1, <3>2
  <2>7. CASE chan[c].life # "deleted" /\ e.n # 0
    <3>1. /\ chan' = IF e.type = "recv"
                   THEN [chan EXCEPT ![c] = [chan[c] EXCEPT !.recvBusy = FALSE,
                                                            !.recv = @ + e.n]]
                   ELSE [chan EXCEPT ![c] = [chan[c] EXCEPT !.sendBusy = FALSE,
                                                            !.from = @ + e.n]]
          /\ UNCHANGED <<clientCount, bossPc, pc>>
      BY <1>14, <2>0, <2>7 DEF Dispatch
    <3>2. \A d \in Clients : chan'[d].life = chan[d].life
      BY <1>0, <2>3, <3>1 DEF Channel
    <3>3. Unreported' = Unreported
      BY <3>2, CountedKept
    <3>4. QED
      BY <1>3, <3>1, <3>3
  <2>8. QED
    BY <2>5, <2>6, <2>7
<1>15. CASE DoMessage
  <2>1. /\ chan' = [c \in Clients |-> IF c \notin Live THEN chan[c]
                       ELSE [chan[c] EXCEPT !.recv = @ % Size, !.next = @ + Answers(c)]]
        /\ clientCount' = clientCount /\ bossPc' = bossPc /\ pc = "messages"
    BY <1>15 DEF DoMessage
  <2>2. \A d \in Clients : chan'[d].life = chan[d].life
    BY <1>0, <2>1 DEF Channel
  <2>3. Unreported' = Unreported
    BY <2>2, CountedKept
  <2>4. QED
    BY <1>3, <2>1, <2>3
<1>16. CASE UNCHANGED vars
  BY <1>3, <1>16 DEF vars, Unreported, Live, With
<1>17. QED
  BY <1>4, <1>5, <1>6, <1>7, <1>8, <1>9, <1>10, <1>12, <1>13, <1>14, <1>15, <1>16,
     <1>19, <1>20, <1>21 DEF Next, LoopStep

(* The count that limits admission is exact but for the channel the boss   *)
(* has in hand, and its limit is kept, though the test, the hand-over and  *)
(* the count are steps of their own, and whichever of the time check, a    *)
(* failed post and a completion counts a channel out in between. *)
THEOREM IOCPCountExact ==
    ASSUME IsFiniteSet(Clients)
    PROVE  Spec => []CountAccurate
<1>1. Init => CountInv
  <2> SUFFICES ASSUME Init PROVE CountInv
    OBVIOUS
  <2>1. Unreported = {}
    BY DEF Init, Unreported, Live, With
  <2>2. QED
    BY <2>1, FS_EmptySet, IOCPAssumption DEF Init, CountInv, Exact, Uncounted
<1>2. IOCPInv /\ CountInv /\ [Next]_vars => CountInv'
  BY CountKept
<1>3. CountInv => CountAccurate
  BY DEF CountInv, Exact, CountAccurate
<1>4. QED
  BY <1>1, <1>2, <1>3, IOCPStart, IOCPStep, PTL DEF Spec

=============================================================================
