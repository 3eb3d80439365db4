------------------------- MODULE CRCWorkEpollServer -------------------------
(***************************************************************************)
(* The work servers of the engine: CRCWorkServer                           *)
(* (src/common/include/crc_work_server.hpp) with its epoll subclass        *)
(* (crc_work_epoll_server.hpp), the channels they serve (crc_channel.hpp), *)
(* and the peers and kernel objects they work against.  Each work server   *)
(* is one thread; its loop is cut into one action per access to state that *)
(* another thread touches.  CRCBossEpollServer adds the thread that        *)
(* accepts.                                                                *)
(*                                                                         *)
(* A connection c stands for its socket and for its CRCChannel object.     *)
(* Data is counted in whole messages: framing is not this module's         *)
(* subject.                                                                *)
(***************************************************************************)
EXTENDS Integers, FiniteSets

CONSTANTS
    WorkServers,  \* the work servers
    Conns,        \* connections peers may open, each once: the bound
    NoConn,       \* no channel
    MaxMsgs,      \* bound of the model: messages a peer sends
    OutCap,       \* replies the send buffer of a channel holds
    SndCap,       \* replies the kernel holds for a peer that does not read
    Env           \* what the environment does besides the usual: "close" (peers
                  \* leave), "silent" (heart beats stop), "add" (EPOLL_CTL_ADD
                  \* fails), "wait" (epoll_wait fails), "signal" (a signal
                  \* interrupts epoll_wait)

ASSUME WorkAssumption ==
    /\ NoConn \notin Conns
    /\ IsFiniteSet(Conns)
    /\ IsFiniteSet(WorkServers)
    /\ MaxMsgs \in Nat /\ OutCap \in Nat /\ SndCap \in Nat \ {0}
    /\ Env \subseteq {"close", "silent", "add", "wait", "signal"}

VARIABLES
    fd,          \* socket of c: "none", "backlog", "open", "closed"
    peer,        \* the other end of c: "none", "connected", "gone"
    inbox,       \* messages in the kernel that the server has not read
    sent,        \* messages the peer has sent
    sndbuf,      \* replies in the kernel that the peer has not read
    heap,        \* the CRCChannel of c: "none", "live", "freed"
    outbox,      \* replies in _sendBuf of c
    dead,        \* channels whose heart beat is over CLIENT_HEART_DEAD_TIME
    clientsBuf,  \* _clientsBuf of each work server
    clients,     \* _clients of each work server
    registered,  \* channels in the interest list of its epoll object
    want,        \* channels registered for EPOLLOUT as well
    wpc,         \* where each work server is in OnRun()
    events,      \* the events epoll_wait returned, not processed yet
    victim,      \* the channel being sent to or deleted
    tosend,      \* replies that the send() in progress still has to copy
    clientCount  \* _clientCount of the listener (CRCBossServer)

netVars == <<fd, peer, inbox, sent, sndbuf>>
chanVars == <<heap, outbox, dead>>
workVars == <<clientsBuf, clients, registered, want, wpc, events, victim, tosend>>
wvars == <<fd, peer, inbox, sent, sndbuf, heap, outbox, dead, clientsBuf, clients,
           registered, want, wpc, events, victim, tosend, clientCount>>

WorkInit ==
    /\ fd = [c \in Conns |-> "none"]
    /\ peer = [c \in Conns |-> "none"]
    /\ inbox = [c \in Conns |-> 0]
    /\ sent = [c \in Conns |-> 0]
    /\ sndbuf = [c \in Conns |-> 0]
    /\ heap = [c \in Conns |-> "none"]
    /\ outbox = [c \in Conns |-> 0]
    /\ dead = {}
    /\ clientsBuf = [w \in WorkServers |-> {}]
    /\ clients = [w \in WorkServers |-> {}]
    /\ registered = [w \in WorkServers |-> {}]
    /\ want = {}
    /\ wpc = [w \in WorkServers |-> "top"]
    /\ events = [w \in WorkServers |-> {}]
    /\ victim = [w \in WorkServers |-> NoConn]
    /\ tosend = [w \in WorkServers |-> 0]
    /\ clientCount = 0

Live == {c \in Conns : heap[c] = "live"}

-----------------------------------------------------------------------------

(* The peers and the clock.                                                *)

Connect(c) ==
    /\ peer[c] = "none"
    /\ peer' = [peer EXCEPT ![c] = "connected"]
    /\ fd' = [fd EXCEPT ![c] = "backlog"]
    /\ UNCHANGED <<inbox, sent, sndbuf, chanVars, workVars, clientCount>>

PeerSend(c) ==
    /\ peer[c] = "connected"
    /\ fd[c] # "closed"
    /\ sent[c] < MaxMsgs
    /\ sent' = [sent EXCEPT ![c] = @ + 1]
    /\ inbox' = [inbox EXCEPT ![c] = @ + 1]
    /\ UNCHANGED <<fd, peer, sndbuf, chanVars, workVars, clientCount>>

PeerRead(c) ==
    /\ peer[c] = "connected"
    /\ sndbuf[c] > 0
    /\ sndbuf' = [sndbuf EXCEPT ![c] = @ - 1]
    /\ UNCHANGED <<fd, peer, inbox, sent, chanVars, workVars, clientCount>>

PeerClose(c) ==
    /\ "close" \in Env
    /\ peer[c] = "connected"
    /\ peer' = [peer EXCEPT ![c] = "gone"]
    /\ UNCHANGED <<fd, inbox, sent, sndbuf, chanVars, workVars, clientCount>>

(* CLIENT_HEART_DEAD_TIME goes by without a heart beat message. *)
HeartTimeout(c) ==
    /\ "silent" \in Env
    /\ c \in Live \ dead
    /\ dead' = dead \cup {c}
    /\ UNCHANGED <<netVars, heap, outbox, workVars, clientCount>>

-----------------------------------------------------------------------------

(* The loop of OnRun(), crc_work_server.hpp 62-104.                        *)

At(w, pc) == wpc[w] = pc
Goto(w, pc) == wpc' = [wpc EXCEPT ![w] = pc]

(* if (_clientsBuf.size() > 0), read without the lock. *)
SizeCheck(w) ==
    /\ At(w, "top")
    /\ Goto(w, IF clientsBuf[w] # {} THEN "join" ELSE "empty")
    /\ UNCHANGED <<netVars, chanVars, clientsBuf, clients, registered, want, events,
                   victim, tosend, clientCount>>

(* Mutant: _clientsBuf is not cleared. *)
MutJoin(w) ==
    /\ At(w, "join")
    /\ clients' = [clients EXCEPT ![w] = @ \cup clientsBuf[w]]
    /\ registered' = [registered EXCEPT ![w] = @ \cup clientsBuf[w]]
    /\ Goto(w, "empty")
    /\ UNCHANGED <<netVars, chanVars, clientsBuf, want, events, victim, tosend, clientCount>>

(* Lines 74-82, under the lock: the new channels enter _clients and        *)
(* OnClientJoin() adds them to the epoll object, whose result is ignored.  *)
Join(w) ==
    /\ At(w, "join")
    /\ clients' = [clients EXCEPT ![w] = @ \cup clientsBuf[w]]
    /\ \E failed \in SUBSET clientsBuf[w] :
         /\ failed # {} => "add" \in Env
         /\ registered' = [registered EXCEPT ![w] = @ \cup (clientsBuf[w] \ failed)]
    /\ clientsBuf' = [clientsBuf EXCEPT ![w] = {}]
    /\ Goto(w, "empty")
    /\ UNCHANGED <<netVars, chanVars, want, events, victim, tosend, clientCount>>

(* Lines 85-90: nobody to serve, sleep and start over. *)
EmptyCheck(w) ==
    /\ At(w, "empty")
    /\ Goto(w, IF clients[w] = {} THEN "top" ELSE "check")
    /\ UNCHANGED <<netVars, chanVars, clientsBuf, clients, registered, want, events,
                   victim, tosend, clientCount>>

-----------------------------------------------------------------------------

(* OnClientLeave(), lines 160-182, called from two places: the listener's  *)
(* counter first, then the channel leaves _clients and is deleted, which   *)
(* closes its socket; the kernel drops a closed socket from the interest   *)
(* list.                                                                   *)

(* Mutant: OnLeave() is forgotten. *)
MutLeaveBegin(w, c, pc) ==
    /\ UNCHANGED clientCount
    /\ victim' = [victim EXCEPT ![w] = c]
    /\ Goto(w, pc)

LeaveBegin(w, c, pc) ==
    /\ clientCount' = clientCount - 1
    /\ victim' = [victim EXCEPT ![w] = c]
    /\ Goto(w, pc)

LeaveEnd(w, pc) ==
    LET c == victim[w] IN
    /\ clients' = [clients EXCEPT ![w] = @ \ {c}]
    /\ heap' = [heap EXCEPT ![c] = "freed"]
    /\ fd' = [fd EXCEPT ![c] = "closed"]
    /\ registered' = [registered EXCEPT ![w] = @ \ {c}]
    /\ want' = want \ {c}
    /\ outbox' = [outbox EXCEPT ![c] = 0]
    /\ dead' = dead \ {c}
    /\ victim' = [victim EXCEPT ![w] = NoConn]
    /\ Goto(w, pc)
    /\ UNCHANGED <<peer, inbox, sent, sndbuf, clientsBuf, tosend, clientCount>>

(* CheckTime(), lines 106-158: one channel without a heart beat.           *)
Evict(w) ==
    /\ At(w, "check")
    /\ \E c \in clients[w] \cap dead : LeaveBegin(w, c, "evict")
    /\ UNCHANGED <<netVars, chanVars, clientsBuf, clients, registered, want, events,
                   tosend>>

(* OnClientLeave(iter) erases the entry and then reads the channel from    *)
(* the entry it erased (lines 167-169).  If no thread got that memory from *)
(* the pool in between, the pointer is still there. *)
EvictEnd(w) ==
    /\ At(w, "evict")
    /\ LeaveEnd(w, "check")
    /\ UNCHANGED events

(* Otherwise what is deleted is undefined: the thread stops here. *)
EvictUndefined(w) ==
    /\ At(w, "evict")
    /\ Goto(w, "undefined")
    /\ UNCHANGED <<netVars, chanVars, clientsBuf, clients, registered, want, events,
                   victim, tosend, clientCount>>

(* Mutant: the heart beat is not checked. *)
MutCheckDone(w) ==
    /\ At(w, "check")
    /\ Goto(w, "mod")
    /\ UNCHANGED <<netVars, chanVars, clientsBuf, clients, registered, want, events,
                   victim, tosend, clientCount>>

CheckDone(w) ==
    /\ At(w, "check")
    /\ clients[w] \cap dead = {}
    /\ Goto(w, "mod")
    /\ UNCHANGED <<netVars, chanVars, clientsBuf, clients, registered, want, events,
                   victim, tosend, clientCount>>

-----------------------------------------------------------------------------

(* DoAction(), crc_work_epoll_server.hpp 27-106.                           *)

NeedWrite(S) == {c \in S : outbox[c] > 0}

(* Mutant: EPOLLOUT is never asked for. *)
MutModify(w) ==
    /\ At(w, "mod")
    /\ Goto(w, "wait")
    /\ UNCHANGED <<netVars, chanVars, clientsBuf, clients, registered, want, events,
                   victim, tosend, clientCount>>

(* Lines 31-52: every client is registered again for what it needs. *)
Modify(w) ==
    /\ At(w, "mod")
    /\ clients[w] # {}
    /\ clients[w] \subseteq registered[w]
    /\ want' = (want \ clients[w]) \cup NeedWrite(clients[w])
    /\ Goto(w, "wait")
    /\ UNCHANGED <<netVars, chanVars, clientsBuf, clients, registered, events, victim,
                   tosend, clientCount>>

(* Mutant: the failure ends the thread. *)
MutModifyFails(w) ==
    /\ At(w, "mod")
    /\ ~(clients[w] \subseteq registered[w])
    /\ Goto(w, "exit")
    /\ UNCHANGED <<netVars, chanVars, clientsBuf, clients, registered, want, events,
                   victim, tosend, clientCount>>

(* A channel that is not registered makes EPOLL_CTL_MOD fail: the loop     *)
(* stops there, wherever the map has it, and DoAction() returns 0.         *)
ModifyFails(w) ==
    /\ At(w, "mod")
    /\ ~(clients[w] \subseteq registered[w])
    /\ \E before \in SUBSET (clients[w] \cap registered[w]) :
         want' = (want \ before) \cup NeedWrite(before)
    /\ Goto(w, "top")
    /\ UNCHANGED <<netVars, chanVars, clientsBuf, clients, registered, events, victim,
                   tosend, clientCount>>

(* CheckTime() evicted everybody: err was never written. *)
ModifyNobody(w) ==
    /\ At(w, "mod")
    /\ clients[w] = {}
    /\ \E pc \in {"top", "wait"} : Goto(w, pc)
    /\ UNCHANGED <<netVars, chanVars, clientsBuf, clients, registered, want, events,
                   victim, tosend, clientCount>>

Readable(c) == inbox[c] > 0 \/ peer[c] = "gone"
Writable(c) == sndbuf[c] < SndCap \/ peer[c] = "gone"

Ready(w) ==
    {e \in [chan : registered[w], in : BOOLEAN, out : BOOLEAN] :
        /\ e.in = Readable(e.chan)
        /\ e.out = (e.chan \in want /\ Writable(e.chan))
        /\ e.in \/ e.out}

(* Lines 59-69: epoll_wait(1). *)
Wait(w) ==
    /\ At(w, "wait")
    /\ events' = [events EXCEPT ![w] = Ready(w)]
    /\ Goto(w, IF Ready(w) = {} THEN "top" ELSE "events")
    /\ UNCHANGED <<netVars, chanVars, clientsBuf, clients, registered, want, victim,
                   tosend, clientCount>>

(* epoll_wait() fails: DoAction() returns a negative value and OnRun()     *)
(* breaks out of its loop, crc_work_server.hpp 95-99.                      *)
WaitFails(w) ==
    /\ At(w, "wait")
    /\ "wait" \in Env
    /\ Goto(w, "exit")
    /\ UNCHANGED <<netVars, chanVars, clientsBuf, clients, registered, want, events,
                   victim, tosend, clientCount>>

(* A signal interrupts epoll_wait(): CRCEpoll::wait() returns 0, as if     *)
(* nothing had happened (crc_epoll.hpp 94-97). *)
WaitInterrupted(w) ==
    /\ At(w, "wait")
    /\ "signal" \in Env
    /\ Goto(w, "top")
    /\ UNCHANGED <<netVars, chanVars, clientsBuf, clients, registered, want, events,
                   victim, tosend, clientCount>>

(* CRCBuffer::push() takes a reply whole or not at all (crc_buffer.hpp     *)
(* 39-77): of r replies, those that fit behind the n waiting.              *)
Pushed(n, r) == IF n + r <= OutCap THEN n + r ELSE OutCap

(* How many whole messages one recv() may bring for the loop over          *)
(* HasMessage() and front_message().                                       *)
Taken(c) == 1..inbox[c]

(* One event with EPOLLIN: RecvData() reads some of the messages, the      *)
(* handler answers some of them, as far as the send buffer has room, and a *)
(* heart beat message resets the timer.                                    *)
EventIn(w) ==
    /\ At(w, "events")
    /\ \E e \in events[w] :
         /\ e.in
         /\ inbox[e.chan] > 0
         /\ \E k \in Taken(e.chan) : \E r \in 0..k :
              /\ inbox' = [inbox EXCEPT ![e.chan] = @ - k]
              /\ outbox' = [outbox EXCEPT ![e.chan] = Pushed(@, r)]
              /\ \/ UNCHANGED dead
                 \/ r > 0 /\ dead' = dead \ {e.chan}
         /\ events' = [events EXCEPT ![w] = (@ \ {e}) \cup
                         IF e.out THEN {[e EXCEPT !.in = FALSE]} ELSE {}]
    /\ UNCHANGED <<fd, peer, sent, sndbuf, heap, clientsBuf, clients, registered, want,
                   wpc, victim, tosend, clientCount>>

(* Mutants: a peer that is gone is taken for one with nothing to say;      *)
(* after OnClientLeave() the event goes on to EPOLLOUT.                    *)
MutEofIgnored(w) ==
    /\ At(w, "events")
    /\ \E e \in events[w] :
         /\ e.in
         /\ inbox[e.chan] = 0
         /\ events' = [events EXCEPT ![w] = @ \ {e}]
    /\ UNCHANGED <<netVars, chanVars, clientsBuf, clients, registered, want, wpc, victim,
                   tosend, clientCount>>

MutEventEof(w) ==
    /\ At(w, "events")
    /\ \E e \in events[w] :
         /\ e.in
         /\ inbox[e.chan] = 0
         /\ events' = [events EXCEPT ![w] = (@ \ {e}) \cup
                         IF e.out THEN {[e EXCEPT !.in = FALSE]} ELSE {}]
         /\ LeaveBegin(w, e.chan, "drop")
    /\ UNCHANGED <<netVars, chanVars, clientsBuf, clients, registered, want, tosend>>

(* The peer is gone: recv() returns 0 or -1, RecvData() returns -1. *)
EventEof(w) ==
    /\ At(w, "events")
    /\ \E e \in events[w] :
         /\ e.in
         /\ inbox[e.chan] = 0
         /\ events' = [events EXCEPT ![w] = @ \ {e}]
         /\ LeaveBegin(w, e.chan, "drop")
    /\ UNCHANGED <<netVars, chanVars, clientsBuf, clients, registered, want, tosend>>

DropEnd(w) ==
    /\ At(w, "drop")
    /\ LeaveEnd(w, "events")
    /\ UNCHANGED events

(* One event with EPOLLOUT: SendDataIM() hands the whole send buffer to    *)
(* one send() on a blocking socket.                                        *)
EventOut(w) ==
    /\ At(w, "events")
    /\ \E e \in events[w] :
         /\ ~e.in
         /\ events' = [events EXCEPT ![w] = @ \ {e}]
         /\ victim' = [victim EXCEPT ![w] = e.chan]
         /\ tosend' = [tosend EXCEPT ![w] = outbox[e.chan]]
    /\ Goto(w, "send")
    /\ UNCHANGED <<netVars, chanVars, clientsBuf, clients, registered, want, clientCount>>

(* send() copies as the peer makes room; what it copies for a peer that    *)
(* has just gone is lost.                                                  *)
SendCopy(w) ==
    /\ At(w, "send")
    /\ tosend[w] > 0
    /\ \/ /\ peer[victim[w]] = "connected"
          /\ sndbuf[victim[w]] < SndCap
          /\ sndbuf' = [sndbuf EXCEPT ![victim[w]] = @ + 1]
       \/ /\ peer[victim[w]] = "gone"
          /\ UNCHANGED sndbuf
    /\ tosend' = [tosend EXCEPT ![w] = @ - 1]
    /\ UNCHANGED <<fd, peer, inbox, sent, chanVars, clientsBuf, clients, registered,
                   want, wpc, events, victim, clientCount>>

(* send() has copied everything and returns; write2socket() empties the    *)
(* buffer (crc_buffer.hpp 94-109). *)
SendDone(w) ==
    /\ At(w, "send")
    /\ tosend[w] = 0
    /\ outbox' = [outbox EXCEPT ![victim[w]] = 0]
    /\ victim' = [victim EXCEPT ![w] = NoConn]
    /\ Goto(w, "events")
    /\ UNCHANGED <<netVars, heap, dead, clientsBuf, clients, registered, want, events,
                   tosend, clientCount>>

(* The peer is gone: send() returns -1, the channel leaves. *)
SendFails(w) ==
    /\ At(w, "send")
    /\ tosend[w] > 0
    /\ peer[victim[w]] = "gone"
    /\ tosend' = [tosend EXCEPT ![w] = 0]
    /\ outbox' = [outbox EXCEPT ![victim[w]] = 0]
    /\ LeaveBegin(w, victim[w], "drop")
    /\ UNCHANGED <<netVars, heap, dead, clientsBuf, clients, registered, want, events>>

(* The batch is done: DoAction() returns 1. *)
BatchDone(w) ==
    /\ At(w, "events")
    /\ events[w] = {}
    /\ Goto(w, "top")
    /\ UNCHANGED <<netVars, chanVars, clientsBuf, clients, registered, want, events,
                   victim, tosend, clientCount>>

-----------------------------------------------------------------------------

WorkStep(w) ==
    \/ SizeCheck(w) \/ Join(w) \/ EmptyCheck(w)
    \/ Evict(w) \/ EvictEnd(w) \/ CheckDone(w)
    \/ Modify(w) \/ ModifyFails(w) \/ ModifyNobody(w) \/ Wait(w)
    \/ EventIn(w) \/ EventEof(w) \/ EventOut(w) \/ DropEnd(w)
    \/ SendCopy(w) \/ SendDone(w) \/ SendFails(w) \/ BatchDone(w)

(* What may happen to a work server but need not. *)
WorkFault(w) == WaitFails(w) \/ WaitInterrupted(w) \/ EvictUndefined(w)

PeerStep(c) ==
    Connect(c) \/ PeerSend(c) \/ PeerRead(c) \/ PeerClose(c) \/ HeartTimeout(c)
=============================================================================
