---------------------------- MODULE LegacyServer ----------------------------
(***************************************************************************)
(* The first version of the server (src/TestServer): a boss that accepts   *)
(* and deals connections out, work servers with a thread and a select()    *)
(* loop each, and channels that come from an object pool and are shared    *)
(* through shared_ptr.  Replies leave a channel only in full blocks.       *)
(*                                                                         *)
(* A channel is a connection; sizes are in units of which BlockSize make a *)
(* block.  A message is answered or not by its kind (ReplySize).  Sockets  *)
(* are blocking: a send to a peer that is there is complete.               *)
(***************************************************************************)
EXTENDS Integers, Sequences, FiniteSets, SequencesExt

CONSTANTS
    WorkServers, Channels,
    PoolNodes,   \* the nodes of the object pool
    BlockSize,   \* SEND_BUFFER_SIZE
    RecvRoom,    \* RECV_BUFFER_SIZE: whole messages it has room for, however long they are
    ReplySize,   \* of each kind of message: the length of the reply
    Heart,       \* the kind that resets the countdown
    DeadTime,    \* CLIENT_HEART_DEAD_TIME, in ticks of the clock
    Ticks,       \* what the clock may advance during a pass of the loop
    MaxSaid      \* bound: messages of all peers

Heap == "heap"   \* a node made by new beyond the pool
NoNode == "none"

ASSUME LegacyAssumption ==
    /\ BlockSize \in Nat \ {0} /\ RecvRoom \in Nat \ {0}
    /\ \A kind \in DOMAIN ReplySize : ReplySize[kind] \in Nat
    /\ Ticks \subseteq Nat
ASSUME NodesAssumption == Heap \notin PoolNodes /\ NoNode \notin PoolNodes

VARIABLES
    peer,      \* "none", "open", "closed"
    backlog,   \* connections that were not accepted
    said,      \* all a peer sent: kinds of messages
    inbox,     \* what of it was not received
    heard,     \* the messages handled
    sendBuf,   \* _szSendBuffer up to _lastSendPos
    wire,      \* what the peer was sent
    idle,      \* _dtHeart
    dealing,   \* boss: <<>> or <<step, channel>>
    bossSock,  \* _sock of the boss: "none", "new", "bound", "listening", "closed"
    count,     \* _clientCount
    node,      \* where the memory of the channel is
    chain,     \* the free nodes of the pool
    buffer,    \* _clientsBuf of each work server
    clients,   \* _clients
    at,        \* where its thread is
    watched,   \* _fd_read_bak
    changed,   \* _clients_change
    readable,  \* what select() found and is not read yet
    temp,      \* channels to erase after the scan
    members,   \* history: joined and not reported by OnLeave()
    due        \* history: channels whose heart beat was at the front at select()

peerVars == <<peer, backlog, said>>
talkVars == <<inbox, heard, sendBuf, wire>>
bossVarsL == <<dealing, bossSock>>
countVars == <<count, members>>
workVarsL == <<buffer, clients, at, watched, changed, readable, temp, due>>
poolVars == <<node, chain>>
legacyVars == <<peer, backlog, said, inbox, heard, sendBuf, wire, idle, dealing, bossSock, count,
                node, chain, buffer, clients, at, watched, changed, readable, temp,
                members, due>>

LegacyInit ==
    /\ peer = [c \in Channels |-> "none"] /\ backlog = {}
    /\ said = [c \in Channels |-> <<>>] /\ inbox = said /\ heard = said
    /\ sendBuf = said /\ wire = said
    /\ idle = [c \in Channels |-> 0]
    /\ dealing = <<>> /\ bossSock = "none" /\ count = 0
    /\ node = [c \in Channels |-> NoNode] /\ chain = PoolNodes
    /\ buffer = [w \in WorkServers |-> {}] /\ clients = buffer /\ watched = buffer
    /\ readable = buffer /\ temp = buffer
    /\ at = [w \in WorkServers |-> "take"]
    /\ changed = [w \in WorkServers |-> TRUE]
    /\ members = {} /\ due = buffer

-----------------------------------------------------------------------------
(* The peers. *)

PeerConnect(c) ==
    /\ peer[c] = "none" /\ bossSock = "listening"
    /\ peer' = [peer EXCEPT ![c] = "open"]
    /\ backlog' = backlog \cup {c}
    /\ UNCHANGED <<said, talkVars, idle, bossVarsL, countVars, poolVars, workVarsL>>

PeerSays(c, kind) ==
    /\ peer[c] = "open"
    /\ Cardinality({m \in Channels \X (1..MaxSaid) : m[2] <= Len(said[m[1]])}) < MaxSaid
    /\ said' = [said EXCEPT ![c] = Append(@, kind)]
    /\ inbox' = [inbox EXCEPT ![c] = Append(@, kind)]
    /\ UNCHANGED <<peer, backlog, heard, sendBuf, wire, idle, bossVarsL, countVars, poolVars, workVarsL>>

PeerLeaves(c) ==
    /\ peer[c] = "open"
    /\ peer' = [peer EXCEPT ![c] = "closed"]
    /\ UNCHANGED <<backlog, said, talkVars, idle, bossVarsL, countVars, poolVars, workVarsL>>

-----------------------------------------------------------------------------
(* The object pool behind new and delete of a channel. *)

Alloc(c) ==
    \E n \in IF chain = {} THEN {Heap} ELSE chain :
      node' = [node EXCEPT ![c] = n] /\ chain' = chain \ {n}

(* Who holds a shared_ptr to the channel. *)
Holders(c) ==
    {w \in WorkServers : c \in buffer[w] \cup clients[w] \cup temp[w]}
      \cup (IF dealing # <<>> /\ dealing[2] = c THEN {"boss"} ELSE {})

(* Mutant: a channel is deleted by the work server that drops it. *)
MutReleased == {c \in Channels : Holders(c) \ {"boss"} # {} /\ Holders(c)' \ {"boss"} = {}}

Released == {c \in Channels : Holders(c) # {} /\ Holders(c)' = {}}

(* The last holder deletes the channel, and its node goes back. *)
Release ==
    /\ chain' = chain \cup ({node[c] : c \in Released} \cap PoolNodes)
    /\ node' = [c \in Channels |-> IF c \in Released THEN NoNode ELSE node[c]]

-----------------------------------------------------------------------------
(* The boss thread. *)

(* main() calls InitSocket(), Bind() and Listen() and looks at none of the  *)
(* results; Bind() and Listen() close the socket when they fail.  Bind()    *)
(* tries InitSocket() again, and without a socket everything fails.        *)
BossInitSocket ==
    /\ bossSock = "none"
    /\ bossSock' \in {"new", "closed"}
    /\ UNCHANGED <<peerVars, talkVars, idle, dealing, countVars, poolVars, workVarsL>>

BossBind ==
    /\ bossSock = "new"
    /\ bossSock' \in {"bound", "closed"}
    /\ UNCHANGED <<peerVars, talkVars, idle, dealing, countVars, poolVars, workVarsL>>

BossListen ==
    /\ bossSock = "bound"
    /\ bossSock' \in {"listening", "closed"}
    /\ UNCHANGED <<peerVars, talkVars, idle, dealing, countVars, poolVars, workVarsL>>

(* Accept(): a new channel, held by a local shared_ptr until it returns. *)
BossAccepts(c) ==
    /\ dealing = <<>> /\ bossSock = "listening" /\ c \in backlog
    /\ backlog' = backlog \ {c}
    /\ Alloc(c)
    /\ dealing' = <<"add", c>>
    /\ UNCHANGED <<peer, said, talkVars, idle, bossSock, countVars, workVarsL>>

(* addClient2WorkServer() reads the sizes without a lock: any server may   *)
(* be found least loaded. *)
BossAdds(w) ==
    /\ dealing # <<>> /\ dealing[1] = "add"
    /\ buffer' = [buffer EXCEPT ![w] = @ \cup {dealing[2]}]
    /\ members' = members \cup {dealing[2]}
    /\ dealing' = <<"join", dealing[2]>>
    /\ UNCHANGED <<peerVars, talkVars, idle, bossSock, count, poolVars, clients, at,
                   watched, changed, readable, temp, due>>

(* OnJoin(), which the work server may have overtaken. *)
BossJoins ==
    /\ dealing # <<>> /\ dealing[1] = "join"
    /\ count' = count + 1
    /\ dealing' = <<"return", dealing[2]>>
    /\ UNCHANGED <<peerVars, talkVars, idle, bossSock, members, poolVars, workVarsL>>

BossReturns ==
    /\ dealing # <<>> /\ dealing[1] = "return"
    /\ dealing' = <<>>
    /\ UNCHANGED <<peerVars, talkVars, idle, bossSock, countVars, workVarsL>>
    /\ Release

(* select() fails, or main calls Close() after "exit". *)
BossCloses ==
    /\ dealing = <<>> /\ bossSock = "listening"
    /\ bossSock' = "closed"
    /\ UNCHANGED <<peerVars, talkVars, idle, dealing, countVars, poolVars, workVarsL>>

-----------------------------------------------------------------------------
(* A work server: OnRun(). *)

Goto(w, there) == at' = [at EXCEPT ![w] = there]

(* Mutant: _clients_change stays as it is. *)
MutTakes(w) == changed[w]

Takes(w) == changed[w] \/ buffer[w] # {}

(* _clientsBuf goes to _clients; without clients the loop starts again. *)
TakeBuffered(w) ==
    /\ at[w] = "take" /\ buffer[w] \cup clients[w] # {}
    /\ clients' = [clients EXCEPT ![w] = @ \cup buffer[w]]
    /\ buffer' = [buffer EXCEPT ![w] = {}]
    /\ changed' = [changed EXCEPT ![w] = Takes(w)]
    /\ Goto(w, "select")
    /\ UNCHANGED <<peerVars, talkVars, idle, bossVarsL, countVars, poolVars, watched,
                   readable, temp, due>>

(* One of the first n messages that were not received is a heart beat. *)
HeartAmong(c, n) == \E i \in DOMAIN inbox[c] : i <= n /\ inbox[c][i] = Heart

(* select() waits for a microsecond. *)
Select(w) ==
    /\ at[w] = "select"
    /\ LET set == IF changed[w] THEN clients[w] ELSE watched[w]
       IN  /\ watched' = [watched EXCEPT ![w] = set]
           /\ readable' = [readable EXCEPT ![w] =
                            {c \in set : inbox[c] # <<>> \/ peer[c] = "closed"} \cap clients[w]]
    /\ due' = [due EXCEPT ![w] = {c \in clients[w] : HeartAmong(c, RecvRoom)}]
    /\ changed' = [changed EXCEPT ![w] = FALSE]
    /\ Goto(w, "read")
    /\ UNCHANGED <<peerVars, talkVars, idle, bossVarsL, countVars, poolVars, buffer,
                   clients, temp>>

(* Close(): the client sockets and the socket of the boss are closed, the  *)
(* channels dropped; nobody calls OnLeave(). *)
SelectFails(w) ==
    /\ at[w] = "select"
    /\ clients' = [clients EXCEPT ![w] = {}]
    /\ bossSock' = "closed"
    /\ Goto(w, "stopped")
    /\ UNCHANGED <<peerVars, talkVars, idle, dealing, countVars, buffer, watched, changed,
                   readable, temp, due>>
    /\ Release

Reply(c, i) == [u \in 1..ReplySize[said[c][i]] |-> <<i, u>>]

(* Mutant: the position of the send buffer is not reset after a block. *)
MutRest(all, sent) == all

Rest(all, sent) == SubSeq(all, sent + 1, Len(all))

(* SendData() for all replies: full blocks are sent, the rest is kept.  A  *)
(* send to a peer that left may fail: then the rest of the reply is lost.  *)
Answer(c, replies) ==
    LET all == sendBuf[c] \o replies
        sent == BlockSize * (Len(all) \div BlockSize)
    IN  \/ /\ wire' = [wire EXCEPT ![c] = @ \o SubSeq(all, 1, sent)]
           /\ sendBuf' = [sendBuf EXCEPT ![c] = Rest(all, sent)]
        \/ /\ peer[c] = "closed" /\ sent > 0
           /\ \E lost \in 0..(Len(all) - sent) :
                sendBuf' = [sendBuf EXCEPT ![c] = SubSeq(all, sent + lost + 1, Len(all))]
           /\ UNCHANGED wire

(* What one recv() completes: all that is there, or no less than the       *)
(* messages the buffer has room for; more of them when they are short. *)
RecvBrings(c) == {n \in 1..Len(inbox[c]) : n >= RecvRoom \/ n = Len(inbox[c])}

(* RecvData(): one recv(), and every message that is whole then. *)
ReadMessages(w, c) ==
    /\ at[w] = "read" /\ c \in readable[w]
    /\ \E n \in RecvBrings(c) :
         /\ LET first == Len(heard[c]) + 1
            IN  Answer(c, FlattenSeq([i \in 1..n |-> Reply(c, first + i - 1)]))
         /\ heard' = [heard EXCEPT ![c] = @ \o SubSeq(inbox[c], 1, n)]
         /\ inbox' = [inbox EXCEPT ![c] = SubSeq(@, n + 1, Len(@))]
         /\ idle' = [idle EXCEPT ![c] = IF HeartAmong(c, n) THEN 0 ELSE @]
    /\ readable' = [readable EXCEPT ![w] = @ \ {c}]
    /\ UNCHANGED <<peerVars, bossVarsL, countVars, poolVars, buffer, clients, at, watched,
                   changed, temp, due>>

(* recv() returns 0, or fails on a connection that was reset: OnLeave()    *)
(* now, the channel is erased after the scan.                              *)
ReadEnd(w, c) ==
    /\ at[w] = "read" /\ c \in readable[w] /\ peer[c] = "closed"
    /\ temp' = [temp EXCEPT ![w] = @ \cup {c}]
    /\ changed' = [changed EXCEPT ![w] = TRUE]
    /\ count' = count - 1 /\ members' = members \ {c}
    /\ readable' = [readable EXCEPT ![w] = @ \ {c}]
    /\ UNCHANGED <<peerVars, talkVars, idle, bossVarsL, poolVars, buffer, clients, at,
                   watched, due>>

(* Mutant: a channel that left stays among the clients. *)
MutErased(w) == {}

Erased(w) == temp[w]

ReadDone(w) ==
    /\ at[w] = "read" /\ readable[w] = {}
    /\ clients' = [clients EXCEPT ![w] = @ \ Erased(w)]
    /\ temp' = [temp EXCEPT ![w] = {}]
    /\ Goto(w, "check")
    /\ UNCHANGED <<peerVars, talkVars, idle, bossVarsL, countVars, buffer, watched, changed,
                   readable, due>>
    /\ Release

(* CheckTime(): a channel without a heart beat for too long leaves. *)
CheckAlive(w, dt) ==
    LET dead == {c \in clients[w] : idle[c] + dt > DeadTime}
    IN  /\ at[w] = "check"
        /\ idle' = [c \in Channels |-> IF c \in clients[w] THEN idle[c] + dt ELSE idle[c]]
        /\ clients' = [clients EXCEPT ![w] = @ \ dead]
        /\ changed' = [changed EXCEPT ![w] = @ \/ dead # {}]
        /\ count' = count - Cardinality(dead) /\ members' = members \ dead
        /\ Goto(w, "take")
        /\ UNCHANGED <<peerVars, talkVars, bossVarsL, buffer, watched, readable, temp, due>>
        /\ Release

-----------------------------------------------------------------------------

LegacyNext ==
    \/ \E c \in Channels :
         \/ PeerConnect(c) \/ PeerLeaves(c) \/ BossAccepts(c)
         \/ \E kind \in DOMAIN ReplySize : PeerSays(c, kind)
    \/ BossInitSocket \/ BossBind \/ BossListen \/ BossJoins \/ BossReturns \/ BossCloses
    \/ \E w \in WorkServers :
         \/ BossAdds(w) \/ TakeBuffered(w) \/ Select(w) \/ SelectFails(w) \/ ReadDone(w)
         \/ \E c \in Channels : ReadMessages(w, c) \/ ReadEnd(w, c)
         \/ \E dt \in Ticks : CheckAlive(w, dt)

LegacySpec == LegacyInit /\ [][LegacyNext]_legacyVars

-----------------------------------------------------------------------------

(* _clientCount is the number of channels that were dealt out and not      *)
(* reported, but for the one the boss has not counted yet: each channel is *)
(* reported once, also if it leaves before the boss counts it. *)
CountMatches ==
    count + (IF dealing # <<>> /\ dealing[1] = "join" THEN 1 ELSE 0) = Cardinality(members)

(* A peer that is there receives the replies to its messages, whole and in *)
(* order, but for what waits in the send buffer for a full block. *)
RepliesIntact ==
    \A c \in Channels :
      peer[c] = "open" =>
        wire[c] \o sendBuf[c] = FlattenSeq([i \in 1..Len(heard[c]) |-> Reply(c, i)])

(* A heart beat that was there when select() looked, with no more before   *)
(* it than a receive buffer has room for, counts before the same pass      *)
(* checks the time: no client is missing in the set it looks at.  (One     *)
(* behind a longer backlog waits for a later pass.) *)
HeartSeen ==
    \A w \in WorkServers :
      at[w] = "check" => \A c \in due[w] \cap clients[w] : idle[c] = 0

(* A node of the pool is free or belongs to one channel somebody holds. *)
NodeOwned ==
    /\ \A c \in Channels : node[c] \in chain \cup {NoNode} <=> Holders(c) = {}
    /\ \A n \in PoolNodes \ chain : Cardinality({c \in Channels : node[c] = n}) = 1
=============================================================================
