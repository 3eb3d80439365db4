------------------------- MODULE CRCBossEpollServer -------------------------
(***************************************************************************)
(* CRCBossServer (src/common/include/crc_boss_server.hpp) with its epoll   *)
(* subclass (crc_boss_epoll_server.hpp): the one thread that accepts       *)
(* connections and deals them out to the work servers of                   *)
(* CRCWorkEpollServer, running beside them.                                *)
(*                                                                         *)
(*   bpc     where the boss is in OnRun() and Accept()                     *)
(*   cur     the connection it has accepted                                *)
(*   best    pMinWorkServer                                                *)
(*   toScan  the work servers the scan has not compared yet                *)
(*   reads   the sizes read so far for the comparison in progress          *)
(***************************************************************************)
EXTENDS CRCWorkEpollServer, Sequences, TLC

CONSTANTS
    MaxClient,   \* _maxClient
    First        \* _workServers[0]

ASSUME BossAssumption == MaxClient \in Nat /\ First \in WorkServers

VARIABLES bpc, cur, best, toScan, reads

bossVars == <<bpc, cur, best, toScan, reads>>
vars == <<wvars, bossVars>>

Init ==
    /\ WorkInit
    /\ bpc = "loop"
    /\ cur = NoConn
    /\ best = First
    /\ toScan = {}
    /\ reads = <<>>

-----------------------------------------------------------------------------

(* OnRun(), crc_boss_epoll_server.hpp 27-55, and accept(): lines 148-156   *)
(* of crc_boss_server.hpp.                                                 *)
AcceptSocket(c) ==
    /\ bpc = "loop"
    /\ fd[c] = "backlog"
    /\ fd' = [fd EXCEPT ![c] = "open"]
    /\ cur' = c
    /\ bpc' = "accepted"
    /\ UNCHANGED <<peer, inbox, sent, sndbuf, chanVars, workVars, clientCount, best,
                   toScan, reads>>

(* if (_clientCount < _maxClient): the channel is made and the scan of     *)
(* addClient2WorkServer() begins, lines 158-163 and 199.                   *)
Admit ==
    /\ bpc = "accepted"
    /\ clientCount < MaxClient
    /\ heap' = [heap EXCEPT ![cur] = "live"]
    /\ bpc' = "scan"
    /\ best' = First
    /\ toScan' = WorkServers \ {First}
    /\ UNCHANGED <<netVars, outbox, dead, workVars, clientCount, cur, reads>>

(* Mutant: an off-by-one in the other direction. *)
MutRefuse ==
    /\ bpc = "accepted"
    /\ clientCount + 1 >= MaxClient
    /\ fd' = [fd EXCEPT ![cur] = "closed"]
    /\ cur' = NoConn
    /\ bpc' = "loop"
    /\ UNCHANGED <<peer, inbox, sent, sndbuf, chanVars, workVars, clientCount, best,
                   toScan, reads>>

(* else: destory_socket(), lines 167-171. *)
Refuse ==
    /\ bpc = "accepted"
    /\ clientCount >= MaxClient
    /\ fd' = [fd EXCEPT ![cur] = "closed"]
    /\ cur' = NoConn
    /\ bpc' = "loop"
    /\ UNCHANGED <<peer, inbox, sent, sndbuf, chanVars, workVars, clientCount, best,
                   toScan, reads>>

(* getClientCount() reads two sizes without a lock.  One comparison of     *)
(* lines 200-205 reads _clients and _clientsBuf of the best so far, then   *)
(* those of the next work server: four reads between which the work        *)
(* servers run.                                                            *)
Scanned == CHOOSE w \in toScan : TRUE

ReadSize ==
    /\ bpc = "scan"
    /\ toScan # {}
    /\ Len(reads) < 4
    /\ reads' = Append(reads,
                  CASE Len(reads) = 0 -> Cardinality(clients[best])
                    [] Len(reads) = 1 -> Cardinality(clientsBuf[best])
                    [] Len(reads) = 2 -> Cardinality(clients[Scanned])
                    [] Len(reads) = 3 -> Cardinality(clientsBuf[Scanned]))
    /\ UNCHANGED <<wvars, bpc, cur, best, toScan>>

Compare ==
    /\ bpc = "scan"
    /\ Len(reads) = 4
    /\ best' = IF reads[1] + reads[2] > reads[3] + reads[4] THEN Scanned ELSE best
    /\ toScan' = toScan \ {Scanned}
    /\ reads' = <<>>
    /\ UNCHANGED <<wvars, bpc, cur>>

(* addClient(), line 206, under the lock of the work server. *)
AddClient ==
    /\ bpc = "scan"
    /\ toScan = {}
    /\ clientsBuf' = [clientsBuf EXCEPT ![best] = @ \cup {cur}]
    /\ bpc' = "onjoin"
    /\ best' = First
    /\ UNCHANGED <<netVars, chanVars, clients, registered, want, wpc, events, victim,
                   tosend, clientCount, cur, toScan, reads>>

(* OnJoin(), line 207: after the channel was handed over. *)
OnJoin ==
    /\ bpc = "onjoin"
    /\ clientCount' = clientCount + 1
    /\ cur' = NoConn
    /\ bpc' = "loop"
    /\ UNCHANGED <<netVars, chanVars, workVars, best, toScan, reads>>

-----------------------------------------------------------------------------

BossStep ==
    \/ \E c \in Conns : AcceptSocket(c)
    \/ Admit \/ Refuse \/ ReadSize \/ Compare \/ AddClient \/ OnJoin

Next ==
    \/ BossStep
    \/ \E w \in WorkServers : (WorkStep(w) \/ WorkFault(w)) /\ UNCHANGED bossVars
    \/ \E c \in Conns : PeerStep(c) /\ UNCHANGED bossVars

(* Connections are interchangeable. *)
ConnSymmetry == Permutations(Conns)

(* Every server thread is scheduled.  Nothing obliges a peer. *)
ThreadsFairness ==
    /\ WF_vars(BossStep)
    /\ \A w \in WorkServers : WF_vars(WorkStep(w) /\ UNCHANGED bossVars)

Spec == Init /\ [][Next]_vars /\ ThreadsFairness

(* Assumptions of their own: the peers read what they are sent ...         *)
PeersRead == \A c \in Conns : WF_vars(PeerRead(c) /\ UNCHANGED bossVars)

(* A channel that is served but not registered: nobody reads what its peer *)
(* sends, so nothing resets its heart beat.                                *)
Unheard(c) == \E w \in WorkServers : c \in clients[w] \ registered[w]

(* ... and time goes by for such a channel. *)
ClockGoesOn ==
    \A c \in Conns : WF_vars(Unheard(c) /\ HeartTimeout(c) /\ UNCHANGED bossVars)

-----------------------------------------------------------------------------

NetTypeOK ==
    /\ fd \in [Conns -> {"none", "backlog", "open", "closed"}]
    /\ peer \in [Conns -> {"none", "connected", "gone"}]
    /\ sent \in [Conns -> 0..MaxMsgs]
    /\ inbox \in [Conns -> 0..MaxMsgs]
    /\ \A c \in Conns : inbox[c] <= sent[c]
    /\ sndbuf \in [Conns -> 0..SndCap]

ChanTypeOK ==
    /\ heap \in [Conns -> {"none", "live", "freed"}]
    /\ outbox \in [Conns -> 0..OutCap]
    /\ dead \subseteq Conns

WorkTypeOK ==
    /\ clientsBuf \in [WorkServers -> SUBSET Conns]
    /\ clients \in [WorkServers -> SUBSET Conns]
    /\ registered \in [WorkServers -> SUBSET Conns]
    /\ want \subseteq Conns
    /\ wpc \in [WorkServers -> {"top", "join", "empty", "check", "evict", "mod", "wait",
                                "events", "drop", "send", "exit", "undefined"}]
    /\ events \in
         [WorkServers -> SUBSET [chan : Conns, in : BOOLEAN, out : BOOLEAN]]
    /\ victim \in [WorkServers -> Conns \cup {NoConn}]
    /\ tosend \in [WorkServers -> 0..OutCap]

BossTypeOK ==
    /\ clientCount \in Int
    /\ bpc \in {"loop", "accepted", "scan", "onjoin"}
    /\ cur \in IF bpc = "loop" THEN {NoConn} ELSE Conns
    /\ best \in WorkServers
    /\ toScan \subseteq WorkServers
    /\ reads \in Seq(Nat)
    /\ reads # <<>> => bpc = "scan" /\ toScan # {}

TypeOK == NetTypeOK /\ ChanTypeOK /\ WorkTypeOK /\ BossTypeOK

(* Work servers between OnLeave() and the deletion of the channel, which   *)
(* one whose thread stopped there never reaches.                           *)
Leaving == {w \in WorkServers : wpc[w] \in {"evict", "drop", "undefined"}}

(* The channels that exist and that nobody has begun to delete. *)
Open == Live \ {victim[w] : w \in Leaving}

(* Channels made by Accept() and not counted by OnJoin() yet: at most one. *)
Uncounted == IF bpc \in {"scan", "onjoin"} THEN 1 ELSE 0

(* _clientCount is exact: it differs from the number of open channels only *)
(* by the one that the boss has not counted in yet.  A work server may     *)
(* count a channel out before the boss counts it in, so the counter itself *)
(* may be -1 for a while.                                                  *)
CountAccurate == clientCount = Cardinality(Open) - Uncounted

(* The limit holds although the boss tests _clientCount first and counts   *)
(* the channel in only after it has handed it over, while work servers     *)
(* count others out.                                                       *)
WithinLimit == Cardinality(Open) <= MaxClient

(* Seen from outside: a connection is admitted exactly when fewer than     *)
(* _maxClient are served, and refused exactly when that many are.          *)
Refused == {c \in Conns : fd[c] = "closed" /\ heap[c] = "none"}

AdmissionControl == INSTANCE Admission WITH open <- Open, refused <- Refused

ImplementsAdmission == AdmissionControl!Spec

(* The channel between Admit and AddClient belongs to the boss. *)
BossHolds == IF bpc = "scan" THEN {cur} ELSE {}

(* Every channel that exists has exactly one owner: the boss, the buffer   *)
(* of one work server or the map of one work server.  None is lost when    *)
(* the buffer is moved, none is served by two threads or after deletion.   *)
OneOwner ==
    /\ Live = BossHolds \cup UNION {clientsBuf[w] \cup clients[w] : w \in WorkServers}
    /\ \A w \in WorkServers :
         /\ clientsBuf[w] \cap clients[w] = {}
         /\ BossHolds \cap (clientsBuf[w] \cup clients[w]) = {}
         /\ \A v \in WorkServers \ {w} :
              (clientsBuf[v] \cup clients[v]) \cap (clientsBuf[w] \cup clients[w]) = {}

(* A pointer that epoll_wait returned, or that is being sent to, is a      *)
(* channel of this work server that still exists and is not the one being  *)
(* deleted.                                                                *)
NoStaleEvent ==
    \A w \in WorkServers :
        /\ \A e \in events[w] :
             e.chan \in clients[w] /\ (w \in Leaving => e.chan # victim[w])
        /\ wpc[w] = "send" \/ w \in Leaving => victim[w] \in clients[w]

(* While no EPOLL_CTL_ADD fails, a work server listens to exactly the      *)
(* channels it serves.                                                     *)
ListensToClients == \A w \in WorkServers : registered[w] = clients[w]

-----------------------------------------------------------------------------

Gone(c) == heap[c] = "freed"

(* An eviction had an undefined outcome: nothing is promised any more. *)
Undefined == \E w \in WorkServers : wpc[w] = "undefined"

(* A message that reaches an accepted connection is read, or the           *)
(* connection ends.                                                        *)
MessagesRead ==
    \A c \in Conns : (inbox[c] > 0 /\ c \in Live) ~> (inbox[c] = 0 \/ Gone(c) \/ Undefined)

(* What a send buffer holds leaves it, whether or not a later reply still  *)
(* fits behind it, or the connection ends (crc_buffer.hpp:56).             *)
RepliesSent == \A c \in Conns : outbox[c] > 0 ~> (outbox[c] = 0 \/ Gone(c) \/ Undefined)

(* A connection whose peer is gone is deleted and its socket closed. *)
DeadPeersReaped ==
    \A c \in Conns : (peer[c] = "gone" /\ c \in Live) ~> (Gone(c) \/ Undefined)

(* A client whose heart beat is over sends one or is removed, unless the   *)
(* removal of a client deletes what it reads from an entry that is not     *)
(* there any more (crc_work_server.hpp:169).                               *)
SilentRemoved == \A c \in Conns : c \in dead ~> (c \notin dead \/ Undefined)
=============================================================================
