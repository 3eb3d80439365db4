--------------------------- MODULE CRCBossProofs ----------------------------
(***************************************************************************)
(* The safety of the boss and its work servers, for any numbers of work    *)
(* servers and connections, any limit and any faults of the environment.   *)
(*                                                                         *)
(* Two layers on top of type correctness. Structure says who owns which    *)
(* channel: ownership (Owners) is inductive only together with what a      *)
(* work server holds in its hands between two accesses (Hands) and with    *)
(* the order in which sockets and channels come to life (Sockets). On      *)
(* top of it, every step changes the set of open channels in one of four   *)
(* ways, and the exactness of _clientCount and the limit follow from       *)
(* these four alone, as does the refinement of Admission.                  *)
(***************************************************************************)
EXTENDS CRCBossEpollServer, FiniteSetTheorems, TLAPS

LEMMA ConstTypes ==
    /\ MaxMsgs \in Nat /\ OutCap \in Nat /\ SndCap \in Nat \ {0}
    /\ IsFiniteSet(Conns) /\ NoConn \notin Conns
    /\ MaxClient \in Nat /\ First \in WorkServers
  BY WorkAssumption, BossAssumption

LEMMA SizeType == ASSUME NEW S, S \subseteq Conns PROVE Cardinality(S) \in Nat
  BY ConstTypes, FS_Subset, FS_CardinalityType

LEMMA BelowFour == ASSUME NEW s \in Seq(Nat), Len(s) < 4
                   PROVE  Len(s) \in {0, 1, 2, 3}
<1>1. Len(s) \in Nat
  OBVIOUS
<1>2. \A n \in Nat : n < 4 => n \in {0, 1, 2, 3}
  OBVIOUS
<1>3. QED
  BY <1>1, <1>2

LEMMA NotEmpty == ASSUME NEW s, s = <<>> PROVE Len(s) # 4
  OBVIOUS

USE DEF netVars, chanVars, workVars, wvars, bossVars, vars, At, Goto

LEMMA InitType == Init => TypeOK
<1> SUFFICES ASSUME Init PROVE TypeOK
  OBVIOUS
<1>1. NetTypeOK
  BY ConstTypes DEF Init, WorkInit, NetTypeOK
<1>2. ChanTypeOK
  BY ConstTypes DEF Init, WorkInit, ChanTypeOK
<1>3. WorkTypeOK
  BY ConstTypes DEF Init, WorkInit, WorkTypeOK
<1>4. BossTypeOK
  BY ConstTypes DEF Init, WorkInit, BossTypeOK
<1>5. QED
  BY <1>1, <1>2, <1>3, <1>4 DEF TypeOK

LEMMA NetStep ==
  ASSUME NEW c \in Conns, NetTypeOK, PeerStep(c) PROVE NetTypeOK'
<1> USE ConstTypes DEF NetTypeOK
<1>1. CASE Connect(c)
  BY <1>1 DEF Connect
<1>2. CASE PeerSend(c)
  BY <1>2 DEF PeerSend
<1>3. CASE PeerRead(c)
  BY <1>3 DEF PeerRead
<1>4. CASE PeerClose(c)
  BY <1>4 DEF PeerClose
<1>5. CASE HeartTimeout(c)
  BY <1>5 DEF HeartTimeout
<1>6. QED
  BY <1>1, <1>2, <1>3, <1>4, <1>5 DEF PeerStep

(* The three groups that a work server disturbs. *)
LEMMA WorkStepNet ==
  ASSUME NEW w \in WorkServers, TypeOK, WorkStep(w) \/ WorkFault(w)
  PROVE  NetTypeOK'
<1> USE ConstTypes DEF TypeOK, NetTypeOK
<1>1. CASE EvictEnd(w) \/ DropEnd(w)
  BY <1>1 DEF EvictEnd, DropEnd, LeaveEnd, WorkTypeOK
<1>2. CASE EventIn(w)
  <2>1. PICK e \in events[w] : \E k \in 1..inbox[e.chan] :
              inbox' = [inbox EXCEPT ![e.chan] = @ - k]
    BY <1>2 DEF EventIn, Taken
  <2>2. e.chan \in Conns
    BY <2>1 DEF WorkTypeOK
  <2>3. QED
    BY <1>2, <2>1, <2>2 DEF EventIn
<1>3. CASE SendCopy(w)
  BY <1>3 DEF SendCopy, WorkTypeOK
<1>4. CASE SizeCheck(w) \/ Join(w) \/ EmptyCheck(w) \/ Evict(w) \/ CheckDone(w)
           \/ Modify(w) \/ ModifyFails(w) \/ ModifyNobody(w) \/ Wait(w) \/ WaitFails(w)
           \/ WaitInterrupted(w) \/ EvictUndefined(w)
           \/ EventEof(w) \/ EventOut(w) \/ SendDone(w) \/ SendFails(w) \/ BatchDone(w)
  BY <1>4 DEF SizeCheck, Join, EmptyCheck, Evict, CheckDone, Modify, ModifyFails,
              ModifyNobody, Wait, WaitFails, WaitInterrupted, EvictUndefined, EventEof,
              EventOut, SendDone, SendFails,
              BatchDone
<1>5. QED
  BY <1>1, <1>2, <1>3, <1>4 DEF WorkStep, WorkFault

LEMMA WorkStepChan ==
  ASSUME NEW w \in WorkServers, TypeOK, WorkStep(w) \/ WorkFault(w)
  PROVE  ChanTypeOK'
<1> USE ConstTypes DEF TypeOK, ChanTypeOK
<1>1. CASE EvictEnd(w) \/ DropEnd(w)
  BY <1>1 DEF EvictEnd, DropEnd, LeaveEnd, WorkTypeOK
<1>2. CASE EventIn(w)
  <2>1. PICK e \in events[w] : \E k \in 1..inbox[e.chan] : \E r \in 0..k :
              /\ outbox' = [outbox EXCEPT ![e.chan] = Pushed(@, r)]
              /\ dead' \subseteq dead
    BY <1>2 DEF EventIn, Taken
  <2>2. e.chan \in Conns /\ inbox[e.chan] \in Nat
    BY <2>1 DEF WorkTypeOK, NetTypeOK
  <2>3. \A r \in Nat : Pushed(outbox[e.chan], r) \in 0..OutCap
    BY <2>2 DEF Pushed
  <2>4. PICK k \in 1..inbox[e.chan] : \E r \in 0..k :
              outbox' = [outbox EXCEPT ![e.chan] = Pushed(@, r)]
    BY <2>1
  <2>5. outbox' \in [Conns -> 0..OutCap]
    BY <2>2, <2>3, <2>4
  <2>6. QED
    BY <1>2, <2>1, <2>5 DEF EventIn
<1>3. CASE SendDone(w) \/ SendFails(w)
  BY <1>3 DEF SendDone, SendFails, WorkTypeOK
<1>4. CASE SizeCheck(w) \/ Join(w) \/ EmptyCheck(w) \/ Evict(w) \/ CheckDone(w)
           \/ Modify(w) \/ ModifyFails(w) \/ ModifyNobody(w) \/ Wait(w) \/ WaitFails(w)
           \/ WaitInterrupted(w) \/ EvictUndefined(w)
           \/ EventEof(w) \/ EventOut(w) \/ SendCopy(w) \/ BatchDone(w)
  BY <1>4 DEF SizeCheck, Join, EmptyCheck, Evict, CheckDone, Modify, ModifyFails,
              ModifyNobody, Wait, WaitFails, WaitInterrupted, EvictUndefined, EventEof,
              EventOut, SendCopy, BatchDone
<1>5. QED
  BY <1>1, <1>2, <1>3, <1>4 DEF WorkStep, WorkFault

LEMMA WorkStepWork ==
  ASSUME NEW w \in WorkServers, TypeOK, WorkStep(w) \/ WorkFault(w)
  PROVE  WorkTypeOK'
<1> USE ConstTypes DEF TypeOK, WorkTypeOK
<1>1. CASE SizeCheck(w) \/ EmptyCheck(w) \/ CheckDone(w) \/ ModifyNobody(w)
           \/ WaitFails(w) \/ WaitInterrupted(w) \/ EvictUndefined(w) \/ BatchDone(w)
  BY <1>1 DEF SizeCheck, EmptyCheck, CheckDone, ModifyNobody, WaitFails, WaitInterrupted,
              EvictUndefined, BatchDone
<1>2. CASE Join(w)
  BY <1>2 DEF Join
<1>3. CASE Evict(w)
  BY <1>3 DEF Evict, LeaveBegin
<1>4. CASE EvictEnd(w) \/ DropEnd(w)
  BY <1>4 DEF EvictEnd, DropEnd, LeaveEnd
<1>5. CASE Modify(w) \/ ModifyFails(w)
  BY <1>5 DEF Modify, ModifyFails, NeedWrite
<1>6. CASE Wait(w)
  <2>1. Ready(w) \subseteq [chan : Conns, in : BOOLEAN, out : BOOLEAN]
    BY DEF Ready
  <2>2. QED
    BY <1>6, <2>1 DEF Wait
<1>7. CASE EventIn(w)
  <2>1. PICK e \in events[w] :
          events' = [events EXCEPT ![w] = (@ \ {e}) \cup
                      IF e.out THEN {[e EXCEPT !.in = FALSE]} ELSE {}]
    BY <1>7 DEF EventIn
  <2>2. [e EXCEPT !.in = FALSE] \in [chan : Conns, in : BOOLEAN, out : BOOLEAN]
    <3>1. e \in [chan : Conns, in : BOOLEAN, out : BOOLEAN]
      BY <2>1
    <3>2. QED
      BY ONLY <3>1
  <2>3. QED
    BY <1>7, <2>1, <2>2 DEF EventIn
<1>8. CASE EventEof(w)
  <2>1. PICK e \in events[w] : /\ events' = [events EXCEPT ![w] = @ \ {e}]
                               /\ LeaveBegin(w, e.chan, "drop")
    BY <1>8 DEF EventEof
  <2>2. e.chan \in Conns
    BY <2>1
  <2>3. QED
    BY <1>8, <2>1, <2>2 DEF EventEof, LeaveBegin
<1>9. CASE EventOut(w)
  <2>1. PICK e \in events[w] : /\ events' = [events EXCEPT ![w] = @ \ {e}]
                               /\ victim' = [victim EXCEPT ![w] = e.chan]
                               /\ tosend' = [tosend EXCEPT ![w] = outbox[e.chan]]
    BY <1>9 DEF EventOut
  <2>2. e.chan \in Conns /\ outbox[e.chan] \in 0..OutCap
    BY <2>1 DEF ChanTypeOK
  <2>3. QED
    BY <1>9, <2>1, <2>2 DEF EventOut
<1>10. CASE SendCopy(w) \/ SendDone(w) \/ SendFails(w)
  BY <1>10 DEF SendCopy, SendDone, SendFails, LeaveBegin
<1>11. QED
  BY <1>1, <1>2, <1>3, <1>4, <1>5, <1>6, <1>7, <1>8, <1>9, <1>10 DEF WorkStep, WorkFault

LEMMA BossStepType ==
  ASSUME TypeOK, BossStep
  PROVE  TypeOK'
<1> USE ConstTypes DEF TypeOK, NetTypeOK, ChanTypeOK, WorkTypeOK, BossTypeOK
<1>1. ASSUME NEW c \in Conns, AcceptSocket(c) PROVE TypeOK'
  BY <1>1 DEF AcceptSocket
<1>2. CASE Admit
  BY <1>2 DEF Admit
<1>3. CASE Refuse
  BY <1>3 DEF Refuse
<1>4. CASE ReadSize
  <2>1. \A S : S \subseteq Conns => Cardinality(S) \in Nat
    BY SizeType
  <2>2. Scanned \in WorkServers
    BY <1>4 DEF ReadSize, Scanned
  <2>3. /\ Cardinality(clients[best]) \in Nat
        /\ Cardinality(clientsBuf[best]) \in Nat
        /\ Cardinality(clients[Scanned]) \in Nat
        /\ Cardinality(clientsBuf[Scanned]) \in Nat
    BY <2>1, <2>2
  <2>4. Len(reads) \in {0, 1, 2, 3}
    BY <1>4, BelowFour DEF ReadSize
  <2>5. PICK n \in Nat : reads' = Append(reads, n)
    BY <1>4, <2>3, <2>4 DEF ReadSize
  <2>6. reads' \in Seq(Nat)
    <3>1. reads \in Seq(Nat)
      OBVIOUS
    <3>2. QED
      BY ONLY <2>5, <3>1
  <2>7. QED
    BY <1>4, <2>6 DEF ReadSize
<1>5. CASE Compare
  <2>1. reads # <<>>
    BY <1>5, NotEmpty DEF Compare
  <2>2. Scanned \in toScan
    BY <2>1 DEF Scanned
  <2>3. best' \in {best, Scanned} /\ toScan' = toScan \ {Scanned} /\ reads' = <<>>
        /\ UNCHANGED <<wvars, bpc, cur>>
    BY <1>5 DEF Compare
  <2>4. NetTypeOK' /\ ChanTypeOK' /\ WorkTypeOK'
    BY <2>3
  <2>5. BossTypeOK'
    BY ONLY BossTypeOK, <2>2, <2>3 DEF BossTypeOK
  <2>6. QED
    BY <2>4, <2>5
<1>6. CASE AddClient
  BY <1>6 DEF AddClient
<1>7. CASE OnJoin
  <2>1. UNCHANGED <<netVars, chanVars, workVars, best, toScan, reads>>
    BY <1>7 DEF OnJoin
  <2>2. clientCount' = clientCount + 1 /\ cur' = NoConn /\ bpc' = "loop"
    BY <1>7 DEF OnJoin
  <2>3. bpc = "onjoin"
    BY <1>7 DEF OnJoin
  <2>4. NetTypeOK' /\ ChanTypeOK' /\ WorkTypeOK'
    BY <2>1
  <2>5. BossTypeOK'
    BY ONLY BossTypeOK, <2>1, <2>2, <2>3 DEF BossTypeOK
  <2>6. QED
    BY <2>4, <2>5
<1>8. QED
  BY <1>1, <1>2, <1>3, <1>4, <1>5, <1>6, <1>7 DEF BossStep

LEMMA NextType == TypeOK /\ [Next]_vars => TypeOK'
<1> SUFFICES ASSUME TypeOK, [Next]_vars
             PROVE  TypeOK'
  OBVIOUS
<1>1. CASE BossStep
  BY <1>1, BossStepType
<1>2. ASSUME NEW w \in WorkServers, WorkStep(w) \/ WorkFault(w), UNCHANGED bossVars
      PROVE  TypeOK'
  <2>1. NetTypeOK' /\ ChanTypeOK' /\ WorkTypeOK'
    BY <1>2, WorkStepNet, WorkStepChan, WorkStepWork
  <2>2. clientCount' \in Int
    BY <1>2 DEF TypeOK, BossTypeOK, WorkStep, WorkFault, SizeCheck, Join, EmptyCheck,
                Evict, EvictEnd,
                CheckDone, Modify, ModifyFails, ModifyNobody, Wait, WaitFails,
                WaitInterrupted, EvictUndefined, EventIn,
                EventEof, EventOut, DropEnd, SendCopy, SendDone, SendFails, BatchDone,
                LeaveBegin, LeaveEnd
  <2>3. QED
    BY <1>2, <2>1, <2>2 DEF TypeOK, BossTypeOK
<1>3. ASSUME NEW c \in Conns, PeerStep(c), UNCHANGED bossVars
      PROVE  TypeOK'
  <2>1. NetTypeOK'
    BY <1>3, NetStep DEF TypeOK
  <2>2. ChanTypeOK' /\ WorkTypeOK' /\ UNCHANGED clientCount
    BY <1>3 DEF TypeOK, ChanTypeOK, WorkTypeOK, PeerStep, Connect, PeerSend, PeerRead,
                PeerClose, HeartTimeout, Live
  <2>3. QED
    BY <1>3, <2>1, <2>2 DEF TypeOK, BossTypeOK
<1>4. CASE UNCHANGED vars
  BY <1>4 DEF TypeOK, NetTypeOK, ChanTypeOK, WorkTypeOK, BossTypeOK
<1>5. QED
  BY <1>1, <1>2, <1>3, <1>4 DEF Next

(* Every variable of the boss, the work servers and the channels keeps its *)
(* type: no buffer overflows and the scan never runs out of work servers.  *)
THEOREM BossTypeCorrect == Spec => []TypeOK
  BY InitType, NextType, PTL DEF Spec

-----------------------------------------------------------------------------

(* Structure: who owns which channel. *)

(* Sockets come to life before channels. *)
Sockets ==
    /\ \A c \in Conns : peer[c] = "none" => fd[c] = "none"
    /\ \A c \in Conns : fd[c] \in {"none", "backlog"} => heap[c] = "none"
    /\ bpc = "accepted" => heap[cur] = "none" /\ fd[cur] = "open"

(* OneOwner, channel by channel. *)
Owners ==
    /\ \A c \in Conns : heap[c] = "live" <=>
         \/ c \in BossHolds
         \/ \E w \in WorkServers : c \in clientsBuf[w] \cup clients[w]
    /\ \A c \in BossHolds : \A w \in WorkServers : c \notin clientsBuf[w] \cup clients[w]
    /\ \A w \in WorkServers : clientsBuf[w] \cap clients[w] = {}
    /\ \A v, w \in WorkServers :
         v # w => (clientsBuf[v] \cup clients[v]) \cap (clientsBuf[w] \cup clients[w]) = {}

(* What a work server holds in its hands while it works through a batch. *)
Hands(w) ==
    /\ registered[w] \subseteq clients[w]
    /\ events[w] # {} => wpc[w] \in {"events", "drop", "send"}
    /\ \A e \in events[w] : e.chan \in clients[w]
    /\ \A e, f \in events[w] : e.chan = f.chan => e = f
    /\ wpc[w] \in {"evict", "drop", "undefined", "send"} =>
         victim[w] \in clients[w] /\ \A e \in events[w] : e.chan # victim[w]

Structure ==
    /\ TypeOK
    /\ Sockets
    /\ Owners
    /\ \A w \in WorkServers : Hands(w)

LEMMA InitStructure == Init => Structure
<1> SUFFICES ASSUME Init PROVE Structure
  OBVIOUS
<1>1. TypeOK
  BY InitType
<1>2. Sockets
  BY DEF Init, WorkInit, Sockets
<1>3. Owners
  BY DEF Init, WorkInit, Owners, BossHolds
<1>4. \A w \in WorkServers : Hands(w)
  BY DEF Init, WorkInit, Hands
<1>5. QED
  BY <1>1, <1>2, <1>3, <1>4 DEF Structure

LEMMA NextSockets == Structure /\ [Next]_vars => Sockets'
<1> SUFFICES ASSUME Structure, [Next]_vars
             PROVE  Sockets'
  OBVIOUS
<1> USE DEF Structure, TypeOK, Sockets, NetTypeOK, ChanTypeOK
<1>1. ASSUME NEW c \in Conns, PeerStep(c), UNCHANGED bossVars
      PROVE  Sockets'
  BY ZenonT(30), <1>1 DEF PeerStep, Connect, PeerSend, PeerRead, PeerClose, HeartTimeout,
                          BossTypeOK
<1>2. ASSUME NEW w \in WorkServers, WorkStep(w) \/ WorkFault(w), UNCHANGED bossVars
      PROVE  Sockets'
  <2>1. CASE EvictEnd(w) \/ DropEnd(w)
    <3>1. heap[victim[w]] = "live" /\ victim[w] \in Conns
      BY <2>1 DEF EvictEnd, DropEnd, Owners, Hands, WorkTypeOK
    <3>2. /\ heap' = [heap EXCEPT ![victim[w]] = "freed"]
          /\ fd' = [fd EXCEPT ![victim[w]] = "closed"]
          /\ UNCHANGED <<peer, bpc, cur>>
      BY <1>2, <2>1 DEF EvictEnd, DropEnd, LeaveEnd
    <3>3. bpc = "accepted" => cur \in Conns
      BY DEF BossTypeOK
    <3>4. QED
      BY <3>1, <3>2, <3>3
  <2>2. CASE ~(EvictEnd(w) \/ DropEnd(w))
    <3>1. UNCHANGED <<peer, fd, heap>>
      BY <1>2, <2>2 DEF WorkStep, WorkFault, SizeCheck, Join, EmptyCheck, Evict,
                CheckDone, Modify, ModifyFails, ModifyNobody, Wait, WaitFails,
                WaitInterrupted, EvictUndefined, EventIn,
                EventEof, EventOut, SendCopy, SendDone, SendFails, BatchDone
    <3>2. QED
      BY <1>2, <3>1
  <2>3. QED
    BY <2>1, <2>2
<1>3. CASE BossStep
  <2>1. ASSUME NEW c \in Conns, AcceptSocket(c)
        PROVE  Sockets'
    BY <2>1 DEF AcceptSocket
  <2>2. CASE Admit
    BY <2>2 DEF Admit, BossTypeOK
  <2>3. CASE Refuse
    BY <2>3 DEF Refuse, BossTypeOK
  <2>4. CASE ReadSize \/ Compare \/ AddClient \/ OnJoin
    BY <2>4 DEF ReadSize, Compare, AddClient, OnJoin
  <2>5. QED
    BY <1>3, <2>1, <2>2, <2>3, <2>4 DEF BossStep
<1>4. CASE UNCHANGED vars
  BY <1>4
<1>5. QED
  BY <1>1, <1>2, <1>3, <1>4 DEF Next

LEMMA NextOwners == Structure /\ [Next]_vars => Owners'
<1> SUFFICES ASSUME Structure, [Next]_vars
             PROVE  Owners'
  OBVIOUS
<1> USE DEF Structure, TypeOK, ChanTypeOK, WorkTypeOK, Owners
<1>1. CASE UNCHANGED <<heap, clientsBuf, clients>> /\ BossHolds' = BossHolds
  BY <1>1
<1>2. ASSUME NEW w \in WorkServers, Join(w), UNCHANGED bossVars
      PROVE  Owners'
  BY <1>2 DEF Join, BossHolds
<1>3. ASSUME NEW w \in WorkServers, EvictEnd(w) \/ DropEnd(w), UNCHANGED bossVars
      PROVE  Owners'
  <2>1. victim[w] \in clients[w] /\ victim[w] \in Conns
    BY <1>3 DEF EvictEnd, DropEnd, Hands
  <2>2. /\ heap' = [heap EXCEPT ![victim[w]] = "freed"]
        /\ clients' = [clients EXCEPT ![w] = @ \ {victim[w]}]
        /\ UNCHANGED clientsBuf
        /\ BossHolds' = BossHolds
    BY <1>3 DEF EvictEnd, DropEnd, LeaveEnd, BossHolds
  <2>3. \A v \in WorkServers : victim[w] \notin clientsBuf[v]
    BY <2>1
  <2>4. \A v \in WorkServers : victim[w] \in clients[v] => v = w
    BY <2>1
  <2>5. BossHolds \subseteq Conns /\ victim[w] \notin BossHolds
    BY <2>1 DEF BossHolds, BossTypeOK
  <2>6. \A c \in Conns : heap'[c] = "live" <=> heap[c] = "live" /\ c # victim[w]
    BY <2>2
  <2>7. \A v \in WorkServers : clients'[v] = clients[v] \ {victim[w]}
    BY <2>2, <2>4
  <2>8. QED
    BY <2>2, <2>3, <2>5, <2>6, <2>7
<1>4. CASE Admit
  BY ZenonT(30), <1>4 DEF Admit, BossHolds, Sockets, BossTypeOK
<1>5. CASE AddClient
  BY <1>5 DEF AddClient, BossHolds, BossTypeOK
<1>6. ASSUME NEW w \in WorkServers, WorkStep(w) \/ WorkFault(w), UNCHANGED bossVars,
             ~(Join(w) \/ EvictEnd(w) \/ DropEnd(w))
      PROVE  UNCHANGED <<heap, clientsBuf, clients>> /\ BossHolds' = BossHolds
  BY <1>6 DEF WorkStep, WorkFault, SizeCheck, EmptyCheck, Evict, CheckDone, Modify, ModifyFails,
              ModifyNobody, Wait, WaitFails, WaitInterrupted, EvictUndefined, EventIn,
              EventEof, EventOut, SendCopy,
              SendDone, SendFails, BatchDone, BossHolds
<1>7. ASSUME NEW c \in Conns, PeerStep(c), UNCHANGED bossVars
      PROVE  UNCHANGED <<heap, clientsBuf, clients>> /\ BossHolds' = BossHolds
  BY <1>7 DEF PeerStep, Connect, PeerSend, PeerRead, PeerClose, HeartTimeout, BossHolds
<1>8. ASSUME BossStep, ~(Admit \/ AddClient)
      PROVE  UNCHANGED <<heap, clientsBuf, clients>> /\ BossHolds' = BossHolds
  BY <1>8 DEF BossStep, AcceptSocket, Refuse, ReadSize, Compare, OnJoin, BossHolds
<1>9. CASE UNCHANGED vars
  BY <1>9 DEF BossHolds
<1>10. QED
  BY <1>1, <1>2, <1>3, <1>4, <1>5, <1>6, <1>7, <1>8, <1>9 DEF Next

LEMMA NextHands == Structure /\ [Next]_vars => \A v \in WorkServers : Hands(v)'
<1> SUFFICES ASSUME Structure, [Next]_vars, NEW v \in WorkServers
             PROVE  Hands(v)'
  OBVIOUS
<1> USE DEF Structure, TypeOK, WorkTypeOK
<1>1. CASE UNCHANGED <<registered, clients, events, wpc, victim>>
  BY <1>1 DEF Hands
<1>2. ASSUME NEW c \in Conns, PeerStep(c)
      PROVE  UNCHANGED <<registered, clients, events, wpc, victim>>
  BY <1>2 DEF PeerStep, Connect, PeerSend, PeerRead, PeerClose, HeartTimeout
<1>3. CASE BossStep
  <2>1. UNCHANGED <<registered, clients, events, wpc, victim>>
    BY <1>3 DEF BossStep, AcceptSocket, Admit, Refuse, ReadSize, Compare, AddClient, OnJoin
  <2>2. QED
    BY <1>1, <2>1
<1>4. ASSUME NEW w \in WorkServers, WorkStep(w) \/ WorkFault(w)
      PROVE  Hands(v)'
  <2>1. CASE v # w
    <3>1. /\ registered'[v] = registered[v] /\ clients'[v] = clients[v]
          /\ events'[v] = events[v] /\ wpc'[v] = wpc[v] /\ victim'[v] = victim[v]
      BY <1>4, <2>1 DEF WorkStep, WorkFault, SizeCheck, Join, EmptyCheck, Evict, EvictEnd,
                CheckDone, Modify, ModifyFails, ModifyNobody, Wait, WaitFails,
                WaitInterrupted, EvictUndefined, EventIn,
                EventEof, EventOut, DropEnd, SendCopy, SendDone, SendFails, BatchDone,
                LeaveBegin, LeaveEnd
    <3>2. QED
      BY <3>1 DEF Hands
  <2>2. CASE v = w
    <3> USE <2>2 DEF Hands
    <3>1. CASE SizeCheck(w) \/ EmptyCheck(w) \/ CheckDone(w) \/ Modify(w) \/ ModifyFails(w)
               \/ ModifyNobody(w) \/ WaitFails(w) \/ WaitInterrupted(w)
               \/ EvictUndefined(w) \/ BatchDone(w)
      BY <3>1 DEF SizeCheck, EmptyCheck, CheckDone, Modify, ModifyFails, ModifyNobody,
                  WaitFails, WaitInterrupted, EvictUndefined, BatchDone
    <3>2. CASE Join(w)
      BY <3>2 DEF Join
    <3>3. CASE Evict(w)
      BY <3>3 DEF Evict, LeaveBegin
    <3>4. CASE EvictEnd(w) \/ DropEnd(w)
      BY <3>4 DEF EvictEnd, DropEnd, LeaveEnd
    <3>5. CASE Wait(w)
      <4>1. /\ \A e \in Ready(w) : e.chan \in registered[w]
            /\ \A e, f \in Ready(w) : e.chan = f.chan => e = f
        BY DEF Ready
      <4>2. QED
        BY <3>5, <4>1 DEF Wait
    <3>6. CASE EventIn(w)
      <4>1. PICK e \in events[w] :
              events' = [events EXCEPT ![w] = (@ \ {e}) \cup
                          IF e.out THEN {[e EXCEPT !.in = FALSE]} ELSE {}]
        BY <3>6 DEF EventIn
      <4>2. [e EXCEPT !.in = FALSE].chan = e.chan
        <5>1. e \in [chan : Conns, in : BOOLEAN, out : BOOLEAN]
          BY <4>1
        <5>2. QED
          BY ONLY <5>1
      <4> DEFINE rest == IF e.out THEN {[e EXCEPT !.in = FALSE]} ELSE {}
      <4>3. /\ events'[w] = (events[w] \ {e}) \cup rest
            /\ \A f \in rest : f.chan = e.chan
            /\ \A f, g \in rest : f = g
        <5>1. events'[w] = (events[w] \ {e}) \cup rest
          BY <4>1
        <5>2. CASE e.out
          BY <4>2, <5>1, <5>2
        <5>3. CASE ~e.out
          BY <5>1, <5>3
        <5>4. QED
          BY <5>2, <5>3
      <4> HIDE DEF rest
      <4>4. /\ UNCHANGED <<registered, clients, victim, wpc>>
            /\ wpc[w] = "events"
        BY <3>6 DEF EventIn
      <4>5. /\ \A f \in events'[w] : f.chan \in clients[w]
            /\ \A f, g \in events'[w] : f.chan = g.chan => f = g
        BY <4>3
      <4>6. QED
        BY <4>4, <4>5
    <3>7. CASE EventEof(w)
      BY <3>7 DEF EventEof, LeaveBegin
    <3>8. CASE EventOut(w)
      BY <3>8 DEF EventOut
    <3>9. CASE SendCopy(w) \/ SendDone(w) \/ SendFails(w)
      BY <3>9 DEF SendCopy, SendDone, SendFails, LeaveBegin
    <3>10. QED
      BY <1>4, <3>1, <3>2, <3>3, <3>4, <3>5, <3>6, <3>7, <3>8, <3>9 DEF WorkStep, WorkFault
  <2>3. QED
    BY <2>1, <2>2
<1>5. QED
  BY <1>1, <1>2, <1>3, <1>4 DEF Next

LEMMA NextStructure == Structure /\ [Next]_vars => Structure'
  BY NextType, NextSockets, NextOwners, NextHands DEF Structure

LEMMA StructureAlways == Spec => []Structure
  BY InitStructure, NextStructure, PTL DEF Spec

(* Every channel that exists has exactly one owner. *)
THEOREM ChannelsOwned == Spec => []OneOwner
<1>1. Structure => OneOwner
  BY DEF Structure, TypeOK, ChanTypeOK, WorkTypeOK, BossTypeOK, Owners, OneOwner, Live,
         BossHolds
<1>2. QED
  BY <1>1, StructureAlways, PTL

(* No event and no send() concerns a channel that is gone. *)
THEOREM EventsFresh == Spec => []NoStaleEvent
<1>1. Structure => NoStaleEvent
  BY DEF Structure, Hands, NoStaleEvent, Leaving
<1>2. QED
  BY <1>1, StructureAlways, PTL

-----------------------------------------------------------------------------

(* Accounting: how many channels are open. *)

LEMMA AddOne ==
  ASSUME NEW S, S \subseteq Conns, NEW c \in Conns, c \notin S
  PROVE  Cardinality(S \cup {c}) = Cardinality(S) + 1
  BY ConstTypes, FS_Subset, FS_AddElement

LEMMA DropOne ==
  ASSUME NEW S, S \subseteq Conns, NEW c \in S
  PROVE  Cardinality(S \ {c}) = Cardinality(S) - 1
  BY ConstTypes, FS_Subset, FS_RemoveElement

(* The four ways in which a step changes the set of open channels, the    *)
(* counter and the limit.                                                  *)
OpenStutters ==
    /\ Open' = Open
    /\ Refused' = Refused
    /\ clientCount' + Uncounted' = clientCount + Uncounted

OpenLoses == \E c \in Open :
    /\ Open' = Open \ {c}
    /\ Refused' = Refused
    /\ clientCount' = clientCount - 1 /\ Uncounted' = Uncounted

OpenGains == \E c \in Conns \ (Open \cup Refused) :
    /\ clientCount < MaxClient /\ Uncounted = 0
    /\ Open' = Open \cup {c}
    /\ Refused' = Refused
    /\ clientCount' = clientCount /\ Uncounted' = 1

OpenRefuses == \E c \in Conns \ (Open \cup Refused) :
    /\ clientCount >= MaxClient /\ Uncounted = 0
    /\ Open' = Open
    /\ Refused' = Refused \cup {c}
    /\ clientCount' = clientCount /\ Uncounted' = 0

LEMMA WorkEffect ==
  ASSUME NEW w \in WorkServers, Structure, Structure', WorkStep(w) \/ WorkFault(w),
         UNCHANGED bossVars
  PROVE  OpenStutters \/ OpenLoses
<1> USE DEF Structure, TypeOK, ChanTypeOK, WorkTypeOK
<1>1. Uncounted' = Uncounted /\ Uncounted \in {0, 1}
  BY DEF Uncounted
<1>2. clientCount \in Int
  BY DEF BossTypeOK
<1>3. CASE Evict(w) \/ EventEof(w) \/ SendFails(w)
  <2>1. PICK c \in clients[w], pc \in {"evict", "drop"} : LeaveBegin(w, c, pc)
    BY <1>3 DEF Evict, EventEof, SendFails, Hands
  <2>2. w \notin Leaving /\ UNCHANGED <<heap, fd>>
    BY <1>3 DEF Evict, EventEof, SendFails, Leaving
  <2>3. Leaving' = Leaving \cup {w} /\ victim'[w] = c
        /\ \A v \in Leaving : victim'[v] = victim[v]
    BY <2>1, <2>2 DEF LeaveBegin, Leaving
  <2>4. c \in Live /\ c \notin {victim[v] : v \in Leaving}
    BY <2>2 DEF Owners, Hands, Live, Leaving
  <2>5. Open' = Open \ {c} /\ c \in Open
    BY <2>2, <2>3, <2>4 DEF Open, Live
  <2>6. Refused' = Refused
    BY <2>2 DEF Refused
  <2>7. QED
    BY <1>1, <2>1, <2>5, <2>6 DEF OpenLoses, LeaveBegin
<1>4. CASE EvictEnd(w) \/ DropEnd(w)
  <2> DEFINE c == victim[w]
  <2>1. w \in Leaving /\ c \in clients[w] /\ heap[c] = "live" /\ c \in Conns
    BY <1>4 DEF EvictEnd, DropEnd, Leaving, Hands, Owners
  <2>2. /\ heap' = [heap EXCEPT ![c] = "freed"]
        /\ fd' = [fd EXCEPT ![c] = "closed"]
        /\ victim' = [victim EXCEPT ![w] = NoConn]
        /\ wpc' \in {[wpc EXCEPT ![w] = "check"], [wpc EXCEPT ![w] = "events"]}
        /\ clientCount' = clientCount
    BY <1>4 DEF EvictEnd, DropEnd, LeaveEnd
  <2>3. Leaving' = Leaving \ {w} /\ \A v \in Leaving \ {w} : victim'[v] = victim[v]
    BY <2>2 DEF Leaving
  <2>4. Live' = Live \ {c}
    BY <2>2 DEF Live
  <2>5. Open' = Open
    BY <2>1, <2>3, <2>4 DEF Open
  <2>6. Refused' = Refused
    BY <2>1, <2>2 DEF Refused, NetTypeOK
  <2>7. QED
    BY <1>1, <2>2, <2>5, <2>6 DEF OpenStutters
<1>5. CASE ~(Evict(w) \/ EventEof(w) \/ SendFails(w) \/ EvictEnd(w) \/ DropEnd(w))
  <2>1. UNCHANGED <<heap, fd, clientCount>> /\ Leaving' = Leaving
        /\ \A v \in Leaving : victim'[v] = victim[v]
    BY <1>5 DEF WorkStep, WorkFault, SizeCheck, Join, EmptyCheck, CheckDone, Modify,
                ModifyFails,
                ModifyNobody, Wait, WaitFails, WaitInterrupted, EvictUndefined, EventIn,
                EventOut, SendCopy, SendDone,
                BatchDone, Leaving
  <2>2. Open' = Open /\ Refused' = Refused
    BY <2>1 DEF Open, Live, Refused
  <2>3. QED
    BY <1>1, <2>1, <2>2 DEF OpenStutters
<1>6. QED
  BY <1>3, <1>4, <1>5

LEMMA BossEffect ==
  ASSUME Structure, Structure', BossStep
  PROVE  OpenStutters \/ OpenGains \/ OpenRefuses
<1> USE DEF Structure, TypeOK, ChanTypeOK, NetTypeOK
<1>1. Leaving' = Leaving /\ UNCHANGED victim
  BY DEF BossStep, AcceptSocket, Admit, Refuse, ReadSize, Compare, AddClient, OnJoin,
         Leaving
<1>2. \A v \in Leaving : heap[victim[v]] = "live" /\ victim[v] \in Conns
  BY DEF Leaving, Hands, Owners, WorkTypeOK
<1>3. clientCount \in Int
  BY DEF BossTypeOK
<1>4. CASE Admit
  <2>1. cur \in Conns \ (Open \cup Refused)
    BY <1>4, <1>2 DEF Admit, BossTypeOK, Sockets, Open, Live, Refused
  <2>2. heap' = [heap EXCEPT ![cur] = "live"] /\ UNCHANGED <<fd, clientCount>>
    BY <1>4 DEF Admit
  <2>3. heap[cur] = "none" /\ fd[cur] = "open"
    BY <1>4 DEF Admit, Sockets
  <2>4. Live' = Live \cup {cur}
    BY <2>1, <2>2 DEF Live
  <2>5. Open' = Open \cup {cur}
    BY <1>1, <1>2, <2>1, <2>3, <2>4 DEF Open
  <2>6. Refused' = Refused
    BY <2>1, <2>2, <2>3 DEF Refused
  <2>7. QED
    BY <1>4, <2>1, <2>2, <2>5, <2>6 DEF Admit, Uncounted, OpenGains
<1>5. CASE Refuse
  <2>1. cur \in Conns \ (Open \cup Refused)
    BY <1>5, <1>2 DEF Refuse, BossTypeOK, Sockets, Open, Live, Refused
  <2>2. fd' = [fd EXCEPT ![cur] = "closed"] /\ UNCHANGED <<heap, clientCount>>
    BY <1>5 DEF Refuse
  <2>3. Open' = Open
    BY <1>1, <2>2 DEF Open, Live
  <2>4. heap[cur] = "none"
    BY <1>5 DEF Refuse, Sockets
  <2>5. Refused' = Refused \cup {cur}
    BY <2>1, <2>2, <2>4 DEF Refused
  <2>6. QED
    BY <1>5, <2>1, <2>2, <2>3, <2>5 DEF Refuse, Uncounted, OpenRefuses
<1>6. ASSUME NEW c \in Conns, AcceptSocket(c)
      PROVE  OpenStutters
  <2>1. heap[c] = "none" /\ fd' = [fd EXCEPT ![c] = "open"] /\ fd[c] = "backlog"
        /\ UNCHANGED <<heap, clientCount>> /\ bpc = "loop" /\ bpc' = "accepted"
    BY <1>6 DEF AcceptSocket, Sockets
  <2>2. Open' = Open /\ Refused' = Refused
    BY <1>1, <2>1 DEF Open, Live, Refused
  <2>3. QED
    BY <1>3, <2>1, <2>2 DEF OpenStutters, Uncounted
<1>7. CASE ReadSize \/ Compare \/ AddClient \/ OnJoin
  <2>1. UNCHANGED <<heap, fd>> /\ clientCount' + Uncounted' = clientCount + Uncounted
    BY <1>3, <1>7 DEF ReadSize, Compare, AddClient, OnJoin, Uncounted
  <2>2. Open' = Open /\ Refused' = Refused
    BY <1>1, <2>1 DEF Open, Live, Refused
  <2>3. QED
    BY <2>1, <2>2 DEF OpenStutters
<1>8. QED
  BY <1>4, <1>5, <1>6, <1>7 DEF BossStep

LEMMA PeerEffect ==
  ASSUME NEW c \in Conns, Structure, PeerStep(c), UNCHANGED bossVars
  PROVE  OpenStutters
<1> USE DEF Structure, TypeOK, ChanTypeOK, NetTypeOK
<1>1. UNCHANGED <<heap, victim, wpc, clientCount>>
  BY DEF PeerStep, Connect, PeerSend, PeerRead, PeerClose, HeartTimeout
<1>2. \A d \in Conns : fd'[d] = "closed" <=> fd[d] = "closed"
  BY DEF PeerStep, Connect, PeerSend, PeerRead, PeerClose, HeartTimeout, Sockets
<1>3. Open' = Open /\ Refused' = Refused
  BY <1>1, <1>2 DEF Open, Live, Leaving, Refused
<1>4. QED
  BY <1>1, <1>3 DEF OpenStutters, Uncounted

LEMMA StepEffect ==
  ASSUME Structure, Structure', [Next]_vars
  PROVE  OpenStutters \/ OpenLoses \/ OpenGains \/ OpenRefuses
<1>1. CASE UNCHANGED vars
  BY <1>1 DEF OpenStutters, Open, Live, Leaving, Refused, Uncounted
<1>2. QED
  BY <1>1, WorkEffect, BossEffect, PeerEffect DEF Next

(* The counter is only trustworthy together with the number of channels it *)
(* stands for, and the limit only follows from an exact counter: the two   *)
(* are inductive together, on top of the structure.                        *)
Accounting ==
    /\ Structure
    /\ CountAccurate
    /\ WithinLimit

LEMMA OpenType == ASSUME Structure PROVE Open \subseteq Conns /\ Cardinality(Open) \in Nat
<1>1. Open \subseteq Conns
  BY DEF Open, Live
<1>2. QED
  BY <1>1, SizeType

LEMMA InitAccounting == Init => Accounting
<1> SUFFICES ASSUME Init PROVE Accounting
  OBVIOUS
<1>1. Open = {}
  BY DEF Init, WorkInit, Open, Live
<1>2. Cardinality(Open) = 0
  BY <1>1, FS_EmptySet
<1>3. Uncounted = 0 /\ clientCount = 0
  BY DEF Init, WorkInit, Uncounted
<1>4. CountAccurate /\ WithinLimit
  BY <1>2, <1>3, ConstTypes DEF CountAccurate, WithinLimit
<1>5. QED
  BY <1>4, InitStructure DEF Accounting

LEMMA NextAccounting == Accounting /\ [Next]_vars => Accounting'
<1> SUFFICES ASSUME Accounting, [Next]_vars
             PROVE  Accounting'
  OBVIOUS
<1> USE DEF Accounting, CountAccurate, WithinLimit
<1>1. Structure'
  BY NextStructure
<1>2. Open \subseteq Conns /\ Cardinality(Open) \in Nat
      /\ Uncounted \in {0, 1} /\ Uncounted' \in {0, 1}
      /\ clientCount \in Int /\ clientCount' \in Int /\ MaxClient \in Nat
  BY <1>1, OpenType, ConstTypes DEF Uncounted, Structure, TypeOK, BossTypeOK
<1>3. CASE OpenStutters \/ OpenRefuses
  BY <1>1, <1>2, <1>3 DEF OpenStutters, OpenRefuses
<1>4. CASE OpenLoses
  <2>1. PICK c \in Open : Open' = Open \ {c}
    BY <1>4 DEF OpenLoses
  <2>2. Cardinality(Open') = Cardinality(Open) - 1
    BY <1>2, <2>1, DropOne
  <2>3. QED
    BY <1>1, <1>2, <1>4, <2>2 DEF OpenLoses
<1>5. CASE OpenGains
  <2>1. PICK c \in Conns \ (Open \cup Refused) : Open' = Open \cup {c}
    BY <1>5 DEF OpenGains
  <2>2. Cardinality(Open') = Cardinality(Open) + 1
    BY <1>2, <2>1, AddOne
  <2>3. QED
    BY <1>1, <1>2, <1>5, <2>2 DEF OpenGains
<1>6. QED
  BY <1>1, <1>3, <1>4, <1>5, StepEffect

LEMMA AccountingAlways == Spec => []Accounting
  BY InitAccounting, NextAccounting, PTL DEF Spec

(* _clientCount is exact but for the channel the boss is handing over. *)
THEOREM CounterExact == Spec => []CountAccurate
<1>1. Accounting => CountAccurate
  BY DEF Accounting
<1>2. QED
  BY <1>1, AccountingAlways, PTL

(* Never more than _maxClient channels are open. *)
THEOREM LimitKept == Spec => []WithinLimit
<1>1. Accounting => WithinLimit
  BY DEF Accounting
<1>2. QED
  BY <1>1, AccountingAlways, PTL

(* Admission counts with its own instance of FiniteSets. *)
LEMMA SameCardinality == \A S : AdmissionControl!Cardinality(S) = Cardinality(S)
  BY DEF AdmissionControl!Cardinality, Cardinality

LEMMA AdmissionStep ==
  ASSUME Accounting, Accounting', [Next]_vars
  PROVE  [AdmissionControl!Next]_<<Open, Refused>>
<1> USE DEF Accounting, CountAccurate, WithinLimit, AdmissionControl!Next
<1>1. Cardinality(Open) \in Nat /\ clientCount \in Int /\ MaxClient \in Nat
      /\ Open \subseteq Conns
  BY OpenType, ConstTypes DEF Structure, TypeOK, BossTypeOK
<1>2. CASE OpenStutters
  BY <1>2 DEF OpenStutters
<1>3. CASE OpenLoses
  <2>1. PICK c \in Open : AdmissionControl!Leave(c)
    BY <1>3 DEF OpenLoses, AdmissionControl!Leave
  <2>2. QED
    BY <1>1, <2>1
<1>4. CASE OpenGains
  <2>1. PICK c \in Conns \ (Open \cup Refused) :
          Open' = Open \cup {c} /\ Refused' = Refused
    BY <1>4 DEF OpenGains
  <2>2. Cardinality(Open) < MaxClient
    BY <1>1, <1>4 DEF OpenGains
  <2>3. AdmissionControl!Admit(c)
    BY <2>1, <2>2, SameCardinality DEF AdmissionControl!Admit
  <2>4. QED
    BY <2>3
<1>5. CASE OpenRefuses
  <2>1. PICK c \in Conns \ (Open \cup Refused) :
          Open' = Open /\ Refused' = Refused \cup {c}
    BY <1>5 DEF OpenRefuses
  <2>2. Cardinality(Open) = MaxClient
    BY <1>1, <1>5 DEF OpenRefuses
  <2>3. AdmissionControl!Refuse(c)
    BY <2>1, <2>2, SameCardinality DEF AdmissionControl!Refuse
  <2>4. QED
    BY <2>3
<1>6. QED
  BY <1>2, <1>3, <1>4, <1>5, StepEffect

(* The server admits and refuses as Admission says. *)
THEOREM AdmissionRefined == Spec => ImplementsAdmission
<1>1. Init => AdmissionControl!Init
  BY DEF Init, WorkInit, AdmissionControl!Init, Open, Live, Refused
<1>2. QED
  BY <1>1, AdmissionStep, AccountingAlways, PTL
  DEF Spec, ImplementsAdmission, AdmissionControl!Spec

-----------------------------------------------------------------------------

(* A work server whose registrations succeed listens to exactly the        *)
(* channels it serves.                                                     *)
THEOREM Listening ==
  ASSUME "add" \notin Env
  PROVE  Spec => []ListensToClients
<1>1. Init => ListensToClients
  BY DEF Init, WorkInit, ListensToClients
<1>2. Structure /\ ListensToClients /\ [Next]_vars => ListensToClients'
  <2> SUFFICES ASSUME Structure, ListensToClients, [Next]_vars
               PROVE  ListensToClients'
    OBVIOUS
  <2> USE DEF Structure, TypeOK, WorkTypeOK, ListensToClients
  <2>1. CASE UNCHANGED <<registered, clients>>
    BY <2>1
  <2>2. ASSUME NEW w \in WorkServers, Join(w)
        PROVE  ListensToClients'
    BY <2>2 DEF Join
  <2>3. ASSUME NEW w \in WorkServers, EvictEnd(w) \/ DropEnd(w)
        PROVE  ListensToClients'
    <3>1. /\ clients' = [clients EXCEPT ![w] = @ \ {victim[w]}]
          /\ registered' = [registered EXCEPT ![w] = @ \ {victim[w]}]
      BY <2>3 DEF EvictEnd, DropEnd, LeaveEnd
    <3>2. QED
      BY <3>1
  <2>4. ASSUME NEW w \in WorkServers, WorkStep(w) \/ WorkFault(w),
               ~(Join(w) \/ EvictEnd(w) \/ DropEnd(w))
        PROVE  UNCHANGED <<registered, clients>>
    BY <2>4 DEF WorkStep, WorkFault, SizeCheck, EmptyCheck, Evict, CheckDone, Modify,
                ModifyFails,
                ModifyNobody, Wait, WaitFails, WaitInterrupted, EvictUndefined, EventIn,
                EventEof, EventOut, SendCopy,
                SendDone, SendFails, BatchDone
  <2>5. ASSUME NEW c \in Conns, PeerStep(c)
        PROVE  UNCHANGED <<registered, clients>>
    BY <2>5 DEF PeerStep, Connect, PeerSend, PeerRead, PeerClose, HeartTimeout
  <2>6. BossStep => UNCHANGED <<registered, clients>>
    BY DEF BossStep, AcceptSocket, Admit, Refuse, ReadSize, Compare, AddClient, OnJoin
  <2>7. QED
    BY <2>1, <2>2, <2>3, <2>4, <2>5, <2>6 DEF Next
<1>3. QED
  BY <1>1, <1>2, StructureAlways, PTL DEF Spec

=============================================================================
