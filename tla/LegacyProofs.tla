---------------------------- MODULE LegacyProofs ----------------------------
(***************************************************************************)
(* The server that came before common, and the two samples it grew from,   *)
(* for any number of channels, work servers and contexts: replies come     *)
(* back whole and in order, the count of clients and the nodes of the      *)
(* pool are right, no heart beat is missed, what is echoed is what was     *)
(* sent.                                                                   *)
(***************************************************************************)
EXTENDS LegacyServer, EchoServer, EpollSample, Integers, FiniteSetTheorems, SequenceLemmas, TLAPS

(* EpollSample. *)

(* Who has not been accepted is not watched; what was received and         *)
(* answered are numbers.                                                   *)
SampleTypeOK ==
    /\ visitor \in [Visitors -> {"none", "calling", "here", "gone"}]
    /\ mask \in [Visitors -> {"in", "out", "off", "lost", "none", "closed"}]
    /\ reads \in [Visitors -> Nat] /\ hearts \in [Visitors -> Nat]
    /\ \A e \in batch : e \in Visitors \X {"in", "out"}

NotAccepted ==
    \A v \in Visitors : visitor[v] \in {"none", "calling"} =>
      mask[v] = "none" /\ reads[v] = 0 /\ hearts[v] = 0

SampleInv == SampleTypeOK /\ NotAccepted /\ HeartPerRead

LEMMA SampleFirst == SampleInit => SampleInv
  BY DEF SampleInit, SampleInv, SampleTypeOK, NotAccepted, HeartPerRead

(* What does not touch the counters and only loses events. *)
LEMMA InputKeeps ==
    ASSUME SampleInv, NEW v \in Visitors, OnInput(v) PROVE SampleInv'
<1> USE DEF SampleInv, SampleTypeOK, NotAccepted, HeartPerRead
<1>1. /\ <<v, "in">> \in batch /\ batch' = batch \ {<<v, "in">>}
      /\ visitor' = visitor /\ hearts' = hearts
  BY DEF OnInput, visitorVars
<1>2. mask[v] = "in" /\ reads[v] = hearts[v]
  BY <1>1
<1>3. \A e \in batch' : e[1] # v
  BY <1>1, <1>2
<1>4. visitor[v] \notin {"none", "calling"}
  BY <1>2
<1>5. CASE reads' = [reads EXCEPT ![v] = @ + 1] /\ mask' = [mask EXCEPT ![v] = "out"]
  <2>1. SampleTypeOK'
    BY <1>1, <1>5
  <2>2. NotAccepted'
    BY <1>1, <1>4, <1>5
  <2>3. HeartPerRead'
    BY <1>1, <1>2, <1>3, <1>5
  <2>4. QED
    BY <2>1, <2>2, <2>3
<1>6. CASE UNCHANGED reads /\ Leave(v)
  <2>1. SampleTypeOK' /\ NotAccepted'
    BY <1>1, <1>4, <1>6 DEF Leave
  <2>2. HeartPerRead'
    BY <1>1, <1>3, <1>6 DEF Leave
  <2>3. QED
    BY <2>1, <2>2
<1>7. QED
  BY <1>5, <1>6 DEF OnInput

LEMMA OutputKeeps ==
    ASSUME SampleInv, NEW v \in Visitors, OnOutput(v) PROVE SampleInv'
<1> USE DEF SampleInv, SampleTypeOK, NotAccepted, HeartPerRead
<1>1. /\ <<v, "out">> \in batch /\ batch' = batch \ {<<v, "out">>}
      /\ visitor' = visitor /\ reads' = reads
  BY DEF OnOutput, visitorVars
<1>2. mask[v] = "out" /\ reads[v] = hearts[v] + 1
  BY <1>1
<1>3. \A e \in batch' : e[1] # v
  BY <1>1, <1>2
<1>4. visitor[v] \notin {"none", "calling"}
  BY <1>2
<1>5. CASE hearts' = [hearts EXCEPT ![v] = @ + 1] /\ AfterSend(v)
  <2>1. PICK m \in {"in", "off"} : mask' = [mask EXCEPT ![v] = m]
    BY <1>5 DEF AfterSend
  <2>2. SampleTypeOK' /\ NotAccepted'
    BY <1>1, <1>4, <1>5, <2>1
  <2>3. HeartPerRead'
    BY <1>1, <1>2, <1>3, <1>5, <2>1
  <2>4. QED
    BY <2>2, <2>3
<1>6. CASE UNCHANGED hearts /\ Leave(v)
  <2>1. SampleTypeOK' /\ NotAccepted'
    BY <1>1, <1>4, <1>6 DEF Leave
  <2>2. HeartPerRead'
    BY <1>1, <1>3, <1>6 DEF Leave
  <2>3. QED
    BY <2>1, <2>2
<1>7. QED
  BY <1>5, <1>6 DEF OnOutput

LEMMA SampleStepKeeps == SampleInv /\ [SampleNext]_sampleVars => SampleInv'
<1> SUFFICES ASSUME SampleInv, [SampleNext]_sampleVars PROVE SampleInv'
  OBVIOUS
<1> USE DEF SampleInv, SampleTypeOK, NotAccepted, HeartPerRead
<1>1. ASSUME NEW v \in Visitors, VisitorCalls(v) \/ VisitorTalks(v) \/ VisitorGoes(v)
      PROVE  SampleInv'
  BY <1>1 DEF VisitorCalls, VisitorTalks, VisitorGoes
<1>2. CASE WaitEvents
  BY <1>2 DEF WaitEvents, visitorVars
<1>3. CASE SampleEnds
  BY <1>3 DEF SampleEnds, RoundOver, visitorVars
<1>4. ASSUME NEW v \in Visitors, AcceptOne(v)
      PROVE  SampleInv'
  <2>1. mask[v] = "none" /\ reads[v] = 0 /\ hearts[v] = 0
    BY <1>4 DEF AcceptOne
  <2>2. QED
    BY <1>4, <2>1 DEF AcceptOne
<1>5. CASE UNCHANGED sampleVars
  BY <1>5 DEF sampleVars
<1>6. QED
  BY <1>1, <1>2, <1>3, <1>4, <1>5, InputKeeps, OutputKeeps DEF SampleNext, SampleStep

(* Every reception is answered by one heart beat before the next, whatever *)
(* the order of the events in a batch and however many visitors there are. *)
THEOREM SampleAnswers == SampleSpec => []HeartPerRead
<1>1. SampleInv => HeartPerRead
  BY DEF SampleInv
<1>2. QED
  BY <1>1, SampleFirst, SampleStepKeeps, PTL DEF SampleSpec

-----------------------------------------------------------------------------

(* EchoServer. *)

EchoTypeOK ==
    /\ opType \in [Contexts -> {"accept", "recv", "send"}]
    /\ status \in [Contexts -> {"posted", "ok", "zero", "gone", "idle"}]
    /\ sock \in [Contexts -> Conns \cup {NoConn}]
    /\ chunk \in [Contexts -> Seq(Nat)]
    /\ peerAt \in [Conns -> {"none", "calling", "open", "closed"}]
    /\ typed \in [Conns -> Seq(Nat)] /\ unread \in [Conns -> Seq(Nat)]
    /\ echoed \in [Conns -> Seq(Nat)]

(* Which contexts have a connection; no two have the same one. *)
Paired ==
    /\ \A x \in Contexts :
         /\ sock[x] = NoConn <=> \/ status[x] = "idle"
                                 \/ opType[x] = "accept" /\ status[x] = "posted"
         /\ opType[x] = "accept" => status[x] \in {"posted", "ok", "idle"}
         /\ status[x] \in {"zero", "gone"} => peerAt[sock[x]] = "closed"
         /\ sock[x] # NoConn => peerAt[sock[x]] \in {"open", "closed"}
    /\ \A x, y \in Contexts : sock[x] = sock[y] /\ sock[x] # NoConn => x = y

(* Of a connection that nobody accepted nothing was read. *)
Untouched ==
    \A k \in Conns : peerAt[k] \in {"none", "calling"} => echoed[k] = <<>> /\ unread[k] = typed[k]

Busy(x) == \/ opType[x] = "recv" /\ status[x] = "ok"
           \/ opType[x] = "send" /\ status[x] = "posted"

InHand(x) == IF Busy(x) THEN chunk[x] ELSE <<>>

(* EchoExact, context by context. *)
ExactAt(x) ==
    sock[x] # NoConn /\ peerAt[sock[x]] = "open" =>
      echoed[sock[x]] \o InHand(x) \o unread[sock[x]] = typed[sock[x]]

EchoInv == EchoTypeOK /\ Paired /\ Untouched /\ \A x \in Contexts : ExactAt(x)

LEMMA EchoFirst == EchoInit => EchoInv
<1> SUFFICES ASSUME EchoInit PROVE EchoInv
  OBVIOUS
<1>1. <<>> \in Seq(Nat)
  BY EmptySeq
<1>2. EchoTypeOK
  BY <1>1 DEF EchoInit, EchoTypeOK
<1>3. Paired /\ Untouched /\ \A x \in Contexts : ExactAt(x)
  BY DEF EchoInit, Paired, Untouched, ExactAt
<1>4. QED
  BY <1>2, <1>3 DEF EchoInv

(* What a context holds stays right while nothing of it and of its         *)
(* connection changes. *)
LEMMA ExactKept ==
    ASSUME NEW x \in Contexts, ExactAt(x), sock'[x] = sock[x], InHand(x)' = InHand(x),
           sock[x] # NoConn =>
             /\ echoed'[sock[x]] = echoed[sock[x]] /\ unread'[sock[x]] = unread[sock[x]]
             /\ typed'[sock[x]] = typed[sock[x]]
             /\ peerAt'[sock[x]] = "open" => peerAt[sock[x]] = "open"
    PROVE  ExactAt(x)'
  BY DEF ExactAt

LEMMA AppendBehind ==
    ASSUME NEW s \in Seq(Nat), NEW t \in Seq(Nat), NEW e \in Nat
    PROVE  s \o Append(t, e) = Append(s \o t, e)
<1>1. s \o t \in Seq(Nat) /\ <<e>> \in Seq(Nat)
  BY ConcatProperties
<1>2. Append(t, e) = t \o <<e>> /\ Append(s \o t, e) = (s \o t) \o <<e>>
  BY <1>1, AppendIsConcat
<1>3. (s \o t) \o <<e>> = s \o (t \o <<e>>)
  BY <1>1, ConcatAssociative
<1>4. QED
  BY <1>2, <1>3

LEMMA PeersKeep ==
    ASSUME EchoInv, NEW k \in Conns, Call(k) \/ Type(k) \/ HangUp(k) PROVE EchoInv'
<1> USE EchoAssumption DEF EchoInv, EchoTypeOK, Paired, Untouched
<1>1. CASE Call(k)
  <2>1. /\ \A x \in Contexts : sock[x] # k
        /\ peerAt' = [peerAt EXCEPT ![k] = "calling"]
        /\ UNCHANGED <<opType, status, sock, chunk, typed, unread, echoed, serving>>
    BY ZenonT(30), <1>1 DEF Call
  <2>2. EchoTypeOK' /\ Untouched'
    BY <1>1, <2>1 DEF Call
  <2>3. Paired'
    BY <2>1
  <2>4. \A x \in Contexts : InHand(x)' = InHand(x)
    BY <2>1 DEF InHand, Busy
  <2>5. \A x \in Contexts : ExactAt(x)'
    BY <2>1, <2>4, ExactKept
  <2>6. QED
    BY <2>2, <2>3, <2>5
<1>2. CASE HangUp(k)
  <2>1. /\ peerAt[k] = "open" /\ peerAt' = [peerAt EXCEPT ![k] = "closed"]
        /\ UNCHANGED <<opType, status, sock, chunk, typed, unread, echoed, serving>>
    BY <1>2 DEF HangUp
  <2>2. EchoTypeOK' /\ Untouched'
    BY <2>1
  <2>3. Paired'
    BY <2>1
  <2>4. \A x \in Contexts : InHand(x)' = InHand(x)
    BY <2>1 DEF InHand, Busy
  <2>5. \A x \in Contexts : ExactAt(x)'
    BY <2>1, <2>4, ExactKept
  <2>6. QED
    BY <2>2, <2>3, <2>5
<1>3. CASE Type(k)
  <2> DEFINE e == Len(typed[k]) + 1
  <2>1. /\ typed' = [typed EXCEPT ![k] = Append(typed[k], e)]
        /\ unread' = [unread EXCEPT ![k] = Append(unread[k], e)]
        /\ UNCHANGED <<opType, status, sock, chunk, peerAt, echoed, serving>>
    BY <1>3 DEF Type
  <2>2. e \in Nat
    OBVIOUS
  <2> HIDE DEF e
  <2>3. Append(typed[k], e) \in Seq(Nat) /\ Append(unread[k], e) \in Seq(Nat)
    BY <2>2, AppendProperties
  <2>4. EchoTypeOK'
    BY <2>1, <2>3
  <2>5. Paired' /\ Untouched'
    BY <2>1
  <2>6. ASSUME NEW x \in Contexts PROVE ExactAt(x)'
    <3>1. InHand(x)' = InHand(x)
      BY <2>1 DEF InHand, Busy
    <3>2. CASE sock[x] # k
      BY <2>1, <3>1, <3>2, ExactKept
    <3>3. CASE sock[x] = k /\ peerAt[k] = "open"
      <4> DEFINE front == echoed[k] \o InHand(x)
      <4>1. InHand(x) \in Seq(Nat)
        BY EmptySeq DEF InHand
      <4>2. front \in Seq(Nat)
        BY <4>1, ConcatProperties
      <4>3. front \o unread[k] = typed[k]
        BY <3>3 DEF ExactAt
      <4>4. front \o Append(unread[k], e) = Append(typed[k], e)
        <5> HIDE DEF front
        <5>1. unread[k] \in Seq(Nat)
          OBVIOUS
        <5>2. front \o Append(unread[k], e) = Append(front \o unread[k], e)
          BY <2>2, <4>2, <5>1, AppendBehind
        <5>3. QED
          BY <4>3, <5>2
      <4>5. QED
        BY <2>1, <3>1, <3>3, <4>4 DEF ExactAt
    <3>4. CASE sock[x] = k /\ peerAt[k] # "open"
      BY <2>1, <3>4 DEF ExactAt
    <3>5. QED
      BY <3>2, <3>3, <3>4
  <2>7. QED
    BY <2>4, <2>5, <2>6
<1>4. QED
  BY <1>1, <1>2, <1>3

LEMMA AcceptedKeeps ==
    ASSUME EchoInv, NEW x \in Contexts, NEW k \in Conns, EchoAcceptDone(x, k)
    PROVE  EchoInv'
<1> USE EchoAssumption DEF EchoInv, EchoTypeOK, Paired, Untouched
<1>1. /\ opType[x] = "accept" /\ status[x] = "posted" /\ peerAt[k] = "calling"
      /\ status' = [status EXCEPT ![x] = "ok"]
      /\ sock' = [sock EXCEPT ![x] = k]
      /\ peerAt' = [peerAt EXCEPT ![k] = "open"]
      /\ UNCHANGED <<opType, chunk, typed, unread, echoed, serving>>
  BY DEF EchoAcceptDone, Completed
<1>2. \A y \in Contexts : sock[y] # k
  BY ZenonT(30), <1>1
<1>3. EchoTypeOK' /\ Untouched'
  BY <1>1
<1>4. Paired'
  BY <1>1, <1>2
<1>5. ASSUME NEW y \in Contexts PROVE ExactAt(y)'
  <2>1. CASE y # x
    <3>1. InHand(y)' = InHand(y)
      BY <1>1, <2>1 DEF InHand, Busy
    <3>2. QED
      BY <1>1, <1>2, <2>1, <3>1, ExactKept
  <2>2. CASE y = x
    <3>1. InHand(x)' = <<>>
      BY <1>1 DEF InHand, Busy
    <3>2. echoed[k] = <<>> /\ unread[k] = typed[k] /\ typed[k] \in Seq(Nat)
      BY <1>1
    <3>3. (<<>> \o <<>>) \o typed[k] = typed[k]
      BY <3>2, ConcatEmptySeq, EmptySeq
    <3>4. QED
      BY <1>1, <2>2, <3>1, <3>2, <3>3 DEF ExactAt
  <2>3. QED
    BY <2>1, <2>2
<1>6. QED
  BY <1>3, <1>4, <1>5

(* A completion at the end of the peer. *)
LEMMA EndKeeps ==
    ASSUME EchoInv, NEW x \in Contexts, opType[x] # "accept", status[x] = "posted",
           peerAt[sock[x]] = "closed", NEW how \in {"zero", "gone"}, Completed(x, how),
           UNCHANGED <<opType, sock, chunk, peerAt, typed, unread, echoed, serving>>
    PROVE  EchoInv'
<1> USE EchoAssumption DEF EchoInv, EchoTypeOK, Paired, Untouched
<1>1. EchoTypeOK' /\ Untouched' /\ Paired'
  BY DEF Completed
<1>2. \A y \in Contexts : ExactAt(y)'
  BY ZenonT(30) DEF Completed, ExactAt, InHand, Busy
<1>3. QED
  BY <1>1, <1>2

LEMMA ReceivedKeeps ==
    ASSUME EchoInv, NEW x \in Contexts, EchoRecvDone(x) PROVE EchoInv'
<1> USE EchoAssumption DEF EchoInv, EchoTypeOK, Paired, Untouched
<1>1. /\ opType[x] = "recv" /\ status[x] = "posted" /\ sock[x] \in Conns
      /\ UNCHANGED <<opType, sock, peerAt, typed, echoed, serving>>
  BY ZenonT(30) DEF EchoRecvDone
<1>2. CASE unread[sock[x]] = <<>>
  BY <1>1, <1>2, EndKeeps DEF EchoRecvDone
<1>3. CASE unread[sock[x]] # <<>>
  <2>1. PICK k \in Conns : k = sock[x]
    BY <1>1
  <2>2. PICK n \in 1..Len(unread[k]) :
          /\ chunk' = [chunk EXCEPT ![x] = SubSeq(unread[k], 1, n)]
          /\ unread' = [unread EXCEPT ![k] = SubSeq(unread[k], n + 1, Len(unread[k]))]
          /\ Completed(x, "ok")
    BY <1>3, <2>1 DEF EchoRecvDone
  <2>3. PICK a \in Seq(Nat), b \in Seq(Nat) :
          /\ a = SubSeq(unread[k], 1, n) /\ b = SubSeq(unread[k], n + 1, Len(unread[k]))
          /\ (echoed[k] \o a) \o b = (echoed[k] \o <<>>) \o unread[k]
    <3>1. unread[k] \in Seq(Nat) /\ echoed[k] \in Seq(Nat)
      OBVIOUS
    <3>2. Across(Nat, echoed[k], unread[k], n)
      BY <3>1, MovedAcross
    <3>3. QED
      BY ZenonT(30), <3>2 DEF Across
  <2>5. /\ chunk' = [chunk EXCEPT ![x] = a] /\ unread' = [unread EXCEPT ![k] = b]
        /\ status' = [status EXCEPT ![x] = "ok"]
    BY <2>2, <2>3 DEF Completed
  <2>6. EchoTypeOK' /\ Paired'
    BY SMTT(30), <1>1, <2>5
  <2>7. Untouched'
    BY <1>1, <2>1, <2>5
  <2>8. ASSUME NEW y \in Contexts PROVE ExactAt(y)'
    <3>1. CASE y # x
      <4>1. InHand(y)' = InHand(y)
        BY <1>1, <2>5, <3>1 DEF InHand, Busy
      <4>2. sock[y] # NoConn => sock[y] # k
        BY <2>1, <3>1
      <4>3. QED
        BY <1>1, <2>5, <3>1, <4>1, <4>2, ExactKept
    <3>2. CASE y = x /\ peerAt[k] = "open"
      <4>1. InHand(x) = <<>> /\ InHand(x)' = a
        BY <1>1, <2>5 DEF InHand, Busy
      <4>2. (echoed[k] \o <<>>) \o unread[k] = typed[k]
        BY <1>1, <2>1, <3>2, <4>1 DEF ExactAt
      <4>3. (echoed[k] \o a) \o b = typed[k]
        BY <2>3, <4>2
      <4>4. QED
        BY <1>1, <2>1, <2>5, <3>2, <4>1, <4>3 DEF ExactAt
    <3>3. CASE y = x /\ peerAt[k] # "open"
      BY <1>1, <2>1, <3>3 DEF ExactAt
    <3>4. QED
      BY <3>1, <3>2, <3>3
  <2>9. QED
    BY <2>6, <2>7, <2>8
<1>4. QED
  BY <1>2, <1>3

LEMMA EchoedKeeps ==
    ASSUME EchoInv, NEW x \in Contexts, EchoDone(x) PROVE EchoInv'
<1> USE EchoAssumption DEF EchoInv, EchoTypeOK, Paired, Untouched
<1>1. /\ opType[x] = "send" /\ status[x] = "posted" /\ sock[x] \in Conns
      /\ UNCHANGED <<opType, sock, chunk, peerAt, typed, unread, serving>>
  BY ZenonT(30) DEF EchoDone
<1>2. PICK k \in Conns : k = sock[x]
  BY <1>1
<1>3. CASE peerAt[k] = "closed" /\ UNCHANGED echoed /\ \E how \in {"zero", "gone"} : Completed(x, how)
  BY <1>1, <1>2, <1>3, EndKeeps
<1>4. CASE echoed' = [echoed EXCEPT ![k] = echoed[k] \o chunk[x]] /\ Completed(x, "ok")
  <2>1. status' = [status EXCEPT ![x] = "ok"]
    BY <1>4 DEF Completed
  <2>2. echoed[k] \o chunk[x] \in Seq(Nat)
    BY ConcatProperties
  <2>3. EchoTypeOK' /\ Paired'
    BY <1>1, <1>4, <2>1, <2>2
  <2>4. Untouched'
    BY <1>1, <1>2, <1>4
  <2>5. ASSUME NEW y \in Contexts PROVE ExactAt(y)'
    <3>1. CASE y # x
      <4>1. InHand(y)' = InHand(y)
        BY <1>1, <2>1, <3>1 DEF InHand, Busy
      <4>2. sock[y] # NoConn => sock[y] # k
        BY <1>2, <3>1
      <4>3. QED
        BY <1>1, <1>4, <3>1, <4>1, <4>2, ExactKept
    <3>2. CASE y = x /\ peerAt[k] = "open"
      <4>1. InHand(x) = chunk[x] /\ InHand(x)' = <<>>
        BY <1>1, <2>1 DEF InHand, Busy
      <4>2. (echoed[k] \o chunk[x]) \o unread[k] = typed[k]
        BY <1>1, <1>2, <3>2, <4>1 DEF ExactAt
      <4>3. ((echoed[k] \o chunk[x]) \o <<>>) \o unread[k] = typed[k]
        BY <2>2, <4>2, ConcatEmptySeq
      <4>4. QED
        BY <1>1, <1>2, <1>4, <3>2, <4>1, <4>3 DEF ExactAt
    <3>3. CASE y = x /\ peerAt[k] # "open"
      BY <1>1, <1>2, <3>3 DEF ExactAt
    <3>4. QED
      BY <3>1, <3>2, <3>3
  <2>6. QED
    BY <2>3, <2>4, <2>5
<1>5. QED
  BY <1>2, <1>3, <1>4 DEF EchoDone

(* What the loop does with a completion: the context keeps its connection  *)
(* and what it has in hand, or gives the connection up. *)
LEMMA HandleKeeps ==
    ASSUME EchoInv, NEW x \in Contexts, Handle(x) PROVE EchoInv'
<1> USE EchoAssumption DEF EchoInv, EchoTypeOK, Paired, Untouched
<1>1. UNCHANGED <<chunk, peerAt, typed, unread, echoed>>
  BY DEF Handle, peerEcho
<1>2. CASE AcceptAgain(x) \/ CloseOnly(x)
  <2>1. PICK op \in {"accept", "recv", "send"}, how \in {"posted", "idle"} :
          /\ opType' = [opType EXCEPT ![x] = op] /\ status' = [status EXCEPT ![x] = how]
          /\ sock' = [sock EXCEPT ![x] = NoConn]
          /\ how = "posted" => op = "accept"
    <3>1. CASE AcceptAgain(x)
      BY <3>1 DEF AcceptAgain
    <3>2. CASE CloseOnly(x)
      <4>1. opType' = [opType EXCEPT ![x] = opType[x]]
        BY <3>2 DEF CloseOnly
      <4>2. QED
        BY <3>2, <4>1 DEF CloseOnly
    <3>3. QED
      BY <1>2, <3>1, <3>2
  <2>2. EchoTypeOK' /\ Untouched'
    BY <1>1, <2>1
  <2>4. Paired'
    BY <1>1, <2>1
  <2>3. ASSUME NEW y \in Contexts PROVE ExactAt(y)'
    <3>1. CASE y # x
      <4>1. InHand(y)' = InHand(y)
        BY <1>1, <2>1, <3>1 DEF InHand, Busy
      <4>2. QED
        BY <1>1, <2>1, <3>1, <4>1, ExactKept
    <3>2. CASE y = x
      BY <2>1, <3>2 DEF ExactAt
    <3>3. QED
      BY <3>1, <3>2
  <2>5. QED
    BY <2>2, <2>3, <2>4
<1>3. ASSUME NEW what \in {"recv", "send"}, PostOp(x, what), Kept, status[x] = "ok",
             what = "send" <=> opType[x] = "recv"
      PROVE  EchoInv'
  <2>1. /\ opType' = [opType EXCEPT ![x] = what] /\ status' = [status EXCEPT ![x] = "posted"]
        /\ sock' = sock
    BY <1>3 DEF PostOp, Kept
  <2>2. EchoTypeOK' /\ Untouched'
    BY <1>1, <1>3, <2>1
  <2>3. ASSUME NEW y \in Contexts PROVE ExactAt(y)'
    <3>1. InHand(y)' = InHand(y)
      BY <1>1, <1>3, <2>1 DEF InHand, Busy
    <3>2. QED
      BY <1>1, <2>1, <3>1, ExactKept
  <2>4. sock[x] # NoConn
    BY <1>3
  <2>5. Paired'
    BY <1>1, <2>1, <2>4
  <2>6. QED
    BY <2>2, <2>3, <2>5
<1>4. CASE OnAccept(x)
  BY <1>2, <1>3, <1>4 DEF OnAccept
<1>5. CASE OnRecv(x)
  BY <1>2, <1>3, <1>5 DEF OnRecv, AfterRecv
<1>6. CASE OnSend(x)
  BY <1>2, <1>3, <1>6 DEF OnSend
<1>7. CASE OnGone(x)
  BY <1>2, <1>7 DEF OnGone
<1>8. QED
  BY <1>4, <1>5, <1>6, <1>7 DEF Handle

LEMMA EchoStepKeeps == EchoInv /\ [EchoNext]_echoVars => EchoInv'
<1> SUFFICES ASSUME EchoInv, [EchoNext]_echoVars PROVE EchoInv'
  OBVIOUS
<1>1. CASE StopServing \/ UNCHANGED echoVars
  <2>1. UNCHANGED <<opType, status, sock, chunk, peerAt, typed, unread, echoed>>
    BY <1>1 DEF StopServing, echoVars, peerEcho
  <2>2. EchoTypeOK' /\ Paired' /\ Untouched'
    BY <2>1 DEF EchoInv, EchoTypeOK, Paired, Untouched
  <2>3. \A x \in Contexts : ExactAt(x)'
    BY <2>1 DEF EchoInv, ExactAt, InHand, Busy
  <2>4. QED
    BY <2>2, <2>3 DEF EchoInv
<1>2. QED
  BY <1>1, PeersKeep, AcceptedKeeps, ReceivedKeeps, EchoedKeeps, HandleKeeps
  DEF EchoNext, KernelStep

LEMMA ExactEverywhere == EchoInv => EchoExact
<1> SUFFICES ASSUME EchoInv, NEW x \in Contexts, NEW k \in Conns, peerAt[k] = "open", sock[x] = k
             PROVE  (echoed[k] \o Between(k)) \o unread[k] = typed[k]
  BY DEF EchoExact
<1> DEFINE busy == {y \in Contexts : sock[y] = k /\ (\/ opType[y] = "recv" /\ status[y] = "ok"
                                                     \/ opType[y] = "send" /\ status[y] = "posted")}
<1>1. k # NoConn /\ \A y \in Contexts : sock[y] = k => y = x
  BY EchoAssumption DEF EchoInv, Paired
<1>2. Between(k) = IF busy = {} THEN <<>> ELSE chunk[CHOOSE y \in busy : TRUE]
  BY DEF Between
<1>3. CASE Busy(x)
  <2>1. busy = {x}
    BY <1>1, <1>3 DEF Busy
  <2>2. (CHOOSE y \in busy : TRUE) = x
    BY <2>1
  <2>3. QED
    BY <1>1, <1>2, <1>3, <2>1, <2>2 DEF EchoInv, ExactAt, InHand
<1>4. CASE ~Busy(x)
  <2>1. busy = {}
    BY <1>1, <1>4 DEF Busy
  <2>2. QED
    BY <1>1, <1>2, <1>4, <2>1 DEF EchoInv, ExactAt, InHand
<1>5. QED
  BY <1>3, <1>4

(* A peer that is connected gets back what it sent, no byte twice, none    *)
(* lost and none overtaken, for any number of contexts and connections.    *)
THEOREM EchoIsExact == EchoSpec => []EchoExact
<1>1. QED
  BY EchoFirst, EchoStepKeeps, ExactEverywhere, PTL DEF EchoSpec

-----------------------------------------------------------------------------

(* LegacyServer. *)

Kinds == DOMAIN ReplySize
Units == Nat \X Nat

LegacyTypeOK ==
    /\ peer \in [Channels -> {"none", "open", "closed"}] /\ backlog \subseteq Channels
    /\ said \in [Channels -> Seq(Kinds)] /\ inbox \in [Channels -> Seq(Kinds)]
    /\ heard \in [Channels -> Seq(Kinds)]
    /\ sendBuf \in [Channels -> Seq(Units)] /\ wire \in [Channels -> Seq(Units)]
    /\ idle \in [Channels -> Nat]
    /\ dealing = <<>> \/ dealing \in {"add", "join", "return"} \X Channels
    /\ members \subseteq Channels
    /\ node \in [Channels -> PoolNodes \cup {Heap, NoNode}] /\ chain \subseteq PoolNodes
    /\ buffer \in [WorkServers -> SUBSET Channels] /\ clients \in [WorkServers -> SUBSET Channels]
    /\ readable \in [WorkServers -> SUBSET Channels] /\ temp \in [WorkServers -> SUBSET Channels]
    /\ watched \in [WorkServers -> SUBSET Channels] /\ due \in [WorkServers -> SUBSET Channels]
    /\ at \in [WorkServers -> {"take", "select", "read", "check", "stopped"}]
    /\ changed \in [WorkServers -> BOOLEAN]

(* The channel the boss has in hand. *)
InDeal(c) == dealing # <<>> /\ dealing[2] = c
OnServer(c) == \E w \in WorkServers : c \in buffer[w] \cup clients[w]

Places ==
    /\ \A c \in Channels : peer[c] = "none" \/ c \in backlog =>
         ~InDeal(c) /\ ~OnServer(c) /\ c \notin members
    /\ \A c \in backlog : peer[c] # "none"
    /\ dealing # <<>> /\ dealing[1] = "add" =>
         ~OnServer(dealing[2]) /\ dealing[2] \notin members
    /\ \A w \in WorkServers :
         /\ temp[w] \subseteq clients[w] /\ readable[w] \subseteq clients[w] \ temp[w]
         /\ buffer[w] \cap clients[w] = {}
         /\ buffer[w] \cup (clients[w] \ temp[w]) \subseteq members
         /\ at[w] # "read" => temp[w] = {} /\ readable[w] = {}
    /\ \A v, w \in WorkServers :
         v # w => (buffer[v] \cup clients[v]) \cap (buffer[w] \cup clients[w]) = {}

LEMMA PairNotEmpty == ASSUME NEW a, NEW b PROVE <<a, b>> # <<>>
  OBVIOUS

LEMMA Empty == <<>> \in Seq(Kinds) /\ <<>> \in Seq(Units)
  BY EmptySeq

LEMMA LegacyTypeFirst == LegacyInit => LegacyTypeOK
  BY Empty DEF LegacyInit, LegacyTypeOK

LEMMA PlacesFirst == LegacyInit => Places
  BY DEF LegacyInit, Places, InDeal, OnServer

LEMMA HeldSomewhere ==
    ASSUME Places, NEW c \in Channels PROVE Holders(c) = {} <=> ~InDeal(c) /\ ~OnServer(c)
  BY DEF Holders, Places, InDeal, OnServer

(* A block is sent only when it is full. *)
LEMMA FullBlocks ==
    ASSUME NEW n \in Nat PROVE BlockSize * (n \div BlockSize) \in 0..n
  BY LegacyAssumption

LEMMA ReplyType ==
    ASSUME LegacyTypeOK, NEW c \in Channels, NEW i \in Nat, said[c][i] \in Kinds
    PROVE  Reply(c, i) \in Seq(Units)
<1>1. ReplySize[said[c][i]] \in Nat
  BY LegacyAssumption DEF Kinds
<1>2. QED
  BY <1>1 DEF Reply, Units

(* The replies to the first n messages. *)
Replies(c, n) == [i \in 1..n |-> Reply(c, i)]

Intact(c) ==
    /\ Len(said[c]) = Len(heard[c]) + Len(inbox[c])
    /\ peer[c] # "closed" => wire[c] \o sendBuf[c] = FlattenSeq(Replies(c, Len(heard[c])))

(* The replies of one reception follow those before it. *)
LEMMA RepliesFollow ==
    ASSUME LegacyTypeOK, NEW c \in Channels, NEW n \in Nat, NEW m \in Nat,
           n + m <= Len(said[c]), NEW new, new = [i \in 1..m |-> Reply(c, (n + 1) + i - 1)]
    PROVE  /\ new \in Seq(Seq(Units)) /\ Replies(c, n) \in Seq(Seq(Units))
           /\ Replies(c, n) \o new = Replies(c, n + m)
<1>1. \A i \in 1..(n + m) : Reply(c, i) \in Seq(Units)
  <2>1. ASSUME NEW i \in 1..(n + m) PROVE Reply(c, i) \in Seq(Units)
    <3>1. said[c] \in Seq(Kinds) /\ i \in 1..Len(said[c])
      BY DEF LegacyTypeOK
    <3>2. said[c][i] \in Kinds
      BY <3>1, ElementOfSeq
    <3>3. QED
      BY <3>1, <3>2, ReplyType
  <2>2. QED
    BY <2>1
<1>2. /\ \A i \in 1..m : (n + 1) + i - 1 = n + i /\ n + i \in 1..(n + m)
      /\ \A i \in 1..n : i \in 1..(n + m)
  OBVIOUS
<1>3. new = [i \in 1..m |-> Reply(c, n + i)]
  BY <1>2
<1>4. new \in Seq(Seq(Units)) /\ Len(new) = m
  BY <1>1, <1>2, <1>3
<1>5. Replies(c, n) \in Seq(Seq(Units)) /\ Len(Replies(c, n)) = n
  BY <1>1, <1>2 DEF Replies
<1>6. Replies(c, n + m) \in Seq(Seq(Units)) /\ Len(Replies(c, n + m)) = n + m
  BY <1>1 DEF Replies
<1>7. PICK r \in Seq(Seq(Units)) : r = Replies(c, n) \o new
  BY <1>4, <1>5, ConcatProperties
<1>8. /\ Len(r) = n + m
      /\ \A i \in 1..(n + m) : r[i] = IF i <= n THEN Replies(c, n)[i] ELSE new[i - n]
  <2>1. Chained(Replies(c, n), new, r)
    BY <1>4, <1>5, <1>7, Chain
  <2>2. QED
    BY <1>4, <1>5, <2>1 DEF Chained
<1>9. ASSUME NEW i \in 1..(n + m) PROVE r[i] = Replies(c, n + m)[i]
  <2>1. CASE i <= n
    BY <1>8, <2>1 DEF Replies
  <2>2. CASE ~(i <= n)
    <3>1. i - n \in 1..m /\ n + (i - n) = i
      BY <2>2
    <3>2. new[i - n] = Reply(c, i)
      BY <1>3, <3>1
    <3>3. QED
      BY <1>8, <2>2, <3>2 DEF Replies
  <2>3. QED
    BY <2>1, <2>2
<1>10. r = Replies(c, n + m)
  BY <1>6, <1>8, <1>9, SeqEqual
<1>11. QED
  BY <1>4, <1>5, <1>7, <1>10

(* ReadMessages(), with the number of messages it handles, their sequence  *)
(* and that of the others. *)
Reads(w, c, m, now, rest) ==
    /\ m \in RecvBrings(c)
    /\ now = SubSeq(inbox[c], 1, m) /\ rest = SubSeq(inbox[c], m + 1, Len(inbox[c]))
    /\ Answer(c, FlattenSeq([i \in 1..m |-> Reply(c, (Len(heard[c]) + 1) + i - 1)]))
    /\ heard' = [heard EXCEPT ![c] = heard[c] \o now]
    /\ inbox' = [inbox EXCEPT ![c] = rest]
    /\ idle' = [idle EXCEPT ![c] = IF HeartAmong(c, m) THEN 0 ELSE idle[c]]
    /\ readable' = [readable EXCEPT ![w] = readable[w] \ {c}]
    /\ UNCHANGED <<peer, backlog, said, dealing, bossSock, count, members, node, chain, buffer,
                    clients, at, watched, changed, temp, due>>

LEMMA ReadIs ==
    ASSUME NEW w \in WorkServers, NEW c \in Channels, ReadMessages(w, c)
    PROVE  \E m, now, rest : Reads(w, c, m, now, rest)
<1>1. PICK m \in RecvBrings(c) :
        Reads(w, c, m, SubSeq(inbox[c], 1, m), SubSeq(inbox[c], m + 1, Len(inbox[c])))
  BY DEF ReadMessages, Reads, peerVars, bossVarsL, countVars, poolVars
<1>2. QED
  BY <1>1

(* The messages that were there are cut in two. *)
LEMMA ReadCut ==
    ASSUME LegacyTypeOK, NEW c \in Channels, NEW w, NEW m, NEW now, NEW rest,
           Reads(w, c, m, now, rest)
    PROVE  /\ m \in 1..Len(inbox[c]) /\ m \in Nat /\ (m >= RecvRoom \/ m = Len(inbox[c]))
           /\ now \in Seq(Kinds) /\ rest \in Seq(Kinds)
           /\ Len(now) = m /\ Len(rest) = Len(inbox[c]) - m
<1>1. inbox[c] \in Seq(Kinds) /\ Len(inbox[c]) \in Nat
  BY DEF LegacyTypeOK
<1>2. m \in 1..Len(inbox[c]) /\ m \in Nat /\ (m >= RecvRoom \/ m = Len(inbox[c]))
  BY <1>1 DEF Reads, RecvBrings
<1>3. \A i \in 1..Len(inbox[c]) : inbox[c][i] \in Kinds
  BY <1>1, ElementOfSeq
<1>4. m \in Int /\ m + 1 \in Int /\ Len(inbox[c]) \in Int /\ 1 \in Int
  BY <1>1, <1>2
<1>5. /\ \A i \in 1..m : inbox[c][i] \in Kinds
      /\ \A i \in (m + 1)..Len(inbox[c]) : inbox[c][i] \in Kinds
  BY <1>1, <1>2, <1>3
<1>6. now \in Seq(Kinds) /\ Len(now) = IF 1 <= m THEN m - 1 + 1 ELSE 0
  BY <1>4, <1>5, SubSeqProperties DEF Reads
<1>7. rest \in Seq(Kinds) /\ Len(rest) = IF m + 1 <= Len(inbox[c])
                                       THEN Len(inbox[c]) - (m + 1) + 1 ELSE 0
  BY <1>4, <1>5, SubSeqProperties DEF Reads
<1>8. QED
  BY <1>1, <1>2, <1>6, <1>7

(* What one call of RecvData() does to a connection. *)
Answered(c, k, now) ==
    /\ heard[c] \o now \in Seq(Kinds)
    /\ Len(heard[c] \o now) = Len(heard[c]) + k
    /\ \E s \in Seq(Units) : sendBuf' = [sendBuf EXCEPT ![c] = s]
    /\ \E s \in Seq(Units) : wire' = [wire EXCEPT ![c] = s]
    /\ peer[c] # "closed" =>
         wire'[c] \o sendBuf'[c] = FlattenSeq(Replies(c, Len(heard[c]) + k))

LEMMA ReadAnswers ==
    ASSUME LegacyTypeOK, NEW c \in Channels, Intact(c), NEW w \in WorkServers,
           NEW k, NEW now, NEW rest, Reads(w, c, k, now, rest)
    PROVE  Answered(c, k, now)
<1> DEFINE n == Len(heard[c])
<1>0. PICK m \in Nat : /\ m = k /\ m \in 1..Len(inbox[c]) /\ now \in Seq(Kinds) /\ Len(now) = m
  BY ReadCut
<1>1. /\ heard[c] \in Seq(Kinds) /\ inbox[c] \in Seq(Kinds) /\ n \in Nat
      /\ wire[c] \in Seq(Units) /\ sendBuf[c] \in Seq(Units) /\ wire \in [Channels -> Seq(Units)]
      /\ sendBuf \in [Channels -> Seq(Units)]
  BY DEF LegacyTypeOK
<1>2. heard[c] \o now \in Seq(Kinds) /\ Len(heard[c] \o now) = n + m
  BY <1>0, <1>1, ConcatProperties
<1>3. n + m <= Len(said[c])
  <2>1. Len(inbox[c]) \in Nat /\ Len(said[c]) = n + Len(inbox[c])
    BY <1>1, LenProperties DEF Intact
  <2>2. QED
    BY <1>0, <1>1, <2>1
<1>4. PICK new : /\ new = [i \in 1..m |-> Reply(c, (n + 1) + i - 1)]
                 /\ Answer(c, FlattenSeq(new))
  BY <1>0 DEF Reads
<1> HIDE DEF n
<1>5. /\ new \in Seq(Seq(Units)) /\ Replies(c, n) \in Seq(Seq(Units))
      /\ Replies(c, n) \o new = Replies(c, n + m)
  BY <1>1, <1>3, <1>4, RepliesFollow
<1>6. PICK fresh \in Seq(Units) : fresh = FlattenSeq(new)
  BY <1>5, FlattenType
<1>7. PICK old \in Seq(Units) : old = FlattenSeq(Replies(c, n))
  BY <1>5, FlattenType
<1>8. old \o fresh = FlattenSeq(Replies(c, n + m))
  BY <1>5, <1>6, <1>7, FlattenConcat
<1>9. PICK all \in Seq(Units) : all = sendBuf[c] \o fresh
  BY <1>1, ConcatProperties
<1>10. PICK sent \in 0..Len(all) : sent = BlockSize * (Len(all) \div BlockSize)
  <2>1. Len(all) \in Nat
    OBVIOUS
  <2>2. QED
    BY <2>1, FullBlocks
<1>11. Across(Units, wire[c], all, sent)
  BY <1>1, MovedAcross
<1>12. \/ /\ wire' = [wire EXCEPT ![c] = wire[c] \o SubSeq(all, 1, sent)]
          /\ sendBuf' = [sendBuf EXCEPT ![c] = SubSeq(all, sent + 1, Len(all))]
       \/ /\ peer[c] = "closed" /\ UNCHANGED wire
          /\ \E lost \in 0..(Len(all) - sent) :
               sendBuf' = [sendBuf EXCEPT ![c] = SubSeq(all, sent + lost + 1, Len(all))]
  BY <1>4, <1>6, <1>9, <1>10 DEF Answer, Rest
<1>13. CASE /\ wire' = [wire EXCEPT ![c] = wire[c] \o SubSeq(all, 1, sent)]
            /\ sendBuf' = [sendBuf EXCEPT ![c] = SubSeq(all, sent + 1, Len(all))]
  <2>1. PICK a \in Seq(Units), b \in Seq(Units) :
          /\ a = SubSeq(all, 1, sent) /\ b = SubSeq(all, sent + 1, Len(all))
          /\ (wire[c] \o a) \o b = (wire[c] \o <<>>) \o all
    BY <1>11 DEF Across
  <2>2. wire[c] \o a \in Seq(Units)
    BY <1>1, ConcatProperties
  <2>3. wire'[c] = wire[c] \o a /\ sendBuf'[c] = b
    BY <1>1, <1>13, <2>1
  <2>4. ASSUME peer[c] # "closed"
        PROVE  wire'[c] \o sendBuf'[c] = FlattenSeq(Replies(c, n + m))
    <3>1. wire[c] \o sendBuf[c] = old
      BY <1>7, <2>4 DEF Intact, n
    <3>2. Grouped(wire[c], sendBuf[c], fresh)
      BY <1>1, Regroup
    <3>3. wire[c] \o all = old \o fresh
      BY <1>9, <3>1, <3>2 DEF Grouped
    <3>4. wire[c] \o <<>> = wire[c]
      BY <1>1, ConcatEmptySeq
    <3>5. QED
      BY <1>8, <2>1, <2>3, <3>3, <3>4
  <2>5. QED
    BY <1>0, <1>2, <1>13, <2>1, <2>2, <2>4 DEF n, Answered
<1>14. CASE /\ peer[c] = "closed" /\ UNCHANGED wire
            /\ \E lost \in 0..(Len(all) - sent) :
                 sendBuf' = [sendBuf EXCEPT ![c] = SubSeq(all, sent + lost + 1, Len(all))]
  <2>1. PICK lost \in 0..(Len(all) - sent) :
          sendBuf' = [sendBuf EXCEPT ![c] = SubSeq(all, sent + lost + 1, Len(all))]
    BY <1>14
  <2>2. sent + lost + 1 \in Int /\ Len(all) \in Int /\ sent + lost + 1 >= 1
    OBVIOUS
  <2>3. \A i \in (sent + lost + 1)..Len(all) : all[i] \in Units
    BY <2>2, ElementOfSeq
  <2>4. SubSeq(all, sent + lost + 1, Len(all)) \in Seq(Units)
    BY <2>2, <2>3, SubSeqProperties
  <2>5. wire' = [wire EXCEPT ![c] = wire[c]]
    BY <1>1, <1>14
  <2>6. QED
    BY <1>0, <1>1, <1>2, <1>14, <2>1, <2>4, <2>5 DEF n, Answered
<1>15. QED
  BY <1>12, <1>13, <1>14

-----------------------------------------------------------------------------
(* Types. *)

LEMMA ReleaseType ==
    ASSUME LegacyTypeOK, Release
    PROVE  node' \in [Channels -> PoolNodes \cup {Heap, NoNode}] /\ chain' \subseteq PoolNodes
  BY DEF LegacyTypeOK, Release

(* What CheckAlive() does, with the channels that leave. *)
Checks(w, dt, dead) ==
    /\ dead = {c \in clients[w] : idle[c] + dt > DeadTime}
    /\ at[w] = "check" /\ at' = [at EXCEPT ![w] = "take"]
    /\ idle' = [c \in Channels |-> IF c \in clients[w] THEN idle[c] + dt ELSE idle[c]]
    /\ clients' = [clients EXCEPT ![w] = clients[w] \ dead]
    /\ changed' = [changed EXCEPT ![w] = changed[w] \/ dead # {}]
    /\ count' = count - Cardinality(dead) /\ members' = members \ dead
    /\ Release
    /\ UNCHANGED <<peer, backlog, said, inbox, heard, sendBuf, wire, dealing, buffer, watched,
                    readable, temp, due>>

LEMMA CheckIs ==
    ASSUME LegacyTypeOK, NEW w \in WorkServers, NEW dt, CheckAlive(w, dt)
    PROVE  \E dead : Checks(w, dt, dead)
<1> DEFINE gone == {c \in clients[w] : idle[c] + dt > DeadTime}
<1>1. Checks(w, dt, gone)
  BY DEF CheckAlive, Checks, peerVars, talkVars, bossVarsL, Goto, LegacyTypeOK
<1>2. QED
  BY <1>1

LEMMA LegacyTypeKeeps ==
    ASSUME LegacyTypeOK, \A c \in Channels : Intact(c), [LegacyNext]_legacyVars
    PROVE  LegacyTypeOK'
<1> USE DEF LegacyTypeOK, peerVars, talkVars, bossVarsL, countVars, workVarsL, poolVars, Goto
<1>1. ASSUME NEW c \in Channels, PeerConnect(c) \/ PeerLeaves(c) PROVE LegacyTypeOK'
  BY ZenonT(30), <1>1 DEF PeerConnect, PeerLeaves
<1>2. ASSUME NEW c \in Channels, NEW kind \in Kinds, PeerSays(c, kind) PROVE LegacyTypeOK'
  <2>1. Append(said[c], kind) \in Seq(Kinds) /\ Append(inbox[c], kind) \in Seq(Kinds)
    BY AppendProperties
  <2>2. QED
    BY <1>2, <2>1 DEF PeerSays
<1>3. ASSUME NEW c \in Channels, BossAccepts(c) PROVE LegacyTypeOK'
  BY <1>3 DEF BossAccepts, Alloc
<1>4. CASE BossInitSocket \/ BossBind \/ BossListen \/ BossCloses
  BY <1>4 DEF BossInitSocket, BossBind, BossListen, BossCloses
<1>5. CASE BossJoins
  <2>1. dealing' \in {"add", "join", "return"} \X Channels
    BY <1>5 DEF BossJoins
  <2>2. QED
    BY <1>5, <2>1 DEF BossJoins
<1>6. CASE BossReturns
  BY <1>6, ReleaseType DEF BossReturns
<1>7. ASSUME NEW w \in WorkServers, BossAdds(w) PROVE LegacyTypeOK'
  <2>1. dealing' \in {"add", "join", "return"} \X Channels /\ dealing[2] \in Channels
    BY <1>7 DEF BossAdds
  <2>2. QED
    BY <1>7, <2>1 DEF BossAdds
<1>8. ASSUME NEW w \in WorkServers, TakeBuffered(w) PROVE LegacyTypeOK'
  BY <1>8 DEF TakeBuffered, Takes
<1>9. ASSUME NEW w \in WorkServers, Select(w) PROVE LegacyTypeOK'
  BY <1>9 DEF Select
<1>10. ASSUME NEW w \in WorkServers, SelectFails(w) \/ ReadDone(w) PROVE LegacyTypeOK'
  <2>1. CASE SelectFails(w)
    BY <2>1, ReleaseType DEF SelectFails
  <2>2. CASE ReadDone(w)
    BY <2>2, ReleaseType DEF ReadDone, Erased
  <2>3. QED
    BY <1>10, <2>1, <2>2
<1>11. ASSUME NEW w \in WorkServers, NEW c \in Channels, ReadMessages(w, c) PROVE LegacyTypeOK'
  <2>0. PICK k, now, rest : Reads(w, c, k, now, rest)
    BY <1>11, ReadIs
  <2>1. /\ heard[c] \o now \in Seq(Kinds)
        /\ \E s \in Seq(Units) : sendBuf' = [sendBuf EXCEPT ![c] = s]
        /\ \E s \in Seq(Units) : wire' = [wire EXCEPT ![c] = s]
    BY <2>0, ReadAnswers DEF Answered
  <2>2. wire' \in [Channels -> Seq(Units)] /\ sendBuf' \in [Channels -> Seq(Units)]
    BY <2>1
  <2>3. rest \in Seq(Kinds)
    BY <2>0, ReadCut
  <2>4. heard' \in [Channels -> Seq(Kinds)] /\ inbox' \in [Channels -> Seq(Kinds)]
    BY <2>0, <2>1, <2>3 DEF Reads
  <2>5. idle' \in [Channels -> Nat]
    BY <2>0 DEF Reads
  <2>6. QED
    BY <2>0, <2>2, <2>4, <2>5 DEF Reads
<1>12. ASSUME NEW w \in WorkServers, NEW c \in Channels, ReadEnd(w, c) PROVE LegacyTypeOK'
  BY <1>12 DEF ReadEnd
<1>13. ASSUME NEW w \in WorkServers, NEW dt \in Ticks, CheckAlive(w, dt) PROVE LegacyTypeOK'
  <2>1. PICK dead : Checks(w, dt, dead)
    BY <1>13, CheckIs
  <2>4. dt \in Nat
    BY LegacyAssumption
  <2>5. idle' \in [Channels -> Nat]
    BY <2>1, <2>4 DEF Checks
  <2>6. changed' \in [WorkServers -> BOOLEAN]
    <3>1. CASE dead = {}
      <4>1. changed' = [changed EXCEPT ![w] = changed[w]]
        BY <2>1, <3>1 DEF Checks
      <4>2. QED
        BY <4>1
    <3>2. CASE dead # {}
      BY <2>1, <3>2 DEF Checks
    <3>3. QED
      BY <3>1, <3>2
  <2>7. QED
    BY <2>1, <2>5, <2>6, ReleaseType DEF Checks
<1>14. CASE UNCHANGED legacyVars
  BY <1>14 DEF legacyVars
<1>15. QED
  BY <1>1, <1>2, <1>3, <1>4, <1>5, <1>6, <1>7, <1>8, <1>9, <1>10, <1>11, <1>12, <1>13, <1>14
  DEF LegacyNext, Kinds

-----------------------------------------------------------------------------
(* Who holds a channel. *)

LEMMA PlacesKeep ==
    ASSUME LegacyTypeOK, Places, [LegacyNext]_legacyVars PROVE Places'
<1> USE DEF Places, InDeal, OnServer
<1> USE DEF peerVars, talkVars, bossVarsL, countVars, workVarsL, poolVars, Goto
<1>1. ASSUME NEW c \in Channels, PeerConnect(c) \/ PeerLeaves(c) PROVE Places'
  <2>1. \A d \in Channels : peer'[d] = IF d = c THEN peer'[c] ELSE peer[d]
    BY <1>1 DEF PeerConnect, PeerLeaves, LegacyTypeOK
  <2>2. CASE PeerConnect(c)
    <3>1. peer[c] = "none" /\ peer'[c] = "open" /\ backlog' = backlog \cup {c}
      BY <2>2 DEF PeerConnect, LegacyTypeOK
    <3>2. UNCHANGED <<dealing, members, buffer, clients, readable, temp, at>>
      BY <2>2 DEF PeerConnect
    <3>3. QED
      BY SMTT(30), <2>1, <3>1, <3>2 DEF LegacyTypeOK
  <2>3. CASE PeerLeaves(c)
    <3>1. peer[c] = "open" /\ peer'[c] = "closed" /\ backlog' = backlog
      BY <2>3 DEF PeerLeaves, LegacyTypeOK
    <3>2. UNCHANGED <<dealing, members, buffer, clients, readable, temp, at>>
      BY <2>3 DEF PeerLeaves
    <3>3. QED
      BY SMTT(30), <2>1, <3>1, <3>2 DEF LegacyTypeOK
  <2>4. QED
    BY <1>1, <2>2, <2>3
<1>2. ASSUME NEW c \in Channels, NEW kind \in Kinds, PeerSays(c, kind) PROVE Places'
  BY <1>2 DEF PeerSays
<1>3. ASSUME NEW c \in Channels, BossAccepts(c) PROVE Places'
  <2>1. dealing' = <<"add", c>> /\ dealing'[1] = "add" /\ dealing'[2] = c
    BY <1>3 DEF BossAccepts
  <2>2. ~OnServer(c) /\ c \notin members /\ dealing = <<>> /\ c \in backlog
    BY <1>3 DEF BossAccepts
  <2>3. peer[c] # "none"
    BY <2>2
  <2>4. QED
    BY <1>3, <2>1, <2>2, <2>3 DEF BossAccepts
<1>4. CASE BossInitSocket \/ BossBind \/ BossListen \/ BossCloses
  BY <1>4 DEF BossInitSocket, BossBind, BossListen, BossCloses
<1>5. CASE BossJoins
  <2>1. dealing' = <<"return", dealing[2]>> /\ dealing'[1] # "add" /\ dealing'[2] = dealing[2]
    BY <1>5 DEF BossJoins
  <2>2. QED
    BY <1>5, <2>1 DEF BossJoins
<1>6. CASE BossReturns
  BY <1>6 DEF BossReturns
<1>7. ASSUME NEW w \in WorkServers, BossAdds(w) PROVE Places'
  <2>1. PICK c \in Channels : c = dealing[2]
    BY <1>7 DEF BossAdds, LegacyTypeOK
  <2>2. /\ ~OnServer(c) /\ c \notin members /\ dealing # <<>>
        /\ peer[c] # "none" /\ c \notin backlog
    BY <1>7, <2>1 DEF BossAdds
  <2>3. dealing' = <<"join", c>> /\ dealing'[1] # "add" /\ dealing'[2] = c
    BY <1>7, <2>1 DEF BossAdds
  <2>4. /\ buffer' = [buffer EXCEPT ![w] = buffer[w] \cup {c}]
        /\ members' = members \cup {c}
        /\ UNCHANGED <<peer, backlog, clients, temp, readable, at>>
    BY <1>7, <2>1 DEF BossAdds
  <2>5. \A v \in WorkServers : c \notin buffer[v] \cup clients[v]
    BY <2>2
  <2>6. \A v \in WorkServers : buffer'[v] = IF v = w THEN buffer[v] \cup {c} ELSE buffer[v]
    <3> HIDE DEF Places
    <3>1. buffer \in [WorkServers -> SUBSET Channels]
      BY DEF LegacyTypeOK
    <3>2. QED
      BY <2>4, <3>1
  <2>7. \A d \in Channels : peer'[d] = "none" \/ d \in backlog' =>
           ~InDeal(d)' /\ ~OnServer(d)' /\ d \notin members'
    BY <2>2, <2>3, <2>4, <2>6
  <2>8. \A v \in WorkServers :
          /\ temp'[v] \subseteq clients'[v] /\ readable'[v] \subseteq clients'[v] \ temp'[v]
          /\ buffer'[v] \cap clients'[v] = {}
          /\ buffer'[v] \cup (clients'[v] \ temp'[v]) \subseteq members'
          /\ at'[v] # "read" => temp'[v] = {} /\ readable'[v] = {}
    BY <2>4, <2>5, <2>6
  <2>9. \A u, v \in WorkServers : u # v =>
          (buffer'[u] \cup clients'[u]) \cap (buffer'[v] \cup clients'[v]) = {}
    BY <2>4, <2>5, <2>6
  <2>10. QED
    BY <2>3, <2>4, <2>7, <2>8, <2>9
<1>8. ASSUME NEW w \in WorkServers, TakeBuffered(w) PROVE Places'
  BY SMTT(30), <1>8 DEF TakeBuffered, LegacyTypeOK
<1>9. ASSUME NEW w \in WorkServers, Select(w) PROVE Places'
  <2>1. PICK found : /\ found \subseteq clients[w]
                     /\ readable' = [readable EXCEPT ![w] = found]
    BY <1>9 DEF Select
  <2>2. at[w] = "select" /\ temp[w] = {}
    BY <1>9 DEF Select
  <2>3. QED
    BY <1>9, <2>1, <2>2 DEF Select, LegacyTypeOK
<1>10. ASSUME NEW w \in WorkServers, SelectFails(w) PROVE Places'
  BY <1>10 DEF SelectFails, LegacyTypeOK
<1>11. ASSUME NEW w \in WorkServers, ReadDone(w) PROVE Places'
  BY <1>11 DEF ReadDone, Erased, LegacyTypeOK
<1>12. ASSUME NEW w \in WorkServers, NEW c \in Channels, ReadMessages(w, c) PROVE Places'
  <2>1. /\ readable' = [readable EXCEPT ![w] = readable[w] \ {c}]
        /\ UNCHANGED <<peer, backlog, dealing, members, buffer, clients, at, temp>>
    BY <1>12 DEF ReadMessages
  <2>2. QED
    BY <2>1 DEF LegacyTypeOK
<1>13. ASSUME NEW w \in WorkServers, NEW c \in Channels, ReadEnd(w, c) PROVE Places'
  BY SMTT(30), <1>13 DEF ReadEnd, LegacyTypeOK
<1>14. ASSUME NEW w \in WorkServers, NEW dt \in Ticks, CheckAlive(w, dt) PROVE Places'
  <2>1. PICK dead : Checks(w, dt, dead)
    BY <1>14, CheckIs
  <2>2. dead \subseteq clients[w] /\ temp[w] = {} /\ readable[w] = {}
    BY <2>1 DEF Checks
  <2>3. QED
    BY SMTT(30), <2>1, <2>2 DEF Checks, LegacyTypeOK
<1>15. CASE UNCHANGED legacyVars
  BY <1>15 DEF legacyVars
<1>16. QED
  BY <1>1, <1>2, <1>3, <1>4, <1>5, <1>6, <1>7, <1>8, <1>9, <1>10, <1>11, <1>12, <1>13, <1>14,
     <1>15
  DEF LegacyNext, Kinds

-----------------------------------------------------------------------------
(* Replies. *)

LEMMA IntactSame ==
    ASSUME NEW c \in Channels, Intact(c), UNCHANGED <<said, heard, inbox, wire, sendBuf>>,
           peer'[c] # "closed" => peer[c] # "closed"
    PROVE  Intact(c)'
  BY DEF Intact, Replies, Reply

LEMMA IntactSays ==
    ASSUME LegacyTypeOK, NEW c \in Channels, Intact(c), NEW d \in Channels, NEW kind \in Kinds,
           PeerSays(d, kind)
    PROVE  Intact(c)'
<1>1. /\ said' = [said EXCEPT ![d] = Append(said[d], kind)]
      /\ inbox' = [inbox EXCEPT ![d] = Append(inbox[d], kind)]
      /\ UNCHANGED <<peer, heard, wire, sendBuf>>
  BY DEF PeerSays, talkVars
<1>2. /\ said[c] \in Seq(Kinds) /\ inbox[c] \in Seq(Kinds) /\ heard[c] \in Seq(Kinds)
      /\ said \in [Channels -> Seq(Kinds)] /\ inbox \in [Channels -> Seq(Kinds)]
      /\ heard \in [Channels -> Seq(Kinds)]
  BY DEF LegacyTypeOK
<1>3. CASE c # d
  <2>1. said'[c] = said[c] /\ inbox'[c] = inbox[c]
    BY <1>1, <1>2, <1>3
  <2>2. QED
    BY <1>1, <2>1 DEF Intact, Replies, Reply
<1>4. CASE c = d
  <2>1. said'[c] = Append(said[c], kind) /\ inbox'[c] = Append(inbox[c], kind)
    BY <1>1, <1>2, <1>4
  <2>2. /\ Len(said'[c]) = Len(said[c]) + 1 /\ Len(inbox'[c]) = Len(inbox[c]) + 1
        /\ \A i \in 1..Len(said[c]) : said'[c][i] = said[c][i]
    BY <1>2, <2>1, AppendProperties
  <2>3. Len(heard[c]) \in Nat /\ Len(inbox[c]) \in Nat /\ Len(said[c]) \in Nat
    BY <1>2, LenProperties
  <2>4. Len(said[c]) = Len(heard[c]) + Len(inbox[c])
    BY DEF Intact
  <2>5. \A i \in 1..Len(heard[c]) : said'[c][i] = said[c][i]
    <3>1. \A i \in 1..Len(heard[c]) : i \in 1..Len(said[c])
      BY <1>2, <2>3, <2>4
    <3>2. QED
      BY <2>2, <3>1
  <2>6. Replies(c, Len(heard[c]))' = Replies(c, Len(heard[c]))
    BY <1>1, <2>5 DEF Replies, Reply
  <2>7. (peer[c] # "closed" => wire[c] \o sendBuf[c] = FlattenSeq(Replies(c, Len(heard[c]))))'
    BY <1>1, <2>6 DEF Intact
  <2>8. Len(said'[c]) = Len(heard'[c]) + Len(inbox'[c])
    BY <1>1, <1>2, <2>2, <2>3, <2>4
  <2>9. QED
    BY <2>7, <2>8 DEF Intact
<1>5. QED
  BY <1>3, <1>4

LEMMA IntactReads ==
    ASSUME LegacyTypeOK, NEW c \in Channels, Intact(c), NEW w \in WorkServers,
           NEW d \in Channels, Intact(d), ReadMessages(w, d)
    PROVE  Intact(c)'
<1>0. PICK k, now, rest : Reads(w, d, k, now, rest)
  BY ReadIs
<1>1. /\ heard' = [heard EXCEPT ![d] = heard[d] \o now]
      /\ inbox' = [inbox EXCEPT ![d] = rest]
      /\ UNCHANGED <<peer, said>>
  BY <1>0 DEF Reads
<1>2. /\ Len(heard[d] \o now) = Len(heard[d]) + k
      /\ \E s \in Seq(Units) : sendBuf' = [sendBuf EXCEPT ![d] = s]
      /\ \E s \in Seq(Units) : wire' = [wire EXCEPT ![d] = s]
      /\ peer[d] # "closed" =>
            wire'[d] \o sendBuf'[d] = FlattenSeq(Replies(d, Len(heard[d]) + k))
  <2>1. Answered(d, k, now)
    BY <1>0, ReadAnswers
  <2>2. QED
    BY <2>1 DEF Answered
<1>3. /\ heard \in [Channels -> Seq(Kinds)] /\ inbox \in [Channels -> Seq(Kinds)]
      /\ sendBuf \in [Channels -> Seq(Units)] /\ wire \in [Channels -> Seq(Units)]
  BY DEF LegacyTypeOK
<1>4. CASE c # d
  <2>1. /\ heard'[c] = heard[c] /\ inbox'[c] = inbox[c]
        /\ sendBuf'[c] = sendBuf[c] /\ wire'[c] = wire[c]
    BY <1>1, <1>2, <1>3, <1>4
  <2>2. QED
    BY <1>1, <2>1 DEF Intact, Replies, Reply
<1>5. CASE c = d
  <2>1. heard'[c] = heard[c] \o now /\ inbox'[c] = rest
    BY <1>1, <1>3, <1>5
  <2>2. Len(heard'[c]) = Len(heard[c]) + k /\ Len(inbox'[c]) = Len(inbox[c]) - k /\ k \in Nat
    <3>1. Len(rest) = Len(inbox[d]) - k /\ k \in Nat
      BY <1>0, ReadCut
    <3>2. QED
      BY <1>2, <1>5, <2>1, <3>1
  <2>3. Len(heard[c]) \in Nat /\ Len(inbox[c]) \in Nat
    BY <1>3, LenProperties
  <2>4. \A n : Replies(c, n)' = Replies(c, n)
    BY <1>1 DEF Replies, Reply
  <2>5. (peer[c] # "closed" => wire[c] \o sendBuf[c] = FlattenSeq(Replies(c, Len(heard[c]))))'
    BY <1>1, <1>2, <1>5, <2>2, <2>4
  <2>6. Len(said'[c]) = Len(heard'[c]) + Len(inbox'[c])
    <3>1. Len(said[c]) = Len(heard[c]) + Len(inbox[c]) /\ said'[c] = said[c]
      BY <1>1 DEF Intact
    <3>2. PICK h \in Nat, i \in Nat, j \in Nat :
            h = Len(heard[c]) /\ i = Len(inbox[c]) /\ j = k
      BY <2>2, <2>3
    <3>3. Len(heard'[c]) = h + j /\ Len(inbox'[c]) = i - j
      BY <2>2, <3>2
    <3>4. h + i = (h + j) + (i - j)
      OBVIOUS
    <3>5. Len(said'[c]) = h + i
      BY <3>1, <3>2
    <3>6. QED
      BY <3>3, <3>4, <3>5
  <2>7. QED
    BY <2>5, <2>6 DEF Intact
<1>6. QED
  BY <1>4, <1>5

LEMMA IntactKeeps ==
    ASSUME LegacyTypeOK, NEW c \in Channels, \A d \in Channels : Intact(d),
           [LegacyNext]_legacyVars
    PROVE  Intact(c)'
<1> USE DEF peerVars, talkVars, bossVarsL, countVars, workVarsL, poolVars
<1>1. ASSUME UNCHANGED <<peer, said, heard, inbox, wire, sendBuf>> PROVE Intact(c)'
  BY <1>1, IntactSame
<1>2. ASSUME NEW d \in Channels, PeerConnect(d) PROVE Intact(c)'
  <2>1. peer'[c] # "closed" => peer[c] # "closed"
    BY <1>2 DEF PeerConnect, LegacyTypeOK
  <2>2. QED
    BY <1>2, <2>1, IntactSame DEF PeerConnect
<1>3. ASSUME NEW d \in Channels, PeerLeaves(d) PROVE Intact(c)'
  <2>1. peer'[c] # "closed" => peer[c] # "closed"
    BY <1>3 DEF PeerLeaves, LegacyTypeOK
  <2>2. QED
    BY <1>3, <2>1, IntactSame DEF PeerLeaves
<1>4. ASSUME NEW d \in Channels, BossAccepts(d) PROVE Intact(c)'
  BY <1>1, <1>4 DEF BossAccepts
<1>5. CASE BossInitSocket \/ BossBind \/ BossListen \/ BossCloses \/ BossJoins \/ BossReturns
  BY <1>1, <1>5 DEF BossInitSocket, BossBind, BossListen, BossCloses, BossJoins, BossReturns
<1>6. ASSUME NEW w \in WorkServers,
             BossAdds(w) \/ TakeBuffered(w) \/ Select(w) \/ SelectFails(w) \/ ReadDone(w)
      PROVE  Intact(c)'
  BY <1>1, <1>6 DEF BossAdds, TakeBuffered, Select, SelectFails, ReadDone
<1>7. ASSUME NEW w \in WorkServers, NEW d \in Channels, ReadEnd(w, d) PROVE Intact(c)'
  BY <1>1, <1>7 DEF ReadEnd
<1>8. ASSUME NEW w \in WorkServers, NEW dt \in Ticks, CheckAlive(w, dt) PROVE Intact(c)'
  BY <1>1, <1>8 DEF CheckAlive
<1>9. CASE UNCHANGED legacyVars
  BY <1>1, <1>9 DEF legacyVars
<1>10. QED
  BY <1>2, <1>3, <1>4, <1>5, <1>6, <1>7, <1>8, <1>9, IntactSays, IntactReads
  DEF LegacyNext, Kinds

LEMMA IntactFirst == LegacyInit => \A c \in Channels : Intact(c)
<1> SUFFICES ASSUME LegacyInit, NEW c \in Channels PROVE Intact(c)
  OBVIOUS
<1>1. /\ said[c] = <<>> /\ inbox[c] = <<>> /\ heard[c] = <<>>
      /\ wire[c] = <<>> /\ sendBuf[c] = <<>>
  BY DEF LegacyInit
<1>2. Len(<<>>) = 0
  BY EmptySeq
<1>3. Replies(c, 0) = <<>>
  BY DEF Replies
<1>4. <<>> \o <<>> = <<>>
  BY ConcatEmptySeq, EmptySeq
<1>5. QED
  BY <1>1, <1>2, <1>3, <1>4, FlattenNothing DEF Intact
(* The replies for a peer that has closed its end may be cut: for one that is open they are not. *)
LEMMA IntactReplies ==
    ASSUME LegacyTypeOK, \A c \in Channels : Intact(c) PROVE RepliesIntact
<1> SUFFICES ASSUME NEW c \in Channels, peer[c] = "open"
             PROVE  wire[c] \o sendBuf[c] =
                      FlattenSeq([i \in 1..Len(heard[c]) |-> Reply(c, i)])
  BY DEF RepliesIntact
<1>1. wire[c] \o sendBuf[c] = FlattenSeq(Replies(c, Len(heard[c])))
  BY DEF Intact
<1>2. QED
  BY <1>1 DEF Replies

-----------------------------------------------------------------------------
(* Heart beats. *)

(* The set of select() is the clients unless they changed, and a heart     *)
(* beat it saw at the front is still to be read until the countdown has    *)
(* been reset, or the connection turns out to be over.                     *)
Watches(w) ==
    /\ temp[w] # {} => changed[w]
    /\ at[w] # "stopped" /\ ~changed[w] => watched[w] = clients[w]
Beats(w) ==
    \A c \in due[w] \cap clients[w] :
      /\ at[w] = "read" => \/ idle[c] = 0 \/ c \in temp[w]
                           \/ c \in readable[w] /\ HeartAmong(c, RecvRoom)
      /\ at[w] = "check" => idle[c] = 0

LEMMA BeatsSeen == (\A w \in WorkServers : Beats(w)) => HeartSeen
  BY DEF Beats, HeartSeen

LEMMA BeatsFirst == LegacyInit => \A w \in WorkServers : Watches(w) /\ Beats(w)
  BY DEF LegacyInit, Watches, Beats

LEMMA WatchesKeep ==
    ASSUME LegacyTypeOK, Places, NEW w \in WorkServers, Watches(w), [LegacyNext]_legacyVars
    PROVE  Watches(w)'
<1> USE DEF peerVars, talkVars, bossVarsL, countVars, workVarsL, poolVars, Goto
<1>1. ASSUME UNCHANGED <<temp, changed, at, watched, clients>> PROVE Watches(w)'
  BY <1>1 DEF Watches
<1>2. ASSUME NEW c \in Channels,
             PeerConnect(c) \/ PeerLeaves(c) \/ BossAccepts(c)
               \/ \E kind \in Kinds : PeerSays(c, kind)
      PROVE  Watches(w)'
  BY <1>1, <1>2 DEF PeerConnect, PeerLeaves, BossAccepts, PeerSays
<1>3. CASE BossInitSocket \/ BossBind \/ BossListen \/ BossJoins \/ BossReturns \/ BossCloses
  BY <1>1, <1>3 DEF BossInitSocket, BossBind, BossListen, BossJoins, BossReturns, BossCloses
<1>4. ASSUME NEW v \in WorkServers, BossAdds(v) PROVE Watches(w)'
  BY <1>1, <1>4 DEF BossAdds
<1>5. ASSUME NEW v \in WorkServers, TakeBuffered(v) PROVE Watches(w)'
  <2>1. CASE v # w
    BY <1>5, <2>1 DEF TakeBuffered, Watches, LegacyTypeOK
  <2>2. CASE v = w
    <3>1. /\ at[w] = "take" /\ at'[w] = "select" /\ clients'[w] = clients[w] \cup buffer[w]
          /\ changed'[w] <=> changed[w] \/ buffer[w] # {}
          /\ temp' = temp /\ watched' = watched
      <4>1. changed'[w] <=> changed[w] \/ buffer[w] # {}
        <5>1. changed' = [changed EXCEPT ![w] = changed[w] \/ buffer[w] # {}]
          BY <1>5, <2>2 DEF TakeBuffered, Takes
        <5>2. QED
          BY <5>1 DEF LegacyTypeOK
      <4>2. QED
        BY <1>5, <2>2, <4>1 DEF TakeBuffered, LegacyTypeOK
    <3>2. QED
      BY <3>1 DEF Watches
  <2>3. QED
    BY <2>1, <2>2
<1>6. ASSUME NEW v \in WorkServers, Select(v) PROVE Watches(w)'
  <2>1. CASE v # w
    BY <1>6, <2>1 DEF Select, Watches, LegacyTypeOK
  <2>2. CASE v = w
    <3>1. temp' = temp /\ clients' = clients /\ at[w] = "select"
          /\ watched'[w] = IF changed[w] THEN clients[w] ELSE watched[w]
      BY <1>6, <2>2 DEF Select, LegacyTypeOK
    <3>2. temp[w] = {}
      BY <3>1 DEF Places
    <3>3. QED
      BY <3>1, <3>2 DEF Watches
  <2>3. QED
    BY <2>1, <2>2
<1>7. ASSUME NEW v \in WorkServers, SelectFails(v) PROVE Watches(w)'
  BY <1>7 DEF SelectFails, Watches, LegacyTypeOK
<1>8. ASSUME NEW v \in WorkServers, ReadDone(v) PROVE Watches(w)'
  BY <1>8 DEF ReadDone, Erased, Watches, LegacyTypeOK
<1>9. ASSUME NEW v \in WorkServers, NEW c \in Channels, ReadMessages(v, c) PROVE Watches(w)'
  BY <1>1, <1>9 DEF ReadMessages
<1>10. ASSUME NEW v \in WorkServers, NEW c \in Channels, ReadEnd(v, c) PROVE Watches(w)'
  BY <1>10 DEF ReadEnd, Watches, LegacyTypeOK
<1>11. ASSUME NEW v \in WorkServers, NEW dt \in Ticks, CheckAlive(v, dt) PROVE Watches(w)'
  <2>1. PICK dead : Checks(v, dt, dead)
    BY <1>11, CheckIs
  <2>2. CASE v # w
    BY <2>1, <2>2 DEF Checks, Watches, LegacyTypeOK
  <2>3. CASE v = w /\ dead = {}
    <3>1. /\ clients'[w] = clients[w] /\ temp' = temp /\ watched' = watched
          /\ at[w] = "check" /\ at'[w] = "take"
      BY <2>1, <2>3 DEF Checks, LegacyTypeOK
    <3>2. changed'[w] <=> changed[w]
      <4>1. changed' = [changed EXCEPT ![w] = changed[w]]
        BY <2>1, <2>3 DEF Checks, LegacyTypeOK
      <4>2. QED
        BY <4>1 DEF LegacyTypeOK
    <3>3. QED
      BY <3>1, <3>2 DEF Watches
  <2>4. CASE v = w /\ dead # {}
    <3>1. changed'[w]
      BY <2>1, <2>4 DEF Checks, LegacyTypeOK
    <3>2. QED
      BY <3>1 DEF Watches
  <2>5. QED
    BY <2>2, <2>3, <2>4
<1>12. CASE UNCHANGED legacyVars
  BY <1>1, <1>12 DEF legacyVars
<1>13. QED
  BY <1>2, <1>3, <1>4, <1>5, <1>6, <1>7, <1>8, <1>9, <1>10, <1>11, <1>12
  DEF LegacyNext, Kinds

(* A message that is there stays in its place when another follows. *)
LEMMA SaysMore ==
    ASSUME LegacyTypeOK, NEW d \in Channels, NEW kind \in Kinds, PeerSays(d, kind),
           NEW c \in Channels, HeartAmong(c, RecvRoom)
    PROVE  HeartAmong(c, RecvRoom)'
<1>1. inbox' = [inbox EXCEPT ![d] = Append(inbox[d], kind)] /\ inbox \in [Channels -> Seq(Kinds)]
  BY DEF PeerSays, LegacyTypeOK
<1>2. CASE c # d
  <2>1. inbox'[c] = inbox[c]
    BY <1>1, <1>2
  <2>2. QED
    BY <2>1 DEF HeartAmong
<1>3. CASE c = d
  <2>1. inbox'[c] = Append(inbox[c], kind) /\ inbox[c] \in Seq(Kinds)
    BY <1>1, <1>3
  <2>2. PICK i \in 1..Len(inbox[c]) : i <= RecvRoom /\ inbox[c][i] = Heart
    BY <2>1 DEF HeartAmong
  <2>3. /\ i \in 1..Len(inbox'[c]) /\ inbox'[c][i] = Heart /\ inbox'[c] \in Seq(Kinds)
    BY <2>1, <2>2, AppendProperties
  <2>4. i \in DOMAIN inbox'[c]
    BY <2>3
  <2>5. QED
    BY <2>2, <2>3, <2>4 DEF HeartAmong
<1>4. QED
  BY <1>2, <1>3

LEMMA BeatIsThere ==
    ASSUME LegacyTypeOK, NEW c \in Channels, HeartAmong(c, RecvRoom)
    PROVE  inbox[c] # <<>>
  BY EmptySeq DEF HeartAmong, LegacyTypeOK

(* One recv() completes what was at the front. *)
LEMMA BeatIsHeard ==
    ASSUME LegacyTypeOK, NEW c \in Channels, NEW w, NEW k, NEW now, NEW rest,
           Reads(w, c, k, now, rest), HeartAmong(c, RecvRoom)
    PROVE  HeartAmong(c, k)
<1>1. PICK i \in 1..Len(inbox[c]) : i <= RecvRoom /\ inbox[c][i] = Heart /\ i \in DOMAIN inbox[c]
  BY DEF HeartAmong, LegacyTypeOK
<1>2. k \in Nat /\ (k >= RecvRoom \/ k = Len(inbox[c])) /\ Len(inbox[c]) \in Nat
  BY ReadCut, LenProperties DEF LegacyTypeOK
<1>3. i <= k
  BY <1>1, <1>2, LegacyAssumption
<1>4. QED
  BY <1>1, <1>3 DEF HeartAmong

LEMMA BeatsKeep ==
    ASSUME LegacyTypeOK, Places, NEW w \in WorkServers, Watches(w), Beats(w),
           [LegacyNext]_legacyVars
    PROVE  Beats(w)'
<1> USE DEF peerVars, talkVars, bossVarsL, countVars, workVarsL, poolVars, Goto
<1>1. ASSUME UNCHANGED <<due, clients, at, idle, readable, temp, inbox>> PROVE Beats(w)'
  BY <1>1 DEF Beats, HeartAmong
<1>2. ASSUME NEW c \in Channels, PeerConnect(c) \/ PeerLeaves(c) \/ BossAccepts(c)
      PROVE  Beats(w)'
  BY <1>1, <1>2 DEF PeerConnect, PeerLeaves, BossAccepts
<1>3. ASSUME NEW c \in Channels, NEW kind \in Kinds, PeerSays(c, kind) PROVE Beats(w)'
  <2>1. UNCHANGED <<due, clients, at, idle, readable, temp>>
    BY <1>3 DEF PeerSays
  <2>2. \A d \in Channels : HeartAmong(d, RecvRoom) => HeartAmong(d, RecvRoom)'
    BY <1>3, SaysMore
  <2>3. clients[w] \subseteq Channels
    BY DEF LegacyTypeOK
  <2>4. QED
    BY <2>1, <2>2, <2>3 DEF Beats
<1>4. CASE BossInitSocket \/ BossBind \/ BossListen \/ BossJoins \/ BossReturns \/ BossCloses
  BY <1>1, <1>4 DEF BossInitSocket, BossBind, BossListen, BossJoins, BossReturns, BossCloses
<1>5. ASSUME NEW v \in WorkServers, BossAdds(v) PROVE Beats(w)'
  BY <1>1, <1>5 DEF BossAdds
<1>6. ASSUME NEW v \in WorkServers, TakeBuffered(v) PROVE Beats(w)'
  BY <1>6 DEF TakeBuffered, Beats, HeartAmong, LegacyTypeOK
<1>7. ASSUME NEW v \in WorkServers, Select(v) PROVE Beats(w)'
  <2>1. CASE v # w
    BY <1>7, <2>1 DEF Select, Beats, HeartAmong, LegacyTypeOK
  <2>2. CASE v = w
    <3>1. /\ at[w] = "select" /\ at'[w] = "read" /\ clients' = clients /\ inbox' = inbox
          /\ due'[w] = {c \in clients[w] : HeartAmong(c, RecvRoom)}
      BY <1>7, <2>2 DEF Select, LegacyTypeOK
    <3>2. readable'[w] = {c \in clients[w] : inbox[c] # <<>> \/ peer[c] = "closed"}
      BY <1>7, <2>2, <3>1 DEF Select, Watches, LegacyTypeOK
    <3>3. clients[w] \subseteq Channels
      BY DEF LegacyTypeOK
    <3>4. \A c \in Channels : HeartAmong(c, RecvRoom)' <=> HeartAmong(c, RecvRoom)
      BY <3>1 DEF HeartAmong
    <3>5. QED
      BY <3>1, <3>2, <3>3, <3>4, BeatIsThere DEF Beats
  <2>3. QED
    BY <2>1, <2>2
<1>8. ASSUME NEW v \in WorkServers, SelectFails(v) PROVE Beats(w)'
  BY <1>8 DEF SelectFails, Beats, HeartAmong, LegacyTypeOK
<1>9. ASSUME NEW v \in WorkServers, ReadDone(v) PROVE Beats(w)'
  <2>1. /\ at[v] = "read" /\ readable[v] = {} /\ at' = [at EXCEPT ![v] = "check"]
        /\ clients' = [clients EXCEPT ![v] = clients[v] \ temp[v]]
        /\ temp' = [temp EXCEPT ![v] = {}] /\ UNCHANGED <<idle, due, readable, inbox>>
    BY <1>9 DEF ReadDone, Erased
  <2>2. CASE v # w
    BY <2>1, <2>2 DEF Beats, HeartAmong, LegacyTypeOK
  <2>3. CASE v = w
    BY <2>1, <2>3 DEF Beats, LegacyTypeOK
  <2>4. QED
    BY <2>2, <2>3
<1>10. ASSUME NEW v \in WorkServers, NEW d \in Channels, ReadMessages(v, d) PROVE Beats(w)'
  <2>0. PICK k, now, rest : Reads(v, d, k, now, rest)
    BY <1>10, ReadIs
  <2>1. /\ idle' = [idle EXCEPT ![d] = IF HeartAmong(d, k) THEN 0 ELSE idle[d]]
        /\ inbox' = [inbox EXCEPT ![d] = rest]
        /\ readable' = [readable EXCEPT ![v] = readable[v] \ {d}]
        /\ UNCHANGED <<due, clients, at, temp>>
    BY <2>0 DEF Reads
  <2>2. \A c \in Channels : c # d => idle'[c] = idle[c] /\ inbox'[c] = inbox[c]
    BY <2>1 DEF LegacyTypeOK
  <2>3. \A c \in Channels : c # d => (HeartAmong(c, RecvRoom)' <=> HeartAmong(c, RecvRoom))
    BY <2>2 DEF HeartAmong
  <2>4. idle'[d] = 0 \/ (idle'[d] = idle[d] /\ ~HeartAmong(d, RecvRoom))
    <3>1. HeartAmong(d, RecvRoom) => HeartAmong(d, k)
      BY <2>0, BeatIsHeard
    <3>2. idle'[d] = IF HeartAmong(d, k) THEN 0 ELSE idle[d]
      BY <2>1 DEF LegacyTypeOK
    <3>3. QED
      BY <3>1, <3>2
  <2>5. \A c \in Channels : c # d /\ c \in readable[w] => c \in readable'[w]
    BY <2>1 DEF LegacyTypeOK
  <2>6. clients[w] \subseteq Channels
    BY DEF LegacyTypeOK
  <2>7. QED
    BY <2>1, <2>2, <2>3, <2>4, <2>5, <2>6 DEF Beats
<1>11. ASSUME NEW v \in WorkServers, NEW d \in Channels, ReadEnd(v, d) PROVE Beats(w)'
  <2>1. /\ readable' = [readable EXCEPT ![v] = readable[v] \ {d}]
        /\ temp' = [temp EXCEPT ![v] = temp[v] \cup {d}] /\ d \in readable[v]
        /\ UNCHANGED <<idle, inbox, due, clients, at>>
    BY <1>11 DEF ReadEnd
  <2>2. \A c \in Channels : HeartAmong(c, RecvRoom)' <=> HeartAmong(c, RecvRoom)
    BY <2>1 DEF HeartAmong
  <2>3. CASE v # w
    <3>1. temp'[w] = temp[w] /\ readable'[w] = readable[w]
      BY <2>1, <2>3 DEF LegacyTypeOK
    <3>2. clients[w] \subseteq Channels
      BY DEF LegacyTypeOK
    <3>3. QED
      BY <2>1, <2>2, <3>1, <3>2 DEF Beats
  <2>4. CASE v = w
    <3>1. temp'[w] = temp[w] \cup {d} /\ readable'[w] = readable[w] \ {d}
      BY <2>1, <2>4 DEF LegacyTypeOK
    <3>2. clients[w] \subseteq Channels
      BY DEF LegacyTypeOK
    <3>3. QED
      BY <2>1, <2>2, <3>1, <3>2 DEF Beats
  <2>5. QED
    BY <2>3, <2>4
<1>12. ASSUME NEW v \in WorkServers, NEW dt \in Ticks, CheckAlive(v, dt) PROVE Beats(w)'
  <2>1. PICK dead : Checks(v, dt, dead)
    BY <1>12, CheckIs
  <2>2. CASE v # w
    <3>1. \A c \in clients[w] : c \in Channels /\ c \notin clients[v]
      BY <2>2 DEF Places, LegacyTypeOK
    <3>2. \A c \in clients[w] : idle'[c] = idle[c]
      BY <2>1, <3>1 DEF Checks
    <3>3. clients'[w] = clients[w] /\ at'[w] = at[w] /\ UNCHANGED <<due, readable, temp, inbox>>
      BY <2>1, <2>2 DEF Checks, LegacyTypeOK
    <3>4. QED
      BY <3>2, <3>3 DEF Beats, HeartAmong
  <2>3. CASE v = w
    BY <2>1, <2>3 DEF Checks, Beats, LegacyTypeOK
  <2>4. QED
    BY <2>2, <2>3
<1>13. CASE UNCHANGED legacyVars
  BY <1>1, <1>13 DEF legacyVars
<1>14. QED
  BY <1>2, <1>3, <1>4, <1>5, <1>6, <1>7, <1>8, <1>9, <1>10, <1>11, <1>12, <1>13
  DEF LegacyNext, Kinds
-----------------------------------------------------------------------------
(* The number of clients. *)

(* What the boss has dealt out and not counted. *)
Uncounted == IF dealing # <<>> /\ dealing[1] = "join" THEN 1 ELSE 0
Counted ==
    /\ count \in Int /\ IsFiniteSet(members)
    /\ count + Uncounted = Cardinality(members)

LEMMA CountedMatches == Counted => CountMatches
  BY DEF Counted, CountMatches, Uncounted

LEMMA CountedFirst == LegacyInit => Counted
  BY FS_EmptySet DEF LegacyInit, Counted, Uncounted

LEMMA CountedKeeps ==
    ASSUME LegacyTypeOK, Places, Counted, [LegacyNext]_legacyVars PROVE Counted'
<1> USE DEF peerVars, talkVars, bossVarsL, countVars, workVarsL, poolVars
<1>1. ASSUME UNCHANGED <<count, members, dealing>> PROVE Counted'
  BY <1>1 DEF Counted, Uncounted
<1>2. ASSUME UNCHANGED <<count, members>>, Uncounted' = Uncounted PROVE Counted'
  BY <1>2 DEF Counted
<1>3. ASSUME NEW c \in Channels,
             PeerConnect(c) \/ PeerLeaves(c) \/ \E kind \in Kinds : PeerSays(c, kind)
      PROVE  Counted'
  BY <1>1, <1>3 DEF PeerConnect, PeerLeaves, PeerSays
<1>4. ASSUME NEW c \in Channels, BossAccepts(c) PROVE Counted'
  <2>1. dealing = <<>> /\ dealing'[1] = "add"
    BY <1>4 DEF BossAccepts
  <2>2. QED
    BY <1>2, <1>4, <2>1 DEF BossAccepts, Uncounted
<1>5. CASE BossInitSocket \/ BossBind \/ BossListen \/ BossCloses
  BY <1>1, <1>5 DEF BossInitSocket, BossBind, BossListen, BossCloses
<1>6. CASE BossReturns
  <2>1. dealing[1] = "return" /\ dealing' = <<>>
    BY <1>6 DEF BossReturns
  <2>2. QED
    BY <1>2, <1>6, <2>1 DEF BossReturns, Uncounted
<1>7. CASE BossJoins
  <2>1. /\ dealing # <<>> /\ dealing[1] = "join" /\ dealing' = <<"return", dealing[2]>>
        /\ count' = count + 1 /\ members' = members
    BY <1>7 DEF BossJoins
  <2>2. Uncounted = 1 /\ Uncounted' = 0
    BY <2>1 DEF Uncounted
  <2>3. QED
    BY <2>1, <2>2 DEF Counted
<1>8. ASSUME NEW w \in WorkServers, BossAdds(w) PROVE Counted'
  <2>1. /\ dealing # <<>> /\ dealing[1] = "add" /\ dealing' = <<"join", dealing[2]>>
        /\ count' = count /\ members' = members \cup {dealing[2]}
    BY <1>8 DEF BossAdds
  <2>2. dealing[2] \notin members
    BY <2>1 DEF Places
  <2>3. Uncounted = 0 /\ Uncounted' = 1
    BY <2>1 DEF Uncounted
  <2>4. /\ IsFiniteSet(members \cup {dealing[2]})
        /\ Cardinality(members \cup {dealing[2]}) = Cardinality(members) + 1
    BY <2>2, FS_AddElement DEF Counted
  <2>5. QED
    BY <2>1, <2>3, <2>4 DEF Counted
<1>9. ASSUME NEW w \in WorkServers,
             TakeBuffered(w) \/ Select(w) \/ SelectFails(w) \/ ReadDone(w)
      PROVE  Counted'
  <2>1. UNCHANGED <<count, members, dealing>>
    BY <1>9 DEF TakeBuffered, Select, SelectFails, ReadDone
  <2>2. QED
    BY <1>1, <2>1
<1>10. ASSUME NEW w \in WorkServers, NEW c \in Channels, ReadMessages(w, c) PROVE Counted'
  BY <1>1, <1>10 DEF ReadMessages
<1>11. ASSUME NEW w \in WorkServers, NEW c \in Channels, ReadEnd(w, c) PROVE Counted'
  <2>1. count' = count - 1 /\ members' = members \ {c} /\ dealing' = dealing
    BY <1>11 DEF ReadEnd
  <2>2. c \in members
    BY <1>11 DEF ReadEnd, Places
  <2>3. /\ IsFiniteSet(members \ {c})
        /\ Cardinality(members \ {c}) = Cardinality(members) - 1
    BY <2>2, FS_RemoveElement DEF Counted
  <2>4. Cardinality(members) \in Nat /\ Uncounted' = Uncounted /\ Uncounted \in Nat
    BY <2>1, FS_CardinalityType DEF Counted, Uncounted
  <2>5. QED
    BY <2>1, <2>3, <2>4 DEF Counted
<1>12. ASSUME NEW w \in WorkServers, NEW dt \in Ticks, CheckAlive(w, dt) PROVE Counted'
  <2>1. PICK dead : Checks(w, dt, dead)
    BY <1>12, CheckIs
  <2>2. /\ count' = count - Cardinality(dead) /\ members' = members \ dead
        /\ dealing' = dealing /\ dead \subseteq clients[w] /\ at[w] = "check"
    BY <2>1 DEF Checks
  <2>3. dead \subseteq members
    BY <2>2 DEF Places
  <2>4. IsFiniteSet(dead) /\ IsFiniteSet(members \ dead)
    BY <2>3, FS_Subset DEF Counted
  <2>5. Cardinality(members \ dead) = Cardinality(members) - Cardinality(dead)
    <3>1. IsFiniteSet(members)
      BY DEF Counted
    <3>2. Cardinality(members \ dead) = Cardinality(members) - Cardinality(members \cap dead)
      BY <3>1, FS_Difference
    <3>3. members \cap dead = dead
      BY <2>3
    <3>4. QED
      BY <3>2, <3>3
  <2>6. /\ Cardinality(members) \in Nat /\ Cardinality(dead) \in Nat
        /\ Uncounted' = Uncounted /\ Uncounted \in Nat
    BY <2>2, <2>4, FS_CardinalityType DEF Counted, Uncounted
  <2>7. QED
    BY <2>2, <2>4, <2>5, <2>6 DEF Counted
<1>13. CASE UNCHANGED legacyVars
  BY <1>1, <1>13 DEF legacyVars
<1>14. QED
  BY <1>3, <1>4, <1>5, <1>6, <1>7, <1>8, <1>9, <1>10, <1>11, <1>12, <1>13
  DEF LegacyNext, Kinds
-----------------------------------------------------------------------------
(* The nodes of the pool. *)

LEMMA HeldSomewhereNext ==
    ASSUME Places', NEW c \in Channels
    PROVE  Holders(c)' = {} <=> ~InDeal(c)' /\ ~OnServer(c)'
  BY DEF Holders, Places, InDeal, OnServer

(* A channel has a node exactly as long as somebody holds it, no node has   *)
(* two channels, and a node that is not free has one. *)
Nodes ==
    /\ \A c \in Channels : node[c] = NoNode <=> Holders(c) = {}
    /\ \A c \in Channels : node[c] \notin chain
    /\ \A c, d \in Channels : node[c] \in PoolNodes /\ node[c] = node[d] => c = d
    /\ \A n \in PoolNodes \ chain : \E c \in Channels : node[c] = n

LEMMA NodesOwned == ASSUME Nodes PROVE NodeOwned
<1>1. \A c \in Channels : node[c] \in chain \cup {NoNode} <=> Holders(c) = {}
  BY DEF Nodes
<1>2. ASSUME NEW n \in PoolNodes \ chain
      PROVE  Cardinality({c \in Channels : node[c] = n}) = 1
  <2>1. PICK c \in Channels : node[c] = n
    BY <1>2 DEF Nodes
  <2>2. {d \in Channels : node[d] = n} = {c}
    BY <1>2, <2>1 DEF Nodes
  <2>3. QED
    BY <2>2, FS_Singleton
<1>3. QED
  BY <1>1, <1>2 DEF NodeOwned

LEMMA NodesFirst == LegacyInit => Nodes
  BY NodesAssumption DEF LegacyInit, Nodes, Holders

LEMMA NodesSame ==
    ASSUME Nodes, UNCHANGED <<node, chain>>,
           \A c \in Channels : Holders(c)' = {} <=> Holders(c) = {}
    PROVE  Nodes'
  BY DEF Nodes

LEMMA NodesReleased ==
    ASSUME LegacyTypeOK, Nodes, Release,
           \A c \in Channels : Holders(c) = {} => Holders(c)' = {}
    PROVE  Nodes'
<1>1. \A c \in Channels : c \in Released <=> Holders(c) # {} /\ Holders(c)' = {}
  BY DEF Released
<1>2. /\ \A c \in Channels : node'[c] = IF c \in Released THEN NoNode ELSE node[c]
      /\ \A n : n \in chain' <=>
           n \in chain \/ (n \in PoolNodes /\ \E c \in Released : node[c] = n)
  BY DEF Release
<1>3. Released \subseteq Channels
  BY DEF Released
<1>4. chain \subseteq PoolNodes /\ chain' \subseteq PoolNodes /\ NoNode \notin PoolNodes
  BY ReleaseType, NodesAssumption DEF LegacyTypeOK
<1>5. \A c \in Channels : node'[c] = NoNode <=> Holders(c)' = {}
  BY <1>1, <1>2 DEF Nodes
<1>6. ASSUME NEW c \in Channels PROVE node'[c] \notin chain'
  <2>1. CASE c \in Released
    BY <1>2, <1>4, <2>1
  <2>2. CASE c \notin Released
    BY <1>2, <1>3, <2>2 DEF Nodes
  <2>3. QED
    BY <2>1, <2>2
<1>7. \A c, d \in Channels : node'[c] \in PoolNodes /\ node'[c] = node'[d] => c = d
  BY <1>2, <1>4 DEF Nodes
<1>8. ASSUME NEW n \in PoolNodes \ chain' PROVE \E c \in Channels : node'[c] = n
  <2>1. n \notin chain
    BY <1>2
  <2>2. PICK c \in Channels : node[c] = n
    BY <1>8, <2>1 DEF Nodes
  <2>3. c \notin Released
    BY <1>2, <1>8, <2>2
  <2>4. QED
    BY <1>2, <2>2, <2>3
<1>9. QED
  BY <1>5, <1>6, <1>7, <1>8 DEF Nodes

(* The boss takes a node from the chain, or a new one when it is empty. *)
LEMMA NodesTaken ==
    ASSUME LegacyTypeOK, Nodes, NEW c \in Channels, Alloc(c),
           Holders(c) = {}, Holders(c)' # {},
           \A d \in Channels : d # c => (Holders(d)' = {} <=> Holders(d) = {})
    PROVE  Nodes'
<1>1. PICK n \in IF chain = {} THEN {Heap} ELSE chain :
        node' = [node EXCEPT ![c] = n] /\ chain' = chain \ {n}
  BY DEF Alloc
<1>2. /\ node'[c] = n /\ \A d \in Channels : d # c => node'[d] = node[d]
      /\ node[c] = NoNode /\ chain \subseteq PoolNodes
  BY <1>1 DEF LegacyTypeOK, Nodes
<1>3. n # NoNode
  BY <1>1, <1>2, NodesAssumption DEF Heap, NoNode
<1>4. \A d \in Channels : node[d] # n \/ n \notin PoolNodes
  BY <1>1, NodesAssumption DEF Nodes
<1>5. \A d \in Channels : node'[d] = NoNode <=> Holders(d)' = {}
  BY <1>2, <1>3 DEF Nodes
<1>6. \A d \in Channels : node'[d] \notin chain'
  BY <1>1, <1>2 DEF Nodes
<1>7. \A d, e \in Channels : node'[d] \in PoolNodes /\ node'[d] = node'[e] => d = e
  BY <1>2, <1>4 DEF Nodes
<1>8. ASSUME NEW m \in PoolNodes \ chain' PROVE \E d \in Channels : node'[d] = m
  <2>1. CASE m = n
    BY <1>2, <2>1
  <2>2. CASE m # n
    <3>1. PICK d \in Channels : node[d] = m
      BY <1>1, <1>8, <2>2 DEF Nodes
    <3>2. d # c
      BY <1>2, <1>8, <3>1, NodesAssumption
    <3>3. QED
      BY <1>2, <3>1, <3>2
  <2>3. QED
    BY <2>1, <2>2
<1>9. QED
  BY <1>5, <1>6, <1>7, <1>8 DEF Nodes

LEMMA NodesKeep ==
    ASSUME LegacyTypeOK, Places, Places', Nodes, [LegacyNext]_legacyVars PROVE Nodes'
<1> USE DEF peerVars, talkVars, bossVarsL, countVars, workVarsL, poolVars
<1>1. \A c \in Channels : Holders(c) = {} <=> ~InDeal(c) /\ ~OnServer(c)
  BY HeldSomewhere
<1>2. \A c \in Channels : Holders(c)' = {} <=> ~InDeal(c)' /\ ~OnServer(c)'
  BY HeldSomewhereNext
<1>3. ASSUME UNCHANGED <<node, chain>>,
             \A c \in Channels : InDeal(c)' \/ OnServer(c)' <=> InDeal(c) \/ OnServer(c)
      PROVE  Nodes'
  BY <1>1, <1>2, <1>3, NodesSame
<1>4. ASSUME Release,
             \A c \in Channels : InDeal(c)' \/ OnServer(c)' => InDeal(c) \/ OnServer(c)
      PROVE  Nodes'
  BY <1>1, <1>2, <1>4, NodesReleased
<1>5. ASSUME UNCHANGED <<node, chain, dealing, buffer, clients>> PROVE Nodes'
  BY <1>3, <1>5 DEF InDeal, OnServer
<1>6. ASSUME NEW c \in Channels,
             PeerConnect(c) \/ PeerLeaves(c) \/ \E kind \in Kinds : PeerSays(c, kind)
      PROVE  Nodes'
  BY <1>5, <1>6 DEF PeerConnect, PeerLeaves, PeerSays
<1>7. ASSUME NEW c \in Channels, BossAccepts(c) PROVE Nodes'
  <2>1. /\ dealing = <<>> /\ c \in backlog /\ Alloc(c)
        /\ dealing' = <<"add", c>> /\ UNCHANGED <<buffer, clients>>
    BY <1>7 DEF BossAccepts
  <2>2. \A d \in Channels : ~InDeal(d) /\ (InDeal(d)' <=> d = c)
    BY <2>1 DEF InDeal
  <2>3. \A d \in Channels : OnServer(d)' <=> OnServer(d)
    BY <2>1 DEF OnServer
  <2>4. ~OnServer(c)
    BY <2>1 DEF Places
  <2>5. Holders(c) = {} /\ Holders(c)' # {}
    BY <1>1, <1>2, <2>2, <2>4
  <2>6. \A d \in Channels : d # c => (Holders(d)' = {} <=> Holders(d) = {})
    BY <1>1, <1>2, <2>2, <2>3
  <2>7. QED
    BY <2>1, <2>5, <2>6, NodesTaken
<1>8. CASE BossInitSocket \/ BossBind \/ BossListen \/ BossCloses
  BY <1>5, <1>8 DEF BossInitSocket, BossBind, BossListen, BossCloses
<1>9. CASE BossJoins
  <2>1. /\ dealing # <<>> /\ dealing' = <<"return", dealing[2]>>
        /\ UNCHANGED <<node, chain, buffer, clients>>
    BY <1>9 DEF BossJoins
  <2>2. \A c \in Channels : InDeal(c)' \/ OnServer(c)' <=> InDeal(c) \/ OnServer(c)
    BY <2>1 DEF InDeal, OnServer
  <2>3. QED
    BY <1>3, <2>1, <2>2
<1>10. CASE BossReturns
  <2>1. Release /\ dealing' = <<>> /\ UNCHANGED <<buffer, clients>>
    BY <1>10 DEF BossReturns
  <2>2. \A c \in Channels : InDeal(c)' \/ OnServer(c)' => InDeal(c) \/ OnServer(c)
    BY <2>1 DEF InDeal, OnServer
  <2>3. QED
    BY <1>4, <2>1, <2>2
<1>11. ASSUME NEW w \in WorkServers, BossAdds(w) PROVE Nodes'
  <2>1. /\ dealing # <<>> /\ dealing' = <<"join", dealing[2]>>
        /\ buffer' = [buffer EXCEPT ![w] = buffer[w] \cup {dealing[2]}]
        /\ UNCHANGED <<node, chain, clients>>
    BY <1>11 DEF BossAdds
  <2>2. \A c \in Channels : InDeal(c)' \/ OnServer(c)' <=> InDeal(c) \/ OnServer(c)
    BY <2>1 DEF InDeal, OnServer, LegacyTypeOK
  <2>3. QED
    BY <1>3, <2>1, <2>2
<1>12. ASSUME NEW w \in WorkServers, TakeBuffered(w) PROVE Nodes'
  <2>1. /\ clients' = [clients EXCEPT ![w] = clients[w] \cup buffer[w]]
        /\ buffer' = [buffer EXCEPT ![w] = {}]
        /\ UNCHANGED <<node, chain, dealing>>
    BY <1>12 DEF TakeBuffered
  <2>2. \A v \in WorkServers : buffer'[v] \cup clients'[v] = buffer[v] \cup clients[v]
    BY <2>1 DEF LegacyTypeOK
  <2>3. \A c \in Channels : InDeal(c)' \/ OnServer(c)' <=> InDeal(c) \/ OnServer(c)
    BY <2>1, <2>2 DEF InDeal, OnServer
  <2>4. QED
    BY <1>3, <2>1, <2>3
<1>13. ASSUME NEW w \in WorkServers, Select(w) PROVE Nodes'
  BY <1>5, <1>13 DEF Select
<1>14. ASSUME NEW w \in WorkServers, NEW gone, Release,
              clients' = [clients EXCEPT ![w] = clients[w] \ gone],
              UNCHANGED <<dealing, buffer>>
       PROVE  Nodes'
  <2>1. \A c \in Channels : InDeal(c)' \/ OnServer(c)' => InDeal(c) \/ OnServer(c)
    BY <1>14 DEF InDeal, OnServer, LegacyTypeOK
  <2>2. QED
    BY <1>4, <1>14, <2>1
<1>15. ASSUME NEW w \in WorkServers, SelectFails(w) PROVE Nodes'
  <2>1. /\ Release /\ clients' = [clients EXCEPT ![w] = {}] /\ UNCHANGED <<dealing, buffer>>
    BY <1>15 DEF SelectFails
  <2>2. clients' = [clients EXCEPT ![w] = clients[w] \ clients[w]]
    BY <2>1
  <2>3. QED
    BY <1>14, <2>1, <2>2
<1>16. ASSUME NEW w \in WorkServers, ReadDone(w) PROVE Nodes'
  BY <1>14, <1>16 DEF ReadDone
<1>17. ASSUME NEW w \in WorkServers, NEW c \in Channels, ReadMessages(w, c) PROVE Nodes'
  BY <1>5, <1>17 DEF ReadMessages
<1>18. ASSUME NEW w \in WorkServers, NEW c \in Channels, ReadEnd(w, c) PROVE Nodes'
  BY <1>5, <1>18 DEF ReadEnd
<1>19. ASSUME NEW w \in WorkServers, NEW dt \in Ticks, CheckAlive(w, dt) PROVE Nodes'
  <2>1. PICK dead : Checks(w, dt, dead)
    BY <1>19, CheckIs
  <2>2. QED
    BY <1>14, <2>1 DEF Checks
<1>20. CASE UNCHANGED legacyVars
  BY <1>5, <1>20 DEF legacyVars
<1>21. QED
  BY <1>6, <1>7, <1>8, <1>9, <1>10, <1>11, <1>12, <1>13, <1>15, <1>16, <1>17, <1>18, <1>19,
     <1>20
  DEF LegacyNext, Kinds
-----------------------------------------------------------------------------
(* The theorems. *)

LegacyInv ==
    /\ LegacyTypeOK /\ Places /\ Counted /\ Nodes
    /\ \A c \in Channels : Intact(c)
    /\ \A w \in WorkServers : Watches(w) /\ Beats(w)

LEMMA LegacyInvariant == LegacySpec => []LegacyInv
<1>1. LegacyInit => LegacyInv
  BY LegacyTypeFirst, PlacesFirst, CountedFirst, NodesFirst, IntactFirst, BeatsFirst DEF LegacyInv
<1>2. LegacyInv /\ [LegacyNext]_legacyVars => LegacyInv'
  <2> SUFFICES ASSUME LegacyInv, [LegacyNext]_legacyVars PROVE LegacyInv'
    OBVIOUS
  <2>1. /\ LegacyTypeOK /\ Places /\ Counted /\ Nodes
        /\ \A c \in Channels : Intact(c)
        /\ \A w \in WorkServers : Watches(w) /\ Beats(w)
    BY DEF LegacyInv
  <2>2. LegacyTypeOK' /\ Places' /\ Counted'
    BY <2>1, LegacyTypeKeeps, PlacesKeep, CountedKeeps
  <2>3. Nodes'
    BY <2>1, <2>2, NodesKeep
  <2>4. \A c \in Channels : Intact(c)'
    BY <2>1, IntactKeeps
  <2>5. \A w \in WorkServers : Watches(w)' /\ Beats(w)'
    BY <2>1, WatchesKeep, BeatsKeep
  <2>6. QED
    BY <2>2, <2>3, <2>4, <2>5 DEF LegacyInv
<1>3. QED
  BY <1>1, <1>2, PTL DEF LegacySpec

(* The replies a peer gets from a channel of the first server are those to  *)
(* its messages, whole and in order, whatever the size of the block: what   *)
(* SendData() keeps back is the start of the next block. *)
THEOREM LegacyAnswers == LegacySpec => []RepliesIntact
<1>1. LegacyInv => RepliesIntact
  BY IntactReplies DEF LegacyInv
<1>2. QED
  BY <1>1, LegacyInvariant, PTL

(* _clientCount counts each channel once, also when a work server reports   *)
(* that it left before the boss has counted that it joined. *)
THEOREM LegacyCounts == LegacySpec => []CountMatches
<1>1. LegacyInv => CountMatches
  BY CountedMatches DEF LegacyInv
<1>2. QED
  BY <1>1, LegacyInvariant, PTL

(* No channel is dropped by CheckTime() in a pass in which select() found   *)
(* its heart beat among as many messages as the receive buffer has room     *)
(* for: the set it looks at, kept from pass to pass until the clients       *)
(* change, misses none of them. *)
THEOREM LegacyHears == LegacySpec => []HeartSeen
<1>1. LegacyInv => HeartSeen
  BY BeatsSeen DEF LegacyInv
<1>2. QED
  BY <1>1, LegacyInvariant, PTL

(* The last holder of a channel gives its node back, and no two channels    *)
(* share a node, though the boss and a work server drop it in either order. *)
THEOREM LegacyOwns == LegacySpec => []NodeOwned
<1>1. LegacyInv => NodeOwned
  BY NodesOwned DEF LegacyInv
<1>2. QED
  BY <1>1, LegacyInvariant, PTL

=============================================================================
