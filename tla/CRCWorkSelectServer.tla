------------------------ MODULE CRCWorkSelectServer ------------------------
(***************************************************************************)
(* A work server that waits with select() (src/common/include/             *)
(* crc_work_select_server.hpp): the descriptor set is rebuilt from         *)
(* _clients only when _clients_change says that it must be, and copied     *)
(* from a backup otherwise.                                                *)
(*                                                                         *)
(* A message is one unit.  Peers read what they are sent, so the blocking  *)
(* send() returns.  OnClientLeave(iter) uses the iterator after the erase, *)
(* and outside Windows the walk over _clients goes on from it: the server  *)
(* may then stop anywhere ("undefined") or skip clients of this pass.      *)
(***************************************************************************)
EXTENDS Naturals, FiniteSets

CONSTANTS
    Sockets,   \* the connections the boss may hand over
    MaxAsked   \* bound: messages of one peer

ASSUME MaxAskedAssumption == MaxAsked \in Nat

VARIABLES
    line,      \* of each peer: "none", "open", "closed"
    spoken,    \* messages it sent
    asked,     \* of them, what was not received
    unsent,    \* answers in the send buffer
    handed,    \* _clientsBuf
    served,    \* _clients
    dirty,     \* _clients_change
    bak,       \* _fd_read_bak
    fdRead,    \* _fd_read
    fdWrite,   \* _fd_write
    missed,    \* clients whose heart beat is overdue
    stage      \* where the thread is

peerSel == <<line, spoken>>
setVars == <<dirty, bak, fdRead, fdWrite>>
selVars == <<line, spoken, asked, unsent, handed, served, dirty, bak, fdRead, fdWrite, missed, stage>>

(* OnRun() begins with _clients_change = true. *)
SelInit ==
    /\ line = [s \in Sockets |-> "none"]
    /\ spoken = [s \in Sockets |-> 0] /\ asked = spoken /\ unsent = spoken
    /\ handed = {} /\ served = {} /\ missed = {}
    /\ dirty = TRUE /\ bak = {} /\ fdRead = {} /\ fdWrite = {}
    /\ stage = "join"

-----------------------------------------------------------------------------
(* The peers, the boss, the clock. *)

HandOver(s) ==
    /\ line[s] = "none"
    /\ line' = [line EXCEPT ![s] = "open"]
    /\ handed' = handed \cup {s}
    /\ UNCHANGED <<spoken, asked, unsent, served, setVars, missed, stage>>

Asks(s) ==
    /\ line[s] = "open" /\ spoken[s] < MaxAsked
    /\ spoken' = [spoken EXCEPT ![s] = @ + 1]
    /\ asked' = [asked EXCEPT ![s] = @ + 1]
    /\ UNCHANGED <<line, unsent, handed, served, setVars, missed, stage>>

HangsUp(s) ==
    /\ line[s] = "open"
    /\ line' = [line EXCEPT ![s] = "closed"]
    /\ UNCHANGED <<spoken, asked, unsent, handed, served, setVars, missed, stage>>

(* CLIENT_HEART_DEAD_TIME passes. *)
BeatMissed(s) ==
    /\ s \in served \ missed
    /\ missed' = missed \cup {s}
    /\ UNCHANGED <<peerSel, asked, unsent, handed, served, setVars, stage>>

-----------------------------------------------------------------------------
(* OnClientLeave() for each of these clients. *)

(* Mutant: _clients_change is not set, as in the overload for IOCP. *)
MutGone(gone) == served' = served \ gone /\ dirty' = dirty

Gone(gone) == served' = served \ gone /\ dirty' = (dirty \/ gone # {})

(* Mutant: the flag is left to those who leave. *)
MutNowDirty == dirty

NowDirty == dirty \/ handed # {}

TakeIn ==
    /\ stage = "join" /\ handed \cup served # {}
    /\ served' = served \cup handed /\ handed' = {}
    /\ dirty' = NowDirty
    /\ stage' = "check"
    /\ UNCHANGED <<peerSel, asked, unsent, bak, fdRead, fdWrite, missed>>

CheckBeats ==
    LET gone == served \cap missed IN
    /\ stage = "check"
    /\ Gone(gone)
    /\ \/ stage' = "sets"
       \/ gone # {} /\ stage' = "undefined"
    /\ UNCHANGED <<peerSel, asked, unsent, handed, bak, fdRead, fdWrite, missed>>

NewSet == IF dirty THEN served ELSE bak

(* DoAction() up to select().  CheckTime() may have left _clients empty:   *)
(* then _max_socket is whatever begin() of an empty map yields.            *)
FillSets ==
    /\ stage = "sets"
    /\ fdRead' = NewSet /\ bak' = NewSet /\ dirty' = FALSE
    /\ fdWrite' = {s \in served : unsent[s] > 0}
    /\ stage' = "select"
    /\ UNCHANGED <<peerSel, asked, unsent, handed, served, missed>>

(* FD_ISSET() of the read set after select(). *)
ToRead == {s \in fdRead : asked[s] > 0 \/ line[s] = "closed"}

SelectFinds ==
    /\ stage = "select"
    /\ fdRead \subseteq served /\ ToRead \cup fdWrite # {}
    /\ fdRead' = ToRead
    /\ stage' = "read"
    /\ UNCHANGED <<peerSel, asked, unsent, handed, served, dirty, bak, fdWrite, missed>>

(* Nothing for a microsecond.  (The programs install no signal handler, so *)
(* that select() is not interrupted.)                                      *)
SelectNothing ==
    /\ stage = "select"
    /\ fdRead \subseteq served /\ ToRead \cup fdWrite = {}
    /\ stage' = "join"
    /\ UNCHANGED <<peerSel, asked, unsent, handed, served, setVars, missed>>

(* A closed descriptor in the set, or no descriptor and any nfds: the      *)
(* thread ends by ExitInSelfThread(), and the server remains with the boss. *)
SelectErrs ==
    /\ stage = "select"
    /\ ~(fdRead \subseteq served) \/ served = {}
    /\ stage' = "exited"
    /\ UNCHANGED <<peerSel, asked, unsent, handed, served, setVars, missed>>

(* The handler of the application: CMD_LOGOUT is not answered, and a heart *)
(* beat is noted and answered.                                             *)
OnMessages(s) ==
    \E n \in 0..asked[s] :
      /\ unsent' = [unsent EXCEPT ![s] = @ + n]
      /\ \/ UNCHANGED missed
         \/ n > 0 /\ missed' = missed \ {s}

(* RecvData(): all messages that are there. *)
ReadOne(s) ==
    /\ stage = "read" /\ s \in fdRead /\ asked[s] > 0
    /\ asked' = [asked EXCEPT ![s] = 0]
    /\ OnMessages(s)
    /\ fdRead' = fdRead \ {s}
    /\ UNCHANGED <<peerSel, handed, served, dirty, bak, fdWrite, stage>>

ReadEof(s) ==
    /\ stage = "read" /\ s \in fdRead /\ asked[s] = 0
    /\ Gone({s})
    /\ fdRead' \in SUBSET (fdRead \ {s})
    /\ stage' \in {"read", "undefined"}
    /\ UNCHANGED <<peerSel, asked, unsent, handed, bak, fdWrite, missed>>

ReadAll ==
    /\ stage = "read" /\ fdRead = {}
    /\ stage' = "write"
    /\ UNCHANGED <<peerSel, asked, unsent, handed, served, setVars, missed>>

(* SendDataIM() *)
WriteOne(s) ==
    /\ stage = "write" /\ s \in fdWrite \cap served
    /\ unsent' = [unsent EXCEPT ![s] = 0]
    /\ fdWrite' = fdWrite \ {s}
    /\ UNCHANGED <<peerSel, asked, handed, served, dirty, bak, fdRead, missed, stage>>

WriteFails(s) ==
    /\ stage = "write" /\ s \in fdWrite \cap served /\ line[s] = "closed"
    /\ Gone({s})
    /\ fdWrite' \in SUBSET (fdWrite \ {s})
    /\ stage' \in {"write", "undefined"}
    /\ UNCHANGED <<peerSel, asked, unsent, handed, bak, fdRead, missed>>

WriteAll ==
    /\ stage = "write" /\ fdWrite \cap served = {}
    /\ stage' = "join"
    /\ UNCHANGED <<peerSel, asked, unsent, handed, served, setVars, missed>>

-----------------------------------------------------------------------------

ServerStep ==
    \/ TakeIn \/ CheckBeats \/ FillSets \/ SelectFinds \/ SelectNothing \/ SelectErrs
    \/ ReadAll \/ WriteAll
    \/ \E s \in Sockets : ReadOne(s) \/ ReadEof(s) \/ WriteOne(s) \/ WriteFails(s)

SelNext ==
    \/ ServerStep
    \/ \E s \in Sockets : HandOver(s) \/ Asks(s) \/ HangsUp(s) \/ BeatMissed(s)

(* The thread is scheduled. *)
SelSpec == SelInit /\ [][SelNext]_selVars /\ WF_selVars(ServerStep)

-----------------------------------------------------------------------------

(* A work server ends by itself only without clients: the set it gives to  *)
(* select() never holds the socket of a client that left. *)
ServesWhileClients == stage = "exited" => served = {}

(* A message is received, unless its client leaves or the server ends: no  *)
(* client stays outside the set that select() watches. *)
RequestsRead ==
    \A s \in Sockets :
      s \in handed \cup served /\ asked[s] > 0
        ~> asked[s] = 0 \/ s \notin handed \cup served \/ stage \in {"undefined", "exited"}
=============================================================================
