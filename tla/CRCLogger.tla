----------------------------- MODULE CRCLogger -----------------------------
(***************************************************************************)
(* CRCLogger and its CRCLogServer (src/common/include/crc_logger.hpp,      *)
(* crc_logger_server.hpp): a call prints its record itself until the       *)
(* thread of the log server runs, and queues it from then on.  Nothing in  *)
(* the programs closes the log server.                                     *)
(*                                                                         *)
(* A line is <<w, i, k>>: line k of record i of thread w.  An error takes  *)
(* two lines.  Console and file get the same lines.                        *)
(***************************************************************************)
EXTENDS Naturals, Sequences, SequencesExt

CONSTANTS
    Writers,   \* the threads that log
    MaxCalls   \* bound: records of one thread

VARIABLES
    records,   \* the levels of the records of each thread
    writerAt,  \* "idle", "choose", "direct", "queue"
    writing,   \* the lines of the record it is in
    logServer, \* _pLogServer is there
    isStart,   \* _isStart
    loopAt,    \* where the log thread is: "off", "start", "loop", "run"
    tasksBuf, tasksNow,   \* _tasksBuf and _tasks, as the lines they will print
    printed

writerVars == <<records, writerAt, writing>>
queueVars == <<logServer, isStart, loopAt, tasksBuf, tasksNow>>
logVars == <<records, writerAt, writing, logServer, isStart, loopAt, tasksBuf, tasksNow, printed>>

LogInit ==
    /\ records = [w \in Writers |-> <<>>] /\ writing = records
    /\ writerAt = [w \in Writers |-> "idle"]
    /\ logServer = FALSE /\ isStart = FALSE /\ loopAt = "off"
    /\ tasksBuf = <<>> /\ tasksNow = <<>> /\ printed = <<>>

Lines(w, i, level) == IF level = "error" THEN <<<<w, i, 1>>, <<w, i, 2>>>> ELSE <<<<w, i, 1>>>>

-----------------------------------------------------------------------------
(* The callers. *)

Record(w, level) ==
    /\ writerAt[w] = "idle" /\ Len(records[w]) < MaxCalls
    /\ records' = [records EXCEPT ![w] = Append(@, level)]
    /\ writing' = [writing EXCEPT ![w] = Lines(w, Len(records'[w]), level)]
    /\ writerAt' = [writerAt EXCEPT ![w] = "choose"]
    /\ UNCHANGED <<queueVars, printed>>

Info(w) == Record(w, "info")      \* info() and warn()
Error(w) == Record(w, "error")

(* Mutant: a record is queued only while the thread has nothing to print. *)
MutQueues == isStart /\ loopAt = "loop"

Queues == logServer /\ isStart

Choose(w) ==
    /\ writerAt[w] = "choose"
    /\ writerAt' = [writerAt EXCEPT ![w] = IF Queues THEN "queue" ELSE "direct"]
    /\ UNCHANGED <<records, writing, queueVars, printed>>

(* echo_real(), line by line: lines of other threads may come between. *)
EchoReal(w) ==
    /\ writerAt[w] = "direct"
    /\ printed' = Append(printed, Head(writing[w]))
    /\ writing' = [writing EXCEPT ![w] = Tail(@)]
    /\ writerAt' = [writerAt EXCEPT ![w] = IF Len(writing[w]) = 1 THEN "idle" ELSE @]
    /\ UNCHANGED <<records, queueVars>>

AddTask(w) ==
    /\ writerAt[w] = "queue"
    /\ tasksBuf' = tasksBuf \o writing[w]
    /\ writing' = [writing EXCEPT ![w] = <<>>]
    /\ writerAt' = [writerAt EXCEPT ![w] = "idle"]
    /\ UNCHANGED <<records, logServer, isStart, loopAt, tasksNow, printed>>

(* start(), by the main thread. *)
LogStart ==
    /\ ~logServer
    /\ logServer' = TRUE
    /\ loopAt' = "start"
    /\ UNCHANGED <<writerVars, isStart, tasksBuf, tasksNow, printed>>

-----------------------------------------------------------------------------
(* The log thread: CRCLogServer::OnRun(). *)

LogRuns ==
    /\ loopAt = "start"
    /\ isStart' = TRUE
    /\ loopAt' = "loop"
    /\ UNCHANGED <<writerVars, logServer, tasksBuf, tasksNow, printed>>

TakeTasks ==
    /\ loopAt = "loop" /\ tasksBuf # <<>>
    /\ tasksNow' = tasksBuf /\ tasksBuf' = <<>>
    /\ loopAt' = "run"
    /\ UNCHANGED <<writerVars, logServer, isStart, printed>>

RunLine ==
    /\ loopAt = "run" /\ tasksNow # <<>>
    /\ printed' = Append(printed, Head(tasksNow))
    /\ tasksNow' = Tail(tasksNow)
    /\ UNCHANGED <<writerVars, logServer, isStart, loopAt, tasksBuf>>

TasksDone ==
    /\ loopAt = "run" /\ tasksNow = <<>>
    /\ loopAt' = "loop"
    /\ UNCHANGED <<writerVars, logServer, isStart, tasksBuf, tasksNow, printed>>

-----------------------------------------------------------------------------

LogNext ==
    \/ LogStart \/ LogRuns \/ TakeTasks \/ RunLine \/ TasksDone
    \/ \E w \in Writers : Info(w) \/ Error(w) \/ Choose(w) \/ EchoReal(w) \/ AddTask(w)

LogSpec == LogInit /\ [][LogNext]_logVars

-----------------------------------------------------------------------------

(* Of these lines those of the thread. *)
LinesOf(w, lines) ==
    FlattenSeq([i \in 1..Len(lines) |-> IF lines[i][1] = w THEN <<lines[i]>> ELSE <<>>])

(* The lines of each thread are printed in the order of its records, none  *)
(* left out and none twice, across the change from printing to queueing;   *)
(* what is missing is queued or under way. *)
LogInOrder ==
    \A w \in Writers :
      LinesOf(w, printed \o tasksNow \o tasksBuf) \o writing[w]
        = FlattenSeq([i \in 1..Len(records[w]) |-> Lines(w, i, records[w][i])])
=============================================================================
