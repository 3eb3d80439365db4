------------------------------- MODULE MCParts -------------------------------
(***************************************************************************)
(* The parts that run apart from each other, in one model: a behaviour is  *)
(* a behaviour of the part chosen at the start, and the variables of the   *)
(* others keep their initial values.                                       *)
(***************************************************************************)
EXTENDS CRCSemaphore, CRCServerShutdown, CRCStream, ClientLife, LegacyServer,
        EchoServer, EpollSample, CRCWorkSelectServer, CRCWorkClient, CRCLogger

VARIABLE part

(* Fields: a byte, an int, a double, and arrays of both kinds. *)
MCFields ==
    {[width |-> 1, count |-> 0], [width |-> 4, count |-> 0], [width |-> 8, count |-> 0],
     [width |-> 1, count |-> 4], [width |-> 4, count |-> 3], [width |-> 1, count |-> 1]}
MCSchemas == [1..3 -> MCFields]

MCReplySize == [heart |-> 2, other |-> 1]

partVars == <<part, semVars, shutdownVars, streamVars, lifeVars, legacyVars, echoVars, sampleVars,
              selVars, vars, logVars>>

PartsInit ==
    /\ part \in {"semaphore", "shutdown", "stream", "client", "legacy", "echo", "sample",
                 "select", "connection", "logger"}
    /\ SemInit /\ ShutdownInit /\ StreamInit /\ LifeInit /\ LegacyInit /\ EchoInit /\ SampleInit
    /\ SelInit /\ Init /\ LogInit

(* Only the variables of one part change. *)
Only(p) ==
    /\ UNCHANGED part
    /\ IF p = "semaphore" THEN TRUE ELSE UNCHANGED semVars
    /\ IF p = "shutdown" THEN TRUE ELSE UNCHANGED shutdownVars
    /\ IF p = "stream" THEN TRUE ELSE UNCHANGED streamVars
    /\ IF p = "client" THEN TRUE ELSE UNCHANGED lifeVars
    /\ IF p = "legacy" THEN TRUE ELSE UNCHANGED legacyVars
    /\ IF p = "echo" THEN TRUE ELSE UNCHANGED echoVars
    /\ IF p = "sample" THEN TRUE ELSE UNCHANGED sampleVars
    /\ IF p = "select" THEN TRUE ELSE UNCHANGED selVars
    /\ IF p = "connection" THEN TRUE ELSE UNCHANGED vars
    /\ IF p = "logger" THEN TRUE ELSE UNCHANGED logVars

SemPart == part = "semaphore" /\ SemNext /\ Only("semaphore")
ShutdownPart == part = "shutdown" /\ ShutdownNext /\ Only("shutdown")
StreamPart == part = "stream" /\ StreamNext /\ Only("stream")
ClientPart == part = "client" /\ LifeNext /\ Only("client")
LegacyPart == part = "legacy" /\ LegacyNext /\ Only("legacy")
EchoPart == part = "echo" /\ EchoNext /\ Only("echo")
SamplePart == part = "sample" /\ SampleNext /\ Only("sample")
SelectPart == part = "select" /\ SelNext /\ Only("select")
ConnectionPart == part = "connection" /\ Next /\ Only("connection")
LoggerPart == part = "logger" /\ LogNext /\ Only("logger")

PartsNext ==
    \/ SemPart \/ ShutdownPart \/ StreamPart \/ ClientPart \/ LegacyPart \/ EchoPart
    \/ SamplePart \/ SelectPart \/ ConnectionPart \/ LoggerPart

(* The fairness of the parts that have some. *)
PartsFairness ==
    /\ WF_shutdownVars(part = "shutdown" /\ MainStep)
    /\ WF_shutdownVars(part = "shutdown" /\ BossStep)
    /\ \A w \in Servers : WF_shutdownVars(part = "shutdown" /\ WorkStep(w))
    /\ WF_lifeVars(part = "client" /\ ProcessUp /\ (MainLoop \/ MainEnd))
    /\ \A s \in Senders :
         /\ WF_lifeVars(part = "client" /\ ProcessUp /\ SendStep(s))
         /\ WF_lifeVars(part = "client" /\ ProcessUp /\ RecvStep(s))
    /\ WF_selVars(part = "select" /\ ServerStep)
    /\ WF_vars(part = "connection" /\ PushStep)
    /\ \A e \in Ends :
         WF_vars(part = "connection" /\ LoopStep(e)) /\ WF_vars(part = "connection" /\ Deliver(e))

PartsSpec == PartsInit /\ [][PartsNext]_partVars /\ PartsFairness
=============================================================================
