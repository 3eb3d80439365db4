--------------------------- MODULE CRCWorkClient ---------------------------
(***************************************************************************)
(* One connection from the buffer of the client to the handler of the      *)
(* server and back, byte by byte: the CRCBuffers (src/common/include/      *)
(* crc_buffer.hpp) of both ends, the loop that reads, cuts the stream into *)
(* messages and writes (CRCWorkClient::OnRun() in crc_work_client.hpp at   *)
(* the client, CRCWorkServer::RecvData() and DoAction() at the server),    *)
(* and the second thread of the client, which pushes into the send buffer  *)
(* that the first one empties, without a lock (src/EasyTcpClient/          *)
(* client.cpp).  The connection stays up.                                  *)
(*                                                                         *)
(* Requests are numbered in the order in which push() takes them; the      *)
(* answer to a request has its number.  The k-th byte of message m is      *)
(* <<m, k>>; the length field is in the first Header bytes.                *)
(***************************************************************************)
EXTENDS Integers, Sequences

CONSTANTS
    Batches,   \* bound of the model: SendData() calls of sendThread
    PerBatch,  \* messages in one call (msgcount)
    Header,    \* sizeof(CRCDataHeader)
    Size,      \* data_length of a request and of an answer
    BufSize,   \* SEND_BUFFER_SIZE and RECV_BUFFER_SIZE
    SockCap    \* bytes the kernel holds at each end in each direction

BatchLen == PerBatch * Size

ASSUME ClientAssumption ==
    /\ Batches \in Nat /\ SockCap \in Nat \ {0} /\ BufSize \in Nat
    /\ Header \in Nat \ {0} /\ Size \in Nat /\ Header <= Size
    /\ PerBatch \in Nat \ {0}

(* The client sends 100 messages of 100 bytes at a time from a buffer of   *)
(* 10240: a batch fits, two do not.                                        *)
ASSUME OneBatchFits == BatchLen <= BufSize /\ BufSize < 2 * BatchLen

Ends == {"client", "server"}
Other(e) == CHOOSE o \in Ends : o # e

VARIABLES
    spc,        \* where sendThread is in push()
    loaded,     \* _lastPos as "_lastPos += nLen" has read it
    sendCount,  \* SendData() calls
    accepted,   \* batches that push() took
    pc,         \* where the loop of each end is
    writable,   \* the poll reported that the socket is writable
    mem,        \* _pBuf of the send buffer of each end
    lastPos,    \* _lastPos of the send buffer of each end
    sendPos,    \* bytes that the send() in progress has copied
    sendLen,    \* bytes that it was given
    sndq,       \* bytes the kernel of each end has still to deliver
    rcvq,       \* bytes the kernel of each end has received
    recvBuf,    \* the receive buffer of each end, up to its _lastPos
    handled     \* history: messages passed to OnNetMessage() of each end

senderVars == <<spc, loaded, sendCount, accepted>>
pollVars == <<pc, writable>>
outVars == <<mem, lastPos>>
sendVars == <<sendPos, sendLen>>
kernelVars == <<sndq, rcvq>>
inVars == <<recvBuf, handled>>
loopVars == <<pollVars, outVars, sendVars, kernelVars, inVars>>
vars == <<spc, loaded, sendCount, accepted, pc, writable, mem, lastPos, sendPos,
          sendLen, sndq, rcvq, recvBuf, handled>>

Unwritten == <<0, 0>>

Init ==
    /\ spc = "idle"
    /\ loaded = 0
    /\ sendCount = 0
    /\ accepted = 0
    /\ pc = [e \in Ends |-> "poll"]
    /\ writable = [e \in Ends |-> FALSE]
    /\ mem = [e \in Ends |-> [i \in 1..BufSize |-> Unwritten]]
    /\ lastPos = [e \in Ends |-> 0]
    /\ sendPos = [e \in Ends |-> 0]
    /\ sendLen = [e \in Ends |-> 0]
    /\ sndq = [e \in Ends |-> <<>>]
    /\ rcvq = [e \in Ends |-> <<>>]
    /\ recvBuf = [e \in Ends |-> <<>>]
    /\ handled = [e \in Ends |-> <<>>]

(* The bytes of messages m, ..., n. *)
Bytes(m, n) ==
    [i \in 1..((n - m + 1) * Size) |->
        <<m + ((i - 1) \div Size), ((i - 1) % Size) + 1>>]

(* memcpy() of bytes to position pos of a buffer. *)
Copied(buf, pos, bytes) ==
    [i \in 1..BufSize |->
        IF i \in (pos + 1)..(pos + Len(bytes)) THEN bytes[i - pos] ELSE buf[i]]

-----------------------------------------------------------------------------

(* CRCBuffer::push() by sendThread, crc_buffer.hpp 39-77: one action per   *)
(* access to _lastPos, which the other thread resets.                      *)

(* Line 56. *)
PushFits(end, n) == lastPos[end] + n <= BufSize

SendData ==
    /\ spc = "idle"
    /\ sendCount < Batches
    /\ PushFits("client", BatchLen)
    /\ sendCount' = sendCount + 1
    /\ spc' = "copy"
    /\ UNCHANGED <<loaded, accepted, loopVars>>

(* The buffer is full: push() returns 0, which is not SOCKET_ERROR, and    *)
(* client.cpp:145 counts the batch as sent.                                *)
SendDataFull ==
    /\ spc = "idle"
    /\ sendCount < Batches
    /\ ~PushFits("client", BatchLen)
    /\ sendCount' = sendCount + 1
    /\ UNCHANGED <<spc, loaded, accepted, loopVars>>

PushCopy ==
    /\ spc = "copy"
    /\ mem' = [mem EXCEPT !["client"] =
                 Copied(@, lastPos["client"],
                        Bytes(accepted * PerBatch + 1, (accepted + 1) * PerBatch))]
    /\ spc' = "load"
    /\ UNCHANGED <<loaded, sendCount, accepted, pollVars, lastPos, sendVars, kernelVars,
                   inVars>>

PushLoad ==
    /\ spc = "load"
    /\ loaded' = lastPos["client"]
    /\ spc' = "store"
    /\ UNCHANGED <<sendCount, accepted, loopVars>>

PushStore ==
    /\ spc = "store"
    /\ lastPos' = [lastPos EXCEPT !["client"] = loaded + BatchLen]
    /\ accepted' = accepted + 1
    /\ loaded' = 0
    /\ spc' = "idle"
    /\ UNCHANGED <<sendCount, pollVars, mem, sendVars, kernelVars, inVars>>

-----------------------------------------------------------------------------

(* The loop of one end.  Both ends have it: they ask whether they may      *)
(* write only when the send buffer holds something, read first, and then   *)
(* write.                                                                  *)

Room(e) == SockCap - Len(sndq[e])

(* Mutant: the client never asks for writability. *)
MutAskWrite(e) == e = "server" /\ lastPos[e] > 0

(* is_need_write(), crc_channel.hpp 242-245. *)
AskWrite(e) == lastPos[e] > 0

Readable(e) == rcvq[e] # <<>>
CanWrite(e) == AskWrite(e) /\ Room(e) > 0

(* Mutant: a loop that writes first, and reads when it may not write. *)
MutPoll(e) ==
    /\ pc[e] = "poll"
    /\ Readable(e) \/ CanWrite(e)
    /\ writable' = [writable EXCEPT ![e] = CanWrite(e)]
    /\ pc' = [pc EXCEPT ![e] = IF CanWrite(e) THEN "write" ELSE "recv"]
    /\ UNCHANGED <<senderVars, outVars, sendVars, kernelVars, inVars>>

(* select() or epoll_wait(): something is ready. *)
Poll(e) ==
    /\ pc[e] = "poll"
    /\ Readable(e) \/ CanWrite(e)
    /\ writable' = [writable EXCEPT ![e] = CanWrite(e)]
    /\ pc' = [pc EXCEPT ![e] = IF Readable(e) THEN "recv" ELSE "write"]
    /\ UNCHANGED <<senderVars, outVars, sendVars, kernelVars, inVars>>

(* The network: what one kernel has to deliver reaches the other in any    *)
(* portions, as far as that has room.                                      *)
Deliver(e) ==
    /\ \E k \in 1..Len(sndq[e]) :
         /\ Len(rcvq[Other(e)]) + k <= SockCap
         /\ rcvq' = [rcvq EXCEPT ![Other(e)] = @ \o SubSeq(sndq[e], 1, k)]
         /\ sndq' = [sndq EXCEPT ![e] = SubSeq(@, k + 1, Len(@))]
    /\ UNCHANGED <<senderVars, pollVars, outVars, sendVars, inVars>>

AtMost(m, n) == IF m < n THEN m ELSE n

(* CRCBuffer::read4socket(), lines 112-134: recv() brings what was         *)
(* received, as far as the buffer has room.                                *)
Recv(e) ==
    /\ pc[e] = "recv"
    /\ LET k == AtMost(Len(rcvq[e]), BufSize - Len(recvBuf[e])) IN
         /\ recvBuf' = [recvBuf EXCEPT ![e] = @ \o SubSeq(rcvq[e], 1, k)]
         /\ rcvq' = [rcvq EXCEPT ![e] = SubSeq(@, k + 1, Len(@))]
    /\ pc' = [pc EXCEPT ![e] = "msg"]
    /\ UNCHANGED <<senderVars, writable, outVars, sendVars, sndq, handled>>

(* The length field at the front of a receive buffer.  A front that is no  *)
(* header holds some other bytes: here 0.                                  *)
DataLength(buf) == IF buf[1][2] = 1 THEN Size ELSE 0

(* Mutant: a message counts as present once its header is. *)
MutHasData(buf) == Len(buf) >= Header

(* has_data(), lines 137-151. *)
HasData(buf) == Len(buf) >= Header /\ Len(buf) >= DataLength(buf)

(* pop(), lines 80-91; a length that is not positive removes nothing.  Its  *)
(* memcpy() of overlapping bytes is taken to move them as memmove() does.  *)
Pop(buf, n) == IF n \in 1..Len(buf) THEN SubSeq(buf, n + 1, Len(buf)) ELSE buf

(* OnNetMessage() of the server answers, if the answer fits, otherwise     *)
(* drops it; that of the client answers nothing.                           *)
Respond(e, m) ==
    IF e = "server" /\ PushFits(e, Size)
    THEN /\ mem' = [mem EXCEPT ![e] = Copied(@, lastPos[e], Bytes(m, m))]
         /\ lastPos' = [lastPos EXCEPT ![e] = @ + Size]
    ELSE UNCHANGED outVars

(* One turn of the loop over HasMessage(), OnNetMessage() and              *)
(* pop_front_message().                                                    *)
HandleMessage(e) ==
    /\ pc[e] = "msg"
    /\ HasData(recvBuf[e])
    /\ LET m == recvBuf[e][1][1] IN
         /\ handled' = [handled EXCEPT ![e] = Append(@, m)]
         /\ Respond(e, m)
    /\ recvBuf' = [recvBuf EXCEPT ![e] = Pop(@, DataLength(@))]
    /\ UNCHANGED <<senderVars, pollVars, sendVars, kernelVars>>

HandleDone(e) ==
    /\ pc[e] = "msg"
    /\ ~HasData(recvBuf[e])
    /\ pc' = [pc EXCEPT ![e] = IF writable[e] THEN "write" ELSE "poll"]
    /\ UNCHANGED <<senderVars, writable, outVars, sendVars, kernelVars, inVars>>

(* CRCBuffer::write2socket(), lines 94-109: the whole send buffer goes to  *)
(* one send() on a blocking socket; then _lastPos is reset.                *)
Write(e) ==
    /\ pc[e] = "write"
    /\ sendLen' = [sendLen EXCEPT ![e] = lastPos[e]]
    /\ pc' = [pc EXCEPT ![e] = "send"]
    /\ UNCHANGED <<senderVars, writable, outVars, sendPos, kernelVars, inVars>>

SendCopy(e) ==
    /\ pc[e] = "send"
    /\ LET k == AtMost(sendLen[e] - sendPos[e], Room(e)) IN
         /\ k > 0
         /\ sndq' = [sndq EXCEPT ![e] =
                       @ \o SubSeq(mem[e], sendPos[e] + 1, sendPos[e] + k)]
         /\ sendPos' = [sendPos EXCEPT ![e] = @ + k]
    /\ UNCHANGED <<senderVars, pollVars, outVars, sendLen, rcvq, inVars>>

SendDone(e) ==
    /\ pc[e] = "send"
    /\ sendPos[e] = sendLen[e]
    /\ lastPos' = [lastPos EXCEPT ![e] = 0]
    /\ sendPos' = [sendPos EXCEPT ![e] = 0]
    /\ sendLen' = [sendLen EXCEPT ![e] = 0]
    /\ writable' = [writable EXCEPT ![e] = FALSE]
    /\ pc' = [pc EXCEPT ![e] = "poll"]
    /\ UNCHANGED <<senderVars, mem, kernelVars, inVars>>

-----------------------------------------------------------------------------

PushStep == PushCopy \/ PushLoad \/ PushStore

LoopStep(e) ==
    \/ Poll(e) \/ Recv(e) \/ HandleMessage(e) \/ HandleDone(e)
    \/ Write(e) \/ SendCopy(e) \/ SendDone(e)

Next ==
    \/ SendData \/ SendDataFull \/ PushStep
    \/ \E e \in Ends : LoopStep(e) \/ Deliver(e)

(* The threads of both ends are scheduled, a push() begun goes on, and the *)
(* network delivers.                                                       *)
Spec ==
    /\ Init /\ [][Next]_vars
    /\ WF_vars(PushStep)
    /\ \A e \in Ends : WF_vars(LoopStep(e)) /\ WF_vars(Deliver(e))

-----------------------------------------------------------------------------

(* The bytes on their way to an end: received and not handled, in the      *)
(* kernel, and in the send buffer of the other end.                        *)
Unsent(e) == SubSeq(mem[e], sendPos[e] + 1, lastPos[e])
InFlight(e) == recvBuf[e] \o rcvq[e] \o sndq[Other(e)] \o Unsent(Other(e))

Blocked(e) ==
    /\ pc[e] = "send" /\ sendPos[e] < sendLen[e]
    /\ Len(sndq[e]) = SockCap /\ Len(rcvq[Other(e)]) = SockCap

(* The two ends never wait for each other: with sockets that hold SockCap  *)
(* bytes, one of them gets out of its send().                              *)
NoMutualBlock == ~(Blocked("client") /\ Blocked("server"))

(* Seen from outside, requests are handled in order, each once, and        *)
(* answers come in order, each at most once.                               *)
Connection ==
    INSTANCE RequestReply WITH submitted <- accepted * PerBatch,
                               handled <- handled["server"],
                               answered <- handled["client"]

ImplementsRequestReply == Connection!Spec

(* Once sendThread is done with its calls, every request that push() took  *)
(* has been handled, and every answer that fitted has reached the client.  *)
Drained == <>[](\A e \in Ends : InFlight(e) = <<>>)
=============================================================================
