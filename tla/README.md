# TLA+ verification of the HelloSocket TCP engine

This directory holds TLA+ models of the engine under `src/common/include`, of the
programs that use it (`src/EasyTcpServer`, `src/EasyTcpClient`), of its first
version (`src/TestServer`) and of two sample servers (`src/HelloSocket`), the
configurations that check them with TLC, and proofs checked by TLAPS. It says
what the code does, which properties that has, and where the code and what is
written about it disagree.

```
tlc -workers 2 -config MCBossAdmission.cfg CRCBossEpollServer   # one run
tlapm CRCBossProofs.tla                                         # one proof
```

`PROJECT.json` lists the runs, the source lines each definition models, the
hazards and the properties that cover them, and for each property a mutant of
the model that breaks it.

## 1. The system

A server process has one *boss* thread that accepts connections, several *work
servers* that each serve their share of them on a thread of their own, one
*task server* thread per work server, and a *log server* thread. A client
process has sending and receiving threads that share client objects. Every
thread of the engine is a `CRCThread`, which is stopped by a flag and joined
through a `CRCSemaphore`. All I/O uses blocking sockets; epoll, select or IOCP
says when one is ready.

```
        main ── Start / Close ──────────────┐
          │                                 │
   CRCBossServer ── addClient() ──> CRCWorkServer (n of them)
    accept thread <── OnLeave() ──   _clientsBuf → _clients → epoll
          │                          CRCChannel: receive and send CRCBuffer
          │                                 │
       CRCThread                    CRCThread, CRCTaskServer → CRCThread
          └───────────── CRCSemaphore ──────┘
```

### Inventory

| Component | State | Operations | Modelled in |
|---|---|---|---|
| semaphore | two counters, sleepers of a condition variable | `wait`, `wakeup` | `CRCSemaphore` |
| thread | run flag, mutex, semaphore, one detached thread per life | `Start`, `Close`, `ExitInSelfThread`, `OnWork` | `CRCThread` |
| task server, log server | `_tasksBuf` under a lock, `_tasks` of the loop | `addTask`, `Start`, `Close`, `OnRun` | `CRCTaskServer` |
| logger | `_pLogServer`, `_isStart` | `start`, `info`, `warn`, `error` | `CRCLogger`, with the log thread |
| boss server | listening socket, `_clientCount`, work servers | `Accept`, `addClient2WorkServer`, `OnJoin`, `OnLeave`, `OnRun` | `CRCBossEpollServer`; IOCP: `CRCWorkIOCPServer` |
| server start and shutdown | who holds, closes and destroys what | `InitSocket`, `Bind`, `Listen`, `Start`, `Close`, destructors | `CRCServerShutdown` |
| work server | `_clientsBuf`, `_clients`, what the kernel was told to watch | `addClient`, `getClientCount`, `OnRun`, `CheckTime`, `OnClientLeave`, `RecvData`, `DoAction` | `CRCWorkEpollServer`, `CRCWorkSelectServer`, `CRCWorkIOCPServer` |
| channel | socket, two buffers, heart beat, outstanding operations | `RecvData`, `SendDataBuffer`, `SendDataIM`, `check_heart_beat`, `get_recv_io_ctx`, `get_send_io_ctx` | the three work servers in whole messages, `CRCWorkClient` in bytes |
| buffer, framing | bytes, `_lastPos` | `push`, `pop`, `has_data`, `write2socket`, `read4socket`, `read4iocp`, `write2iocp` | `CRCWorkClient`, `CRCWorkIOCPServer` |
| client | channel shared by a sending and a receiving thread | `SendData`, `OnRun`, `DoMsg`, `Connect`, `Close` | `CRCWorkClient` (connection up), `ClientLife` (from start to end) |
| memory pool (`operator new` and `delete` of the server) | per size class a chain of free units under a lock, reference counts, fallback to `malloc` | `alloc_mem`, `free_mem`, `init_pool` | `CRCMemoryPool` |
| byte stream | read and write positions | typed reads and writes, `finish` | `CRCStream` |
| legacy server | boss, work servers, object pool, replies in blocks | from start to the end of the accept loop; not `Stop()` and the destructors at the end of `main()`, nor its task server | `LegacyServer` |
| samples | I/O contexts of a completion port; watches of an epoll loop | the whole programs | `EchoServer`, `EpollSample` |
| smart pointers, timestamps, older memory pools, client library, legacy client | | | not modelled, see section 8 |

### What is hard about it

* Threads share containers, a counter and two sizes, some under a lock and some
  not: `_clientsBuf.size()` and `_tasksBuf.size()` are read without the lock,
  `_clientCount` is tested by one thread while others change it, and the
  client's send buffer is used by two threads with no lock at all.
* A batch of epoll events holds raw pointers to channels, and handling one event
  may delete a channel.
* A thread may end by itself while another is about to close it. `Close()` waits
  for it with the mutex in hand.
* A condition variable may wake the wrong thread, or one that nobody notified.
* Sockets block. A peer that does not read holds up whoever sends to it, and two
  ends that both send may hold up each other.
* A set of descriptors, an interest list or a posted operation outlives the moment
  it was right: a client may have left since, or joined.
* On Windows the completion port works on a channel's buffers, and holds its
  address, while the loop goes on, times it out, or deletes it.
* Work servers are destroyed by whoever drops the last `shared_ptr`, main or the
  boss thread, and the destructor waits for a thread.
* `recv()` cuts the stream anywhere; buffers fill up; replies are dropped whole.
* Peers leave, fall silent or stop reading at any moment; registering a socket or
  waiting for events may fail.

### What makes each component correct

| Component | Promise |
|---|---|
| semaphore | it is a counting semaphore; no wake-up is lost |
| thread | `Close()` returns, and then no thread of the object is left; a new life starts clean |
| task server | every task runs once, in order, also those handed over while it stops |
| boss and work servers | the client counter is exact, the limit holds, each channel has one owner and is never used after deletion, every message is read, every reply that was accepted is sent, every dead or silent peer removed |
| client and buffers | the byte streams stay whole, requests are handled once and in order, the two ends do not block each other |
| memory pool | a block has one holder and room for what was asked; the free chain is exact, and `malloc` comes last |
| work server (select) | the set given to `select()` names exactly the clients, when it matters |
| work server (IOCP) | the port and the loop never step on each other in a buffer; the count is exact; a client that is gone leaves, once; no operation outlives its channel (which is not so, section 6) |
| shutdown | it ends, and no object is destroyed under a running thread |
| client process | after "exit" it ends |
| logger | the lines of a thread keep their order when printing changes to queueing |
| byte stream | what was written is read back |
| legacy server | the count is right, replies arrive whole, no client is timed out whose heart beat fits in its receive buffer, a pool node has one owner |
| samples | each connection gets back what it sent; one heart beat per reception |

## 2. Modules

| Module | What it is |
|---|---|
| `Semaphore` | specification of a counting semaphore: `permits`, `pending` threads |
| `CRCSemaphore` | `crc_semaphore.hpp`; one action per critical section, and the condition variable with spurious wake-ups and notifications taken by a newcomer |
| `CRCThread` | `crc_thread.hpp`, any number of callers and of lives, INSTANCE of `CRCSemaphore` for `_sem` |
| `TaskQueue` | specification: tasks are added at one end and run, each once, from the other |
| `CRCTaskServer` | `crc_task_server.hpp` (and `crc_logger_server.hpp`, the same code), EXTENDS `CRCThread`: the callback of the thread is the loop |
| `Admission` | specification: at most `MaxClient` served, and refusal only at that number |
| `CRCWorkEpollServer` | `crc_work_server.hpp` with `crc_work_epoll_server.hpp`, channels, kernel and peers |
| `CRCBossEpollServer` | `crc_boss_server.hpp` with `crc_boss_epoll_server.hpp`, EXTENDS the former: the accepting thread beside the work servers |
| `RequestReply` | specification: requests handled in order and once, answers in order and none twice |
| `CRCWorkClient` | `crc_buffer.hpp`, the loop of `crc_work_client.hpp` and the server's counterpart, `client.cpp`'s sending thread, two kernels and the network |
| `Allocator` | specification: a block is given while nobody holds it, with enough room |
| `CRCMemoryPool` | `crc_memory_pool.hpp`, any number of threads; `MCMemoryPool` adds the symmetry for TLC |
| `CRCServerShutdown` | `server.cpp` with start, `Close()` and the destructors of boss and work servers |
| `CRCWorkSelectServer` | `crc_work_select_server.hpp`, `crc_fdset.hpp` with the loop of `crc_work_server.hpp` |
| `CRCWorkIOCPServer` | `crc_work_iocp_server .hpp`, `crc_boss_iocp_server.hpp`, `crc_iocp.hpp` and the part of `crc_channel.hpp` and `crc_buffer.hpp` for the port |
| `CRCLogger` | `crc_logger.hpp`, `crc_logger_server.hpp` |
| `CRCStream` | `crc_stream.hpp`, `crc_stream_message.hpp` |
| `ClientLife` | `client.cpp` from the creation of its clients to the end of `main()` |
| `LegacyServer` | `src/TestServer`: boss, work servers, channels, object pool |
| `EchoServer`, `EpollSample` | the two servers of `src/HelloSocket/iocp-epoll.cpp` |
| `MCParts`, `MCTasks`, `MCBoss`, `MCIOCP` | for the runs, section 3: the small modules side by side; the uses of `CRCThread`; the environments of the epoll servers; the two clients of the completion port |
| `CRCCommonProofs` | theorems about `CRCSemaphore`, `CRCServerShutdown`, `CRCLogger` and `CRCStream` |
| `CRCTaskServerProofs` | theorems about `CRCThread` and `CRCTaskServer` |
| `CRCBossProofs` | theorems about `CRCBossEpollServer` and the work servers it serves |
| `CRCWorkServerProofs` | theorems about `CRCWorkSelectServer` and `CRCWorkIOCPServer` |
| `CRCWorkClientProofs` | theorems about `CRCWorkClient` |
| `CRCMemoryPoolProofs` | theorems about `CRCMemoryPool` |
| `LegacyProofs` | theorems about `LegacyServer`, `EchoServer` and `EpollSample` |
| `SequenceLemmas` | what these proofs need of sequences |

### How state and actions follow the code

*Granularity.* A function that holds one mutex from start to end is one action.
Where state is read or written without the lock another thread uses, the function
is cut there: `SizeCheck` and `Join` in the work server's loop; four `ReadSize`
steps per comparison of `getClientCount()`; `PushCopy`, `PushLoad` and `PushStore`
for `memcpy` and `_lastPos += nLen` in `push()`; `LeaveBegin` (the listener's
counter) and `LeaveEnd` (erase, delete, close) in `OnClientLeave()`. Memory is
sequentially consistent.

*Threads of a CRCThread.* `wpc[w]` follows `OnWork()`: `onRun`, `body` (inside the
callback), `self` (it has called `ExitInSelfThread()`), `onDestory`, `wakeup`,
`done`. `cpc[c]` follows `Close()`: `close`, `wait`, `joining`. `ExitKinds` says
how callbacks end: `"flag"` for loops that read `IsRun()` false (task and log
server), `"self"` for those that call `ExitInSelfThread()` (boss servers always,
work servers when `DoAction()` fails).

*Work server.* `wpc` walks through `OnRun()`: `top` (size test), `join`, `empty`,
`check` (`CheckTime()`, with `evict` inside `OnClientLeave()`), `mod` (the
`EPOLL_CTL_MOD` pass), `wait`, `events` (with `drop` inside `OnClientLeave()` and
`send` inside `send()`), `exit`. Results that the code ignores are ignored:
`Join` registers any subset when `EPOLL_CTL_ADD` may fail. The variable `err`,
which the pass reads without having written it when `CheckTime()` has just evicted
the last client, is a choice between both outcomes (`ModifyNobody`). The
`OnClientLeave(iter)` that `CheckTime()` calls erases the entry of the channel and then
reads the channel from it: it deletes the channel if no other thread got the memory
of the entry in between (`EvictEnd`), and otherwise ends anywhere (`EvictUndefined`,
where the work server is followed no further). A signal makes `epoll_wait()` return
early (`WaitInterrupted`).

*Data.* In the epoll modules messages are counted (`inbox`, `outbox`,
`sndbuf`); `CRCWorkClient` has the bytes. Whatever is counted there is a whole
message, which `ImplementsRequestReply` of `CRCWorkClient` justifies. A connection of the
server modules is opened at most once: a channel and its socket have one life.

*Client.* `PushFits` to `PushStore` are `push()` by the sending thread;
`Poll`, `Recv`, `HandleMessage`, `HandleDone`, `Write`, `SendCopy`, `SendDone` are
one turn of the loop at either end. `client.cpp` keeps its clients as
`CRCWorkClient*` and `OnRun()` is not virtual, so the loop of the base class runs
whatever the class of the client. `send()` copies in portions as the kernel has
room; `Deliver` moves bytes between the kernels in any portions. Requests and
answers have the same length (100 bytes for `Login` and `LoginResponse`).
`memcpy()` of overlapping bytes in `pop()` is taken to behave as `memmove()`, as
that of the toolchains named in the repository does.

*Memory pool.* `alloc_mem()` and `free_mem()` are cut inside the lock (`Lock`, then
`TakeUnit` or `TakeSystem`; `Unref`, then `Push`), so that the lock has something to
protect, and before it: `Release` reads `_bPool` of the block without the lock. A unit
is the pair of its allocator and its number. `held` is the set of pointers a thread
has; `Hand` moves one, as `addClient()` does with a channel that the boss made and a
work server deletes. `Entries` and `UnitSize` are the numbers of the source. All
allocators have the same `Quantity`, where the source has two. `add_ref()` has no
caller, so the branch of `Unref` for a count above one is never taken, which
`OneHolder` shows.

*Server shutdown.* `CRCThread` is reduced to its flag and its two waits, as
`CRCThread` has the rest. `refs[w]` is who holds a `shared_ptr` to a work server,
`object[w]` what became of it. `Joins` is the condition under which its destructor
waits: the thread's flag is set and the server had a socket, since `Close()` returns
at once otherwise. `_workServers` is cleared while the boss may index it; what the boss
does then is `"undefined"` and the model follows it no further.

*Select server.* `NewSet` is the set as it is rebuilt or copied from the backup,
`Gone` is `OnClientLeave()` with `_clients_change`. `CheckTime()` may leave `_clients`
empty, and then `select()` gets `_max_socket` from `begin()` of an empty map
(`SelectErrs`). Using the erased iterator, as the loops outside Windows do, may end
anywhere: `"undefined"`, or skip clients of the pass. No program installs a signal
handler, so `select()` is not interrupted.

*IOCP server.* An operation is a record of the channel, the kind, and the position and
length that were given to the port; `port` is the queue of completions. `Bytes` says
what the kernel may answer: nothing on a socket the server has closed, any part of
what has arrived or is to be sent otherwise. A completion that finds its channel
deleted is `"undefined"`, and so may be the use of an erased entry of `_clients` in
`CheckTime()`. `bossPc` walks through `IOCPAccept()`: the limit is tested, the channel
shown to the work server, and counted, in three steps between which the work server
may serve it and count it out. `known` says whether `register_sock()` succeeded: a
channel that the port does not know gets no completion. `"evicted"` is a channel that
`CheckTime()` took out of `_clients` and left to a completion.

*Client process.* One client stands for those of a thread. `misused` records a use of
a channel or a client after its end; the process is followed no further.

*Legacy server.* A channel is held through `shared_ptr`s, `Holders`, and returns its
node to the pool with the last. `Answer` is `SendData()`: only full blocks leave.
`dealing` walks through the boss's `addClient2WorkServer()`, as the work server may
time a channel out before `OnJoin()` counts it. One `recv()` brings no more than the
receive buffer has room for: at least `RecvRoom` whole messages of those that wait, or
all (`RecvBrings`).

*Samples, stream, logger.* One action per completion, event or typed read; a byte of
`CRCStream` is named by the field it belongs to, a line of `CRCLogger` by its record.
A caller of the stream whose read was refused may try the field again or go on to the
next (`Refuse`), as the handlers of the repository do; the length is stored in a signed
short (`AsShort`). `EPOLL_CTL_MOD` of the epoll sample does not fail: the descriptor is
open and registered until its own handler removes it.

## 3. Runs

| Run | Module, constants | States | Shows |
|---|---|---|---|
| `tasks` | `MCTasks`: 2 callers, 3 lives of a thread; 3 tasks, 1 `Close()` of the task server | 16,678 | callbacks that stop on the flag: `JoinOnClose`, `NoResidualPermit`, `CloseReturns`; callbacks that may end themselves as well: `SelfJoinHasWorker`, which is `JoinHasWorker` of a second object; the task server: `Conservation`, `ImplementsTaskQueue`, `TaskRuns` |
| `thread_self_close` | `CRCThread`, 1 caller, `{"self"}` | *violation* | `Close()` does not return |
| `thread_self_flag` | same, 1 caller, `{"flag", "self"}` | *violation* | the flag says the thread is over while it runs (`JoinOnClose`) |
| `task_server_twice` | `CRCTaskServer`, 3 tasks, 2 `Close()` | *violation* | tasks run twice |
| `boss_admission` | 2 work servers, 3 connections, limit 2, all faults | 415,755 | `CountAccurate`, `OneOwner`, `ImplementsAdmission` |
| `boss_live` | `MCBoss`: 1 work server, 2 connections, a send buffer for 2 replies, 1 in the kernel; three environments, below | 83,867 | `NoStaleEvent`, and `MessagesRead`, `RepliesSent`, `DeadPeersReaped`, `SilentRemoved` |
| `boss_slow_peer` | 1 work server, 2 connections with 2 messages each | *violation* | one peer that does not read stops the others |
| `memory_pool` | `CRCMemoryPool`, 2 threads, 2 units per allocator, 2 blocks of `malloc`, sizes 64, 65 and 10241 | 541,557 | `OneHolder`, `ImplementsAllocator` |
| `iocp_server` | `MCIOCP`: 2 connections, limit 1, one talking, requests of 2 units, buffers of 3 and 2 | 398,798 | `InPlace`, `AnswersInOrder`, `CountAccurate`, `OneLeftBehind`, `GoneLeaves` |
| `iocp_dangling` | same | *violation* | a completion deletes the channel the other direction still points to (`LastCompletionDeletes`) |
| `iocp_leak` | same | *violation* | a channel taken out of `_clients` is never counted out (`OfflineCounted`) |
| `parts` | `MCParts`: the parts below side by side | 400,305 | their properties |

The parts of `parts` do not interact. A behaviour of `MCParts` is a behaviour of the
part chosen at its start, and the variables of the others keep their initial values,
so that a property of one part holds in the run exactly when it holds of that part.
`MCTasks` does the same for the uses of `CRCThread`, where the callbacks that may end
themselves have an object of their own. `MCBoss` chooses an environment: `"crowd"`,
peers that send one message each, leave and fall silent; `"talk"`, one peer that sends
four; `"add"`, peers that stay and registrations with epoll that fail.

| Part | Constants | Shows |
|---|---|---|
| `CRCSemaphore` | 4 threads, 3 permits | no wake-up is lost (`NoLostWakeup`), and the whole is a semaphore (`ImplementsSemaphore`) |
| `CRCServerShutdown` | 2 work servers | a work server is destroyed after its thread, unless that ended itself and has only its signal left to give (`WorkJoined`); `Close()` ends but for the mutual wait of `thread_self_close` and the cleared vector (`CloseEnds`) |
| `CRCWorkSelectServer` | 2 connections, 1 message each | the server ends by itself only when it has no clients (`ServesWhileClients`); every message is received (`RequestsRead`) |
| `CRCStream` | all schemas of 3 fields out of 6, capacity 26 | `RoundTrip`, also after reads that were refused or given up |
| `ClientLife` | 2 sending threads | `ExitEnds` |
| `CRCWorkClient` | 4 requests of 3 bytes, header 2, buffers 5, sockets 2 | `NoMutualBlock`, `ImplementsRequestReply`, `Drained` |
| `CRCLogger` | 2 threads, 2 records each | `LogInOrder` |
| `LegacyServer` | 1 work server, 2 channels, 1 node of the pool, blocks of 3, room for 1 message | `CountMatches`, `RepliesIntact`, `HeartSeen`, `NodeOwned` |
| `EchoServer` | 2 contexts, 2 connections, 2 messages in all | `EchoExact` |
| `EpollSample` | 2 visitors, 2 messages | `HeartPerRead` |

`CHECK_DEADLOCK FALSE` is given where the system may stop: nobody is obliged to
restart a thread, hand over a task, connect or send. A real deadlock shows in the
liveness properties instead.

### Bounds, and why they are enough

* *Four threads on a semaphore.* Overtaking needs three: a sleeper, a notified
  thread and a newcomer. The theorems of section 5 cover any finite number.
* *Two callers and three lives of a thread.* Two callers race for the flag and for
  the mutex; a permit left over from the first life is met in the second, and what
  that does in the third.
* *Three tasks.* One in `_tasks` running, one in `_tasks` waiting, one in
  `_tasksBuf`; the last `addTask()` may fall between any two steps of the loop and
  of `Close()`.
* *Two work servers, three connections, limit two.* The limit is reached, a third
  connection is refused or takes the place of one that leaves, and both work
  servers change the counter while the boss tests it. The connections are
  interchangeable (symmetry), which is sound as all properties of that run are
  safety properties that name none of them.
* *One message from each of two peers* (`boss_live`, `"crowd"`). Two events with both
  directions each give every order in which a batch can touch a channel being
  deleted. Full buffers are the subject of `"talk"`: four messages against a
  send buffer of two and a kernel that holds one. The third reply in a row does not
  fit and is dropped, and `send()` of two waits for the peer.
* *Two connections whose registration may fail* (`"add"`). One that epoll does
  not know keeps the other unread until it is removed, and both may fail.
* *A buffer of five bytes for messages of three with a header of two.* One message
  fits and two do not, which is the proportion of the client: `client.cpp` pushes
  100 messages of 100 bytes at a time into 10,240 bytes. A cut may fall inside the
  header, behind it, and between messages. The same properties were checked with
  two messages of two bytes in a batch and up to five batches.
* *Sockets of two bytes.* With the bounds of the run `NoMutualBlock` holds down to
  sockets one byte short of a batch and fails below, so two bytes are the narrowest
  sockets that do. From a certain size on it holds for any number of requests, which
  is the theorem `NeverMutuallyBlocked` (section 5); the run is below that size, and
  shows what the theorem does not. The same was checked with ten requests (8,088,767
  states).
* *Parts.* Two of each actor: two work servers for a boss that holds one while main
  clears the other; two connections for a set that changes while the other client is
  served; two channels for one pool node, so that the second comes from the heap; two
  threads at a barrier. In `CRCStream` the capacity lies inside the
  third field of most schemas, and the destinations are shorter than, equal to and
  longer than the arrays; `ShortRange` is 48 instead of 65,536, so that a length of 24
  and more is stored as a negative number. In `LegacyServer` two messages may wait where
  there is room for one.
* *A talking and a silent client on IOCP.* A request is received in two halves, a
  buffer of three holds one and a half, and the second answer may come while the first
  is being sent. With a limit of one the second client is refused, or takes the place
  of the first while that is counted out.
* *Two threads, two units per allocator, two blocks of `malloc`.* Both threads meet
  in one allocator and in two; a chain is full, has one unit, is empty and is filled
  again in another order; `malloc` serves a small request and a large one. 64 and 65
  are the two sides of a boundary of the table; the theorem `Fits` covers the others.
  `Request` leaves one block of `malloc` per thread that waits, as `malloc` does not
  fail in the model. Threads and blocks of `malloc` are interchangeable.

## 4. Fairness

* *Engine threads* are given weak fairness: the operating system schedules them,
  their loops never wait longer than 1 ms without work (`sleep_for`, the timeout of
  `epoll_wait`), and a mutex is held for one action, except by `Close()`.
* *A notified thread* gets the mutex back (`WF(Resume)`); nobody is obliged to wake
  spuriously.
* *The network* delivers what a kernel holds as far as the other has room
  (`WF(Deliver)`): TCP retransmits.
* *The completion port* completes every operation that the kernel can complete, and a
  client whose peer is gone is timed out in the end (`GoneLeaves`).
* *The clock* goes on for a channel that nobody reads (`ClockGoesOn`, in `boss_live`):
  its heart beat can only be reset by a message that is read, so it is over in the end.
* *Peers read* what they are sent (`PeersRead`, in `boss_live`); without it
  `MessagesRead` fails, which is the run `boss_slow_peer`.
* *Nobody is obliged* to start or close a thread, to add a task, to connect, to
  send, to close, or to give up by itself.

## 5. Proofs

Every safety invariant that a passing run checks and every refinement is a theorem.
The theorems hold for every value of the constants allowed by
the named assumptions of the modules (`SemaphoreAssumption`, `ThreadAssumption`,
`TaskServerAssumption`, `WorkAssumption`, `BossAssumption`, `IOCPAssumption`,
`PoolAssumption`, `ClientAssumption` and `OneBatchFits`, `LegacyAssumption` and
`NodesAssumption`, `EchoAssumption`, `StreamAssumption`): any sets of threads, connections, channels, work
servers and blocks, any natural bounds and sizes. `OneBatchFits` is the proportion of
`client.cpp`: one batch fits into a buffer and two do not. The others say that bounds
are numbers and that the values that stand for nobody are nobody's name. The sets are
assumed finite where a size is counted.

Five hypotheses are stated with the theorems that need them:

* `ExitKinds = {"flag"}` (`ThreadJoins`, `ThreadSemaphoreBalanced`; for the task server
  it is part of its assumption): the callback ends only when the flag is cleared. With
  `ExitInSelfThread()` both are false.
* `OneOwner` and `ClosedOnce` (`TasksConserved`, `TaskQueueRefined`): one thread starts
  and closes the task server, once, as the destructor of `CRCWorkServer` does. Closed
  twice it runs tasks twice, which is the run `task_server_twice`.
* `IsFiniteSet(Clients)` (`IOCPCountExact`).
* `BatchAndOne` and `SocketsHold` (`NeverMutuallyBlocked`), below.
* A registration with epoll does not fail (`Listening`).

### What is proved, and along which argument

* **Semaphore** (`CRCCommonProofs`). `SemTypeCorrect`, `SemBalance`, `SemNoLostWakeup`
  and the refinement `SemRefines`. Neither `Balance` nor `NoLostWakeup` is inductive
  alone. `SemInv` joins them with the finiteness of both sets, so that moving a thread
  from `sleeping` to `notified` keeps the sum of their sizes (`NotifyOneMoves`).
  `StepRefines` maps each step to `Release`, `Acquire`, a begun wait or a stutter.
* **Thread** (`CRCTaskServerProofs`). `ThreadTypeCorrect` for any callbacks, and for
  callbacks that stop only on the flag `ThreadJoins` and `ThreadSemaphoreBalanced`.
  `JoinInv` ties the two sides together: at most one thread is inside `OnWork()`; while
  the flag is set the semaphore is empty and that thread is there; while a caller is
  inside `Close()` it owns the mutex, and either the thread still has its `wakeup()` to
  give or the semaphore holds exactly that one. `ThreadOwesWakeup` holds for callbacks
  that end by themselves too: little of `JoinInv` is left with threads of earlier lives
  on their way out, and `OwedInv` keeps what the two counters say about the one thread
  that may be pending.
* **Task server** (`CRCTaskServerProofs`). `TasksConserved` and `TaskQueueRefined`.
  `QueueInv` is `JoinInv` with `AtLoop` and `AtClose` (which of the two threads may
  touch `_tasks` at each point) and `Numbered`: what was executed, what is left of
  `_tasks` and `_tasksBuf` are the tasks in the order of their numbers without a gap.
  This is stated for each place of a sequence, not as an equation of concatenations, so
  that a step disturbs one piece. `Close()` runs what is left only when the thread is
  out of `OnWork()`, which is where `JoinInv` is needed.
* **Boss and work servers on epoll** (`CRCBossProofs`). `BossTypeCorrect` in four groups
  (`NetTypeOK`, `ChanTypeOK`, `WorkTypeOK`, `BossTypeOK`); `ChannelsOwned`,
  `EventsFresh`, `CounterExact`, `LimitKept`, `AdmissionRefined` and `Listening`. The
  inductive invariant `Structure` is the type invariant with `Sockets` (what the socket
  of a connection says of its channel and of the boss), `Owners` (one container per
  channel) and `Hands` (what a work server has in hand at each point of its loop). From
  it every step is one of four kinds, `OpenStutters`, `OpenLoses`, `OpenGains` and
  `OpenRefuses` (`StepEffect`), and the arithmetic of `_clientCount` and the refinement
  are done on these four instead of on thirty actions. `Accounting` adds
  `CountAccurate` and `WithinLimit`, which need each other: the test of the counter
  bounds the number of channels only because the counter is exact.
* **Work server on select** (`CRCWorkServerProofs`). `SelectSetsFresh`: the server ends
  by itself only without clients. `SetsInv` says that the backup is the set of clients
  unless `_clients_change` is set, which `GoneTells` keeps whoever leaves.
* **Work server on IOCP** (`CRCWorkServerProofs`). `OperationsInPlace`,
  `AnswersOrdered`, `OneDangles` and `IOCPCountExact`. `IOCPInv` says that at
  most one operation or completion is out per channel and direction (`OneOut`), that
  the flags of the two contexts tell of it (`Flagged`), and what its address and length
  are in terms of the buffers at that moment (`ReceivePlace`, `SendPlace`), also
  between the completion and the loop's taking notice. `OneLeft` says what a deleted
  channel leaves behind: not both directions, and neither of a channel that was never
  answered. That is as much as holds, since one direction may be left (section 6).
  `CountInv` ties the count to the channels handed over and not counted out, less the
  one the boss has yet to count (`Uncounted`), and to the limit; the two need each
  other, as with epoll.
* **Connection** (`CRCWorkClientProofs`). `ConnectionRefined`: the buffers, the framing,
  the two loops and the unlocked `push()` of the sending thread implement
  `RequestReply`. `ClientInv` says of each direction that the received, delivered,
  accepted and unsent bytes in a row are whole messages, and that these continue what
  was handled (`Streams`); that the receiver stays within its buffer (`Received`);
  that `push()` meets an empty buffer or is turned away (`Pushes`, the one place where
  the proportion of `OneBatchFits` matters: a second batch would be written into a
  buffer the loop is sending); and that a buffer does not grow while it is sent
  (`Sends`).
* **No mutual wait** (`CRCWorkClientProofs`). `NeverMutuallyBlocked`: client and server
  never sleep in `send()` on each other, for any number of requests. The client begins
  a `send()` only after it has taken in what `select()` saw, so whenever it begins one
  there are at most `Most` bytes on the way, counting both directions (`Amounts`, checked
  with TLC on 19,773,478 states before it was proved). Two blocked ends need both
  directions full, `4 * SockCap + 2` bytes. `SocketsHold` makes that more than `Most`:
  `2 * BufSize + BatchLen + Size <= SockCap + 3`, which is 30,577 bytes with the numbers
  of the code. The repository sets no socket sizes, so this is a condition on the host.
  `BatchAndOne` says that a batch and a message more fit into a buffer but for one byte:
  10,100 and 10,240.
* **Memory pool** (`CRCMemoryPoolProofs`). `PoolTypeCorrect`, `ChainsExact`, `HeldOnce`,
  `MallocIsLast` and the refinement `AllocatorRefined`. `FreeChain` says that a
  sequence exists; `Popped` and `Pushed` give the sequence after a unit is taken or
  put back, `Framed` and `ChainKept` say when it stays. None of the properties is
  inductive alone. `IInv` adds what a thread has in hand at each point (`Stages`) and
  what it may rely on inside the lock (`Locks`): that what it has read of the header
  is still the header. `OneHolder` then keeps the unit being freed out of the chain,
  and `FreeChain` the unit being given out of everybody's hands. `Fits` is the table
  against the rounding, for every size.
* **Shutdown** (`CRCCommonProofs`). `ThreadsOutlived`: a work server that had a socket is
  freed only when its thread has ended, or has ended itself and has only its signal left
  to give. The latter is not excluded: `ExitInSelfThread()` has cleared the flag by
  then, and the destructor does not wait (`thread_self_flag`). `LifeInv` adds that whoever is referred to is alive
  (`Referred`), that the vector refers to all until `Close()` (`InVector`), and that only
  the thread itself clears the flag of a living server (`FlagOwned`), so that the last
  owner either finds the flag and waits or meets a thread that ended itself. `DropKeeps`
  is the argument for one `shared_ptr`, whoever drops it.
* **Logger** (`CRCCommonProofs`). `LogIsOrdered`. The lines of one thread are a
  subsequence of what is printed and queued; `LogInv` keeps them equal to what the
  thread logged (`InOrder`), knows what a thread is about to print (`Writes`) and that
  nothing is queued before the log server is started (`Queued`), so that a thread that changes
  from printing to queueing does not overtake itself.
* **Stream** (`CRCCommonProofs`). `StreamReadsBack`: what a receiver reads is what was
  written, up to the first field that did not fit or that was given up. `StreamInv` says where each field
  begins (`Places`) and that the receiver is at the beginning of one (`ReadTo`), also
  after a refused read; `CountRead` is the argument for the count of an array.
* **Legacy server and samples** (`LegacyProofs`). `LegacyAnswers`, `LegacyCounts`,
  `LegacyHears` (for a heart beat among the messages one `recv()` has room for) and
  `LegacyOwns` from one invariant, `LegacyInv`: `Places` (where a
  channel is, also in the hands of the boss), `Counted` (the count and the channel the
  boss has dealt out and not counted), `Nodes` (who holds a node), `Intact` (wire and
  block together are the replies) and `Watches` and `Beats` (the kept set is the set of
  clients unless changed, and what `select()` found has still to be read). `EchoIsExact`
  from `EchoInv`, context by context, and `SampleAnswers` from `SampleInv`.

`SequenceLemmas` holds what these proofs share. The library's induction theorem takes an
operator as parameter, which none of the installed provers can instantiate; its
theorem on well-founded relations (`WFMin`) speaks of a set instead. `Induction` is
derived from it, and with it `FlattenSeq` is shown to distribute over concatenation for
every sequence of sequences, by which a message can be put on and taken off a stream of
bytes of any length.

Some theorems state more than the runs check (`Balance`, the type invariants,
`WithinLimit`, `ListensToClients`, `FreeChain`, `MallocOnlyWhenFull`): TLC found them
to hold on the same instances while the proofs were written, and the runs keep the
properties that only they can show or that the rest rests on.

### Checked by TLC only

Every liveness property (`CloseReturns`, `TaskRuns`, `MessagesRead`, `RepliesSent`,
`DeadPeersReaped`, `SilentRemoved`, `Drained`, `RequestsRead`, `GoneLeaves`, `ExitEnds`,
`CloseEnds`), since TLAPS does not handle ENABLED, on which fairness rests. The
sizes of `NeverMutuallyBlocked` are sufficient; that smaller sockets do in the
connection of `parts` is shown by that run only.

## 6. Disagreements found

1. **`Close()` can wait for ever** (`thread_self_close`). `CRCThread::Close()` waits
   on the semaphore with `_mutex` in hand; a callback that ends with
   `ExitInSelfThread()` needs `_mutex` first. The boss servers end that way, so
   `CRCBossServer::Close()` hangs when it reads `IsRun()` before the boss thread has
   left its loop.
2. **Tasks run twice** (`task_server_twice`): `CRCTaskServer::Close()` leaves what it
   ran in `_tasksBuf`, and the destructor calls it again.
3. **One slow peer stops a work server** (`boss_slow_peer`), although the README
   describes asynchronous I/O: the sockets are blocking.
4. **The flag says "not running" too early** (`thread_self_flag`): `_isRun`, the "flag
   whether running", is cleared by `ExitInSelfThread()` inside `OnWork()`, while the
   thread still runs. `CRCWorkServer::Close()` decides by it whether to join.
5. **A completion finds its channel deleted** (`iocp_dangling`). A comment in
   `crc_work_iocp_server .hpp` leaves aborted operations to `CheckTime()`, "more
   elegantly". `CheckTime()` closes the socket of a channel with operations under way and
   leaves the deletion to a completion without bytes. With a send and a receive under
   way there are two: the first deletes, the second reads what was deleted.
6. **A channel stays for ever** (`iocp_leak`). `_clientCount` is to "count while client
   join or offline". When the first receive of a channel cannot be posted, the flag of
   an outstanding receive is set all the same; `CheckTime()` takes the channel out of
   `_clients` and leaves it to a completion that never comes. It is not deleted, and
   its client is not counted out.

### Behaviour worth knowing

Met while modelling; no comment or test of the repository says otherwise, and the
models follow the code.

* *Threads.* `OnWork()` runs `onDestory` only while the flag is set, which `Close()` clears:
  `CRCWorkServer::ClearClients()`, registered there, does not run when a work server is
  closed.
* *Shutdown.* If `Bind()` fails, `Close()` and the destructors return at once while the
  work threads run on. `Close()` holds the mutex that `ExitInSelfThread()` needs.
* *Work servers.* `CheckTime()` evicts by an iterator that it reads after erasing it, on
  epoll, select and IOCP alike. `_clientCount` may be -1 for a moment, when a channel is
  counted out before the boss has counted it in. A work server whose `epoll_wait()`
  fails ends, stays with the boss, and is given clients that nobody serves.
* *IOCP.* A receive that completes just before `CheckTime()` evicts its channel leaves
  nothing outstanding that would delete it, as in 6 above. The completion of the last
  evicted channel is not looked at while `_clients` is empty. When `delivery_send()` fails,
  `DoAction()` deletes the channel and then asks it for its receive context. When the
  next `AcceptEx()` fails, nobody is accepted any more, and nobody says so.
* *Select.* Timing out the last client leads to `select()` without descriptors and with
  an arbitrary `nfds`; if that fails the work server ends, and stays with the boss.
* *Client.* A sending thread that returns early leaves the others at the barrier, and
  `main()` waiting. The detached receiving thread may use a client that is being closed
  or deleted.
* *Stream.* An array that fits its destination exactly is refused. The length of a
  message is kept in sixteen bits. `ReadString()` writes through `c_str()` of an empty
  string.
* *Logger.* Records that are queued when the process ends are never written. The lines
  of threads that print themselves, and the two lines of an error, may interleave.
* *Legacy server.* Replies leave only in full blocks. Sockets of clients that leave are
  never closed. A failing `select()` in a work server closes the listening socket and
  drops the clients without `OnLeave()`. A heart beat behind more messages than the
  receive buffer has room for is not read in that pass, and its client may be timed
  out. A pass longer than the heart-beat limit times
  everyone out.
* *Samples.* Comments of `iocp-epoll.cpp` (335, 344, 357, 387, 407) say that closing a
  connection posts an accept again; on two paths (311, 372) it does not. `clientLeave()`
  has a result type and returns nothing.

## 7. Plan

What is left, in this order:

1. *The lost connection* in `CRCWorkClient`, and the proofs of section 5 with it.
2. *Abstract specifications* that the properties of `CRCWorkIOCPServer` and of
   `LegacyServer` would follow from, as `Admission` does for the epoll servers.

## 8. Not modelled

* *Select boss*: its loop and its end are the boss of `CRCServerShutdown`; the admission
  of a client, which it shares with the epoll boss, is modelled with the latter only.
* *Logger*: wording, files and `set_log_path()`, the singleton.
* *`ReadString()` and the named wrappers* of the stream's templates.
* *Smart pointers* (`crc_auto_ptr.hpp`, `AutoPtr.hpp`): no part of the engine uses them,
  and the samples use them in one thread.
* *Older memory pools* (`MemoryMgr.hpp`): the algorithm of `crc_memory_pool.hpp` with
  other numbers.
* *Limits of `fd_set`*: a descriptor beyond `FD_SETSIZE`.
* *Timed and asynchronous sending* (`timing_send`, `addSendTask`,
  `CRCChannel::SendData`): no caller, or an empty body.
* *`CRCObjectPool`*: `CRCChannel` derives from its base class, but nothing calls
  `object_pool()`. The pool that the legacy server uses is in `LegacyServer`.
* *`add_ref`*: no caller.
* *Creation of the singletons* (logger, memory pool): `main()` uses both before it
  starts a thread.
* *Timestamps, socket start-up, wrappers of system calls*: no state of their own that
  the rest depends on. Time enters as `HeartTimeout`, `BeatMissed` or the clock of
  `LegacyServer`, which may advance at any moment.
* *End of the legacy server*: `Stop()`, and the destructors at the end of `main()`, which
  run beside work threads that nobody joins; its task server, which never gets a task.
* *Legacy client, client library, other samples* (`TestClient`, `CommonDll`,
  `MemoryManager`, `iocp-encap.cpp`, `HelloC11`): earlier copies of modelled code and
  exercises that keep no state.
