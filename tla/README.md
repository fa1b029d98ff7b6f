# A verification development for Network_

`Network_` is a C++ network library for game servers on Windows: sessions over
I/O completion ports, packets with a size header, WebSocket, a client connector
that reconnects, and helpers (locks, jobs, memory pool, logger). This directory
holds TLA+ models of its parts, TLC runs over small instances, and proofs that
TLAPS checks. Paths are relative to `src/Network/`; `HNetIo.cpp:637` is a line.

## 1. Inventory

| component | state | operations | hard behaviour |
|---|---|---|---|
| Send queue: `HNetIoSend`, `Gathering` (`HNetIo.cpp:545-757`) | ring of buffers, `_head`, `_tail`, `_pending`, `_lock` | `Send` (any thread), `Sended` and `_Send` (worker), `Clear`, `Initialize`; the Job variants | senders race the completion; the kernel reads a buffer meanwhile; a lost wake-up |
| Receive framing: `HNetIoRecv` (316-540) | `_buf`, `_begin`, `_end`, thread-local `WSABUF` | `Recv`, `Recved`, `Completed`, `PrepareBuffer`; the Job variants hand the buffer over | packets cut anywhere; a length left by another receive |
| Session life cycle: `HNetIoAccept`, `HNetIoDisconnect`, `HNetSession`, `HNetAcceptor`, `HNet`, `RefCount` | socket, `_count`, `_disconnect`, `_netId`, table `_connectedSessions` | `Accept`, `Accepted`, `_OnConnect`, `Disconnect`, `_OnDisconnect`, `OnRelease`, `_AddSession`, `_DelSession` | the last `Release` on any thread ends the connection; failing calls; reuse of the slot; calls by NetId |
| Connector: `HNetConnector`, `HNetIoConnect`, `HNetIoReconnect` | `_reconnect` and the session | `Connect`, `Disconnect`, `TryReconnect`, `Reconnect` | reconnect races `Disconnect`; the chain of attempts |
| Single-thread mode: `HNet::Update`, `HNetIoJob`, `operator>>` | `_ioJobQueue`, buffers handed over | `_AddIoJob`, `Update`, `CompletedJob`, `RecvedJob`, the jobs' `Excute` | jobs lag behind the I/O; a callback inside `Update` |
| WebSocket sessions: `HNetIoWsAccept`, `HNetIoWsRecv`, `HNetWsAcceptor` | as acceptor and receive framing | handshake, ping, `Completed`, `RecvWs`, `_Ping`, `_Pong` | references taken before `Open`; no test of the disconnect flag |
| WebSocket header: `HNetWsPacket::Header` (`HNetPacket.cpp:175-345`) | header bits and extended length | `Initialize`, `Size`, `DataSize`, `Check`, `operator<` | 16-bit sums; length bytes not yet received |
| Packets: `HNetPacketEx`, `HNetWsPacketEx`, `RefPacket`, `WsaSend`, `HNET::LIB::Buffer` (`Common/Buffer.cpp`) | `_size`; `_in`, `_out`, `_trySize`, `_success` | `In`, `Out`, `Success`, `Clear`, rollback, encryption | a batch that is undone; the same packet sent twice |
| Completion port: `HNetIocp` | threads, port | `_Create`, `_Destroy`, `Worker`, `WorkerJob` | shutdown with I/O outstanding; a thread that could not begin |
| Spin lock: `Common/SpinLock.cpp` | `_count`, `_threadId` | `Lock`, `Unlock` | unsynchronised `_threadId`; nesting |
| Jobs: `Common/Job.cpp` | queues, timer heap, clock | `Post`, `Execute`, `_Worker` | jobs that post jobs while the queue's lock is held |
| Memory pool: `Common/Memory.cpp` | thread-local stacks, shared chunk | `Allocate`, `Deallocate`, `Fill` | freeing in another thread |
| Logger: `Common/Logger.cpp` | `_queue`, `_active`, files | `Write`, `_Worker`, `_Execute`, destructor | a file that cannot be opened; the end with entries queued |
| Event thread: `Common/Thread.cpp` | `_event`, `_closeEvent` | `Run`, `Pulse`, `Wait`, destructor | the last signal comes before the last wait |
| State machine: `Common/Fsm.h` | `_curState`, `_preState`, `_transition` | `Regster`, `Change`, `RevertState`, `Update` | `Change` inside `Excute` and `Enter` |
| Database: `Common/ODBC.cpp` | three handles, text, `_paramCount` | `Connect`, `SetProcedure`, `In`, `Out`, `Execute`, `Fetch` | one counter for parameters and columns |
| Word filter: `Common/Filter.cpp` | tree of characters | `Register`, `IsExist` | words that begin or overlap others |
| `HNetFunctor`, options, SHA1, `Api` and utilities | | | see section 7 |

How they interact. An `HNet` (acceptor or connector) owns sessions and a
completion port. A session inherits one object per kind of I/O, each with one
`OVERLAPPED`. Every overlapped call takes a reference on the session; a worker
dequeues the completion, runs the handler of its kind (`HNetIo::Completion`,
63-76) and releases the reference. The handlers call each other through the
session: a bad packet or a failed call goes to `Disconnect`, which only sets a
flag and cancels the outstanding I/O; the connection ends when the last
reference goes (`OnRelease`), on the thread that happens to release it. There
`OnDisconnected` is called, the socket is closed and the slot goes back to
`AcceptEx`. Applications call in with a `NetId` (slot number and generation)
from any thread, and are called back on workers, or inside `Update` in
single-thread mode. `HNet`'s table and job queue are under a `SpinLock`, the send
queue is under an SRW lock. In single-thread mode a worker makes a job of each
completion and the application's thread executes it. Jobs, the event thread, the
logger, the state machine, the database and the filter are used by applications
beside the sessions and share nothing with them but the memory pool.

What makes each part correct is stated below, with its module; the hazards, each
at its line, are listed in `PROJECT.json`.

## 2. Modules

| module | models | specification |
|---|---|---|
| `SendQueue` | `HNetIoSend` and `Gathering` for one connection | senders, worker, kernel, peer |
| `SendStream` | what the send queue promises: a FIFO stream | abstract |
| `SpinLock` | `SpinLock::Lock`, `Unlock`, one memory access per step | threads |
| `RecursiveLock` | what the spin lock promises | abstract |
| `RecvFraming` | `HNetIoRecv` for one connection | peer, kernel, worker, other sessions of the thread |
| `RecvJobs` | `RecvFraming` in both modes: a worker that delivers, or jobs that do | the same, and `Update` |
| `SessionCore` | what every session does: connect callback, receive, send, disconnect, reference count | workers, application threads, kernel, peer |
| `Session` | `SessionCore` in a slot of an `HNetAcceptor`, from accept to accept | |
| `JobSession` | the same slot in single-thread mode | workers that make jobs, `Update` |
| `WsSession` | `SessionCore` in a slot of an `HNetWsAcceptor` | with handshake and ping |
| `Acceptors` | the three above under one specification; the initial state chooses | |
| `Connector` | `SessionCore` in an `HNetConnector`: Connect, Disconnect, reconnecting | |
| `WsHeader` | header arithmetic of `HNetWsPacket::Header` | operators |
| `WsFrames` | `HNetIoWsRecv`: the frames of one connection | peer, kernel, worker |
| `Serialization` | a packet that is built, sent, read, cleared and built again | sender and receiver |
| `Server` | `HNetIocp`, from `_Create` to `_Destroy`, with `HNet` around it | threads, kernel, destructor |
| `JobQueue` | `Job` and `JobQueue` | callers, workers, clock |
| `Logging` | `MemoryPool` and `Logger` | writers and the logger's thread |
| `Thread`, `Fsm`, `Odbc`, `WordFilter` | the helper of that name | |
| `SendQueueProofs`, `SpinLockProofs`, `RecvProofs`, `JobQueueProofs` | theorems about one module | |
| `SessionCoreProofs`, `AcceptorsProofs` | counting on stacks; the invariant of a slot step by step and the theorems about `Acceptors` | |
| `ConnectorProofs` | theorems about `Connector` | |
| `LibraryProofs` | theorems about the modules that `MCLibrary` puts together, and about `WsHeader` | |
| `MC...` | the instances TLC checks; `MCLibrary` holds those that share no state with the sessions | |

The modules meet at the calls: `SessionCore` leaves out the bytes and keeps of the
send queue its `_pending`, of the framing only whether a message is good;
`SendQueue` has of the session only `conn`, which `Cancel` and the peer change;
`RecvFraming` closes where the code calls `Disconnect`. `RecvJobs` and `JobSession`
cut the single-thread mode in the same way: the bytes that a job takes over, and
the references and callbacks of its session. `Server` has of the sessions whether
they exist and whether a thread handles one.

### SendQueue

`ring` is the list of buffers from `*_head` along `_next` and `tail` the place of `*_tail`
in it. Moving `_head` on rotates the list (`Rotated`), a new buffer goes behind the last
element, that is between `_tail` and `_head` (`NextBuffer`). A step is what a thread does
between two points at which another can see it: `Send` is `SendLock`, the loop turns
`AppendOk` and `AppendFull`, and `LeavePending` or `StartSend`, which unlock; `_Send` is
`PostOk` or `PostFail`; `Sended` is `SendedRelease` (outside the lock) and `SendedAdvance`
(the critical section). The kernel may read the buffer until the completion, so
`CompletedOk` sends what the buffer holds *then*. `flight` is how many packets `WSASend` was
told of. Packets have at least one byte: the empty `WsaSend` of a pong (`HNetIo.cpp:1096`),
which would leave a head buffer without bytes, is not among them. A completion with an error
runs `Sended` too (`CompletedAborted`), as `Worker` does not look at the status. Packets
have sizes and no content, and a packet in the stream is its name.

The refinement `Stream` maps the abstract queue to the packets from `_head` to
`_tail`, without the head buffer between the completion and `Release`.

### SpinLock

Each access to `_count` or `_threadId` is a step, and takes effect in program
order: the code has plain variables and MSVC on x86 keeps the order of stores.
Threads lock and unlock in balanced pairs and may nest. The log line after 4000
turns is left out.

### RecvFraming

A byte is its position in the peer's stream, so a copy that goes wrong is seen.
The peer writes packets whose `_size` is any of `Sizes`; the kernel hands over any
number of the bytes that have arrived, up to the length of the `WSABUF`. The
turns of the loop of `Completed` are `Keep`, `BadPacket`, `Deliver` and `LoopEnds`;
`Recv` contains `PrepareBuffer`, whose three ways are named. `len` is the
`WSABUF::len` of each thread; `OtherSession` writes it when the thread serves
another session; without that, `len` of a thread is what this session gave it last.
`memcpy` in `PrepareBuffer` copies to a lower address and is taken to cope with the
overlap. The peer sends without waiting, so a full buffer may have more of the
stream behind it. When the window is longer than the rest of the buffer (below) and
as many bytes are there, the kernel writes over what follows `_buf`: `Overrun`, after
which nothing is said of the session.

`RecvJobs` adds `single`. In single-thread mode the worker runs `CompletedJob`, which
has the same turns but ends in `HandOver`: the job gets `_buf` and the number of
bytes gone over, the session a new buffer with the rest (`operator>>`, `Flip`). `Excute`
is the front job of `Update`, which runs `Completed` on the job's buffer: `JobDelivers`
for each packet and `JobEnds`. There `delivered` is what the worker went over, `told`
what the application got.

### SessionCore, Session

`stack[t]` holds what thread `t` still has to do, next step first; a function that
calls another puts its steps in front. So each step is a function or the part of
one up to its next access to shared state, and every interleaving of threads is
explored. `io[k]` counts overlapped calls of kind `k` that are pending or whose
completion waits in the port, with data (`done`) or with 0 bytes or an error
(`zero`). `CancelIoEx` turns pending receives and sends into `zero` completions;
`AcceptEx` was issued on the listening socket and is not affected by it.
`Failures` names the calls that may fail at once, and "reset" is a connection that
goes before `AcceptEx` completes. Application threads call `Send` or `Disconnect` at
any time once there is a `NetId`. Callbacks may do nothing, send or disconnect.
A thread that faults in `Clear` (no ring yet) takes no further step; what others do
until the process ends is kept. `Leave` is the step by which a callback or an
application thread asks for the end: the session's `Disconnect` for an acceptor,
which clears nothing else, and `HNetConnector::Disconnect` for a connector.

### Acceptors: JobSession, WsSession

`mode` is one of "acceptor", "jobs" and "ws". `gen` counts connections in every mode and
only bounds the run; `HNetWsAcceptor::_Connected` keeps the `NetId` the session began with.
In single-thread mode (`JobSession`) the steps "makeAccept", "makeStale" and "makeRecv" take
the job's reference and "add..." push it to `_ioJobQueue` once the lock of `HNet` is free;
`Update` is a step "update" at the bottom of the application thread's stack, under which
jobs execute with that lock held, so that workers wait in `_AddIoJob` meanwhile; "pop"
follows the job, since `Update` pops after `Excute`. `OnRelease` queues the disconnect job,
which holds no reference. In `WsSession` the reference comes before `Open`, `AcceptEx` waits
for the first bytes, the handshake is either good or refused, the handshake's answer and the
ping go out behind the connect callback, and nobody calls `Close` at the end: `Open` closes
the old socket. `RefsExact` counts what each mode's jobs and steps carry.

### Connector

`Connect` (`HNetConnector.cpp:59-82`) is `Connect`, `OpenOk`, `ConnectOk`, then the steps
of `_OnConnect` in `SessionCore`, and last `Arm` (line 73), which runs when the
connection may already have been up and gone. A `Connect` that finds a socket
returns and changes nothing. `Again` posts the `RECONNECT` packet, which is
`io["reconnect"].done` and holds no reference; `Handler` turns it into `reopen`, and
`ReconnectFails` posts the next. `wish` is a history variable: what the application
may expect. One worker serves a connector (`_Create(..., 1, 1)`), and one
application thread calls `Connect`: with two that do, the second `Open` closes the
socket of the first, and `AttemptAlone` and `ChainKept` do not hold.

### Packets: WsHeader, WsFrames, Serialization

`WsHeader` keeps of a header its opcode, the seven bits, the extended length and the mask
bit, and computes with the code's 16-bit results (`Word`). `WsFrames` has the positions of
the stream instead of bytes. `Completed` reads `Size` as soon as the two bytes of the header
are there. Where the extended length has not arrived, bytes lie there that the buffer had
before, which the model takes to be any (`SizeRead`). With them `Check` refuses the frame
(`BadFrame`), or finds it too long to be complete (`Keep`), or `Size`, which adds in 16
bits, comes out as something that was received: then `_Preprocess` hands over and decrypts
what is no frame (`Misread`). That also happens with a frame whose true size does not fit in
16 bits. An unmasked data frame is read right, but `ToPacket` (`HNetPacket.cpp:327`) writes
the packet's size over the two bytes before the data, which without a key belong to the
header, and `_Preprocess` (`HNetIo.cpp:1090`) then returns the `Size` of what it has written
over (`Overwritten`); only an empty frame survives that. In all three cases the loop goes on
at a place where no frame begins, and the model stops, "astray". RFC 6455 has clients mask
their frames; the code does not ask for it. `Overrun` is that of `RecvFraming`: `GetWsaBuf`
has the same stale length, which here may be any.

`Serialization` follows the cursors of one `Buffer` under `HNetPacketEx`. `InSuccess` ends
a batch of items: it confirms it (`kept`) or `_RollBack` takes `_trySize` back. The
receiver reads with the cursors that lie in the packet. `torn` marks a packet in
which an undone batch had a string behind a confirmed batch: `_InString` adds the two
bytes of the length to `_trySize` although `_In` has, so the rollback also takes bytes
of what was confirmed. `phase = "fault"` is a `_Send` of a packet that `RefPacket` refused
(`HNet.cpp:200` uses the NULL). `HNetWsPacket`'s constructor writes `_size(0)` over the
size that `operator new` put there (`HNetPacket.cpp:383`); `base` has both.

### Server

A completion port that gives each `NULL` to one thread, and threads that hold a
session while they handle a completion. `WaitForMultipleObjects` is modelled by when
it waits: not for more than `MaxWait` handles, and not for handles that are none
(a thread that could not begin); otherwise until all threads are gone.

### JobQueue

The worker holds the queue's lock from its first job to its last (`Locked`), and a
job may post once. `JobPosts` waits for the lock of the other queue, never for its
own (the lock is recursive). The front job stays in the queue while it runs
(`JobEnds` pops it); a timer is taken out first. A job has an identifier, the order
of posting. A job that posts to its own queue without a delay each time it runs
would hold the lock for ever; jobs here post once.

### Logging

`Allocate` pops the thread's own stack; when that is empty, `Fill` puts `FillCount` nodes
on it under the pool's lock, from the shared chunk or new. `Deallocate` pushes a node
to the own stack when the thread allocated it, and to the chunk otherwise; a node
whose `_threadId` is cleared was freed already and is left alone. The logger's thread
holds the `SpinLock` of the queue while it writes: it pops an entry, writes it and frees
it, so every node it frees goes to the chunk. An entry whose file does not open is
popped and neither written nor freed (`continue`). The destructor leaves what is
still queued.

### Thread, Fsm, Odbc, WordFilter

`Thread` is `_Worker` with the tests of `_event` as steps against the steps of the
destructor. Between two calls of `OnWorker` the destructor's class is already the base,
where `OnWorker` is pure: "purecall". `Fsm` gives `Change` as an operator on a record,
because `Enter` may call it again before it returns. The inner `Change` sees the `_curState`
that was left, and may move it; then the outer one assigns. Lines 89 and 129 assign
`_curState->_preState` of whatever `_curState` is by then (`ToPrevious`), so that after an
`Enter` that enters a third state the machine may be in the state it has just left. `Odbc`
has the handles, the number of '?' in the text, `_paramCount` and what is bound; the driver
answers as it likes. `WordFilter` names a node of the tree by the path to it. The argument
`lenth` of `IsExist` selects a beginning of the string; when it runs out on a character that
was taken, line 57 replaces it by the rest. So it is a look into that beginning or into the
whole, and `Strings` has the beginnings of each of its strings.

## 3. Runs

| run | instance | checks | shows |
|---|---|---|---|
| `SendQueue` | 2 senders, 1 worker, packets of 1 and 2 bytes, buffers of 3, 5 packets | `TypeOK` `OneDriver` `NoStall` `RingInv` `BufferStable` `ImplementsStream` `Delivered` | one `WSASend` at a time on a buffer nobody writes; nothing left behind; a FIFO stream; all packets get there unless the connection goes |
| `SendOversize` | a packet of `MaxSize` | `AppendTerminates` (violated) | `Check` allows `MAX_SIZE`, `Append` never does: `Send` does not end |
| `SpinLock` | 3 threads, nesting 2 | `Mutex` `OwnerKnown` `CountIsDepth` `ImplementsLock` `SomebodyGetsIt` | a recursive lock, and deadlock free |
| `RecvFraming` | both modes, 2 threads, buffer of 5 bytes, header of 2, 3 packets of 1 (bad), 2 or 5 bytes, 2 jobs | `Aligned` `InOrder` `NoneWithheld` `JobsInOrder` `Arrives` | packets whole, in order, as soon as complete, whether a worker or a job delivers them, until a receive overruns the buffer |
| `RecvStale` | the same, worker only | `WindowIsRest` (violated) | the next receive may get the length of an earlier one of the thread, of this session or another |
| `Session` | three modes, 2 workers, 2 connections, `WSARecv` may fail, 1 job | `SlotKept` `DisconnectCompletes` `Reaccepts` | the slot is used again after every connection; every disconnect completes (mode "acceptor") |
| `SessionApps` | three modes, 2 workers, 1 application thread with 1 call, all failures, 1 job | `TypeOK` `RefsExact` `CallbacksAlternate` `EndIsExclusive` `OneOverlapped` | the reference count is exact on all paths; the rest as long as no application call was made |
| `Connector` | 1 worker, 1 application thread with 1 call, 2 connections; `Open`, `connect`, `WSARecv`, `WSASend` may fail | `AttemptAlone` `ChainKept` `Reconnects` | one attempt at a time, on a session that is not in use; none is lost; the connection comes back |
| `ReconnectAfterDisconnect` | the same, nothing fails | `DisconnectIsFinal` (violated) | a connector that is connected although `Disconnect` was the last request |
| `LostDisconnect` | mode "acceptor", 2 workers, 1 application thread | `DisconnectCompletes` (violated) | a `Disconnect` between `IsDisconnect` and `WSARecv` is lost |
| `Library` | the modules of the library, one at a time (`part`) | `PacketSized` `ReadBack` `FramesInOrder` `NodeOwnedOnce` `LogInOrder` `JobsInTurn` `StatesPaired` `ParamsBound` `WordsFound` `JobsRun` `ThreadStops` `WorkersGone` | see the comment at each property |
| `JobDeadlock` | 2 queues, jobs that post to the other | `JobsRun` (violated) | two workers, each in a job, wait for each other's queue |

The library's modules share no state, so that checking them side by side in one
specification (each behaviour has one `part`) says the same as a run for each.

The bounds. In `SendQueue` five packets fill buffers, gather, make the ring grow to
four buffers and go round it; a third sender adds nothing, since one holds the
lock and one drives. In `RecvFraming` three packets over a buffer that holds two
and a half small ones give every alignment of headers and cuts, the packet that fills the
buffer exactly included, with up to three buffers of stream ahead; two jobs let the worker
hand over a buffer while one waits. The run has 424,264 distinct states, and `Library` 99,517.
In `SpinLock` a thread spins while a second takes the lock
from a third. In `Session` two workers are enough for a handler to run while the
other ends the connection; two connections are needed for a late call to meet
the next one. `Library`: `BufferSize` 11 takes three items and refuses the fourth, and a
`PacketWord` of 32 wraps when too much is taken back; frames have lengths at both sides of
the limits 3 and 4 (for 126 and 32767), none, one more than the buffer holds, one whose
`Size` wraps and one beyond the 32 bits that `DataSize` reads, and two are unmasked; two
writers with two nodes to a `Fill` and three allocations move nodes between threads
by stack and by chunk; three jobs, delays 0 and 1 and two ticks put timers and the
queue in every order; three states are the current, the one before and another; two
time stamps for two parameters go round the ring; strings of four of three
letters over four words that begin or reverse each other; one thread more than the
wait takes. `CHECK_DEADLOCK FALSE` stands where the environment may stop: the peer
sends no more, the bound on packets, connections, jobs or calls is reached. The
spin lock's run checks for deadlock.

Fairness. A thread that is inside a function goes on (Windows schedules
it); completions are dequeued; the kernel completes an overlapped send
(`SendEnds`: the peer reads what it is sent, or goes) and a receive on a closed
connection. In single-thread mode the application calls `Update` again and again, as
it must. Nothing else is assumed of application threads, of the peer's sending, or
of who wins a compare-and-swap. `SpinLock` assumes that holders unlock. `Reconnects`
assumes of the server that `connect` succeeds if it is tried again and again (strong
fairness of `ReconnectOk`). `JobQueue` assumes that time goes on and that a thread which
spins on a queue's lock gets it if it is free again and again (`SF` of `JobPosts`): the
lock's owner sleeps ten milliseconds in every turn. `Thread`: the worker runs, and the
destructor runs once it has begun; that it begins is not assumed. `Server`:
a handler returns, and since completions come in the order they were posted, a
waiting thread gets to the `NULL`s behind them (`SF` of `Quits`).

### What the violated runs mean

* `SendOversize`, `RecvStale`: see the findings in `PROJECT.json`. The theorems about
  `SendQueue` carry the assumption `Fits` (every packet is smaller than `MAX_SIZE`)
  because of the first. What the second leads to is in the model of every framing
  property: a window that is too short (`Receive` takes less), none (`ReceiveNothing` closes)
  or one that is too long (`Overrun`).
* `LostDisconnect`: the window is between lines 470 and 477. The same happens
  without an application thread when a `WSASend` fails on one worker while the
  other is in `Recv`; therefore run `Session` lets `WSARecv` fail but not `WSASend`. And
  it happens in the other modes, in which nothing has to fail: in single-thread mode
  the callback that disconnects runs in `Update` while a worker is in `Recv`, and
  `RecvWs` (1040) does not test the flag. `DisconnectCompletes` is promised for mode
  "acceptor" only.
* `JobDeadlock`: `Job::Post(id, ...)` from a job takes the lock of another queue with
  that of its own held. Run `Library` has jobs that post to their own queue only, and
  there `JobsRun` holds.
* `CallbacksAlternate`, `EndIsExclusive` and `OneOverlapped` are conditional on
  `NoAppCall`. Without it TLC shows: a `Disconnect` that has tested `IsValid` holds no
  reference yet; the last `Release` ends the connection meanwhile; the late
  `Reference`/`Release` pair reaches zero a second time and its `OnRelease` takes
  the next connection out of the table. `RefsExact` holds with application calls:
  it is not the counting that fails, it is that the count may leave zero.
* `ReconnectAfterDisconnect`: line 73 overwrites what line 87 has cleared, or an
  attempt that is queued or asleep goes on (see the finding). `ChainKept` and
  `Reconnects` are promised until the first `Disconnect`: after it, a new connection
  that drops before line 73 is closed by `_Disconnected` and stays closed, although
  `Connect` returns true and leaves `_reconnect` set. They are also promised only
  until an `Open` fails, since `Reconnect` gives up there (line 247). That an attempt
  finds the session unused holds as long as no application thread sends or
  disconnects meanwhile (`NoAppCall`); that there is one attempt holds always.
* With failures of `Open`, `AcceptEx`, `SetAddress`, `_Associate` or `Initialize`, or a
  connection that is reset before `AcceptEx` ends, `SlotKept` does not hold: the code gives
  the slot up. It is checked and proved without them.
* Some properties of the library are promised up to the point where the code breaks them,
  and say so: `ReadBack` for packets that are not `torn`, `FramesInOrder` until the receiver
  goes astray, with what that takes, `StatesPaired` until an `Enter` calls `Change` to
  effect, `ParamsBound` from `SetProcedure` until something other than `In` and `Execute` is
  called, `WordsFound` for the only word that is registered and for words at the start of
  the string, `WorkersGone` for at most `MAXIMUM_WAIT_OBJECTS` threads, `ThreadStops` with a
  worker that may have called a pure virtual function.

## 4. Proofs

`SendQueueProofs` proves, for any senders, packets and sizes below `MAX_SIZE`
(`SendAssumption`, `Fits`), that `SendQueue!Spec` keeps `TypeOK`, `OneDriver`, `NoStall`,
`RingInv`, that every `WSASend` is of the whole, non-empty head buffer
(`SendsSomething`), and `BufferStable`. None but the whole is
inductive: `IInv` joins them with `LockInv` (the lock is held exactly by the thread
inside `Send`) and `HeadInv` (the head buffer is empty when no send is under way,
unless a sender is about to start one, and not empty until `Release`). `HeadInv` is
needed because `Sended` decides by the *length* of the next buffer whether to go on,
so that a non-empty buffer elsewhere, or an empty one before `_tail`, would stop
it. One lemma per action shows that it keeps each part.

`SendImplementsStream` proves the refinement `ImplementsStream`: the packets accepted and not
yet sent form one queue, which `AppendOk` extends (`Accept`), the completion of a
`WSASend` shortens by what it carried (`Transmit`, or `Lose` when it was aborted), and no other
step changes, the growth of the ring, `Release` and the move of `*_head` included. The queue
is `Waiting[tail]`, a recursive function of the ring. `HoldsExists` shows by induction over
naturals that its equations have a solution, `WaitingHolds` that `Waiting` is one, and
`SamePieces`, `RotatedHolds` and `HeadHolds` what the moves of `*_head` and `*_tail` make of
it; `IInv` supplies that `*_head` is empty when it moves, that `_tail` moves to an empty
buffer, and that the `WSASend` carries the whole head.

`SpinLockProofs` proves `Mutex`, `OwnerKnown` and `CountIsDepth` for any threads and
any depth, and that `SpinLock` implements `RecursiveLock` (`ImplementsLock`), from `LInv`:
`OwnerInv` says at which access `_threadId` is the holder's, which is what makes
the unsynchronised test `curThreadId == _threadId` right: a thread can only read
its own identifier if it wrote it itself. The refinement maps each step to an
acquire, a release or a stutter.

`RecvProofs` proves `InOrder`, `Aligned`, `NoneWithheld` and `JobsInOrder` for any packet
sizes, header, buffer, threads and number of jobs, any lengths that other sessions leave, and
a peer any distance ahead. The code does not keep `WindowIsRest`, so the theorems allow for the
receive that overruns the buffer and end there; they assume nothing that would exclude
it. The inductive invariant `RInv` says where the bytes lie: what was received and not yet
handled is in the buffer from `_begin`, in order (`BufferInv`); in the loop `incomplete`
counts it and `bytes` what of it lies behind `_end` (`LoopInv`); and outside the loop there
is no whole packet left (`WaitInv`). `JobInv` adds, for each waiting job, which
packets it has: there is a sequence of cuts (`Cut`) of the packets the worker went
over, one piece per job in queue order, beginning where `told` ends. `Start`, the positions
at which packets begin, is a recursive function; that it exists, increases and
grows with the stream is proved by induction over naturals, which is obtained
without the induction theorem from the least element of a non-empty set
(`Least`, from the well-foundedness of `<`). TLC checked `RInv` and `JobInv` on the instance
of run `RecvFraming` before they were proved.

`JobQueueProofs` proves `JobsInTurn` (`RunsInTurn`) for any number of queues, jobs and
delays, jobs that post to any queue included. Run `Library` checks it for one queue.
`JInv` relates what has run to what waits: identifiers in the queue increase
(`QueueSorted`), timers are apart from each other and from the queue (`TimersApart`), and
everything that has run is before what waits (`RanBefore`), with an exception for the
front job, which is in the queue and has run until `JobEnds`. `Busy` is needed to know
that only a worker that holds its lock runs a job.

`LibraryProofs` proves all nine invariants of run `Library`, the safety parts of
`ThreadStops` and `WorkersGone`, and `RoundTrip`, for every value of the constants. Its
`LibraryAssumption` asks that sizes are numbers, that 0 is no thread and no state, that
there are finitely many writers, and that the model's `MaxNodes` suffices for the chunks
that `MaxAllocs` allocations can fill, and that `Word` is not 0 and at most `Limit`
(`USHORT` and `0xFFFFFFFF`); `ItemsAssumption` that what is put into a packet has a byte;
`FramesAssumption` that a peer's headers are those that `Initialize` writes, for a length
and with or without a mask. A step of `MCLibrary` is a step of one module, and each
invariant speaks of its module's variables only.

* `StatesPaired` (`FsmPaired`) is inductive with the types (`FsmInv`). `ChangedShape` and
  `ChangedTwiceShape` say what `Change` makes of a machine that is inside its current state,
  without and with an `Enter` that calls it. `ParamsBound` (`OdbcBound`): `InRing` says that
  the slots in use lie in a row before the next one, which is why the ring may wrap.
  `PacketSized` (`SizeCounts`): `size` follows the cursors modulo the width of `_in`, in the
  middle of a batch too.
* `RoundTrip`: a receiver reads from a WebSocket header the length its sender wrote,
  and `Size` is the length of the frame, for frames whose length fits in 16 bits. For
  longer ones the sum wraps, and the theorem's assumption says where.
* `ReadBack` (`AllReadBack`): `ReadInv` says that `_in` and `_out` are the bytes of what was put
  and of what was read, which is the beginning of it (`Reading`), and how far `_trySize` may be
  above the batch (`Batch`): two bytes for each string. `FewItems`, `BufferSize + 2 * MaxItems <
  PacketWord`, is needed because a rollback notices that `_in` wrapped only by its being above
  `BUFFER_SIZE`. With the code's numbers it is true of packets with fewer than 2768
  items; after a batch of 2768 strings or more `_in` may come back to 60000 or less
  (`Buffer.cpp:352`).
* `FramesInOrder` (`FramesComeWhole`), for frames of any length, masked or not: `WsInv` says
  that what was received lies between the frames handled and those sent (`Between`), that
  the buffer has what is left (`Waits`) and in the loop `incomplete` counts it (`Loops`),
  where each message comes from (`DataTold`), and what a frame is that was misread
  (`Strays`). `FrameIs` supplies that `Size` never says more than the frame is long
  (`DataInside`), so that a frame which `Completed` keeps has not arrived as a whole, and
  says just that when it fits in 16 bits (`RoundTrip`); and a header is shorter than its
  frame, so that one whose extended length is not there is never read right by chance.
* `WordsFound` (`WordsAreFound`), for any words and strings (`WordsAssumption`: over the same
  letters): `Trail` is the walk, one node for each beginning of the string. Between steps
  the invariant only says that `filter` ends such a walk; the rest is about a walk.
  What it has taken is in the string in order (`TrailHolds`), it does not leave a word that
  the string begins with (`StartFound`), and with one word it is never behind a
  given embedding of the word in the string (`OnlyFound`).
* `AfterWorker` (`EndsAfterWorker`) is inductive. `Unhandled` (`NoneHandledAfter`) needs
  `Starting`: when `_Destroy` cannot wait for the threads because not all have begun, no
  session was made, so that nothing was posted which they could handle. `ServerAssumption`:
  `MaxThreads` is a number.
* `JobsInTurn` (`JobsRunInTurn`): an instance of `JobQueueProofs`.
* `LogInOrder` (`LogKeepsOrder`): `OrderInv` says that the queue continues the file, and that
  nothing else is missing but the entries in `failed`. `BoundInv` counts the nodes that `Fill`
  has created and has still to create: they fit in `MaxNodes`.
* `NodeOwnedOnce` (`NodesOwnedOnce`): the pool's lists are linked through the nodes, and
  what lies on one is the value of a recursive function, `Chain`. `PoolInv` says instead
  that there is a sequence for each thread and one for the chunk (`Lists`) in which every
  node is followed by its `next`, none occurs in two of them or twice in one, and none is
  held by a thread or an entry (`UseInv`). A pop drops the first element of one sequence and
  a push adds one (`Popped`, `Pushed`), so each step has a witness; `Walked` shows that
  `Chain` collects exactly the sequence, from a least counterexample (`Least`).

The bytes of a packet (`Bytes`), the stream position of a frame (`Extent`) and the walk of
`IsExist` (`Path`) are folds. `FoldLeft` recurs on sets of indices, from the highest down:
`FoldExists` shows that such a function exists, by gluing solutions for longer and longer
beginnings up to a least counterexample, and `Beginning` and `SumsNext` what it makes of one
element more. So each fold is known by how it begins and goes on, which is all the
invariants use.

`AcceptorsProofs` proves `TypeOK`, `RefsExact`, `EndIsExclusive`, `CallbacksAlternate`,
`OneOverlapped` and `SlotKept` for a slot of each kind of server, with failing calls, callbacks and
application threads, for any number of each that is finite. `SlotAssumption` says no
more than that, and that the slot is an acceptor's: `Leave`, `Rearm` and `Ended` have the
values they have there. The first five follow from one invariant, `IInv` (`Inductive`), since
none can be kept without the others: a Release is the last because the references are
exact, and they stay exact because the last Release has no other thread beside it.

* `StackInv`: what a thread may still have to do. `MayLie(mode, ...)[x]` are the steps that
  may lie directly under `x`; so below a callback there is always a Release of the
  same thread, below `pop` only `Update`.
* `CountInv`: the reference count. `Bal(s)` is what a stack holds (its Releases and the
  references on their way to a job, less a hold that is about to be taken), and `refs`
  is the sum over all threads and what is outstanding and waits.
* `EndInv`: a thread that acts for the session and whose balance is 0 (an `Ender`), or the
  job that stands for it, is the only one, and then nobody holds anything.
* `OpenInv`, `RecvInv`, `SendInv`: one accept from `AcceptEx` to `_AddSession`, and nothing else
  during it; one receive, from the step that will post it to its handler, which
  posts the next; one send, and only while `_pending` is set.
* `ToldInv`: where the callbacks are, and that `told` follows `listed` between them.

`EndInv` to `ToldInv` are claimed while no application thread has called (`calls = 0`),
because such a call holds no reference: it may find the session that it looked up
closed and opened again, and then they do not hold. `RefsExact` and `TypeOK` are
proved with such calls too; the other three properties are stated for `calls = 0`, in the
runs as in the theorems. What the sums over threads need (how `Occurs`, the number of
steps of a kind on a stack, follows a push and a pop, and that a change of one stack
changes the total by the same) is in `SessionCoreProofs`; `AcceptorsProofs` has one lemma per
step of a thread, and then those for the last Release, jobs, completions, the kernel
and the calls. TLC checked `IInv` on the instances of runs `Session` and `SessionApps`
before it was proved. `TypeOK` names the steps of a stack
instead of saying that they are strings: no prover here knows that a literal is in
`STRING`, and the names say more.

`NeverForgotten` proves `SlotKept` as long as no application thread has called and none of
the calls fails that make the code give a slot up (`Fatal`: see section 3). `SlotKept` says
that something is under way, which no step can preserve alone: what matters is that it
leads somewhere. `KeepInv` is inductive together with `IInv`:

* `LedOn`: a session that is not in use has an accept outstanding, or a thread or a job is
  at one of the steps from the accept to `_AddSession` or from `_Disconnected` to `AcceptEx`.
* `Held`: a session in use has a reference, or a thread or a job is between the last
  Release and `_DelSession`.
* `NoFailure`: the socket is fresh before `AcceptEx` and there before `_Associate`, and no
  accept ends without bytes, so that what may fail for these reasons does not. It is here
  that `EndInv` and `OpenInv` are needed: nobody else closes or opens the socket meanwhile.

If nothing is outstanding, queued or being done, then `LedOn` leaves a session in use, `Held`
a reference, and `CountInv` says there is none. A step is described by the steps it takes
off the stacks and puts on them (`Turns`), the jobs it begins and adds (`Queues`), and
`Leads`, which says what each of them hands on; `LeadKeeps` does the rest once for all
steps. TLC checked `KeepInv` on the instance of run `Session` first.

`ConnectorProofs` proves `AttemptAlone` (`Attempts`) and `ChainKept` (`Chained`) for a
connector with any finite number of workers and any calls that fail. `ConnectorsAssumption`
says that, gives `Leave`, `Rearm` and `Ended` the values they have for a connector, and that
one application thread calls: `Connect` takes no lock, and with two threads in it the second
`Open` closes the socket of the first (the hazard at `HNetConnector.cpp:61`). `Chained`
holds for any number of calls and needs `Lossless`: neither `Initialize` nor `_Associate`
fails, after which the code gives up without an attempt left. `IInv` is:

* `TypeInv`: each thread's stack is one that `Connector`'s steps can build (`Good`).
* `TokenInv`: there is one token that moves from a connection or an attempt in the completion port
  to the steps of `Connect` or `_Disconnected` and on to the next attempt. `Linking` counts it
  there, over all stacks, and there is at most one together with what is left of a `Connect`.
  This is what `AttemptAlone` means, and it holds with application calls: `Connect` makes a
  token only where `IsValid` shows that there is none.
* `KeepInv`: once connected, and until `Disconnect` or a failed `Open`, `Linking` is not 0. Every
  step that takes the token away puts it on the next place.
* `QuietInv`, while the application has called nothing but the first `Connect` (`calls = 0`): the
  references are exact (`CountInv`) and who ends a session is alone (`EndInv`), as in
  `AcceptorsProofs`, so that an attempt meets no session in use.

TLC checked `IInv` on the instance of run `Connector` first.

Leaves that both an arithmetic and a set argument need are split, so that each is proved
within seconds; `FillInv` and `RoomInv` are the two parts of `BoundInv` for this reason.

Every invariant, action property without fairness and refinement that a passing run checks is
stated by a theorem. Model-checked only:

* liveness (`Delivered`, `SomebodyGetsIt`, `Arrives`, `DisconnectCompletes`, `Reaccepts`,
  `Reconnects`, `JobsRun`, and `ThreadStops` and `WorkersGone` but for their first
  conjuncts), which with `ENABLED` is beyond the proof system's backends.

## 5. Mutants

Operators named `X_Y` are `X` with the defect `Y`, written before `X`. No
specification uses them: `PROJECT.json` names for each property of each run one that
breaks it.

## 6. Plan

Modelling that is left, in this order:

1. `Table`: `_connectedSessions` with several slots, `_SendAll` and `_Shutdown`, which walk it
   without the lock, and the 16 bits of `NewNetId`.
2. `ReconnectJob`, the connector in single-thread mode.
3. The wrap of `timeGetTime()` in `JobQueue`.

No proof is left of what the runs check but liveness. `ReadBack` without `FewItems` is false
(section 4); a run with a buffer small enough to show it is the next step there.

## 7. Not modelled

* `SHA1` and Base64 of the handshake: a published algorithm over 32-bit words without
  state between calls. Options and version: values read once. `HNetFunctor`: a table
  filled before the threads start. `Api`, `StrParser`, `Time`, `Flag`, `Entity`, `Singleton`:
  wrappers of the platform's calls and of strings, on whose detail no component
  here depends.
* Code that nothing calls: `SendJob`, `SendedJob` and `HNetIoSendJob` (so that in
  single-thread mode sends complete on the worker), `HNetIocp::WorkerEx`, `Job::Execute`,
  `WsaSend::Reference`.
* Parts of modelled components: `HNetStreamEx` and the assignment of `Buffer`s; `Decrypt` of
  a WebSocket frame; what is made of the stream once a frame was misread; wide strings of
  32767 characters and more, whose length wraps (`Buffer.cpp:201`); a `WsaSend` of the
  handshake or a ping, which is never freed; the empty `WsaSend` of a pong; what the logger
  writes and where it cuts files; two threads that delete one node at the same time; the one
  `Execute` of a job queue that may begin between the destructor's `_active = false` and the
  worker's next test (`JobQueue` has the test at line 107 and the `Lock` at 110 in one
  step); `In` on a packet that was sent, whose bytes would stay unencrypted; what a driver
  has connected that answers `SQL_SUCCESS_WITH_INFO`, which line 407 of `ODBC.cpp` takes for
  an error; a second application thread that calls a connector while `Connect` runs; the
  scalars that `ODBC::In` binds by the address of an argument, and query texts.
* Memory exhaustion in `new`, except where a component tests it, and process exit are
  left out everywhere. Data is abstract throughout: encryption and message contents
  have no model.
