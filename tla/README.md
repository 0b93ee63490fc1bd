# HyperNet in TLA+

HyperNet is a C++/Lua framework for clusters of game-server processes. Each process runs one main
thread, a few network worker threads, and a set of modules loaded with `dlopen`. This project models
its network core, the mesh of processes built on it, the start and main loop of a process with its
script engine, the remote calls between scripts and the command threads. It model-checks them with TLC on small instances and proves their main safety
properties with TLAPS for every instance. Paths below are relative to the repository root; its own code is under
`src/`, the Lua library under `bin/logic/hyper_net`.

## 1. Inventory

| Part | State | Operations | Talks to |
|---|---|---|---|
| `CycleQueue` (`public/CycleQueue.h`) | slots, `_front`, `_tail` | `Push`, `Read` | one thread on each side, no lock |
| send and receive machines (`kernel/net/state`) | the current state of each | `OnEvent` per state class | called by `Connection::OnEvent` |
| `Connection` | two send and two receive buffers, the two machines, worker, session | `Send`, `Close`, `OnIn`/`OnOut`/`OnError`, `OnEvent`, `ProcessPacket` (main thread); `OnRecv`, `OnSend` (worker thread) | worker queues, session callbacks |
| `NetWorker` | work queue, result queue, connection count, thread | `Add`, `Remove`, `Send`, `Recv`, `ThreadProc`, `DoRequest`, `Process`, `DoResult` | main thread through two `CycleQueue`s |
| `NetEngine` | epoll descriptor, handler table, workers | `Loop`, `Listen`, `Connect`, `GetWorker` | kernel epoll, handlers |
| `Acceptor`, `Connector` | listening or connecting descriptor | `OnIn`, `OnOut`, `OnError` | create connections |
| `Kernel`, `LogicMgr` | loaded modules, in the order of an `unordered_map` | `Initialize` of all, then `Launched` of all; `Loop`: network, then every module | everything on the main thread |
| `Harbor`, `NodeSession` | node table, reconnect list, handlers | REPORT handshake, `Send`, `Brocast`, reconnect | sessions of connections; listeners |
| `Master`, `Cluster` | known nodes, opened nodes | announce new nodes, connect to them | messages through `Harbor` |
| `Rpc`, `harbor.lua`, `co.lua` | running, pooled and waiting coroutines, sequence numbers, the call each coroutine serves | `call`, `typeCall`, `ret`, `fork`, exit, error | messages through `Harbor` |
| `ThreadModule`, `Http` | command lists with mutexes, `_terminate`, `_running` | `Push`, `ThreadProc`, `Process`, `Terminate` | command threads |
| `timer.lua` | timer wheel | not loaded by `entry.lua` | |
| `ScriptEngine`, `serialize` | one Lua state and its stack, the module table, the error handler | `CreateModule`, `AddModuleFunction`, `Call`, `ExecuteFunction`, `Callback`; `serialize`, `unserialize` | Lua C API; `Rpc` in both directions |

**What is hard.** The main thread and a worker share a connection's buffers and the queue slots without
a lock. Which thread may touch what is decided by the state of the two machines and by the queues
alone. epoll is edge-triggered, so each readiness change is reported once and must be remembered if it
arrives while a request is under way. Results come back in the order the worker finishes, interleaved
with epoll events, application calls and the peer's close or reset. Application callbacks run inside
`ProcessPacket` and may send on, or close, the connection being parsed. Connections are deleted with
`delete this` at the end of an event. Between processes, sessions close, reconnect and cross in any
order; each side learns of a break in its own time, a process may be restarted with empty memory while
others remember it, and the table of nodes has one entry where two sessions may compete. Scripts run in
coroutines that are reused, nested, and resumed by answers that arrive in any order, or never. They also
run inside engine calls that nest on one Lua stack: a script's send may close a connection, and the close
calls a script. Modules find each other although a hash table decides the order in which they start. The
hazards, each with its line and the properties aimed at it, are
listed in `PROJECT.json`.

**What makes it correct.** No worker or queued result refers to a deleted connection; a buffer has one
owner at a time; each machine that waits has exactly one request under way; bytes are neither lost,
repeated nor reordered in either direction while the connection lives; no readiness edge is lost; a
closing connection is freed; queues and slots are never exceeded; the ring is a FIFO queue. A node table
names only live sessions that have reported; a report precedes every message; a session that connects is
never on two connections or queued twice; two nodes hold the connections their configuration allows and
no others; every two visible nodes get connected in the end. A
coroutine is never in use twice; an answer resumes the call it answers. Every engine call leaves the Lua
stack as it found it; modules find what they need of each other before the first event; arguments come
back as they were sent. Terminating the command threads
returns and frees nothing in use.

## 2. Modules

| Module | Models |
|---|---|
| `Fifo` | abstract queue of items: `Enq`, `Deq` |
| `CycleQueue` | `olib::CycleQueue`, one step per access to shared memory; refines `Fifo` |
| `ConnectionFsm` | the two state machines as constant operators, one per state class |
| `Pipe` | abstract byte pipe, one per connection and direction: `Put`, `Take`, `Break`, `Drop` |
| `Connection` | connections, main loop, workers, sockets, application and peer; refines `Pipe` in each direction |
| `Cluster` | a master and nodes: `Harbor`, `NodeSession`, `Master`, `Cluster`, on connections that break |
| `Rpc` | remote calls between Lua scripts: `Rpc`, `harbor.lua`, `co.lua` |
| `ThreadModule` | command threads, condition variable, termination; `Http` is a user |
| `ScriptEngine` | engine and native calls on the stack of the Lua state |
| `Serialize` | `serialize.cpp` as functions on sequences of fields |
| `Process` | the start of the modules and the main loop; composes `ScriptEngine` and `Serialize` |
| `MCCycleQueue`, `MCConnection`, `MCCluster`, `MCRpc`, `MCThreadModule`, `MCProcess` | instances for TLC |
| `CycleQueueProofs`, `RpcProofs`, `ThreadModuleProofs`, `ProcessProofs` | theorems about the module of that name |
| `ConnectionProofs`, `ConnectionBufferProofs`, `ConnectionPipeProofs` | theorems about `Connection`: requests and deleted objects; buffers, bytes, queues and slots; the refinement of `Pipe` |
| `ClusterProofs` | theorems about `Cluster`: the table, reports, sessions, announcements and the connections between nodes |

Definitions named "Mutant" in a comment are faulty variants of the definition that follows; no
specification uses them. They record which plausible mistake each property detects.

### CycleQueue
`push` and `read` hold the program counters and local copies of the two threads. Checking the index,
writing each of the two words of an item and publishing `_tail` are separate steps, and so are the
reads. The slots start with arbitrary content (`MALLOC`). The indices are `volatile`, not atomic: the
model takes the accesses of each thread in program order, which the compiler keeps for the volatile
indices in the generated code and x86 keeps for stores and for loads. On a machine with a weaker memory
model the proofs here would not apply. A full queue ends the process (`OASSERT` calls `assert`).

### Connection
* `conn[c]` is the `Connection` object registered for descriptor `c`; `worker = NoWorker` means there
  is none. `sWorking`/`sUsing`/`rWorking`/`rUsing` are the four buffers, `send`/`recv` the two
  machines. `offered`, `delivered`, `full` and `refused` are history used by the properties.
* `nowConnection[w]` is the worker's `_nowConnection`, incremented in `Add` and decremented in `Remove`,
  apart from the connections it counts.
* `sock[c]` is the kernel's side: unread input, end of stream, error, unread output of bounded size, and
  whether a write has met a full socket (the condition for the next `EPOLLOUT` edge). The error follows
  Linux: a reset sets `ECONNRESET`, which the next call returns and takes, and after which `::send` raises
  `SIGPIPE`; a reset that follows the peer's end sets `EPIPE`, so that the first `::send` already raises the
  signal, while `::recv` answers 0 and leaves the error. `::send` is called with flags 0.
* `armed` is epoll's ready list. `batch[c]` holds the flags that `epoll_wait` returned and
  `NetEngine::Loop` has not dispatched: they may be stale, or belong to a descriptor closed and reused
  meanwhile.
* `parsing` is the `ProcessPacket` call the main thread is in. Each iteration of its loop is a step, so
  that the application can call `Send` and `Close` of any connection in between, as `OnRecv` does.
* `workQ`, `exec`, `resQ` are a worker's request queue, the request in `DoRequest`, and its results.
* `aborted` is the assertion or signal that ended the process.

Bytes are numbers in the order in which they were offered, so loss, duplication and reordering are
visible. `Commit` is the end of every event: requests are queued and, when both machines are in Close,
`OnClose` frees the connection. The dispatch order of `Loop` (ERR, OUT, IN; send machine before receive
machine) is kept. `OnRecv` and `OnSend` are one step each: the main thread does not touch the WORKING
buffer meanwhile (`BufferOwnership` shows it), and what the peer does in between is equivalent to doing
it before or after. The application may act at any point between two steps of the main thread, a superset
of the timers, modules and callbacks that call it; it does not call `Send` or `Close` from inside
`OnDisconnected`. `PacketLen` stands for the installed `IPacketParser`.

### Cluster
* `link[l]` is one TCP connection with its two `NodeSession`s. `end[e]` is a session's life: idle
  (not accepted yet), open (`OnConnected` ran, `_ready` false), ready, closed (after
  `OnDisconnected`). `inbox[e]` holds what has been sent to that end and has not been received. `cut`
  says the connection is broken; each side then runs `OnDisconnected` in its own time and may receive
  any part of its inbox before.
* `out[n][p]` is the state of the session that `n` created to connect to `p`: connecting, open, waiting
  in `reconnects[n]` (`Harbor::_reconnects`), or lost (`Connect` answered false, which its callers
  ignore).
* `nodes[p]` is `Harbor::_nodes`, `known` is `Master::s_nodes`, `opened[n]` is `Cluster::s_openNode`.

A handler is one step, since a process has one main thread. `RecvReport` contains the whole of
`OnNodeOpen`: the table entry and, on the master, `Master::OnOpen` with both announcements for every
known node, in an arbitrary order of its hash table. `Announce` goes through the table, as `Harbor::Send`
does. `Cut` and `Crash` are the environment (a connection that a process closes itself is a `Cut`
followed by its `OnDisconnected`; an assertion that ends a process, such as the one on a connect refused
at once, is a `Crash`), and `Launch` restarts a process. The delay before a retry is an arbitrary time.
That a link delivers in order and without gaps until it breaks is what `Pipe` states and `Connection`
implements. The address of a node is fixed, as `Master::OnOpen` asserts.

### Rpc
* `stack[p]` holds the coroutines of a process that run, each resumed by the one before; empty means the
  main loop is outside Lua. `coroutine_pool`, `wait_sequence`, `next_sequence_id` are the tables of
  `co.lua`; `created` tells a new coroutine from a used one. `co_sequence` and `co_call_node` are the
  tables of `harbor.lua`. The table `sequence` there is written and never read, and is left out.
* `linked` is the set of connected pairs (what `Cluster` establishes) and `chan` their messages.
  `Sent` drops a message to a process that is not in the table, as `Harbor` does; `CallNoRet` takes any
  set of receivers and so covers the broadcast of `typeCall` to a type.

A script is arbitrary: between two steps of a running coroutine it may fork, call and wait, call without
waiting, return a result, end, or raise an error. An error ends nested coroutines from the innermost
outwards, because `co_suspend` raises it again, until a script catches it with `pcall` or it reaches the
engine call around them (`Unwind`: how many end is arbitrary); they do not return to the pool. `Exit` keeps the order of the code: the
coroutine is in the pool before the exit listener runs. The listener asserts that every function called
with `wait` has returned its result. `ExitUnanswered` is a function that has not: the assertion's error
ends the coroutines below, and the call number and caller stay with the pooled coroutine; the lines of the
listener that would answer `false` are unreachable. Arguments and results are
left out. `next_sequence_id` never reaches the overflow that `create_sequence` tests for (it would take
2^63 calls).

### ScriptEngine, Serialize and Process
* `stack` is what the engine keeps on the stack of `s_state`, slot by slot. `acts` are the engine calls
  (`Call`, the string of `ExecuteScriptFile`, the global `loop`) and native callbacks under way, each
  with the index of its message handler and the stack it began with (history). `trackback` is whether the
  global `__G__TRACKBACK__` is a function, which a script may change at any time; `harbor` holds the
  functions in the table `serverd.harbor`.
* `Execute` is `ExecuteFunction` up to `lua_pcall`, with the `lua_insert` of the handler below the
  function; `Return` and `Error` are what follows it, with the pops of `Call`. A script is arbitrary once
  `core.harbor` has been loaded. A native function's frame is on `s_state` or, called from a coroutine,
  elsewhere (`onMain`).
* `Serialize` writes a value as fields with their sizes in bytes. `pack_one` and `Push` follow the code
  field by field, recursing into tables; `Width` and `Plain` are the reference. A string longer than the
  space left is copied past the end of the buffer: its outcome is undefined and the model ends there.
* In `Process`, `order` is any order of a configuration's modules. `Initialize` and one `Launch` action
  per module do what that module does for the others; `Advance` is the loop over `_modules`. A failed
  assertion (`PrepareCall` without the function, a `loop` that fails) ends the process: `aborted`.

With libstdc++ the order of these names is the reverse of the configuration's, so the shipped
`gate.xml` starts `Rpc` before the engine, as the scripts need; `ScriptsReady` says what depends on it.
`AddModuleFunction` has no `return`; its callers ignore the answer.

### ThreadModule
The lists are guarded by mutexes, so a critical section is one step; `_terminate` and `_running` are
plain `bool`s written by one thread and polled by the other, so each access is a step. That a poll
eventually sees the write is assumed: by the letter of C++ it is a data race. `Take` follows the code,
`if` and not `while` around the wait, with spurious wakeups. The inner loop of `ThreadProc` ends only on
termination: a command that is taken before is replaced by the next one and lost, and nothing is
completed until the threads are terminated. Nothing in the repository states otherwise, `Http`'s runner
is a stub and `Http::Loop` never calls `Process`; the model has this behaviour and no property denies it.

## 3. Runs

| Run | Instance | Result |
|---|---|---|
| `cycle_queue` | ring of 2, 4 items | 45 568 states: type, slot exclusion, refinement of `Fifo` |
| `connection` | 1 connection, buffers of 2, socket of 1, 4 bytes out and 3 in, fin and reset, a 2-byte packet then a malformed one | 1 351 515 states: all safety properties of one connection, refinement of `Pipe` in both directions |
| `connection_live` | the same with 2 bytes each way, under `FairSpec` | 115 941 states: liveness |
| `connection_shared` | 3 descriptors on 1 worker with 2 slots, buffers of 1 | 2 746 630 states (symmetry): queue bound, worker slots |
| `cluster` | a master and 2 nodes of different type, which both connect to each other, 4 links, descriptors may run out, 1 fault, under `FairSpec` | 135 580 states: safety and `MeshForms` |
| `cluster_hidden` | a master and 3 nodes of one type, one of them hidden, 4 links, descriptors may run out, 1 fault, 1 message | 1 655 608 states: `ReportFirst`, `MeshBounded` |
| `rpc` | 2 processes, 3 coroutines and 2 call numbers each, 1 call without answer, 2 forks, 1 fault of any kind, an unregistered function | 1 278 121 states (symmetry): all safety properties |
| `rpc_live` | 5 coroutines, no faults, under `FairSpec` | 79 033 states: `CallAnswered` |
| `thread_module` | 2 threads, 3 commands, under `FairSpec` | 14 551 states: all properties |
| `process` | the modules of a master and of a gate in every order, calls nested 5 deep, 2 results, a buffer of 18 bytes, 39 argument lists | 230 794 states: all properties |
| `send_assert`, `recv_doc` | smallest instance that shows it | violated, see section 6 |

**Bounds.** `MaxOut` and `MaxIn` bound the bytes of one connection's life, not the number of steps:
descriptors are closed and reused without bound. Four bytes with buffers of two and a socket of one
reach every send state, partial writes, an overflowing `Send`, a `BeginSend` that does not fit, a packet
split over two reads, a full read buffer and a malformed packet. Two open connections are enough for
interference, since connections meet only in a worker's queues and in the dispatch order; a third
descriptor meets a full worker. The runs have one worker; the theorems, `SlotsRespected` among them, hold for
any set of workers. In `Cluster`,
`MaxFaults` bounds breaks and crashes together: one is enough for a stale session beside a new one.
`Links` bounds the connections that exist at a time; a link is reused once both sides have closed it.
Four are all that the nodes of either run need at once; a stale connection takes the place of one that is
not yet made, so a broken session beside its successor does occur. The cluster runs do not check for deadlock:
a cluster whose processes are all connected is at rest. In `Rpc`, `MaxFaults` bounds errors, functions that end without `ret`, breaks and restarts together; two call numbers per process let each
process wait twice while it serves the other; `Cos` is at least the number of coroutines that calls and
forks can need at once in `rpc_live`, so that no call is held up by the bound. Idle processes, and a
terminated `ThreadModule`, are at rest too. In `process`, five nested calls are two engine calls with a
send in each and a third inside; the argument lists end before, at and after the end of the buffer, in
several kinds of field, with tables of two levels. The run does not check for deadlock: an assertion ends
the process.

**Fairness.** `Kernel::Loop` calls `NetEngine::Loop` for ever; every call polls epoll, dispatches the
whole batch and processes at least one result of each worker (the time limit is tested after a result).
Polling and results are enabled only between batches, which may be interrupted by other steps of the
main thread, hence strong fairness for these and weak fairness for the rest. Workers run for ever; a
callback returns. That the peer goes on reading is an assumption on the environment, needed for
`SendFlushed` and `TeardownCompletes`. Nothing is assumed of the application. For the cluster, every
process is started, and started again after a crash (an assumption on its operator); epoll reports, and
the main loop dispatches, connections, messages and breaks; `Harbor::Loop` retries what is due. An attempt
to connect to a process that runs does not fail every time, hence strong fairness of `OnOut`. For remote
calls, the main loop dispatches messages whenever it is outside Lua, which running scripts interrupt
(strong fairness), and a script comes to its end, answering first. The command threads are scheduled, and
so is the main thread inside `Terminate`; nothing obliges it to call `Terminate`.

## 4. Properties

* `NoStaleJob`, `BufferOwnership`, `OneJobWhileBusy`: the ownership discipline. A request that waits,
  executes or has been answered belongs to an open connection of this worker whose machine waits for
  it; the main thread writes or frees a WORKING buffer only when no request for it waits or executes;
  a machine that waits has exactly one request under way.
* `ParsedIsOpen`: no call made inside `OnRecv` deletes the connection being parsed.
* `SendStream`, `RecvStream`: byte streams without gap, repetition or reordering. Exempt are bytes
  dropped by an overflowing `Send`, which closes the connection, and bytes read in the same `OnRecv` as
  the end of the stream, which the code drops.
* `PipeSpec`: each direction implements `Pipe`, which is what `Cluster` and `Rpc` take a link for. The pipe
  to the peer breaks when the send machine enters a closing state; the one to `OnRecv` when the receive
  machine closes or a worker has met the end of the stream. What adds to the two stream properties is the
  order of events: `OnRecv` is given bytes only while its pipe is whole, so never after a gap or an end,
  though buffers may still hold some; bytes leave the pipe only at its head; and a broken pipe becomes
  whole only with a new connection. An application that goes on sending after an overflow may still get
  later bytes to the peer before the close, so the peer may see a gap; `Pipe` allows it (`Drop`).
* `BuffersBounded`, `AssertionsHold` (in `connection_shared`): limits.
* `SlotsBounded`: a worker's count is the number of its open connections after every close, whether an
  epoll event, a result or a call made by the application completes it; so a slot is given back once and
  at once, the count never exceeds the size the queues were made for, and the process stops for want of a
  slot only when all are in use.
* `SendKeepsOpen`: a `Send` that fits never frees its connection, so that `Harbor`, which goes on with
  an iterator of its table after each `Send`, loses the entry only to a `Send` that overflows.
* `PipeSignal`: `SIGPIPE`, which nothing handles, ends the process only in windows that the main thread
  cannot close: the edge of a reset after the peer's end has not been dispatched, the read that took the
  socket's error has not been processed, or the write was already under way when one of these was. Once
  the error has been dispatched or answered, no new write begins.
* `SendFlushed`, `InputRead`, `TeardownCompletes`, `PeerCloseFrees`: liveness. Exempt are connections
  whose last read filled its buffer (the rest waits for the next edge) and, for `PeerCloseFrees`, those
  whose parser refused a packet (only the receive side is closed then).
* `TableSound`: every entry of a node table names a session that is connected, has reported and belongs
  to that node, so `Harbor::Send` never uses a deleted session or one that waits to reconnect. It holds
  although `OnNodeClose` erases the entry whichever session it names: erasing too much is safe here.
* `ReportFirst`: the two assertions "wtf" of `NodeSession::OnRecv` hold.
* `SessionInOnePlace`: a session that connects is on one connection, queued once, connecting, or lost for
  want of a descriptor: never queued twice or on two connections. That a lost session comes back is not
  said, and is not so.
* `MeshBounded`: no connection that holds joins a node that hides to another node; of two nodes of a type
  only the one with the smaller id connects, and any node at most once to another, although masters and
  nodes restart, nodes are announced again, and attempts are repeated.
* `Announced`: while its connection holds, a node in the master's table has been told, or is being
  told, of every node the master knows.
* `MeshForms`: once faults end, every two visible nodes get connected and stay so. Exempt are nodes
  whose entry in the master's table was erased by the close of an older session (`Unlisted`): a node
  that joins later with a larger id is then never announced to them, and of two nodes of a type only the
  one with the smaller id connects. Exempt too are a node whose session with the master was lost for want
  of a descriptor, and a pair both of whose own sessions were lost, or were not to be made: nobody else is
  kept apart by the lost session.
* `CoInOnePlace`: a coroutine runs, is in the pool, or waits for one answer, and is in one of these
  places once.
* `AnswerMatches`: a call is on its way, being served or answered at most once, and only while its
  coroutine waits under that number; so an answer, which carries the number alone, resumes the right
  coroutine. Exempt are the calls of a process that was restarted: its numbers begin again, and a callee
  that still serves a call of its former life may answer over the new connection.
* `PoolClean`: a coroutine in the pool has neither a call number nor a caller left. Both this and
  `AnswerMatches` are stated for runs in which no function has ended without `ret` (the assertion of
  the listener); `CoInOnePlace` is not restricted.
* `CallAnswered`: a call that has been sent is answered, also when the two processes call each other
  while they wait. A call to a process that is not connected, or whose link breaks, waits for ever: there
  is no timeout and `onClose` resumes nobody.
* `StackBalanced`: between events the Lua stack is empty; during a call it holds exactly what the calls
  under way keep there, however scripts end, whatever they do to the error handler, and however calls
  nest. `Failed` must go by the handler that was pushed, not by the global's present value.
* `StartSound`: in every order of the modules, each finds what it needs of the others, and at the first
  event all listeners and messages are registered and a master listens.
* `ScriptsReady`: scripts can be called exactly if `Rpc` is launched before the engine, and then no event
  ends the process; otherwise `entry.lua` fails, its answer is ignored and the first event ends it.
* `RoundTrip`: `unserialize` gives what `serialize` was given; only values without an encoding, or more
  bytes than the buffer has, are refused.
* `NoSleepOnWork`, `TerminateReturns`: no wakeup is lost, although `Push` notifies for the first command
  only and `_terminate` is set without the mutex. `FreedAfterUse`: the guard's last write to `_running`
  precedes the deletion. `CommandOnce`: no command is in two places.

## 5. Proofs

All proofs are for arbitrary constants that satisfy the named assumptions (sizes are natural numbers,
nulls are not members, packet lengths are non-zero integers).

* `CycleQueueProofs`: `TypeCorrect`, `SlotExclusion` and `ImplementsFifo`. Slot exclusion needs the
  stability of both threads' checks: the other index moves only away from the slot in use. The
  refinement maps the slots from `_front` up to `_tail` to the abstract queue; `Publish` is `Enq`,
  `Retire` is `Deq`, every other step stutters.
* `ConnectionProofs`: `TypeCorrect`, `NoUseAfterClose` (`NoStaleJob`) and `ParseOnLiveObject`
  (`ParsedIsOpen`). `NoStaleJob` is not inductive: when a result is processed the machine stops
  waiting, so nothing else of the same request may be under way. The inductive invariant `JobInv` adds
  `NoTwinJobs` (no request of the same connection and direction exists twice in a worker's queues, in
  execution or among its results) and `ParseGuard` (the connection being parsed is open and its receive
  machine is still in a waiting state). The argument rests on lemmas about the machines: in a waiting
  state every event but a result of the same direction keeps it waiting and begins nothing
  (`SendBusyStays`, `RecvBusyStays`), and whatever begins a request ends in a waiting state
  (`SendIdleBegins`, `RecvIdleBegins`).
* `ConnectionBufferProofs`: the other safety properties of `Connection`, on top of `JobInv`. Two lemmas
  say once what a step can do. `StepMoves`: to one connection and its socket (nothing; created or deleted;
  an event of the machines; `ProcessPacket` goes on, delivers or returns; the worker reads or writes; the peer
  moves). `StepKinds`: to the queues (an event queues at most one request, of which nothing is left;
  `ProcessPacket` begins; a worker takes or answers a request). Each invariant is then shown for every
  kind of step.
  - `NoOverrun` (`BuffersBounded`): the four lengths are inductive with the types.
  - `BytesInOrder` (`SendStream`): `Sent` is inductive. It keeps, in the closing states too, that what is on its
    way is increasing and was offered, so that a connection that still writes while it closes
    loses a suffix at most.
  - `BytesReceivedInOrder` (`RecvStream`): `Incoming` adds that no more has been delivered than sent. That a
    read finds its buffer empty comes from `QueueInv`.
  - `BuffersChangeHands` (`BufferOwnership`) follows from `NoTwinJobs`: the main thread swaps or clears a
    WORKING buffer only on the result of the one request for it, or when it begins one.
  - `AssertionsNeverFail` (`AssertionsHold`): the requests of a worker are distinct (`NoTwinJobs`) and
    belong to its connections (`NoStaleJob`), which are at most `MaxConnection` (`Slots`), two
    directions each; `JobsFit` is the pigeonhole argument. `QueueInv` adds `Unread`: bytes in the WORKING
    receive buffer are announced by a RECV_DONE that waits. That a worker's connections are a finite set
    is part of `Slots`; `Conns` may be infinite.
  - `SlotsRespected` (`SlotsBounded`): `Slots` says that the count agrees with the set of the worker's
    connections. `SlotMoves` shows of each step that the set and the count change together: `Establish`
    adds one connection, an event or a packet loop that leaves both machines in Close removes one, and
    every other step leaves the workers of all connections alone.
  - `SendNeverFrees` (`SendKeepsOpen`) needs `Drained`: no record with both machines in Close outlives
    its event, and an idle send machine has an empty WORKING buffer, so that a `Send` that fits can
    always begin.
  - `OneRequestEach` (`OneJobWhileBusy`): `NoTwinJobs` gives at most one, `Present` at least one.
  - `PipeOnlyInRace` (`PipeSignal`): `Taken` says that a socket's error a worker has met is in a result not
    yet processed, or has put the send machine into a closing state. `Warned` says the same of a reset
    after the peer's end: its edge is in epoll's list or in the batch, or the send machine is closing. A
    closing machine begins no new write but finishes the one under way, which is the third window.
* `ConnectionPipeProofs`: `ImplementsPipe` (`PipeSpec`). `StepMoves` already says what a step can do to one
  connection; each kind is shown to be one step of the pipe, or to leave it alone. To the peer (`OutStep`): a
  `Send` that fits is `Put`, one that overflows is `Drop`, an event that enters a closing state is `Break`,
  the peer's read is `Take`, a write by the worker only moves bytes inside the pipe. That a `Send` that fits
  never enters a closing state uses `DrainedInv`. To `OnRecv` (`InStep`): a byte from the peer is `Put`, a
  delivered packet `Take`, the end read by the worker or the close of the machine `Break`; that a packet
  is delivered only while the pipe is whole follows from `NoStaleJob` and `NoTwinJobs`, since the machine
  waits for its own packet loop and no answer can be there. `QueueInv` supplies that a read finds its buffer
  empty. TLC refuted the first mapping, in which the buffers' rest stayed in the broken pipe: what follows a
  refused packet would then have been lost from its head.
  `PipesKeepOrder` needs nothing of `Connection`: from the steps of `Pipe` alone it follows that a pipe
  is in order, and exact while it is whole (`Sound`).
* `ClusterProofs`: `TypeCorrect` and `SendThroughLiveSession` (`TableSound`), for any nodes, types and
  ids, any number of links and any faults. The inductive invariant `TableInv` adds `LinkOK`: a link with
  an end that is not closed joins a node to a process, so that a report or a close always concerns an
  entry of a real process's table. The argument is that an
  entry is written only when its session becomes ready, that ready is left only by `OnDisconnected`,
  which erases the entry of that peer, or by a crash, which erases the whole table, and that a link is
  given to a new connection only when no end of it is in use.
  In the same module are `ReportsComeFirst` (`ReportFirst`), `OneConnectionPerTarget`
  (`SessionInOnePlace`) and `NoLostAnnouncement` (`Announced`), each from an invariant of its own on top of
  `TableInv`. `Polite`, of one link: an end that is not ready finds the other's report at the head of its
  inbox or the other has not spoken; an end that is ready gets no second one; sends that go through the
  table come from ready ends only. `Placed`: `SessionInOnePlace` (`InPlace`), that the processes of a
  link that is not closed run (`Alive`), and that a node connects only while it runs and only to nodes
  the master has named, once each (`Sober`). `Heard`: the property, and that every visible node in the
  master's table is in `known` (`Listed`), so that a newcomer and the nodes of the table hear of each other.
  `MeshFollowsConfiguration` (`MeshBounded`) uses `Placed` and `Meshed`: only visible nodes are announced,
  and only to visible nodes (`Sound`), so a node has a session to another only if it is to connect to it
  (`Due`); and a link that is not cut has not been closed by the side that connected, so it is the one on
  which `Placed` puts the session.
* `RpcProofs`: `TypeCorrect` and `OneResumption` (`CoInOnePlace`), for any processes and scripts, also
  those that end without `ret`. `CoInOnePlace` together with the types is inductive (`PlaceInv`), because it also
  says that what runs, waits or is pooled has been created. `Apart` states it of one process's stack,
  pool and waiting table as values, and one lemma per kind of move (`ReuseApart`, `NewApart`,
  `ExitApart`, `WaitApart`, `ResumeApart`, `DropApart`, `EmptyApart`) shows that the move keeps them
  apart; every action is one of these moves in one process. `CleanReuse` (`PoolClean`) needs `CleanInv`, which
  speaks of the coroutines not yet created as well. For `CallsAnsweredOnce` (`AnswerMatches`) the
  property, which counts places, becomes `Sole`: of all the spots where a call can stand (a channel, the
  coroutine that serves it, the channel back) it stands in one, once, and then its coroutine waits.
  `AnswerInv` adds that the numbers waited for are not above `next_sequence_id`, so a new call's
  number is nowhere in use.
* `ThreadModuleProofs`: `TypeCorrect`, `NoLostWakeup` (`NoSleepOnWork`), `DeletedAfterEnd`
  (`FreedAfterUse`) and `CommandsNotShared` (`CommandOnce`), for any number of threads and commands. With the
  types each is inductive. `CommandOnce` is stated of the family of lists a command can be in
  (`Disjoint`), with a lemma for each way a command moves between two of them.
* `ProcessProofs`: `EngineBalanced` (`StackBalanced`), `StartInAnyOrder` (`StartSound`) and
  `ScriptsAfterRpc` (`ScriptsReady`), for any
  configurations that name `Harbor` (and the engine with `Rpc`), any depth and any number of results.
  The invariant `Layout` adds to the property that the outermost call began with an empty stack, so that
  the last return empties it. `Grown(s, u, k)` says that `u` is `s` with `k` slots above; lemmas for
  pushing, popping and inserting carry it through each engine call (`ExecuteLayout`, `ReturnLayout`,
  `ErrorLayout`), and `BeginLayout` and `EndLayout` do the step on `acts`. `Started` says how far the two
  loops over the modules have come; that every order contains all modules of its configuration is a
  counting argument (`OrderFacts`). `Scripts` says what decides whether scripts can be called: what the
  table of `Rpc` held when `entry.lua` ran. It also covers the time inside `entry.lua`, and the
  native calls under way, which only scripts that found the table can make.

Every safety property of the runs is stated by a theorem, except `RoundTrip`: what `serialize` and
`unserialize` compute for a table is an induction over nested values, which the prover cannot do. Only
model-checked besides are the liveness properties (`SendFlushed`, `InputRead`, `TeardownCompletes`,
`PeerCloseFrees`, `MeshForms`, `CallAnswered`, `TerminateReturns`), which need fairness.

## 6. Findings

1. `send_assert`: `OnSend`'s assertion "send buffer is empty" (`Connection.cpp:220`) can fail. A write
   completes, an `EPOLLOUT` edge puts the machine into SendingReady before the result is processed, and
   the peer's close or an application `Close` takes it to SendingWaitClose, where SEND_DONE begins
   another write although both buffers are empty. `doc/send.gv` sends SendingReady to WaitClose, which
   would not write again.
2. `recv_doc`: `doc/recv.gv` leaves WaitClose only to Close. A `Close`, or a `Send` that overflows, made
   inside `OnRecv` moves the receive machine to RecvWaitClose; when `ProcessPacket` returns, Recving and
   RecvingWait overwrite it with RecvNone or Recving. The close is then half done.

A smaller divergence, not run: in SendingWait the code answers the peer's end or error by
SendingWaitClose (`SendingWait.cpp:24`), which writes again; `doc/send.gv:34` has WaitClose.

## 7. Not modelled, and the plan

Not modelled:
* XML configuration and module loading with `dlopen`; the Redis and Starter stubs; address bookkeeping;
  `Listen`'s socket options.
* `Destroy` of `NetWorker`, `NetEngine` and the modules: nothing calls `Kernel::Terminate`.
* Of the engine: `tohex`, result readers and the assertion of the argument readers on missing arguments;
  `unserialize` of strings that `serialize` has not made; tables nested so deeply that they pass the slots
  of the Lua stack.
* `timer.lua`, which is not loaded (its `require` in `entry.lua` is commented out) and cannot run as it
  stands: it uses the undefined names `poll` and `math`.
* The vendored code: `contrib/` (system headers, Lua, tinyxml) makes up nearly all lines of the
  repository, which is why the share of lines that are mapped is small. The repository's own code is
  a few thousand lines.

`Connection` and `Cluster` are not composed: a `Send` that overflows and erases the table entry while
`Harbor::PrepareSend` or `Brocast` still holds the iterator is described by `SendKeepsOpen` from the side
of the connection only.

Left for later: the composition of `Harbor`'s sends with the closing of a connection under them;
`SendNeverFrees` is its side of the connection.
