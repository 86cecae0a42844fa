# A specification of localsoftware

TLA+ modules, TLC configurations and TLAPS proofs for the C++ server in
`src/src` (paths below are relative to that directory). The server is one
process: a dispatcher thread that drives an io_uring and a set of `Event`
objects (a landing page over HTTP and HTTPS, a bandwidth monitor over
HTTPS and WebSocket), a thread that polls a thermostat service, and `main`'s
thread, which samples network counters.

Modules are checked with `tlc -config <cfg> <module>` and proved with
`tlapm <module>`. `PROJECT.json` lists runs, mutants, hazards and the source
lines behind every definition.

## 1. The system

### Parts and the state they keep

| Part | Source | State | Operations |
|---|---|---|---|
| Id blocks | `common/thread_data.cpp:68-90`, `async_handler.cpp:49-63`, `async_thread_shared.h:146` | a shared atomic block counter per kind of id; a private block per thread | `get_proc_id`, `get_obj_id`, `get_tim_id` |
| Dispatcher | `common/thread_data.cpp`, `event.cpp`, `event.t.cpp` | work queue, `obj_info`, `proc_to_dat`, `also_notify`, `timers`, the ring | `run`: `handle_dequeue` (root start, constructor call, function call, delete, data), `process_uring`, `process_queued_*` |
| Event base | `common/event.h`, `event.t.cpp` | what a handler queued in this turn; the maps from global to local ids | `i`, `c`, `ca`, `d`, `attach`, `timer`, `cancel_timer`, `direct_access` |
| Coroutines (unfinished) | `common/coro_types.*`, `thread_data.cpp:92-118` | `readiness_waiters` | register, update, handle, deregister, `CqeReady` |
| Handler, start of the server | `common/async_handler.*`, `localsoftware.cpp:65-184` | the threads' tables and their vector, the TLS context, listening sockets | `server_func`, `initialize_root_event`, `start` |
| Socket, HTTP object | `common/readwrite_bytes.cpp`, `readwrite_http.cpp` | buffers, counters, `read_op_`, `parser_` | read, write, parse |
| TLS socket | `common/tls_socket.cpp` | handshake state, record buffers, one read and one write in progress | read, write, handshake |
| Landing | `aio_landing/landing_*.cpp` | connection slots and `indices`; `op_read_`, `timer_` | accept, request, response, timeout, release |
| Bandwidth monitor | `bandwidth_monitor/*`, `common/websocket_socket.cpp` | stage, timer, pacing flags | HTTP, upgrade, logs, live records |
| HTTP manager | `common/http_manager.*` | route table (constant after construction) | `handle_request`, `assure_path` |
| Block allocator | `alloc/alloc_wrapper.*` | arenas, segment arrays | `bmalloc`, `bfree` |
| Visit statistics | `logging/visit_stats.*` | counts per service, endpoint and time bin | add, read, register |
| S40 client | `aio_landing/s40_client.*` | last values and a valid flag, under a mutex | poll, get |
| Sampler | `localsoftware.cpp:186-272` | previous counters, hourly and daily sums, speeds | one sample a second |

Not built: `reverse_proxy/*`, `common/readwrite_httpc.*`, `coro/coro.cpp`,
`alloc/block_allocator.cpp`. Outside the C++ code: the frontend, service files
and scripts.

### How they interact

Objects never call each other. A handler (a constructor, a called function or
`on_yield`) appends constructions, calls, operations, deletions and attachments
to its own lists. When it returns, `process_queued` turns them into messages
and submissions in a fixed order. The dispatcher takes at most 256
messages from its queue and then looks at the ring, where every completion becomes a
message for the object that asked for it. When a called function, or
`on_yield` later, has a result, it becomes a message to the object that called.
A timer is an operation of the ring, found again through a table when it is to
be cancelled. `find_target_thread` compares load averages nothing ever
writes, and production starts one thread (`AsyncHandler::self(1)`,
`localsoftware.cpp:165`), so everything runs on one queue.

### What is hard about it

* Order in the queue. A deletion, a construction and calls of one object are
  messages like all others; `function_call` takes the object's pointer without a
  check, so correctness rests on the order in which they were appended.
* Late completions. Objects may be deleted while their operations are in
  flight, and several completions for one connection can be reaped in a batch.
* Two names for everything. Procedures, objects and timers have global ids and
  each object's own numbers; answers are renamed on the way up.
* Pointers behind the tables: `this` in a queued constructor, a `weak_ptr` used
  for direct access, a timer's address in the `timers` table after it was freed.
* Long-lived data with reuse: connection slots, allocator segments.
* A stream of bytes cut anywhere, with requests that run on from one read to the next.
* Three threads that share little and lock some of it: the visits, the thermostat's
  values, the vector of `ThreadData` that `start` appends to.
* Clocks that are set, and counters that restart or cannot be read.

The `hazards` of `PROJECT.json` list these at their lines, each with the properties
that would notice it going wrong, or with a note where there is none. Where a property excepts
what the code does wrong (a timer hit by another connection's cancellation, a report that
meets a registration, a counter that cannot be read, a poll cut short) the note says so: no
property excludes these, the models have them.

### What makes each part correct

* Id blocks: no id is given twice.
* Dispatcher: a call finds its object; `proc_to_dat` lists exactly the
  procedures of live objects; answers arrive at the caller under its own number;
  deletions reach the whole subtree.
* Landing: a connection is accepted, finishes and is released, once each and in
  that order; one operation of it at a time; a waiting connection has a timer;
  the accept is always armed; nothing is left of a released connection.
* Monitor: one frame at a time on the socket that HTTP object and frame writer
  share; no HTTP answer taken for a frame's; the stream goes on as long as the
  peer reads; every wait is covered by a timer; the objects go together.
* HTTP object: requests are parsed whole and in order.
* Handler: a running thread's `ThreadData` stays where its pointer says.
* Visits: every answer is counted once; a report is of one moment.
* S40 client: what is shown comes from one poll.
* Sampler: the log's days are the sums of its hours; no byte is counted twice.
* TLS socket: buffers are not overwritten before they are used up; output is
  flushed before the socket waits; a write goes as a whole; every call is answered.
* Allocator: live allocations do not overlap and lie in mapped memory; segments
  tile their arena; free neighbours are joined; unused arenas are given back.

## 2. The modules

| Module | Models | Extends or uses |
|---|---|---|
| `IdBlocks` | one kind of id, its allocators and the shared counter | |
| `Startup` | `server_func`: sockets, the handler, the vector of `ThreadData`, the threads' ids | `IdBlocks` |
| `Sampler` | `main`'s loop: counters, sums, the log's lines | |
| `LocalSoftware` | `main` beside the server | `Startup`, `Sampler` |
| `LocalSoftwareProofs` | proofs about `LocalSoftware` and, for themselves, `IdBlocks` and `Sampler` | `LocalSoftware` |
| `ThreadData` | the dispatcher with any `Event` subclasses | |
| `ThreadDataProofs` | proofs about `ThreadData` | `ThreadData` |
| `Connections` | abstract: what an acceptor promises | |
| `Landing` | the landing acceptor and its chains of objects | `INSTANCE Connections` |
| `LandingProofs` | proofs about `Landing`, its refinement included | `Landing`, `DataFacts` |
| `Monitoring` | a connection of the bandwidth monitor, clock and frame writer included | |
| `MonitoringProofs` | proofs about `Monitoring` | `Monitoring`, `DataFacts` |
| `TlsSocket` | the TLS socket between an object and its byte socket | |
| `TlsSocketProofs` | proofs about `TlsSocket` | `TlsSocket` |
| `HttpStream` | one HTTP object's stream of bytes: `buffer_`, `parser_` | |
| `VisitStats` | the visits, their mutex, counting, reporting, registering | |
| `HttpManager` | what answers a request, and what it counts | `VisitStats` |
| `S40Client` | the thermostat's thread and its getters | |
| `WebService` | a service: its stream, handlers, files, visits and thermostat | `HttpStream`, `HttpManager`, `S40Client` |
| `WebServiceProofs` | proofs about `WebService` and its parts | `WebService`, `DataFacts` |
| `Extents` | abstract: what an allocator promises | |
| `Allocator` | `AllocatorWrapper` | `INSTANCE Extents` |
| `AllocatorProofs` | proofs about `Allocator`, its refinement included | `Allocator`, `DataFacts` |
| `DataFacts` | facts for the proofs: induction, sequences put together, sums | |
| `MC*` | instances for TLC | |

### IdBlocks

One action per step on shared state: `FetchBlock` is the atomic increment
together with the private assignments, `ReturnId` the private rest. The three
kinds of id run the same code on separate counters and so are one module.
`BlockSize` is the code's 1000.

### Startup, Sampler and LocalSoftware

`Startup` is `server_func` step by step, any of which may throw or give up: the
sockets (`OpenSocket`; `Files` close them when it returns), the constructor's
`emplace_back` of `Threads` objects (`ConstructHandler`), a root's id and
message (`HandlerFetchBlock`, `InitializeRootEvent`), and `start`, which appends as
many objects again and runs the *first* ones (`StartAppend`, `StartRun`).
`home` counts how often the vector has moved its elements, and `runs[t]` is what it was
when thread t got its pointer. The handler is allocator 0 of `IdBlocks`, the
threads are the others. `main` detaches this thread, so `returned` leaves the
process sampling, while `terminated` (an exception nothing catches) ends it all.

`Sampler` follows one of the two counters. A turn is `Sample`, then, if the hour
has changed, `LogHour` and `LoggedHour`, and if the date has too, `LogDay` and
`LoggedDay`; `log_entry` writes the line first and the visits then, and the interface
goes on between all of these. `ReadBytes` answers 0 when the counter cannot be
read. The clock is any value of `Clock`. `fault` remembers what has
gone wrong, as the properties' conditions.

### ThreadData

`q` is the work queue, `objs` is `obj_info` (children, procedures, and of the
object's `IoUringData` the list of procedures it called), `procs` is `proc_to_dat`, `also` is
`also_notify`, `ring` the operations in flight. Each branch of the visitor in
`handle_dequeue` is an action, the whole of `process_queued` included:

| Code | Definition |
|---|---|
| `RootStart` 158-186 | `RootStart` |
| `construct_call` 278-288 | `ConstructCall` |
| `function_call` 290-334 | `FunctionCall` |
| `data_received` 336-381 | `DataReceived`, `DataDropped` |
| `Delete` 134-154 | `Delete` |
| `process_queued` 421-601 | `ProcessQueued`, in the code's order: constructions, calls, deletions |
| `process_uring` 205-276 | `ProcessUring` |
| `run` 33-66 | `Dequeue` (batch of `Batch`), `Run`, `Fairness` |

A subclass is replaced by a *turn*: any bounded lists of constructions, calls,
deletions, one operation and one attachment that the `Event` API would accept, and
a result or none. Four Boolean constants say what subclasses do:
`CtorCalls` (calls in constructors), `LateConstruct` (children made outside
constructors), `EarlyDelete` (a child deleted before it answered), `Attaching`. Of these the
repository's classes use late construction (both acceptors, and
`BandwidthMonitoringServer` when it upgrades a connection) and attachment
(`TLSSocket`); the runs allow the others where the property does not need to
forbid them, because the API offers them. `CtorCalls` is FALSE in the runs;
`CallTargetAliveHolds` and `ProcsOwnedHolds` leave all four free, and `AnswerHeardHolds`
assumes that there are neither calls in constructors nor attachments. With calls in constructors,
which `event.h:28` allows, `AnswerHeard` fails, since `construct_call` queues them with no procedure id and
their answers are dropped; no class makes such a call. The data made for an attached
procedure carry the number that the *first* caller knows the call by, so what
`AnswerHeard` says is about answers without attachments.
A timer is an operation here. Thread choice, the coroutine message and
the fields that only cross threads need are left out.

### Connections and Landing

A connection is a chain of three objects, S (`AioLandingHTTP`), H
(`ReadWriteHTTP`) and B (`ReadWriteBytes`), made by the acceptor A. `Landing`
runs them on the queue of `ThreadData` with the real turns of these classes:
`Accepted` and `Released` are `LandingAccept::on_yield`; `Start`,
`RequestRead`, `ResponseSent` and `ServerFails` are those of S; `HttpCall` and `HttpData`
those of H; `SocketCall` and `SocketData` those of B. `Construct` and `Delete` go
down the chain one message at a time. `slots` and `indices` are the acceptor's
tables with reuse. Bytes are abstracted: a read may complete a
request or not, a send may be cut short or not, anything may fail.

The timer is modelled with the table behind it. `timers[n]` is 0 while
operation n has not been freed, and afterwards the number of timers armed by then.
A cancellation that comes after its timer was reaped passes a freed address to the
kernel; `Cancelled` lets it remove nothing or any timer armed since, as
the allocator may have given that address to it. `hit` remembers the
connections this happened to.

Two facts come from `ThreadData` and are not repeated: data reach an
object exactly while it lives (`ProcsOwned`), and calls find their object
(`CallTargetAlive`). Fewer than 256 messages are queued here, so a batch ends
with the queue and `budget` is not needed.

`Connections` is the promise: every connection goes from none to open, finished
and closed, and a finished one is closed in the end.

### Monitoring

One connection of the monitor, on the same queue and ring. S
(`BandwidthMonitoringServer`) has H and B as the landing page has; after an
upgrade it makes T (`BandwidthDataTimer`) and W (`WebsocketSocket`). All are made
with `i_s` and share one `IoUringData`, so W's call of `ReadWriteBytes::write`
finds H's socket, which then has two parents and is deleted twice.
Messages carry who is to be answered (`by`) and, for answers to S, which task it was.

| Code | Definition |
|---|---|
| `start`, `on_yield` of S, by stage | `Start`, `RequestRead`, `ResponseSent`, `Upgraded`, `LogsSent`, `LiveStep`, `ServerFails` |
| `stage_websocket_logs` | `SendLogs` |
| `stage_websocket_live`, its condition and task numbers | `LiveStep`, `MayGo`, `pace` |
| `BandwidthDataTimer` | `ClockCall`, `ClockData` |
| `WebsocketSocket` | `FrameCall`, `FrameData` |
| H, B, the loop | as in `Landing` |

`write_frame` replaces `w_buf_` without looking at the old one and the socket has
one set of write counters: that no two frames overlap rests on S alone.
The constructor closures of T and W write into a slot of S. After a timeout that
was reaped in one batch with the completion of the upgrade's response, S may
be deleted first; `Construct` then lets the process end or go on.

### TlsSocket

`TLSSocket` with OpenSSL reduced to what the code uses: how many bytes it wants
before it can go on, what it adds to the memory BIO, and how much plaintext it
holds. The handlers are functions from a state to the set of their outcomes
(`HandleHandshake`, `HandleRead`, `HandleWrite`: new state, operation to arm, result),
and the actions `Read`, `Write`, `Received`, `Sent` take one and apply `Arm`.
`Chunk` is `sizeof(e_read_)`: the code takes the size of the pointer, so 8
bytes are moved at a time, not a block of the allocator. One call is outstanding
at a time, which is `OneTurn` of the modules above. `arm_read` and `arm_write` attach
to an operation of another call when there is one; `Alone` says that this does not
happen under such a use, and what `on_yield` would then make of the copy is left out.

### HttpStream, VisitStats, HttpManager, S40Client and WebService

`HttpStream` is what `Landing` abstracts from: a byte is the number of the
request it belongs to. `TryParse` is `try_parse` with Boost.Beast's parser as
the code relies on it: it takes no byte after the end of a request, may leave
bytes for later, and may stop anywhere in a malformed one. `ReadYield` commits what
was received, parses, and reads on if no request is complete. `read_http` only
arms a read (`ReadHttp`), although `readwrite_http.h:26` says that it
"processes any leftover data": with two requests in one packet the second waits until
more bytes come. `InStep` holds all the same: the bytes are kept.

`VisitStats` has the mutex `access`, held by `AddAccess` (one step) and by
`get_pretty_stats` (`ReportBegin`, `ReportService` per service, `ReportEnd`, so that
others come in between). `register_service` takes no lock:
`Race` makes the report that runs at that time arbitrary or ends the process.
`OneMore` looks only at the last bin, as the code does, with a clock that may be set back.

`HttpManager` has the three outcomes of `handle_request`. `answered` counts
responses other than 404. `S40Client` numbers the polls: a value is
the number of the poll it was read in, so that a mixture can be seen. A message may be cut
by an exception, which is swallowed; a poll that fails later publishes what it has.

`WebService` puts them together. The roots register their services one by one and
then a connection of the last one is served; `Respond` answers and counts in one
turn of the dispatcher; a handler starts the client; `main` reports and
the client polls at any time.

### Extents and Allocator

`Allocator` keeps the arrays of `SegmentInfo` as the code does, with the stale
entries of blocks inside a segment. `Carve` is what `bmalloc` does to a
segment, `Merge` what `bfree` does. `arenas` is the sorted list, searched forwards by
`bmalloc` and backwards by `bfree`. `held` is what the callers hold: `TLSSocket`
takes two single blocks, the interface allows any size from 1. Addresses are
counted in blocks; `mmap` returns any unused address of `Bases` and does not
fail. `Extents` knows only the live allocations and which blocks are mapped.

## 3. What the runs check

| Run | Bounds | What it shows |
|---|---|---|
| `process` | two threads and the handler, blocks of 2, 4 blocks, 3 sockets, 3 roots; 2 dates and 2 hours, a byte, 2 samples | `BlockOwned`: each block belongs to one allocator. `FreshId`: no step returns an id that was returned before. `InPlace`: `start` moves no running thread's object. `Books`, `CountedOnce`: the log's sums |
| `web_service` | 2 requests of up to 2 bytes, reads of 3, one perhaps malformed; 2 services, 2 endpoints, 2 times in different bins; 2 fields, 2 polls of a message | `InStep`: requests do not run into each other. `Snapshot`, `Counted`: reports and counts. `OneCycle`: what is shown is of one poll |
| `thread_data` | a root and 3 more objects, 4 procedures, 2 operations, 2 constructions and a call a turn, batch of 3 | `CallTargetAlive`, `ProcsOwned`, `AnswerHeard` (the caller knows the call, and a child it holds is there to answer) with late constructions and early deletions |
| `thread_data_live` | 4 objects, 3 procedures, attachments, batch of 3 | `OrphansDeleted`, also when a batch ends in the middle of the deletions |
| `landing` | 2 connections of 2 requests, timers may fire | `OneTurn` (with the parser present when it is used), `AcceptArmed`, `TimerCovers`, `AllOrNothing` (with the parent present when a part is made), `NeedsTwice`: until a task completes twice, slots and indices agree and nothing throws. `LateCancel`: only a connection that has completed, or whose own timer was hit, can hit another's timer |
| `landing_promise` | 3 connections of a request, timers do not fire | `KeepsPromise`: `Landing` implements `Connections` |
| `landing_live` | a connection of 2 requests, both sockets, timers expire | `IdleReclaimed` |
| `landing_twice` | 2 connections of a request | a finding, see below |
| `monitoring` | 3 requests, 2 log chunks, 3 live records | `OneTurn` (one frame at a time on the shared socket), `NeverStuck`, `TimerCovers`, `AllOrNothing` (with every called object present), and `Reclaimed` under fairness |
| `tls_socket` | two handshake messages of up to 3 bytes, records and writes of up to 3, chunks, frames and reads of 2, 4 calls | `Alone`, `ReadyToReceive`, `WholeBuffer` |
| `tls_socket_answered` | the same | a finding, see below |
| `allocator` | arenas of 3 blocks, one kept, sizes 1, 2 and 4, three addresses | `Tiled`, `Coalesced`, `Accounted` (what callers hold is occupied, and spare arenas are counted), `MapsWhenFull`, and `KeepsPromise`: `Allocator` implements `Extents` |

Why the bounds are enough:

* `process`: four blocks of two for three allocators run out, and each
  allocator has the counter taken away between two of its own draws. Two threads let `start`
  append while one runs. Two samples make a line of an hour and one of a day,
  with either clock reading before and after; a byte may come before, between and after them.
  What longer runs could add, the theorems cover: ids, `Books` and `CountedOnce` are proved for all values.
* `web_service`: reads of three bytes take a request and part of the next, or
  both; requests of one and two bytes come whole, in parts, and together. Two services are
  a report with something between its parts, two polls a mixture. `SYMMETRY` permutes
  the fields of the thermostat, which are only compared with each other.
* `thread_data`: with four objects there are chains of three and siblings; a
  batch of 3 cuts a turn's messages in two, so that completions come in between; an object
  with two children, one of them deleted while it calls the other, is reached.
* `landing`: two connections are what one connection's cancellation needs to hit
  another's timer; two requests reuse the parser, the timer and `op_read_`.
  `landing_promise` needs three connections for a slot to be freed, reused and
  its old task's entry to matter.
* `monitoring`: two answered requests before an upgrade use the timer again, two chunks
  repeat the log stage, and three records give the first one (sent without a
  tick) and two that wait for both in either order.
* `tls_socket`: messages, records and writes are longer and shorter than a chunk, a frame and
  a read, so that each is cut, fits and is joined with the next.
* `allocator`: three blocks give a segment a free neighbour on both sides, three
  addresses give lists in which an arena is inserted in the middle, and a custom
  arena that lies between two others. One kept arena stands for the code's three.

Deadlock is checked except in `process` (ids, bytes and samples run out at the
bounds, and an exception ends it), in `web_service` (requests and polls end), and in the
`landing` runs with timers and in `monitoring` (there an exception may
end the process; a monitor connection also stops once it is released), nor in
`tls_socket`, where a connection ends by failing and a peer may stay silent.
`thread_data` never stops because an empty queue still looks at the ring.

`landing_promise` has no timers on purpose: with them the double completion of
`landing_twice` breaks its property. What holds with them, `NeedsTwice`, is checked by `landing`.

Every property has a mutant: a variant of a mapped definition, written beside
it and marked "Broken form", under which TLC finds the property violated.

### Fairness

`run()` is an endless loop that dequeues while there are messages and always
gets back to the ring, so `ThreadData` has weak fairness of handling a message
and of starting a new batch when messages are left. `Landing` and `Monitoring`
have weak fairness of handling, and in their liveness runs strong fairness of reaping
each timer: the kernel completes a timeout that nobody cancels, and `run` reaps whenever its queue
is empty. Strong, because reaping is disabled while the queue is not empty.
Nothing makes a peer connect, send, read or close.

## 4. What is proved

For all values of the constants that satisfy the named assumptions:

| Theorem | Says |
|---|---|
| `LocalSoftwareProofs!BlockOwnedHolds` | `Spec => [](TypeOK /\ BlockOwned)` |
| `LocalSoftwareProofs!FreshIdHolds` | `Spec => FreshId` |
| `LocalSoftwareProofs!ProcessDrawsIds` | `ProcessSpec => Spec` of `IdBlocks`: the process draws ids as the allocators do |
| `LocalSoftwareProofs!ProcessSamples` | `ProcessSpec => SamplerSpec` |
| `LocalSoftwareProofs!ProcessFreshId` | `ProcessSpec => [](TypeOK /\ BlockOwned) /\ FreshId` |
| `LocalSoftwareProofs!ProcessTypes` | `ProcessSpec => []ProcessTypeOK` |
| `LocalSoftwareProofs!InPlaceHolds` | `ProcessSpec => []InPlace` if `PowerOfTwo(Threads)` |
| `LocalSoftwareProofs!BooksHolds` | `SamplerSpec => []Books` |
| `LocalSoftwareProofs!CountedOnceHolds` | `SamplerSpec => []CountedOnce` |
| `WebServiceProofs!ServicePolls` | `ServiceSpec => S40Spec`: all the rest of a service leaves the poll alone |
| `WebServiceProofs!ServiceOneCycle` | `ServiceSpec => []OneCycle` |
| `WebServiceProofs!ServiceSnapshot` | `ServiceSpec => []Snapshot` |
| `WebServiceProofs!ServiceInStep` | `ServiceSpec => []InStep` |
| `WebServiceProofs!ServiceCounted` | `ServiceSpec => []Counted` |
| `WebServiceProofs!ServiceTypes` | `ServiceSpec => []ServiceTypeOK` |
| `TlsSocketProofs!TypeOKHolds` | `Spec => []TypeOK` |
| `TlsSocketProofs!AloneHolds` | `Spec => []Alone` |
| `TlsSocketProofs!ReadyToReceiveHolds` | `Spec => []ReadyToReceive` |
| `TlsSocketProofs!WholeBufferHolds` | `Spec => WholeBuffer` |
| `ThreadDataProofs!TypeOKHolds` | `Spec => []TypeOK` |
| `ThreadDataProofs!CallTargetAliveHolds` | `Spec => []CallTargetAlive` |
| `ThreadDataProofs!ProcsOwnedHolds` | `Spec => []ProcsOwned` |
| `ThreadDataProofs!AnswerHeardHolds` | `Spec => []AnswerHeard` if `~CtorCalls` and `~Attaching` |
| `LandingProofs!Invariant` | `Spec => []IInv`, the inductive invariant |
| `LandingProofs!TypeOKHolds` | `Spec => []TypeOK` |
| `LandingProofs!OneTurnHolds` | `Spec => []OneTurn` |
| `LandingProofs!AcceptArmedHolds` | `Spec => []AcceptArmed` |
| `LandingProofs!TimerCoversHolds` | `Spec => []TimerCovers` |
| `LandingProofs!LateCancelHolds` | `Spec => LateCancel` |
| `LandingProofs!AllOrNothingHolds` | `Spec => []AllOrNothing` |
| `LandingProofs!NeedsTwiceHolds` | `Spec => []NeedsTwice`, that is `CompletesOnce => SlotsOwned /\ ~crashed` |
| `LandingProofs!OnceWithoutTimeouts` | `Spec => [](CompletesOnce /\ SlotsOwned /\ ~crashed)` if `~Timeouts` |
| `LandingProofs!PromiseUntilTwice` | every step of `Spec` after which no task has completed twice is a step of `Connections` or a stutter |
| `LandingProofs!Refinement` | `Spec => Promise!Safety` if `~Timeouts`: the acceptor's steps are those of `Connections` |
| `MonitoringProofs!Invariant` | `Spec => []IInv`, the inductive invariant |
| `MonitoringProofs!Types` | `Spec => []TypeOK` |
| `MonitoringProofs!OneTurnHolds` | `Spec => []OneTurn` |
| `MonitoringProofs!NeverStuckHolds` | `Spec => []NeverStuck` |
| `MonitoringProofs!TimerCoversHolds` | `Spec => []TimerCovers` |
| `MonitoringProofs!AllOrNothingHolds` | `Spec => []AllOrNothing` |
| `AllocatorProofs!Invariant` | `Spec => []IInv`, the inductive invariant |
| `AllocatorProofs!TiledHolds` | `Spec => []Tiled` |
| `AllocatorProofs!CoalescedHolds` | `Spec => []Coalesced` |
| `AllocatorProofs!AccountedHolds` | `Spec => []Accounted` |
| `AllocatorProofs!MapsWhenFullHolds` | `Spec => MapsWhenFull` |
| `AllocatorProofs!KeepsPromiseHolds` | `Spec => KeepsPromise`: `Allocator` implements `Extents` |

`IdBlocks`: the invariant is that every allocator's block was fetched and no two
share one, with `curr` inside it, and that each issued id lies below its
allocator's `curr`. `BlocksDisjoint` turns different block numbers into disjoint
intervals, the one place where arithmetic matters.

`ThreadData`: `CallTargetAlive` speaks of calls in the queue and is not
inductive: a turn may call a child it did not construct in this turn. The
strengthening `Safe` adds what makes such a call good:

* `KidsSafe`: a child that a live object holds is alive or waits to be
  constructed, and no deletion of it is queued;
* `OneParent`: no two live objects hold the same child, so only the parent queues a
  deletion, in the step in which it lets go of the child;
* `RootsSafe`: nobody holds or deletes a root that still waits to start;
* `Fresh`: ids from `nextObj` on occur nowhere, so a new child disturbs none
  of this.

These are stated of any queue and children table. One lemma each says how they
survive the parts of a step: taking the head (`SafeTail`), appending
constructions (`SafeMakes`), calls (`SafeCalls`), deletions (`SafeDrops`), data
(`DataConcat`), erasing an object (`SafeDelete`). `TurnSafe` puts them together
in the order of `process_queued`, and each action's lemma uses it. The order matters in
the proof as in the code: deletions are appended after the calls.

`ProcsOwned` rests on `ProcInv`, which adds what the queue may still enter in the
tables: the procedure ids that starts and calls in the queue will open are below
`nextProc`, no two are the same, and none is in `procs` yet. It needs none of `Safe`.
`AnswerInv` says the same of object ids and, of every
message, operation and procedure that names a caller, that the caller has started and
that, while its object lives, it knows its procedure and the call. What a step
leaves of the tables (`Keeps`) is separated from what it adds to the queue, so that each action
needs only its own messages. That a child which is called is there to answer is `KidsSafe` again. Both
invariants were checked by TLC in the bounds of `thread_data` before they were proved.

`Landing`: no property of the run is inductive, since each depends on which
messages can be queued behind which. `IInv` has these parts:

* `Apart`: messages of one connection that are never queued together, above all two *tokens*
  (whatever carries the one request of a connection through S, H and B);
* waves: the queue is first in, first out, and everything a turn queues is one wave later than what
  it handles, so the waves in the queue differ by at most one. This is what
  keeps a second completion, three waves after the failed operation, from meeting
  half of a chain;
* `Life`: which of S, H and B are alive, given which constructions and deletions are queued;
* `Ends`: what is still to come for a task that has completed, once or twice;
* `Orphans`: with timeouts, the connections whose slot was given away by somebody else's second
  completion. They are the ones that `SlotsOwned` fails for, and there are none before a task completes twice;
* types, the acceptor's tables and the timers.

There is one lemma per turn (`StartKeeps`, `RequestReadKeeps`, ..., `ReapKeeps`) under lemmas about
the queue (`Turns`, `Taken`, `Pushed`, `Behind`). TLC checked `IInv` with two and
three connections before the proof.

`LateCancel` follows from `IInv`: a connection that reads has its timer in the ring, or its
Timeout queued, or has completed, or was hit. The Timeout cannot be queued when it hears of its
request, as that is two waves later. With its own timer in the ring the cancellation ends
that one and no other. With two connections the run does not reach a hit that
is passed on; the theorem covers it.

`NeedsTwice` and the refinement need one more invariant beside it, `Sound`: as long as no task has
completed twice there are no orphans and nothing has thrown. A first completion finds its index
(`Ends`), the index leads to its own slot (`Sound`), and so it releases its own connection. It holds with
timeouts, so the finding `landing_twice` is the only way in which the acceptor breaks its promise:
`PromiseUntilTwice` says so of every step, with the refinement mapping of `KeepsPromise`. Without
timeouts no task completes twice, which gives `Refinement`; only the fairness of `Connections`
stays with TLC. `IsFiniteSet(Families)` is
assumed because there are finitely many listening sockets (two).

`Monitoring`: with one connection no waves are needed, since a second completion can hit no other
connection: it finds the slot empty and ends the process. `IInv` is `Setup` (the five queues before the first read, in which
objects are called that are still to be made) or `Run`, which follows two tokens:

* the *socket's*: a call, an answer or an operation of B, H or W, or the answer to S that came of it.
  There is never a second one (`Row`, `Once`), and `Fits` says what the state is like by who has it: H
  only before the upgrade, W only after it, with the frame's buffer and its task;
* the *clock's*: the call of T, its operation, or its answer. `Quiet` says that `pace.wrote` and
  `pace.ticked` stand for S having taken the two, so that the task numbers of one record are in no
  message any more when the next one goes (`GoClear`), and `Alive` that an unfinished connection has them or the flags;
* `Row`'s order: no deletion of H, T or W ahead of a call that S makes, none of B ahead of a call of B,
  and no call of T or W ahead of its construction. With `Living` (what is queued to be deleted once S
  is let go of) and `Calls` that gives `AllOrNothing`, the twice-deleted socket included.

There is one lemma per turn here too; those of H, W and B follow from `TokenMovesKeeps`, those of the clock
from `ClockMovesKeeps`, those of S from `ServerMovesKeeps` and `EndMovesKeeps`, and the record that goes (`LiveGoKeeps`)
stands alone. TLC checked `IInv` in the bounds of `monitoring` before the proof.

`LocalSoftware`: its steps are steps of `IdBlocks` and of `Sampler` or leave them alone, so what was
proved of the parts holds of the whole. `InPlace` needs an invariant about the
vector (`Room`): the constructor fills it exactly, as capacities are powers of two; the
first append of `start`, when no thread runs yet, doubles it; and that is room
for all the rest. If `Threads` is not a power of two it is false
(three threads fill a capacity of four, and the second append of
`start` moves the first thread's object), which is why the theorem has that condition;
the code runs one thread.

`Sampler`: `Ahead` says how far the counter is ahead of `rx_prev`, which is
what `CountedOnce` needs and does not say; `Emptied` that the hour's sum is 0
when a day's line is written, which `Books` needs for the day that follows.

`S40Client`: `OneCycle` is nearly inductive; what the poll has gathered
so far must be of its own cycle, and empty between polls. `Snapshot` needs that no one
but the report holds the mutex and that `visits` only grows at its end by registration.

`HttpStream`: `InStep` needs little beside itself (`StreamInv` adds types and which call the socket's
operation belongs to); the work is in the bytes. `NextRequest` says that
what follows the first `r` requests of the stream begins with request `r + 1`, and that a part of it
of that length is that request: so a parser that is done with anything else has met the malformed one.
`TryParseIs` covers every place at which the parser may stop.

`Counted`: a total is a sum over endpoints of sums over lists, and both are folds that choose an order.
`DataFacts` shows that such a fold exists and does not depend on the order
(`SumRemove`), hence that one more in one place is one more in the sum (`SumOneMore`); `CountOneMore`
has the two cases of `add_access`, the bin that is still open and the new one. Beside it
`CountInv` says that nothing is answered before every service has registered,
without which a second service of the same name would start with visits it does not have.
`IsFiniteSet(Endpoints)` is assumed because there are finitely many handlers and files.

`Allocator`: an array is `Sound` when there is a set of positions whose segments tile it (`Tiles`),
with back positions (`Backs`) and no two free neighbours (`Dense`). That the loop of `bmalloc` visits
exactly that set is `HeadsAre`; the rest of the proof says what becomes of the set, and
never computes it. A segment that grows over its neighbour leaves one back position
wrong (`AbsorbTiles`), which `PointBack` puts right (`PointBackIs`); from these follow `MergeIs` and `CarveIs`, which
say besides that one allocation comes or goes and no other changes. `Dense` is what
the comment in `bmalloc` calls induction, and it is used three times: an arena without an
allocation is one free segment (`EmptyIs`), so that `bfree` sees that it is free; a free segment that is
too small has one in use behind it (`FullIs`), which gives `MapsWhenFull`; and a carve
leaves an occupied segment behind the rest. `IInv` adds that mappings do not overlap and that the list is in
order, so that `bfree`, which takes the last arena not above an address, finds the one that the
address is from (`FoundIs`), and `Busy`. `Keep` is at least 1 in the assumption: the code keeps 3, and with 0
the constructor's empty arena would contradict `InUse`. TLC checked `IInv` in the bounds of `allocator`.

The library's induction theorem cannot be used here (it takes an operator as a parameter);
`Induction` of `DataFacts` is proved from the pigeonhole theorem on finite sets instead, for sets of numbers.

`TlsSocket`: the invariant has the types, `Alone`, `ReadyToReceive`, a relation of
the flags `rfin` and `wfin` to the outstanding call, and `Good`, which
says what OpenSSL's state may be (a flight is awaited during the handshake, a
record begun has a size). The handlers are functions to sets of outcomes, so each has a lemma of
its own about every outcome (`ReadFullGood`, `WriteFullGood`, `HandlersGood`), `ArmGood` is
about arming, and the actions follow from these.

Out of the prover's reach, and left to TLC: liveness and fairness
(`OrphansDeleted`, `IdleReclaimed`, `Reclaimed`, the fairness part of
`KeepsPromise` in `Landing`). Every invariant that a passing
run checks is proved.

## 5. Findings

* `landing_twice`. `on_yield` of `AioLandingHTTP` completes the task for a
  `Timeout` and for a failed child. Both may be reaped in one batch; the
  deletion that the first causes is queued behind the second. The acceptor then
  looks up a task it has erased, gets slot 0, and deletes another connection or
  throws.
* `tls_socket_answered`. `read` and `write` of `TLSSocket` drop the result of the handler.
  When OpenSSL holds the rest of a record larger than the 4096 bytes a read asks
  for (or fails at once), the caller is never answered and waits for its timer.

## 6. Not modelled

* More than one dispatcher thread (`find_target_thread`, deletions on several
  threads): production runs one, and the placement policy reads values that are
  never written.
* Memory behind operations in flight: that a receive writes into the buffer of
  a deleted object is listed as a hazard.
* Two calls of a TLS socket at once, and reads of a whole buffer (`read_all`): nobody
  makes them.
* Objects made with `i_s` in `ThreadData`: there every object has its own
  `IoUringData` and calls only its own children, and that is what
  `CallTargetAliveHolds` is about. `Monitoring` has the one place where a class
  calls its parent's other child, with `CallTargetThere` in `AllOrNothing` for it.
* Threads of their own in `Monitoring`: the speeds a record carries.
* The submission queue's size, time, and the contents of requests and responses.
* What OpenSSL, Boost and the kernel do is modelled from how the code uses
  them, and marked external in `PROJECT.json`.
* Coroutines: `readiness_api_awaitable` never gets its `tdata`, nothing submits the
  queue of `CoEvent`s, so none of that code can run yet.
* The reverse proxy with its token bins: it is not in `CMakeLists.txt` and is written
  against an earlier `Event`, so there is no program to be faithful to. The
  same goes for `readwrite_httpc`, `coro.cpp` and `block_allocator.cpp`.
* Frontend, service files and scripts: not C++, and no state of their own.
* `remove_endpoint` and `get_endpoint_stats`: nothing calls them.

## 7. Plan

Done: the id blocks, the dispatcher, the landing page, the monitor, the TLS
socket, the allocator, the byte stream, the start of the server, the sampler,
the visits, the routes and the thermostat's client, and the two compositions
`LocalSoftware` and `WebService`. Nothing that runs in production is left without a
module but for the items above; a `timers` table apart from `Landing`'s would only
repeat it, and coroutines have to wait until they are finished.

Every invariant and action property of a passing run is proved as well; what TLC alone checks is liveness.
`Landing`'s refinement is proved up to the first task that completes twice; what the acceptor still
keeps after that is in `IInv` (`Tables`, `Ends`, `Orphans`) but not stated as a promise of its own.
