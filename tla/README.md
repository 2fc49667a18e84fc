# rsbinder in TLA+

A verification development for rsbinder, the pure-Rust implementation of
Android's Binder IPC. It models the parts of the library, of its service
manager and of its AIDL compiler that have state to get wrong: reference books,
caches, pools, sessions, streams, parcels, symbol tables. TLC checks the models
on small instances; TLAPS proves the main results about sessions, handshakes,
lookups and counters for every size.

## The system

rsbinder has two stacks below one object model (`SIBinder`, `IBinder`,
`Parcel`): the kernel's binder driver, and an RPC protocol over sockets. An AIDL
compiler generates proxies and services for both. `rsb_hub` is the service
manager of the kernel stack.

| Part | Source (`rsbinder/src/` unless said) | What is hard | Module |
|---|---|---|---|
| Native reference counter | `ref_counter.rs` | revival between the last decrement and the re-arming of the sentinel | `RefCounter` |
| Proxy cache, death recipients | `process_state.rs`, `proxy.rs` | lookups in three phases racing obituaries; handles that name another node later | `HandleCache` |
| Published natives | `process_state.rs`, `binder_object.rs`, `thread_state.rs` | parcels and the driver keep one entry alive, from several threads | `PublishedNatives` |
| Thread state | `thread_state.rs` | transactions nested inside waits, calling identity, error replies | `KernelCalls` |
| Thread pool | `process_state.rs`, `thread_state.rs` | the driver's idea of the pool against the pool | `ThreadPool` |
| Proxy accounting | `proxy_count.rs` | watermark events, callbacks that create proxies | `ProxyCount` |
| Service manager | `rsbinder-tools/src/bin/rsb_hub.rs` | callbacks outside the lock, sweeps of the dead, the poller | `ServiceManager` |
| Service manager clients | `hub/*` | waiting without lost notifications, accessors, the shared proxy | `ServiceLookup` |
| Lazy services | `lazy_service.rs` | unregistering against new clients | `LazyRegistrar` |
| Session lifecycle | `rpc/lifecycle.rs` | attaching while the last connection leaves | `SessionLifecycle` |
| RPC server | `rpc/server.rs` | late attaches, check-then-add bounds, silent peers, shutdown | `RpcServer` |
| Handshake and set-up | `rpc/wire_android13.rs`, `rpc/session.rs` | peers of different versions and modes | `RpcHandshake` |
| Connection pool | `rpc/session.rs` | slots retired under waiters, lost wakeups | `ConnPool` |
| Calls nested on a connection | `rpc/session.rs` | replies carry no transaction id | `NestedCalls` |
| Reference books | `rpc/state.rs`, `rpc/session.rs`, `rpc/proxy.rs` | receipts and releases on different connections, failing sends | `RpcRefs` |
| Oneway ordering | `rpc/state.rs`, `rpc/session.rs` | one worker per connection, order per object | `OnewayOrder`, `OnewayFifo` |
| Wire codecs | `rpc/wire.rs`, `rpc/wire_android13.rs` | two formats, several versions, untrusted lengths | `RpcCodec` |
| Framing | `rpc/transport/*` | partial I/O, descriptors, deadlines in mid-frame | `RpcFraming` |
| TLS transport | `rpc/transport/tls.rs` | two threads share one rustls connection | `TlsDuplex` |
| Parcels: values | `parcel.rs`, `parcelable.rs`, `parcelable_holder.rs`, `macros.rs` | versions, nullability, sized blocks | `ParcelValues` |
| Parcels: objects | `parcel.rs`, `binder_object.rs`, `file_descriptor.rs` | who owns a descriptor or a reference | `ParcelObjects` |
| AIDL constants | `rsbinder-aidl/src/const_expr.rs`, `parser.rs` | promotion, overflow, conversion | `AidlConst` |
| AIDL names | `rsbinder-aidl/src/parser.rs`, `generator.rs` | thread-local tables over two passes | `AidlNames` |
| AIDL sources | `rsbinder-aidl/src/lib.rs` | a work list that grows while it is worked off | `AidlSources` |
| AIDL stubs, permissions | `rsbinder-aidl/src/generator.rs`, `type_generator.rs`, `permission_controller.rs` | proxy and service of different versions | `AidlStubs` |

How the parts meet. On the RPC stack a call claims a slot of the pool
(`ConnPool`), its frame and its reply travel on that slot's stream
(`NestedCalls`) in the format the ends agreed on (`RpcHandshake`, `RpcCodec`,
`RpcFraming`), a oneway carries a number (`OnewayOrder`), the objects in its
parcel are counted (`RpcRefs`), and the worker of a connection joins and leaves
the session (`RpcServer`, `SessionLifecycle`). `RpcNode` composes the references
and the oneway calls of one object, because they meet in the node and in the
send counter. On the kernel stack the commands of `HandleCache` and
`PublishedNatives` reach the driver through the buffers of `KernelCalls`, whose
threads `ThreadPool` spawns; in each module the driver is the environment.

## Modules

Each component has a module with its state as variables and one action per
operation or, where threads interleave, per critical section, atomic
instruction, frame or system call. Definitions keep the names of the functions
they translate; `PROJECT.json` gives the lines. `*Proofs.tla` hold the theorems.

Operators that are a variant of an action with a plausible bug in it (most end
in `Fault`) are used by no specification; they exist to show that a property
can fail.

The `MC` modules instantiate the components. `MCKernel`, `MCHub`, `MCServer`,
`MCWire`, `MCData` and `MCCalls` each hold several components that share no
state. A variable `part`, chosen in the initial state and never changed, says
which component the behaviour explores; the variables of the others keep their
initial (or, where fairness would otherwise ask for a step, their final) value.
The reachable states are therefore the sum of the components' and not their
product, and a property of one component is checked exactly as in a run of its
own. `MCCalls` has `NestedCalls` twice, once through `INSTANCE`, with different
constants. `MCRpcNode` is a real composition: its steps change both components.

Correspondence worth knowing when reading the modules next to the code:

- **RefCounter.** `curr[r]` is the local of `attempt_inc`. There is a single
  atomic word, for which relaxed accesses agree on one modification order.
- **HandleCache.** One handle; `node` numbers the binder nodes it names over
  time. The driver's book of the handle is the record `slot`. A thread is in one
  operation at a time.
- **PublishedNatives.** A task's `nested` and `accepted` are history: they mark
  the races that `process_state.rs` documents as accepted and the properties
  exempt.
- **KernelCalls.** One thread, because the state is thread local; the driver
  keeps the transaction stack and the queue of return commands. `crossed` is
  history: a callee died, or a reply path panicked, under a transaction nested
  above it; the outcome of calls is exempt from then on.
- **ServiceManager.** `main` never starts the thread pool, so the calls are
  served by one thread; the poller and the death thread run beside it. Main
  thread and poller send what they collected under the mutex after releasing it,
  so a client may get two notifications in the other order. It is misinformed
  until the next change, which `excused` marks.
- **ServiceLookup.** A registered service may be an accessor, which every lookup
  follows to the root of an RPC session. A registration wakes the waits for its
  name whatever it registers.
- **SessionLifecycle.** The packed word is a record. `ContractKept` covers the
  debug assertions on the transitions.
- **RpcServer.** A session is named by the connection that founded it. Its
  lifecycle is reduced to the live count, which `SessionLifecycle` justifies. A
  connection may present the id of any session registered so far
  (`AcceptEcho`).
- **RpcHandshake.** A connection is a pair of token streams; a token carries
  the version it was encoded for. A descriptor that reaches a worker waiting in a
  plain read is gone, and `lost` remembers it. `SessionAlive` says that some
  connection of the session is served: once none is, an attach is refused however
  small the fan-out.
- **ConnPool.** `find_conn`'s critical section is split at its read of the
  lifecycle, which changes without the mutex. `then[t]` is the continuation
  after a wait or a notification.
- **NestedCalls.** A stack's bottom frame owns the slot, the others are
  reentrant guards. `client_transact` reads the session's timeout at every
  call, so having a deadline (`Timed`) belongs to a call.
- **RpcRefs.** A member of `Sends` is one object in one outgoing parcel;
  `st[s]` says where its reference is. `Abandon`, `Unread` and `LoseDec` are the
  ways a reference is lost for the rest of the session.
- **OnewayOrder.** `gated` is a call between `dispatch_async_or_enqueue` and the
  second lookup in `execute_dispatched`. `dec_strong_local` may free the node at
  any time (`ReleaseNode`); which references keep it alive is the subject of
  `RpcRefs` and `RpcNode`.
- **RpcCodec, ParcelValues.** Bytes are kept, every length and offset is the
  code's, but a byte has fewer values, so that 32-bit lengths overflow within
  reach.
- **ParcelObjects.** Descriptor numbers are reused as soon as they are closed,
  so closing one twice closes somebody else's. A `ParcelableHolder` read from or
  written to an RPC parcel keeps only its bytes: `append_from` takes objects
  between kernel parcels only (`parcel.rs:1528-1537`). `ObjectsOwned` asks for no
  more there.
- **TlsDuplex.** rustls and the socket are external: records sealed in order,
  control answers queued by the receiving side, a bounded buffer. The ends in
  `Asked` have to answer control records: in the run, both.
- **AidlConst.** The widths of byte, int and long are parameters; folding one
  operator at a time over all values of narrow types covers chains of any
  length. The reference is exact integer arithmetic.
- **AidlNames.** The reference is lexical scoping. `Clear` leaves out programs
  with a name that the global table gives to another declaration, `Repeats`
  those with an array that names a constant twice; both are listed below.
- **AidlSources, AidlStubs.** The references are the closure of the imports and
  the signature of the method called. An interface whose stub rustc rejects counts
  as refused (`StubCompiles`: an `inout ParcelFileDescriptor[]`, for one).

## Runs

Passing runs. The properties conjoin the ones their modules define; the
comments there say what each stands for.

| Run | States | Properties |
|---|---|---|
| `kernel` | 1,280,000 | `CounterSafe`, `HandleRefsKept`, `DeathsReported`, `PublishedWhileNeeded`, `CallsKeptApart`, `Unwinds`, `PoolAsRequested`, `CountingSafe` |
| `hub` | 550,000 | `HubSafe`, `LookupsHonest`, `WaitResolves`, `ExitOnlyIdle`, `RefsBalanced`, `EventuallyFreed` |
| `server` | 430,000 | `LifecycleSafe`, `EventuallyDead`, `ServerSafe`, `BacklogDrains`, `ShutdownEnds`, `HandshakeAgrees`, `SetupEnds` |
| `wire` | 560,000 | `OrderKept`, `ImplementsFifo`, `EventuallyRun`, `CodecsAgree`, `FramesKept`, `RecordsInOrder`, `SendsComplete` |
| `data` | 720,000 | `ValuesAsMeant`, `ObjectsOwned`, `ConstantsAsMeant`, `ResolvesAsMeant`, `OutputComplete`, `StubsAgree` |
| `calls` | 480,000 | `PoolSafe`, `EventuallySettled`, `OwnReply`, `EveryCallReturns`, `MixedAnswersKept` |
| `rpc_node` | 365,000 | `DiscardNeedsDrop` |

Runs that refute a statement of the sources:

| Run | Statement | What the code does |
|---|---|---|
| `rpc_node_stale` | `rpc/state.rs:149-151`: the race "degrades to a single best-effort oneway drop" | `forget_remote_if` removes the send counter while the peer's node keeps its own; every call is dropped as stale until the numbers catch up |
| `nested_deadline` | `rpc/session.rs:1500-1501`: the slot is retired "so the desynced stream is never reused" | a nested call that times out does not retire the slot, and the late reply is taken by the next nested call |
| `nested_crossing` | `rpc/session.rs:1561-1562`: "correct FIFO nesting, no deadlock" | when both ends start an outer call on one connection, each dispatches the other's request inline and the replies cross |
| `obituary_double` | `process_state.rs:902-903`: "a racing double obituary for the same handle is harmless" | the second `BC_DECREFS` takes the pin of the cache entry of the next node that got the handle |
| `aidl_alias` | `rsbinder-aidl/src/parser.rs:418`: "Resolve inside the enum declaration, not through a global member name" | an enumerator that cannot be folded yet leaves its enum as a bare expression and is evaluated in the scope of whoever uses it |

Four constants keep a passing run inside what holds. Set to `TRUE` they admit a
case in which the code does not keep a statement of its comments:

- `Reregisters` (`HandleCache`): a death notification is requested again after
  it was cleared. This is `obituary_double`.
- `MixedDispatch` (`KernelCalls`): a kernel transaction arrives inside an RPC
  dispatch on the same thread. `CallerSeen` fails, because the stamp of the RPC
  dispatch wins over the inner transaction (`get_calling_uid`,
  `thread_state.rs:2032-2034`).
- `LateStart` (`ThreadPool`): a thread joins before `start_thread_pool`.
  `NoLostRequest` fails: a spawn request that arrives before the start is
  ignored and the driver waits for its thread (`process_state.rs:1298-1301`).
  Without it a request is lost only with a spawn that failed or a thread that
  could not send its registration.
- `EnumMixes` (`AidlConst`): an enumerator stands left of a comparison, is
  compared with a bool or with a byte or int too narrow for it, or is an operand
  beside a character. `FoldsAsMeant` fails: the result is not that of the
  numbers. With `E.A` = 300 and a byte of 8 bits, `44 == E.A` holds.

`OwnReply` likewise holds under a discipline: outer calls from the client only,
no oneway, and a deadline on outer calls only. `MixedAnswersKept` holds without
it.

Other differences between a comment or document and the code, met while
modelling. The models follow the code; where a property would fail, it names the
exception.

- `ProxyCountEvent::Limit` may fire again once the count is down to `low`, where
  `proxy_count.rs:43-44` says below it.
- `try_unregister` reads `force_persist` before it takes the mutex, so a
  concurrent request to persist may come too late (`lazy_service.rs:64-71`).
- `get_parcelable` answers `BadValue` for a holder that was filled locally with
  another type, where its documentation says `Ok(None)`
  (`parcelable_holder.rs:140`).
- A wait that `onRegistration` woke returns an accessor as it is
  (`AccessorsFollowed`), where `book/src/rpc-transport.md:472-477` has
  `hub::wait_for_service` follow it and give back the RPC root.
- A client that asks for Unix descriptors of a server without them is not told,
  and its descriptors are lost (`OneSided`), where `rpc/server.rs:1203-1204` and
  `rpc/session.rs:2460-2461` have the write refused. A `GET_FD_MODE` after the
  fan-out loses descriptors on the other connections (`LateFdMode`), where
  `rpc/session.rs:1141-1143` says "A connection never mixes the `Read` and
  `recvmsg` paths".
- Two receivers that flush control answers into full sockets block each other
  (`BothFlushing`), where `transport/tls.rs:314-316` "keeps the reader from ever
  blocking behind a (possibly back-pressured) socket write".
- In AIDL, interface constants share one table by simple name
  (`parser.rs:566-575`, `589-595`), so that a constant may be taken for that of
  another interface, and a field default that has the name of one is refused
  (`Mistaken`). An array that names a constant twice is refused as circular
  (`const_expr.rs:949-956`, `Repeats`).

### Bounds

Every bound is a constant whose comment says `bound`, or a finite set of actors.

- `kernel`: three owners of a counter give a decrement, a revival and a
  bystander, with the real sentinel. Two threads and three deliveries of
  a handle give a lookup, its rival and an obituary in between; one failing
  driver command. A stack of three frames nests a transaction inside a
  call inside a handler. Four threads for a pool of two.
- `hub`: two processes, two services under three names, two of which clients look
  up, one callback of each kind, four calls and
  one failing call; two seekers of two lookups each; two lazy services and two threads; three sends
  of two objects (a proxy, a duplicate receipt and a successor minted while the
  dead one is forgotten).
- `server`: four connections with bounds of 4 clients, 3 connections and 2
  threads are enough to reach every limit and to attach while others leave;
  versions 0 to 3, of which the server implements three.
- `wire`: three calls on three connections overtake each other in every order,
  and a backlog limit of 2 (10000 in the code) is reached. A byte of three
  values. Every cut of up to three frames with one descriptor each. A TLS socket
  that holds one record, two frames of two records and one control record to be
  answered at each end.
- `data`: three schema versions and three hops; three parcels and five
  descriptors; all values of 4, 5 and 7 bits for byte, int and long; two
  documents and a second interface whose names and initialisers vary over about
  3,200 programs (two interfaces never have the same simple name); a file tree of five files in two directories; interfaces of one or two methods.
- `calls`: one caller, three workers and the reaper with a cap of 2 of 3 slots;
  six calls up to depth six; four calls in the mixed instance.
- `rpc_node`: two sends, three calls, two connections, with symmetry over all
  three; only an invariant is checked, for which this is sound.

### Deadlock and fairness

Deadlock is checked in `calls`, where the pool has a proper end which the
specification names (`Settled`). The other runs stop when their bounds are used
up, so it is off; that nobody is stuck is stated there as liveness.

Fairness is weak throughout and covers only a thread that can go on: it is what
an operating system's scheduler gives. Nobody is required to start a call, to
attach, to register or to send. Beyond that the following is assumed of the
environment:

- `KernelCalls`: the driver delivers what it queued, handlers return and callees
  answer or die.
- `ServiceLookup`: the seeker's own calls return and its re-poll timeout
  expires. Nothing is assumed of the threads that deliver notifications.
- `RpcRefs`: a receiver drops the objects it got in the end.
- `OnewayOrder`: handlers return. `EventuallyRun` is conditional on no
  connection being lost, no number being left as a gap and the node not being
  released.
- `SessionLifecycle`: every peer closes in the end. `RpcServer`: an armed
  deadline expires; peers may stay silent or idle for ever.
- `RpcHandshake`: server workers run on, except behind a preconnected
  descriptor, where only the deadline is fair.
- `TlsDuplex`: both threads of both ends run. `SendsComplete` exempts
  `BothFlushing`.
- `NestedCalls`: handlers of calls without a deadline return. The handler of a
  call with one may hang for ever.
- `ConnPool`: calls end in a reply or an error, and every peer closes its
  connections in the end.

## Proofs

| Module | Theorems | Argument |
|---|---|---|
| `KernelProofs`, RefCounter | `CountCorrect`, `UnderflowFree`, `SentinelRearmed`, `AttemptReliable`, and together `CounterCorrect` | `CountInv` is inductive with `TypeOK`: the word is the number of counted owners, plus the sentinel while somebody is about to clear it. The others follow. |
| `KernelProofs`, ThreadPool | `PoolCounted` and, for a pool started before a thread joins, `PoolAsAsked` | `PoolInv` adds to the counters that at most one thread is owed to the driver at a time (`OneOwed`): a `BR_SPAWN_LOOPER` is in a batch being handled or has become a thread that has not registered yet. `OwedIsComing` says when nobody answers: a failed spawn, a lost registration, a late start. The counters are cardinalities of sets of threads, and each step moves one thread. |
| `KernelProofs`, ProxyCount | `CountingCorrect` | `UidCountInv`: the entry of a uid is at most the number of its counted proxies and, until it is wiped, equal to it. Whoever holds the cache lock has its events pending, so none fires under it. |
| `HubProofs`, LazyRegistrar | `LazyExitsIdle` | `LazyInv` says that an entry without clients was told so since it was registered (`IdleWasTold`); the flip and the test read the same table under one lock. |
| `HubProofs`, ServiceLookup | `LookupsAreHonest` | `seen` is, for a call under way, what stood behind the name since it began. `NewsIsSeen`: what its slot holds, a notification of its generation carries and its cloned providers stand for is in that set. `CallbacksWait` and `CallGoesOn` tie registered callbacks to waits that go on, `StoredIsReturned` gives the one service manager. |
| `HubProofs`, RpcRefs | `TimesSentCorrect`, `OneLiveProxyCorrect`, `NodeKept`, and together `BooksBalance` | `TimesSentInv` is inductive by counting the outstanding sends of each address. With `OneLiveProxy` it gives `NodeOutlivesProxy`: a held proxy is itself an outstanding send. |
| `HandshakeClientProofs` (definitions, client steps) and `HandshakeProofs` (server steps, theorems) | `HandshakeInvariant`, `HandshakeCorrect` | `HsInv` says what may be on the wire. A worker that has read `n` tokens of the handshake finds exactly the rest of what the client wrote (`UpStream`); a slot carries one request or the one reply to it (`Outstanding`). So what a step decodes is what the other end encoded, at the version fixed by the founding connection (`Versions`). `Founds` names why the founding connection may be gone; `Descriptors` says that the mode of every worker is that of the founding while `GET_FD_MODE` is not used (`Steady`), and that a connection that is the only one reads its next token in a mode that fits what is under way (`Alone`). |
| `ServerProofs` | `ServerInvariant`, `ServerCorrect` | `ServerInv` ties the place of a worker to what it holds: the `Arc` of its session (`ArcsHeld`), a slot (`SlotsHeld`), its deadline (`DeadlinesSet`), a share of the live count (`LiveCounted`). Counts are cardinalities of sets of connections, and one lemma says how a move changes them (`MoveSizes`). The overshoot of the cap is bounded because a connection past the check is among those that overlapped with it (`CapHeld`). `SlotsHeld` needs that an unfounded session has no slots, or a founding step would not keep it. |
| `WireProofs`, OnewayOrder | `NumbersCorrect`, `SerialOrder`, `BacklogLimited`, together `OrderCorrect`, and `FifoRefinement` | `NumbersInv /\ SerialInOrder` is not inductive alone: `StageInv` ties each stage to its place and `WireInv` says that a frame is on one wire once. Every step is then a step of the line or a stutter. The backlog grows only by parking, which flushes it at the limit. |
| `WireProofs`, TlsDuplex | `TlsRecordsInOrder` | `TlsInv`: the records on the socket, in a writer's hands and queued in rustls are numbered without a gap from the last one opened, and only the holder of the write lock has records in its hands. |
| `NestedCallsProofs` | `RepliesMatch`, `OneAnswerPerCall` | Under `Disciplined` the two stacks mirror each other, and at any time exactly one of four things is true: a request or reply is on the wire for the top frame, or one end runs. `IInv` is that case distinction. For one answer per call no discipline is needed: `OneCarrier` says that a call is in one place at a time, a message, the frame that serves it or the call that took its reply, and every step moves at most one call. |
| `SessionProofs`, SessionLifecycle | `LiveCountCorrect`, `ObituaryExactlyOnce`, `AntiResurrection`, `ContractsHold`, and together `LifecycleCorrect` | `LiveCountInv` is inductive; a compare-exchange that succeeds saw the current word. A connection that leaves is counted, so the word it meets is Live, and the one that fires the obituaries is alone with Dying. |
| `SessionProofs`, ConnPool | `TypeCorrect`, `ExclusiveUse`, `WakeupsKept`, `CapRespected`, and together `PoolCorrect` | `Core` says that a thread's guards are one owning guard with reentrant ones above it on the same slot, and that `exclusive_tid` names the owner of every slot in the pool. `Control` ties program counters to guards and to the mutex. For the cap: only an incoming connection or a capped push adds a slot, and the former always gives its worker a new one (`MineOld`). |

Where an invariant counts (connections, slots, outstanding sends), the step
lemmas assume the few facts about cardinalities they use as a formula `Counting`,
and a lemma near the end of the module proves `Counting` from the library
(`CountingHolds`, `ConnsCounted`, `SendsCounted`, `SlotsCounted`); no theorem
assumes it.

Assumptions on constants are the named `ASSUME`s: finite sets, distinct
"nobody" values, a sentinel above the number of owners, a backlog limit above
zero, two ends of a TLS connection, caps of a server above zero (its setters
raise a 0 to 1), and protocol versions that are natural numbers
(`HsAssumption`). Two theorems assume more. `RepliesMatch` assumes `Disciplined`;
without it the statement is false, as the two `nested_*` runs show. `PoolAsAsked`
assumes that the pool is started before a thread joins (`~LateStart`), as the
kernel run does; `PoolCounted` is the part that holds either way.

Only model-checked:

- all liveness, which is beyond the prover;
- `OwnReply` with a deadline on outer calls;
- what the recursive definitions compute (codecs, parcels, the AIDL compiler):
  this needs induction over data, which the provers cannot do, and bitwise or
  `div`/`mod` arithmetic (the identity tokens of `CallsKeptApart`);
- invariants that sum or filter over a set or a sequence
  (`HandleRefsKept`, `DeathsReported`, `PublishedWhileNeeded`, `HubSafe`,
  `FramesKept`): what a fold or `SelectSeq` gives after a step is again an
  induction over data;
- `DiscardNeedsDrop`, whose proof is open: it needs the invariants of `RpcRefs`
  and `OnewayOrder` together, under the instances `RpcNode` makes of them.

## Not modelled

- Weak memory: accesses are sequentially consistent.
- RPC: objects that travel back to their owner, several sessions of one process
  at once, frames refused for their length on the sending side, an empty frame
  that carries descriptors, truncated control messages, failing TLS writes, failure of `set_read_timeout` (`rpc/session.rs:1495`, `1568`), the
  content of special transactions other than those of the set-up. Connecting,
  binding and peer identities are system calls.
- Parcels: shared memory, the descriptor that signals a detached
  `ParcelFileDescriptor` (`hasComm`), overwriting in the middle of a parcel.
- AIDL: the grammar, floats, unions and Java-only declarations in name
  resolution, interfaces of one simple name in two packages, one file named in
  two ways (`./A` and `A`, which is parsed twice), fixed-size arrays and maps in stubs, the text of the generated code.
- Service manager: listing, debug information and declared instances, which only
  read; the syntax of names; a service manager that comes back after its death.
- `AcquireFindsEntry` exempts a gap into which an acquire of another thread fell;
  `process_state.rs:276-285` accepts it when its release falls there too.
- Async glue (adapters that run a blocking call on another thread), errors and
  status (conversions without state), the device tools (I/O), and the bindings
  of the kernel ABI (generated).
