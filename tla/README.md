# TLA+ verification of win-net-test

win-net-test is a set of Windows drivers and libraries that tests of networking
components are written with. This directory holds TLA+ models of its concurrent
parts, the TLC configurations that check them on small instances, and proofs
that the TLA+ proof system (TLAPS) checks for every size.

Paths below are relative to the repository's root (`src/` of the checkout).

## The parts of the system

| Part | Code | State it keeps | Model |
|---|---|---|---|
| Invoke-system relay (isrdrv, isrsvc) | `src/isr` | request queue, two sessions, the pending get | `IsrRelay`, `InvokeSystemQueue` |
| Data filter | `src/common/lib/fnio/filter.c` | two frame queues per filter, a context per frame | `DataFilter` |
| Filter driver: receive path | `src/lwf/sys/rx.c`, pause and restart in `filter.c` | filter list, rundown | `LwfRx` |
| Miniport: shared data path | `src/mp/sys/tx.c`, `rx.c`, `shared.c` | filter list, enqueued frames, rundown, frame pool | `MpShared` |
| Filter driver: life cycle, transmit, status, OIDs | `src/lwf/sys/filter.c`, `default.c`, `tx.c`, `status.c`, `oid.c` | reference count, filter list, injected frames, indication queues, internal requests | `LwfModule` |
| Miniport: exclusive handle, ports, OID filter | `src/mp/sys/exclusive.c`, `port.c`, `oid.c` | owner, port states, pended OIDs | `MpExclusive` |
| Miniport: offloads, MTU, RSS | `src/mp/sys/miniport.c`, `rss.c`, `shared.c` | two offload stores, the MTU, what NDIS was told | `MpConfig` |
| Miniport: adapters and driver | `src/mp/sys/miniport.c`, `dispatch.c`, `src/common/inc/fntimer.h` | adapter list, reference counts, control device, timer threads | `MpDriver` |
| fnsock, kernel mode | `src/sock/km/sock.c` | receive and accept queues, events, send contexts | `FnSock` |
| wskclient | `src/wskclient/wskclient.c` | an IRP, an event and an MDL per call | `WskClient` |
| Frame copy, enqueue and bounce helpers | `src/common/lib` | none of their own | not modelled, except for what `DataFilter` has |
| fnsock, user mode | `src/sock/um/sock.c` | none (one Winsock call each) | not modelled |
| API wrappers | `inc/fnmpapi.h`, `inc/fnlwfapi.h`, `inc/fnioctl_*.h` | none (one IOCTL each) | not modelled |
| Packet helpers | `inc/pkthlp.h` | none (byte-level functions) | not modelled |
| Functional tests, cxplat, scripts | `test`, `tools` | - | not modelled; read as statements of intent |

How they interact: tests call the API wrappers, which send IOCTLs on handles of
the fnmp (miniport) and fnlwf (filter) drivers. Both drivers keep a list of data
filters, one per handle; both hold the frames a filter matches with the help of
the fnio library, and both must give every frame back before NDIS pauses them.
A timer thread per adapter, the watchdog, takes back what a client has held for
too long. isrdrv is independent: kernel-mode tests send it commands that the
user-mode isrsvc runs. fnsock in kernel mode is built on wskclient.

`PROJECT.json` lists the components with their status, the lines each
definition models, the runs, the mutants that show that each checked property
can fail, the hazards of the code, and the theorems.

## Conventions

* A section under a spin lock, together with code only its own thread can see,
  is one action. What a thread does after dropping the lock is a later action of
  that thread; the thread's program counter is part of the state.
* Variables and actions have the names of the statics, members and functions
  they stand for. An action whose function spans several atomic pieces has its
  later pieces named after the call made there.
* Definitions with an underscore suffix (`WskWaitForIrpCompletion_NoWait`) are
  faulty variants of the definition that follows them. No specification uses
  them; each shows that some property would catch that fault.
* A failed `ASSERT` is recorded in a variable or stated as an invariant.
* `TypeOK` documents the state of a module. It is proved where there are proofs;
  the runs spend their time on the properties below.
* One run per module checks its safety and its liveness properties together.

## Invoke-system relay: `IsrRelay`

The driver accepts one client session and one service session. A submit
(`ClientIrpSubmit`, `RqClientPushRequest`) numbers a request, queues it and, if
the queue was empty, calls `ServiceRequestAvailable`, which completes a pending
get. The service thread loops: `ServiceIrpGet` pops a request or pends;
the command runs; `ServiceIrpPost` completes the client's IRP through
`RqServiceCompleteRequest` and `ClientRequestComplete`.

State: `queue`, `clientReg/Run/Ref` and `serviceReg/Run/Refs` (the two
registrations and their rundown protection), `submit` (where each submit call has
got to), `output` (the result its IRP completed with), `pendingIrp`,
`pendingRequest` and `completing` (service.c), `getCancel`, `getRoutine`,
`canceling` (the cancellation protocol of the get IRP, which belongs to the I/O
manager), and the stage of the service thread `svc` with its stop control.

The environment: the I/O manager sends a close only when no other IRP of the file
object is outstanding, unloads the driver only when no file object is left, and
cancels the pending IRP of a terminating thread. The service can be told to stop,
can be terminated at any point of its user-mode code, and can be started again.

Abstract specification: `InvokeSystemQueue`. Commands wait in order, are taken
one at a time and are answered at most once. `IsrRelay` implements it with
`waiting <- queue`, `taken <- {pendingRequest, completing}` without NULL, and
`answered <-` the requests that have an output (property `PromiseSpec`).

Run `isr` checks `NoLostWakeup`, `RequestsConserved`, `GetCompletedOnce`,
`PromiseSpec`, `EventuallyAnswered` and `CloseCompletes`: with submits, stop,
cancellation, termination, restart and unload interleaved, no wake-up and no request
is lost, no request is handled twice, a get IRP is completed by its waker or by its
cancel routine and never by both, every submit is answered or refused unless the
service is stopped or terminated, and closing either session never blocks for good.

`ClientIrpSubmit` marks the client's IRP pending after it has queued the request, and
a comment (client.c:76) admits the race: an IRP the service completes before that is
completed as not pended, while the driver returns `STATUS_PENDING`. The model lets
such a submit end in the stage `hung`, and `EventuallyAnswered` excepts that stage and
nothing else. A client that hangs never closes its handle, and when the bounded
requests are used up nothing may be left to do; this is why the run does not look for
deadlocks.

Bounds: 2 requests, 1 stop and 1 termination. Two requests let one wait or be
pushed while the other is with the service; one stop meets every stage of the
service thread. The proofs lift the safety results to any number of each.

Fairness: weak fairness of the service thread, of each submit call, of the cancel
routine and of the stop handler: threads that can run do run and a command
terminates. Nothing forces a client to submit or close or the service manager to
act.

Three things the model shows and no property excludes. `ServiceRequestAvailable`
clears `PendingIrp` even when the cancel routine has been taken, so the
`NT_ASSERT` of `ServiceCancelGet` (service.c:38) can fail. A late wake-up can find
the queue empty (service.c:81). A request the service had taken when it was
terminated stays in `PendingRequest`, and a restarted service is refused every
get. The model goes on as a free build does.

## Data filter: `DataFilter`

Operators without state, shared by the two drivers as the fnio library is. A
filter is a record of whether it is set, the set of frames its pattern matches,
the queue of captured frames (`NblQueue`) and the queue of frames the client has
dequeued (`NblReturn`). Bytes of frames and patterns are abstracted to the set of
frames that match. A frame's context is `"none"`, `"fresh"` or `"old"`, which is
what the watchdog's grace period distinguishes. The flush operators take and
return an accumulator, as the C functions append to a caller's NBL queue;
its field `ok` records that no context was found missing.

## Filter driver receive path: `LwfRx`

Actions: `FilterReceiveNetBufferLists` takes one rundown reference for each frame
of a chain or, when the rundown has begun, passes the chain on unfiltered;
`RxFilterNbls` is its lock section and releases the references of the frames no
filter took; `RxIndicateChain` indicates those. A context allocation may fail for
any frame, which lets the next filter try (`Capturers`). `RxIrpFilter`,
`RxIrpClearFilter`, `RxIrpDequeueFrame`, `RxIrpFlush` and `RxCleanup` are the
operations of a handle; `RxWatchdogTimeout` is the walk of the timer thread;
`RxCompleteNbls` indicates and then releases, in two steps. `FilterPause` begins
the rundown and `FilterPaused` is the return of the wait.

Several client threads may use one handle at a time; a close comes only when no
IOCTL of that handle is in progress.

Run `lwf_rx` checks `RundownExact`, `PausedHoldsNothing`, `NblsConserved`,
`PauseCompletes` and `HeldFrameReturned`: the rundown count is exactly the frames
the driver answers for, no frame is lost, linked twice or left behind by a pause,
and a client that never flushes cannot block a pause, thanks to the watchdog.
`lwf_rx_watchdog_assert` is a finding, see below.

Bounds: 2 frames, 2 handles, 1 client thread and 2 receive threads; filters match
all frames or one. Two frames are enough for a chain split between two filters, a
frame held while another passes, and a queue with a head and a rest; two receive
threads for two receives around a pause. With two handles the failing assertion of
the finding can occur; it stops the system, and the liveness properties allow for
that.

Fairness: threads inside the driver keep running; the wait returns once the
references are gone; time passes and the timer fires. Clients, NDIS and the
miniport below owe nothing.

## Miniport shared path: `MpShared`

The transmit half mirrors `LwfRx` with the direction turned: NDIS sends, a filter
holds, and the frame is completed to NDIS. The receive half is the frames a client
enqueues (`SharedIrpRxEnqueue`), flushes to the protocols (`SharedIrpRxFlush`,
which empties the queue and only then asks for rundown references) and gets back
(`MpReturnNetBufferLists`, or at once for a low-resources indication). Both
halves share one rundown. `MiniportHalt` may come while handles are open; the
adapter with its frame pool is freed with its last reference (`AdapterFreed`).
Failing allocations of enqueued frames change no state.

Run `mp_shared` checks `RundownExact`, `NblsConserved`, `PoolOutlivesFrames` and
`SendCompletes`: the same for both directions at once, and no enqueued frame
outlives its pool; every send is completed whatever the clients do.

Bounds: 2 sent frames and 1 enqueued frame, 1 handle with 2 client threads, 1 send
thread; the pattern matches every frame, and whether the filter captures one is
still open, since an allocation may fail. One handle keeps the watchdog's assertion
out of reach, so liveness is stated without an exception; the list of several
filters is the business of `LwfRx`, whose code is the same. Fairness is that of
`LwfRx`, and the protocols return the frames they were given.

## Miniport exclusive handle: `MpExclusive`

One open of the exclusive handle owns the adapter's NDIS ports and its OID filter.
State: the owner (`UserContext`), the state of every handle, `PortList` with the
state of each entry, NDIS's own view of the ports (`ndis`), the filter keys, the two
lists of pended requests, the requests NDIS waits for (`outstanding`), and for every
thread what it still has to do after it dropped a lock. Every call into NDIS that
the code makes outside its lock (allocate, activate, deactivate, free, complete) is a
step of its own and may fail where the code handles a failure. A second open is
refused and then runs `ExclusiveCleanup`, which clears ports and filter of the
adapter whoever owns them; the model has that.

Run `mp_exclusive` checks `OidsConserved`, `EntryOutlivesCall`, `PortsMatchNdis`,
`OwnerLeavesNothing` and `PendedCompletes`: a pended request is completed exactly
once by user mode, the watchdog or the close, and in the end; a port entry is not
freed under the thread that uses it; the list agrees with NDIS; a closed handle
leaves nothing behind. `mp_port_assert` is a finding. The assertion that fails there
stops the model.

Bounds: 2 handles, 2 client threads, 2 ports, 2 requests of the direct interface
(one waits behind the other) and a regular one (so both lists are in use at once), one
set of keys. Fairness: threads inside the driver, the NDIS calls they make, time and
the timer. Neither clients nor NDIS owe anything.

## Miniport configuration: `MpConfig`

The offload stores, the MTU and what NDIS was last told of each. A change is made
under the lock (`MpSetOffloadParameters`, `MpReadOffload`, `MpProcessSetOid`), the
snapshot is taken under it again (`FillOffload`) and indicated without it
(`MpIndicateStatus`); the MTU is changed under no lock. `MpSetRss` gives the
`RssQueues` their processors and hashes from the table NDIS sets. `MpFillOffload` is
translated with its quirk: the RSC flag of IPv6 follows the field of IPv4. A parameter
value that the headers do not define reaches `ASSERT(FALSE)` (miniport.c:593, 622); a
free build goes on and leaves the field alone, and so does the model.

Run `mp_config` checks `AloneAgrees`: a change that succeeds and overlapped no other
leaves NDIS told what the adapter has stored, also after earlier changes raced or
failed. What NDIS was told is read by `Tells`, a definition of its own that looks at the
indicated structure member by member: the directions of each checksum, the maximum
size of each segmentation offload, the RSC switches. It does not go through
`MpFillOffload`. It leaves out `Rsc.IPv6` when the two RSC switches differ, where the
code tells NDIS something else than it stored (miniport.c:531). Overlapping changes,
and a failed read of the registry, which zeroes the store and indicates nothing, can
leave NDIS with the older state; the code says as much (miniport.c:706), and
`AloneAgrees` says from when on the two agree again.

`RssFollowsTable` compares every step of `MpSetRss` with a reference definition that
looks at the table only. A table with more processors than the code has room for is a
step that changes no queue.

Bounds: one offload field of each kind and both RSC switches, three parameter
structures of different revisions, one of them with an undefined value, a registry
with nothing, zeroes or a value out of range, two MTUs, two clients and the OID thread,
with symmetry of the clients; two RSS queues, a limit of three processors, and three
tables with more, fewer and too many processors, one of which names one twice. No
liveness: nothing waits.

## Miniport life cycle: `MpDriver`

Adapters from `MiniportInitializeHandler` to the last reference, the list an open
searches, the handles, the control device with its count, and the timer thread of
every adapter, with the failures of each step of the initialisation. A thread is
named after the interface or the handle it works for.

Run `mp_driver` checks `ReferencesCounted`, `NothingDangles`, `DeviceMeansMiniports`
and `UnreferencedIsFreed`: counts are exact, nothing refers to freed memory, also when
the last reference goes while the timer thread is in the watchdog, what is in the
adapter list has its miniport, and an adapter without references is freed.
`DeviceMeansMiniports` is the comment at dispatch.c:227, that the control device is
there only while miniports are: it is, as far as no creation of an adapter has run out
of memory. `MpCreateAdapter` then keeps the device reference it has taken
(miniport.c:117), the device stays for good, and the driver cannot be unloaded.

`stopped` says that the system has stopped: at a failed assertion, or at the `NULL`
timer that `FnTimerCreate` destroys when it has no memory for one (fntimer.h:103). The
properties speak of the time before.

Bounds: 2 interfaces, 2 handles, memory for 2 adapters (reused, so a stale pointer
would meet a new adapter), 1 such lost reference. Fairness: threads in a teardown
and timer threads.

## Filter module: `LwfModule`

A filter module from `FilterAttach` to its last reference, and again. `filter` has
the fields of the `LWF_FILTER`s, two rundowns among them; `where` says who has each
frame; `oid` and `passed` are the internal and the passing OID requests; `status`
and `statusList` the status filters. Receiving is `LwfRx`; the two share no state
but the pause, which waits for both.

Run `lwf_module` checks `PausedIsQuiet`, `FilterAlive`, `QueueBelongsToFilter`,
`HandlersReturn` and `OidAnswered`: a paused module has no frame below it, a filter
is freed once and not while anyone uses it, an indication belongs to the filter it
was queued under, and pause, detach and OID requests end.

`OidAnswered` says that the thread of an internal request is answered once the drivers
below complete it. It would not notice a thread that returned while NDIS still had its
request, which is on the stack; that the wait is made is in the action. The model lets
a pended request outlive the detach, which NDIS excludes according to oid.c:244, so it
has more behaviours than the code there. `FilterAttach` fails in every way but one: the
missing memory for its timer, which stops the system as in `MpDriver`.

Bounds: 2 filter memories (attach, detach, attach with a handle left over from the
first), one handle that injects and submits OIDs and one that filters status, one
injected and one foreign frame, one passing request, two status codes, a queue of
one. Fairness: threads inside the driver, and the drivers below complete what they
were sent. NDIS and clients need not call.

## fnsock in kernel mode: `FnSock`

Sends are fired and forgotten, and their contexts collected until the close. Data
and connections WSK indicates are queued under a lock; a receive or an accept takes
from the queue, or waits once for an event and looks again. `binding` is the
`FNSOCK_SOCKET_BINDING`, `wsk` the provider's side (external). The synchronous calls
of wskclient succeed or fail by choice: that they return, with the outcome, is what
`WskClient` is about.

A socket whose close fails is part of the model. `WskCloseSocketSync` fails when it
gets no IRP (wskclient.c:718); `FnSockClose` traces that and frees the binding, and WSK
keeps the socket (`life = "abandoned"`), whose next callback would run in freed memory.
That callback, a failed assertion and a `NULL` socket in use end in `Fault`, after which
nothing happens. WSK may indicate an accept without a socket; the code asserts that it
does not (sock.c:1327), and a free build goes on with the `NULL` one.

Run `fnsock` checks `ContextsAlive`, `SendsAwaitedAtClose`, `InOrder`,
`ConnectionsOwned` and `CallsEnd`: bindings outlive the sockets WSK indicates on, but
for those WSK could not be told to close, a socket is closed after its sends have
ended, data stay in order and are received once, a connection has one owner, and
every call that owes its caller an end has one. `fnsock_receive_waits` is a finding.

Bounds: one created socket (datagram, stream or listening) and one accepted connection,
2 threads, 2 data and 1 send on one socket at a time. Two data are what the order and
the event that is never reset need. Fairness: threads inside a call; the provider
completes sends and leaves its callbacks. A close need not fail, and nothing obliges
the provider to indicate anything.

## wskclient: `WskClient`

Every function is one protocol around an IRP, an event and, for some, an MDL. A
call's record says where it is, who has the IRP, whether it was pended, cancelled and
completed, and what it returned; `kind` is what the later steps must remember of the
function. The provider (external) completes inside the call, before or after it
has returned `STATUS_PENDING`, or only when the request is cancelled or its socket is closed.

Run `wskclient` checks `ProviderUsesLiveMemory`, `ResultIsOutcome`,
`TimedCallsReturn` and `CompletedCallsReturn`: memory outlives the provider's use of
it, the result is the outcome even when a completion races the timeout and the
cancel, and waits end. A `"timeout"` is reported for a request that was cancelled after
its wait had expired, or whose socket was closed under it: the code takes every
`STATUS_CANCELLED` for its own timeout (wskclient.c:527), and `cancelledBy` tells the
two apart. The functions that cancel report nothing, so a connection that was accepted
just before `WskAcceptCancel` is dropped without being closed. A send that fails
although a number of bytes was expected fails an `ASSERT` (wskclient.c:1005), which
stops the model.

Bounds: one caller and one thread that closes the socket, a buffer of one byte
(transferred or not). Calls do not share state, so a second caller adds nothing; the
proofs are for any number. Fairness: threads inside a function, timeouts, and the
provider completes a request that was cancelled. It owes no other completion.

## Findings

Each is a run that TLC ends with a counterexample to what the code, or a document
or test beside it, says.

* `lwf_rx_watchdog_assert`: with two expired filters, the watchdog's second flush
  frees the contexts of the whole queue again and meets the frames of the first;
  `ASSERT(Context != NULL)` (fnio filter.c:31) fails. The miniport's watchdog
  (mp tx.c:182) has the same loop. After a failed assertion both models stop, so
  the passing runs say nothing about a release build continuing past it.
* `mp_port_assert`: an exclusive open that is refused because the adapter has an
  owner still runs `ExclusiveCleanup`, and with it `MpPortCleanup` on the owner's
  ports. While the owner is between the two lock sections of an activation or a
  deactivation, the assertion on the port's state (port.c:408) fails; otherwise
  the owner's ports are freed under it.
* `fnsock_receive_waits`: `RecvEvent` and `AcceptEvent` are notification events
  that are set and never reset (sock.c:210, 206), so only the first receive on a
  socket waits. A later one that comes before its datum fails at once. In user
  mode, which docs/fnsock.md:3 says the same API covers, every receive waits, and the
  tests receive twice on one socket (tests.cpp:1364, 1382).

The models also reach disagreements that no run is spent on. In the relay:
`NT_ASSERT(Irp == PendingIrp)` (service.c:38) after a cancel routine was taken,
`NT_ASSERT(NT_SUCCESS(Status))` (service.c:81) when the service took the request
before the waker ran, a stop between the test of `Stopping` and the get, which
cancels nothing, a request left in `PendingRequest` by a terminated service,
for which its successor is refused every get, and the client whose IRP is completed
before it is marked pending (client.c:76). In the miniport: the device reference that
a failed `MpCreateAdapter` keeps (miniport.c:117), the timer that `FnTimerCreate`
destroys although it is `NULL` (fntimer.h:103), and `Rsc.IPv6`, indicated by the switch
of IPv4 (miniport.c:531). In fnsock and wskclient: the binding freed under a socket
whose close failed (sock.c:331), the timeout reported for a closed socket, and the
accepted connection that `WskAcceptCancel` drops. The properties except exactly these
cases, each where it is stated.

## What is proved

The proofs hold for every value of the constants that satisfies the named
assumption. Each goes through an inductive invariant, since none of the properties
is inductive alone; TLC checks the theorems with a property of a run on the small
instance as well.

`IsrRelayProofs`, for all `MaxRequests`, `MaxStops` and `MaxCrashes` in `Nat`
(`RelayAssumption`):

* `TypeCorrect`: `Spec => []TypeOK`;
* `InvariantHolds`: `Spec => []IInv`, from which follow `WakeupNeverLost`,
  `NoRequestLostOrDuplicated`, `GetIrpCompletedOnce`, `PostNeverDereferencesNull`,
  `PendingIrpNeverDangles`, `DeregisterMeansQuiet` and `UnloadFindsNothing`; the
  last four state properties that no run checks;
* `RelayImplementsQueue`: `Spec => PromiseSpec`, the refinement of
  `InvokeSystemQueue`.

`NoLostWakeup` needs to know that a pending get excludes a request in work, which
is `ServiceInv`: the stage of the service thread fixes `pendingRequest`,
`completing` and the cancel state of the get; `GetCompletedOnce` follows from the same
part. `RequestsConserved` must exclude the
branch of `RqServiceCompleteRequest` that drops a request because no client is
registered; that needs `SessionInv`: a client session with an IRP in progress is not
closed, so while a request is unanswered its client is registered and not being run
down. `SessionInv` also says that rundown references are held exactly by the
threads inside a callback, which gives `DeregisterQuiesces`. `SubmitInv` says that
ids are fresh and only pushed requests have an output, so a push adds a new element
to the queue.

`MpConfigProofs`, for any clients, stores, parameters, registry contents and MTUs
(`MpConfigAssumption`): `NdisAgreesAfterLoneChange`, that is `Spec => []AloneAgrees`. The
invariant says that a call marked alone is the only one in progress, that what it is
about to indicate is what `MpFillOffload` makes of the store, and that NDIS has this of
every topic whose last change was clean (`CleanIsCurrent`). A second invariant,
`StoresValid`, says that every stored state is one of its enumeration, through
parameters, registry and failed reads; with it the lemma `FillTells` shows that what
`MpFillOffload` makes tells the stored state.

`MpDriverProofs`, for any finite sets of interfaces, handles and adapters
(`MpDriverAssumption`): `TypeCorrect`, `CountsAreExact`, `NoDanglingAdapter` and
`DeviceGoesWithMiniports`. The invariant says of every live adapter that it either has
holders, whose number its count is, or one thread that destroys it; and that a
listed adapter has a miniport running on it, so a reference is never taken on a
count of zero. `DeviceGoesWithMiniports` needs that the count of the device is the
number of live adapters, of creations under way and of lost references.

`LwfModuleProofs`, for any finite sets of handles and frames and any filters,
requests and codes (`LwfModuleAssumption`): `PausedModuleIsQuiet`,
`FilterOutlivesHolders` and `QueuesBelongToFilters`. `PausedIsQuiet` needs that the rundown is open only for
the filter the NDIS thread runs, so a flush adds to the count of that filter and
while it runs; `FilterAlive` needs that a listed filter is held by NDIS and that a
filter being freed has no holder and one thread that frees it. `QueueBelongsToFilter`
needs that the list names a handle at most once: `StatusCleanup` and
`StatusIrpFilter` unlink one entry, and a second one would stay behind.

`MpExclusiveProofs`, for any sets of handles, clients, ports and requests, any keys
with their interface and any filters (`MpExclusiveAssumption`): `OidsConservedAlways`,
`EntryOutlivesCallAlways`, `PortsMatchNdisAlways` and `OwnerLeavesNothingAlways`, each
from `Invariance`, that is `Spec => []IInv`. `IInv` has four parts beside the types.
`OidInv` says that what the lists and the threads hold is each outstanding request,
once, and that no filter means empty lists, since the flush that clears the filter
takes them whole. `PortInv` ties a port's state to its place in the list and to NDIS's
view, where an allocated port that is not listed is in the hands of the thread about
to insert it. `ThreadInv` says what a thread's place in the code tells of its port and
its handle, and that no two threads are at one port. It needs the state names
(`activating`, `deactivating`) that the code uses to keep two IOCTLs apart, and it
holds past the refused open's `MpPortCleanup` only because the assertion of that
function stops it at a port in transit. `OwnInv` says who the owner is and that ports
and filter are an owner's. The proof sorts the steps by what they leave alone, so that
a step of the OID filter need not be argued against the ports.

`FnSockProofs`, for any sets of sockets, connections and threads and any bounds on
data and sends (`BoundsAssumption`, `NoBindingAssumption`): `ContextsAliveAlways`,
`SendsAwaitedAlways`, `InOrderAlways` and `ConnectionsOwnedAlways`, again from
`Invariance`. `Sound` relates one binding to the provider's socket: sends in progress
are in the list the close waits for, the queued data increase and lie between what
was received and what was indicated, and a connection nobody has accepted has no
callbacks; of a socket that was abandoned it says that its sends have ended and that its
binding is free or being closed.
`QueueInv` says that the accept queues hold exactly the queued connections,
each once; it is what makes the accept that takes a connection, and the close that
flushes the rest, its only user. `ThreadInv` says in which state a binding is while a
thread uses it and that an accept or a close has its binding to itself.

`WskClientProofs`, for any set of calls and closers among them and any buffer
length above zero (`ClosersAssumption`, `LengthAssumption`): `TypeCorrect`,
`MemoryOutlivesProvider` and `OutcomeReported`. Calls share
nothing but the provider, so the invariant is one predicate of a call, `CallInv`:
who has the IRP at each point, that a call that waits was pended, and that the event
is set only for a completed IRP.

## What is only model-checked

* All liveness properties: the proof system does not do fairness and `ENABLED`.
* `LwfRx`, `MpShared` and `DataFilter`: the watchdog's walk over the filters is a
  recursive function, and what it computes for every list would need induction over
  data.
* `RssFollowsTable` of `MpConfig`: the reference definition counts over the table and
  the code's loop is a recursive function, so this too is induction over data.

## What is not modelled

* The contents of frames, commands, OIDs and patterns; the layout of IOCTL
  buffers and the probing of user memory; formatting and tracing. A pattern is the
  set of frames it matches.
* The helpers that copy, enqueue and bounce frames, the packet helpers, and the
  table of the OIDs the miniport answers from constants: sequential code on bytes
  and constants, which tests reach well.
* fnsock in user mode and the API wrappers: one system call per function.
* `DriverEntry`, unload and dispatch of the filter driver; device creation and
  registration with NDIS and the I/O manager, except for the order of calls they
  guarantee.
* The composition of `LwfRx` and `LwfModule`: both have the pause, each with the
  references of its own side, so the single rundown they share is checked once
  for captured and once for injected frames. A reference of one side is released only
  by that side, so the sum is zero exactly when both are.
* The timing of the watchdog: it may run at any time, which covers every interval.
