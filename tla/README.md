# A TLA+ model of lab-runtime

lab-runtime is a laboratory runtime in Rust. One process owns instruments and
actuators behind serial lines, runs controllers, records to SQLite and serves
clients over a socket. Nearly everything that decides anything runs on one
owner thread, in turns; the adversaries are the devices, the clients, the
storage thread, time and the order in which their answers arrive. This
directory models the parts where that order matters, checks them with TLC and
proves the most important of them with TLAPS.

## 1. The system

Layers, from the devices upwards (`core` is `src/crates/lab-core/src`, `app`
is `src/apps/lab-runtime/src`):

| part | source | state | operations | hard behaviour |
|---|---|---|---|---|
| output authority | `core/output/authority.rs` | one record per actuator: safe profile, state, lease, epoch, pending value, reservation, send in flight, safe obligation, evidence, manual attempt | bind, acquire, renew, release, trip, request safe, acknowledge fault, propose, watchdog tick, simulated send, reservation, start, abort and failure of a physical send, completion, acknowledgement, readback | stale leases and reservations, late or repeated completions, an unknown safe write, exhausted counters |
| resource executor | `core/transport.rs` | ordinary queue, safe slot, one owned transaction or recovery, generation, event queue | enqueue, cancel, poll, protocol failure, shutdown, replace | short writes, excess or missing bytes, retry, recovery deadlines, fences, bounded events |
| physical delivery | `core/runtime/physical_io.rs`, `core/runtime/dispatch.rs`, `core/runtime.rs` | bindings with generations, pending reads and writes, unsettled outputs | queue, handle transport event, readback, rebind, discard, service safety, watchdogs | correlation of late terminals after a rebind, errors in the middle of a batch of events |
| controllers, references, recording gate, signals | `core/control.rs`, `core/runtime/controllers.rs`, `core/reference.rs`, `core/recording.rs`, `core/signal.rs` | controller states and leases, ramps, required-recording progress, freshness of inputs | prepare, start, tick, pause, fail, reset, resume; confirm progress | everything that must fail closed when an input, a lease or the recorder stops |
| managed components | `core/managed.rs`, `core/runtime/managed_components.rs`, `app/managed_executor*` | slots, generations, worker channels | submit, complete, reconfigure, retire | a worker that dies or answers for an old generation |
| host core | `app/host*` | schedule of reads, trackers of recorded facts | poll, record, lifecycle | fairness between resources, facts that wait for credit |
| service | `app/service*` | readiness, reconnect, configuration candidates, shutdown phase | reconnect, stage, apply, shutdown step | procedures of several fallible steps |
| scopes and operations | `app/sessions.rs`, `app/application.rs` | scopes, sequence high-water marks, accepted and ended operations, provisioning credit | hello, detach, admit, complete, expire | repeated identities after expiry and eviction, clients that leave with work under way |
| event log | `app/events.rs`, `app/application/delivery.rs` | ring of events, cursors, subscriptions | append, prepare/commit, scan | a ring that wraps under a slow reader |
| recorder | `app/recorder/*` | ingress credit, receipts, run state, SQLite transactions | start, submit, commit, stop, fail | two threads, a crash between commit and receipt, sticky failure |
| server | `app/server*`, `app/wire.rs`, `app/websocket.rs`, `app/protocol.rs` | connections, bounded queues | accept, read, route, write, close | slow and malformed peers |
| serial adapter | `app/serial.rs` | worker thread, generation, boundary state | write, read, recover, shutdown | a blocking port behind a non-blocking interface |
| formats and files | `core/metakon.rs`, `*/simple_device.rs`, `app/configuration*.rs`, `app/deployment.rs`, `app/definition.rs` | none that outlives a call | decode, validate | sequential |

A value reaches a device like this: a controller or a client holds a *lease*
of the actuator's authority and *proposes* a value; the Runtime *reserves* it
and enqueues the bytes at the resource executor; before the first byte the
executor asks the authority once more (*validate*) and then tells it that the
send *started*, which gives a dispatch id; the answer comes back as a transport
event that the Runtime turns into acknowledgement, readback, completion or
uncertainty of that dispatch. Anything that goes wrong raises a *safe request*:
the epoch advances, the lease is gone, and the safe value of the profile is
owed until it is proved.

What makes each modelled part correct is stated with its properties below;
`PROJECT.json` lists, under `hazards`, the places in the code where it could go
wrong and the property that watches each.

## 2. Modules

| module | models | built on |
|---|---|---|
| `OutputAuthority` | the methods of `OutputAuthority` as operators from one authority record to the next | |
| `OutputPermission` | one actuator: every method called in every order, with every stale token | `OutputAuthority` |
| `OutputAuthorityProofs` | lemmas about each method of the authority, for the two modules that use it | `OutputAuthority`, TLAPS |
| `OutputPermissionProofs` | theorems about `OutputPermission` | `OutputPermission`, `OutputAuthorityProofs` |
| `ResourceExecutor` | the methods of `ResourceExecutor` as operators on an executor record | |
| `ResourceTransport` | one executor between the Runtime and an arbitrary adapter | `ResourceExecutor` |
| `ResourceTransportProofs` | theorems about `ResourceTransport` | `ResourceTransport`, TLAPS |
| `RuntimeControl` | the handlers of `Runtime` over one output, its authority and its resource, as operators on a runtime record | `OutputAuthority`, `ResourceExecutor` |
| `PhysicalControl` | the turns of the owner thread over one such Runtime: clients, controllers, safety service, resource and recorder in every order | `RuntimeControl` |
| `PhysicalControlProofs` | theorems about `PhysicalControl` | `PhysicalControl`, `OutputAuthorityProofs` |
| `SessionStore` | scopes, operations and the clients of the Application | |
| `MCSessionStore` | its instance for TLC | `SessionStore` |
| `SessionStoreProofs` | theorems about `SessionStore` | `SessionStore`, TLAPS |
| `EventLog` | the event log, its projections and its subscribers | |
| `ServerDelivery` | the reactor and the owner of the server, the channels between them, and their end | |
| `MCServerDelivery` | its scenarios for TLC | `ServerDelivery` |
| `RecorderArchive` | the SQLite archive: boots, runs, records, and what each transaction checks and writes | |
| `RecorderWorker` | the recorder handle of the owner, its channel and receipt, and the storage thread | `RecorderArchive` |
| `RecordingHost` | the host and application handlers around the recorder, shutdown, crashes and the next boot | `RecorderWorker`, `DurableLog` |
| `RecordingHostProofs` | theorems about `RecordingHost` | `RecordingHost`, TLAPS |
| `DurableLog` | abstract: an append-only log per process with an acknowledged prefix; implemented by `RecordingHost` | |
| `SerialAdapter` | the owner's handle of one serial port and its worker thread | |
| `ServiceLifecycle` | reconnect, reconciliation, restart, file and phased application, and shutdown over these adapters | `SerialAdapter` |
| `MCServiceLifecycle` | its scenarios for TLC | `ServiceLifecycle` |
| `ServiceLifecycleProofs` | theorems about `ServiceLifecycle` | `ServiceLifecycle`, TLAPS |
| `ManagedExecutor` | the two-slot executor of disposable component workers | |
| `ManagedComponents` | the Runtime's side of the components: staging, stepping, replacement, failure, quiesce | `ManagedExecutor` |
| `ManagedComponentsProofs` | theorems about `ManagedComponents` | `ManagedComponents`, TLAPS |

An operator whose comment begins with "Mutant:" is a deliberately wrong
variant of the definition that follows it. No specification uses it; it
records which plausible slip the property listed with it in `PROJECT.json`
would catch.

### Output authority

The record of `OutputAuthority.tla` has the fields of the Rust struct and of
its snapshot. Values are left out (the code never decides by them, apart from
range checks); evidence is the sequence number of the dispatch it belongs to,
0 for none. A method returns the record it leaves behind, on its error paths
too: where the code changes state and then returns `Err`, so does the operator
(`Exhausted`, `BeginDropsPending`, `ReserveDropsPending`).

In `OutputPermission.tla` each action is one method call at the current owner
time. The Runtime's handlers make several such calls in one turn; the model
lets any other call come between them, so it covers every handler and every
order of handlers. Leases, intents and dispatch ids are tokens: a caller may
present the current one or one that a renewal, a revocation or a rebind has
made stale. `Rebind` replaces the authority by a new instance, as
`Command::RebindMetakon` and its kin do. Two history variables remember
whether the last send was the safe write and whether a safe write ended
unknown.

Properties: `DisarmedIsProved`, and of steps `NoSafeResend` and
`NormalSendIsOwned`. `TypeOK`, `SafePendingHasWork`, `NoResurrection`,
`OneOwner` and `AmbiguousSafeFailsClosed` are proved and need no run.

`NoSafeResend` has a reservation. After an ambiguous safe write `complete`
raises a safe request before it blocks the resend; at the last epoch the request
fails and the block is not set. It takes 2^64 changes of permission to get there.

### Resource executor

`ResourceExecutor.tla` keeps the control of `transport.rs` and counts bytes
instead of storing them. The adapter and the authorizer are the environment:
each poll is given their answers as one record, and `ResourceTransport.tla`
lets every combination happen, including writes and reads of too many bytes.
A poll and the handling of the event it returns are one action, because
`poll_transports` does both in one turn, including the rejection of a response
that the codec refuses (`protocol_failure`). History variables record what was
admitted, how often a request began to be written, what its owner was told,
and whether the line may still carry bytes of an unfinished exchange.

Properties: `Accounted`, `SentOnce`, `StartsAreHonest` (with its parts
`HonestEnd` and `StartNotDenied`), of steps `CleanBoundary`, and the liveness
property `EveryTransactionEnds`. `HonestEnd` is about outputs: a retried
read that misses its queue deadline ends as `QueueExpired` although its request
was on the wire.

### Runtime over output and resource

`RuntimeControl.tla` composes the two modules above as the code does: its
record holds one authority and one executor, and beside them what `Runtime`
keeps itself (the generation of the binding, the pending writes and readbacks
by transaction, the unsettled dispatch, the controllers with their copy of the
lease, the recording gate). A handler is an operator from that record to a
result: the record it leaves and whether it returned `Ok`. `Then` sequences two
handlers the way `?` does, so that an error in the middle of a batch leaves
what was done before it. The operators of the authority and of the executor are used as
they are; nothing is restated.

Of the data, only what decides is left: a controller's input is "bad",
"warming" or "ready"; a response decodes to "match", "mismatch" or
"malformed". With `Physical = FALSE` the output is the simulated plant of the
code. `sent_safe` is history.

In `PhysicalControl.tla` each action is one turn of the owner: a client
command, a controller's cadence, the safety service (`service_safety`, with
its watchdogs, its safe writes and its poll), a poll of the resource with any
answer of the adapter, a step of the shutdown of the resource and its
reconnection with a rebind, and the confirmations, failures, closing and fence
of required recording. `Room` bounds the actions that can be repeated for ever
(`MaxTransaction`); the safety service is not bounded by it.

Properties: `WorkIsCarried` (`ReservationIsCarried` and `InFlightIsTracked`),
`PreparationIsExclusive`, `LeaseHasRunningOwner`, `RecordingIsRequired`
(of steps, with `LostRecordingDisarms`), and the liveness
property `SafeIsServed`.

### Scopes and operations

`SessionStore.tla` models `SessionStore` and, of `Application`, the table of
greeted clients. Every call expires first, as in the code. Which of several
outcomes stored at the same time is evicted first depends on the order of the
map; the model allows each. The set of executed identities and their first
outcomes are history.

Properties: `ExecutedOnce`, `PendingIsKept` (the `expect` calls after an
admission cannot fail for want of a record) and `CreditIsExact`;
`ScopeIsExclusive` and `FirstOutcomeStands` are proved and need no run.

### Event log

`EventLog.tla` models `events.rs` and the part of `application/delivery.rs`
that projects and pumps. Targets are numbers in the order of their keys; the
data of a target is a member of a small set. Targets of prepared devices are
hidden from the queries until a publication commits. After each unit of domain
work the owner observes all targets; a unit may fail before its observation,
and the observation may stop when the log refuses a record. The sequence
numbers that a publication reserved are out of reach of every other record.

Projections do not all read the log. Records of controllers, references and
outputs are the facts of the log (`EventLog::projection_records`). Signals,
components and measurements are read from the Runtime, and stamped with the cursor of the log all
the same: after a unit that failed before its observation they are ahead of that
cursor. `CurrentRecords` and `DiscoveryRecords` keep the two apart. The data of a
signal is its version, which only grows, so that ahead and behind can be told.

A client assembles the pages of a projection, subscribes after its cursor,
applies the events it receives and resumes after its cursor when its connection
is gone. That client is not in the repository: it is the reader that the
protocol is for. All records of the boot, and the facts before them, are
history.

Properties: `ReadersSeeTheRecord`, which is `FactsAreReplay` (what the log
published last is what its records say), `ReplayIsComplete` (a scan returns
every record or reports a gap) and `MirrorIsExact` (the copy of a client is
that of its cursor; of a signal it may be newer, up to what the Runtime had shown,
but never older, and once the log has caught up the two agree); `CommitHasRoom`; and the liveness property `Follows`.

### Server

`ServerDelivery.tla` has the two threads of `server.rs`. The reactor owns the
sockets and a `ClientDelivery` for each peer; the owner has the `Application`
and `OwnerDelivery`. They share two bounded channels and never wait. Each action
is one step of one of the loops, and the steps of the two interleave freely,
which is more than the loops allow. Requests are a message id and a kind:
malformed, hello, query, operation, manual output, shutdown, and the exact
repetition of an operation that has not ended. A reply is final or not. TCP and WebSocket peers differ
in their frames only, and are one kind of peer that may say goodbye, or be lost,
at any moment; this stands for the deadlines too.

The server ends at the request of a client or of the process, or because its
reactor failed (`BeginStop`, `ReactorFails`). From then on nothing new is
admitted, `StopAccept` goes out when its channel has room, and when the service has
its verdict (one step here, `ServiceLifecycle` has the rest) the reply to the
shutdown is offered once (`FinishShutdown`). The final reply is best effort, as
the documentation says; `history.unheard` has those that found the channel full,
and is the first of two exceptions of `IdsAreOwed`. The second are the ids of
repetitions (`history.repeated`): the code answers them "accepted" and no more, and
keeps them in flight (section 4). For 200 ms more both threads go on, and
then `Exit` stops the reactor.

Properties: `RequestsAreAnswered`, which is `RequestsAreKept` (an admitted
request is in a channel, in a queue or answered: the two threads count alike),
`IdsAreOwed` and `RejectionIsLast`; and `ClientsAreConnected` (no client of the
Application and no mark of a close outlives its connection, and there are never
more clients than connections). The rotation of the owner's turns is modelled
(`Batch`, `Turn`), that it starves nobody is not checked.

### Recorder

`RecorderArchive.tla` is one database file: a sequence of boots, each with its
state, its records in `record_seq` order and its runs. A commit is one
transaction, `Accepts` what the code checks before it and `Committed` what it
writes; `OpenBoot` is the recovery that the next process performs.

`RecorderWorker.tla` has the two sides of `recorder/worker`. An owner call is
an operator on the world `w`: the handle (state, identities handed out, credit
charged, reservations, envelopes, the pending generation), the bounded channel,
the shared cumulative receipt and the slots of history jobs. Every owner call
polls first, as in the code, and a poll refuses a receipt that confirms or
releases more than was given. The storage thread is a set of actions between
two of its visible effects: taking and collecting commands, the commit, the
receipt (the crash point in between is a state), reading and publishing history
pages under the lock of the slots, returning and exiting. It may fail, before
and after the commit, and panic.

`RecordingHost.tla` puts the process around it. The owner lane is one thread,
so a handler of the host or of the application is one action, written as a
composition of operators on the pair of `w` and the host record. Where a
handler reads the recorder twice with an effect in between, the action is split
at `host.pc`, because the storage thread runs in between. Starts, stops,
audited commands with their deferred terminals, Reference pairs, annotations,
history reads, live activations, rebind envelopes and shutdown are requests;
`ServiceTurn` is `HostCore::service`. `Reboot` kills the process at any state
and opens the archive again. `captured` (facts of each run) and `promised`
(answered stops) are history.

Properties. In the run of one recorder: `SealedIsComplete`, `GapIsFirstLoss`,
`OperationsArePaired`, `StopIsDurable`, and of steps `PauseKeepsCoverage`. In
the run of credit and crashes: `NothingLeaks` (`CreditIsConserved`,
`ProtectedIsFree`, `PagesHaveReaders`), `PastIsHonest`, and the temporal
`CreditReturns` and `LifecyclesEnd`.

`DurableLog` is what a reader of the archive may rely on, in fifty lines: a
process only appends, an outcome is decided once, the acknowledged prefix is in
the log, and a crash gives the next process a log of its own with every
undecided run interrupted. `ImplementsDurableLog` is `DurableLog` with the
records of the archive as its log, the states of its runs as outcomes and the
owner's confirmed identity as the acknowledged prefix. It is false as soon as a
receipt confirms an identity that is not committed.

### Serial adapter and service

`SerialAdapter.tla` is one `ComTransport` and its worker: a one-slot mailbox, a
one-slot completion channel and the stop flag are all they share. A driver call
that never returns is a worker step that is never taken.

`ServiceLifecycle.tla` has the long operations of `service/*.rs`. Reconnect,
reconciliation of a quarantined output, file application and restart of the
virtual models hold the owner lane and call `host.service()` in their waiting
loops: they are `svc.op` with a program counter, one step per stretch between
two waits. The phased application of a simple device advances one phase per
turn of the main loop (`svc.apply`), so requests, shutdown and other operations
come between its phases. Workers, devices and the storage thread run
concurrently, and a deadline may pass whenever its loop waits. Outputs, probes,
the executor and the recorder are reduced to what these operations read: an
output is pending, started, obsolete (started and superseded), safe or in
fault; the recorder grants, commits or fails an activation generation. `cut`
remembers that an error left an operation through `?`, which does not clean up
(section 4).

Properties: `FenceHolds`, `NothingIsLeftBehind`, `CleanExitIsHonest`, of steps
`PortsAreWatched`, `ReleaseIsEarned`, `EvidenceIsKept`, and the liveness
property `WorkEnds`. `CleanExitIsHonest` speaks of the configured outputs, as the
code does: a success exit with a hidden output under quarantine is possible
(section 4). `RollbackNeverPanics` is a finding.

### Managed components

`ManagedExecutor.tla` is the executor: two slots, each with a worker, a job, a
completion and the record of who waits (`busy`), and the races between a late
answer, expiry, cancellation and the death of the worker. `ManagedComponents.tla`
has one Source and one Transform that reads its signal. An invocation carries
its correlation (generation, attempt, revision) and the lineage of its input;
`PollComponents` expires, completes, fails and ages in the order of
`poll_components`. Replacements are staged through the one staging slot, into
the graph or kept prepared for a batch. A controller is "running on the
signal", no more.

Properties: `NothingRestsOnBad` (`GoodRestsOnGood`, `ControlRestsOnGood`,
`QuiesceIsFinal`) and `AnswersAreOwed`.

## 3. Runs

| run | instance | what it shows |
|---|---|---|
| `output_permission` | one manual and one automatic owner, five epochs and dispatches, two instances, two manual attempts, two units of time | a disarmed output was proved safe, an unknown safe write is not sent again, an ordinary send has its owner |
| `resource_transport` | queue of one, requests of two bytes, responses of one, two transactions, three generations, under fairness | every transaction ends once, honestly and eventually, no output is dispatched twice across retries, no request begins on a dirty line |
| `session_store` | two connections, two live scopes of three, two operations a scope, one pending and one terminal record a scope, one unit of provisioning credit | nothing accepted runs twice, pending records stay, credit is exact |
| `physical_readback` | a device with readback, one manual owner, acquisition reads on the same line, two instances and generations, under fairness | a reservation has a transaction that will end it and a dispatch in flight somebody who will settle it, through every failure, shutdown and rebind; a safe state that is owed is reached or the resource goes offline |
| `physical_controllers` | a device with acknowledgement, one manual owner, one controller, required recording | a warming controller has the output to itself; an honoured automatic lease is the one its running controller holds; lost recording takes control down and no ordinary write starts without fresh confirmation |
| `event_log` | a signal of a prepared device, read from the Runtime, and a visible target of the log, three versions of the signal, one client, discovery and measurement projections, a ring of two, three sequence numbers, scans of two, offers and pages of one record, a queue of two events, under fairness | the log agrees with its records up to the last sequence number, a publication always has its room, the copy of a slow client is that of its cursor, or of signals newer, through gaps, drops and resumptions, and it reaches every matching record while it stays |
| `server_delivery` | one place, channels of two, two requests and three message ids, one operation; scenarios of two connections one after the other, with operations submitted again while they run, with late answers to manual outputs, and with the end of the server | every admitted request is kept and answered, clients are those connected |
| `recorder_run` | a Required recorder with three ordinary groups and four records, two facts of the Core, an outbox and a tracker of one, two request identities, three requests (start, stop, pause, write, shutdown), one fault | what a sealed run, a gap, a paired operation and an answered stop promise |
| `recorder_credit` | two ordinary groups and records, one Reference pair, one history slot, two requests over two boots (start, Reference, rebind, annotation, history, apply, shutdown), one second, under fairness | credit is conserved and returns, the past stays honest, the archive implements `DurableLog`, lifecycles are answered |
| `service_lifecycle` | two resources, one native with an output and one virtual that is the candidate, up to four adapters, eleven scenarios of one or two requests and up to two faults, under fairness | fences, left-overs, evidence and ports over every pair of lifecycles that can meet, and that each of them ends |
| `managed_components` | a Source and a Transform, two generations, two units of time, five jobs, one dying worker | nothing rests on a bad sample, every awaited answer is owed |
| `rollback_panic` | the instance of `service_lifecycle` | a finding: the cleanup of a published candidate panics |

Bounds. Five epochs and dispatches allow a full cycle (safe request, safe
write, acquisition, normal write, fault, safe write) and then exhaustion, so
both the ordinary life of an output and the end of its counters are reached;
two instances suffice for stale tokens of an older one. Two bytes are the
least that can be written short. Two transactions with a queue of one allow
one that is executed and one behind it or in the safe slot; three generations
let a late answer of an old one meet two replacements. Three scope ids with two live ones
allow an expired scope to be followed by new ones; one terminal record makes
every second completion an eviction; time runs to three with lifetimes of one
(outcomes) and two (idle scopes), so that each expires before, with and after
the other. Connections and outcomes are symmetric.

The runs of `PhysicalControl` keep requests and responses at one byte, because
short writes are covered by `ResourceTransport`, and the queue at one, so that
it is full as soon as anything waits. Three epochs of use (`MaxEpoch` 4)
allow the first safe write, an ownership and its loss; two generations and
two instances allow the terminal event of an old binding to arrive after the
rebind. At the last epoch the authority is exhausted and refuses to settle;
`InFlightIsTracked` leaves that epoch out. Lifetimes are one unit where
expiry must race something and two where it must not win at once.

The ring of the event log is smaller than the number of records, so that it
wraps; one pump offers one record, so that a client that is behind needs several
turns. Two versions after the first sample let a projection catch one that the log
has not recorded while a second one follows; one client filters everything or the
signal alone. One place for two connections makes the second wait for the detach of
the first; three message ids for two requests are needed to exceed the limit of
requests at all, because ids in flight are distinct. Message ids are symmetric.
Manual outputs, repeated operations and the end come in scenarios of their own;
those of manual outputs and of the end allow a peer one waiting reply instead of two.

The recorder runs make every limit one or two above what a single request
needs, so that credit, the outbox, the tracker, the history slots and the
envelope all run out, each in the run whose requests need it: the tracker of one in
`recorder_run`, where the second of two operations finds it full; two that are
pending together are in `recorder_credit`. With two facts and
an outbox of one, a second fact finds the outbox full behind one that was admitted,
so a gap has an earlier fact to be behind of, whether the outbox or the credit made
it. Requests, faults and seconds are counted over all boots
(`left`); identities are used in order. `recorder_run` keeps one boot and one
fault, `recorder_credit` two boots and none: a crash there is a fault of its
own. A second is explored only when the storage thread has caught up.

`MCScenarios` divides the instance of the service: each scenario names request
kinds whose steps can meet, on the resource where they do, and how many faults
(of driver, device or storage) come with them. All pairs of lifecycles with a
shared resource, gate, quiesce or deadline are there; three lifecycles at once
are not. Two adapters more than resources allow a candidate and a retired
worker beside the current ones. Opening is tried once (`MaxAttempts`).

Two jobs at a time are all the executor can hold; five jobs let a slot be used
again after an expiry and after the death of its neighbour. The age limit of
an input is two, so that a sample ages in the middle of a step.

Deadlock is checked in the runs that do not say otherwise: there is always a
call to make. The run of the server ends when all connection ids are used, the
recorder runs when requests, faults and boots are, the components when the
clock and the jobs are. The service ends in `Exited`, which is an action.

Fairness. `FairSpec` of `ResourceTransport` assumes that the resource is
polled again and again and that time passes. The owner loop of the service
polls all its resources in each turn (`poll_transports`), and its clock is the
monotonic clock of the machine. Nothing is assumed of the adapter: the fair
action is the poll in which it stays silent, and a poll that makes progress
under silence makes progress whatever the adapter answers. One exception is
part of the property: a safe write admitted on an offline resource is parked
until the executor is retired.

`FairSpec` of `PhysicalControl` assumes that the safety service runs again and
again, as it does in each turn of the owner loop, and that time passes. The
fair action is again the one in which the adapter stays silent and no input is
bad. `ServiceIsFair` is weak fairness of that action with its enabling
condition written out: the call is always possible and counts when it would
change the Runtime. Time passes beyond `MaxTime` only as far as the deadline of
the transaction in hand, so that a timeout always comes. An offline resource is
the visible end of an attempt: the code does not go on by itself.

`FairSpec` of `EventLog` assumes that the owner pumps each client and that the
reactor writes to it or drops it; both happen in every turn of their loops, and
the write deadline drops a peer that does not read.

`FairSpec` of `RecordingHost` assumes that the storage thread takes its next
step, unless it has failed or died, and that the owner's loop does what it does
unasked (`OwnerWork`): weak fairness with `OwnerHasWork` for its enabling
condition, because the handlers are too deep for `ENABLED`. No client is
obliged to anything, and Reference pairs go on because their handler does.

`FairSpec` of `ServiceLifecycle` assumes that the lane takes the next step of
the operation it runs, that shutdown goes on, and that deadlines pass; again
as weak fairness with the enabling condition written out (`OperationDue`,
`ShutdownDue`). Nothing is assumed of drivers, devices and the storage thread:
everything that waits for them waits under a deadline. `ServerDelivery` and
`ManagedComponents` are checked for safety only.

## 4. Findings and observations

`rollback_panic` is a violation TLC finds. A shutdown that arrives while a
phased application waits in `ConfirmRecording` asks the already listed
candidate output for safe again; that write starts. When the deadline of the
application passes meanwhile, `fail_pending_simple_apply_with` rolls the
publication back (`service/configuration.rs:498`), the Core refuses to discard
a device whose physical work has started, and the `expect` of
`host/configuration.rs:415-416` ends the process in the middle of its shutdown.

The following were met while reading and modelling. The model follows the code
in each; no run states the opposite.

Control and server:

* A running controller that fails trips its output, which latches the fault.
  Safe evidence leaves it `FaultLatched`, and `reset_failed` is refused until
  the fault is acknowledged or the device rebound. The table of
  `docs/safety-and-failures.md` gives the recovery without that step.
* `poll_outputs` answers a manual write whether or not its connection is still
  there. When the channel to the reactor is full at that moment, the owner begins
  the close of a connection whose detach it has already had, and its mark stays
  in `OwnerDelivery::closing` until the process ends (`server.rs:566-569`).
  `ClientsAreConnected` leaves these ids out (`history.late`).
* An operation that is submitted again under a message id of its own, while it
  has not ended, is answered "accepted" only; the second id stays in flight as
  long as the connection lives (`server/coordination.rs:158`), and a rejection that
  waits for the replies before it is then never sent. `IdsAreOwed` leaves these
  ids out (`history.repeated`).
* A projection of signals, components or measurements is read from the Runtime and
  carries the cursor of the log (`application/delivery.rs:62`), so that it can be
  ahead of that cursor; the records that follow then repeat what it showed.

Recorder:

* A live activation that fenced the gate reopens it when it is durable, also
  when a client stopped the run in between (`host/recording.rs:175-177`).
  After an aborted apply the fenced gate stays closed while recording goes on.
* A pending start is never answered when the stop of a shutdown passes through
  `Recording` to `Idle` before it is polled. `LifecycleIsAnswered` leaves
  shutdown out for that reason.
* The acceptance of a start, deferred until its boundary is durable, can cost
  the new interval its coverage when that filled up first; `PauseKeepsCoverage`
  leaves that turn out.
* `cancel_history` frees its slot while its message is still queued; the slots
  bound results, not queued reads.

Service:

* Shutdown asks every output for safe, and stops at the first error: with a
  hidden controller listed it never sends the later requests, and ends fatal.
  `restart_virtual_models` during the quiesce of a phased application ends that
  quiesce, and the application ends fatal after its commit.
* Errors that leave reconciliation or a file application through `?` keep the
  reservation of credit, the quiesce or an opened adapter (`cut`); a file
  application that fails after `prepare_bindings` leaves its resource without
  transport, and a rebind that fails at the recorder drops the adapter it opened.
* A restart or a file application opens the gates of acquisition before its
  generation is durable (`host/configuration.rs:494-496`), and one that fails
  before its commit leaves the Required gate closed.
* Reconciliation and file application do not look at an earlier candidate
  adapter in quarantine. The worker reports `Stopped` before it drops the
  device, so a port may be in use shortly after its worker is "closed".
* A success exit does not mean that no output is left in doubt. When the hidden
  output of a phased application is asked for safe and the write is sent and fails,
  the application puts it into quarantine (`service/configuration.rs:507-526`). A
  shutdown looks at the configured outputs only (`host/lifecycle.rs:153-155`): TLC
  reaches `terminal = "clean"` with `quar` set, a state in which the result neither
  fails nor lists that output (`host/lifecycle.rs:62`, `application.rs:255-263`).
  `docs/safety-and-failures.md:174-176` says of this result "Unresolved ambiguity
  remains visible". `CleanExitIsHonest` is no promise about that output.
* The rollback of a published candidate discards the evidence of an uncertain
  hidden output.
* The release of one reconnected resource waits for the probes and outputs of
  all resources. An application that timed out in `ConfirmRecording` may become
  durable all the same.

Components: a second initialization of the same generation reuses attempt 0, so
that its correlation equals the first one's; the comment on correlations in
`core/managed.rs` says that attempts are monotonic within a generation.

## 5. Proofs

`OutputPermissionProofs` proves, for every set of owners, every last epoch and
dispatch, every lifetime and every bound, that `Inv` holds always
(`AlwaysSound`), and from it the theorems `TypeCorrect`, `Ownership`,
`Disarming`, `SafeWork`, `FailsClosed`, and of steps `SafeIsNotResent`,
`NormalSends` and `Revocation`. It rests on the assumptions named in
`OutputAuthority` and `OutputPermission`: the bounds are natural numbers and
owners are not `None`.

None of the properties is inductive alone. That a disarmed output was proved
safe needs that the send in flight is the latest one (`InFlightInv`) and that a
confirmation excludes sends, reservations and obligations (`ConfirmedInv`);
that a pending safe state has its work needs to know where an obligation may
stand (`SafeInv`) and which reservation a safe write leaves (`ReservedInv`);
that an unknown safe write is not repeated needs that the block, the
obligation and the latched fault go together (`BlockedInv`). `Inv` is their
conjunction with the types. Inside a completion there is a moment, after the
send has been taken out and before the safe request, at which a pending safe
state has no work; the lemmas therefore speak of `Consistent`, which holds
there too, and of `Sound`, which adds `WorkInv` at the end of every method.
There is one lemma per method (`...Sound`), stated over the fields of the
record it returns (`...Fields`); they make up `OutputAuthorityProofs`. The step theorems come from a classification
of steps (`StepKinds`): a step is a rebind, a send that was entitled to start,
a grant with a new epoch, or quiet.

`SessionStoreProofs` proves `Inv` of `SessionStore` for every bound, lifetime,
set of connections, payloads and outcomes (`AlwaysInv`), and from it
`RunsOnce`, `PendingStays`, `ScopesExclusive`, `FirstOutcome` and
`TypeCorrect`. The argument: an accepted identity lies behind the counters
that give out identities (`Behind`), which no expiry lowers; its pending record
is there until it has an outcome (`Kept`); a record is pending or shows the
first outcome (`Recorded`). Expiry, the bound of a scope and the eviction over
all scopes are all trims (`Trimmed`), and one lemma (`TrimmedSane`) says what a
trim preserves. Assumed is only that the bounds and the credit are numbers and that
`None` is neither a connection nor an outcome.

`CreditStaysExact` (`CreditIsExact`) is about a sum over a store that changes. A
record that costs n is counted as n slots; the sum that
`recount_provisioning_credit` takes is the number of slots (`RecountIsCount`: the
library's fold is defined, and a least set on which another result were possible
does not exist). From there it is counting in finite sets: a trim takes slots
away, an acceptance adds those of its charge, an outcome replaces a record by one
of the same charge.

`ResourceTransportProofs` proves, for every queue bound, request and response
length, recovery timeout and number of transactions and generations, that
`IInv` of `ResourceTransport` holds always (`Inductive`), and from it
`NothingIsLostOrDoubled` (`Accounted`), `RequestsAreSentOnce` (`SentOnce`),
`NoStartIsDenied` (`StartsAreHonest`), `BoundariesAreClean` (`CleanBoundary`)
and `ExecutorIsWellFormed`. Assumed are positive lengths and bounds
(`ExecutorAssumption`, `HorizonAssumption`) and that `None` is no kind of
transaction (`NoneAssumption`).

The properties count: how often a request began, in how many places a
transaction is. Inside a poll they do not hold, because the executor moves a
transaction before its owner is told. `IInv` therefore has two parts. `Sound`
relates the executor to the history at every point of a method: a transaction
that has not ended is held in one place, and the number of its starts is fixed
by the place and by the attempt. `Settled` says when the Runtime has handled
what the method reported. The events need room: each fence, recovery and
retirement reports what it displaces, and the bound of the queue holds because
what is held and what is reported together fit (the slack between them is part
of the invariant). Each method has lemmas for the record it leaves, for what it
holds and for what it reports; a poll is their composition.

`ManagedComponentsProofs` proves `IInv` of `ManagedComponents` for every age
limit, warm-up, job deadline and all bounds (`Inductive`), and from it
`NothingRests` (`NothingRestsOnBad`) and `AllAnswersAreOwed`
(`AnswersAreOwed`). Assumed is only `JobDeadlineAssumption`.

A handler is a chain of operations on one state record, and each operation is
shown once to keep the record `Sane`. For the executor there are three
relations between the record before and after: it only marks jobs (`Marks`), it
gives a slot to a job (`Given`), or it frees the slot of one completion
(`Freed`). Between taking a completion and using it one answer is awaited that
no slot owes; `OwedBut` says which one, and `CarriedOn` that later operations
add no other. Two facts make the induction work. The steps the slots are busy
with are of different correlations and none is newer than its instance
(`StepsAreUnique`), so that freeing a slot cannot free another's answer. A
Transform's good sample rests on a good one of the installed generation of its
Source that is at least as fresh (`RestsOnSource`), so that the Source cannot
age out alone.

`PhysicalControlProofs` proves `IInv` of `PhysicalControl` for every set of
manual owners, every finite set of controllers, every bound and timeout, with a
physical or a simulated output, and with recording required or not
(`Inductive`), and from it `PreparationHasTheOutput`
(`PreparationIsExclusive`), `AutomaticLeaseIsOwned` (`LeaseHasRunningOwner`)
and, of steps, `ControlNeedsRecording` (`RecordingIsRequired`). It rests on the
assumptions of `OutputAuthority`, on `ConfigAssumption` and on
`RequiredAssumption`.

`ControlInv` is about one Runtime record: its authority is `Sound`, as in
`OutputPermission`; a controller holds only leases of its own, and while it runs
it holds one (`OwnLeases`); an automatic lease of the authority is its
controller's (`LeaseKnown`); who prepares does so alone, on an output that may
be prepared on (`OnePrepares`); a failed gate is shut and nobody is live
(`FailedGate`). What the executor holds matters nowhere: whatever it reports,
and whenever, a handler keeps `ControlInv`. Only that its queue and its events
are sequences is needed (`Shaped`), because a retirement handles every event.

Each handler has a lemma that says which of four things it does to the record:
nothing ordinary is sent and the gate is as before (`Steadily`), nothing
ordinary is sent (`Safely`), what is sent is sent while recording is fresh
(`Freshly`), or there is a new authority (`Replaces`); `StepsCompose` says how
these chain through `Then`. `OpenGate`, `DeadlineKeeps` and
`PollResourceKeeps` carry the argument for the gate: the deadline is served
before anything is sent, and the executor asks again at the first byte, however
long the write was queued. The loops over the controllers and over the events of a
retirement are recursive functions; that they are defined, and what they
preserve, follows by looking at the least index at which it were not so
(`SupervisionExists`, `SuperviseAllKeeps`, `DrainedExists`, `ShutdownKeeps`).

`RecordingHostProofs` proves, for every limit, policy, set of requests and
connections and number of boots, that `Tracked`, which is `Durable` and `InStep`,
holds of `RecordingHost` always (`AlwaysTracked`), and from it `PastStaysHonest`
(`PastIsHonest`), `StopsStayDurable` (`StopIsDurable`) and
`RecorderImplementsDurableLog` (`ImplementsDurableLog`). Nothing is assumed of
the constants.

`Durable` relates four places: the owner knows no more than the receipt
confirms, the receipt no more than the current boot of the archive has
(`ConfirmedInOrder`); of the runs of the current boot one at most is open, the
one the connection names (`RunsHonest`); earlier boots and their runs are over
(`PastOver`); and the current boot is open until its last command is committed,
after which the thread commits nothing (`OpenUntilFinished`). The last is needed
because the archive checks the state of the boot only before `finish`.

`InStep` is what a stop that is answered rests on. `LifecycleDone` of the
application looks at the state of the recorder alone, which says neither which
run it means nor whether its transaction is over; that this is enough takes four
places. At most one barrier (start, stop or gap) is unanswered; it is in the channel, in
the batch or deferred, and the states of owner and receipt and the run of the
connection are those of its progress (`Flow`). A request to stop whose run is not
sealed is `Doomed` until it is: the owner is stopping and the thread has not
committed the stop, or the owner has failed, or the thread is gone and no receipt
will say idle. So the owner never looks idle to the application before the commit of
`stop_run`, whatever fails, fills up or panics and in any order of polls. `PromisesKept` carries it on: a sealed run
stays sealed through every commit and every recovery.

The owner lane has the most code. One relation,
`Goes`, says what matters of it (the link and the confirmed identity stay, the
owner knows what it knew or what was confirmed, and `Flow` and `Doomed` hold); every
operation of the handle and every handler of the host keeps it, `Acts` says the same
of the host's copy of the status. The thread leaves the archive
alone (`Serves`) or commits, and a commit rewrites the current boot only
(`Rewritten`), in one of five ways (`CommittedRewrites`). For the refinement
these are mapped one by one: a commit is a write of the log, a poll that learns
something acknowledges, a reboot reopens, everything else is a stutter. That a
batch of fact groups is a sequence of rows at all needs the flattening of the
library to be defined, which follows by a least counterexample
(`FlattensExists`).

`ServiceLifecycleProofs` proves `LifecycleInv` of `ServiceLifecycle` for every
finite set of resources, native or not, writable or not, every mix of requests
and every number of requests and faults, with a recorder or without
(`LifecycleHolds`), and from it `FenceIsHeld` (`FenceHolds`), `NothingStaysBehind`
(`NothingIsLeftBehind`), `SuccessIsHonest` (`CleanExitIsHonest`) and, of steps,
`PortsStayWatched` (`PortsAreWatched`), `ReleasesAreEarned` (`ReleaseIsEarned`)
and `EvidenceStays` (`EvidenceIsKept`). `LifecycleAssumption` asks that there are
finitely many resources, an adapter for each, and that requests address them.

Every promise here is about what an operation that was interrupted anywhere
leaves behind, and the invariant says for every point of every operation who owes
what. An adapter has one owner: the executor of its resource, the operation that
opened it, or the slot for one that did not stop (`Owned`); a second one for a
resource exists only beside an executor that is retired (`Retired`), and a closed
session has a worker off its port (`AdapterInv`). A reserved credit is the
operation's that can still cancel it, or the application's that began it
(`Credits`); a quiesce has its lifter (`Quiet`); the gate is closed while a fence
owes its opening, and one fence at a time does (`Fence`); evidence of a hidden
output is the application's under way or the quarantine's (`Hidden`). `Clean` is
what the success exit rests on, `Released` what a reconnect has earned so far.

One owner turn comes between all of these steps: it polls each executor once, or
closes each one when the stop comes. `Turned` says what a turn leaves alone, which is
nearly everything: only jobs, their outcomes, fences and the gate move. The turn
is a recursive function over the set of resources; that it is defined, and that
it is a chain of single polls, follows by looking at a least set at which it were
not so (`PolledBody`, `ShutBody`). There is then one lemma for every step of
`OperationStep`, of `PollApply`, of the main loop and of the shutdown, and one
for each way such a step fails. `InvBut` is the invariant in the middle of a
step, while one adapter is nobody's and about to be dropped.

The three step properties are conjuncts of `Careful`. Most steps are `Steady`:
they publish, release and forget nothing. What is left are the commits and the
disposals, one lemma for each.

`Inv`, `IInv`, `Durable` or `LifecycleInv` of each of the seven modules was
checked by TLC on the instances above before it was proved, and so was `InStep` (of
`Shaped`, `WellShaped` and `Holding`, in the form TLC can evaluate).

Only model-checked: `WorkIsCarried` of `PhysicalControl`, `EventLog`,
`ServerDelivery`, of the recorder its credit and what it promises of a run
(`NothingLeaks`, `SealedIsComplete`, `GapIsFirstLoss`, `OperationsArePaired`,
`PauseKeepsCoverage`), and every liveness property,
`EveryTransactionEnds`, `SafeIsServed` and `WorkEnds` among them: fairness is out
of the prover's reach. `RollbackNeverPanics` is violated and stays a finding. What `SuccessIsHonest` proves of a success exit is, as in the
code, about the configured outputs.

## 6. Not modelled

Values, units, byte formats, JSON and SQL text, logging. The outcome size
limit and the normalisation of payloads in `sessions.rs`. Several outputs on
one resource, the ramps of references, and the checks of owner time that runs
backwards. Frames, handshakes and the sizes of messages.

Of the recorder: provenance rows, quota and byte counting, the content of
history pages, the age of progress. Of the service: `configure_property`, the
diagnostics, startup, more than one virtual candidate. Of the components: the
values of steps, the registry and the runtime identity of a correlation,
physical inputs, and controllers beyond "running on the signal".

Device codecs, the validation of configuration files and of definitions, and
numeric models are sequential: they decide nothing across two steps, and unit
tests reach them. Measurement windows and diagnostics only read. Of the projections
the one of the configuration is left out, which holds no facts the log tracks, and of
the signals that the restart of a virtual model empties them. Codecs, validation, models
and what only reads make up most of the lines that no definition names.

## 7. Plan

Done: the output authority, the scopes, the executor, the Runtime over authority
and executor with its controllers and the recording gate, the managed
components, the recorder with its archive, host and refinement, and the service
lifecycles over the serial adapter, with proofs; the event log; the server.

To come:

1. Proofs: `WorkIsCarried` of `PhysicalControl`; `CommitHasRoom` and
   `ReadersSeeTheRecord` of `EventLog`; `ServerDelivery`; what a sealed run of
   `RecordingHost` holds (`SealedIsComplete`, `OperationsArePaired`).
2. An abstract specification of an output with one owner and evidence,
   implemented by `OutputPermission`; `EventLog` as an unbounded log with a
   moving horizon.
3. References (ramps and holds over owner time), the read scheduler of the
   host, the deadline of a manual output of the application.
