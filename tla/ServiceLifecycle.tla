------------------------- MODULE ServiceLifecycle --------------------------
(***************************************************************************)
(* The service owner's long operations over the serial adapters: explicit  *)
(* reconnect of a resource, reconciliation of a quarantined output, restart*)
(* of the virtual models, application of a staged file candidate, the      *)
(* phased application of a simple-device candidate, and shutdown           *)
(* (service/reconnect.rs, service/configuration.rs, service/shutdown.rs    *)
(* and the host functions they call).                                      *)
(*                                                                         *)
(* The owner lane is one thread.  A synchronous operation holds it and     *)
(* drives host.service() itself until a condition or a deadline: it is     *)
(* `op`, with a program counter.  The simple-device application advances   *)
(* one phase per turn of the main loop, so requests interleave with it.    *)
(* Serial workers, the devices and the storage thread run concurrently.    *)
(* Deadlines are not clocks: a deadline passes at some time while its loop *)
(* waits.  Output authority, executor and recorder keep here only what     *)
(* these operations read; their own modules have the detail.               *)
(***************************************************************************)
EXTENDS SerialAdapter

CONSTANTS
    Resources,      \* configured resources, each with a published instrument
    Native,         \* those with a Metakon instrument and compatibility probe
    Writable,       \* those whose published instrument has a physical output
    Candidate,      \* the resource of the simple-device candidate
    Scenarios,      \* bounds of one behaviour: the kinds of request, the resources
                    \* they address, how many, device, driver and storage faults, and
                    \* whether a recorder is attached, with Required policy
    MaxAdapters     \* bound: adapters at one time

ASSUME LifecycleAssumption ==
    /\ Native \subseteq Resources /\ Writable \subseteq Resources
    /\ Candidate \in Resources \ (Native \cup Writable)
    /\ \A c \in Scenarios :
          /\ c.requests \in Nat /\ c.faults \in Nat /\ c.recorded \in BOOLEAN
          /\ c.targets \subseteq Resources
    /\ IsFiniteSet(Resources) /\ MaxAdapters \in Nat /\ Cardinality(Resources) <= MaxAdapters

VARIABLES
    svc,            \* ServiceHost and HostCore
    ad,             \* serial adapters by spawn order, with their workers
    left            \* the scenario of this behaviour, and what its bounds leave

vars == <<svc, ad, left>>

Adapters == 1..MaxAdapters
NoAdapter == 0
Gone == [Spawned(Candidate) EXCEPT !.state = "closed", !.at = "finished", !.dropped = TRUE]

NoOp == [kind |-> "none", res |-> Candidate, pc |-> "none", gen |-> 0, reopen |-> FALSE,
         cand |-> NoAdapter, late |-> FALSE, cancel |-> FALSE]
NoApply == [phase |-> "none", kind |-> "sensor", gen |-> 0, begun |-> FALSE, reopen |-> FALSE,
            actuator |-> FALSE, quiesced |-> FALSE, published |-> FALSE, late |-> FALSE]
NoHidden == [state |-> "none", sent |-> FALSE, listed |-> FALSE]

\* A configured resource whose adapter start-up opened, with its output safe.
InitExecutor(i) == [adapter |-> i, closed |-> FALSE, offline |-> FALSE, job |-> "none"]
InitService(first, recorded) ==
    [stopping |-> FALSE, fatal |-> FALSE, panicked |-> FALSE, quiesced |-> FALSE,
     gate |-> "open", exe |-> [r \in Resources |-> InitExecutor(first[r])],
     closed |-> {}, gated |-> {}, bind |-> [r \in Resources |-> 1],
     probe |-> [r \in Resources |-> IF r \in Native THEN "good" ELSE "none"],
     out |-> [r \in Resources |-> IF r \in Writable THEN "safe" ELSE "none"],
     hid |-> NoHidden, quar |-> FALSE, held |-> NoAdapter,
     rec |-> [state |-> IF recorded THEN "up" ELSE "absent", next |-> 1,
              reserved |-> 0, pending |-> 0, committed |-> 0, facts |-> FALSE],
     staged |-> "none", overlay |-> FALSE, rev |-> 1,
     apply |-> NoApply, op |-> NoOp, cut |-> FALSE, safeLate |-> FALSE, flushing |-> FALSE, flushLate |-> FALSE,
     terminal |-> "none"]

\* The owner's side of one step: the service record and the adapters.
Lane(v, a) == [v |-> v, a |-> a]
With(x, v) == [x EXCEPT !.v = v]

-----------------------------------------------------------------------------
(* Core as these operations see it: executors, outputs, probes.            *)

\* OutputCommand::RequestSafe; an uncertain safe write stays latched.
SafeRequested(state) ==
    CASE state = "none" -> "none"
      [] state = "fault" -> "fault"
      [] state \in {"started", "obsolete"} -> "obsolete"
      [] OTHER -> "pending"

InFlight(state) == state \in {"started", "obsolete"}

\* A started write whose outcome is unknown; a superseded or a lost one.
Uncertain(state) == IF InFlight(state) THEN "fault" ELSE state

\* What ends the job of r: the sample or the output it was for.
JobLost(v, r) ==
    LET w == [v EXCEPT !.exe[r].job = "none"] IN
    CASE v.exe[r].job = "probe" -> [w EXCEPT !.probe[r] = "bad"]
      [] v.exe[r].job = "safe" -> [w EXCEPT !.out[r] = Uncertain(@)]
      [] v.exe[r].job = "hidden" -> [w EXCEPT !.hid.state = Uncertain(@)]
      [] OTHER -> w

JobDone(v, r) ==
    LET w == [v EXCEPT !.exe[r].job = "none"]
        proved(state) == IF state = "started" THEN "safe" ELSE "pending" IN
    CASE v.exe[r].job = "probe" -> {[w EXCEPT !.probe[r] = o] : o \in {"good", "bad"}}
      [] v.exe[r].job = "safe" ->
             {[w EXCEPT !.out[r] = o] : o \in {proved(v.out[r]), "fault"}}
      [] v.exe[r].job = "hidden" ->
             {[w EXCEPT !.hid.state = o] : o \in {proved(v.hid.state), "fault"}}
      [] OTHER -> {w}

HiddenDue(v, r) == r = Candidate /\ v.hid.state \in {"pending", "rejected"}

\* Work that was queued on an executor that cannot take it any more.
QueueFenced(v, r) ==
    LET w == IF v.probe[r] = "queued" THEN [v EXCEPT !.probe[r] = "bad"] ELSE v IN
    IF HiddenDue(w, r) THEN [w EXCEPT !.hid.state = "rejected"] ELSE w

\* One poll of one executor, in its queue order: safe writes before reads.
ExecutorTurn(x, r) ==
    LET v == x.v  e == v.exe[r]  i == e.adapter  a == Drain(x.a[i])
        drained == [x.a EXCEPT ![i] = a]
        starts(w, job) ==
            {Lane([w EXCEPT !.exe[r].job = job], [x.a EXCEPT ![i] = Request(a)])} IN
    IF e.closed \/ e.offline THEN {x}
    ELSE IF a.fault
    THEN {Lane(QueueFenced(JobLost([v EXCEPT !.exe[r].offline = TRUE], r), r), drained)}
    ELSE IF e.job # "none"
    THEN IF a.pending THEN {Lane(v, drained)} ELSE {Lane(w, drained) : w \in JobDone(v, r)}
    ELSE IF ~TakesRequest(a) THEN {Lane(v, drained)}
    ELSE IF v.out[r] = "pending" THEN starts([v EXCEPT !.out[r] = "started"], "safe")
    ELSE IF HiddenDue(v, r)
    THEN starts([v EXCEPT !.hid.state = "started", !.hid.sent = TRUE], "hidden")
    ELSE IF v.probe[r] = "queued" THEN starts([v EXCEPT !.probe[r] = "sent"], "probe")
    ELSE {Lane(v, drained)}

\* PollComponents or ServiceSafety: every executor is polled once.
PollExecutors(x) ==
    LET polled[rs \in SUBSET Resources] ==
            IF rs = {} THEN {x}
            ELSE LET r == CHOOSE s \in rs : TRUE IN
                 UNION {ExecutorTurn(y, r) : y \in polled[rs \ {r}]} IN
    polled[Resources]

\* Mutant: a retirement that has been requested is taken for a finished one.
RetirementRequested(x, r) ==
    LET v == QueueFenced(JobLost(x.v, r), r)
        a == TryShutdown(x.a[v.exe[r].adapter]) IN
    IF v.exe[r].closed THEN Lane(v, x.a)
    ELSE Lane([v EXCEPT !.exe[r].closed = TRUE, !.exe[r].offline = TRUE],
              [x.a EXCEPT ![v.exe[r].adapter] = a])

\* shutdown_transport: fence the queue, end the active job, retire the adapter.
ShutdownTransport(x, r) ==
    LET v == QueueFenced(JobLost(x.v, r), r)
        a == TryShutdown(x.a[v.exe[r].adapter]) IN
    IF v.exe[r].closed THEN Lane(v, x.a)
    ELSE Lane([v EXCEPT !.exe[r].offline = TRUE, !.exe[r].closed = IsClosed(a)],
              [x.a EXCEPT ![v.exe[r].adapter] = a])
IsRetired(x, r) == x.v.exe[r].closed

\* An adapter nobody keeps is dropped; a finished one leaves nothing behind.
DropAdapter(x, i) ==
    IF i = NoAdapter THEN x
    ELSE LET a == Dropped(x.a[i]) IN
         [x EXCEPT !.a[i] = IF a.at = "finished" THEN Gone ELSE a]

\* replace_transport of a retired executor: its old adapter is dropped.
ReplaceTransport(x, r, i) ==
    DropAdapter(With(x, [x.v EXCEPT !.exe[r] = InitExecutor(i), !.closed = @ \ {r}]),
                x.v.exe[r].adapter)

-----------------------------------------------------------------------------
(* The recorder and the Required gate as these operations see them.        *)

\* begin_configuration_recording_fence; TRUE when it closed an open gate.
Recorded(v) == v.rec.state # "absent"

\* Mutant: whoever fences the gate reopens it, even when it was closed already.
FencesAgain(v) == Recorded(v)

Fences(v) == Recorded(v) /\ v.gate = "open"
Fenced(v) == IF Fences(v) THEN [v EXCEPT !.gate = "closed"] ELSE v
RecordingFailed(v) == IF Recorded(v) THEN [v EXCEPT !.gate = "failed"] ELSE v

\* try_reserve_configuration_activation: one live activation at a time.
CannotReserve(v) ==
    Recorded(v) /\ (v.rec.state # "up" \/ v.rec.reserved # 0 \/ v.rec.pending # 0)
Reserved(v) ==
    IF ~Recorded(v) THEN v
    ELSE [v EXCEPT !.rec.reserved = v.rec.next, !.rec.next = @ + 1]
Generation(v) == IF Recorded(v) THEN v.rec.next ELSE 0

\* commit_reserved_configuration_activation.
CanCommit(v, gen) == gen = 0 \/ (v.rec.state = "up" /\ v.rec.reserved = gen)
Committed(v, gen) ==
    IF gen = 0 THEN v ELSE [v EXCEPT !.rec.reserved = 0, !.rec.pending = gen]

\* cancel_configuration_activation: only what was never submitted is returned.
Cancelled(v, gen) ==
    [v EXCEPT !.rec.facts = FALSE,
              !.rec.reserved = IF gen # 0 /\ @ = gen THEN 0 ELSE @]

\* live_activation_committed: the durable receipt reopens the gate its fence closed.
IsDurable(v, gen) == gen = 0 \/ v.rec.committed >= gen
HasFailed(v, gen) == gen # 0 /\ v.rec.state = "failed"
Reopened(v, gen, reopen) ==
    IF gen # 0 /\ reopen /\ v.gate = "closed" THEN [v EXCEPT !.gate = "open"] ELSE v

-----------------------------------------------------------------------------
(* The hidden topology of a simple-device application.                     *)

HasOutput(kind) == kind # "sensor"

\* A query for a published controller or output fails while a hidden one is listed.
HiddenController(v) == v.hid.listed /\ v.apply.kind = "controller"
HiddenOutput(v) == v.hid.listed /\ HasOutput(v.apply.kind)

\* DiscardPreparedSimpleDevices refuses an output whose write has started.
CanDiscard(v) == ~InFlight(v.hid.state)
Discarded(v) ==
    [v EXCEPT !.hid = NoHidden,
              !.exe[Candidate].job = IF @ = "hidden" THEN "none" ELSE @]

\* Mutant: the cleanup of a failed application ignores what was sent.
NothingSent(v) == FALSE

\* A hidden write may have reached the device and its effect is not proved.
Ambiguous(v) == v.apply.actuator /\ v.hid.sent /\ v.hid.state # "safe"

\* rollback_simple_device_publication: the discard is an expect.
RolledBack(v) ==
    IF CanDiscard(v) THEN Discarded(v) ELSE [v EXCEPT !.panicked = TRUE]

\* fail_pending_simple_apply_with.
ApplyFailed(v) ==
    LET cancelled == IF v.apply.begun THEN Cancelled(v, v.apply.gen) ELSE v
        rolled == IF v.apply.published THEN RolledBack(cancelled) ELSE cancelled
        cleaned == IF v.apply.published THEN rolled
                   ELSE IF Ambiguous(v) THEN [cancelled EXCEPT !.quar = TRUE]
                   ELSE RolledBack(cancelled) IN
    [cleaned EXCEPT !.apply = NoApply,
                    !.quiesced = IF v.apply.quiesced THEN FALSE ELSE @]

-----------------------------------------------------------------------------
(* One owner turn: host.service().                                         *)

OutputsSafe(v) == \A r \in Resources : v.out[r] \in {"none", "safe"}
PublishedSafe(v) == ~HiddenOutput(v) /\ OutputsSafe(v)

\* The schedules reach the hidden controller unless acquisition is quiesced.
TurnFails(v) == ~v.stopping /\ ~v.quiesced /\ HiddenController(v)

\* service_inner while stopping: transports close once every output is safe.
TransportsClosing(x) ==
    IF ~x.v.stopping \/ ~PublishedSafe(x.v) THEN x
    ELSE LET shut[rs \in SUBSET Resources] ==
                 IF rs = {} THEN x
                 ELSE LET r == CHOOSE s \in rs : TRUE
                          rest == shut[rs \ {r}]
                          y == ShutdownTransport(rest, r) IN
                      IF r \in x.v.closed THEN rest
                      ELSE IF IsRetired(y, r) THEN With(y, [y.v EXCEPT !.closed = @ \cup {r}])
                      ELSE y IN
         shut[Resources]

RecorderPolled(v) == IF v.rec.state = "failed" THEN RecordingFailed(v) ELSE v

Turns(x) ==
    {TransportsClosing(With(y, RecorderPolled(y.v))) : y \in PollExecutors(x)}

-----------------------------------------------------------------------------
(* Synchronous operations: requests, waiting and answers.                  *)

Set(x) == svc' = x.v /\ ad' = x.a
Here == Lane(svc, ad)
Goto(v, pc) == [v EXCEPT !.op.pc = pc, !.op.late = FALSE]

\* Restart and file application quiesced acquisition and end that when they answer.
Ended(v) ==
    [v EXCEPT !.op = NoOp,
              !.quiesced = IF v.op.kind \in {"restart", "file"} THEN FALSE ELSE @]

\* Mutant: a failed operation keeps its lifecycle reservation.
RefusedKeepsCredit(x) == With(x, Ended(x.v))

\* A failed operation returns its unused lifecycle reservation.
Refused(x) ==
    With(x, Ended(IF x.v.op.cancel THEN Cancelled(x.v, x.v.op.gen) ELSE x.v))

\* An error propagated by `?`: neither cancelled nor resumed, the candidate dropped.
Cut(x) ==
    DropAdapter(With(x, [Ended(x.v) EXCEPT !.quiesced = x.v.quiesced, !.cut = TRUE]),
                x.v.op.cand)

\* One round of a waiting loop: the passed deadline, a turn, or a failed turn.
Await(x, onError(_), onDeadline(_)) ==
    IF svc.op.late THEN Set(onDeadline(x)) /\ UNCHANGED left
    ELSE \/ UNCHANGED left /\ \E y \in Turns(x) : Set(y)
         \/ /\ left.faults > 0 /\ left' = [left EXCEPT !.faults = @ - 1]
            /\ \E y \in Turns(x) : Set(onError(y))

Waits == {"reserve", "facts", "retire", "opening", "discard", "dispose", "probe",
          "safing", "confirm", "retire_failed"}

\* Mutant: the retirement of a candidate that failed to open has no deadline.
DisposalIsPatient ==
    /\ svc.op.pc \in Waits \ {"dispose"} /\ ~svc.op.late
    /\ svc' = [svc EXCEPT !.op.late = TRUE]
    /\ UNCHANGED <<ad, left>>

DeadlinePasses ==
    /\ svc.op.pc \in Waits /\ ~svc.op.late
    /\ svc' = [svc EXCEPT !.op.late = TRUE]
    /\ UNCHANGED <<ad, left>>

At(pc) == svc.op.pc = pc
Op(kind) == svc.op.kind = kind

\* What follows a failure: retirement of the rebound resource, or of the candidate.
Retiring(x) == With(x, Goto(x.v, "retire_failed"))
Disposing(x) ==
    With(x, [Goto(Cancelled(x.v, x.v.op.gen), "dispose") EXCEPT !.op.cancel = FALSE])

-----------------------------------------------------------------------------
(* Steps of reconnect, reconciliation, restart and file application.       *)

\* try_reserve_configuration_activation until credit or the deadline.
ReserveGranted(x) ==
    LET v == [Reserved(x.v) EXCEPT !.op.gen = Generation(x.v), !.op.cancel = TRUE] IN
    With(x, CASE v.op.kind = "reconnect" -> Goto(v, "facts")
              [] v.op.kind = "reconcile" ->
                     [Goto(v, "retire") EXCEPT !.gated = @ \cup {v.op.res}]
              [] OTHER -> Goto(v, "change"))

\* commit_configuration leaves by `?`, which ends no quiesce.
ReserveError(x) == IF x.v.op.kind = "file" THEN Cut(x) ELSE Refused(x)
ReserveTimeout(x) == DropAdapter(Refused(x), x.v.op.cand)

ReserveStep ==
    /\ At("reserve")
    /\ IF CannotReserve(svc) THEN Set(ReserveError(Here)) /\ UNCHANGED left
       ELSE \/ Set(ReserveGranted(Here)) /\ UNCHANGED left
            \/ Recorded(svc) /\ Await(Here, ReserveError, ReserveTimeout)

\* reserve_rebind_facts, then the resource is gated.
FactsStep ==
    /\ At("facts")
    /\ IF Recorded(svc) /\ svc.rec.state # "up" THEN Set(Refused(Here)) /\ UNCHANGED left
       ELSE \/ /\ svc' = [Goto(svc, "retire") EXCEPT
                               !.rec.facts = Recorded(svc), !.gated = @ \cup {svc.op.res}]
               /\ UNCHANGED <<ad, left>>
            \/ Recorded(svc) /\ Await(Here, Refused, Refused)

\* Mutant: the replacement does not wait for the old worker.
RetireUnawaited ==
    /\ At("retire") /\ UNCHANGED left
    /\ Set(With(ShutdownTransport(Here, svc.op.res), Goto(ShutdownTransport(Here, svc.op.res).v, "open")))

\* prepare_configured_transport_replacement until the old worker has stopped.
RetireStep ==
    /\ At("retire")
    /\ LET x == ShutdownTransport(Here, svc.op.res)
           refused(y) == IF Op("reconcile") THEN Cut(y) ELSE Refused(y) IN
       IF IsRetired(x, svc.op.res) THEN Set(With(x, Goto(x.v, "open"))) /\ UNCHANGED left
       ELSE Await(x, refused, Refused)

\* The factory: a new worker, or none.  A file candidate does not await the open.
NewAdapter == CHOOSE i \in Adapters : ad[i] = Gone
OpenStep ==
    /\ At("open")
    /\ \/ /\ \E i \in Adapters : ad[i] = Gone
          /\ ad' = [ad EXCEPT ![NewAdapter] = Spawned(svc.op.res)]
          /\ svc' = [Goto(svc, IF Op("file") THEN "reserve" ELSE "opening")
                       EXCEPT !.op.cand = NewAdapter]
          /\ UNCHANGED left
       \/ /\ left.faults > 0 /\ left' = [left EXCEPT !.faults = @ - 1]
          /\ Set(Refused(Here))

\* rebind_configured_transport_from_configuration: the generation fence is crossed
\* in one owner turn; probe and output evidence of the old binding are void.
ReboundFromConfiguration(x) ==
    LET r == x.v.op.res
        y == ReplaceTransport(x, r, x.v.op.cand) IN
    With(y, [y.v EXCEPT !.bind[r] = @ + 1, !.op.cand = NoAdapter,
                        !.probe[r] = IF r \in Native THEN "unknown" ELSE @,
                        !.out[r] = IF @ = "none" THEN @ ELSE "unverified"])

\* rebind_configured_transport does the same with the facts reserved for it.
Rebound(x) ==
    LET y == ReboundFromConfiguration(x) IN With(y, [y.v EXCEPT !.rec.facts = FALSE])

OpeningStep ==
    LET i == svc.op.cand
        x == Lane(svc, [ad EXCEPT ![i] = Drain(@)])
        error(y) == IF Op("reconcile") THEN Cut(y) ELSE Disposing(y) IN
    /\ At("opening")
    /\ IF IsReady(x.a[i])
       THEN /\ UNCHANGED left
            /\ IF Op("reconcile") THEN Set(With(x, Goto(x.v, "discard")))
               ELSE IF Recorded(svc) /\ svc.rec.state # "up"
               THEN Set(Retiring(DropAdapter(With(x, [x.v EXCEPT !.op.cand = NoAdapter]), i)))
               ELSE Set(With(Rebound(x), Goto(Rebound(x).v, "probe")))
       ELSE IF IsFailed(x.a[i]) THEN Set(Disposing(x)) /\ UNCHANGED left
       ELSE Await(x, error, Disposing)

\* retire_uninstalled_reconnect_candidate: an unstopped candidate is retained.
DisposeStep ==
    LET i == svc.op.cand
        x == Lane(svc, [ad EXCEPT ![i] = TryShutdown(@)]) IN
    /\ At("dispose") /\ UNCHANGED left
    /\ IF IsClosed(x.a[i]) THEN Set(DropAdapter(With(x, Ended(x.v)), i))
       ELSE IF svc.op.late
       THEN Set(DropAdapter(With(x, [Ended(x.v) EXCEPT !.held = i]), svc.held))
       ELSE \E y \in Turns(x) : Set(y)

\* install_reconciled_simple_transport: the new adapter, and the resource ungated.
Installed(x) ==
    LET r == x.v.op.res
        y == ReplaceTransport(x, r, x.v.op.cand) IN
    With(y, [y.v EXCEPT !.gated = @ \ {r}, !.op.cand = NoAdapter])

\* discard_prepared_simple_overlay, then the installation.
DiscardStep ==
    /\ At("discard")
    /\ IF CanDiscard(svc)
       THEN LET x == Installed(With(Here, Discarded(svc))) IN
            /\ UNCHANGED left
            /\ Set(With(x, [Goto(x.v, "commit") EXCEPT !.quar = FALSE]))
       ELSE Await(Here, Cut, Disposing)

\* Compatibility probes.  configured_probes_ready_for_resource is TRUE, FALSE or an
\* error; configured_probes_ready looks at every native resource.
Unasked(v) == {r \in Native : v.probe[r] = "unknown"}
ProbesBegun(v, rs) ==
    [v EXCEPT !.probe = [q \in Resources |-> IF q \in rs \cap Unasked(v) THEN "queued" ELSE @[q]]]
ProbeFailed(v, r) == v.probe[r] = "bad"
ProbeReady(v, r) == r \in Native => v.probe[r] = "good"
AllProbesReady(v) == \A r \in Native : v.probe[r] = "good"

\* request_configured_physical_safe: whatever is unverified, on any resource.
UnverifiedAsked(v) ==
    [v EXCEPT !.out = [q \in Resources |-> IF @[q] = "unverified" THEN "pending" ELSE @[q]]]

\* The probe of the resource, queued as soon as it has fact credit.
ProbeStep ==
    LET r == svc.op.res
        refused == r \in Unasked(svc) /\ svc.exe[r].offline IN
    /\ At("probe")
    /\ IF ProbeFailed(svc, r) \/ refused \/ (ProbeReady(svc, r) /\ ~AllProbesReady(svc))
       THEN Set(Retiring(Here)) /\ UNCHANGED left
       ELSE IF ProbeReady(svc, r)
       THEN Set(With(Here, UnverifiedAsked(Goto(svc, "safing")))) /\ UNCHANGED left
       ELSE \/ Await(With(Here, ProbesBegun(svc, {r})), Retiring, Retiring)
            \/ r \in Unasked(svc) /\ Recorded(svc) /\ Await(Here, Retiring, Retiring)

\* configured_physical_outputs_safe: every physical output, not only this resource's.
SafingStep ==
    /\ At("safing")
    /\ IF OutputsSafe(svc) THEN Set(With(Here, Goto(svc, "commit"))) /\ UNCHANGED left
       ELSE Await(Here, Retiring, Retiring)

\* The owner's change: models restarted, or the file candidate put into effect.
ChangeStep ==
    LET x == IF svc.op.cand # NoAdapter THEN ReboundFromConfiguration(Here) ELSE Here
        probing == IF Op("file") THEN Native ELSE {} IN
    /\ At("change")
    /\ IF \E q \in probing \cap Unasked(x.v) : x.v.exe[q].offline
       THEN Set(Refused(x)) /\ UNCHANGED left
       ELSE \/ /\ UNCHANGED left
               /\ Set(With(x, Goto(ProbesBegun(x.v, probing), "commit")))
            \/ /\ left.faults > 0 /\ left' = [left EXCEPT !.faults = @ - 1]
               /\ Set(Refused(x))

\* commit_reserved_configuration_activation; a file revision stands either way.
CommitStep ==
    LET gen == svc.op.gen
        revised(v) == IF Op("file") THEN [v EXCEPT !.rev = @ + 1] ELSE v
        kept == [revised(Committed(svc, gen)) EXCEPT !.op.cancel = FALSE]
        lost == [revised(RecordingFailed(IF Op("file") THEN svc ELSE Cancelled(svc, gen)))
                   EXCEPT !.op.cancel = FALSE] IN
    /\ At("commit") /\ UNCHANGED <<ad, left>>
    /\ svc' = IF CanCommit(svc, gen)
              THEN [Goto(kept, "confirm") EXCEPT
                      !.quiesced = IF Op("file") /\ gen = 0 THEN FALSE ELSE @]
              ELSE IF Op("reconnect") THEN Goto(lost, "retire_failed") ELSE Ended(lost)

\* activate_configured_resource_after_reconnect.
Activates(v) == v.op.res \in v.gated /\ ProbeReady(v, v.op.res)

\* Mutant: the resource is released as soon as its lifecycle is submitted.
ConfirmUnawaited ==
    /\ At("confirm") /\ UNCHANGED left
    /\ Set(With(Here, [Ended(svc) EXCEPT !.gated = @ \ {svc.op.res}]))

\* live_activation_committed until the receipt, a failure or the deadline.
ConfirmStep ==
    LET lost(x) == LET v == RecordingFailed(x.v) IN
                   IF Op("reconnect") THEN Retiring(With(x, v)) ELSE With(x, Ended(v))
        turned(x) == IF Op("file") THEN x ELSE lost(x)
        v == Reopened(svc, svc.op.gen, svc.op.reopen) IN
    /\ At("confirm")
    /\ IF HasFailed(svc, svc.op.gen) THEN Set(lost(Here)) /\ UNCHANGED left
       ELSE IF ~IsDurable(svc, svc.op.gen) THEN Await(Here, turned, lost)
       ELSE /\ UNCHANGED left
            /\ Set(IF ~Op("reconnect") THEN With(Here, Ended(v))
                   ELSE IF Activates(v)
                   THEN With(Here, [Ended(v) EXCEPT !.gated = @ \ {svc.op.res}])
                   ELSE Retiring(With(Here, v)))

\* retire_failed_configured_reconnect: the new generation stays, closed and gated.
FailedRetired(x, r) ==
    LET y == ShutdownTransport(x, r) IN
    IF IsRetired(y, r) THEN With(y, [y.v EXCEPT !.closed = @ \cup {r}]) ELSE y

RetireFailedStep ==
    LET r == svc.op.res
        x == FailedRetired(Here, r) IN
    /\ At("retire_failed")
    /\ IF IsRetired(x, r) THEN Set(Refused(x)) /\ UNCHANGED left
       ELSE Await(x, Refused, Refused)

OperationStep ==
    \/ ReserveStep \/ FactsStep \/ RetireStep \/ OpenStep \/ OpeningStep \/ DisposeStep
    \/ DiscardStep \/ ProbeStep \/ SafingStep \/ ChangeStep \/ CommitStep \/ ConfirmStep
    \/ RetireFailedStep

-----------------------------------------------------------------------------
(* Requests.  One that is refused at once changes nothing and is no action.*)

OwnerIdle == svc.op.kind = "none" /\ svc.terminal = "none" /\ ~svc.panicked
Requested(kind) ==
    /\ OwnerIdle /\ ~svc.stopping /\ kind \in left.kinds /\ left.requests > 0
    /\ left' = [left EXCEPT !.requests = @ - 1]
Begins(v, kind, r, pc) == [v EXCEPT !.op = [NoOp EXCEPT !.kind = kind, !.res = r, !.pc = pc]]

\* reconnect_resource; a candidate retained by an earlier attempt is retired first.
RequestReconnect(r) ==
    LET i == svc.held
        watched == ~(svc.quar /\ r = Candidate) /\ i # NoAdapter
        x == IF watched THEN Lane(svc, [ad EXCEPT ![i] = TryShutdown(@)]) ELSE Here
        y == IF watched THEN DropAdapter(With(x, [svc EXCEPT !.held = NoAdapter]), i) ELSE x
        kind == IF svc.quar /\ r = Candidate THEN "reconcile" ELSE "reconnect" IN
    /\ Requested("reconnect") /\ svc.apply.phase = "none"
    /\ Set(IF watched /\ ~IsClosed(x.a[i]) THEN x
           ELSE With(y, Begins(y.v, kind, r, "reserve")))

\* enter_configuration_safe_barrier: one request and one safety turn.
BarrierAsked(v) ==
    [v EXCEPT !.out = [r \in Resources |->
        IF @[r] \in {"armed", "unverified"} THEN "pending" ELSE @[r]]]
Barrier(x) == PollExecutors(With(x, BarrierAsked(x.v)))

\* restart_virtual_models: not blocked by an application that is under way.
RequestRestart ==
    /\ Requested("restart")
    /\ IF HiddenController(svc) THEN Set(Here)
       ELSE IF HiddenOutput(svc) THEN Set(With(Here, BarrierAsked(svc)))
       ELSE \E y \in Barrier(Here) :
               IF ~OutputsSafe(y.v) THEN Set(y)
               ELSE Set(With(y, [Begins(Fenced(y.v), "restart", Candidate, "reserve")
                                   EXCEPT !.op.reopen = Fences(y.v), !.quiesced = TRUE]))

\* stage and stage_simple_device: one slot for both kinds of candidate.
SlotFree(v) == v.staged = "none"
SlotTakes(v, kind) == [v EXCEPT !.staged = kind]
\* consume_simple_device, and the take of apply.
Consumed(v) == [v EXCEPT !.staged = "none"]

StageFile(kind) ==
    /\ Requested("file") /\ ~svc.overlay /\ svc.apply.phase = "none" /\ SlotFree(svc)
    /\ Set(With(Here, SlotTakes(svc, kind)))
StageSimple(kind) ==
    /\ Requested(kind) /\ svc.apply.phase = "none" /\ ~svc.quar /\ SlotFree(svc)
    /\ ~svc.overlay                     \* bound: one overlay
    /\ Set(With(Here, SlotTakes(svc, kind)))

\* CANDIDATE_LIFETIME: a candidate that nobody applies is released.
StageExpires ==
    /\ OwnerIdle /\ ~SlotFree(svc)
    /\ svc' = Consumed(svc) /\ UNCHANGED <<ad, left>>

\* DeploymentLifecycle::apply: the candidate is taken; one barrier attempt, then the
\* bindings are prepared, then the commit; each of the first two as the diff demands.
FileApplied(x, r, kind) ==
    LET taken == With(x, Consumed(x.v))
        begun(y, pc) == With(y, [Begins(y.v, "file", r, pc) EXCEPT !.quiesced = TRUE]) IN
    IF kind = "live" THEN {begun(taken, "reserve")}
    ELSE {IF ~OutputsSafe(y.v) THEN With(y, [y.v EXCEPT !.quiesced = FALSE])
          ELSE begun(y, IF kind = "rebind" THEN "retire" ELSE "reserve") : y \in Barrier(taken)}

\* apply_staged_configuration_kind: the fence, then the apply.
RequestFile(r) ==
    /\ OwnerIdle /\ ~svc.stopping /\ UNCHANGED left
    /\ svc.staged \in {"live", "barrier", "rebind"}
    /\ \E y \in FileApplied(With(Here, Fenced(svc)), r, svc.staged) :
          Set(With(y, [y.v EXCEPT !.op.reopen = (y.v.op.kind = "file") /\ Fences(svc)]))

-----------------------------------------------------------------------------
(* The phased application of a simple-device candidate.                    *)

\* begin_simple_device_apply.
BeginApply ==
    /\ OwnerIdle /\ ~svc.stopping /\ svc.apply.phase = "none"
    /\ svc.staged \in {"sensor", "output", "controller"}
    /\ ~(svc.quar /\ HasOutput(svc.staged))
    /\ Set(With(Here, [Consumed(svc) EXCEPT
                          !.apply = [NoApply EXCEPT !.phase = "prepare", !.kind = svc.staged]]))
    /\ UNCHANGED left

Phase(v, phase) == [v EXCEPT !.apply.phase = phase]
ApplyAt(phase) == OwnerIdle /\ svc.apply.phase = phase /\ ~svc.apply.late

ApplyPrepares ==
    /\ ApplyAt("prepare") /\ UNCHANGED left
    /\ IF ~HasOutput(svc.apply.kind) THEN Set(With(Here, Phase(svc, "reserve")))
       ELSE \E y \in Barrier(Here) :
               IF ~OutputsSafe(y.v) THEN Set(y)
               ELSE Set(With(y, [Phase(y.v, "reserve") EXCEPT
                                   !.quiesced = TRUE, !.apply.quiesced = TRUE]))

\* The fence is closed once; a reservation waits for credit.
ApplyReserves ==
    LET v == IF svc.apply.begun THEN svc
             ELSE [Fenced(svc) EXCEPT !.apply.begun = TRUE, !.apply.reopen = Fences(svc)] IN
    /\ ApplyAt("reserve") /\ UNCHANGED <<ad, left>>
    /\ IF CannotReserve(v) THEN svc' = ApplyFailed(v)
       ELSE \/ svc' = [Phase(Reserved(v), "topology") EXCEPT !.apply.gen = Generation(v)]
            \/ Recorded(svc) /\ svc' = v

\* prepare_simple_device_overlay: registered, bound, and RequestSafe issued.
ApplyRegisters ==
    /\ ApplyAt("topology") /\ UNCHANGED ad
    /\ \/ /\ UNCHANGED left
          /\ svc' = IF HasOutput(svc.apply.kind)
                    THEN [Phase(svc, "safing") EXCEPT !.hid.state = "pending",
                                                      !.apply.actuator = TRUE]
                    ELSE Phase(svc, "commit")
       \/ /\ left.faults > 0 /\ left' = [left EXCEPT !.faults = @ - 1]
          /\ svc' = ApplyFailed(svc)

\* EstablishSafe: only evidence of the provisional authority itself counts.
ApplyEstablishesSafe ==
    /\ ApplyAt("safing") /\ svc.hid.state \in {"safe", "rejected", "fault"}
    /\ UNCHANGED <<ad, left>>
    /\ svc' = IF svc.hid.state = "safe" THEN Phase(svc, "commit") ELSE ApplyFailed(svc)

\* Commit: publication prepared in the owner's plan, then the lifecycle record.
ApplyCommits ==
    LET gen == svc.apply.gen
        listed == [svc EXCEPT !.hid.listed = TRUE, !.apply.published = TRUE] IN
    /\ ApplyAt("commit") /\ UNCHANGED <<ad, left>>
    /\ svc' = IF CanCommit(svc, gen) THEN Phase(Committed(listed, gen), "confirm")
              ELSE ApplyFailed(RecordingFailed(listed))

\* ConfirmRecording: the durable receipt publishes overlay, revision and output.
ApplyConfirms ==
    LET a == svc.apply
        v == Reopened(svc, a.gen, a.reopen)
        published == [v EXCEPT
            !.overlay = TRUE, !.rev = @ + 1, !.apply = NoApply, !.hid = NoHidden,
            !.out[Candidate] = IF HasOutput(a.kind) THEN v.hid.state ELSE @,
            !.exe[Candidate].job = IF @ = "hidden" THEN "safe" ELSE @,
            !.quiesced = IF a.quiesced THEN FALSE ELSE @] IN
    /\ ApplyAt("confirm") /\ UNCHANGED <<ad, left>>
    /\ HasFailed(svc, a.gen) \/ IsDurable(svc, a.gen)
    /\ svc' = IF HasFailed(svc, a.gen) THEN ApplyFailed(RecordingFailed(svc)) ELSE published

\* The deadline is checked before the phase.
ApplyTimesOut ==
    /\ OwnerIdle /\ svc.apply.late
    /\ svc' = ApplyFailed(svc) /\ UNCHANGED <<ad, left>>
ApplyDeadlinePasses ==
    /\ svc.apply.phase # "none" /\ ~svc.apply.late
    /\ svc' = [svc EXCEPT !.apply.late = TRUE] /\ UNCHANGED <<ad, left>>

\* poll_simple_device_apply.
PollApply ==
    \/ ApplyPrepares \/ ApplyReserves \/ ApplyRegisters \/ ApplyEstablishesSafe
    \/ ApplyCommits \/ ApplyConfirms \/ ApplyTimesOut

-----------------------------------------------------------------------------
(* Shutdown and the main loop.                                             *)

\* request_shutdown: the stop barrier, then RequestSafe for every output; the
\* query of a listed hidden controller fails before any of them.
ShutdownRequested(x) ==
    LET a == IF x.v.held = NoAdapter THEN x.a ELSE [x.a EXCEPT ![x.v.held] = Retire(@)]
        v == [x.v EXCEPT !.stopping = TRUE]
        safe == [v EXCEPT !.out = [r \in Resources |-> SafeRequested(@[r])],
                          !.hid.state = IF HiddenOutput(v) THEN SafeRequested(@) ELSE @] IN
    IF x.v.stopping THEN x
    ELSE IF HiddenController(v) THEN Lane([v EXCEPT !.fatal = TRUE], a)
    ELSE Lane(safe, a)

RequestShutdown == Requested("shutdown") /\ Set(ShutdownRequested(Here))

\* host.service(); an error of the turn is a fatal shutdown.
MainTurn ==
    LET fatal(x) == LET y == ShutdownRequested(x) IN With(y, [y.v EXCEPT !.fatal = TRUE]) IN
    /\ OwnerIdle
    /\ \/ /\ UNCHANGED left
          /\ \E y \in Turns(Here) : Set(IF TurnFails(svc) THEN fatal(y) ELSE y)
       \/ /\ "shutdown" \in left.kinds /\ left.faults > 0
          /\ left' = [left EXCEPT !.faults = @ - 1]
          /\ \E y \in Turns(Here) : Set(fatal(y))

\* shutdown_step: a turn, the retained candidate, the recorder, the verdict.
HeldProgressed(x) ==
    IF x.v.held = NoAdapter THEN x
    ELSE LET i == x.v.held
             y == [x EXCEPT !.a[i] = TryShutdown(@)] IN
         IF IsClosed(y.a[i]) THEN DropAdapter(With(y, [y.v EXCEPT !.held = NoAdapter]), i) ELSE y

Verdict(v) ==
    LET safe == PublishedSafe(v)
        finished == safe \/ v.safeLate
        flushed == v.rec.state \in {"absent", "closed"}
        retired == v.closed = Resources /\ v.held = NoAdapter
        clean == safe /\ flushed /\ retired /\ ~v.fatal IN
    IF ~finished THEN v
    ELSE [v EXCEPT !.flushing = TRUE,
                   !.rec.state = IF @ = "up" THEN "closing" ELSE @,
                   !.terminal = IF (flushed /\ (retired \/ ~safe)) \/ v.flushLate
                                THEN IF clean THEN "clean" ELSE "incomplete" ELSE @]
ShutdownStep ==
    /\ OwnerIdle /\ svc.stopping /\ UNCHANGED left
    /\ \E y \in Turns(Here) :
          LET x == HeldProgressed(y) IN Set(With(x, Verdict(x.v)))

SafetyDeadline ==
    /\ svc.stopping /\ ~svc.safeLate
    /\ svc' = [svc EXCEPT !.safeLate = TRUE] /\ UNCHANGED <<ad, left>>
FlushDeadline ==
    /\ svc.flushing /\ ~svc.flushLate
    /\ svc' = [svc EXCEPT !.flushLate = TRUE] /\ UNCHANGED <<ad, left>>

-----------------------------------------------------------------------------
(* Clients, devices, workers and the storage thread.                       *)

\* A manual write takes the lease of a safe output; the lease later expires.
Arm(r) ==
    /\ Requested("arm") /\ svc.out[r] = "safe" /\ svc.gate = "open"
    /\ Set(With(Here, [svc EXCEPT !.out[r] = "armed"]))
LeaseEnds(r) ==
    /\ svc.out[r] = "armed"
    /\ svc' = [svc EXCEPT !.out[r] = "pending"] /\ UNCHANGED <<ad, left>>

\* The transaction deadline of the active job: its executor goes offline.
TransactionExpires(r) ==
    /\ svc.exe[r].job # "none" /\ ~svc.exe[r].offline
    /\ svc' = QueueFenced(JobLost([svc EXCEPT !.exe[r].offline = TRUE], r), r)
    /\ UNCHANGED <<ad, left>>

WorkerStep(i) ==
    \/ /\ \E a \in WorkerGood(ad[i]) : ad' = [ad EXCEPT ![i] = a]
       /\ UNCHANGED <<svc, left>>
    \/ /\ left.faults > 0 /\ left' = [left EXCEPT !.faults = @ - 1]
       /\ \E a \in WorkerBad(ad[i]) : ad' = [ad EXCEPT ![i] = a]
       /\ UNCHANGED svc

RecorderCommits ==
    /\ svc.rec.pending # 0 /\ svc.rec.state \in {"up", "closing"}
    /\ svc' = [svc EXCEPT !.rec.committed = svc.rec.pending, !.rec.pending = 0]
    /\ UNCHANGED <<ad, left>>
RecorderCloses ==
    /\ svc.rec.state = "closing" /\ svc.rec.pending = 0
    /\ svc' = [svc EXCEPT !.rec.state = "closed"] /\ UNCHANGED <<ad, left>>
RecorderFails ==
    /\ svc.rec.state \in {"up", "closing"} /\ left.faults > 0
    /\ svc' = [svc EXCEPT !.rec.state = "failed"]
    /\ left' = [left EXCEPT !.faults = @ - 1] /\ UNCHANGED ad

\* The process has ended.
HasExited == svc.terminal # "none" \/ svc.panicked
Exited == HasExited /\ UNCHANGED vars

-----------------------------------------------------------------------------
Init ==
    /\ \E c \in Scenarios :
          LET first == CHOOSE f \in [Resources -> 1..Cardinality(Resources)] :
                          \A q, r \in Resources : f[q] = f[r] => q = r IN
          /\ svc = InitService(first, c.recorded)
          /\ ad = [i \in Adapters |->
                      IF \E r \in Resources : first[r] = i
                      THEN Running(CHOOSE r \in Resources : first[r] = i) ELSE Gone]
          /\ left = [requests |-> c.requests, faults |-> c.faults,
                     kinds |-> c.kinds, targets |-> c.targets]

OwnerStep ==
    \/ OperationStep \/ PollApply \/ MainTurn \/ ShutdownStep
    \/ RequestRestart \/ RequestShutdown \/ BeginApply \/ StageExpires
    \/ \E r \in left.targets : RequestReconnect(r) \/ Arm(r)
    \/ \E r \in left.targets \cap Native : RequestFile(r)
    \/ \E kind \in {"live", "barrier", "rebind"} : StageFile(kind)
    \/ \E kind \in {"sensor", "output", "controller"} : StageSimple(kind)

Elapses ==
    \/ DeadlinePasses \/ ApplyDeadlinePasses \/ SafetyDeadline \/ FlushDeadline
    \/ \E r \in Resources : LeaseEnds(r) \/ TransactionExpires(r)

Storage == RecorderCommits \/ RecorderCloses \/ RecorderFails

Next == OwnerStep \/ Elapses \/ Storage \/ (\E i \in Adapters : WorkerStep(i)) \/ Exited

Spec == Init /\ [][Next]_vars

\* The owner lane runs, and deadlines pass; no driver, device or storage thread is
\* ever obliged to return.  What the lane owes is stated on states in which its step
\* is enabled and changes something, which is weak fairness of that step.
OperationDue == svc.op.kind # "none" /\ (svc.op.late \/ svc.op.pc \notin Waits)
ShutdownDue ==
    /\ OwnerIdle /\ svc.stopping /\ svc.safeLate
    /\ svc.flushLate \/ ~svc.flushing
Fairness ==
    /\ []<>~OperationDue \/ []<><<OperationStep>>_vars
    /\ []<>~ShutdownDue \/ []<><<ShutdownStep>>_vars
    /\ WF_vars(ApplyTimesOut)
    /\ WF_vars(DeadlinePasses) /\ WF_vars(ApplyDeadlinePasses)
    /\ WF_vars(SafetyDeadline) /\ WF_vars(FlushDeadline)
FairSpec == Spec /\ Fairness

-----------------------------------------------------------------------------
\* A fence that closed the Required gate keeps it closed until its own lifecycle
\* is durable: no other operation reopens the gate in between
\* (begin_configuration_recording_fence, live_activation_committed).
FenceHolds ==
    /\ svc.apply.reopen => svc.gate # "open"
    /\ svc.op.reopen => svc.gate # "open"

\* Once the owner rests, nothing of an ended operation remains: no lifecycle or
\* fact credit, no quiesce, no listed candidate, and hidden output evidence only
\* under quarantine.  Errors propagated by `?` are excepted: they do leave some.
NothingIsLeftBehind ==
    OwnerIdle /\ svc.apply.phase = "none" /\ svc.rec.state = "up" /\ ~svc.cut =>
        /\ svc.rec.reserved = 0 /\ ~svc.rec.facts
        /\ ~svc.quiesced /\ ~svc.hid.listed
        /\ (svc.hid.state # "none") <=> svc.quar

\* The success exit says what it means of what shutdown_status looks at: every
\* configured output proved safe, every adapter the owner still keeps off its port,
\* and nothing unsealed in the recorder.  It promises no more: the quarantined output
\* of a failed application, which may be on (svc.quar), is not among what is looked at.
CleanExitIsHonest ==
    svc.terminal = "clean" =>
        /\ OutputsSafe(svc) /\ svc.rec.pending = 0
        /\ \A i \in Adapters : ~ad[i].dropped => ~UsesPort(ad[i])

\* Reconnect never opens a port beside a worker the owner still keeps for it, and
\* while recording works it lets go of no worker that may still use the port.
PortsAreWatched ==
    [][Op("reconnect") =>
         \A i \in Adapters :
            /\ ad[i] = Gone /\ ad'[i] # Gone =>
                  \A j \in Adapters :
                     ad[j].res = svc.op.res /\ UsesPort(ad[j]) => ad[j].dropped
            /\ svc.rec.state \in {"up", "absent"} /\ ~ad[i].dropped /\ ad'[i].dropped =>
                  ~UsesPort(ad[i])]_vars

\* What a lifecycle releases is durable first: a reconnected resource also has its
\* probe, its outputs safe and a live binding; a published overlay its output safe,
\* unless the stop has asked for it again.
ReleaseIsEarned ==
    [][/\ Op("reconnect") =>
             \A r \in svc.gated \ svc'.gated :
                /\ IsDurable(svc, svc.op.gen) /\ svc.bind[r] > 1 /\ ~svc.exe[r].closed
                /\ r \in Native => svc.probe[r] = "good"
                /\ svc.out[r] \in {"none", "safe"}
       /\ svc'.overlay /\ ~svc.overlay =>
             /\ IsDurable(svc, svc.apply.gen)
             /\ HasOutput(svc.apply.kind) /\ ~svc.stopping => svc.hid.state = "safe"]_vars

\* A hidden output that may have been written is never forgotten before the commit
\* that lists it, except by the reconciliation that retired the worker that wrote it.
EvidenceIsKept ==
    [][/\ svc.hid.sent /\ svc.hid.state # "safe" /\ ~svc.hid.listed /\ ~svc'.hid.sent =>
             /\ Op("reconcile")
             /\ ~UsesPort(ad[svc.exe[Candidate].adapter])
       /\ svc.quar /\ ~svc'.quar => svc'.hid = NoHidden]_vars

\* Whatever drivers, devices and storage do, an operation is answered, an
\* application ends and a shutdown reaches its verdict.
WorkEnds ==
    /\ (svc.op.kind # "none") ~> (svc.op.kind = "none")
    /\ (svc.apply.phase # "none") ~> (svc.apply.phase = "none" \/ HasExited)
    /\ svc.stopping ~> HasExited

\* The rollback of a published candidate meets its cleanup invariant: the expect
\* "prepared SimpleDevice rollback cleanup invariant" never fails.
RollbackNeverPanics == ~svc.panicked

=============================================================================
