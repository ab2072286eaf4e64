--------------------------- MODULE RuntimeControl ---------------------------
(***************************************************************************)
(* The part of `Runtime` (crates/lab-core/src/runtime) that stands between *)
(* an output's owners, its authority and its resource: output commands,    *)
(* manual control, native controllers, the required-recording gate, the    *)
(* correlation of transport events with dispatches, the safety service and *)
(* the rebind.  Every handler is an operator from a runtime record to a    *)
(* result: the record it leaves behind, and whether it returned Ok.        *)
(*                                                                         *)
(* One actuator, and either the device that executes it (Physical) or the  *)
(* simulated plant.  Abstractions.  Owner time never runs backwards here,  *)
(* so the checks of output_time and transport_time pass.  Profiles, units, *)
(* ranges and codecs are validated at configuration: an admitted value can *)
(* be encoded, and the plant accepts it.  What a controller's input and    *)
(* its algorithms give at one call is the argument `input`:                *)
(*    "bad"      no fresh Good sample, or the calculation fails,           *)
(*    "warming"  a sample seen before, or a filter that needs more: enough *)
(*               to go on warming up, not to compute an output,            *)
(*    "ready"    a new sample and a filter that is ready.                  *)
(* The sample outlives the proposal made from it.                          *)
(* What the bytes of a completed response say is `decode`: "match",        *)
(* "mismatch" or "malformed".  Of the gate, valid_until is                 *)
(* confirmed + ProgressAge whenever it is open; `lost` is the overflow of  *)
(* the fact outbox.  Recorded facts and samples are left out.  `sent_safe` *)
(* is history: the latest send was the safe write.                         *)
(***************************************************************************)
EXTENDS OutputAuthority, SequencesExt

CONSTANTS
    Physical,         \* a bound device, or the simulated plant
    Evidence,         \* required_evidence of the configured profile
    MaxQueued,        \* MAX_QUEUED_TRANSACTIONS
    RequestLen,       \* bytes of a request
    ResponseLen,      \* bytes of its expected response
    RecoveryTimeout,  \* recovery_timeout of the resource
    QueueTtl,         \* output_queue_ttl of the binding
    Timeout,          \* output_timeout of the binding
    LeaseLifetime,    \* lease_lifetime of a controller
    MaxTickGap,       \* max_tick_gap of a controller
    ProposalTtl,      \* proposal_ttl of a controller
    ProgressAge       \* REQUIRED_PROGRESS_AGE

INSTANCE ResourceExecutor

\* validate_controller_config: the cadence is shorter than the lease.
ASSUME ConfigAssumption ==
    /\ Physical \in BOOLEAN
    /\ Evidence \in EvidenceLevel
    /\ {QueueTtl, Timeout, LeaseLifetime, MaxTickGap, ProposalTtl, ProgressAge}
          \subseteq Nat \ {0}
    /\ MaxTickGap < LeaseLifetime
    /\ LeaseLifetime <= MaxLease
    /\ IsFiniteSet(AutomaticOwners)

Controllers == AutomaticOwners

Live == {"Warming", "Running"}

NewRuntime(required) ==
    [auth |-> New(1),
     ex |-> NewExecutor(1),
     generation |-> 1,
     writes |-> {},
     readbacks |-> {},
     unsettled |-> None,
     sent_safe |-> FALSE,
     ctl |-> [c \in Controllers |-> [state |-> "Created", lease |-> None, last_tick |-> 0]],
     gate |-> [enabled |-> required, open |-> FALSE, failed |-> FALSE, lost |-> FALSE,
               confirmed |-> 0]]

-----------------------------------------------------------------------------
(* Results.  Then is the `?` of the code.                                  *)

Done(r) == [ok |-> TRUE, rt |-> r]

Refused(r) == [ok |-> FALSE, rt |-> r]

Then(result, F(_)) == IF result.ok THEN F(result.rt) ELSE result

-----------------------------------------------------------------------------
(* Required recording.                                                     *)

\* Mutant: a controller that only prepares is overlooked.
RecordingFailureKeepsWarming(r) ==
    IF ~r.gate.enabled \/ r.gate.failed THEN r
    ELSE [r EXCEPT
            !.gate = [@ EXCEPT !.open = FALSE, !.failed = TRUE],
            !.ctl = [c \in Controllers |->
                        IF @[c].state = "Running"
                        THEN [@[c] EXCEPT !.state = "Failed", !.lease = None] ELSE @[c]],
            !.auth = Trip(@, TRUE)]

RecordingFailure(r) ==
    IF ~r.gate.enabled \/ r.gate.failed THEN r
    ELSE [r EXCEPT
            !.gate = [@ EXCEPT !.open = FALSE, !.failed = TRUE],
            !.ctl = [c \in Controllers |->
                        IF @[c].state \in Live
                        THEN [@[c] EXCEPT !.state = "Failed", !.lease = None] ELSE @[c]],
            !.auth = Trip(@, TRUE)]

ServiceRecordingDeadline(r, at) ==
    IF /\ r.gate.enabled
       /\ r.gate.lost \/ (r.gate.open /\ at >= r.gate.confirmed + ProgressAge)
    THEN RecordingFailure(r)
    ELSE r

RecordingOpen(r) == ~r.gate.enabled \/ r.gate.open

RequireRecordingOpen(r, at) ==
    LET s == ServiceRecordingDeadline(r, at)
    IN  IF RecordingOpen(s) THEN Done(s) ELSE Refused(s)

\* require_recording: admission waits for a new confirmation.
RequireRecording(r) ==
    [r EXCEPT !.gate = [@ EXCEPT !.enabled = TRUE, !.open = FALSE, !.failed = FALSE]]

\* confirm_recording_start: the start barrier, submitted at `submitted`, is durable.
ConfirmRecordingStart(r, submitted, at) ==
    IF ~r.gate.enabled \/ r.gate.failed THEN Refused(r)
    ELSE IF at >= submitted + ProgressAge THEN Refused(RecordingFailure(r))
    ELSE Done([r EXCEPT !.gate = [@ EXCEPT !.open = TRUE, !.confirmed = submitted]])

\* confirm_recording_progress: only a strictly newer submission extends the gate.
ConfirmRecordingProgress(r, submitted, at) ==
    LET s == ServiceRecordingDeadline(r, at)
    IN  IF ~s.gate.open \/ submitted <= s.gate.confirmed THEN Refused(s)
        ELSE IF at >= submitted + ProgressAge THEN Refused(RecordingFailure(s))
        ELSE Done([s EXCEPT !.gate.confirmed = submitted])

CloseRequiredRecording(r) ==
    IF r.gate.enabled THEN [r EXCEPT !.gate.open = FALSE] ELSE r

-----------------------------------------------------------------------------
(* Output commands.                                                        *)

\* check_output_time with the watchdogs; an epoch that cannot advance is an error.
CheckOutputTime(r, at) ==
    [ok |-> r.auth.lease = None \/ at < r.auth.lease.expires \/ BumpEpochOk(r.auth),
     rt |-> [r EXCEPT !.auth = Tick(@, at)]]

WarmingOn(r) == \E c \in Controllers : r.ctl[c].state = "Warming"

CancelWarming(r, state) ==
    [r EXCEPT !.ctl = [c \in Controllers |->
        IF @[c].state = "Warming" THEN [@[c] EXCEPT !.state = state] ELSE @[c]]]

\* What every Command::Output does first.
OutputEntry(r, at, ordinary) ==
    LET s == ServiceRecordingDeadline(r, at)
    IN  IF ordinary /\ ~RecordingOpen(s) THEN Refused(s) ELSE CheckOutputTime(s, at)

\* OutputCommand::RequestSafe, or with a fault OutputCommand::Trip.
SafeOutput(r, at, fault) ==
    Then(OutputEntry(r, at, FALSE),
         LAMBDA s :
            [ok |-> s.auth.profile # None /\ BumpEpochOk(s.auth),
             rt |-> [CancelWarming(s, IF fault THEN "Failed" ELSE "Paused")
                        EXCEPT !.auth = Trip(@, fault)]])

BindOutput(r, at) ==
    Then(OutputEntry(r, at, FALSE),
         LAMBDA s : IF WarmingOn(s) THEN Refused(s)
                    ELSE [ok |-> BindOk(s.auth) /\ BumpEpochOk(s.auth),
                          rt |-> [s EXCEPT !.auth = Bind(@, Evidence)]])

AcknowledgeOutputFault(r, at) ==
    Then(OutputEntry(r, at, TRUE),
         LAMBDA s : [ok |-> AcknowledgeFaultOk(s.auth),
                     rt |-> [s EXCEPT !.auth = AcknowledgeFault(@)]])

-----------------------------------------------------------------------------
(* Delivery.                                                               *)

\* Mutant: a failed admission keeps its reservation.
QueueOutputLeaks(r, at) ==
    LET deadline == at + QueueTtl
        reserved == [r EXCEPT !.auth = ReserveTransport(@, at, deadline, r.generation)]
        intent == ReservedIntent(r.auth, deadline, r.generation)
    IN  IF ~ReserveOk(r.auth, at, deadline, r.generation) THEN Refused(reserved)
        ELSE IF ~EnqueueOutputOk(r.ex, intent, at, deadline, Timeout) THEN Refused(reserved)
        ELSE Done([reserved EXCEPT
                     !.ex = EnqueueOutput(@, intent, deadline, Timeout),
                     !.writes = @ \cup {[tx |-> r.ex.next_transaction, intent |-> intent]}])

\* queue_metakon_output: reserve, then admit; a failed admission gives back.
QueueOutput(r, at) ==
    LET deadline == at + QueueTtl
        reserved == [r EXCEPT !.auth = ReserveTransport(@, at, deadline, r.generation)]
        intent == ReservedIntent(r.auth, deadline, r.generation)
    IN  IF ~ReserveOk(r.auth, at, deadline, r.generation) THEN Refused(reserved)
        ELSE IF ~EnqueueOutputOk(r.ex, intent, at, deadline, Timeout)
        THEN Refused([reserved EXCEPT !.auth = AbortTransport(@, intent)])
        ELSE Done([reserved EXCEPT
                     !.ex = EnqueueOutput(@, intent, deadline, Timeout),
                     !.writes = @ \cup {[tx |-> r.ex.next_transaction, intent |-> intent]}])

\* The simulated send: begun and verified in one call.
Simulated(r, at) ==
    IF ~BeginOk(r.auth, at) THEN Refused([r EXCEPT !.auth = Begin(@, at)])
    ELSE LET begun == Begin(r.auth, at)
         IN  Done([r EXCEPT !.auth = Complete(begun, begun.in_flight.id, "ReadbackVerified"),
                            !.sent_safe = begun.in_flight.safe])

\* The next manual attempt.
NextAttempt(a) == IF a.manual_attempt = None THEN 1 ELSE a.manual_attempt.id + 1

Proposed(a, lease, ttl, at) ==
    LET p == Propose(a, lease, ttl, at)
    IN  IF lease.owner \in ManualOwners THEN TrackManualAttempt(p, NextAttempt(a)) ELSE p

\* deliver_physical and deliver_simulated.
Deliver(r, lease, ttl, at) ==
    IF ~ProposeOk(r.auth, lease, ttl, at) THEN Refused(r)
    ELSE Then(RequireRecordingOpen([r EXCEPT !.auth = Proposed(@, lease, ttl, at)], at),
              LAMBDA s : IF Physical THEN QueueOutput(s, at) ELSE Simulated(s, at))

\* What a request for the safe state continues with when the plant is simulated.
SettleSimulated(r, at) == IF Physical THEN Done(r) ELSE Simulated(r, at)

-----------------------------------------------------------------------------
(* Manual control.                                                         *)

\* Mutant: manual control does not look for a controller that prepares.
ManualEntryUnguarded(r, owner, at) ==
    Then(OutputEntry(r, at, FALSE),
         LAMBDA s : IF \/ s.auth.epoch # r.auth.epoch
                       \/ s.auth.lease # None /\ s.auth.lease.owner # owner
                    THEN Refused(s) ELSE Done(s))

\* manual_output up to its choice: the client expects the epoch it has last seen,
\* and nobody else owns or prepares the output.
ManualEntry(r, owner, at) ==
    Then(OutputEntry(r, at, FALSE),
         LAMBDA s : IF \/ s.auth.epoch # r.auth.epoch
                       \/ WarmingOn(s)
                       \/ s.auth.lease # None /\ s.auth.lease.owner # owner
                    THEN Refused(s) ELSE Done(s))

ManualAcquire(r, owner, lifetime, at) ==
    Then(ManualEntry(r, owner, at),
         LAMBDA s : Then(OutputEntry(s, at, TRUE),
         LAMBDA t : [ok |-> AcquireOk(t.auth, lifetime) /\ BumpEpochOk(t.auth),
                     rt |-> [t EXCEPT !.auth = Acquire(@, owner, lifetime, at)]]))

ManualRenew(r, owner, lifetime, at) ==
    Then(ManualEntry(r, owner, at),
         LAMBDA s : IF s.auth.lease = None THEN Refused(s)
                    ELSE Then(OutputEntry(s, at, TRUE),
         LAMBDA t : [ok |-> RenewOk(t.auth, s.auth.lease, lifetime, at),
                     rt |-> [t EXCEPT !.auth = Renew(@, s.auth.lease, lifetime, at)]]))

ManualSafe(r, owner, at) ==
    Then(ManualEntry(r, owner, at), LAMBDA s : SafeOutput(s, at, FALSE))

ManualBusy(a) ==
    \/ a.pending # None
    \/ a.in_flight # None
    \/ a.manual_attempt # None /\ ~a.manual_attempt.terminal

\* No ordinary proposal survives a failed admission: an attempt that began here
\* is failed and the safe state requested.
ManualWrite(r, owner, ttl, at) ==
    Then(ManualEntry(r, owner, at),
         LAMBDA s : IF ManualBusy(s.auth) THEN Refused(s)
                    ELSE Then(RequireRecordingOpen(s, at),
         LAMBDA t : IF t.auth.lease = None THEN Refused(t)
                    ELSE LET d == Deliver(t, t.auth.lease, ttl, at)
                             failed == [d.rt EXCEPT !.auth = FailManualBeforeSend(@)]
                         IN  IF d.ok \/ NextAttempt(d.rt.auth) = NextAttempt(t.auth)
                             THEN d
                             ELSE Refused(SafeOutput(failed, at, FALSE).rt)))

-----------------------------------------------------------------------------
(* Native controllers.                                                     *)

SetCtl(r, c, state) == [r EXCEPT !.ctl[c].state = state]

\* fail_controller: fail closed, whoever revoked the lease; never touch another
\* owner's lease.
FailController(r, c, at) ==
    LET lease == r.ctl[c].lease
        failed == [r EXCEPT !.ctl[c] = [@ EXCEPT !.state = "Failed", !.lease = None]]
        tripped == [failed EXCEPT !.auth = Trip(@, TRUE)]
    IN  IF \/ lease # None /\ r.auth.lease = lease
           \/ r.auth.lease = None /\ r.auth.state = "SafePending"
        THEN IF BumpEpochOk(r.auth) THEN SettleSimulated(tripped, at) ELSE Refused(tripped)
        ELSE Done(failed)

\* activate_controller: the lease is acquired after the warm-up, not before.
ActivateController(r, c, at) ==
    IF ~CanPrepare(r.auth) THEN Refused(SetCtl(r, c, "Failed"))
    ELSE LET acquired == [r EXCEPT !.auth = Acquire(@, c, LeaseLifetime, at)]
         IN  IF acquired.auth.lease # None
             THEN Done([acquired EXCEPT
                          !.ctl[c] = [@ EXCEPT !.state = "Running",
                                               !.lease = acquired.auth.lease]])
             ELSE Refused(SetCtl(acquired, c, "Failed"))

PrepareController(r, c) ==
    IF r.ctl[c].state = "Created" /\ r.auth.profile # None
    THEN Done(SetCtl(r, c, "Ready")) ELSE Refused(r)

\* The guards of start_or_resume_controller.
MayPrepare(r, c, expected) ==
    /\ r.ctl[c].state = expected
    /\ ~WarmingOn(r)
    /\ CanPrepare(r.auth)

\* StartController expects Ready, ResumeController Paused.
StartOrResume(r, c, expected, at, input) ==
    Then(RequireRecordingOpen(r, at),
         LAMBDA s : Then(CheckOutputTime(s, at),
         LAMBDA t : IF ~MayPrepare(t, c, expected) \/ input = "bad" THEN Refused(t)
                    ELSE LET w == [t EXCEPT !.ctl[c] = [@ EXCEPT !.state = "Warming",
                                                                 !.last_tick = at]]
                         IN  IF input = "ready" THEN ActivateController(w, c, at) ELSE Done(w)))

AdvanceWarming(r, c, at, input) ==
    LET ticked == [r EXCEPT !.ctl[c].last_tick = at]
        attempt == IF at - r.ctl[c].last_tick > MaxTickGap \/ input = "bad" THEN Refused(r)
                   ELSE IF input = "ready" THEN ActivateController(ticked, c, at)
                   ELSE Done(ticked)
    IN  IF attempt.ok THEN attempt ELSE Refused(SetCtl(attempt.rt, c, "Failed"))

\* calculate_controller_update succeeds.
MayUpdate(r, c, at, input) ==
    /\ at - r.ctl[c].last_tick <= MaxTickGap
    /\ at < r.ctl[c].lease.expires
    /\ r.auth.lease = r.ctl[c].lease
    /\ input = "ready"

\* Mutant: the controller keeps the lease it had.
RenewNativeUnshared(r, c, at) ==
    LET lease == r.ctl[c].lease
        renewed == Renew(r.auth, lease, LeaseLifetime, at)
    IN  IF RenewOk(r.auth, lease, LeaseLifetime, at)
        THEN Done([r EXCEPT !.auth = renewed])
        ELSE Refused(r)

\* renew_native.  The owner and the authority hold the new lease.
RenewNative(r, c, at) ==
    LET lease == r.ctl[c].lease
        renewed == Renew(r.auth, lease, LeaseLifetime, at)
    IN  IF RenewOk(r.auth, lease, LeaseLifetime, at)
        THEN Done([r EXCEPT !.auth = renewed, !.ctl[c].lease = renewed.lease])
        ELSE Refused(r)

\* A Running controller proposes; only simulated evidence renews its lease here.
UpdateController(r, c, at, input) ==
    LET lease == r.ctl[c].lease
        delivered == IF ~MayUpdate(r, c, at, input) THEN Refused(r)
                     ELSE Deliver(r, lease, Earlier(ProposalTtl, lease.expires - at), at)
        renewed == IF delivered.ok /\ ~Physical THEN RenewNative(delivered.rt, c, at)
                   ELSE delivered
    IN  IF renewed.ok THEN Done([renewed.rt EXCEPT !.ctl[c].last_tick = at])
        ELSE Refused(FailController(renewed.rt, c, at).rt)

TickController(r, c, at, input) ==
    Then(RequireRecordingOpen(r, at),
         LAMBDA s : Then(CheckOutputTime(s, at),
         LAMBDA t : IF t.ctl[c].state \notin Live \/ at <= t.ctl[c].last_tick THEN Refused(t)
                    ELSE IF t.ctl[c].state = "Warming" THEN AdvanceWarming(t, c, at, input)
                    ELSE UpdateController(t, c, at, input)))

\* A paused controller gives its lease back; a watchdog may have done so already.
Pause(r, c, at) ==
    LET lease == r.ctl[c].lease
        paused == [r EXCEPT !.ctl[c] = [@ EXCEPT !.state = "Paused", !.lease = None]]
        revoked == [paused EXCEPT !.auth = RequestSafe(@, FALSE)]
    IN  IF \/ r.auth.lease = lease /\ CheckLease(r.auth, lease, at)
           \/ r.auth.lease = None /\ r.auth.state = "SafePending"
        THEN IF BumpEpochOk(r.auth) THEN SettleSimulated(revoked, at) ELSE Refused(revoked)
        ELSE Done(paused)

PauseController(r, c, at) ==
    Then(CheckOutputTime(r, at),
         LAMBDA s : CASE s.ctl[c].state = "Warming" -> Done(SetCtl(s, c, "Paused"))
                      [] s.ctl[c].state = "Running" -> Pause(s, c, at)
                      [] OTHER -> Refused(s))

ResetOk(r, c) ==
    /\ r.ctl[c].state = "Failed" /\ r.ctl[c].lease = None
    /\ ~WarmingOn(r)
    /\ CanPrepare(r.auth)

ResetFailedController(r, c, at) ==
    Then(CheckOutputTime(r, at),
         LAMBDA s : IF ResetOk(s, c) THEN Done(SetCtl(s, c, "Paused")) ELSE Refused(s))

-----------------------------------------------------------------------------
(* Transport events.                                                       *)

\* settle_controller_after_physical_readback: evidence renews the lease of the
\* controller that waits for it.  An error loses the controller.
SettleController(r, matched, at) ==
    LET waiting == {c \in Controllers : r.ctl[c].state = "Running" /\ r.ctl[c].lease # None}
        c == CHOOSE w \in waiting : TRUE
        renewal == IF matched THEN RenewNative(r, c, at) ELSE Refused(r)
        failure == FailController(r, c, at)
    IN  IF waiting = {} THEN Done(r)
        ELSE IF renewal.ok THEN renewal
        ELSE IF failure.ok THEN failure
        ELSE Refused(SetCtl(failure.rt, c, "Removed"))

SettleNormal(r, intent, matched, at) ==
    IF intent.safe THEN Done(r) ELSE SettleController(r, matched, at)

\* Whether a call that revokes for `dispatch` returns Ok.
RevokeOk(a, dispatch) == IsInFlight(a, dispatch) /\ BumpEpochOk(a)

FailOutputReadback(r, pending, at) ==
    Then([ok |-> RevokeOk(r.auth, pending.dispatch),
          rt |-> [r EXCEPT !.auth = FailTransportReadback(@, pending.dispatch)]],
         LAMBDA s : SettleNormal(s, pending.intent, FALSE, at))

RejectResponse(r) == [r EXCEPT !.ex = ProtocolFailure(@)]

HandleReadback(r, pending, event, at, decode) ==
    IF pending.intent.generation # r.generation THEN Done(r)
    ELSE IF event.outcome # "Completed" THEN FailOutputReadback(r, pending, at)
    ELSE IF decode = "malformed"
    THEN Then(FailOutputReadback(r, pending, at), LAMBDA s : Done(RejectResponse(s)))
    ELSE LET matched == decode = "match"
         IN  Then([ok |-> IsInFlight(r.auth, pending.dispatch) /\ (matched \/ BumpEpochOk(r.auth)),
                   rt |-> [r EXCEPT !.auth =
                              CompleteTransportReadback(@, pending.dispatch, matched)]],
                  LAMBDA s : SettleNormal(s, pending.intent, matched, at))

\* The separate read that follows an acknowledgement.
QueueReadback(r, event, at) ==
    LET pending == [tx |-> r.ex.next_transaction, intent |-> event.intent,
                    dispatch |-> event.dispatch]
    IN  IF EnqueueReadOk(r.ex, at, at + Timeout, Timeout)
        THEN Done([r EXCEPT !.ex = EnqueueRead(@, at + Timeout, Timeout, FALSE),
                            !.readbacks = @ \cup {pending}])
        ELSE FailOutputReadback(r, pending, at)

HandleAcknowledged(r, event, at) ==
    IF r.auth.profile = "Readback"
    THEN Then([ok |-> IsInFlight(r.auth, event.dispatch),
               rt |-> [r EXCEPT !.auth = AcknowledgeTransport(@, event.dispatch)]],
              LAMBDA s : QueueReadback(s, event, at))
    ELSE Then([ok |-> IsInFlight(r.auth, event.dispatch),
               rt |-> [r EXCEPT !.auth = Complete(@, event.dispatch, "Acknowledged")]],
              LAMBDA s : SettleNormal(s, event.intent, TRUE, at))

Uncertain(r, dispatch) ==
    [ok |-> RevokeOk(r.auth, dispatch),
     rt |-> [r EXCEPT !.auth = TransportUncertain(@, dispatch)]]

Ambiguous(r, dispatch) ==
    [ok |-> RevokeOk(r.auth, dispatch),
     rt |-> [r EXCEPT !.auth = Complete(@, dispatch, "Ambiguous")]]

\* The answer is not the acknowledgement: the dispatch waits for the boundary.
HandleRefusedAck(r, event) ==
    Then(Uncertain(r, event.dispatch),
         LAMBDA s : Done(RejectResponse([s EXCEPT !.unsettled =
                        [intent |-> event.intent, dispatch |-> event.dispatch]])))

HandleOutputTerminal(r, event, at, decode) ==
    LET known == \E w \in r.writes : w.tx = event.id
        s == [r EXCEPT !.writes = {w \in @ : w.tx # event.id}]
    IN  IF event.dispatch = None
        THEN Done([s EXCEPT !.auth = FailTransportBeforeSend(@, event.intent)])
        ELSE IF event.outcome # "Completed" \/ event.intent.generation # r.generation
        THEN Ambiguous(s, event.dispatch)
        ELSE IF known /\ decode = "match" THEN HandleAcknowledged(s, event, at)
        ELSE HandleRefusedAck(s, event)

\* handle_transport_event.
HandleEvent(r, event, at, decode) ==
    LET readback == {p \in r.readbacks : p.tx = event.id}
        s == [r EXCEPT !.readbacks = @ \ readback]
    IN  CASE event.type \in {"ReadUnavailable", "BoundaryFailed"} -> Done(r)
          [] event.type = "ReadFenced" ->
                IF readback = {} THEN Done(r)
                ELSE FailOutputReadback(s, CHOOSE p \in readback : TRUE, at)
          [] event.type = "ReadTerminal" ->
                IF readback # {}
                THEN HandleReadback(s, CHOOSE p \in readback : TRUE, event, at, decode)
                ELSE IF event.outcome = "Completed" /\ decode = "malformed"
                THEN Done(RejectResponse(r))
                ELSE Done(r)
          [] event.type = "OutputUncertain" ->
                Uncertain([r EXCEPT !.writes = {w \in @ : w.tx # event.id}], event.dispatch)
          [] event.type = "OutputTerminal" -> HandleOutputTerminal(r, event, at, decode)
          [] OTHER ->  \* BoundaryRecovered
                IF r.unsettled = None THEN Done(r)
                ELSE Ambiguous([r EXCEPT !.unsettled = None], r.unsettled.dispatch)

-----------------------------------------------------------------------------
(* Polling and the safety service.                                         *)

\* The intent whose first byte the next poll would offer, None if there is none.
OfferedIntent(ex) ==
    IF ex.state = "Active" THEN ex.tx.intent
    ELSE IF ex.state = "Idle" /\ (ex.safe_queue # None \/ ex.queue # <<>>)
    THEN Taken(ex).intent ELSE None

\* The closure poll_transports hands to the executor.
Authorized(r, intent, at) ==
    /\ intent.safe \/ RecordingOpen(r)
    /\ intent.generation = r.generation
    /\ ValidateTransport(r.auth, intent, at)

\* One poll of the resource.  The dispatch is that of the send it would start.
\* The executor's record of the latest transaction is not read by this part.
PollResource(r, at, answer) ==
    LET intent == OfferedIntent(r.ex)
        may == intent # None /\ Authorized(r, intent, at)
        id == IF may /\ BeginTransportOk(r.auth, intent, at)
              THEN [instance |-> r.auth.instance, sequence |-> r.auth.next_dispatch] ELSE None
        polled == PollState(r.ex, at,
                            [authorized |-> may, dispatch |-> id, written |-> answer.written,
                             read |-> answer.read, recover |-> answer.recover])
        sent == /\ id # None
                /\ \/ polled.tx # None /\ polled.tx.dispatch = id
                   \/ \E i \in DOMAIN polled.events : polled.events[i].dispatch = id
        s == [r EXCEPT !.ex = [TakeEvent(polled) EXCEPT !.latest = None],
                       !.auth = IF sent THEN BeginTransport(@, intent, at) ELSE @,
                       !.sent_safe = IF sent THEN intent.safe ELSE @]
    IN  IF polled.events = <<>> THEN Done(s)
        ELSE HandleEvent(s, Head(polled.events), at, answer.decode)

PollTransports(r, at, answer) ==
    Then(CheckOutputTime(ServiceRecordingDeadline(r, at), at),
         LAMBDA s : IF Physical THEN PollResource(s, at, answer) ELSE Done(s))

\* What the safety service asks of each controller.
Supervise(r, c, at, bad) ==
    LET ctl == r.ctl[c]
        lost == ctl.state = "Running" /\ ctl.lease # None /\ r.auth.lease # ctl.lease
    IN  IF ctl.state \notin Live \/ ~(at - ctl.last_tick > MaxTickGap \/ c \in bad \/ lost) THEN r
        ELSE IF ctl.state = "Warming" THEN SetCtl(r, c, "Failed")
        ELSE FailController(r, c, at).rt

\* One after the other, in the order of their keys.
SuperviseAll(r, at, bad) ==
    LET order == SetToSeq(Controllers)
        after[i \in 0..Len(order)] ==
            IF i = 0 THEN r ELSE Supervise(after[i - 1], order[i], at, bad)
    IN  after[Len(order)]

\* Mutant: an output whose fault is latched is passed over.
ServeSafeUnlatched(r, at) ==
    IF r.auth.state # "SafePending" \/ r.auth.in_flight # None \/ r.auth.fault_latched THEN r
    ELSE IF Physical THEN QueueOutput(r, at).rt ELSE Simulated(r, at).rt

\* An owed safe write is sent, or queued when nothing is in flight.
ServeSafe(r, at) ==
    IF r.auth.state # "SafePending" \/ r.auth.in_flight # None THEN r
    ELSE IF Physical THEN QueueOutput(r, at).rt ELSE Simulated(r, at).rt

ServiceSafety(r, at, bad, answer) ==
    Then(CheckOutputTime(ServiceRecordingDeadline(r, at), at),
         LAMBDA s : PollTransports(ServeSafe(SuperviseAll(s, at, bad), at), at, answer))

-----------------------------------------------------------------------------
(* Retirement and rebind.                                                  *)

\* shutdown_transport: an error in one event drops the events after it.
ShutdownTransport(r, at, complete) ==
    LET retired == TryShutdown(r.ex, complete)
        handled[i \in 0..Len(retired.events)] ==
            IF i = 0 THEN Done([r EXCEPT !.ex = [retired EXCEPT !.events = <<>>]])
            ELSE Then(handled[i - 1],
                      LAMBDA s : HandleEvent(s, retired.events[i], at, "match"))
    IN  handled[Len(retired.events)]

\* A rebind forgets the correlations and starts a new authority.
Rebound(r) ==
    [r EXCEPT !.generation = @ + 1, !.writes = {}, !.readbacks = {},
              !.auth = New(r.auth.instance + 1)]

RebindDevice(r, at) ==
    IF \E c \in Controllers : r.ctl[c].state \in Live THEN Refused(r)
    ELSE Then(CheckOutputTime(r, at), LAMBDA s : Done(Rebound(s)))

\* The host's reconnect of a retired resource: one more shutdown, a new executor,
\* the rebind and the configured profile, in one turn.
Reconnect(r, at) ==
    Then(ShutdownTransport(r, at, TRUE),
         LAMBDA s : Then(RebindDevice([s EXCEPT !.ex = NewExecutor(@.generation + 1)], at),
         LAMBDA t : BindOutput(t, at)))

=============================================================================
