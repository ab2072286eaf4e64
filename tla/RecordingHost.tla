---------------------------- MODULE RecordingHost ----------------------------
(***************************************************************************)
(* The recorder inside its process: the host's handlers that feed it       *)
(* (host/recording.rs), the application's recording, annotation and        *)
(* history requests (application/recording.rs), a live configuration       *)
(* activation (service/configuration.rs) and shutdown, over the storage    *)
(* thread of RecorderWorker and the archive of RecorderArchive.            *)
(*                                                                         *)
(* The owner lane is one thread, so a handler is one action; a handler     *)
(* that reads the recorder twice with an effect between the reads is split *)
(* at host.pc, because the storage thread runs between the reads.  The     *)
(* process may die at any step: everything but the archive is lost, and    *)
(* the next boot opens the archive again.                                  *)
(***************************************************************************)
EXTENDS RecorderWorker

CONSTANTS
    Policy,        \* "required" or "best_effort", fixed by trusted startup
    Ops,           \* request identities of one boot (scope and sequence)
    Connections,   \* clients that read archived history
    MaxPending,    \* pending operation identities (64)
    MaxOutbox,     \* facts of the Core outbox (MAX_RECORDING_FACTS = 256)
    MaxFacts,      \* bound: facts one boot produces
    MaxTurns,      \* bound: owner-side requests of all boots together
    MaxTicks,      \* bound: elapsed seconds of all boots together
    MaxFaults,     \* bound: storage faults and panics of all boots together
    MaxBoots,      \* bound: processes that open the archive
    Allowed        \* bound: the request kinds a run explores

VARIABLES
    host,          \* HostCore and ApplicationOwner as far as the recorder goes
    left,          \* bound counters: what is left of turns, ticks and faults
    captured,      \* history: facts captured for each run of each boot
    promised       \* history: runs whose stop was answered as completed

vars == <<w, worker, store, host, left, captured, promised>>

Boots == Len(store.file)

NoLifecycle == [op |-> 0, start |-> FALSE, run |-> 0]
NoApply == [phase |-> "none", gen |-> 0, reopen |-> FALSE]
Snapshot(own) ==
    [state |-> own.state, run |-> own.run, generation |-> own.generation,
     failurePersisted |-> own.failurePersisted]

\* HostCore and the application after attach_recorder.
InitHost ==
    [status |-> Snapshot(InitOwner), gate |-> "closed", attached |-> FALSE,
     capturing |-> FALSE, outbox |-> <<>>, overflow |-> FALSE, lost |-> 0, nextFact |-> 1,
     pending |-> <<>>, used |-> {}, rebind |-> 0, finish |-> FALSE, stopping |-> FALSE,
     pc |-> "free", op |-> 0, lifecycle |-> NoLifecycle, apply |-> NoApply,
     history |-> [c \in Connections |-> 0], orphans |-> {}]

Required == Policy = "required"

\* The owner's side of one step: the recorder handle and the host around it.
Lane(world, h) == [w |-> world, h |-> h]

-----------------------------------------------------------------------------
(* The Required gate and the Core fact outbox, as the host calls them.     *)

\* require_recording, confirm_recording_start, recording_failure,
\* close_required_recording; the progress deadline is not modelled here.
GateRequired(h) == IF Required THEN [h EXCEPT !.gate = "closed"] ELSE h
GateConfirmed(h) ==
    IF Required /\ h.gate # "failed" THEN [h EXCEPT !.gate = "open"] ELSE h
GateFailed(h) == IF Required THEN [h EXCEPT !.gate = "failed"] ELSE h
GateClosed(h) ==
    IF Required /\ h.gate = "open" THEN [h EXCEPT !.gate = "closed"] ELSE h

\* FactOutbox: enable clears the overflow, disable the facts.
Enabled(h) == [h EXCEPT !.capturing = TRUE, !.overflow = FALSE, !.lost = 0]
Disabled(h) == [h EXCEPT !.capturing = FALSE, !.outbox = <<>>]

\* FactOutbox::push: identities advance even when the payload is denied.
Pushed(h) ==
    IF ~h.capturing THEN h
    ELSE IF h.overflow \/ Len(h.outbox) >= MaxOutbox
    THEN [h EXCEPT !.nextFact = @ + 1, !.overflow = TRUE,
                   !.lost = IF @ = 0 THEN h.nextFact ELSE @]
    ELSE [h EXCEPT !.nextFact = @ + 1, !.outbox = Append(@, h.nextFact)]

-----------------------------------------------------------------------------
(* Pending operations: a function from request identities.                 *)

IsPending(h, op) == op \in DOMAIN h.pending
WithPending(h, op, entry) ==
    [h EXCEPT !.pending = [o \in DOMAIN @ \cup {op} |-> IF o = op THEN entry ELSE @[o]]]
WithoutPending(h, op) ==
    [h EXCEPT !.pending = [o \in DOMAIN @ \ {op} |-> @[o]]]

Operation(op, command, phase) == [op |-> op, command |-> command, phase |-> phase]
NoOperation == Operation(0, "none", "none")

-----------------------------------------------------------------------------
(* poll_recorder and the handlers it completes.                            *)

\* flush_deferred_safe_terminals: one deferred terminal, when credit allows.
FlushSafeTerminal(g) ==
    LET waiting == {op \in DOMAIN g.h.pending : g.h.pending[op].terminal # NoOperation} IN
    IF waiting = {} THEN g
    ELSE LET op == CHOOSE o \in waiting : \A other \in waiting : o <= other
             terminal == g.h.pending[op].terminal IN
         With(OperationCredit(g.w, terminal), LAMBDA credit :
              IF credit.answer # "yes" THEN [g EXCEPT !.w = credit.w]
              ELSE With(AdmitOperation(credit.w, terminal), LAMBDA sent :
                        Lane(sent.w, IF sent.ok THEN WithoutPending(g.h, op)
                                     ELSE GateFailed(g.h))))

\* flush_deferred_start_acceptance: the start's own acceptance follows its boundary.
FlushStart(g) ==
    LET waiting == {op \in DOMAIN g.h.pending : g.h.pending[op].start} IN
    IF waiting = {} THEN g
    ELSE LET op == CHOOSE o \in waiting : TRUE IN
         With(AdmitOperation(g.w, Operation(op, "recording_start", "accepted")), LAMBDA sent :
              Lane(sent.w, IF sent.ok THEN [g.h EXCEPT !.pending[op].start = FALSE,
                                                       !.pending[op].recorded = TRUE]
                           ELSE GateFailed(g.h)))

\* Capture is over: envelopes that never entered the channel are returned.
ReturnEnvelope(g) ==
    IF g.h.rebind = 0 THEN Lane(Poll(g.w), g.h)
    ELSE Lane(Poll(CancelFacts(g.w, g.h.rebind)), [g.h EXCEPT !.rebind = 0])

\* The edge that opens the gate: this poll saw the committed Start.
Activated(prior, state) == prior # "recording" /\ state = "recording"

\* The state a poll returned decides the gate and ends the envelope.
Gated(h, state) ==
    IF Activated(h.status.state, state) THEN GateConfirmed(h)
    ELSE IF state = "failed" THEN Disabled(GateFailed(h)) ELSE h
Settled(g) ==
    IF g.w.own.state \in {"failed", "closed"} THEN ReturnEnvelope(g) ELSE g
Seen(g) == [g EXCEPT !.h.status = Snapshot(g.w.own)]

\* While recording, what waits for credit is tried, and a due probe is asked for.
Probed(g) == [g EXCEPT !.w = RequestProbe(@).w]
Flushed(g) ==
    IF g.h.status.state # "recording" THEN g ELSE Probed(FlushSafeTerminal(g))

PollRecorder(g) ==
    Polled(g.w, LAMBDA p :
        With(Flushed(Seen(Settled(Lane(p, Gated(g.h, p.own.state))))), LAMBDA flushed :
             IF Activated(g.h.status.state, p.own.state) THEN FlushStart(flushed)
             ELSE flushed))

\* Mutant: the outbox that overflowed is dropped with the fact it could not take.
AdmitOutboxGapFirst(g, captureReference) ==
    LET facts == g.h.outbox
        drained == [g.h EXCEPT !.outbox = <<>>] IN
    IF g.h.overflow
    THEN Lane(FailWithGap(g.w, g.h.lost), GateFailed(Disabled(drained)))
    ELSE With(IF captureReference /\ g.w.own.reservation.held
              THEN [ok |-> Len(facts) <= 1, w |-> CaptureCompletion(g.w, facts)]
              ELSE IF facts = <<>> THEN [ok |-> TRUE, w |-> g.w]
              ELSE AdmitFacts(g.w, facts), LAMBDA admitted :
              Lane(admitted.w, IF admitted.ok THEN drained ELSE GateFailed(drained)))

\* admit_recording_facts_inner: the whole outbox is one causal group.
AdmitOutbox(g, captureReference) ==
    LET facts == g.h.outbox
        drained == [g.h EXCEPT !.outbox = <<>>] IN
    With(IF captureReference /\ g.w.own.reservation.held
         THEN [ok |-> Len(facts) <= 1, w |-> CaptureCompletion(g.w, facts)]
         ELSE IF facts = <<>> THEN [ok |-> TRUE, w |-> g.w]
         ELSE AdmitFacts(g.w, facts), LAMBDA admitted :
         IF g.h.overflow
         THEN Lane(FailWithGap(admitted.w, g.h.lost), GateFailed(Disabled(drained)))
         ELSE Lane(admitted.w, IF admitted.ok THEN drained ELSE GateFailed(drained)))

AdmitRecordingFacts(g) == PollRecorder(AdmitOutbox(g, TRUE))

-----------------------------------------------------------------------------
(* record_operation.                                                       *)

Entry(command, start, terminal) ==
    [command |-> command, recorded |-> FALSE, start |-> start, terminal |-> terminal]

\* The transfer of one application fact; a refusal closes the Required gate.
TransferOperation(g, operation) ==
    LET accepted == operation.phase = "accepted" IN
    With(IF operation.command = "reference_retune" /\ g.w.own.reservation.held
         THEN IF accepted THEN CommitAcceptance(g.w, operation)
              ELSE CommitCompletion(g.w, operation)
         ELSE AdmitOperation(g.w, operation), LAMBDA sent :
         Lane(sent.w, IF ~sent.ok THEN GateFailed(g.h)
                      ELSE IF accepted THEN [g.h EXCEPT !.pending[operation.op].recorded = TRUE]
                      ELSE g.h))

\* Whether the current interval, a sealed stop or a reservation takes the fact.
TakesOperation(g, operation) ==
    \/ g.h.status.state \in {"starting", "recording"}
    \/ /\ operation.phase # "accepted" /\ g.h.status.state = "idle"
       /\ operation.command = "recording_stop"
    \/ /\ operation.phase # "accepted" /\ operation.command = "reference_retune"
       /\ g.w.own.reservation.held

RecordAccepted(g, operation) ==
    LET defer == g.h.status.state = "idle" /\ operation.command = "recording_start"
        entered == [g EXCEPT !.h = WithPending(@, operation.op,
                                               Entry(operation.command, defer, NoOperation))] IN
    PollRecorder(
        IF Cardinality(DOMAIN g.h.pending) >= MaxPending /\ ~IsPending(g.h, operation.op)
        THEN Lane(FailWithGap(g.w, 0), GateFailed(g.h))
        ELSE IF ~defer /\ TakesOperation(entered, operation)
        THEN TransferOperation(entered, operation)
        ELSE entered)

\* Mutant: a terminal without credit is admitted like any other.
NeverDefers(g, operation) == FALSE

\* A safe-reducing terminal waits in the tracker until credit is released.
MustDefer(g, operation) ==
    /\ operation.command = "controller_pause" /\ IsPending(g.h, operation.op)
    /\ OperationCredit(g.w, operation).answer = "no"

\* Mutant: the deferred terminal takes its operation out of the tracker.
ForgottenTerminal(h, operation) == WithoutPending(h, operation.op)

DeferredTerminal(h, operation) == [h EXCEPT !.pending[operation.op].terminal = operation]

RecordTerminal(g, operation) ==
    PollRecorder(
        IF ~TakesOperation(g, operation)
        THEN [g EXCEPT !.h = WithoutPending(@, operation.op)]
        ELSE IF MustDefer(g, operation)
        THEN Lane(Poll(g.w), DeferredTerminal(g.h, operation))
        ELSE [TransferOperation(g, operation) EXCEPT !.h = WithoutPending(@, operation.op)])

-----------------------------------------------------------------------------
(* Actions of the owner lane.  A request spends one of the explored turns. *)

Spend(kind) == kind \in Allowed /\ left.turns > 0 /\ left' = [left EXCEPT !.turns = @ - 1]
Free == host.attached /\ host.pc = "free"
Here == Lane(w, host)
Becomes(g) == w' = g.w /\ host' = g.h
ThreadStays == UNCHANGED <<worker, store>>
HistoryStays == UNCHANGED <<captured, promised>>

\* Startup waits for the receipt of the frozen activation set.
Attached(g) ==
    Polled(g.w, LAMBDA p :
        Lane(p, [g.h EXCEPT !.status = Snapshot(p.own),
                            !.attached = p.own.generation # 0 /\ p.own.state # "failed"]))

Ready ==
    /\ ~host.attached
    /\ Becomes(Attached(Here))
    /\ ThreadStays /\ HistoryStays /\ UNCHANGED left

\* HostCore::service: poll, service the Core, admit its facts, poll.
Serviced(g) == AdmitRecordingFacts(PollRecorder(g))

ServiceTurn ==
    /\ Free
    /\ Becomes(Serviced(Here))
    /\ ThreadStays /\ HistoryStays /\ UNCHANGED left

\* The Core publishes a fact of the running interval.
CaptureNow(h) ==
    IF h.capturing
    THEN captured' = [captured EXCEPT ![Boots][Len(captured[Boots])] = @ \cup {h.nextFact}]
    ELSE UNCHANGED captured

Produce ==
    /\ Free /\ host.capturing /\ host.nextFact <= MaxFacts
    /\ host' = Pushed(host) /\ CaptureNow(host)
    /\ ThreadStays /\ UNCHANGED <<w, left, promised>>

\* A second passes: a clock fact and a quiet-run probe are due.  Bound: only a
\* second in which the storage thread caught up is explored.
Tick ==
    /\ Free /\ left.ticks > 0 /\ left' = [left EXCEPT !.ticks = @ - 1]
    /\ host.status.state = "recording" /\ w.queue = <<>> /\ worker.at = "idle"
    /\ w' = [w EXCEPT !.own.due = {"clock", "probe"}]
    /\ ThreadStays /\ HistoryStays /\ UNCHANGED host

-----------------------------------------------------------------------------
(* recording_start and recording_stop.                                     *)

\* Request sequences are used in order.
Unused(op) == op \notin host.used /\ \A earlier \in Ops : earlier < op => earlier \in host.used
Use(g, op) == [g EXCEPT !.h.used = @ \cup {op}]

\* The application's answer to a lifecycle request before any barrier.
StartRefused(h) == h.lifecycle.op # 0 \/ h.stopping \/ h.status.state # "idle"

EnabledAtBoundary(g) == [g EXCEPT !.h = Enabled(@)]

\* The barrier is asked for unless the application already refused.
Starting(accepted) ==
    IF StartRefused(accepted.h) THEN [ok |-> FALSE, g |-> accepted]
    ELSE With(RequestStart(accepted.w), LAMBDA started :
              [ok |-> started.ok, g |-> Lane(started.w, accepted.h)])

AnswerStart(op, starting) ==
    IF ~starting.ok
    THEN /\ Becomes(RecordTerminal(starting.g, Operation(op, "recording_start", "failed")))
         /\ UNCHANGED captured
    ELSE /\ Becomes(EnabledAtBoundary(
                [starting.g EXCEPT
                    !.h.pc = "starting",
                    !.h.lifecycle = [op |-> op, start |-> TRUE,
                                      run |-> starting.g.h.status.run]]))
         /\ captured' = [captured EXCEPT ![Boots] = Append(@, {})]

ClientStart(op) ==
    /\ Free /\ Unused(op) /\ Spend("start")
    /\ AnswerStart(op, Starting(
           Use(RecordAccepted(Here, Operation(op, "recording_start", "accepted")), op)))
    /\ ThreadStays /\ UNCHANGED promised

\* The poll that ends start_recording; a fast worker may have committed already.
FinishStart ==
    /\ host.pc = "starting"
    /\ Becomes([PollRecorder(Here) EXCEPT !.h.pc = "free"])
    /\ ThreadStays /\ HistoryStays /\ UNCHANGED left

\* Mutant: the stop barrier is queued without draining the Core outbox first.
StopWithoutDrain(g) == PollRecorder(g)

DrainForStop(g) == PollRecorder(AdmitRecordingFacts(g))

\* stop_recording_at, once the application admitted it; safe says that no
\* controller runs and every output is safe.
StopRecording(g, safe) ==
    With(DrainForStop(g), LAMBDA drained :
        IF Required /\ ~safe THEN [ok |-> FALSE, g |-> drained]
        ELSE With(RequestStop(drained.w, DOMAIN drained.h.pending), LAMBDA stopped :
             [ok |-> stopped.ok,
              g |-> IF ~stopped.ok THEN Lane(stopped.w, drained.h)
                    ELSE Seen(Lane(Poll(stopped.w), Disabled(GateClosed(drained.h))))]))

StopRefused(h) == h.lifecycle.op # 0 \/ h.status.state # "recording"

Stopping(accepted, safe) ==
    IF StopRefused(accepted.h) THEN [ok |-> FALSE, g |-> accepted]
    ELSE StopRecording(accepted, safe)

AnswerStop(op, run, stopping) ==
    IF ~stopping.ok
    THEN RecordTerminal(stopping.g, Operation(op, "recording_stop", "failed"))
    ELSE [stopping.g EXCEPT !.h.lifecycle = [op |-> op, start |-> FALSE, run |-> run]]

ClientStop(op) ==
    /\ Free /\ Unused(op) /\ Spend("stop")
    /\ \E safe \in BOOLEAN :
         Becomes(With(Use(RecordAccepted(Here, Operation(op, "recording_stop", "accepted")), op),
                      LAMBDA accepted :
                      AnswerStop(op, accepted.h.status.run, Stopping(accepted, safe))))
    /\ ThreadStays /\ HistoryStays

\* Mutant: the stop is answered as soon as its barrier is queued.
AnsweredWhenQueued(h) ==
    h.status.state \in (IF h.lifecycle.start THEN {"recording", "failed"}
                        ELSE {"idle", "failed", "stopping"})

\* poll_recording: the answer waits for the committed barrier or the failure.
LifecycleDone(h) ==
    h.status.state \in (IF h.lifecycle.start THEN {"recording", "failed"} ELSE {"idle", "failed"})

PollRecording ==
    /\ Free /\ host.lifecycle.op # 0 /\ LifecycleDone(host)
    /\ LET completed == host.status.state # "failed"
           command == IF host.lifecycle.start THEN "recording_start" ELSE "recording_stop"
           terminal == Operation(host.lifecycle.op, command,
                                 IF completed THEN "completed" ELSE "failed") IN
       /\ Becomes([RecordTerminal(Here, terminal) EXCEPT !.h.lifecycle = NoLifecycle])
       /\ promised' = IF completed /\ ~host.lifecycle.start
                      THEN promised \cup {[boot |-> Boots, run |-> host.lifecycle.run]}
                      ELSE promised
    /\ ThreadStays /\ UNCHANGED <<left, captured>>

-----------------------------------------------------------------------------
(* Other audited operations, annotations and history.                      *)

\* A command whose terminal comes later; controller_pause is safe-reducing.
ClientAccept(op, command) ==
    /\ Free /\ ~host.stopping /\ Unused(op) /\ Spend(command)
    /\ Becomes(Use(RecordAccepted(Here, Operation(op, command, "accepted")), op))
    /\ ThreadStays /\ HistoryStays

ClientFinish(op) ==
    /\ Free /\ IsPending(host, op)
    /\ host.pending[op].command \in {"controller_pause", "write"}
    /\ host.pending[op].terminal = NoOperation
    /\ \E phase \in {"completed", "failed"} :
         Becomes(RecordTerminal(Here, Operation(op, host.pending[op].command, phase)))
    /\ ThreadStays /\ HistoryStays /\ UNCHANGED left

Annotate ==
    /\ Free /\ host.status.state = "recording" /\ Spend("annotate")
    /\ Becomes(PollRecorder(With(AdmitAnnotation(w), LAMBDA sent :
               Lane(sent.w, IF sent.ok THEN host ELSE GateFailed(host)))))
    /\ ThreadStays /\ HistoryStays

\* One archived read per connection (pending_history).
ReadHistory(c) ==
    /\ Free /\ host.history[c] = 0 /\ Spend("history")
    /\ LET asked == RequestHistory(w) IN
       Becomes(Lane(asked.w, [host EXCEPT !.history[c] = asked.job]))
    /\ ThreadStays /\ HistoryStays

\* poll_history takes a finished page, or gives up after its deadline.
TakePage(c) ==
    /\ Free /\ host.history[c] # 0
    /\ LET taken == TakeHistory(w, host.history[c]) IN
       taken.ok /\ Becomes(Lane(taken.w, [host EXCEPT !.history[c] = 0]))
    /\ ThreadStays /\ HistoryStays /\ UNCHANGED left

ExpirePage(c) ==
    /\ Free /\ host.history[c] # 0
    /\ Becomes(Lane(CancelHistory(w, host.history[c]), [host EXCEPT !.history[c] = 0]))
    /\ ThreadStays /\ HistoryStays /\ UNCHANGED left

\* A connection that ends leaves its job to the next poll_history.
Disconnect(c) ==
    /\ Free /\ host.history[c] # 0
    /\ host' = [host EXCEPT !.orphans = @ \cup {host.history[c]}, !.history[c] = 0]
    /\ ThreadStays /\ HistoryStays /\ UNCHANGED <<w, left>>

CancelOrphan ==
    /\ Free
    /\ \E job \in host.orphans :
         Becomes(Lane(CancelHistory(w, job), [host EXCEPT !.orphans = @ \ {job}]))
    /\ ThreadStays /\ HistoryStays /\ UNCHANGED left

-----------------------------------------------------------------------------
(* A Reference mutation: reserve, accept, dispatch and terminal are one    *)
(* handler; the storage thread may run between its recorder calls.         *)

\* reserve_reference_operation at the new-identity gate.
Reserved(g, op) ==
    LET state == g.h.status.state
        goesOn == [g EXCEPT !.h.used = @ \cup {op}, !.h.pc = "reserved", !.h.op = op] IN
    IF \/ Cardinality(DOMAIN g.h.pending) >= MaxPending
       \/ state \in {"starting", "stopping"}
       \/ Required /\ state \in {"failed", "closed"}
    THEN g
    ELSE IF state # "recording" THEN goesOn
    ELSE With(ReserveReference(g.w, op), LAMBDA reserved :
              Lane(reserved.w, IF reserved.answer = "yes" THEN goesOn.h ELSE g.h))

ReferenceReserve(op) ==
    /\ Free /\ ~host.stopping /\ Unused(op) /\ Spend("reference")
    /\ Becomes(Reserved(AdmitRecordingFacts(Here), op))
    /\ ThreadStays /\ HistoryStays

ReferenceAccept ==
    /\ host.pc = "reserved"
    /\ Becomes([RecordAccepted(Here, Operation(host.op, "reference_retune", "accepted"))
                 EXCEPT !.h.pc = "accepted"])
    /\ ThreadStays /\ HistoryStays /\ UNCHANGED left

\* prepare_reference_recording: the last drain before the effect.
PrepareRecording(g) ==
    With(AdmitOutbox(PollRecorder(g), FALSE), LAMBDA drained :
        LET state == drained.h.status.state
            refused == /\ Required
                       /\ \/ state \in {"failed", "closed"}
                          \/ state \in {"starting", "recording"} /\ drained.h.gate # "open" IN
        [ok |-> ~refused, g |-> IF refused THEN PollRecorder(drained) ELSE drained])

\* prepare_reference_completion checks the reservation between two drains.
PrepareCompletion(g, op) ==
    With(PrepareRecording(g), LAMBDA first :
        IF ~first.ok \/ first.g.h.status.state \notin {"starting", "recording"} THEN first
        ELSE With(CompletionReady(first.g.w, op), LAMBDA ready :
             With(PrepareRecording(Lane(ready.w, IF ready.answer THEN first.g.h
                                                 ELSE GateFailed(first.g.h))), LAMBDA second :
                  [second EXCEPT !.ok = @ /\ ready.answer])))

\* The dispatch drains once more; shutdown admits no effect.
Prepared(g, op) ==
    With(PrepareCompletion(g, op), LAMBDA prepared :
        IF ~prepared.ok THEN prepared
        ELSE With(PrepareRecording(prepared.g), LAMBDA again :
                  [again EXCEPT !.ok = @ /\ ~host.stopping]))

Publishes(h) == h.capturing /\ h.nextFact <= MaxFacts

\* The effect publishes at most one Reference fact, captured for the completion.
Dispatched(prepared, effect) ==
    LET g == prepared.g
        published == IF effect /\ Publishes(g.h) THEN [g EXCEPT !.h = Pushed(@)] ELSE g IN
    /\ effect => prepared.ok
    /\ Becomes([(IF prepared.ok THEN PollRecorder(AdmitRecordingFacts(published)) ELSE g)
                  EXCEPT !.h.pc = "dispatched"])
    /\ IF effect /\ Publishes(g.h) THEN CaptureNow(g.h) ELSE UNCHANGED captured

ReferenceDispatch ==
    /\ host.pc = "accepted"
    /\ \E effect \in BOOLEAN : Dispatched(Prepared(Here, host.op), effect)
    /\ ThreadStays /\ UNCHANGED <<left, promised>>

ReferenceTerminal ==
    /\ host.pc = "dispatched"
    /\ \E phase \in {"completed", "failed"} :
         Becomes([RecordTerminal(Here, Operation(host.op, "reference_retune", phase))
                   EXCEPT !.h.pc = "free", !.h.op = 0])
    /\ ThreadStays /\ HistoryStays /\ UNCHANGED left

-----------------------------------------------------------------------------
(* A live configuration activation and a rebind envelope.                  *)

\* begin_configuration_recording_fence and try_reserve_configuration_activation;
\* without credit the fence stays and the reservation is tried again.
Fenced(h) ==
    IF h.apply.phase = "fenced" THEN h
    ELSE [(IF h.gate = "open" THEN GateRequired(h) ELSE h) EXCEPT
            !.apply = [phase |-> "fenced", gen |-> 0, reopen |-> h.gate = "open"]]

ActivationReserved(g) ==
    With(ReserveLive(g.w), LAMBDA reserved :
        CASE reserved.answer = "yes" ->
                Lane(reserved.w, [g.h EXCEPT !.apply.phase = "reserved",
                                             !.apply.gen = reserved.w.own.liveGen])
          [] reserved.answer = "no" -> Lane(reserved.w, g.h)
          [] reserved.answer = "error" ->
                AdmitRecordingFacts(Lane(reserved.w, [g.h EXCEPT !.apply = NoApply])))

ApplyReserve ==
    /\ Free /\ ~host.stopping
    /\ \/ host.apply.phase = "none" /\ Spend("apply")
       \/ host.apply.phase = "fenced" /\ UNCHANGED left
    /\ Becomes(ActivationReserved(PollRecorder(AdmitRecordingFacts(Lane(w, Fenced(host))))))
    /\ ThreadStays /\ HistoryStays

\* cancel_configuration_activation: facts first, then the unused credit.
Cancelled(g) ==
    With(AdmitRecordingFacts(g), LAMBDA drained :
        With(IF drained.h.rebind = 0 THEN drained.w ELSE CancelFacts(drained.w, drained.h.rebind),
             LAMBDA returned :
             Lane(IF returned.own.liveGen # 0 THEN CancelLive(returned) ELSE returned,
                  [drained.h EXCEPT !.rebind = 0, !.apply = NoApply])))

\* commit_reserved_configuration_activation after the owner's commit.
ApplyCommit ==
    /\ Free /\ host.apply.phase = "reserved"
    /\ Becomes(With(CommitLive(w), LAMBDA sent :
               IF sent.ok THEN Lane(sent.w, [host EXCEPT !.apply.phase = "committed"])
               ELSE Cancelled(Lane(sent.w, GateFailed(host)))))
    /\ ThreadStays /\ HistoryStays /\ UNCHANGED left

\* A deadline or a refused step before the commit.
ApplyAbort ==
    /\ Free /\ host.apply.phase \in {"fenced", "reserved"}
    /\ Becomes(Cancelled(Here))
    /\ ThreadStays /\ HistoryStays /\ UNCHANGED left

\* live_activation_committed: the durable generation reopens the gate it fenced.
Confirmed(polled) ==
    With(PollRecorder(polled), LAMBDA g :
        IF g.h.status.state = "failed" THEN Cancelled(Lane(g.w, GateFailed(g.h)))
        ELSE IF g.h.status.generation < g.h.apply.gen THEN g
        ELSE [g EXCEPT !.h = [(IF g.h.apply.reopen THEN GateConfirmed(g.h) ELSE g.h)
                                EXCEPT !.apply = NoApply]])

ApplyConfirm ==
    /\ Free /\ host.apply.phase = "committed"
    /\ Becomes(Confirmed(Here))
    /\ ThreadStays /\ HistoryStays /\ UNCHANGED left

\* reserve_rebind_facts: the envelope a synchronous rebind will use.
RebindReserve ==
    /\ Free /\ ~host.stopping /\ host.rebind = 0 /\ Spend("rebind")
    /\ Becomes(With(PollRecorder(Here), LAMBDA g :
               IF g.h.status.state # "recording" THEN g
               ELSE With(ReserveFacts(g.w), LAMBDA reserved :
                         Lane(reserved.w, [g.h EXCEPT !.rebind = reserved.token]))))
    /\ ThreadStays /\ HistoryStays

\* admit_rebind_facts: the baseline facts go through the reserved envelope.
RebindAdmit ==
    /\ Free /\ host.rebind # 0
    /\ \E baseline \in BOOLEAN :
         LET publishes == baseline /\ Publishes(host)
             h == IF publishes THEN Pushed(host) ELSE host IN
         /\ Becomes(With(AdmitReserved(w, h.rebind, h.outbox), LAMBDA sent :
                With(Lane(sent.w, [h EXCEPT !.outbox = <<>>, !.rebind = 0]), LAMBDA after :
                     IF sent.ok THEN AdmitRecordingFacts(after) ELSE after)))
         /\ IF publishes THEN CaptureNow(host) ELSE UNCHANGED captured
    /\ ThreadStays /\ UNCHANGED <<left, promised>>

-----------------------------------------------------------------------------
(* Shutdown and failure.                                                   *)

RequestShutdown ==
    /\ Free /\ ~host.stopping /\ Spend("shutdown")
    /\ host' = [host EXCEPT !.stopping = TRUE]
    /\ ThreadStays /\ HistoryStays /\ UNCHANGED w

\* Mutant: only a boot with a run is sealed.
FinishAfterRun(h) == ~h.finish /\ h.status.state = "idle" /\ h.status.run # 0

MayFinish(h) ==
    /\ ~h.finish
    /\ \/ h.status.state = "idle"
       \/ h.status.state = "failed" /\ h.status.failurePersisted

\* ServiceHost::shutdown_step services the host, then shutdown_recorder_step stops
\* the run, seals the boot and lets the worker close.
SealRecorder(g) ==
    IF g.h.status.state = "recording"
    THEN With(RequestStop(g.w, DOMAIN g.h.pending), LAMBDA stopped :
              Lane(stopped.w, IF stopped.ok THEN Disabled(GateClosed(g.h)) ELSE g.h))
    ELSE IF ~MayFinish(g.h) THEN g
    ELSE With(RequestFinish(g.w, g.h.gate), LAMBDA finished :
              Lane(finished.w, [g.h EXCEPT !.finish = finished.ok]))

ShutDown(g) == PollRecorder(SealRecorder(PollRecorder(Serviced(g))))

ShutdownStep ==
    /\ Free /\ host.stopping
    /\ Becomes(ShutDown(Here))
    /\ ThreadStays /\ HistoryStays /\ UNCHANGED left

OwnerStays == UNCHANGED <<host, captured, promised>>

StorageStep == StorageThread /\ OwnerStays /\ UNCHANGED left

Fault ==
    /\ left.faults > 0 /\ left' = [left EXCEPT !.faults = @ - 1]
    /\ (StorageFault \/ PublishFault \/ Panic)
    /\ OwnerStays

\* The process ends, killed or closed; the next one opens the same archive.
Reboot ==
    /\ Boots < MaxBoots
    /\ store' = Connection(OpenBoot(store.file))
    /\ w' = RequestActivation(InitWorld).w
    /\ worker' = InitWorker /\ host' = InitHost
    /\ captured' = Append(captured, <<>>)
    /\ UNCHANGED <<left, promised>>

Init ==
    /\ store = Connection(OpenBoot(<<>>))
    /\ w = RequestActivation(InitWorld).w
    /\ worker = InitWorker /\ host = InitHost
    /\ left = [turns |-> MaxTurns, ticks |-> MaxTicks, faults |-> MaxFaults]
    /\ captured = <<<<>>>> /\ promised = {}

ReferenceStep == ReferenceAccept \/ ReferenceDispatch \/ ReferenceTerminal

Next ==
    \/ Ready \/ ServiceTurn \/ Produce \/ Tick
    \/ \E op \in Ops : ClientStart(op) \/ ClientStop(op) \/ ClientFinish(op) \/ ReferenceReserve(op)
    \/ \E op \in Ops, command \in {"controller_pause", "write"} : ClientAccept(op, command)
    \/ FinishStart \/ PollRecording \/ Annotate \/ ReferenceStep
    \/ \E c \in Connections :
         ReadHistory(c) \/ TakePage(c) \/ ExpirePage(c) \/ Disconnect(c)
    \/ CancelOrphan
    \/ ApplyReserve \/ ApplyCommit \/ ApplyAbort \/ ApplyConfirm
    \/ RebindReserve \/ RebindAdmit
    \/ RequestShutdown \/ ShutdownStep
    \/ StorageStep \/ Fault \/ Reboot

Spec == Init /\ [][Next]_vars

\* What the owner's loop does unasked: every turn polls, services and finishes.
OwnerWork ==
    \/ Ready \/ ServiceTurn \/ FinishStart \/ ReferenceStep \/ PollRecording
    \/ ApplyCommit \/ ApplyConfirm \/ RebindAdmit \/ ShutdownStep

\* ENABLED <<OwnerWork>>_vars, as a state predicate.
OwnerHasWork ==
    \/ ~host.attached /\ Attached(Here) # Here
    \/ host.pc # "free"
    \/ /\ Free
       /\ \/ Serviced(Here) # Here
          \/ host.lifecycle.op # 0 /\ LifecycleDone(host)
          \/ host.apply.phase = "reserved" \/ host.rebind # 0
          \/ host.apply.phase = "committed" /\ Confirmed(Here) # Here
          \/ host.stopping /\ ShutDown(Here) # Here

\* The storage thread runs while it has work, and so does the owner's loop
\* (weak fairness, written without ENABLED for the owner's deep handlers).
Fairness ==
    /\ WF_vars(StorageStep)
    /\ []<>~OwnerHasWork \/ []<><<OwnerWork>>_vars

FairSpec == Spec /\ Fairness

-----------------------------------------------------------------------------
(* What the recorder promises.                                             *)

\* What the owner holds beside the channel: envelopes, a live activation and
\* the rest of a Reference pair.
HeldCredit(own) ==
    LET envelopes == Cardinality(own.tokens) IN
    Plus(Plus(Credit(envelopes, envelopes * Envelope),
              IF own.liveGen # 0 THEN Credit(1, 1) ELSE NoCredit),
         UnusedReference(own))

\* Messages in the channel, deferred, or held without a receipt, oldest first.
Transit == worker.batch \o worker.deferred \o w.queue

\* Credit is neither lost nor returned twice (RECORD credit of ingress.rs and
\* reference_completion.rs against the released sums of storage_loop.rs): what is
\* charged is in the channel, in an unseen receipt or held.  A dead thread keeps
\* what was in the channel; nothing else may be missing.
CreditIsConserved ==
    LET unseen == Minus(w.receipt.released, w.own.seen)
        outside == Plus(unseen, HeldCredit(w.own))
        accounted == Plus(outside, BatchCredit(Transit, Kinds)) IN
    /\ Covers(w.own.charged, outside)
    /\ w.link = "up" => w.own.charged = accounted

\* Whatever ordinary ingress, envelopes and activations take, the credit of two
\* Reference pairs is still there for them (ordinary_capacity).
ProtectedIsFree ==
    /\ Covers(Protected, w.own.reference)
    /\ Covers(Credit(LimitGroups, LimitRecords),
              Plus(w.own.charged, Minus(Protected, w.own.reference)))

\* A page waits only for a reader that still wants it, and a reader that waits
\* has its job somewhere (worker/history.rs: a cancelled job leaves no late row).
PagesHaveReaders ==
    LET jobs == {Transit[i].job : i \in DOMAIN Transit} IN
    /\ w.jobs.mail \subseteq w.jobs.live \cup w.jobs.cancelled
    /\ \A c \in Connections : host.history[c] # 0 =>
          /\ host.history[c] \in w.jobs.live
          /\ w.link = "up" => host.history[c] \in w.jobs.mail \cup jobs

\* Nothing bounded leaks: credit of the queue, headroom of the Reference pairs, slots
\* of the history jobs (ingress.rs, worker/history.rs).
NothingLeaks == CreditIsConserved /\ ProtectedIsFree /\ PagesHaveReaders

FactsOf(boot, run) ==
    LET records == store.file[boot].records IN
    {records[i].item : i \in {j \in DOMAIN records :
                                 records[j].kind = "fact" /\ records[j].run = run}}
RowsIn(boot, run, kind) ==
    LET records == store.file[boot].records IN
    {records[i] : i \in {j \in DOMAIN records : records[j].kind = kind /\ records[j].run = run}}

\* A run sealed as complete holds every fact captured while it ran, whatever was
\* still in the Core outbox when the stop was asked for (stop_recording_at).
SealedIsComplete ==
    \A b \in DOMAIN captured : \A r \in DOMAIN store.file[b].runs :
        LET run == store.file[b].runs[r] IN
        run.state = "sealed" /\ run.coverage = "complete" => FactsOf(b, r) = captured[b][r]

\* A gap names the first fact that is missing: all captured before it are in the
\* run, and it is not (fail_with_gap queues the seal behind what was admitted).
GapIsFirstLoss ==
    \A b \in DOMAIN captured : \A r \in DOMAIN store.file[b].runs :
        \A gap \in RowsIn(b, r, "recorder_gap") :
            gap.item.missing # 0 =>
                /\ gap.item.missing \notin FactsOf(b, r)
                /\ {f \in captured[b][r] : f < gap.item.missing} \subseteq FactsOf(b, r)

\* In a sealed run every accepted operation has its terminal, or the interval
\* seal names it as pending (frozen_stop_summary over the tracker).
OperationsArePaired ==
    \A b \in DOMAIN store.file : \A r \in DOMAIN store.file[b].runs :
        store.file[b].runs[r].state = "sealed" =>
            \A accepted \in {row \in RowsIn(b, r, "operation") : row.item.phase = "accepted"} :
                \/ \E row \in RowsIn(b, r, "operation") :
                      row.item.op = accepted.item.op /\ row.item.phase # "accepted"
                \/ \E seal \in RowsIn(b, r, "interval_seal") : accepted.item.op \in seal.item

\* A stop answered as completed is in the archive, after any number of crashes.
StopIsDurable ==
    \A p \in promised : store.file[p.boot].runs[p.run].state = "sealed"

\* Evidence of earlier processes is settled: a run that was neither sealed nor
\* failed never looks complete, and a sealed boot left none open (open.rs recovery).
PastIsHonest ==
    \A b \in DOMAIN store.file :
        LET boot == store.file[b] IN
        /\ b < Boots => boot.state # "active"
        /\ \A r \in DOMAIN boot.runs :
              /\ boot.runs[r].state = "recording" =>
                    b = Boots /\ boot.state = "active" /\ store.run = r
              /\ boot.runs[r].state # "recording" =>
                    (boot.runs[r].coverage = "complete" <=> boot.runs[r].state = "sealed")

PauseOwed(op) ==
    /\ IsPending(host, op) /\ host.pending[op].command = "controller_pause"
    /\ host.pending[op].terminal = NoOperation

\* Finishing a safe-reducing pause never costs the run its coverage: with no
\* credit its terminal waits (record_operation, deferred_safe_terminal).  Only a
\* turn that also sees the start committed may, for the start's own acceptance.
PauseKeepsCoverage ==
    [][\A op \in Ops :
          PauseOwed(op) /\ ~PauseOwed(op)'
          /\ ~Activated(host.status.state, host'.status.state) =>
              (w'.own.gapScheduled => w.own.gapScheduled)]_vars

\* The archive, its run outcomes and the owner's confirmed identity implement the
\* log of DurableLog: every commit only appends, decided runs stay decided, and no
\* receipt confirms more than a crash would leave (worker.rs RecordingStatus).
Archive == INSTANCE DurableLog WITH
    log <- [b \in DOMAIN store.file |-> store.file[b].records],
    outcome <- [b \in DOMAIN store.file |->
                   [r \in DOMAIN store.file[b].runs |-> store.file[b].runs[r].state]],
    acked <- w.own.persisted

ImplementsDurableLog == Archive!LogSpec

\* Receipts return every credit: while the thread lives, only what is still held
\* stays charged in the end (Ingress credit of ingress.rs; a starved recorder would
\* refuse every fact).
CreditReturns ==
    []<>(w.own.charged = HeldCredit(w.own) \/ w.link # "up" \/ w.own.state = "failed")

\* A start or stop is answered: by its barrier, by a failure, or never only
\* because shutdown took its place (poll_recording).
LifecycleIsAnswered ==
    host.lifecycle.op # 0 /\ ~host.stopping ~> host.lifecycle.op = 0 \/ host.stopping

\* Shutdown ends with a sealed boot, a failed recorder, or the process itself
\* (shutdown_recorder_step; a Reference pair in progress ends first).
ShutdownSeals ==
    host.stopping ~> w.receipt.sealed \/ w.own.state = "failed" \/ ~host.stopping

\* Whoever asked the recorder for a lifecycle change hears of it: the client of a
\* start or stop, and the process that shuts down.
LifecyclesEnd == LifecycleIsAnswered /\ ShutdownSeals

=============================================================================
