-------------------------- MODULE PhysicalControl --------------------------
(***************************************************************************)
(* One output under everything the Runtime's owner thread can do to it, in *)
(* every order: client commands, controller cadence, the safety service,   *)
(* polls of a resource whose adapter may answer anything, the recorder's   *)
(* confirmations and failures, retirement and reconnection.  Each action   *)
(* is one turn of the owner's loop at the current owner time.              *)
(***************************************************************************)
EXTENDS RuntimeControl

CONSTANTS
    Required,        \* the run requires durable recording
    AcquiresReads,   \* acquisition reads share the resource
    MaxTransaction,  \* bound on reads, writes, ticks and shutdowns
    MaxGeneration,   \* bound on recoveries and replacements of the executor
    MaxInstance,     \* bound on rebinds
    MaxTime          \* bound on owner time

ASSUME RequiredAssumption == Required \in BOOLEAN

VARIABLES
    rt,   \* the Runtime
    now   \* owner time

vars == <<rt, now>>

Init == rt = NewRuntime(Required) /\ now = 0

\* Bounds the work that can be repeated for ever.
Room == rt.ex.next_transaction <= MaxTransaction

\* One call, whether it returns Ok or Err.
Call(result) == rt' = result.rt /\ UNCHANGED now

-----------------------------------------------------------------------------
(* Commands.                                                               *)

BindProfile == Call(BindOutput(rt, now))

RequestSafeState(fault) == Call(SafeOutput(rt, now, fault))

AcknowledgeLatchedFault == Call(AcknowledgeOutputFault(rt, now))

TakeManual(owner) == Call(ManualAcquire(rt, owner, MaxLease, now))

ExtendManual(owner) == Call(ManualRenew(rt, owner, MaxLease, now))

WriteManual(owner) == Room /\ Call(ManualWrite(rt, owner, MaxTtl, now))

LeaveManual(owner) == Call(ManualSafe(rt, owner, now))

PrepareNative(c) == Call(PrepareController(rt, c))

StartNative(c, input) == Call(StartOrResume(rt, c, "Ready", now, input))

ResumeNative(c, input) == Call(StartOrResume(rt, c, "Paused", now, input))

TickNative(c, input) == Room /\ Call(TickController(rt, c, now, input))

PauseNative(c) == Call(PauseController(rt, c, now))

ResetNative(c) == Call(ResetFailedController(rt, c, now))

-----------------------------------------------------------------------------
(* The resource.                                                           *)

\* Acquisition reads share the queue.
QueueRead ==
    /\ Physical /\ AcquiresReads
    /\ Room
    /\ EnqueueReadOk(rt.ex, now, now + QueueTtl, Timeout)
    /\ rt' = [rt EXCEPT !.ex = EnqueueRead(@, now + QueueTtl, Timeout, FALSE)]
    /\ UNCHANGED now

\* The adapter that never answers.
Silent == [written |-> 0, read |-> 0, recover |-> "Pending", decode |-> "match"]

\* What the adapter may answer in the next poll; the request goes out at once.
Answers ==
    IF ~Physical \/ rt.ex.events # <<>> \/ rt.ex.state = "Offline" THEN {Silent}
    ELSE IF rt.ex.state \in {"Recovering", "ProtocolRecovery"}
    THEN {[Silent EXCEPT !.recover = answer] :
             answer \in {"Pending", None} \cup
                        (IF rt.ex.generation < MaxGeneration THEN {"Complete"} ELSE {})}
    ELSE {Silent, [Silent EXCEPT !.written = None]}
         \cup [written : {RequestLen}, read : {None, 0, ResponseLen + 1},
               recover : {"Pending"}, decode : {"match"}]
         \cup [written : {RequestLen}, read : {ResponseLen},
               recover : {"Pending"}, decode : {"match", "mismatch", "malformed"}]

Service(bad, answer) == Call(ServiceSafety(rt, now, bad, answer))

Poll(answer) == Call(PollTransports(rt, now, answer))

\* The host repeats the shutdown until it is complete.
Shutdown(complete) ==
    /\ Physical
    /\ Room
    /\ Call(ShutdownTransport(rt, now, complete))

ReconnectResource ==
    /\ rt.ex.closed
    /\ rt.ex.generation < MaxGeneration
    /\ rt.auth.instance < MaxInstance
    /\ Call(Reconnect(rt, now))

-----------------------------------------------------------------------------
(* The recorder.                                                           *)

\* The worker has begun to record, or a configuration's activation is durable.
RecordingStarted(submitted) ==
    /\ ~rt.gate.open
    /\ Call(ConfirmRecordingStart(rt, submitted, now))

RecordingProgress(submitted) == Call(ConfirmRecordingProgress(rt, submitted, now))

RecordingFails == rt' = RecordingFailure(rt) /\ UNCHANGED now

\* A stop waits until control is paused and the output safe; the shutdown of the
\* recorder does not.
RecordingCloses == rt' = CloseRequiredRecording(rt) /\ UNCHANGED now

\* A configuration commit closes an open gate until its activation is durable.
RecordingFence == rt.gate.open /\ rt' = RequireRecording(rt) /\ UNCHANGED now

\* The outbox of recording facts overflows.
FactsLost == rt' = [rt EXCEPT !.gate.lost = TRUE] /\ UNCHANGED now

Advance == now < MaxTime /\ now' = now + 1 /\ UNCHANGED rt

Inputs == {"bad", "warming", "ready"}

CommandNext ==
    \/ BindProfile
    \/ \E fault \in BOOLEAN : RequestSafeState(fault)
    \/ AcknowledgeLatchedFault
    \/ \E o \in ManualOwners : TakeManual(o) \/ ExtendManual(o) \/ WriteManual(o) \/ LeaveManual(o)
    \/ \E c \in Controllers : PrepareNative(c) \/ PauseNative(c) \/ ResetNative(c)
    \/ \E c \in Controllers, i \in Inputs : StartNative(c, i) \/ ResumeNative(c, i) \/ TickNative(c, i)

ResourceNext ==
    \/ QueueRead
    \/ \E bad \in SUBSET Controllers, answer \in Answers : Service(bad, answer)
    \/ \E answer \in Answers : Poll(answer)
    \/ \E complete \in BOOLEAN : Shutdown(complete)
    \/ ReconnectResource

RecorderNext ==
    /\ Required
    /\ \/ \E submitted \in 0..now : RecordingStarted(submitted) \/ RecordingProgress(submitted)
       \/ RecordingFails \/ RecordingCloses \/ RecordingFence \/ FactsLost

Next == CommandNext \/ ResourceNext \/ RecorderNext \/ Advance

Spec == Init /\ [][Next]_vars

\* The loop serves safety again and again, and time passes: past MaxTime only to
\* the deadline of the transaction in hand.  A silent adapter is the weakest one.
Elapse ==
    /\ now < MaxTime \/ now < rt.ex.deadline
    /\ now' = now + 1
    /\ UNCHANGED rt

\* Weak fairness of Service({}, Silent), which is enabled when it changes rt.
ServiceIsFair ==
    \/ []<>(ServiceSafety(rt, now, {}, Silent).rt = rt)
    \/ []<><<Service({}, Silent)>>_vars

FairSpec ==
    /\ Init
    /\ [][Next \/ Elapse]_vars
    /\ ServiceIsFair
    /\ WF_vars(Elapse)

-----------------------------------------------------------------------------
(* Properties.                                                             *)

\* The authority and the controllers have their types, and the executor's
\* correlations name transactions it has admitted.
TypeOK ==
    /\ rt.auth \in Authority
    /\ \A c \in Controllers :
          rt.ctl[c].state \in {"Created", "Ready", "Paused", "Failed", "Removed"} \cup Live
    /\ \A p \in rt.writes \cup rt.readbacks : p.tx < rt.ex.next_transaction

\* The transactions the executor still owes an end for.
Owed ==
    {rt.ex.queue[i] : i \in DOMAIN rt.ex.queue}
    \cup ({rt.ex.safe_queue, rt.ex.tx} \ {None})

Coming == {rt.ex.events[i] : i \in DOMAIN rt.ex.events}

\* A reservation of the authority is always carried by a transaction that will
\* end, or by the event of its end: it is never left behind, where it would keep
\* every later write, the safe one included, out.
ReservationIsCarried ==
    rt.auth.transport_reserved # None =>
        \E tx \in Owed \cup Coming :
            tx.intent = rt.auth.transport_reserved /\ tx.dispatch = None

\* A dispatch in flight has somebody who will settle it: the transaction that
\* sent it, the event of its end, the read-back that follows its acknowledgement,
\* or the boundary that a refused acknowledgement waits for.  (At the last epoch
\* the authority is exhausted: nothing is sent any more.)
InFlightIsTracked ==
    rt.auth.in_flight # None /\ rt.auth.epoch < MaxEpoch =>
        LET id == rt.auth.in_flight.id
        IN  \/ \E tx \in Owed \cup Coming : tx.dispatch = id
            \/ \E p \in rt.readbacks :
                  p.dispatch = id /\ \E tx \in Owed \cup Coming : tx.id = p.tx
            \/ rt.unsettled # None /\ rt.unsettled.dispatch = id

\* Unfinished work on the output always has somebody who will end it: a reservation
\* its transaction, a send in flight its evidence (queue_output, handle_output_event).
WorkIsCarried == ReservationIsCarried /\ InFlightIsTracked

\* While a controller warms up, the output it will take stays as it was found:
\* confirmed safe, with nothing pending, reserved or in flight and no lease; and
\* no other controller prepares beside it.
PreparationIsExclusive ==
    /\ Cardinality({c \in Controllers : rt.ctl[c].state = "Warming"}) <= 1
    /\ WarmingOn(rt) => CanPrepare(rt.auth)

\* An automatic lease is the one its controller, which runs, knows of: the two
\* copies of the lease never part while the authority honours it.
LeaseHasRunningOwner ==
    rt.auth.lease # None /\ rt.auth.lease.owner \in Controllers =>
        LET ctl == rt.ctl[rt.auth.lease.owner]
        IN  ctl.state = "Running" /\ ctl.lease = rt.auth.lease

\* Once required recording has failed, nobody owns the output or prepares to.
LostRecordingDisarms ==
    rt.gate.failed =>
        /\ rt.auth.lease = None
        /\ \A c \in Controllers : rt.ctl[c].state \notin Live

\* This step started a write that is not the safe one.
SendsOrdinary ==
    /\ rt'.auth.instance = rt.auth.instance
    /\ rt'.auth.sent # rt.auth.sent
    /\ ~rt'.sent_safe

\* Required recording is required: its loss takes control down, and an ordinary write
\* starts only while it is confirmed and fresh, however long ago the write was queued
\* (confirm_recording_progress, service_required_recording_deadline, poll_authorized).
RecordingIsRequired ==
    [][/\ LostRecordingDisarms'
       /\ SendsOrdinary => /\ RecordingOpen(rt')
                           /\ rt'.gate.enabled => now < rt'.gate.confirmed + ProgressAge]_vars

\* A safe state that is owed is reached, or the output gives up visibly.
SafeIsServed ==
    rt.auth.state = "SafePending" ~>
        rt.auth.state # "SafePending" \/ rt.ex.state = "Offline"
=============================================================================
