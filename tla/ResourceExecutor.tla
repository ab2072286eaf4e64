-------------------------- MODULE ResourceExecutor --------------------------
(***************************************************************************)
(* The owner and serializer of one byte resource, `ResourceExecutor`       *)
(* (crates/lab-core/src/transport.rs).  Every method that changes state is *)
(* one operator from an executor record to the record it leaves behind.    *)
(*                                                                         *)
(* Abstractions.  A request is RequestLen bytes and its response           *)
(* ResponseLen bytes; only how many have moved is kept.  OwnedState is     *)
(* flattened: `tx`, `write_offset`, `response` and `deadline` belong to    *)
(* the Active and Recovering states (a Recovery's `started` is             *)
(* write_offset > 0) and `deadline` also to ProtocolRecovery.  A read has  *)
(* no intent.  Of a TransactionRecord the outcome and `started` are kept;  *)
(* an event without a record has neither.  The adapter and the authorizer  *)
(* are the environment: what they answer in one poll is the record `io`,   *)
(*    io.authorized  the authorizer accepts Validate,                      *)
(*    io.dispatch    what it returns for Started, None for an error,       *)
(*    io.written     the count of try_write, None for an error,            *)
(*    io.read        the count of try_read, None for an error,             *)
(*    io.recover     the answer of try_recover.                            *)
(***************************************************************************)
EXTENDS Naturals, Sequences

CONSTANTS
    MaxQueued,        \* MAX_QUEUED_TRANSACTIONS
    RequestLen,       \* bytes of a request
    ResponseLen,      \* bytes of its expected response
    RecoveryTimeout,  \* recovery_timeout
    None              \* Option::None and Result::Err

ASSUME ExecutorAssumption ==
    /\ MaxQueued \in Nat \ {0}
    /\ RequestLen \in Nat \ {0}
    /\ ResponseLen \in Nat \ {0}
    /\ RecoveryTimeout \in Nat \ {0}

TransactionOutcome == {"Completed", "QueueExpired", "Failed"}

\* The states in which the resource has no clean boundary.
Unavailable == {"Recovering", "ProtocolRecovery", "Offline"}

NewExecutor(generation) ==
    [queue |-> <<>>, safe_queue |-> None,
     state |-> "Idle", tx |-> None, write_offset |-> 0, response |-> 0, deadline |-> 0,
     generation |-> generation, next_transaction |-> 1, last_poll |-> 0,
     latest |-> None, events |-> <<>>, closed |-> FALSE]

IsRead(tx) == tx.intent = None

-----------------------------------------------------------------------------
(* Terminal results and fences.                                            *)

Event(type, tx, outcome, started) ==
    [type |-> type, id |-> tx.id, intent |-> tx.intent, dispatch |-> tx.dispatch,
     outcome |-> outcome, started |-> started]

\* An event of the resource, of no transaction.
Boundary(type) ==
    [type |-> type, id |-> 0, intent |-> None, dispatch |-> None,
     outcome |-> None, started |-> FALSE]

Emit(ex, event) == [ex EXCEPT !.events = Append(@, event)]

Finish(ex, tx, outcome, started) ==
    [Emit(ex, Event(IF IsRead(tx) THEN "ReadTerminal" ELSE "OutputTerminal",
                    tx, outcome, started))
        EXCEPT !.latest = [id |-> tx.id, outcome |-> outcome, started |-> started]]

\* fence_queued_transaction: the transaction never began.
Fenced(tx) ==
    IF IsRead(tx) THEN Event("ReadFenced", tx, None, FALSE)
    ELSE Event("OutputTerminal", tx, "Failed", FALSE)

\* Mutant: queued reads are dropped without a word.
FenceOrdinaryQueueSilently(ex) ==
    [ex EXCEPT !.queue = <<>>,
               !.events = @ \o [i \in 1..Len(SelectSeq(ex.queue, LAMBDA tx : ~IsRead(tx))) |->
                   Fenced(SelectSeq(ex.queue, LAMBDA tx : ~IsRead(tx))[i])]]

FenceOrdinaryQueue(ex) ==
    [ex EXCEPT !.queue = <<>>,
               !.events = @ \o [i \in DOMAIN ex.queue |-> Fenced(ex.queue[i])]]

FenceSafeQueue(ex) ==
    IF ex.safe_queue = None THEN ex
    ELSE [Emit(ex, Fenced(ex.safe_queue)) EXCEPT !.safe_queue = None]

\* The state OwnedState::Idle or Offline, which owns no transaction.
Vacate(ex, state) ==
    [ex EXCEPT !.state = state, !.tx = None, !.write_offset = 0,
               !.response = 0, !.deadline = 0]

-----------------------------------------------------------------------------
(* Admission.                                                              *)

Transaction(ex, intent, queue_deadline, timeout, retryable) ==
    [id |-> ex.next_transaction, intent |-> intent, dispatch |-> None,
     queue_deadline |-> queue_deadline, timeout |-> timeout,
     retryable |-> retryable, retries |-> 0]

EnqueueReadOk(ex, queued_at, queue_deadline, timeout) ==
    /\ ~ex.closed
    /\ ex.state \notin Unavailable
    /\ Len(ex.queue) < MaxQueued
    /\ queue_deadline > queued_at
    /\ timeout > 0

EnqueueRead(ex, queue_deadline, timeout, retryable) ==
    [ex EXCEPT !.queue = Append(@, Transaction(ex, None, queue_deadline, timeout, retryable)),
               !.next_transaction = @ + 1]

EnqueueOutputOk(ex, intent, queued_at, queue_deadline, timeout) ==
    /\ ~ex.closed
    /\ IF intent.safe THEN ex.safe_queue = None
       ELSE ex.state \notin Unavailable /\ Len(ex.queue) < MaxQueued
    /\ queue_deadline > queued_at
    /\ timeout > 0

EnqueueOutput(ex, intent, queue_deadline, timeout) ==
    LET tx == Transaction(ex, intent, queue_deadline, timeout, FALSE)
    IN  IF intent.safe
        THEN [ex EXCEPT !.safe_queue = tx, !.next_transaction = @ + 1]
        ELSE [ex EXCEPT !.queue = Append(@, tx), !.next_transaction = @ + 1]

\* cancel_queued_output: only work that is still queued can be cancelled.
CancelOk(ex, id) ==
    \/ ex.safe_queue # None /\ ex.safe_queue.id = id
    \/ \E i \in DOMAIN ex.queue : ex.queue[i].id = id

CancelQueuedOutput(ex, id) ==
    IF ex.safe_queue # None /\ ex.safe_queue.id = id
    THEN [ex EXCEPT !.safe_queue = None]
    ELSE LET index == CHOOSE i \in DOMAIN ex.queue : ex.queue[i].id = id
         IN  [ex EXCEPT !.queue = SubSeq(@, 1, index - 1) \o SubSeq(@, index + 1, Len(@))]

\* output_may_have_started: what Runtime asks before it gives up a correlation.
OutputMayHaveStarted(ex, id) ==
    \/ /\ ex.state \in {"Active", "Recovering"}
       /\ ex.tx.id = id
       /\ ex.write_offset > 0
    \/ \E i \in DOMAIN ex.events :
          LET event == ex.events[i]
          IN  event.id = id /\ \/ event.type = "OutputUncertain"
                               \/ event.type = "OutputTerminal" /\ event.started
    \/ ex.latest # None /\ ex.latest.id = id /\ ex.latest.started

-----------------------------------------------------------------------------
(* Recovery.                                                               *)

EnterRecovery(ex, at) ==
    LET reported ==
            IF IsRead(ex.tx) THEN Emit(ex, Event("ReadUnavailable", ex.tx, None, FALSE))
            ELSE IF ex.tx.dispatch # None
            THEN Emit(ex, Event("OutputUncertain", ex.tx, None, FALSE))
            ELSE ex
    IN  [FenceOrdinaryQueue(reported) EXCEPT
            !.state = "Recovering", !.deadline = at + RecoveryTimeout]

\* Mutant: excess response bytes end the transaction but not its boundary.
EnterProtocolRecoveryIdle(ex, at) ==
    Vacate(Finish(ex, ex.tx, "Failed", ex.write_offset > 0), "Idle")

EnterProtocolRecovery(ex, at) ==
    [Vacate(FenceOrdinaryQueue(Finish(ex, ex.tx, "Failed", ex.write_offset > 0)),
            "ProtocolRecovery")
        EXCEPT !.deadline = at + RecoveryTimeout]

\* protocol_failure: Runtime rejects the response of the transaction that has
\* just completed.
ProtocolFailure(ex) ==
    IF ex.state = "Idle"
    THEN [FenceOrdinaryQueue(ex) EXCEPT
             !.state = "ProtocolRecovery", !.deadline = ex.last_poll + RecoveryTimeout]
    ELSE ex

\* Mutant: a read is tried again and again.
RetryOkAgain(tx, at) == tx.retryable /\ at < tx.queue_deadline

\* Whether the recovered transaction is tried once more.
RetryOk(tx, at) == tx.retryable /\ tx.retries = 0 /\ at < tx.queue_deadline

\* Mutant: a boundary that never comes is waited for.
ProgressRecoveryPatient(ex, at, io) ==
    LET failed == Finish(ex, ex.tx, "Failed", ex.write_offset > 0)
        recovered == [ex EXCEPT !.generation = @ + 1]
    IN  IF io.recover = None THEN Vacate(failed, "Offline")
        ELSE IF io.recover = "Pending" THEN ex
        ELSE IF RetryOk(ex.tx, at)
        THEN Vacate([recovered EXCEPT !.queue = <<[ex.tx EXCEPT !.retries = 1]>> \o @], "Idle")
        ELSE Vacate(Finish(recovered, ex.tx, "Failed", ex.write_offset > 0), "Idle")

ProgressRecovery(ex, at, io) ==
    LET failed == Finish(ex, ex.tx, "Failed", ex.write_offset > 0)
        recovered == [ex EXCEPT !.generation = @ + 1]
    IN  IF at >= ex.deadline \/ io.recover = None THEN Vacate(failed, "Offline")
        ELSE IF io.recover = "Pending" THEN ex
        ELSE IF RetryOk(ex.tx, at)
        THEN Vacate([recovered EXCEPT !.queue = <<[ex.tx EXCEPT !.retries = 1]>> \o @], "Idle")
        ELSE Vacate(Finish(recovered, ex.tx, "Failed", ex.write_offset > 0), "Idle")

ProgressProtocolRecovery(ex, at, io) ==
    IF at >= ex.deadline \/ io.recover = None
    THEN Vacate(Emit(ex, Boundary("BoundaryFailed")), "Offline")
    ELSE IF io.recover = "Pending" THEN ex
    ELSE Vacate(Emit([ex EXCEPT !.generation = @ + 1], Boundary("BoundaryRecovered")), "Idle")

-----------------------------------------------------------------------------
(* Execution.                                                              *)

\* The final authority check, before byte offset zero.
Denied(ex, io) == ex.write_offset = 0 /\ ~IsRead(ex.tx) /\ ~io.authorized

WriteFails(ex, io) == io.written = None \/ io.written > RequestLen - ex.write_offset

\* Bytes of an output are on the wire and the authority will not record it.
StartRefused(ex, io) ==
    ex.write_offset = 0 /\ io.written > 0 /\ ~IsRead(ex.tx) /\ io.dispatch = None

\* Mutant: a send starts when the whole request has been written.
WriteWholeRequest(ex, io) ==
    [ex EXCEPT !.write_offset = @ + io.written,
               !.tx.dispatch = IF ex.write_offset = 0 /\ io.written = RequestLen /\ ~IsRead(ex.tx)
                               THEN io.dispatch ELSE @]

Write(ex, io) ==
    [ex EXCEPT !.write_offset = @ + io.written,
               !.tx.dispatch = IF ex.write_offset = 0 /\ io.written > 0 /\ ~IsRead(ex.tx)
                               THEN io.dispatch ELSE @]

Collect(ex, at, io) ==
    IF ex.write_offset # RequestLen THEN ex
    ELSE IF io.read = None THEN EnterRecovery(ex, at)
    ELSE IF io.read > ResponseLen - ex.response THEN EnterProtocolRecovery(ex, at)
    ELSE IF ex.response + io.read = ResponseLen
    THEN Vacate(Finish(ex, ex.tx, "Completed", ex.write_offset > 0), "Idle")
    ELSE [ex EXCEPT !.response = @ + io.read]

ProgressActive(ex, at, io) ==
    IF at >= ex.deadline THEN EnterRecovery(ex, at)
    ELSE IF ex.write_offset = RequestLen THEN Collect(ex, at, io)
    ELSE IF Denied(ex, io) THEN Vacate(Finish(ex, ex.tx, "Failed", FALSE), "Idle")
    ELSE IF WriteFails(ex, io) \/ StartRefused(ex, io) THEN EnterRecovery(ex, at)
    ELSE Collect(Write(ex, io), at, io)

\* The transaction taken next; the safe slot goes before the ordinary queue.
Taken(ex) == IF ex.safe_queue # None THEN ex.safe_queue ELSE Head(ex.queue)

Remaining(ex) ==
    IF Taken(ex) = ex.safe_queue THEN [ex EXCEPT !.safe_queue = None]
    ELSE [ex EXCEPT !.queue = Tail(@)]

Sooner(s, t) == IF s <= t THEN s ELSE t

StartOrRemainIdle(ex, at, io) ==
    IF ex.safe_queue = None /\ ex.queue = <<>> THEN ex
    ELSE LET tx == Taken(ex)
         IN  IF at >= tx.queue_deadline
             THEN Finish(Remaining(ex), tx, "QueueExpired", FALSE)
             ELSE ProgressActive(
                    [Remaining(ex) EXCEPT
                        !.state = "Active", !.tx = tx,
                        !.deadline = Sooner(at + tx.timeout, tx.queue_deadline)],
                    at, io)

\* One transition of the owned state.
Progress(ex, at, io) ==
    CASE ex.state = "Idle" -> StartOrRemainIdle(ex, at, io)
      [] ex.state = "Active" -> ProgressActive(ex, at, io)
      [] ex.state = "Recovering" -> ProgressRecovery(ex, at, io)
      [] ex.state = "ProtocolRecovery" -> ProgressProtocolRecovery(ex, at, io)
      [] ex.state = "Offline" -> ex

\* poll_authorized up to its last line: events are drained before the state may
\* progress.  The caller receives the first event, if there is one.
PollState(ex, at, io) ==
    IF ex.events # <<>> THEN [ex EXCEPT !.last_poll = at]
    ELSE Progress([ex EXCEPT !.last_poll = at], at, io)

TakeEvent(ex) == IF ex.events = <<>> THEN ex ELSE [ex EXCEPT !.events = Tail(@)]

-----------------------------------------------------------------------------
(* Retirement.                                                             *)

\* try_shutdown; `complete` is the adapter's answer.
TryShutdown(ex, complete) ==
    LET fenced == FenceSafeQueue(FenceOrdinaryQueue(ex))
        ended == IF fenced.tx = None THEN fenced
                 ELSE Finish(fenced, fenced.tx, "Failed", fenced.write_offset > 0)
    IN  IF ex.closed THEN fenced
        ELSE [Vacate(ended, "Offline") EXCEPT !.closed = complete]

=============================================================================
