------------------------- MODULE ResourceTransport -------------------------
(***************************************************************************)
(* One resource executor between its owner, the Runtime, and an adapter    *)
(* that may write short, answer late, too much or not at all, fail, and    *)
(* recover or not.  Each action is one call the Runtime makes in one turn  *)
(* of its loop: admission, cancellation, a poll with the delivery of its   *)
(* event, the retirement with the delivery of all events, the replacement  *)
(* of a retired executor.                                                  *)
(***************************************************************************)
EXTENDS ResourceExecutor, FiniteSets

CONSTANTS
    MaxTransaction,  \* bound on admissions per executor
    MaxGeneration,   \* bound on recoveries and replacements
    Ttls,            \* the queue deadlines requested, from now
    Timeouts,        \* the execution timeouts requested
    AdmitUntil,      \* bound on the time of an admission
    MaxTime          \* bound on owner time

\* The queue deadlines of everything admitted lie within MaxTime.
ASSUME HorizonAssumption ==
    /\ Ttls \subseteq Nat \ {0}
    /\ Timeouts \subseteq Nat \ {0}
    /\ \A ttl \in Ttls : AdmitUntil + ttl <= MaxTime

-----------------------------------------------------------------------------
(* The values an executor is made of.                                      *)

Kind == {"read", "retryable", "normal", "safe"}

OutputIntent == [safe : BOOLEAN]

QueuedTransaction ==
    [id : Nat, intent : OutputIntent \cup {None}, dispatch : {None, 1},
     queue_deadline : Nat, timeout : Nat \ {0}, retryable : BOOLEAN, retries : {0, 1}]

TransportEvent ==
    [type : {"ReadTerminal", "ReadFenced", "ReadUnavailable", "OutputTerminal",
             "OutputUncertain", "BoundaryRecovered", "BoundaryFailed"},
     id : Nat, intent : OutputIntent \cup {None}, dispatch : {None, 1},
     outcome : TransactionOutcome \cup {None}, started : BOOLEAN]

\* What the end of a transaction says of its bytes.
Verdict == {"Sent", "Unsent", "QueueExpired"}

\* An absent value is none of the values.
ASSUME NoneAssumption ==
    /\ None \notin Nat
    /\ None \notin OutputIntent
    /\ None \notin QueuedTransaction
    /\ None \notin TransactionOutcome
    /\ None \notin Verdict

VARIABLES
    ex,        \* the executor
    now,       \* Runtime::transport_time
    admitted,  \* history: the kind of each admitted transaction
    wire,      \* history: how often its request began to be written
    settled,   \* history: how often its owner learned its end
    reported,  \* history: what that end said of the bytes
    refused,   \* history: outputs whose start the authority did not record
    dirty      \* history: the line may hold bytes of an unfinished exchange

history == <<admitted, wire, settled, reported, refused, dirty>>

vars == <<ex, now, history>>

Intent(kind) == [safe |-> kind = "safe"]

Id == 1..(ex.next_transaction - 1)

InitHistory ==
    /\ admitted = <<>>
    /\ wire = <<>>
    /\ settled = <<>>
    /\ reported = <<>>
    /\ refused = {}
    /\ dirty = FALSE

Init == ex = NewExecutor(1) /\ now = 0 /\ InitHistory

-----------------------------------------------------------------------------
(* Admission and cancellation.                                             *)

Admit(kind, new) ==
    /\ now <= AdmitUntil
    /\ Len(admitted) < MaxTransaction
    /\ ex' = new
    /\ admitted' = Append(admitted, kind)
    /\ wire' = Append(wire, 0)
    /\ settled' = Append(settled, 0)
    /\ reported' = Append(reported, None)
    /\ UNCHANGED <<now, refused, dirty>>

AdmitRead(ttl, timeout, retryable) ==
    /\ EnqueueReadOk(ex, now, now + ttl, timeout)
    /\ Admit(IF retryable THEN "retryable" ELSE "read",
             EnqueueRead(ex, now + ttl, timeout, retryable))

AdmitOutput(kind, ttl, timeout) ==
    /\ EnqueueOutputOk(ex, Intent(kind), now, now + ttl, timeout)
    /\ Admit(kind, EnqueueOutput(ex, Intent(kind), now + ttl, timeout))

\* DiscardPreparedSimpleDevices withdraws an output that is still queued.
CancelOutput(id) ==
    /\ admitted[id] \in {"normal", "safe"}
    /\ CancelOk(ex, id)
    /\ ex' = CancelQueuedOutput(ex, id)
    /\ settled' = [settled EXCEPT ![id] = @ + 1]
    /\ reported' = [reported EXCEPT ![id] = "Unsent"]
    /\ UNCHANGED <<now, admitted, wire, refused, dirty>>

-----------------------------------------------------------------------------
(* Polling.                                                                *)

\* The transaction whose request, not yet begun, a poll would offer to the adapter.
Offered ==
    CASE ex.events # <<>> -> None
      [] ex.events = <<>> /\ ex.state = "Active" ->
            IF ex.write_offset = 0 /\ now < ex.deadline THEN ex.tx ELSE None
      [] ex.events = <<>> /\ ex.state = "Idle" ->
            IF /\ ex.safe_queue # None \/ ex.queue # <<>>
               /\ now < Taken(ex).queue_deadline
            THEN Taken(ex) ELSE None
      [] OTHER -> None

\* The adapter takes the first byte of the offered request.
FirstByte(io) ==
    /\ Offered # None
    /\ IsRead(Offered) \/ io.authorized
    /\ io.written # None /\ io.written \in 1..RequestLen

IsTerminal(event) == event.type \in {"ReadTerminal", "ReadFenced", "OutputTerminal"}

\* What the owner concludes: of an output, from the dispatch it carries.
Evidence(event) ==
    IF event.outcome = "QueueExpired" THEN "QueueExpired"
    ELSE IF event.dispatch # None \/ (event.intent = None /\ event.started)
    THEN "Sent" ELSE "Unsent"

Ends(events, id) ==
    {i \in DOMAIN events : IsTerminal(events[i]) /\ events[i].id = id}

\* The owner handles `events`, in order.
Deliver(events) ==
    /\ settled' = [id \in Id |-> settled[id] + Cardinality(Ends(events, id))]
    /\ reported' = [id \in Id |->
           IF Ends(events, id) = {} THEN reported[id]
           ELSE Evidence(events[CHOOSE i \in Ends(events, id) : TRUE])]

OutputOffered == Offered # None /\ ~IsRead(Offered)

\* The adapter that never answers.
Silent == [authorized |-> FALSE, dispatch |-> None, written |-> 0, read |-> 0,
           recover |-> "Pending"]

\* What the adapter and the authorizer may answer in the next poll.
Answers ==
    IF ex.events # <<>> \/ ex.state = "Offline" THEN {Silent}
    ELSE IF ex.state \in {"Recovering", "ProtocolRecovery"}
    THEN {[Silent EXCEPT !.recover = answer] :
             answer \in {"Pending", None} \cup
                        (IF ex.generation < MaxGeneration THEN {"Complete"} ELSE {})}
    ELSE [authorized : IF OutputOffered THEN BOOLEAN ELSE {FALSE},
          dispatch : IF OutputOffered THEN {None, 1} ELSE {None},
          written : (0..RequestLen) \cup {None},
          read : (0..(ResponseLen + 1)) \cup {None},
          recover : {"Pending"}]

\* One poll and the handling of its event.  The Runtime may reject the bytes of
\* a completed response (`reject`), in the same turn.
Poll(io, reject) ==
    LET polled == PollState(ex, now, io)
        events == IF polled.events = <<>> THEN <<>> ELSE <<Head(polled.events)>>
        taken == TakeEvent(polled)
        completed == events # <<>> /\ events[1].outcome = "Completed"
    IN  /\ reject => completed
        /\ ex' = IF reject THEN ProtocolFailure(taken) ELSE taken
        /\ Deliver(events)
        /\ wire' = IF FirstByte(io) THEN [wire EXCEPT ![Offered.id] = @ + 1] ELSE wire
        /\ refused' = IF FirstByte(io) /\ ~IsRead(Offered) /\ io.dispatch = None
                      THEN refused \cup {Offered.id} ELSE refused
        /\ dirty' = IF polled.generation # ex.generation THEN FALSE
                    ELSE IF completed THEN reject
                    ELSE dirty \/ FirstByte(io)
        /\ UNCHANGED <<now, admitted>>

-----------------------------------------------------------------------------
(* Retirement, replacement and time.                                       *)

\* Runtime::shutdown_transport.
Shutdown(complete) ==
    LET retired == TryShutdown(ex, complete)
    IN  /\ ex' = [retired EXCEPT !.events = <<>>]
        /\ Deliver(retired.events)
        /\ UNCHANGED <<now, admitted, wire, refused, dirty>>

\* Runtime::replace_transport retires the executor once more and installs a new
\* one, with a new adapter, under the next generation.
Replace ==
    /\ ex.closed
    /\ ex.generation < MaxGeneration
    /\ ex' = NewExecutor(ex.generation + 1)
    /\ admitted' = <<>>
    /\ wire' = <<>>
    /\ settled' = <<>>
    /\ reported' = <<>>
    /\ refused' = {}
    /\ dirty' = FALSE
    /\ UNCHANGED now

\* Time passes, up to MaxTime and to any deadline that lies beyond it.
Advance ==
    /\ now < MaxTime \/ now < ex.deadline
    /\ now' = now + 1
    /\ UNCHANGED <<ex, history>>

Next ==
    \/ \E ttl \in Ttls, timeout \in Timeouts, retryable \in BOOLEAN :
           AdmitRead(ttl, timeout, retryable)
    \/ \E kind \in {"normal", "safe"}, ttl \in Ttls, timeout \in Timeouts :
           AdmitOutput(kind, ttl, timeout)
    \/ \E id \in Id : CancelOutput(id)
    \/ \E io \in Answers, reject \in BOOLEAN : Poll(io, reject)
    \/ \E complete \in BOOLEAN : Shutdown(complete)
    \/ Replace
    \/ Advance

Spec == Init /\ [][Next]_vars

\* The Runtime's loop polls its resources again and again, and time passes.  A
\* poll that changes the state although the adapter is silent (there is an event
\* to deliver, a transaction to take or a deadline to notice) changes it whatever
\* the adapter answers, so this asks nothing of the adapter.
FairSpec == Spec /\ WF_vars(Poll(Silent, FALSE)) /\ WF_vars(Advance)

-----------------------------------------------------------------------------
(* Properties.                                                             *)

\* The executor owns a transaction exactly in the states that have one, and the
\* offsets stay within the request and its response.  The events of a transition
\* fit the bound of the event queue, whatever the executor holds when it is retired.
TypeOK ==
    /\ Len(ex.events) <= MaxQueued
    /\ Len(TryShutdown(ex, TRUE).events) <= MaxQueued + 2
    /\ ex.state \in {"Idle", "Active"} \cup Unavailable
    /\ ex.tx # None <=> ex.state \in {"Active", "Recovering"}
    /\ ex.write_offset \in 0..RequestLen
    /\ ex.response \in 0..(ResponseLen - 1)
    /\ Len(ex.queue) <= MaxQueued
    /\ Len(admitted) = ex.next_transaction - 1
    /\ \A id \in Id : admitted[id] \in Kind

Holds(tx, id) == IF tx # None /\ tx.id = id THEN 1 ELSE 0

\* Where a transaction is: in the queue, in the safe slot, being executed or
\* recovered, in a terminal event on its way, or settled.
Places(id) ==
    Cardinality({i \in DOMAIN ex.queue : ex.queue[i].id = id})
    + Holds(ex.safe_queue, id)
    + Holds(ex.tx, id)
    + Cardinality(Ends(ex.events, id))
    + settled[id]

\* Nothing is lost and nothing ends twice: through retry, fence, recovery,
\* cancellation and shutdown every admitted transaction is in one place.
Accounted == \A id \in Id : Places(id) = 1

\* A request begins to be written at most once; only a retryable read, once more.
SentOnce ==
    \A id \in Id : wire[id] <= (IF admitted[id] = "retryable" THEN 2 ELSE 1)

\* The end reported for an output is honest: "unsent" means that no byte of it
\* was or will be on the wire, "sent" that one was.  (Where the authority could
\* not record the start, the executor has no evidence: see `refused`.)
HonestEnd ==
    \A id \in Id \ refused :
        admitted[id] \in {"normal", "safe"} =>
            /\ reported[id] \in {"Unsent", "QueueExpired"} => wire[id] = 0
            /\ reported[id] = "Sent" => wire[id] = 1

\* As long as the end of an output is not known to its owner, the executor does
\* not deny that it may have started: a discard cannot lose a started write.
StartNotDenied ==
    \A id \in Id \ refused :
        admitted[id] \in {"normal", "safe"} /\ wire[id] > 0 /\ settled[id] = 0 =>
            OutputMayHaveStarted(ex, id)

\* The executor never denies that an output started: neither in the end it reports
\* nor, until that end has arrived, when it is asked (output_may_have_started).
StartsAreHonest == HonestEnd /\ StartNotDenied

\* A step in which the request of transaction `id` begins to be written.
Begins(id) == id \in DOMAIN wire' /\ wire'[id] > wire[id]

\* No request begins on a line that may still carry bytes of an exchange that
\* did not complete: a late answer cannot be taken for the answer to another.
CleanBoundary == [][(\E id \in Id : Begins(id)) => ~dirty]_vars

\* A safe write admitted to a resource that is, or goes, offline waits there for
\* the retirement of the executor.
Parked(id) == ex.state = "Offline" /\ Holds(ex.safe_queue, id) = 1

\* Whatever the adapter does, the owner learns the end of every transaction.
EveryTransactionEnds ==
    \A id \in 1..MaxTransaction :
        id \in Id /\ settled[id] = 0 ~> id \notin Id \/ settled[id] = 1 \/ Parked(id)

=============================================================================
