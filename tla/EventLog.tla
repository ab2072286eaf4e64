------------------------------ MODULE EventLog ------------------------------
(***************************************************************************)
(* The public facts of the runtime and how clients follow them             *)
(* (apps/lab-runtime/src/events.rs and application/delivery.rs).  After    *)
(* each unit of domain work the owner compares the facts of all tracked    *)
(* targets with those it published last and appends the differences, with  *)
(* consecutive sequence numbers, to a ring that forgets its oldest         *)
(* records.  A client takes a frozen projection, page by page, and then    *)
(* subscribes after the projection's cursor.  The projections stamp that   *)
(* cursor on what they read in two places: what discovery says of          *)
(* controllers, references and outputs is the log's facts, but signals and *)
(* components are read from the Runtime, which is ahead of the log after a *)
(* unit that failed before its observation.                                *)
(*                                                                         *)
(* A target is a number, in the order of its key.  Its data is a member of *)
(* Data, None where the query finds nothing.  The data of a signal tells   *)
(* its time of observation, which only grows (SignalBuffer::check_time),   *)
(* and what is projected of a component its generation and revision: a     *)
(* version stands for it that grows with every change, 0 before the first  *)
(* sample.  (The restart of a virtual model, which empties its signal, is  *)
(* left out.)  Hidden targets belong to prepared devices, which Discover and  *)
(* the queries leave out until a configuration apply publishes them.       *)
(* Other records (operations, host, recorder, resources, configuration)    *)
(* have the target Other.  Records have the size the protocol allows.  The *)
(* filter by kind and the one by target are one set of targets.            *)
(*                                                                         *)
(* Of the connection, only its bounded queue of events is kept.  What the  *)
(* client does with the messages is not the repository's: `mirror` is a    *)
(* client that applies each event behind its cursor to its copy of the     *)
(* facts and resumes after its cursor.  `published` and `baseline` of the  *)
(* log are history: every record of this boot, and the facts before them.  *)
(***************************************************************************)
EXTENDS Integers, SequencesExt

CONSTANTS
    Targets,       \* keys of the facts, natural numbers
    Signals,       \* the targets that projections read from the Runtime: signals,
                   \* and components, which only discovery shows
    Prepared,      \* the targets of devices not yet published
    Data,          \* of the other targets
    Initial,       \* their data when the host is composed
    MaxVersion,    \* bound on the versions of a signal
    Clients,
    Filters,       \* sets of targets a client may subscribe to
    RingLimit,     \* EVENT_RING_LIMIT
    MaxSequence,   \* last sequence number
    ScanLimit,     \* records scanned in one pump
    OfferLimit,    \* records offered in one pump
    PageLimit,     \* records of one page
    EventQueue,    \* CLIENT_EVENTS
    Lifetime,      \* of a frozen projection
    MaxReservation,\* last reservation id
    MaxToken,      \* last token
    MaxTime,       \* bound on owner time
    None

ASSUME LimitAssumption ==
    /\ Targets \subseteq Nat
    /\ Prepared \subseteq Targets /\ Signals \subseteq Targets
    /\ None \notin Data \cup Nat /\ Initial \in Data
    /\ {RingLimit, ScanLimit, OfferLimit, PageLimit, EventQueue, Lifetime} \subseteq Nat \ {0}
    /\ {MaxVersion, MaxSequence, MaxReservation, MaxToken} \subseteq Nat

VARIABLES
    runtime,       \* value of each target, and the hidden targets
    log,           \* EventLog
    publication,   \* PreparedEventPublication of the pending apply, or None
    projections,   \* frozen projection of each client, or None
    subscriptions, \* subscription of each client, or None
    next_token,
    connection,    \* "open", "closing" or "gone"
    wire,          \* queue of event messages of each client
    mirror,        \* copy of the facts that each client has, or None
    now

owner == <<runtime, log, publication>>
app == <<projections, subscriptions, next_token>>
net == <<connection, wire, mirror>>
vars == <<owner, app, net, now>>

\* The target of a record that is no fact.
Other == -1

DataOf(t) == IF t \in Signals THEN 0..MaxVersion ELSE Data

Values == {value \in [Targets -> Data \cup 0..MaxVersion] : \A t \in Targets : value[t] \in DataOf(t)}

\* Target::query.
QueryTarget(rt, t) == IF t \in rt.hidden THEN None ELSE rt.value[t]

Sorted(targets) == SortSeq(targets, LAMBDA a, b : a < b)

-----------------------------------------------------------------------------
(* The log.                                                                *)

\* new and set_boot_id.
NewLog(rt) ==
    [sequence |-> 0,
     targets |-> SetToSortSeq(Targets \ rt.hidden, <),
     facts |-> [t \in Targets |-> QueryTarget(rt, t)],
     ring |-> <<>>,
     next_publication_reservation |-> 1,
     publication_reservation |-> None,
     published |-> <<>>,
     baseline |-> [t \in Targets |-> QueryTarget(rt, t)]]

\* The end of append, and of each step of a committed publication.
Push(l, target, data) ==
    LET record == [seq |-> l.sequence + 1, target |-> target, data |-> data]
        kept == IF Len(l.ring) = RingLimit THEN Tail(l.ring) ELSE l.ring
    IN  [l EXCEPT !.sequence = @ + 1, !.ring = Append(kept, record),
                !.published = Append(@, record)]

Held(l) == IF l.publication_reservation = None THEN 0 ELSE l.publication_reservation.capacity

\* Mutant: a record may take the sequence numbers held for a publication.
AppendOkStealing(l) == l.sequence + 1 <= MaxSequence

\* append succeeds: the sequence numbers of a prepared publication stay free.
AppendOk(l) == l.sequence + 1 + Held(l) <= MaxSequence

\* track_new_signals.
TrackNewSignals(l, rt) ==
    [l EXCEPT !.targets = Sorted(@ \o SetToSeq((Targets \ rt.hidden) \ Range(@)))]

\* One turn of the loop of observe.
ObserveTarget(l, rt, t) ==
    LET data == QueryTarget(rt, t)
    IN  IF data = None \/ l.facts[t] = data THEN [ok |-> TRUE, log |-> l]
        ELSE IF AppendOk(l) THEN [ok |-> TRUE, log |-> Push([l EXCEPT !.facts[t] = data], t, data)]
        ELSE [ok |-> FALSE, log |-> l]

\* observe: the first refused record ends it.
Observe(l, rt) ==
    LET tracked == TrackNewSignals(l, rt)
        Step(r, t) == IF r.ok THEN ObserveTarget(r.log, rt, t) ELSE r
    IN  FoldLeft(Step, [ok |-> TRUE, log |-> tracked], tracked.targets).log

\* prepare_simple_device_publication, for all hidden targets.
PrepareOk(l, rt) ==
    /\ l.publication_reservation = None
    /\ rt.hidden \cap Range(l.targets) = {}
    /\ l.sequence + Cardinality(rt.hidden) <= MaxSequence
    /\ l.next_publication_reservation < MaxReservation

PrepareSimpleDevicePublication(l, rt) ==
    LET keys == SetToSortSeq(rt.hidden, <)
        id == l.next_publication_reservation
    IN  [log |-> [l EXCEPT !.next_publication_reservation = @ + 1,
                           !.publication_reservation = [id |-> id, capacity |-> Len(keys)]],
         publication |-> [reservation_id |-> id,
                          events |-> [i \in DOMAIN keys |->
                                        [target |-> keys[i], data |-> rt.value[keys[i]]]]]]

CancelSimpleDevicePublication(l) == [l EXCEPT !.publication_reservation = None]

CommitSimpleDevicePublication(l, p) ==
    LET Step(r, e) == Push([r EXCEPT !.facts[e.target] = e.data,
                                     !.targets = Append(@, e.target)],
                           e.target, e.data)
        all == FoldLeft(Step, [l EXCEPT !.publication_reservation = None], p.events)
    IN  [all EXCEPT !.targets = Sorted(@)]

OldestCursor(l) == IF l.ring = <<>> THEN l.sequence ELSE l.ring[1].seq - 1

Gap == None

\* scan_after; no client of the model presents a cursor of the future.
ScanAfter(l, cursor, limit) ==
    IF cursor < OldestCursor(l) THEN Gap
    ELSE LET after == SelectSeq(l.ring, LAMBDA r : r.seq > cursor)
         IN  SubSeq(after, 1, IF Len(after) < limit THEN Len(after) ELSE limit)

\* projection_records: the facts of the log.
ProjectionRecords(l) ==
    LET known == SelectSeq(l.targets, LAMBDA t : l.facts[t] # None)
    IN  [i \in DOMAIN known |-> [target |-> known[i], data |-> l.facts[known[i]]]]

\* current_records: the signals that Discover shows, as the Runtime has them.
CurrentRecords(rt) ==
    LET shown == SetToSortSeq(Signals \ rt.hidden, <)
    IN  [i \in DOMAIN shown |-> [target |-> shown[i], data |-> rt.value[shown[i]]]]

\* discovery::records: signals and components of the Runtime; controllers,
\* references and outputs of the log.
DiscoveryRecords(rt, l) ==
    CurrentRecords(rt) \o SelectSeq(ProjectionRecords(l), LAMBDA r : r.target \notin Signals)

\* What query freezes for `discover` and `measurements_current`.
RecordsOf(kind, rt, l) ==
    IF kind = "discovery" THEN DiscoveryRecords(rt, l) ELSE CurrentRecords(rt)

\* The targets of which a projection speaks.
TargetsOf(kind) == IF kind = "discovery" THEN Targets ELSE Signals

-----------------------------------------------------------------------------
Init ==
    /\ runtime = [value |-> [t \in Targets |-> IF t \in Signals THEN 0 ELSE Initial],
                  hidden |-> Prepared]
    /\ log = NewLog(runtime)
    /\ publication = None
    /\ projections = [c \in Clients |-> None]
    /\ subscriptions = [c \in Clients |-> None]
    /\ next_token = 1
    /\ connection = [c \in Clients |-> "open"]
    /\ wire = [c \in Clients |-> <<>>]
    /\ mirror = [c \in Clients |-> None]
    /\ now = 0

-----------------------------------------------------------------------------
(* The owner.                                                              *)

\* A unit of domain work, with the observation that follows it.  A command of
\* the scheduler that fails returns before the observation; the owner then stops,
\* and answers queries while it does.
Unit(value, observed) ==
    LET next == [runtime EXCEPT !.value = value]
    IN  /\ value # runtime.value
        /\ \A t \in Signals : value[t] >= runtime.value[t]
        /\ runtime' = next
        /\ log' = (IF observed THEN Observe(log, next) ELSE log)
        /\ UNCHANGED <<publication, app, net, now>>

\* A unit that changes nothing observes too.
Idle ==
    /\ log' = Observe(log, runtime)
    /\ UNCHANGED <<runtime, publication, app, net, now>>

\* operation_terminal, host_state, recorder_state, resource_state,
\* configuration_state.
OtherRecord ==
    /\ AppendOk(log)
    /\ log' = Push(log, Other, None)
    /\ UNCHANGED <<runtime, publication, app, net, now>>

\* The Commit phase of an apply prepares the publication; at most one apply is
\* pending.
PreparePublication ==
    /\ publication = None
    /\ runtime.hidden # {}
    /\ PrepareOk(log, runtime)
    /\ LET prepared == PrepareSimpleDevicePublication(log, runtime)
       IN  log' = prepared.log /\ publication' = prepared.publication
    /\ UNCHANGED <<runtime, app, net, now>>

\* The activation is not durable, or the apply misses its deadline.
CancelPublication ==
    /\ publication # None
    /\ log' = CancelSimpleDevicePublication(log)
    /\ publication' = None
    /\ UNCHANGED <<runtime, app, net, now>>

\* The activation is durable: the Runtime shows the devices, then the log does.
CommitPublication ==
    /\ publication # None
    /\ runtime' = [runtime EXCEPT !.hidden = {}]
    /\ log' = CommitSimpleDevicePublication(log, publication)
    /\ publication' = None
    /\ UNCHANGED <<app, net, now>>

-----------------------------------------------------------------------------
(* The Application's delivery.                                             *)

\* projection_page: the records from index on, or None for snapshot_expired.
ProjectionPage(p, token, index, at) ==
    IF p = None \/ p.token # token \/ at >= p.expires THEN None
    ELSE LET last == IF index + PageLimit < Len(p.records) THEN index + PageLimit ELSE Len(p.records)
         IN  [records |-> SubSeq(p.records, index + 1, last),
              next_index |-> last,
              complete |-> last = Len(p.records)]

\* The client's copy after a page.
WithPage(m, page) ==
    [m EXCEPT !.next_index = page.next_index,
              !.complete = page.complete,
              !.view = [t \in Targets |->
                  LET here == {i \in DOMAIN page.records : page.records[i].target = t}
                  IN  IF here = {} THEN @[t] ELSE page.records[CHOOSE i \in here : TRUE].data]]

\* discover or measurements_current, with begin_projection; the client forgets what
\* it knew.  It will subscribe to targets of which the projection speaks.
BeginProjection(c, kind, filter) ==
    /\ filter \subseteq TargetsOf(kind)
    /\ connection[c] = "open" /\ subscriptions[c] = None
    /\ next_token < MaxToken
    /\ LET p == [token |-> next_token, cursor |-> log.sequence,
                 records |-> RecordsOf(kind, runtime, log), expires |-> now + Lifetime]
           empty == [token |-> next_token, cursor |-> p.cursor, filter |-> filter,
                     next_index |-> 0, complete |-> FALSE, view |-> [t \in Targets |-> None]]
       IN  /\ projections' = [projections EXCEPT ![c] = p]
           /\ mirror' = [mirror EXCEPT ![c] =
                 WithPage(empty, ProjectionPage(p, next_token, 0, now))]
    /\ next_token' = next_token + 1
    /\ UNCHANGED <<owner, subscriptions, connection, wire, now>>

\* The next page of the client's projection.
NextPage(c) ==
    /\ connection[c] = "open"
    /\ mirror[c] # None /\ ~mirror[c].complete
    /\ LET page == ProjectionPage(projections[c], mirror[c].token, mirror[c].next_index, now)
       IN  mirror' = [mirror EXCEPT ![c] = IF page = None THEN None ELSE WithPage(@, page)]
    /\ UNCHANGED <<owner, app, connection, wire, now>>

\* subscribe after the client's cursor; event_gap makes it start again.
Subscribe(c) ==
    /\ connection[c] = "open" /\ subscriptions[c] = None
    /\ mirror[c] # None /\ mirror[c].complete
    /\ IF ScanAfter(log, mirror[c].cursor, 1) = Gap
       THEN /\ mirror' = [mirror EXCEPT ![c] = None]
            /\ UNCHANGED <<subscriptions, next_token>>
       ELSE /\ next_token < MaxToken
            /\ subscriptions' = [subscriptions EXCEPT ![c] =
                  [token |-> next_token, scan |-> mirror[c].cursor, filter |-> mirror[c].filter]]
            /\ next_token' = next_token + 1
            /\ UNCHANGED mirror
    /\ UNCHANGED <<owner, projections, connection, wire, now>>

Unsubscribe(c) ==
    /\ connection[c] = "open" /\ subscriptions[c] # None
    /\ subscriptions' = [subscriptions EXCEPT ![c] = None]
    /\ UNCHANGED <<owner, projections, next_token, net, now>>

\* The records of a scan up to the one that fills the offer.
Scanned(events, filter) ==
    LET matching == {i \in DOMAIN events : events[i].target \in filter}
        full == {i \in matching : Cardinality({j \in matching : j <= i}) = OfferLimit}
    IN  IF full = {} THEN events ELSE SubSeq(events, 1, CHOOSE i \in full : TRUE)

\* Mutant: the scan goes on to its end although the offer was cut.
AdvancedFar(s, events, taken) ==
    [s EXCEPT !.scan = IF events = <<>> THEN @ ELSE events[Len(events)].seq]

\* Mutant: a scan that the offer cut short is repeated from its start.
AdvancedByWholes(s, events, taken) ==
    [s EXCEPT !.scan = IF taken = <<>> \/ taken # events THEN @ ELSE taken[Len(taken)].seq]

\* The subscription after a pump.
Advanced(s, events, taken) ==
    [s EXCEPT !.scan = IF taken = <<>> THEN @ ELSE taken[Len(taken)].seq]

\* What a pump offers: the matching records, or the progress of a scan.
Offer(s, taken) ==
    LET offered == SelectSeq(taken, LAMBDA r : r.target \in s.filter)
    IN  IF offered = <<>> /\ taken # <<>>
        THEN <<[type |-> "progress", seq |-> taken[Len(taken)].seq]>>
        ELSE [i \in DOMAIN offered |-> [type |-> "event", seq |-> offered[i].seq,
                                        target |-> offered[i].target, data |-> offered[i].data]]

GapError == [type |-> "event_gap"]

\* The reactor drops a client whose event queue is full, with all that waits.
Send(c, messages, state) ==
    IF connection[c] = "gone" \/ Len(wire[c]) + Len(messages) > EventQueue
    THEN /\ connection' = [connection EXCEPT ![c] = "gone"]
         /\ wire' = [wire EXCEPT ![c] = <<>>]
    ELSE /\ wire' = [wire EXCEPT ![c] = @ \o messages]
         /\ connection' = [connection EXCEPT ![c] = state]

\* begin_close and detach in the owner's loop; the connection closes behind the
\* messages that were sent.
CloseAfter(c, messages) ==
    /\ subscriptions' = [subscriptions EXCEPT ![c] = None]
    /\ projections' = [projections EXCEPT ![c] = None]
    /\ Send(c, messages, "closing")

\* pump_events, and what the owner's loop does with its messages: `sent` of them
\* find room in the channel to the reactor.
PumpEvents(c, sent) ==
    LET s == subscriptions[c]
        events == ScanAfter(log, s.scan, ScanLimit)
        taken == Scanned(events, s.filter)
        messages == Offer(s, taken)
    IN  /\ s # None
        /\ IF events = Gap
           THEN sent <= 1 /\ CloseAfter(c, SubSeq(<<GapError>>, 1, sent))
           ELSE IF sent < Len(messages)
           THEN CloseAfter(c, SubSeq(messages, 1, sent))
           ELSE /\ sent = Len(messages)
                /\ subscriptions' = [subscriptions EXCEPT ![c] = Advanced(s, events, taken)]
                /\ Send(c, messages, connection[c])
                /\ UNCHANGED projections
        /\ UNCHANGED <<owner, next_token, mirror, now>>

\* A pump for which the channel has room for everything, or for nothing more.
Pump(c) == \E sent \in 0..OfferLimit : PumpEvents(c, sent)

-----------------------------------------------------------------------------
(* The connection and the client.                                          *)

Applied(m, message) ==
    IF m = None \/ message.type = "event_gap" THEN None
    ELSE IF message.seq <= m.cursor THEN m
    ELSE IF message.type = "progress" THEN [m EXCEPT !.cursor = message.seq]
    ELSE [m EXCEPT !.cursor = message.seq, !.view[message.target] = message.data]

\* The reactor writes a message; the last one of a closing connection ends it.
Deliver(c) ==
    /\ wire[c] # <<>>
    /\ mirror' = [mirror EXCEPT ![c] = Applied(@, Head(wire[c]))]
    /\ wire' = [wire EXCEPT ![c] = Tail(@)]
    /\ connection' = [connection EXCEPT ![c] =
          IF @ = "closing" /\ Len(wire[c]) = 1 THEN "gone" ELSE @]
    /\ UNCHANGED <<owner, app, now>>

\* The peer leaves, or its write times out.
Drop(c) ==
    /\ connection[c] # "gone"
    /\ connection' = [connection EXCEPT ![c] = "gone"]
    /\ wire' = [wire EXCEPT ![c] = <<>>]
    /\ UNCHANGED <<owner, app, mirror, now>>

\* The reactor's turn for a peer to which something is to be written.
Write(c) == wire[c] # <<>> /\ (Deliver(c) \/ Drop(c))

\* The owner hears of it (detach), and the client connects again.
Detach(c) ==
    /\ connection[c] = "gone"
    /\ projections' = [projections EXCEPT ![c] = None]
    /\ subscriptions' = [subscriptions EXCEPT ![c] = None]
    /\ connection' = [connection EXCEPT ![c] = "open"]
    /\ mirror' = [mirror EXCEPT ![c] = IF @ # None /\ ~@.complete THEN None ELSE @]
    /\ UNCHANGED <<owner, next_token, wire, now>>

\* Time passes; the next request expires old projections.
Tick ==
    /\ now < MaxTime
    /\ now' = now + 1
    /\ projections' = [c \in Clients |->
          IF projections[c] # None /\ now + 1 >= projections[c].expires THEN None ELSE projections[c]]
    /\ UNCHANGED <<owner, subscriptions, next_token, net>>

OwnerNext ==
    \/ \E value \in Values, observed \in BOOLEAN : Unit(value, observed)
    \/ Idle \/ OtherRecord
    \/ PreparePublication \/ CancelPublication \/ CommitPublication

ClientNext(c) ==
    \/ \E kind \in {"discovery", "measurements"}, filter \in Filters :
          BeginProjection(c, kind, filter)
    \/ NextPage(c) \/ Subscribe(c) \/ Unsubscribe(c) \/ Pump(c)
    \/ Deliver(c) \/ Drop(c) \/ Detach(c)

Next == OwnerNext \/ (\E c \in Clients : ClientNext(c)) \/ Tick

Spec == Init /\ [][Next]_vars

\* The owner's loop pumps every client in each turn, and the reactor writes what
\* waits or drops the peer.
FairSpec ==
    /\ Spec
    /\ \A c \in Clients : WF_vars(Pump(c)) /\ WF_vars(Write(c))

-----------------------------------------------------------------------------
(* Properties.                                                             *)

\* The log has the shape of the struct, and its counters their bounds.  Every target
\* is tracked once, whether it was found by Discover or installed by a publication
\* that was prepared before, so that no projection repeats it.
TypeOK ==
    /\ log.sequence \in 0..MaxSequence
    /\ \A t \in Targets : log.facts[t] \in DataOf(t) \cup {None}
    /\ Range(log.targets) \subseteq Targets /\ IsInjective(log.targets)
    /\ Len(log.ring) <= RingLimit
    /\ \A c \in Clients : Len(wire[c]) <= EventQueue

\* The fact of a target after the first n records.
FactAt(n, t) ==
    LET of == {i \in 1..n : log.published[i].target = t}
    IN  IF of = {} THEN log.baseline[t] ELSE log.published[CHOOSE i \in of : \A j \in of : j <= i].data

\* The facts of the log, which discovery takes for controllers, references and
\* outputs, are those that a replay of every record up to its cursor gives, also
\* after an observation that failed half way.
FactsAreReplay == \A t \in Targets : log.facts[t] = FactAt(log.sequence, t)

\* None, of a signal that was not shown, is older than any data.
NotOlder(new, old) == old = None \/ (new # None /\ new >= old)

\* A client that has taken a projection, in pages, and followed a subscription,
\* over disconnections and resumptions, missed nothing: no matching record was
\* skipped, repeated or taken out of order.  Of a controller, a reference or an
\* output it has exactly the fact of its cursor.  Of a signal it may have more,
\* where the projection read what no record tells yet, but never less than the
\* fact of its cursor and never more than the Runtime: the records that follow
\* take it forward, and it agrees with a log that has observed everything.
MirrorIsExact ==
    \A c \in Clients :
        mirror[c] # None /\ mirror[c].complete =>
            \A t \in mirror[c].filter :
                LET copy == mirror[c].view[t]
                    fact == FactAt(mirror[c].cursor, t)
                IN  IF t \in Signals
                    THEN NotOlder(copy, fact) /\ NotOlder(QueryTarget(runtime, t), copy)
                    ELSE copy = fact

\* A scan returns the records that follow the cursor, without a hole, and reports
\* a gap only where the ring has really forgotten one of them.
ReplayIsComplete ==
    \A cursor \in 0..log.sequence :
        LET scan == ScanAfter(log, cursor, ScanLimit)
            end == IF cursor + ScanLimit < log.sequence THEN cursor + ScanLimit ELSE log.sequence
        IN  IF log.sequence - cursor > RingLimit THEN scan = Gap
            ELSE scan = SubSeq(log.published, cursor + 1, end)

\* The publication of a durable apply cannot fail: its reservation is the one that
\* is held, and the sequence numbers it needs are free.
CommitHasRoom ==
    publication # None =>
        /\ log.publication_reservation =
              [id |-> publication.reservation_id, capacity |-> Len(publication.events)]
        /\ log.sequence + Len(publication.events) <= MaxSequence

\* Whoever reads the log sees its records: its facts and the scan of a subscription
\* agree with what was published, and the copy a client keeps is that of its cursor,
\* ahead of it only in signals whose last change was not observed.
ReadersSeeTheRecord == FactsAreReplay /\ ReplayIsComplete /\ MirrorIsExact

\* A client that stays connected and subscribed sees every matching record.
Follows ==
    \A c \in Clients :
        LET Behind == /\ connection[c] = "open" /\ subscriptions[c] # None
                      /\ \E i \in (mirror[c].cursor + 1)..log.sequence :
                            log.published[i].target \in mirror[c].filter
        IN  Behind ~> ~Behind
=============================================================================
