---------------------- MODULE ResourceTransportProofs ----------------------
(***************************************************************************)
(* ResourceTransport keeps IInv for every value of the constants, and with *)
(* it the properties about places, starts, ends and the clean boundary.    *)
(*                                                                         *)
(* What the executor does in one call is a chain of small operations on a  *)
(* record.  Each is shown once to keep the executor Sound and to move a    *)
(* transaction from one place to another without losing or doubling it     *)
(* (Held); the steps of the system then follow from the chains.            *)
(***************************************************************************)
EXTENDS ResourceTransport, SequenceTheorems, FiniteSetTheorems, TLAPS

-----------------------------------------------------------------------------
(* The inductive invariant.                                                *)

Executor ==
    [queue : Seq(QueuedTransaction), safe_queue : QueuedTransaction \cup {None},
     state : {"Idle", "Active"} \cup Unavailable, tx : QueuedTransaction \cup {None},
     write_offset : 0..RequestLen, response : 0..(ResponseLen - 1), deadline : Nat,
     generation : Nat, next_transaction : Nat \ {0}, last_poll : Nat,
     latest : [id : Nat, outcome : TransactionOutcome, started : BOOLEAN] \cup {None},
     events : Seq(TransportEvent), closed : BOOLEAN]

\* The shape of an executor.  `slack` is 1 between a poll and the delivery of its
\* event, 0 otherwise: events are drained before the state may progress.
Structure(e, slack) ==
    /\ e.tx # None <=> e.state \in {"Active", "Recovering"}
    /\ e.tx = None => e.write_offset = 0 /\ e.response = 0
    /\ e.state \in {"Idle", "Active"} => Len(e.events) <= slack
    /\ e.state \in Unavailable => e.queue = <<>>
    /\ Len(e.queue) <= MaxQueued
    /\ Len(e.events) <= MaxQueued + slack
    /\ e.closed => e.state = "Offline"

\* A completed response is delivered in the poll that collected it.
Fresh(e, slack) ==
    \A i \in DOMAIN e.events :
        e.events[i].outcome = "Completed" => i = 1 /\ slack = 1 /\ e.state = "Idle"

\* What was admitted (`k` gives the kinds) is what is queued.
Admitted(tx, k) ==
    /\ tx.id \in DOMAIN k
    /\ IsRead(tx) <=> k[tx.id] \in {"read", "retryable"}
    /\ tx.retryable <=> k[tx.id] = "retryable"
    /\ tx.retries = 1 => tx.retryable

\* Each retry allows one more start (`w` counts them).
Waiting(tx, k, w) ==
    /\ Admitted(tx, k)
    /\ tx.dispatch = None
    /\ w[tx.id] <= tx.retries

Enqueued(e, k, w) ==
    /\ \A i \in DOMAIN e.queue : Waiting(e.queue[i], k, w)
    /\ e.safe_queue # None => Waiting(e.safe_queue, k, w)

\* The transaction that is executed or recovered may have started once more.  Of
\* an output the dispatch says whether it did, unless the authority could not
\* record the start (`r`).
Executing(e, k, w, r) ==
    /\ Admitted(e.tx, k)
    /\ w[e.tx.id] <= e.tx.retries + 1
    /\ IsRead(e.tx) => e.tx.dispatch = None
    /\ ~IsRead(e.tx) /\ e.tx.id \notin r =>
          /\ w[e.tx.id] = (IF e.write_offset > 0 THEN 1 ELSE 0)
          /\ e.tx.dispatch # None <=> e.write_offset > 0

\* Until its first byte is written it is as good as queued.
Owned(e, k, w, r) ==
    /\ Enqueued(e, k, w)
    /\ e.tx # None => Executing(e, k, w, r)
    /\ e.state = "Active" /\ e.write_offset = 0 => Waiting(e.tx, k, w)

IsOutput(k, id) == k[id] \in {"normal", "safe"}

\* A terminal event of an output tells whether it started.
EventIsHonest(event, k, w, r) ==
    IsTerminal(event) =>
        /\ event.id \in DOMAIN k
        /\ IsOutput(k, event.id) /\ event.id \notin r =>
              /\ event.intent # None
              /\ event.type = "OutputTerminal"
              /\ w[event.id] = (IF event.dispatch # None THEN 1 ELSE 0)
              /\ event.started <=> event.dispatch # None
              /\ event.outcome = "QueueExpired" => event.dispatch = None

EventsAreHonest(e, k, w, r) ==
    \A i \in DOMAIN e.events : EventIsHonest(e.events[i], k, w, r)

\* A dirty line is not offered a request.
Guarded(e, d) ==
    d => \/ e.state \in Unavailable
         \/ e.state = "Active" /\ e.write_offset > 0

Tries(kind) == IF kind = "retryable" THEN 2 ELSE 1

Histories(e, k, w, r) ==
    /\ k \in [1..(e.next_transaction - 1) -> Kind]
    /\ w \in [1..(e.next_transaction - 1) -> Nat]
    /\ r \subseteq 1..(e.next_transaction - 1)
    /\ \A id \in DOMAIN k : w[id] <= Tries(k[id])

Sound(e, slack, k, w, r, d) ==
    /\ e \in Executor
    /\ Structure(e, slack)
    /\ Fresh(e, slack)
    /\ Histories(e, k, w, r)
    /\ Owned(e, k, w, r)
    /\ EventsAreHonest(e, k, w, r)
    /\ Guarded(e, d)

\* How often the executor holds transaction `id`.
Held(e, id) ==
    Cardinality({i \in DOMAIN e.queue : e.queue[i].id = id})
    + Holds(e.safe_queue, id)
    + Holds(e.tx, id)
    + Cardinality(Ends(e.events, id))

\* Every transaction is in one place; the end reported for an output is honest.
Settled(e, k, w, r, sd, rep) ==
    /\ sd \in [1..(e.next_transaction - 1) -> Nat]
    /\ rep \in [1..(e.next_transaction - 1) -> Verdict \cup {None}]
    /\ \A id \in DOMAIN k :
          /\ Held(e, id) + sd[id] = 1
          /\ sd[id] = 0 => rep[id] = None
          /\ id \notin r /\ IsOutput(k, id) =>
                /\ rep[id] \in {"Unsent", "QueueExpired"} => w[id] = 0
                /\ rep[id] = "Sent" => w[id] = 1

IInv ==
    /\ now \in Nat
    /\ dirty \in BOOLEAN
    /\ Sound(ex, 0, admitted, wire, refused, dirty)
    /\ Settled(ex, admitted, wire, refused, settled, reported)

-----------------------------------------------------------------------------
(* Counting the elements of a sequence that belong to a set.               *)

Hits(s, A) == {i \in DOMAIN s : s[i] \in A}

Count(s, A) == Cardinality(Hits(s, A))

LEMMA CountType ==
    ASSUME NEW S, NEW A, NEW s \in Seq(S)
    PROVE  IsFiniteSet(Hits(s, A)) /\ Count(s, A) \in Nat
<1>1. DOMAIN s = 1..Len(s) /\ Len(s) \in Nat
  BY LenProperties
<1>2. IsFiniteSet(1..Len(s))
  BY <1>1, FS_Interval
<1>3. IsFiniteSet(Hits(s, A))
  BY <1>1, <1>2, FS_Subset DEF Hits
<1> QED
  BY <1>3, FS_CardinalityType DEF Count

LEMMA CountEmpty ==
    ASSUME NEW A
    PROVE  Count(<<>>, A) = 0
<1>1. Hits(<<>>, A) = {}
  BY DEF Hits
<1> QED
  BY <1>1, FS_EmptySet DEF Count

LEMMA CountOne ==
    ASSUME NEW A, NEW x
    PROVE  Count(<<x>>, A) = (IF x \in A THEN 1 ELSE 0)
<1>1. DOMAIN <<x>> = {1} /\ <<x>>[1] = x
  OBVIOUS
<1>2. CASE x \in A
  <2>1. Hits(<<x>>, A) = {1}
    BY <1>1, <1>2 DEF Hits
  <2> QED
    BY <1>2, <2>1, FS_Singleton DEF Count
<1>3. CASE x \notin A
  <2>1. Hits(<<x>>, A) = {}
    BY <1>1, <1>3 DEF Hits
  <2> QED
    BY <1>3, <2>1, FS_EmptySet DEF Count
<1> QED
  BY <1>2, <1>3

\* The hits of a concatenation are those of the first part and, shifted, those
\* of the second.
LEMMA CountConcat ==
    ASSUME NEW S, NEW A, NEW s \in Seq(S), NEW t \in Seq(S)
    PROVE  Count(s \o t, A) = Count(s, A) + Count(t, A)
<1> DEFINE n == Len(s)
           m == Len(t)
           shifted == {i \in (n + 1)..(n + m) : t[i - n] \in A}
           f == [i \in Hits(t, A) |-> i + n]
<1>1. /\ n \in Nat /\ m \in Nat
      /\ DOMAIN s = 1..n /\ DOMAIN t = 1..m
  BY LenProperties
<1>2. /\ DOMAIN (s \o t) = 1..(n + m)
      /\ \A i \in 1..(n + m) : (s \o t)[i] = IF i <= n THEN s[i] ELSE t[i - n]
  BY <1>1, ConcatProperties, LenProperties
<1> HIDE DEF n, m
<1>3. Hits(s \o t, A) = Hits(s, A) \cup shifted
  BY <1>1, <1>2 DEF Hits
<1>4. Hits(s, A) \cap shifted = {}
  BY <1>1 DEF Hits
<1>5. IsFiniteSet(Hits(s, A)) /\ IsFiniteSet(Hits(t, A))
  BY CountType
<1>6. f \in Bijection(Hits(t, A), shifted)
  <2>1. f \in [Hits(t, A) -> shifted]
    BY <1>1 DEF Hits
  <2>2. \A i, j \in Hits(t, A) : f[i] = f[j] => i = j
    BY <1>1 DEF Hits
  <2>3. \A j \in shifted : \E i \in Hits(t, A) : f[i] = j
    <3> TAKE j \in shifted
    <3>1. j - n \in Hits(t, A) /\ (j - n) + n = j
      BY <1>1 DEF Hits
    <3> QED
      BY <3>1
  <2> HIDE DEF f
  <2> QED
    BY <2>1, <2>2, <2>3 DEF Bijection, Injection, Surjection, IsInjective
<1>7. IsFiniteSet(shifted) /\ Cardinality(shifted) = Cardinality(Hits(t, A))
  BY <1>5, <1>6, FS_Bijection DEF ExistsBijection
<1> HIDE DEF shifted
<1>8. Cardinality(Hits(s, A) \cup shifted)
        = Cardinality(Hits(s, A)) + Cardinality(shifted) - Cardinality({})
  BY <1>4, <1>5, <1>7, FS_Union
<1> QED
  BY <1>3, <1>5, <1>7, <1>8, FS_EmptySet, FS_CardinalityType DEF Count

LEMMA CountAppend ==
    ASSUME NEW S, NEW A, NEW s \in Seq(S), NEW x \in S
    PROVE  Count(Append(s, x), A) = Count(s, A) + (IF x \in A THEN 1 ELSE 0)
<1>1. Append(s, x) = s \o <<x>> /\ <<x>> \in Seq(S)
  BY AppendIsConcat
<1>2. Count(s \o <<x>>, A) = Count(s, A) + Count(<<x>>, A)
  BY <1>1, CountConcat
<1>3. Count(<<x>>, A) = (IF x \in A THEN 1 ELSE 0)
  BY CountOne
<1> QED
  BY <1>1, <1>2, <1>3

LEMMA CountHeadTail ==
    ASSUME NEW S, NEW A, NEW s \in Seq(S), s # <<>>
    PROVE  Count(s, A) = (IF Head(s) \in A THEN 1 ELSE 0) + Count(Tail(s), A)
<1>1. Head(s) \in S /\ Tail(s) \in Seq(S) /\ <<Head(s)>> \in Seq(S)
  BY HeadTailProperties
<1>2. s = <<Head(s)>> \o Tail(s)
  OBVIOUS
<1>3. Count(<<Head(s)>> \o Tail(s), A) = Count(<<Head(s)>>, A) + Count(Tail(s), A)
  BY <1>1, CountConcat
<1>4. Count(<<Head(s)>>, A) = (IF Head(s) \in A THEN 1 ELSE 0)
  BY CountOne
<1> QED
  BY <1>2, <1>3, <1>4

\* A sequence without its i-th element.
Without(s, i) == SubSeq(s, 1, i - 1) \o SubSeq(s, i + 1, Len(s))

LEMMA CountRemove ==
    ASSUME NEW S, NEW A, NEW s \in Seq(S), NEW i \in 1..Len(s)
    PROVE  LET t == Without(s, i)
           IN  /\ t \in Seq(S)
               /\ Len(t) = Len(s) - 1
               /\ \A j \in DOMAIN t : \E l \in DOMAIN s : t[j] = s[l]
               /\ Count(s, A) = Count(t, A) + (IF s[i] \in A THEN 1 ELSE 0)
<1> DEFINE before == SubSeq(s, 1, i - 1)
           after == SubSeq(s, i + 1, Len(s))
<1>1. Len(s) \in Nat /\ \A j \in 1..Len(s) : s[j] \in S
  BY LenProperties
<1>2. before \in Seq(S) /\ after \in Seq(S) /\ <<s[i]>> \in Seq(S)
  BY <1>1
<1>3. Len(before) = i - 1 /\ Len(after) = Len(s) - i
  BY <1>1
<1>4. s = before \o (<<s[i]>> \o after)
  <2> DEFINE whole == before \o (<<s[i]>> \o after)
           rest == <<s[i]>> \o after
  <2>1. /\ \A j \in 1..(i - 1) : before[j] = s[j]
        /\ \A j \in 1..(Len(s) - i) : after[j] = s[i + j]
        /\ Len(<<s[i]>>) = 1 /\ <<s[i]>>[1] = s[i]
    BY <1>1
  <2> HIDE DEF before, after
  <2>2. /\ rest \in Seq(S)
        /\ Len(rest) = 1 + Len(after)
        /\ \A j \in 1..(1 + Len(after)) :
              rest[j] = IF j <= 1 THEN <<s[i]>>[j] ELSE after[j - 1]
    BY <1>2, <2>1, ConcatProperties
  <2> HIDE DEF rest
  <2>3. /\ before \o rest \in Seq(S)
        /\ Len(before \o rest) = Len(before) + Len(rest)
        /\ \A j \in 1..(Len(before) + Len(rest)) :
              (before \o rest)[j] = IF j <= Len(before) THEN before[j]
                                    ELSE rest[j - Len(before)]
    BY <1>2, <2>2, ConcatProperties
  <2>4. whole = before \o rest
    BY DEF rest
  <2> HIDE DEF whole
  <2>5. whole \in Seq(S) /\ Len(whole) = Len(s)
    <3>1. Len(before) + Len(rest) = Len(s)
      BY <1>1, <1>3, <2>2
    <3> QED
      BY <2>3, <2>4, <3>1
  <2>6. \A j \in 1..Len(s) : whole[j] = s[j]
    <3> TAKE j \in 1..Len(s)
    <3>1. whole[j] = IF j <= i - 1 THEN before[j] ELSE rest[j - (i - 1)]
      BY <1>1, <1>3, <2>2, <2>3, <2>4
    <3>2. CASE j <= i - 1
      BY <3>1, <3>2, <2>1
    <3>3. CASE j = i
      BY <1>1, <1>3, <3>1, <3>3, <2>1, <2>2
    <3>4. CASE j > i
      <4>1. rest[j - (i - 1)] = after[j - i]
        BY <1>1, <1>3, <3>4, <2>2
      <4>2. after[j - i] = s[j]
        BY <1>1, <3>4, <2>1
      <4> QED
        BY <1>1, <3>1, <3>4, <4>1, <4>2
    <3> QED
      BY <1>1, <3>2, <3>3, <3>4
  <2>7. s = whole
    BY <2>5, <2>6, SeqEqual
  <2> QED
    BY <2>7 DEF whole
<1>5. \A j \in DOMAIN (before \o after) : \E l \in DOMAIN s : (before \o after)[j] = s[l]
  <2> TAKE j \in DOMAIN (before \o after)
  <2>1. j \in 1..(Len(s) - 1)
    <3> HIDE DEF before, after
    <3>1. before \o after \in Seq(S) /\ Len(before \o after) = Len(before) + Len(after)
      BY <1>2, ConcatProperties
    <3>2. DOMAIN (before \o after) = 1..(Len(before) + Len(after))
      BY <3>1, LenProperties
    <3> QED
      BY <1>1, <1>3, <3>2
  <2>2. CASE j <= i - 1
    <3>1. (before \o after)[j] = s[j] /\ j \in DOMAIN s
      BY <1>1, <1>2, <1>3, <2>1, <2>2
    <3> QED
      BY <3>1
  <2>3. CASE ~(j <= i - 1)
    <3>1. (before \o after)[j] = s[j + 1] /\ j + 1 \in DOMAIN s
      BY <1>1, <1>2, <1>3, <2>1, <2>3
    <3> QED
      BY <3>1
  <2> QED
    BY <2>2, <2>3
<1> HIDE DEF before, after
<1>6. Count(s, A) = Count(before, A) + ((IF s[i] \in A THEN 1 ELSE 0) + Count(after, A))
  <2>1. s[i] \in S
    BY <1>1
  <2>2. <<s[i]>> \o after \in Seq(S)
    BY <1>2
  <2>3. Count(<<s[i]>> \o after, A) = (IF s[i] \in A THEN 1 ELSE 0) + Count(after, A)
    <3>1. Count(<<s[i]>> \o after, A) = Count(<<s[i]>>, A) + Count(after, A)
      BY <1>2, CountConcat
    <3>2. Count(<<s[i]>>, A) = (IF s[i] \in A THEN 1 ELSE 0)
      BY CountOne
    <3> QED
      BY <3>1, <3>2
  <2>4. Count(before \o (<<s[i]>> \o after), A) = Count(before, A) + Count(<<s[i]>> \o after, A)
    BY <1>2, <2>2, CountConcat
  <2> QED
    BY <1>4, <2>3, <2>4
<1>7. Count(before \o after, A) = Count(before, A) + Count(after, A)
  BY <1>2, CountConcat
<1>8. Count(before, A) \in Nat /\ Count(after, A) \in Nat
  BY <1>2, CountType
<1>9. before \o after \in Seq(S) /\ Len(before \o after) = Len(s) - 1
  <2>1. /\ before \o after \in Seq(S)
        /\ Len(before \o after) = Len(before) + Len(after)
    BY <1>2, ConcatProperties
  <2> QED
    BY <1>1, <1>3, <2>1
<1>10. Count(s, A) = Count(before \o after, A) + (IF s[i] \in A THEN 1 ELSE 0)
  BY <1>6, <1>7, <1>8
<1> QED
  BY <1>5, <1>9, <1>10 DEF Without, before, after

-----------------------------------------------------------------------------
(* What the small operations of the executor change.                       *)

SameQueues(f, e) == f.queue = e.queue /\ f.safe_queue = e.safe_queue

SameState(f, e) ==
    /\ f.state = e.state
    /\ f.tx = e.tx
    /\ f.write_offset = e.write_offset
    /\ f.response = e.response

SameIdentity(f, e) ==
    /\ f.generation = e.generation
    /\ f.next_transaction = e.next_transaction
    /\ f.closed = e.closed

\* The event types a transaction can cause.
TransactionEvents ==
    {"ReadTerminal", "ReadFenced", "ReadUnavailable", "OutputTerminal", "OutputUncertain"}

LEMMA EventType ==
    ASSUME NEW type \in TransactionEvents, NEW tx \in QueuedTransaction,
           NEW outcome \in TransactionOutcome \cup {None}, NEW started \in BOOLEAN
    PROVE  LET event == Event(type, tx, outcome, started)
           IN  /\ event \in TransportEvent
               /\ event.type = type
               /\ event.id = tx.id
               /\ event.intent = tx.intent
               /\ event.dispatch = tx.dispatch
               /\ event.outcome = outcome
               /\ event.started = started
  BY DEF Event, TransportEvent, QueuedTransaction, TransactionEvents

LEMMA EmitFields ==
    ASSUME NEW e \in Executor, NEW event \in TransportEvent
    PROVE  LET f == Emit(e, event)
           IN  /\ f \in Executor
               /\ f.events = Append(e.events, event)
               /\ SameQueues(f, e)
               /\ SameState(f, e)
               /\ SameIdentity(f, e)
               /\ f.deadline = e.deadline
<1>1. e.events \in Seq(TransportEvent)
  BY DEF Executor
<1>2. Append(e.events, event) \in Seq(TransportEvent)
  BY <1>1
<1> QED
  BY <1>2 DEF Emit, Executor, SameQueues, SameState, SameIdentity

TerminalType(tx) == IF IsRead(tx) THEN "ReadTerminal" ELSE "OutputTerminal"

LEMMA FinishFields ==
    ASSUME NEW e \in Executor, NEW tx \in QueuedTransaction,
           NEW outcome \in TransactionOutcome, NEW started \in BOOLEAN
    PROVE  LET f == Finish(e, tx, outcome, started)
           IN  /\ f \in Executor
               /\ f.events = Append(e.events, Event(TerminalType(tx), tx, outcome, started))
               /\ SameQueues(f, e)
               /\ SameState(f, e)
               /\ SameIdentity(f, e)
               /\ f.deadline = e.deadline
<1> DEFINE event == Event(TerminalType(tx), tx, outcome, started)
           g == Emit(e, event)
           report == [id |-> tx.id, outcome |-> outcome, started |-> started]
<1>1. TerminalType(tx) \in TransactionEvents
  BY DEF TerminalType, TransactionEvents
<1>2. event \in TransportEvent
  BY <1>1, EventType
<1>3. report \in [id : Nat, outcome : TransactionOutcome, started : BOOLEAN]
  BY DEF QueuedTransaction
<1>4. Finish(e, tx, outcome, started) = [g EXCEPT !.latest = report]
  BY DEF Finish, TerminalType
<1> HIDE DEF event
<1>5. /\ g \in Executor
      /\ g.events = Append(e.events, event)
      /\ SameQueues(g, e)
      /\ SameState(g, e)
      /\ SameIdentity(g, e)
      /\ g.deadline = e.deadline
  BY <1>2, EmitFields
<1> HIDE DEF g, report
<1>6. LET f == [g EXCEPT !.latest = report]
      IN  /\ f \in Executor
          /\ f.events = g.events
          /\ SameQueues(f, g)
          /\ SameState(f, g)
          /\ SameIdentity(f, g)
          /\ f.deadline = g.deadline
  BY <1>3, <1>5 DEF Executor, SameQueues, SameState, SameIdentity
<1> QED
  BY <1>4, <1>5, <1>6 DEF event, SameQueues, SameState, SameIdentity

LEMMA VacateFields ==
    ASSUME NEW e \in Executor, NEW state \in {"Idle", "ProtocolRecovery", "Offline"}
    PROVE  LET f == Vacate(e, state)
           IN  /\ f \in Executor
               /\ f.state = state
               /\ f.tx = None
               /\ f.write_offset = 0
               /\ f.response = 0
               /\ f.events = e.events
               /\ SameQueues(f, e)
               /\ SameIdentity(f, e)
<1>1. 0 \in 0..RequestLen /\ 0 \in 0..(ResponseLen - 1)
  BY ExecutorAssumption
<1>2. state \in {"Idle", "Active"} \cup Unavailable
  BY DEF Unavailable
<1>3. DOMAIN e = {"queue", "safe_queue", "state", "tx", "write_offset", "response",
                  "deadline", "generation", "next_transaction", "last_poll", "latest",
                  "events", "closed"}
  BY DEF Executor
<1>4. Vacate(e, state) \in Executor
  BY <1>1, <1>2 DEF Vacate, Executor
<1> QED
  BY <1>3, <1>4 DEF Vacate, SameQueues, SameIdentity

LEMMA FencedType ==
    ASSUME NEW tx \in QueuedTransaction
    PROVE  /\ Fenced(tx) \in TransportEvent
           /\ Fenced(tx).id = tx.id
           /\ Fenced(tx).intent = tx.intent
           /\ Fenced(tx).dispatch = tx.dispatch
           /\ Fenced(tx).outcome \in {None, "Failed"}
           /\ Fenced(tx).started = FALSE
           /\ IsTerminal(Fenced(tx))
           /\ ~IsRead(tx) => Fenced(tx).type = "OutputTerminal"
<1>1. CASE IsRead(tx)
  BY <1>1 DEF Fenced, Event, TransportEvent, QueuedTransaction, IsTerminal
<1>2. CASE ~IsRead(tx)
  BY <1>2 DEF Fenced, Event, TransportEvent, QueuedTransaction, IsTerminal, TransactionOutcome
<1> QED
  BY <1>1, <1>2

\* The events of a fenced queue.
Fences(queue) == [i \in DOMAIN queue |-> Fenced(queue[i])]

LEMMA FencesType ==
    ASSUME NEW queue \in Seq(QueuedTransaction)
    PROVE  /\ Fences(queue) \in Seq(TransportEvent)
           /\ Len(Fences(queue)) = Len(queue)
           /\ DOMAIN Fences(queue) = 1..Len(queue)
           /\ \A i \in 1..Len(queue) : Fences(queue)[i] = Fenced(queue[i])
<1>1. DOMAIN queue = 1..Len(queue) /\ Len(queue) \in Nat
  BY LenProperties
<1>2. \A i \in 1..Len(queue) : Fenced(queue[i]) \in TransportEvent
  <2> TAKE i \in 1..Len(queue)
  <2>1. queue[i] \in QueuedTransaction
    BY ElementOfSeq
  <2> QED
    BY <2>1, FencedType
<1>3. Fences(queue) \in [1..Len(queue) -> TransportEvent]
  BY <1>1, <1>2 DEF Fences
<1>4. Fences(queue) \in Seq(TransportEvent)
  BY <1>1, <1>3, SeqDef
<1>5. DOMAIN Fences(queue) = 1..Len(queue)
  BY <1>3
<1>6. Len(Fences(queue)) = Len(queue)
  BY <1>1, <1>4, <1>5, LenProperties
<1> QED
  BY <1>1, <1>4, <1>5, <1>6 DEF Fences

LEMMA FenceFields ==
    ASSUME NEW e \in Executor
    PROVE  LET f == FenceOrdinaryQueue(e)
           IN  /\ f \in Executor
               /\ f.queue = <<>>
               /\ f.safe_queue = e.safe_queue
               /\ f.events = e.events \o Fences(e.queue)
               /\ SameState(f, e)
               /\ SameIdentity(f, e)
               /\ f.deadline = e.deadline
<1>1. e.events \in Seq(TransportEvent) /\ e.queue \in Seq(QueuedTransaction)
  BY DEF Executor
<1>2. e.events \o Fences(e.queue) \in Seq(TransportEvent)
  BY <1>1, FencesType, ConcatProperties
<1>3. FenceOrdinaryQueue(e)
        = [e EXCEPT !.queue = <<>>, !.events = e.events \o Fences(e.queue)]
  BY DEF FenceOrdinaryQueue, Fences, Executor
<1>4. <<>> \in Seq(QueuedTransaction)
  OBVIOUS
<1> QED
  BY <1>2, <1>3, <1>4 DEF Executor, SameState, SameIdentity

-----------------------------------------------------------------------------
(* Where the transactions are.                                             *)

OfId(id) == {tx \in QueuedTransaction : tx.id = id}

EndsOf(id) == {event \in TransportEvent : IsTerminal(event) /\ event.id = id}

LEMMA EndsCount ==
    ASSUME NEW events \in Seq(TransportEvent), NEW id
    PROVE  /\ Cardinality(Ends(events, id)) = Count(events, EndsOf(id))
           /\ Count(events, EndsOf(id)) \in Nat
           /\ Ends(events, id) = {} <=> Count(events, EndsOf(id)) = 0
<1>1. \A i \in DOMAIN events : events[i] \in TransportEvent
  BY LenProperties, ElementOfSeq
<1>2. Ends(events, id) = Hits(events, EndsOf(id))
  BY <1>1 DEF Ends, Hits, EndsOf
<1>3. IsFiniteSet(Hits(events, EndsOf(id))) /\ Count(events, EndsOf(id)) \in Nat
  BY CountType
<1> QED
  BY <1>2, <1>3, FS_EmptySet DEF Count

\* The places of a transaction, counted.
LEMMA HeldCounts ==
    ASSUME NEW e \in Executor, NEW id
    PROVE  /\ Held(e, id) = Count(e.queue, OfId(id)) + Holds(e.safe_queue, id)
                            + Holds(e.tx, id) + Count(e.events, EndsOf(id))
           /\ Count(e.queue, OfId(id)) \in Nat
           /\ Count(e.events, EndsOf(id)) \in Nat
<1>1. e.queue \in Seq(QueuedTransaction) /\ e.events \in Seq(TransportEvent)
  BY DEF Executor
<1>2. \A i \in DOMAIN e.queue : e.queue[i] \in QueuedTransaction
  BY <1>1, LenProperties, ElementOfSeq
<1>3. {i \in DOMAIN e.queue : e.queue[i].id = id} = Hits(e.queue, OfId(id))
  BY <1>2 DEF Hits, OfId
<1> QED
  BY <1>1, <1>3, EndsCount, CountType DEF Held, Count

LEMMA HoldsType ==
    ASSUME NEW tx, NEW id
    PROVE  /\ Holds(tx, id) \in {0, 1}
           /\ Holds(None, id) = 0
           /\ tx \in QueuedTransaction => Holds(tx, id) = (IF tx \in OfId(id) THEN 1 ELSE 0)
  BY NoneAssumption DEF Holds, OfId

\* A fence moves the queue to the events.
LEMMA FencesCount ==
    ASSUME NEW queue \in Seq(QueuedTransaction), NEW id
    PROVE  Count(Fences(queue), EndsOf(id)) = Count(queue, OfId(id))
<1>1. DOMAIN queue = 1..Len(queue)
  BY LenProperties
<1>2. \A i \in 1..Len(queue) : Fenced(queue[i]) \in EndsOf(id) <=> queue[i] \in OfId(id)
  <2> TAKE i \in 1..Len(queue)
  <2>1. queue[i] \in QueuedTransaction
    BY ElementOfSeq
  <2> QED
    BY <2>1, FencedType DEF EndsOf, OfId
<1>3. Hits(Fences(queue), EndsOf(id)) = Hits(queue, OfId(id))
  BY <1>1, <1>2, FencesType DEF Hits
<1> QED
  BY <1>3 DEF Count

\* So a fence, a report and an end keep every transaction in its number of places.
LEMMA FenceHeld ==
    ASSUME NEW e \in Executor, NEW id
    PROVE  Held(FenceOrdinaryQueue(e), id) = Held(e, id)
<1> DEFINE f == FenceOrdinaryQueue(e)
<1>1. e.queue \in Seq(QueuedTransaction) /\ e.events \in Seq(TransportEvent)
  BY DEF Executor
<1>2. /\ f \in Executor
      /\ f.queue = <<>>
      /\ f.safe_queue = e.safe_queue
      /\ f.events = e.events \o Fences(e.queue)
      /\ f.tx = e.tx
  BY FenceFields DEF SameState
<1> HIDE DEF f
<1>3. Count(e.events \o Fences(e.queue), EndsOf(id))
        = Count(e.events, EndsOf(id)) + Count(Fences(e.queue), EndsOf(id))
  BY <1>1, FencesType, CountConcat
<1>4. Count(Fences(e.queue), EndsOf(id)) = Count(e.queue, OfId(id))
  BY <1>1, FencesCount
<1>5. Count(f.queue, OfId(id)) = 0
  BY <1>2, CountEmpty
<1>6. Held(f, id) = Held(e, id)
  <2>1. /\ Held(f, id) = Count(f.queue, OfId(id)) + Holds(f.safe_queue, id)
                         + Holds(f.tx, id) + Count(f.events, EndsOf(id))
        /\ Held(e, id) = Count(e.queue, OfId(id)) + Holds(e.safe_queue, id)
                         + Holds(e.tx, id) + Count(e.events, EndsOf(id))
        /\ Count(e.queue, OfId(id)) \in Nat
        /\ Count(e.events, EndsOf(id)) \in Nat
    BY <1>2, HeldCounts
  <2>2. /\ Holds(e.safe_queue, id) \in {0, 1} /\ Holds(e.tx, id) \in {0, 1}
    BY HoldsType
  <2> QED
    BY <1>2, <1>3, <1>4, <1>5, <2>1, <2>2
<1> QED
  BY <1>6 DEF f

LEMMA EmitHeld ==
    ASSUME NEW e \in Executor, NEW event \in TransportEvent, NEW id
    PROVE  Held(Emit(e, event), id)
             = Held(e, id) + (IF event \in EndsOf(id) THEN 1 ELSE 0)
<1> DEFINE f == Emit(e, event)
<1>1. e.events \in Seq(TransportEvent)
  BY DEF Executor
<1>2. /\ f \in Executor
      /\ f.queue = e.queue
      /\ f.safe_queue = e.safe_queue
      /\ f.events = Append(e.events, event)
      /\ f.tx = e.tx
  BY EmitFields DEF SameState, SameQueues
<1> HIDE DEF f
<1>3. Count(Append(e.events, event), EndsOf(id))
        = Count(e.events, EndsOf(id)) + (IF event \in EndsOf(id) THEN 1 ELSE 0)
  BY <1>1, CountAppend
<1>4. Held(f, id) = Held(e, id) + (IF event \in EndsOf(id) THEN 1 ELSE 0)
  <2>1. /\ Held(f, id) = Count(f.queue, OfId(id)) + Holds(f.safe_queue, id)
                         + Holds(f.tx, id) + Count(f.events, EndsOf(id))
        /\ Held(e, id) = Count(e.queue, OfId(id)) + Holds(e.safe_queue, id)
                         + Holds(e.tx, id) + Count(e.events, EndsOf(id))
        /\ Count(e.queue, OfId(id)) \in Nat
        /\ Count(e.events, EndsOf(id)) \in Nat
    BY <1>2, HeldCounts
  <2>2. /\ Holds(e.safe_queue, id) \in {0, 1} /\ Holds(e.tx, id) \in {0, 1}
    BY HoldsType
  <2> QED
    BY <1>2, <1>3, <2>1, <2>2
<1> QED
  BY <1>4 DEF f

LEMMA FinishHeld ==
    ASSUME NEW e \in Executor, NEW tx \in QueuedTransaction,
           NEW outcome \in TransactionOutcome, NEW started \in BOOLEAN, NEW id
    PROVE  Held(Finish(e, tx, outcome, started), id) = Held(e, id) + Holds(tx, id)
<1> DEFINE f == Finish(e, tx, outcome, started)
           event == Event(TerminalType(tx), tx, outcome, started)
<1>1. e.events \in Seq(TransportEvent)
  BY DEF Executor
<1>2. TerminalType(tx) \in TransactionEvents
  BY DEF TerminalType, TransactionEvents
<1>3. event \in TransportEvent /\ event.id = tx.id /\ event.type = TerminalType(tx)
  BY <1>2, EventType
<1>4. /\ f \in Executor
      /\ f.queue = e.queue
      /\ f.safe_queue = e.safe_queue
      /\ f.events = Append(e.events, event)
      /\ f.tx = e.tx
  BY FinishFields DEF SameState, SameQueues
<1> HIDE DEF f, event
<1>5. Count(Append(e.events, event), EndsOf(id))
        = Count(e.events, EndsOf(id)) + (IF event \in EndsOf(id) THEN 1 ELSE 0)
  BY <1>1, <1>3, CountAppend
<1>6. event \in EndsOf(id) <=> tx \in OfId(id)
  BY <1>3 DEF EndsOf, OfId, TerminalType, IsTerminal
<1>7. Held(f, id) = Held(e, id) + Holds(tx, id)
  <2>1. /\ Held(f, id) = Count(f.queue, OfId(id)) + Holds(f.safe_queue, id)
                         + Holds(f.tx, id) + Count(f.events, EndsOf(id))
        /\ Held(e, id) = Count(e.queue, OfId(id)) + Holds(e.safe_queue, id)
                         + Holds(e.tx, id) + Count(e.events, EndsOf(id))
        /\ Count(e.queue, OfId(id)) \in Nat
        /\ Count(e.events, EndsOf(id)) \in Nat
    BY <1>4, HeldCounts
  <2>2. /\ Holds(e.safe_queue, id) \in {0, 1} /\ Holds(e.tx, id) \in {0, 1}
    BY HoldsType
  <2> QED
    BY <1>4, <1>5, <1>6, <2>1, <2>2, HoldsType
<1> QED
  BY <1>7 DEF f

LEMMA VacateHeld ==
    ASSUME NEW e \in Executor, NEW state \in {"Idle", "ProtocolRecovery", "Offline"}, NEW id
    PROVE  Held(Vacate(e, state), id) = Held(e, id) - Holds(e.tx, id)
<1> DEFINE f == Vacate(e, state)
<1>1. /\ f \in Executor
      /\ f.queue = e.queue
      /\ f.safe_queue = e.safe_queue
      /\ f.events = e.events
      /\ f.tx = None
  BY VacateFields DEF SameQueues
<1> HIDE DEF f
<1>2. Held(f, id) = Held(e, id) - Holds(e.tx, id)
  BY <1>1, HeldCounts, HoldsType
<1> QED
  BY <1>2 DEF f

-----------------------------------------------------------------------------
(* What the events say.                                                    *)

\* Honest events, none of which completes a response.
Quiet(events, k, w, r) ==
    \A i \in DOMAIN events :
        events[i].outcome # "Completed" /\ EventIsHonest(events[i], k, w, r)

LEMMA QuietAppend ==
    ASSUME NEW events \in Seq(TransportEvent), NEW event \in TransportEvent,
           NEW k, NEW w, NEW r, Quiet(events, k, w, r),
           event.outcome # "Completed", EventIsHonest(event, k, w, r)
    PROVE  Quiet(Append(events, event), k, w, r)
<1> SUFFICES ASSUME NEW i \in DOMAIN Append(events, event)
             PROVE  /\ Append(events, event)[i].outcome # "Completed"
                    /\ EventIsHonest(Append(events, event)[i], k, w, r)
  BY DEF Quiet
<1>1. /\ DOMAIN events = 1..Len(events) /\ Len(events) \in Nat
      /\ DOMAIN Append(events, event) = 1..(Len(events) + 1)
  BY LenProperties
<1>2. CASE i \in DOMAIN events
  BY <1>1, <1>2 DEF Quiet
<1>3. CASE i = Len(events) + 1
  BY <1>1, <1>3
<1> QED
  BY <1>1, <1>2, <1>3

LEMMA QuietConcat ==
    ASSUME NEW s \in Seq(TransportEvent), NEW t \in Seq(TransportEvent),
           NEW k, NEW w, NEW r, Quiet(s, k, w, r), Quiet(t, k, w, r)
    PROVE  Quiet(s \o t, k, w, r)
<1> SUFFICES ASSUME NEW i \in DOMAIN (s \o t)
             PROVE  /\ (s \o t)[i].outcome # "Completed"
                    /\ EventIsHonest((s \o t)[i], k, w, r)
  BY DEF Quiet
<1>1. /\ DOMAIN s = 1..Len(s) /\ Len(s) \in Nat
      /\ DOMAIN t = 1..Len(t) /\ Len(t) \in Nat
  BY LenProperties
<1>2. /\ s \o t \in Seq(TransportEvent)
      /\ Len(s \o t) = Len(s) + Len(t)
      /\ \A j \in 1..(Len(s) + Len(t)) :
            (s \o t)[j] = IF j <= Len(s) THEN s[j] ELSE t[j - Len(s)]
  BY ConcatProperties
<1>3. i \in 1..(Len(s) + Len(t))
  BY <1>2, LenProperties
<1>4. CASE i <= Len(s)
  <2>1. i \in DOMAIN s /\ (s \o t)[i] = s[i]
    BY <1>1, <1>2, <1>3, <1>4
  <2> QED
    BY <2>1 DEF Quiet
<1>5. CASE ~(i <= Len(s))
  <2>1. i - Len(s) \in DOMAIN t /\ (s \o t)[i] = t[i - Len(s)]
    BY <1>1, <1>2, <1>3, <1>5
  <2> QED
    BY <2>1 DEF Quiet
<1> QED
  BY <1>4, <1>5

\* An honest history: one entry for every admission.
History(n, k, w, r) ==
    /\ n \in Nat
    /\ k \in [1..n -> Kind]
    /\ w \in [1..n -> Nat]
    /\ r \subseteq 1..n

\* The end of a transaction that never began: expired, fenced or cancelled.
LEMMA WaitingEnd ==
    ASSUME NEW tx \in QueuedTransaction, NEW n, NEW k, NEW w, NEW r,
           History(n, k, w, r), Waiting(tx, k, w)
    PROVE  /\ EventIsHonest(Event(TerminalType(tx), tx, "QueueExpired", FALSE), k, w, r)
           /\ EventIsHonest(Fenced(tx), k, w, r)
           /\ IsOutput(k, tx.id) => w[tx.id] = 0
<1>1. TerminalType(tx) \in TransactionEvents
  BY DEF TerminalType, TransactionEvents
<1>2. tx.id \in 1..n /\ w[tx.id] \in Nat
  BY DEF History, Waiting, Admitted
<1>3. ASSUME IsOutput(k, tx.id)
      PROVE  ~IsRead(tx) /\ tx.retries = 0 /\ w[tx.id] = 0 /\ tx.dispatch = None
  BY <1>2, <1>3 DEF IsOutput, Waiting, Admitted, QueuedTransaction
<1>4. EventIsHonest(Event(TerminalType(tx), tx, "QueueExpired", FALSE), k, w, r)
  <2> DEFINE event == Event(TerminalType(tx), tx, "QueueExpired", FALSE)
  <2>1. /\ event.type = TerminalType(tx)
        /\ event.id = tx.id
        /\ event.intent = tx.intent
        /\ event.dispatch = tx.dispatch
        /\ event.outcome = "QueueExpired"
        /\ event.started = FALSE
    BY DEF Event
  <2> HIDE DEF event
  <2>2. EventIsHonest(event, k, w, r)
    BY <1>3, <2>1 DEF EventIsHonest, TerminalType, IsRead, Waiting, Admitted
  <2> QED
    BY <2>2 DEF event
<1>5. EventIsHonest(Fenced(tx), k, w, r)
  <2>1. /\ Fenced(tx).id = tx.id
        /\ Fenced(tx).intent = tx.intent
        /\ Fenced(tx).dispatch = tx.dispatch
        /\ Fenced(tx).outcome # "QueueExpired"
        /\ Fenced(tx).started = FALSE
        /\ ~IsRead(tx) => Fenced(tx).type = "OutputTerminal"
    BY FencedType, NoneAssumption DEF TransactionOutcome
  <2> QED
    BY <1>3, <2>1 DEF EventIsHonest, IsRead, Waiting, Admitted
<1> QED
  BY <1>3, <1>4, <1>5

LEMMA QuietFences ==
    ASSUME NEW queue \in Seq(QueuedTransaction), NEW n, NEW k, NEW w, NEW r,
           History(n, k, w, r), \A i \in DOMAIN queue : Waiting(queue[i], k, w)
    PROVE  Quiet(Fences(queue), k, w, r)
<1> SUFFICES ASSUME NEW i \in DOMAIN Fences(queue)
             PROVE  /\ Fences(queue)[i].outcome # "Completed"
                    /\ EventIsHonest(Fences(queue)[i], k, w, r)
  BY DEF Quiet
<1>1. i \in DOMAIN queue /\ queue[i] \in QueuedTransaction
  BY FencesType, LenProperties, ElementOfSeq
<1>2. Fences(queue)[i] = Fenced(queue[i])
  BY <1>1 DEF Fences
<1>3. Fenced(queue[i]).outcome # "Completed"
  BY <1>1, FencedType, NoneAssumption DEF TransactionOutcome
<1> QED
  BY <1>1, <1>2, <1>3, WaitingEnd

\* The end of the transaction that is executed or recovered.
LEMMA ExecutingEnd ==
    ASSUME NEW e \in Executor, NEW n, NEW k, NEW w, NEW r,
           History(n, k, w, r), Executing(e, k, w, r), e.tx \in QueuedTransaction,
           NEW outcome \in {"Completed", "Failed"}
    PROVE  EventIsHonest(Event(TerminalType(e.tx), e.tx, outcome, e.write_offset > 0),
                         k, w, r)
<1> DEFINE tx == e.tx
           event == Event(TerminalType(tx), tx, outcome, e.write_offset > 0)
<1>1. /\ event.type = TerminalType(tx)
      /\ event.id = tx.id
      /\ event.intent = tx.intent
      /\ event.dispatch = tx.dispatch
      /\ event.outcome # "QueueExpired"
      /\ event.started = (e.write_offset > 0)
  BY DEF Event
<1>2. tx.id \in DOMAIN k
  BY DEF Executing, Admitted
<1>3. IsOutput(k, tx.id) => ~IsRead(tx)
  BY DEF IsOutput, Executing, Admitted
<1>4. ~IsRead(tx) /\ tx.id \notin r =>
         /\ w[tx.id] = (IF tx.dispatch # None THEN 1 ELSE 0)
         /\ (e.write_offset > 0) <=> tx.dispatch # None
  BY DEF Executing
<1> HIDE DEF event, tx
<1>5. EventIsHonest(event, k, w, r)
  BY <1>1, <1>2, <1>3, <1>4 DEF EventIsHonest, TerminalType, IsRead
<1> QED
  BY <1>5 DEF event, tx

-----------------------------------------------------------------------------
(* What becomes of the transaction that is executed or recovered.          *)

\* The executor owns a transaction and has no event to deliver.
Ending(e, k, w, r) ==
    /\ e \in Executor
    /\ Structure(e, 0)
    /\ e.events = <<>>
    /\ e.tx # None
    /\ Histories(e, k, w, r)
    /\ Enqueued(e, k, w)
    /\ Executing(e, k, w, r)

Completes(f) == f.events # <<>> /\ Head(f.events).outcome = "Completed"

\* A poll leaves `f` of `e`.
Polled(f, e, k, w, r, d) ==
    /\ Sound(f, 1, k, w, r, d)
    /\ f.next_transaction = e.next_transaction
    /\ \A id : Held(f, id) = Held(e, id)

LEMMA EndingFacts ==
    ASSUME NEW e, NEW k, NEW w, NEW r, Ending(e, k, w, r)
    PROVE  /\ e.tx \in QueuedTransaction
           /\ e.state \in {"Active", "Recovering"}
           /\ e.closed = FALSE
           /\ e.queue \in Seq(QueuedTransaction)
           /\ Len(e.queue) \in Nat /\ Len(e.queue) <= MaxQueued
           /\ (e.write_offset > 0) \in BOOLEAN
           /\ History(e.next_transaction - 1, k, w, r)
<1>1. e \in Executor /\ e.tx # None
  BY DEF Ending
<1>2. /\ e.tx \in QueuedTransaction
      /\ e.queue \in Seq(QueuedTransaction)
      /\ e.write_offset \in Int
      /\ e.closed \in BOOLEAN
      /\ e.next_transaction \in Nat \ {0}
  BY <1>1, ExecutorAssumption DEF Executor
<1>3. e.state \in {"Active", "Recovering"}
  BY <1>1 DEF Ending, Structure
<1>4. e.closed = FALSE
  BY <1>2, <1>3 DEF Ending, Structure
<1>5. Len(e.queue) \in Nat /\ Len(e.queue) <= MaxQueued
  BY <1>2 DEF Ending, Structure
<1>6. e.next_transaction - 1 \in Nat
  BY <1>2
<1> QED
  BY <1>2, <1>3, <1>4, <1>5, <1>6 DEF Ending, Histories, History

\* It ends, and the resource is idle or, after a failed recovery, offline.
LEMMA FinishPolled ==
    ASSUME NEW e, NEW k, NEW w, NEW r, NEW d \in BOOLEAN, Ending(e, k, w, r),
           NEW outcome \in {"Completed", "Failed"}, NEW state \in {"Idle", "Offline"},
           state = "Offline" => e.state = "Recovering" /\ outcome = "Failed",
           d => state = "Offline"
    PROVE  LET f == Vacate(Finish(e, e.tx, outcome, e.write_offset > 0), state)
           IN  /\ Polled(f, e, k, w, r, d)
               /\ f.state = state
               /\ f.generation = e.generation
               /\ Completes(f) <=> outcome = "Completed"
<1> DEFINE started == e.write_offset > 0
           event == Event(TerminalType(e.tx), e.tx, outcome, started)
           g == Finish(e, e.tx, outcome, started)
           f == Vacate(g, state)
<1>1. /\ e.tx \in QueuedTransaction
      /\ e \in Executor
      /\ outcome \in TransactionOutcome
      /\ started \in BOOLEAN
      /\ TerminalType(e.tx) \in TransactionEvents
  BY EndingFacts DEF Ending, TransactionOutcome, TerminalType, TransactionEvents
<1>2. event \in TransportEvent /\ event.outcome = outcome
  <2> HIDE DEF started
  <2>1. outcome \in TransactionOutcome \cup {None}
    BY <1>1
  <2> QED
    BY <1>1, <2>1, EventType
<1>3. EventIsHonest(event, k, w, r)
  BY <1>1, EndingFacts, ExecutingEnd DEF Ending
<1>4. /\ g \in Executor
      /\ g.events = Append(e.events, event)
      /\ SameQueues(g, e)
      /\ SameState(g, e)
      /\ SameIdentity(g, e)
  BY <1>1, FinishFields
<1>5. \A id : Held(g, id) = Held(e, id) + Holds(e.tx, id)
  BY <1>1, FinishHeld
<1> HIDE DEF event, g
<1>6. /\ f \in Executor
      /\ f.state = state
      /\ f.tx = None
      /\ f.write_offset = 0
      /\ f.response = 0
      /\ f.events = g.events
      /\ SameQueues(f, g)
      /\ SameIdentity(f, g)
  BY <1>4, VacateFields
<1>7. \A id : Held(f, id) = Held(g, id) - Holds(g.tx, id)
  BY <1>4, VacateHeld
<1> HIDE DEF f
<1>8. f.events = <<event>> /\ Len(f.events) = 1
  BY <1>2, <1>4, <1>6 DEF Ending
<1>9. /\ f.queue = e.queue
      /\ f.safe_queue = e.safe_queue
      /\ f.generation = e.generation
      /\ f.next_transaction = e.next_transaction
      /\ f.closed = e.closed
  BY <1>4, <1>6 DEF SameQueues, SameIdentity
<1>10. \A id : Held(f, id) = Held(e, id)
  <2> TAKE id
  <2>1. Holds(g.tx, id) = Holds(e.tx, id) /\ Holds(e.tx, id) \in {0, 1}
    BY <1>4, HoldsType DEF SameState
  <2>2. Held(e, id) \in Nat
    BY <1>1, HeldCounts, HoldsType
  <2> QED
    BY <1>5, <1>7, <2>1, <2>2
<1>11. Structure(f, 1)
  <2>1. e.state = "Recovering" => e.queue = <<>>
    BY DEF Ending, Structure, Unavailable
  <2>2. Len(f.queue) <= MaxQueued /\ Len(f.events) <= MaxQueued + 1
    <3>1. Len(e.queue) \in Nat /\ Len(e.queue) <= MaxQueued
      BY EndingFacts
    <3>2. 1 <= MaxQueued + 1
      BY ExecutorAssumption
    <3> QED
      BY <1>8, <1>9, <3>1, <3>2
  <2>3. f.state \in Unavailable => f.queue = <<>>
    BY <1>6, <1>9, <2>1 DEF Unavailable
  <2>4. f.closed = FALSE
    BY <1>9, EndingFacts
  <2> QED
    BY <1>6, <1>8, <2>2, <2>3, <2>4 DEF Structure
<1>12. Fresh(f, 1)
  BY <1>2, <1>6, <1>8 DEF Fresh
<1>13. Histories(f, k, w, r)
  BY <1>9 DEF Ending, Histories
<1>14. Owned(f, k, w, r)
  BY <1>6, <1>9 DEF Ending, Owned, Enqueued
<1>15. EventsAreHonest(f, k, w, r)
  BY <1>3, <1>8 DEF EventsAreHonest
<1>16. Guarded(f, d)
  BY <1>6 DEF Guarded, Unavailable
<1>17. Polled(f, e, k, w, r, d)
  BY <1>6, <1>9, <1>10, <1>11, <1>12, <1>13, <1>14, <1>15, <1>16 DEF Polled, Sound
<1>18. Completes(f) <=> outcome = "Completed"
  BY <1>2, <1>8 DEF Completes
<1> QED
  BY <1>6, <1>9, <1>17, <1>18 DEF f, g

\* What EnterRecovery tells the owner first.
Reported(e) ==
    IF IsRead(e.tx) THEN Emit(e, Event("ReadUnavailable", e.tx, None, FALSE))
    ELSE IF e.tx.dispatch # None
    THEN Emit(e, Event("OutputUncertain", e.tx, None, FALSE))
    ELSE e

LEMMA ReportedFacts ==
    ASSUME NEW e, NEW k, NEW w, NEW r, Ending(e, k, w, r)
    PROVE  LET g == Reported(e)
           IN  /\ g \in Executor
               /\ SameQueues(g, e)
               /\ SameState(g, e)
               /\ SameIdentity(g, e)
               /\ Len(g.events) <= 1
               /\ Quiet(g.events, k, w, r)
               /\ \A id : Held(g, id) = Held(e, id)
<1>1. /\ e \in Executor
      /\ e.tx \in QueuedTransaction
      /\ e.events = <<>> /\ <<>> \in Seq(TransportEvent)
  <2>1. e.tx \in QueuedTransaction
    BY EndingFacts
  <2>2. <<>> \in Seq(TransportEvent)
    OBVIOUS
  <2> QED
    BY <2>1, <2>2 DEF Ending
<1>2. Quiet(<<>>, k, w, r)
  BY DEF Quiet
<1>3. ASSUME NEW type \in {"ReadUnavailable", "OutputUncertain"}
      PROVE  LET g == Emit(e, Event(type, e.tx, None, FALSE))
             IN  /\ g \in Executor
                 /\ SameQueues(g, e)
                 /\ SameState(g, e)
                 /\ SameIdentity(g, e)
                 /\ Len(g.events) <= 1
                 /\ Quiet(g.events, k, w, r)
                 /\ \A id : Held(g, id) = Held(e, id)
  <2> DEFINE event == Event(type, e.tx, None, FALSE)
             g == Emit(e, event)
  <2>1. type \in TransactionEvents
    BY DEF TransactionEvents
  <2>2. /\ event \in TransportEvent
        /\ event.type = type
        /\ event.outcome = None
    BY <1>1 DEF Event, TransportEvent, QueuedTransaction
  <2> HIDE DEF event
  <2>3. /\ g \in Executor
        /\ g.events = Append(e.events, event)
        /\ SameQueues(g, e)
        /\ SameState(g, e)
        /\ SameIdentity(g, e)
    BY <1>1, <2>2, EmitFields
  <2>4. ~IsTerminal(event) /\ event.outcome # "Completed"
    BY <2>2, NoneAssumption DEF IsTerminal, TransactionOutcome
  <2>5. \A id : Held(g, id) = Held(e, id)
    <3> TAKE id
    <3>1. event \notin EndsOf(id)
      BY <2>4 DEF EndsOf
    <3>2. Held(g, id) = Held(e, id) + 0
      BY <1>1, <2>2, <3>1, EmitHeld
    <3>3. Held(e, id) \in Nat
      BY <1>1, HeldCounts, HoldsType
    <3> QED
      BY <3>2, <3>3
  <2> HIDE DEF g
  <2>6. Quiet(g.events, k, w, r)
    BY <1>1, <1>2, <2>2, <2>3, <2>4, QuietAppend DEF EventIsHonest
  <2>7. Len(g.events) <= 1
    BY <1>1, <2>2, <2>3
  <2> QED
    BY <2>3, <2>5, <2>6, <2>7 DEF g, event
<1>4. CASE Reported(e) = e
  BY <1>1, <1>2, <1>4 DEF SameQueues, SameState, SameIdentity
<1> QED
  BY <1>3, <1>4 DEF Reported

\* It is recovered: the queue is fenced.
LEMMA EnterRecoveryPolled ==
    ASSUME NEW e, NEW k, NEW w, NEW r, NEW d \in BOOLEAN, NEW at \in Nat,
           Ending(e, k, w, r), e.state = "Active"
    PROVE  LET f == EnterRecovery(e, at)
           IN  /\ Polled(f, e, k, w, r, d)
               /\ f.generation = e.generation
               /\ ~Completes(f)
<1> DEFINE told == Reported(e)
           g == FenceOrdinaryQueue(told)
           f == [g EXCEPT !.state = "Recovering", !.deadline = at + RecoveryTimeout]
<1>1. EnterRecovery(e, at) = f
  BY DEF EnterRecovery, Reported
<1>2. /\ told \in Executor
      /\ SameQueues(told, e)
      /\ SameState(told, e)
      /\ SameIdentity(told, e)
      /\ Len(told.events) <= 1
      /\ Quiet(told.events, k, w, r)
      /\ \A id : Held(told, id) = Held(e, id)
  BY ReportedFacts
<1> HIDE DEF told
<1>3. /\ g \in Executor
      /\ g.queue = <<>>
      /\ g.safe_queue = told.safe_queue
      /\ g.events = told.events \o Fences(told.queue)
      /\ SameState(g, told)
      /\ SameIdentity(g, told)
  BY <1>2, FenceFields
<1>4. \A id : Held(g, id) = Held(told, id)
  BY <1>2, FenceHeld
<1> HIDE DEF g
<1>5. at + RecoveryTimeout \in Nat
  BY ExecutorAssumption
<1>6. /\ f \in Executor
      /\ f.state = "Recovering"
      /\ f.tx = g.tx
      /\ f.write_offset = g.write_offset
      /\ f.response = g.response
      /\ f.queue = g.queue
      /\ f.safe_queue = g.safe_queue
      /\ f.events = g.events
      /\ f.generation = g.generation
      /\ f.next_transaction = g.next_transaction
      /\ f.closed = g.closed
  BY <1>3, <1>5 DEF Executor, Unavailable
<1> HIDE DEF f
<1>7. \A id : Held(f, id) = Held(e, id)
  BY <1>2, <1>4, <1>6 DEF Held
<1>8. /\ f.queue = <<>>
      /\ f.safe_queue = e.safe_queue
      /\ f.tx = e.tx
      /\ f.write_offset = e.write_offset
      /\ f.generation = e.generation
      /\ f.next_transaction = e.next_transaction
      /\ f.closed = e.closed
      /\ f.events = told.events \o Fences(e.queue)
  BY <1>2, <1>3, <1>6 DEF SameQueues, SameState, SameIdentity
<1>9. /\ told.events \in Seq(TransportEvent)
      /\ e.queue \in Seq(QueuedTransaction)
      /\ Fences(e.queue) \in Seq(TransportEvent)
      /\ Len(Fences(e.queue)) = Len(e.queue)
  BY <1>2, EndingFacts, FencesType DEF Executor
<1>10. Structure(f, 1)
  <2>1. Len(f.events) <= MaxQueued + 1
    <3>1. Len(told.events \o Fences(e.queue))
            = Len(told.events) + Len(Fences(e.queue))
      BY <1>9, ConcatProperties
    <3>2. Len(e.queue) \in Nat /\ Len(e.queue) <= MaxQueued
      BY EndingFacts
    <3>3. Len(told.events) \in Nat /\ Len(told.events) <= 1
      BY <1>2, <1>9, LenProperties
    <3>4. Len(told.events) + Len(e.queue) <= MaxQueued + 1
      <4>1. MaxQueued \in Nat
        BY ExecutorAssumption
      <4>2. \A m, n, q \in Nat : m <= 1 /\ n <= q => m + n <= q + 1
        OBVIOUS
      <4> QED
        BY <3>2, <3>3, <4>1, <4>2
    <3>5. Len(f.events) = Len(told.events) + Len(e.queue)
      BY <1>8, <1>9, <3>1
    <3> QED
      BY <3>4, <3>5
  <2>2. Len(f.queue) <= MaxQueued
    BY <1>8, ExecutorAssumption
  <2>3. f.closed = FALSE /\ f.tx # None
    BY <1>8, EndingFacts DEF Ending
  <2> QED
    BY <1>6, <1>8, <2>1, <2>2, <2>3 DEF Structure
<1>11. Quiet(f.events, k, w, r)
  <2>1. Quiet(Fences(e.queue), k, w, r)
    BY <1>9, EndingFacts, QuietFences DEF Ending, Enqueued
  <2> QED
    BY <1>2, <1>8, <1>9, <2>1, QuietConcat
<1>12. Fresh(f, 1) /\ EventsAreHonest(f, k, w, r)
  BY <1>11 DEF Fresh, EventsAreHonest, Quiet
<1>13. Histories(f, k, w, r)
  BY <1>8 DEF Ending, Histories
<1>14. Owned(f, k, w, r)
  <2>1. Enqueued(f, k, w)
    BY <1>8 DEF Ending, Enqueued
  <2>2. Executing(f, k, w, r)
    BY <1>8 DEF Ending, Executing
  <2> QED
    BY <1>6, <2>1, <2>2 DEF Owned
<1>15. Guarded(f, d)
  BY <1>6 DEF Guarded, Unavailable
<1>16. Polled(f, e, k, w, r, d)
  BY <1>6, <1>7, <1>8, <1>10, <1>12, <1>13, <1>14, <1>15 DEF Polled, Sound
<1>17. ~Completes(f)
  <2>1. ASSUME f.events # <<>>
        PROVE  1 \in DOMAIN f.events /\ Head(f.events) = f.events[1]
    BY <1>6, <2>1 DEF Executor
  <2> QED
    BY <1>11, <2>1 DEF Completes, Quiet
<1> QED
  BY <1>1, <1>8, <1>16, <1>17

LEMMA QuietHead ==
    ASSUME NEW f \in Executor, NEW k, NEW w, NEW r, Quiet(f.events, k, w, r)
    PROVE  /\ ~Completes(f)
           /\ Fresh(f, 1) /\ Fresh(f, 0)
           /\ EventsAreHonest(f, k, w, r)
<1>1. ASSUME f.events # <<>>
      PROVE  1 \in DOMAIN f.events /\ Head(f.events) = f.events[1]
  BY <1>1 DEF Executor
<1> QED
  BY <1>1 DEF Completes, Quiet, Fresh, EventsAreHonest

\* It fails with bytes left on the line: the queue is fenced, too.
LEMMA EnterProtocolRecoveryPolled ==
    ASSUME NEW e, NEW k, NEW w, NEW r, NEW d \in BOOLEAN, NEW at \in Nat,
           Ending(e, k, w, r)
    PROVE  LET f == EnterProtocolRecovery(e, at)
           IN  /\ Polled(f, e, k, w, r, d)
               /\ f.generation = e.generation
               /\ ~Completes(f)
<1> DEFINE started == e.write_offset > 0
           event == Event(TerminalType(e.tx), e.tx, "Failed", started)
           g == Finish(e, e.tx, "Failed", started)
           h == FenceOrdinaryQueue(g)
           v == Vacate(h, "ProtocolRecovery")
           f == [v EXCEPT !.deadline = at + RecoveryTimeout]
<1>1. EnterProtocolRecovery(e, at) = f
  BY DEF EnterProtocolRecovery
<1>2. /\ e.tx \in QueuedTransaction
      /\ e \in Executor
      /\ "Failed" \in TransactionOutcome
      /\ started \in BOOLEAN
      /\ TerminalType(e.tx) \in TransactionEvents
  BY EndingFacts DEF Ending, TransactionOutcome, TerminalType, TransactionEvents
<1>3. EventIsHonest(event, k, w, r)
  <2>1. "Failed" \in {"Completed", "Failed"}
    OBVIOUS
  <2> QED
    BY <1>2, <2>1, EndingFacts, ExecutingEnd DEF Ending
<1> HIDE DEF started
<1>4. event \in TransportEvent /\ event.outcome = "Failed"
  <2>1. "Failed" \in TransactionOutcome \cup {None}
    BY <1>2
  <2> QED
    BY <1>2, <2>1, EventType
<1>5. /\ g \in Executor
      /\ g.events = Append(e.events, event)
      /\ SameQueues(g, e)
      /\ SameState(g, e)
      /\ SameIdentity(g, e)
  BY <1>2, FinishFields
<1>6. \A id : Held(g, id) = Held(e, id) + Holds(e.tx, id)
  BY <1>2, FinishHeld
<1> HIDE DEF event, g
<1>7. /\ h \in Executor
      /\ h.queue = <<>>
      /\ h.safe_queue = g.safe_queue
      /\ h.events = g.events \o Fences(g.queue)
      /\ SameState(h, g)
      /\ SameIdentity(h, g)
  BY <1>5, FenceFields
<1>8. \A id : Held(h, id) = Held(g, id)
  BY <1>5, FenceHeld
<1> HIDE DEF h
<1>9. /\ v \in Executor
      /\ v.state = "ProtocolRecovery"
      /\ v.tx = None
      /\ v.write_offset = 0
      /\ v.response = 0
      /\ v.events = h.events
      /\ SameQueues(v, h)
      /\ SameIdentity(v, h)
  BY <1>7, VacateFields
<1>10. \A id : Held(v, id) = Held(h, id) - Holds(h.tx, id)
  BY <1>7, VacateHeld
<1> HIDE DEF v
<1>11. /\ f \in Executor
       /\ f.state = v.state
       /\ f.tx = v.tx
       /\ f.write_offset = v.write_offset
       /\ f.response = v.response
       /\ f.events = v.events
       /\ f.queue = v.queue
       /\ f.safe_queue = v.safe_queue
       /\ f.generation = v.generation
       /\ f.next_transaction = v.next_transaction
       /\ f.closed = v.closed
  <2>1. at + RecoveryTimeout \in Nat
    BY ExecutorAssumption
  <2> QED
    BY <1>9, <2>1 DEF Executor
<1> HIDE DEF f
<1>12. /\ f.state = "ProtocolRecovery"
       /\ f.tx = None
       /\ f.write_offset = 0 /\ f.response = 0
       /\ f.queue = <<>>
       /\ f.safe_queue = e.safe_queue
       /\ f.generation = e.generation
       /\ f.next_transaction = e.next_transaction
       /\ f.closed = FALSE
       /\ f.events = <<event>> \o Fences(e.queue)
  <2>1. g.events = <<event>>
    BY <1>4, <1>5 DEF Ending
  <2> QED
    BY <1>5, <1>7, <1>9, <1>11, <2>1, EndingFacts DEF SameQueues, SameState, SameIdentity
<1>13. \A id : Held(f, id) = Held(e, id)
  <2> TAKE id
  <2>1. Holds(h.tx, id) = Holds(e.tx, id) /\ Holds(e.tx, id) \in {0, 1}
    BY <1>5, <1>7, HoldsType DEF SameState
  <2>2. Held(e, id) \in Nat
    BY <1>2, HeldCounts, HoldsType
  <2>3. Held(f, id) = Held(v, id)
    BY <1>11 DEF Held
  <2> QED
    BY <1>6, <1>8, <1>10, <2>1, <2>2, <2>3
<1>14. /\ <<event>> \in Seq(TransportEvent) /\ Len(<<event>>) = 1
       /\ e.queue \in Seq(QueuedTransaction)
       /\ Fences(e.queue) \in Seq(TransportEvent)
       /\ Len(Fences(e.queue)) = Len(e.queue)
  <2>1. e.queue \in Seq(QueuedTransaction)
    BY EndingFacts
  <2>2. <<event>> \in Seq(TransportEvent) /\ Len(<<event>>) = 1
    BY <1>4
  <2> QED
    BY <2>1, <2>2, FencesType
<1>15. Len(f.events) <= MaxQueued + 1
  <2>1. Len(<<event>> \o Fences(e.queue)) = 1 + Len(e.queue)
    BY <1>14, ConcatProperties
  <2>2. Len(e.queue) \in Nat /\ Len(e.queue) <= MaxQueued /\ MaxQueued \in Nat
    BY EndingFacts, ExecutorAssumption
  <2> QED
    BY <1>12, <2>1, <2>2
<1>16. Structure(f, 1)
  <2>1. Len(f.queue) <= MaxQueued
    BY <1>12, ExecutorAssumption
  <2> QED
    BY <1>12, <1>15, <2>1 DEF Structure
<1>17. Quiet(f.events, k, w, r)
  <2>1. Quiet(Fences(e.queue), k, w, r)
    BY <1>14, EndingFacts, QuietFences DEF Ending, Enqueued
  <2>2. Quiet(<<event>>, k, w, r)
    BY <1>3, <1>4 DEF Quiet
  <2> QED
    BY <1>12, <1>14, <2>1, <2>2, QuietConcat
<1>18. /\ ~Completes(f) /\ Fresh(f, 1) /\ EventsAreHonest(f, k, w, r)
  BY <1>11, <1>17, QuietHead
<1>19. Histories(f, k, w, r)
  BY <1>12 DEF Ending, Histories
<1>20. Owned(f, k, w, r)
  BY <1>12 DEF Ending, Owned, Enqueued
<1>21. Guarded(f, d)
  BY <1>12 DEF Guarded, Unavailable
<1>22. Polled(f, e, k, w, r, d)
  BY <1>11, <1>12, <1>13, <1>16, <1>18, <1>19, <1>20, <1>21 DEF Polled, Sound
<1> QED
  BY <1>1, <1>12, <1>18, <1>22

\* A recovered boundary has a generation of its own.
LEMMA RecoveredEnding ==
    ASSUME NEW e, NEW k, NEW w, NEW r, Ending(e, k, w, r)
    PROVE  LET f == [e EXCEPT !.generation = @ + 1]
           IN  /\ Ending(f, k, w, r)
               /\ f.generation = e.generation + 1
               /\ f.next_transaction = e.next_transaction
               /\ f.state = e.state /\ f.tx = e.tx /\ f.write_offset = e.write_offset
               /\ f.queue = e.queue
               /\ \A id : Held(f, id) = Held(e, id)
<1> DEFINE f == [e EXCEPT !.generation = @ + 1]
<1>1. e \in Executor /\ e.generation + 1 \in Nat
  BY DEF Ending, Executor
<1>2. /\ f \in Executor
      /\ f.generation = e.generation + 1
      /\ f.queue = e.queue /\ f.safe_queue = e.safe_queue
      /\ f.state = e.state /\ f.tx = e.tx
      /\ f.write_offset = e.write_offset /\ f.response = e.response
      /\ f.events = e.events
      /\ f.next_transaction = e.next_transaction
      /\ f.closed = e.closed
  BY <1>1 DEF Executor
<1> HIDE DEF f
<1>3. Structure(f, 0)
  BY <1>2 DEF Ending, Structure
<1>4. Histories(f, k, w, r)
  BY <1>2 DEF Ending, Histories
<1>5. Enqueued(f, k, w) /\ Executing(f, k, w, r)
  BY <1>2 DEF Ending, Enqueued, Executing
<1>6. Ending(f, k, w, r)
  BY <1>2, <1>3, <1>4, <1>5 DEF Ending
<1>7. \A id : Held(f, id) = Held(e, id)
  BY <1>2 DEF Held
<1> QED
  BY <1>2, <1>6, <1>7 DEF f

\* The retry of a recovered read puts it back at the head of the empty queue.
LEMMA RetryPolled ==
    ASSUME NEW e, NEW k, NEW w, NEW r, NEW at \in Nat,
           Ending(e, k, w, r), e.state = "Recovering", RetryOk(e.tx, at)
    PROVE  LET f == Vacate([e EXCEPT !.queue = <<[e.tx EXCEPT !.retries = 1]>> \o @], "Idle")
           IN  /\ Polled(f, e, k, w, r, FALSE)
               /\ f.generation = e.generation
               /\ ~Completes(f)
<1> DEFINE again == [e.tx EXCEPT !.retries = 1]
           g == [e EXCEPT !.queue = <<again>> \o @]
           f == Vacate(g, "Idle")
<1>1. /\ e.tx \in QueuedTransaction
      /\ e \in Executor
      /\ e.queue = <<>> /\ e.events = <<>>
  BY EndingFacts DEF Ending, Structure, Unavailable
<1>2. /\ again \in QueuedTransaction
      /\ again.id = e.tx.id
      /\ again.intent = e.tx.intent
      /\ again.dispatch = e.tx.dispatch
      /\ again.retryable = e.tx.retryable
      /\ again.retries = 1
  BY <1>1 DEF QueuedTransaction
<1>3. Waiting(again, k, w)
  <2>1. /\ e.tx.retryable /\ e.tx.retries = 0
        /\ Admitted(e.tx, k)
        /\ w[e.tx.id] <= e.tx.retries + 1
    BY DEF RetryOk, Ending, Executing
  <2>2. IsRead(e.tx)
    BY <2>1 DEF Admitted
  <2>3. e.tx.dispatch = None
    BY <2>2 DEF Ending, Executing
  <2> QED
    BY <1>2, <2>1, <2>2, <2>3 DEF Waiting, Admitted, IsRead
<1> HIDE DEF again
<1>4. <<again>> \o e.queue = <<again>> /\ <<again>> \in Seq(QueuedTransaction)
  BY <1>1, <1>2
<1>5. /\ g \in Executor
      /\ g.queue = <<again>>
      /\ g.safe_queue = e.safe_queue
      /\ g.tx = e.tx
      /\ g.events = e.events
      /\ g.generation = e.generation
      /\ g.next_transaction = e.next_transaction
      /\ g.closed = e.closed
  BY <1>1, <1>4 DEF Executor
<1> HIDE DEF g
<1>6. /\ f \in Executor
      /\ f.state = "Idle"
      /\ f.tx = None
      /\ f.write_offset = 0
      /\ f.response = 0
      /\ f.events = g.events
      /\ SameQueues(f, g)
      /\ SameIdentity(f, g)
  BY <1>5, VacateFields
<1> HIDE DEF f
<1>7. /\ f.queue = <<again>>
      /\ f.safe_queue = e.safe_queue
      /\ f.events = <<>>
      /\ f.generation = e.generation
      /\ f.next_transaction = e.next_transaction
      /\ f.closed = FALSE
  BY <1>1, <1>5, <1>6, EndingFacts DEF SameQueues, SameIdentity
<1>8. \A id : Held(f, id) = Held(e, id)
  <2> TAKE id
  <2>1. Count(<<again>>, OfId(id)) = (IF again \in OfId(id) THEN 1 ELSE 0)
    BY CountOne
  <2>2. Count(e.queue, OfId(id)) = 0
    BY <1>1, CountEmpty
  <2>3. (again \in OfId(id)) <=> (e.tx \in OfId(id))
    BY <1>1, <1>2 DEF OfId
  <2>4. Holds(e.tx, id) = (IF e.tx \in OfId(id) THEN 1 ELSE 0) /\ Holds(f.tx, id) = 0
    BY <1>1, <1>6, HoldsType
  <2>5. /\ Held(f, id) = Count(f.queue, OfId(id)) + Holds(f.safe_queue, id)
                         + Holds(f.tx, id) + Count(f.events, EndsOf(id))
        /\ Held(e, id) = Count(e.queue, OfId(id)) + Holds(e.safe_queue, id)
                         + Holds(e.tx, id) + Count(e.events, EndsOf(id))
        /\ Count(e.events, EndsOf(id)) \in Nat
    BY <1>1, <1>6, HeldCounts
  <2>6. Holds(e.safe_queue, id) \in {0, 1}
    BY HoldsType
  <2> QED
    BY <1>1, <1>7, <2>1, <2>2, <2>3, <2>4, <2>5, <2>6
<1>9. Structure(f, 1)
  BY <1>6, <1>7, ExecutorAssumption DEF Structure, Unavailable
<1>10. Fresh(f, 1) /\ EventsAreHonest(f, k, w, r) /\ ~Completes(f)
  BY <1>7 DEF Fresh, EventsAreHonest, Completes
<1>11. Histories(f, k, w, r)
  BY <1>7 DEF Ending, Histories
<1>12. Owned(f, k, w, r)
  <2>1. Enqueued(f, k, w)
    <3>1. \A i \in DOMAIN f.queue : f.queue[i] = again
      BY <1>7
    <3> QED
      BY <1>3, <1>7, <3>1 DEF Ending, Enqueued
  <2> QED
    BY <1>6, <2>1 DEF Owned
<1>13. Guarded(f, FALSE)
  BY DEF Guarded
<1>14. Polled(f, e, k, w, r, FALSE)
  BY <1>6, <1>7, <1>8, <1>9, <1>10, <1>11, <1>12, <1>13 DEF Polled, Sound
<1> QED
  BY <1>7, <1>10, <1>14 DEF f, g, again

\* One poll of a recovery.  A recovered line is clean.
LEMMA ProgressRecoveryPolled ==
    ASSUME NEW e, NEW k, NEW w, NEW r, NEW d \in BOOLEAN, NEW at \in Nat, NEW io,
           Ending(e, k, w, r), Sound(e, 0, k, w, r, d), e.state = "Recovering"
    PROVE  LET f == ProgressRecovery(e, at, io)
           IN  /\ f.generation = e.generation => Polled(f, e, k, w, r, d)
               /\ f.generation # e.generation => Polled(f, e, k, w, r, FALSE)
               /\ ~Completes(f)
<1> DEFINE f == ProgressRecovery(e, at, io)
           g == [e EXCEPT !.generation = @ + 1]
           offline == Vacate(Finish(e, e.tx, "Failed", e.write_offset > 0), "Offline")
           retried == Vacate([g EXCEPT !.queue = <<[e.tx EXCEPT !.retries = 1]>> \o @], "Idle")
           failed == Vacate(Finish(g, e.tx, "Failed", e.write_offset > 0), "Idle")
<1>1. \/ f = offline
      \/ f = e
      \/ RetryOk(e.tx, at) /\ f = retried
      \/ f = failed
  BY DEF ProgressRecovery
<1>2. /\ Ending(g, k, w, r)
      /\ g.generation = e.generation + 1
      /\ g.next_transaction = e.next_transaction
      /\ g.state = e.state /\ g.tx = e.tx /\ g.write_offset = e.write_offset
      /\ \A id : Held(g, id) = Held(e, id)
  BY RecoveredEnding
<1>3. e.generation \in Nat /\ e.generation + 1 # e.generation
  BY DEF Ending, Executor
<1>4. CASE f = offline
  <2>1. /\ Polled(offline, e, k, w, r, d)
        /\ offline.generation = e.generation
        /\ ~Completes(offline)
    BY FinishPolled
  <2> QED
    BY <1>4, <2>1
<1>5. CASE f = e
  <2>1. Structure(e, 1) /\ Fresh(e, 1)
    BY ExecutorAssumption DEF Ending, Structure, Fresh
  <2>2. Polled(e, e, k, w, r, d)
    BY <2>1 DEF Polled, Sound
  <2>3. ~Completes(e)
    BY DEF Ending, Completes
  <2> QED
    BY <1>5, <2>2, <2>3
<1>6. CASE RetryOk(e.tx, at) /\ f = retried
  <2>1. /\ Polled(retried, g, k, w, r, FALSE)
        /\ retried.generation = g.generation
        /\ ~Completes(retried)
    BY <1>2, <1>6, RetryPolled
  <2> HIDE DEF retried, g
  <2>2. Polled(retried, e, k, w, r, FALSE)
    BY <1>2, <2>1 DEF Polled
  <2> QED
    BY <1>2, <1>3, <1>6, <2>1, <2>2 DEF f
<1>7. CASE f = failed
  <2>1. /\ Polled(failed, g, k, w, r, FALSE)
        /\ failed.generation = g.generation
        /\ ~Completes(failed)
    BY <1>2, FinishPolled
  <2> HIDE DEF failed, g
  <2>2. Polled(failed, e, k, w, r, FALSE)
    BY <1>2, <2>1 DEF Polled
  <2> QED
    BY <1>2, <1>3, <1>7, <2>1, <2>2
<1> QED
  BY <1>1, <1>4, <1>5, <1>6, <1>7

\* The boundary of a completed response whose bytes were rejected: it is reported
\* recovered or failed.
LEMMA BoundaryPolled ==
    ASSUME NEW e, NEW k, NEW w, NEW r, NEW d \in BOOLEAN, Sound(e, 0, k, w, r, d),
           e.events = <<>>, e.state = "ProtocolRecovery",
           NEW type \in {"BoundaryRecovered", "BoundaryFailed"},
           NEW state \in {"Idle", "Offline"}, NEW dd \in BOOLEAN, dd => state = "Offline"
    PROVE  LET f == Vacate(Emit(e, Boundary(type)), state)
           IN  /\ Polled(f, e, k, w, r, dd)
               /\ f.generation = e.generation
               /\ ~Completes(f)
<1> DEFINE event == Boundary(type)
           g == Emit(e, event)
           f == Vacate(g, state)
<1>1. /\ e \in Executor /\ e.tx = None /\ e.queue = <<>> /\ e.closed = FALSE
      /\ <<>> \in Seq(TransportEvent)
  BY DEF Sound, Structure, Unavailable, Executor
<1>2. /\ event \in TransportEvent
      /\ ~IsTerminal(event)
      /\ event.outcome # "Completed"
  BY NoneAssumption DEF Boundary, TransportEvent, IsTerminal, TransactionOutcome
<1> HIDE DEF event
<1>3. /\ g \in Executor
      /\ g.events = Append(e.events, event)
      /\ SameQueues(g, e)
      /\ SameState(g, e)
      /\ SameIdentity(g, e)
  BY <1>1, <1>2, EmitFields
<1>4. \A id : Held(g, id) = Held(e, id)
  <2> TAKE id
  <2>1. event \notin EndsOf(id)
    BY <1>2 DEF EndsOf
  <2>2. Held(g, id) = Held(e, id) + 0
    BY <1>1, <1>2, <2>1, EmitHeld
  <2>3. Held(e, id) \in Nat
    BY <1>1, HeldCounts, HoldsType
  <2> QED
    BY <2>2, <2>3
<1> HIDE DEF g
<1>5. /\ f \in Executor
      /\ f.state = state
      /\ f.tx = None
      /\ f.write_offset = 0
      /\ f.response = 0
      /\ f.events = g.events
      /\ SameQueues(f, g)
      /\ SameIdentity(f, g)
  BY <1>3, VacateFields
<1>6. \A id : Held(f, id) = Held(e, id)
  <2> TAKE id
  <2>1. Held(f, id) = Held(g, id) - Holds(g.tx, id)
    BY <1>3, VacateHeld
  <2>2. Holds(g.tx, id) = 0
    BY <1>1, <1>3, HoldsType DEF SameState
  <2>3. Held(e, id) \in Nat
    BY <1>1, HeldCounts, HoldsType
  <2> QED
    BY <1>4, <2>1, <2>2, <2>3
<1> HIDE DEF f
<1>7. /\ f.queue = <<>>
      /\ f.safe_queue = e.safe_queue
      /\ f.generation = e.generation
      /\ f.next_transaction = e.next_transaction
      /\ f.closed = FALSE
      /\ f.events = <<event>>
  BY <1>1, <1>2, <1>3, <1>5 DEF SameQueues, SameIdentity
<1>8. Structure(f, 1)
  BY <1>5, <1>7, ExecutorAssumption DEF Structure, Unavailable
<1>9. Quiet(f.events, k, w, r)
  BY <1>2, <1>7 DEF Quiet, EventIsHonest
<1>10. /\ ~Completes(f) /\ Fresh(f, 1) /\ EventsAreHonest(f, k, w, r)
  BY <1>5, <1>9, QuietHead
<1>11. Histories(f, k, w, r)
  BY <1>7 DEF Sound, Histories
<1>12. Owned(f, k, w, r)
  BY <1>5, <1>7 DEF Sound, Owned, Enqueued
<1>13. Guarded(f, dd)
  BY <1>5 DEF Guarded, Unavailable
<1>14. Polled(f, e, k, w, r, dd)
  BY <1>5, <1>6, <1>7, <1>8, <1>10, <1>11, <1>12, <1>13 DEF Polled, Sound
<1> QED
  BY <1>7, <1>10, <1>14 DEF f, g, event

\* An executor that does not change is polled.
LEMMA UnchangedPolled ==
    ASSUME NEW e, NEW k, NEW w, NEW r, NEW d \in BOOLEAN, Sound(e, 0, k, w, r, d)
    PROVE  Polled(e, e, k, w, r, d) /\ ~Completes(e)
<1>1. e \in Executor /\ Len(e.events) \in Nat /\ Len(e.queue) \in Nat
  BY LenProperties DEF Sound, Executor
<1>2. Structure(e, 1)
  BY <1>1, ExecutorAssumption DEF Sound, Structure
<1>3. Fresh(e, 1) /\ ~Completes(e)
  <2>1. ASSUME e.events # <<>>
        PROVE  1 \in DOMAIN e.events /\ Head(e.events) = e.events[1]
    BY <1>1, <2>1 DEF Executor
  <2> QED
    BY <2>1 DEF Sound, Fresh, Completes
<1> QED
  BY <1>2, <1>3 DEF Polled, Sound

LEMMA ProgressProtocolRecoveryPolled ==
    ASSUME NEW e, NEW k, NEW w, NEW r, NEW d \in BOOLEAN, NEW at \in Nat, NEW io,
           Sound(e, 0, k, w, r, d), e.events = <<>>, e.state = "ProtocolRecovery"
    PROVE  LET f == ProgressProtocolRecovery(e, at, io)
           IN  /\ f.generation = e.generation => Polled(f, e, k, w, r, d)
               /\ f.generation # e.generation => Polled(f, e, k, w, r, FALSE)
               /\ ~Completes(f)
<1> DEFINE f == ProgressProtocolRecovery(e, at, io)
           g == [e EXCEPT !.generation = @ + 1]
           offline == Vacate(Emit(e, Boundary("BoundaryFailed")), "Offline")
           recovered == Vacate(Emit(g, Boundary("BoundaryRecovered")), "Idle")
<1>1. f = offline \/ f = e \/ f = recovered
  BY DEF ProgressProtocolRecovery
<1>2. /\ g \in Executor
      /\ g.generation = e.generation + 1
      /\ g.queue = e.queue /\ g.safe_queue = e.safe_queue
      /\ g.state = e.state /\ g.tx = e.tx
      /\ g.write_offset = e.write_offset /\ g.response = e.response
      /\ g.events = e.events
      /\ g.next_transaction = e.next_transaction
      /\ g.closed = e.closed
      /\ e.generation \in Nat
  <2>1. e \in Executor /\ e.generation \in Nat /\ e.generation + 1 \in Nat
    BY DEF Sound, Executor
  <2> QED
    BY <2>1 DEF Executor
<1> HIDE DEF g
<1>3. CASE f = offline
  <2>1. /\ Polled(offline, e, k, w, r, d)
        /\ offline.generation = e.generation
        /\ ~Completes(offline)
    BY BoundaryPolled
  <2> QED
    BY <1>3, <2>1
<1>4. CASE f = e
  BY <1>4, UnchangedPolled
<1>5. CASE f = recovered
  <2>1. Sound(g, 0, k, w, r, d)
    <3>1. Structure(g, 0)
      BY <1>2 DEF Sound, Structure
    <3>2. Fresh(g, 0) /\ EventsAreHonest(g, k, w, r)
      BY <1>2 DEF Sound, Fresh, EventsAreHonest
    <3>3. Histories(g, k, w, r)
      BY <1>2 DEF Sound, Histories
    <3>4. Owned(g, k, w, r)
      BY <1>2 DEF Sound, Owned, Enqueued, Executing
    <3>5. Guarded(g, d)
      BY <1>2 DEF Sound, Guarded
    <3> QED
      BY <1>2, <3>1, <3>2, <3>3, <3>4, <3>5 DEF Sound
  <2>2. /\ Polled(recovered, g, k, w, r, FALSE)
        /\ recovered.generation = g.generation
        /\ ~Completes(recovered)
    BY <1>2, <2>1, BoundaryPolled
  <2> HIDE DEF recovered
  <2>3. \A id : Held(g, id) = Held(e, id)
    BY <1>2 DEF Held
  <2>4. Polled(recovered, e, k, w, r, FALSE)
    BY <1>2, <2>2, <2>3 DEF Polled
  <2>5. recovered.generation # e.generation
    BY <1>2, <2>2
  <2> QED
    BY <1>5, <2>2, <2>4, <2>5
<1> QED
  BY <1>1, <1>3, <1>4, <1>5

-----------------------------------------------------------------------------
(* The first byte of a request.                                            *)

\* A transaction in one place is in no other.
LEMMA Alone ==
    ASSUME NEW e \in Executor, e.tx \in QueuedTransaction, Held(e, e.tx.id) <= 1
    PROVE  /\ \A i \in DOMAIN e.queue : e.queue[i].id # e.tx.id
           /\ e.safe_queue # None => e.safe_queue.id # e.tx.id
<1> DEFINE id == e.tx.id
<1>1. /\ Held(e, id) = Count(e.queue, OfId(id)) + Holds(e.safe_queue, id)
                       + Holds(e.tx, id) + Count(e.events, EndsOf(id))
      /\ Count(e.queue, OfId(id)) \in Nat
      /\ Count(e.events, EndsOf(id)) \in Nat
  BY HeldCounts
<1>2. Holds(e.tx, id) = 1
  BY NoneAssumption DEF Holds
<1>3. Holds(e.safe_queue, id) \in {0, 1}
  BY HoldsType
<1>4. Count(e.queue, OfId(id)) = 0 /\ Holds(e.safe_queue, id) = 0
  BY <1>1, <1>2, <1>3
<1>5. e.queue \in Seq(QueuedTransaction)
  BY DEF Executor
<1>6. Hits(e.queue, OfId(id)) = {}
  BY <1>4, <1>5, CountType, FS_EmptySet DEF Count
<1>7. \A i \in DOMAIN e.queue : e.queue[i] \in QueuedTransaction
  BY <1>5, LenProperties, ElementOfSeq
<1> QED
  BY <1>4, <1>6, <1>7 DEF Hits, OfId, Holds

\* When the first byte is on the wire, one more start is counted.
LEMMA StartCounted ==
    ASSUME NEW e, NEW k, NEW w, NEW r, NEW d, Sound(e, 0, k, w, r, d),
           e.state = "Active", e.write_offset = 0, Held(e, e.tx.id) <= 1
    PROVE  LET v == [w EXCEPT ![e.tx.id] = @ + 1]
           IN  /\ Histories(e, k, v, r)
               /\ Histories(e, k, v, r \cup {e.tx.id})
               /\ Enqueued(e, k, v)
               /\ v[e.tx.id] <= e.tx.retries + 1
               /\ ~IsRead(e.tx) => v[e.tx.id] = 1
               /\ Admitted(e.tx, k)
               /\ e.tx.dispatch = None
<1> DEFINE id == e.tx.id
           v == [w EXCEPT ![id] = @ + 1]
<1>1. /\ e \in Executor
      /\ e.tx \in QueuedTransaction
      /\ Waiting(e.tx, k, w)
      /\ Enqueued(e, k, w)
      /\ Histories(e, k, w, r)
  BY DEF Sound, Structure, Owned, Executor
<1>2. /\ id \in 1..(e.next_transaction - 1)
      /\ w[id] \in Nat
      /\ w[id] <= e.tx.retries
      /\ e.tx.retries \in {0, 1}
      /\ e.tx.retryable \in BOOLEAN
      /\ DOMAIN k = 1..(e.next_transaction - 1)
      /\ DOMAIN w = 1..(e.next_transaction - 1)
  BY <1>1 DEF Waiting, Admitted, Histories, QueuedTransaction
<1>3. /\ v \in [1..(e.next_transaction - 1) -> Nat]
      /\ v[id] = w[id] + 1
      /\ \A j \in 1..(e.next_transaction - 1) : j # id => v[j] = w[j]
  BY <1>1, <1>2 DEF Histories
<1> HIDE DEF v
<1>4. v[id] <= Tries(k[id])
  BY <1>1, <1>2, <1>3 DEF Waiting, Admitted, Tries
<1>5. \A j \in DOMAIN k : v[j] <= Tries(k[j])
  BY <1>1, <1>2, <1>3, <1>4 DEF Histories
<1>6. Histories(e, k, v, r) /\ Histories(e, k, v, r \cup {id})
  BY <1>1, <1>2, <1>3, <1>5 DEF Histories
<1>7. Enqueued(e, k, v)
  <2>1. ASSUME NEW tx, Waiting(tx, k, w), tx.id # id
        PROVE  Waiting(tx, k, v)
    BY <1>2, <1>3, <2>1 DEF Waiting, Admitted
  <2> QED
    BY <1>1, <2>1, Alone DEF Enqueued
<1>8. ~IsRead(e.tx) => e.tx.retries = 0
  BY <1>1, <1>2 DEF Waiting, Admitted
<1> QED
  BY <1>1, <1>2, <1>3, <1>6, <1>7, <1>8 DEF v, Waiting

\* An owned transaction is Ending when there is no event to deliver.
LEMMA SoundEnding ==
    ASSUME NEW e, NEW k, NEW w, NEW r, NEW d, Sound(e, 0, k, w, r, d),
           e.events = <<>>, e.state \in {"Active", "Recovering"}
    PROVE  Ending(e, k, w, r)
  BY DEF Sound, Structure, Owned, Ending

\* The authority did not record the start.
LEMMA RefusedEnding ==
    ASSUME NEW e, NEW k, NEW w, NEW r, NEW d, Sound(e, 0, k, w, r, d), e.events = <<>>,
           e.state = "Active", e.write_offset = 0, Held(e, e.tx.id) <= 1, ~IsRead(e.tx)
    PROVE  Ending(e, k, [w EXCEPT ![e.tx.id] = @ + 1], r \cup {e.tx.id})
<1> DEFINE v == [w EXCEPT ![e.tx.id] = @ + 1]
           q == r \cup {e.tx.id}
<1>1. /\ Histories(e, k, v, q)
      /\ Enqueued(e, k, v)
      /\ v[e.tx.id] <= e.tx.retries + 1
      /\ Admitted(e.tx, k)
  BY StartCounted
<1>2. e.tx.id \in q
  OBVIOUS
<1> HIDE DEF v, q
<1>3. Executing(e, k, v, q)
  BY <1>1, <1>2 DEF Executing
<1>4. Ending(e, k, v, q)
  BY <1>1, <1>3, SoundEnding DEF Ending
<1> QED
  BY <1>4 DEF v, q

-----------------------------------------------------------------------------
(* The execution of a transaction.                                         *)

\* What the adapter and the authorizer may answer.
Answer ==
    [authorized : BOOLEAN, dispatch : {None, 1}, written : (0..RequestLen) \cup {None},
     read : (0..(ResponseLen + 1)) \cup {None}, recover : {"Pending", None, "Complete"}]

\* The dispatch after a write.
DispatchAfter(e, io) ==
    IF e.write_offset = 0 /\ io.written > 0 /\ ~IsRead(e.tx) THEN io.dispatch
    ELSE e.tx.dispatch

LEMMA WriteFields ==
    ASSUME NEW e \in Executor, e.tx \in QueuedTransaction, NEW io \in Answer,
           io.written \in 0..(RequestLen - e.write_offset)
    PROVE  LET c == Write(e, io)
           IN  /\ c \in Executor
               /\ SameQueues(c, e)
               /\ SameIdentity(c, e)
               /\ c.events = e.events
               /\ c.state = e.state
               /\ c.response = e.response
               /\ c.write_offset = e.write_offset + io.written
               /\ c.tx \in QueuedTransaction
               /\ c.tx.id = e.tx.id
               /\ c.tx.intent = e.tx.intent
               /\ c.tx.retryable = e.tx.retryable
               /\ c.tx.retries = e.tx.retries
               /\ c.tx.dispatch = DispatchAfter(e, io)
               /\ \A id : Held(c, id) = Held(e, id)
<1> DEFINE tx == [e.tx EXCEPT !.dispatch = DispatchAfter(e, io)]
           c == [e EXCEPT !.write_offset = e.write_offset + io.written, !.tx = tx]
<1>1. Write(e, io) = c
  BY DEF Write, DispatchAfter, Executor, QueuedTransaction
<1>2. DispatchAfter(e, io) \in {None, 1}
  BY DEF DispatchAfter, Answer, QueuedTransaction
<1>3. /\ tx \in QueuedTransaction
      /\ tx.id = e.tx.id
      /\ tx.intent = e.tx.intent
      /\ tx.retryable = e.tx.retryable
      /\ tx.retries = e.tx.retries
      /\ tx.dispatch = DispatchAfter(e, io)
  BY <1>2 DEF QueuedTransaction
<1> HIDE DEF tx
<1>4. e.write_offset + io.written \in 0..RequestLen
  BY ExecutorAssumption DEF Executor
<1>5. /\ c \in Executor
      /\ c.queue = e.queue /\ c.safe_queue = e.safe_queue
      /\ c.events = e.events
      /\ c.state = e.state
      /\ c.response = e.response
      /\ c.write_offset = e.write_offset + io.written
      /\ c.tx = tx
      /\ c.generation = e.generation
      /\ c.next_transaction = e.next_transaction
      /\ c.closed = e.closed
  BY <1>3, <1>4 DEF Executor
<1> HIDE DEF c
<1>6. \A id : Holds(tx, id) = Holds(e.tx, id)
  BY <1>3, NoneAssumption DEF Holds
<1>7. \A id : Held(c, id) = Held(e, id)
  BY <1>5, <1>6 DEF Held
<1> QED
  BY <1>1, <1>3, <1>5, <1>7 DEF SameQueues, SameIdentity

\* The write that starts a transaction.
LEMMA WriteFirst ==
    ASSUME NEW e, NEW k, NEW w, NEW r, NEW d, Sound(e, 0, k, w, r, d), e.events = <<>>,
           e.state = "Active", e.write_offset = 0, Held(e, e.tx.id) <= 1,
           NEW io \in Answer, io.written \in 1..RequestLen,
           IsRead(e.tx) \/ io.dispatch # None
    PROVE  LET c == Write(e, io)
           IN  /\ Sound(c, 0, k, [w EXCEPT ![e.tx.id] = @ + 1], r, TRUE)
               /\ c.events = <<>> /\ c.state = "Active"
               /\ c.generation = e.generation /\ c.next_transaction = e.next_transaction
               /\ \A id : Held(c, id) = Held(e, id)
<1> DEFINE c == Write(e, io)
           v == [w EXCEPT ![e.tx.id] = @ + 1]
<1>1. /\ Histories(e, k, v, r)
      /\ Enqueued(e, k, v)
      /\ v[e.tx.id] <= e.tx.retries + 1
      /\ ~IsRead(e.tx) => v[e.tx.id] = 1
      /\ Admitted(e.tx, k)
      /\ e.tx.dispatch = None
  BY StartCounted
<1>2. /\ e \in Executor /\ e.tx \in QueuedTransaction /\ e.tx # None
      /\ Ending(e, k, w, r)
  BY SoundEnding, EndingFacts DEF Ending
<1>3. io.written \in 0..(RequestLen - e.write_offset) /\ io.written > 0
  BY ExecutorAssumption
<1> HIDE DEF v
<1>4. /\ c \in Executor
      /\ SameQueues(c, e)
      /\ SameIdentity(c, e)
      /\ c.events = e.events
      /\ c.state = e.state
      /\ c.response = e.response
      /\ c.write_offset = e.write_offset + io.written
      /\ c.tx \in QueuedTransaction
      /\ c.tx.id = e.tx.id
      /\ c.tx.intent = e.tx.intent
      /\ c.tx.retryable = e.tx.retryable
      /\ c.tx.retries = e.tx.retries
      /\ c.tx.dispatch = DispatchAfter(e, io)
      /\ \A id : Held(c, id) = Held(e, id)
  BY <1>2, <1>3, WriteFields
<1> HIDE DEF c
<1>5. c.tx # None /\ c.write_offset > 0
  BY <1>3, <1>4, NoneAssumption
<1>6. Structure(c, 0)
  BY <1>2, <1>4, <1>5 DEF Ending, Structure, SameQueues, SameIdentity
<1>7. Fresh(c, 0) /\ EventsAreHonest(c, k, v, r)
  BY <1>4 DEF Fresh, EventsAreHonest
<1>8. Histories(c, k, v, r)
  BY <1>1, <1>4 DEF Histories, SameIdentity
<1>9. Owned(c, k, v, r)
  <2>1. Enqueued(c, k, v)
    BY <1>1, <1>4 DEF Enqueued, SameQueues
  <2>2. Executing(c, k, v, r)
    <3>1. Admitted(c.tx, k)
      BY <1>1, <1>4 DEF Admitted, IsRead
    <3>2. IsRead(e.tx) => c.tx.dispatch = None
      BY <1>1, <1>4 DEF DispatchAfter
    <3>3. ~IsRead(e.tx) => c.tx.dispatch # None
      BY <1>3, <1>4 DEF DispatchAfter
    <3> QED
      BY <1>1, <1>4, <1>5, <3>1, <3>2, <3>3 DEF Executing, IsRead
  <2> QED
    BY <1>5, <2>1, <2>2 DEF Owned
<1>10. Guarded(c, TRUE)
  BY <1>4, <1>5 DEF Guarded
<1>11. Sound(c, 0, k, v, r, TRUE)
  BY <1>4, <1>6, <1>7, <1>8, <1>9, <1>10 DEF Sound
<1> QED
  BY <1>4, <1>11 DEF v, c, SameIdentity

\* A write of nothing, or of more of a request that has started.
LEMMA WriteMore ==
    ASSUME NEW e, NEW k, NEW w, NEW r, NEW d, Sound(e, 0, k, w, r, d), e.events = <<>>,
           e.state = "Active", NEW io \in Answer,
           io.written \in 0..(RequestLen - e.write_offset),
           e.write_offset > 0 \/ io.written = 0
    PROVE  LET c == Write(e, io)
           IN  /\ Sound(c, 0, k, w, r, d)
               /\ c.events = <<>> /\ c.state = "Active"
               /\ c.generation = e.generation /\ c.next_transaction = e.next_transaction
               /\ \A id : Held(c, id) = Held(e, id)
<1> DEFINE c == Write(e, io)
<1>1. /\ e \in Executor /\ e.tx \in QueuedTransaction /\ e.tx # None
      /\ Ending(e, k, w, r)
      /\ e.write_offset \in Nat
  BY SoundEnding, EndingFacts, ExecutorAssumption DEF Ending, Executor
<1>2. /\ c \in Executor
      /\ SameQueues(c, e)
      /\ SameIdentity(c, e)
      /\ c.events = e.events
      /\ c.state = e.state
      /\ c.response = e.response
      /\ c.write_offset = e.write_offset + io.written
      /\ c.tx \in QueuedTransaction
      /\ c.tx.id = e.tx.id
      /\ c.tx.intent = e.tx.intent
      /\ c.tx.retryable = e.tx.retryable
      /\ c.tx.retries = e.tx.retries
      /\ c.tx.dispatch = DispatchAfter(e, io)
      /\ \A id : Held(c, id) = Held(e, id)
  BY <1>1, WriteFields
<1>3. c.tx.dispatch = e.tx.dispatch
  BY <1>1, <1>2 DEF DispatchAfter
<1>4. (c.write_offset > 0 <=> e.write_offset > 0) /\ (c.write_offset = 0 <=> e.write_offset = 0)
  BY <1>1, <1>2
<1> HIDE DEF c
<1>5. c.tx # None
  BY <1>2, NoneAssumption
<1>6. Structure(c, 0)
  BY <1>1, <1>2, <1>5 DEF Ending, Structure, SameQueues, SameIdentity
<1>7. Fresh(c, 0) /\ EventsAreHonest(c, k, w, r)
  BY <1>2 DEF Fresh, EventsAreHonest
<1>8. Histories(c, k, w, r)
  BY <1>1, <1>2 DEF Ending, Histories, SameIdentity
<1>9. Owned(c, k, w, r)
  <2>1. Enqueued(c, k, w)
    BY <1>1, <1>2 DEF Ending, Enqueued, SameQueues
  <2>2. Admitted(c.tx, k) /\ (IsRead(c.tx) <=> IsRead(e.tx))
    BY <1>1, <1>2 DEF Ending, Executing, Admitted, IsRead
  <2>3. Executing(c, k, w, r)
    BY <1>1, <1>2, <1>3, <1>4, <2>2 DEF Ending, Executing
  <2>4. c.write_offset = 0 => Waiting(c.tx, k, w)
    BY <1>2, <1>3, <1>4, <2>2 DEF Sound, Owned, Waiting
  <2> QED
    BY <2>1, <2>3, <2>4 DEF Owned
<1>10. Guarded(c, d)
  BY <1>2, <1>4 DEF Sound, Guarded, Unavailable
<1>11. Sound(c, 0, k, w, r, d)
  BY <1>2, <1>6, <1>7, <1>8, <1>9, <1>10 DEF Sound
<1> QED
  BY <1>2, <1>11 DEF c, SameIdentity

\* A poll of the executor.  A completed response leaves a clean line.
Outcome(f, e, k, w, r, d) ==
    /\ Completes(f) => Polled(f, e, k, w, r, FALSE)
    /\ ~Completes(f) => Polled(f, e, k, w, r, d)
    /\ f.generation = e.generation

LEMMA CollectOutcome ==
    ASSUME NEW e, NEW k, NEW w, NEW r, NEW d \in BOOLEAN, NEW at \in Nat, NEW io \in Answer,
           Sound(e, 0, k, w, r, d), e.events = <<>>, e.state = "Active"
    PROVE  Outcome(Collect(e, at, io), e, k, w, r, d)
<1> DEFINE f == Collect(e, at, io)
           more == [e EXCEPT !.response = @ + io.read]
           done == Vacate(Finish(e, e.tx, "Completed", e.write_offset > 0), "Idle")
<1>1. \/ f = e
      \/ f = EnterRecovery(e, at)
      \/ f = EnterProtocolRecovery(e, at)
      \/ f = done
      \/ /\ f = more
         /\ e.write_offset = RequestLen
         /\ io.read # None
         /\ ~(io.read > ResponseLen - e.response)
         /\ e.response + io.read # ResponseLen
  BY DEF Collect
<1>2. Ending(e, k, w, r)
  BY SoundEnding
<1>3. CASE f = e
  <2>1. Polled(e, e, k, w, r, d) /\ ~Completes(e)
    BY UnchangedPolled
  <2> QED
    BY <1>3, <2>1 DEF Outcome
<1>4. CASE f = EnterRecovery(e, at)
  BY <1>2, <1>4, EnterRecoveryPolled DEF Outcome
<1>5. CASE f = EnterProtocolRecovery(e, at)
  BY <1>2, <1>5, EnterProtocolRecoveryPolled DEF Outcome
<1>6. CASE f = done
  <2>1. /\ Polled(done, e, k, w, r, FALSE)
        /\ done.generation = e.generation
        /\ Completes(done)
    BY <1>2, FinishPolled
  <2> QED
    BY <1>6, <2>1 DEF Outcome
<1>7. CASE /\ f = more
           /\ e.write_offset = RequestLen
           /\ io.read # None
           /\ ~(io.read > ResponseLen - e.response)
           /\ e.response + io.read # ResponseLen
  <2>1. /\ e \in Executor
        /\ e.response \in 0..(ResponseLen - 1)
        /\ io.read \in 0..(ResponseLen + 1)
    BY <1>7 DEF Sound, Executor, Answer
  <2>2. e.response + io.read \in 0..(ResponseLen - 1)
    BY <1>7, <2>1, ExecutorAssumption
  <2>3. /\ more \in Executor
        /\ more.queue = e.queue /\ more.safe_queue = e.safe_queue
        /\ more.state = e.state /\ more.tx = e.tx
        /\ more.write_offset = e.write_offset
        /\ more.events = e.events
        /\ more.generation = e.generation
        /\ more.next_transaction = e.next_transaction
        /\ more.closed = e.closed
    BY <2>1, <2>2 DEF Executor
  <2> HIDE DEF more
  <2>4. Structure(more, 0)
    BY <2>3 DEF Sound, Structure
  <2>5. Fresh(more, 0) /\ EventsAreHonest(more, k, w, r)
    BY <2>3 DEF Sound, Fresh, EventsAreHonest
  <2>6. Histories(more, k, w, r)
    BY <2>3 DEF Sound, Histories
  <2>7. Owned(more, k, w, r)
    BY <2>3 DEF Sound, Owned, Enqueued, Executing
  <2>8. Guarded(more, d)
    BY <2>3 DEF Sound, Guarded
  <2>9. Sound(more, 0, k, w, r, d)
    BY <2>3, <2>4, <2>5, <2>6, <2>7, <2>8 DEF Sound
  <2>10. \A id : Held(more, id) = Held(e, id)
    BY <2>3 DEF Held
  <2>11. Polled(more, more, k, w, r, d) /\ ~Completes(more)
    BY <2>9, UnchangedPolled
  <2>12. Polled(more, e, k, w, r, d)
    BY <2>3, <2>10, <2>11 DEF Polled
  <2> QED
    BY <1>7, <2>3, <2>11, <2>12 DEF Outcome
<1> QED
  BY <1>1, <1>3, <1>4, <1>5, <1>6, <1>7

\* What is polled of `c` is polled of `e`, if `c` holds the same.
LEMMA OutcomeFrom ==
    ASSUME NEW f, NEW c, NEW e, NEW k, NEW w, NEW r, NEW d,
           Outcome(f, c, k, w, r, d),
           c.generation = e.generation, c.next_transaction = e.next_transaction,
           \A id : Held(c, id) = Held(e, id)
    PROVE  Outcome(f, e, k, w, r, d)
  BY DEF Outcome, Polled

LEMMA EnterRecoveryOutcome ==
    ASSUME NEW e, NEW k, NEW w, NEW r, NEW d \in BOOLEAN, NEW at \in Nat,
           Ending(e, k, w, r), e.state = "Active"
    PROVE  Outcome(EnterRecovery(e, at), e, k, w, r, d)
<1> DEFINE f == EnterRecovery(e, at)
<1>1. /\ Polled(f, e, k, w, r, d)
      /\ f.generation = e.generation
      /\ ~Completes(f)
  BY EnterRecoveryPolled
<1> HIDE DEF f
<1>2. Outcome(f, e, k, w, r, d)
  BY <1>1 DEF Outcome
<1> QED
  BY <1>2 DEF f

\* The first byte of the transaction of `e` is taken.
Starts(e, at, io) ==
    /\ e.write_offset = 0
    /\ at < e.deadline
    /\ IsRead(e.tx) \/ io.authorized
    /\ io.written # None /\ io.written \in 1..RequestLen

LEMMA ProgressActiveOutcome ==
    ASSUME NEW e, NEW k, NEW w, NEW r, NEW d \in BOOLEAN, NEW at \in Nat, NEW io \in Answer,
           Sound(e, 0, k, w, r, d), e.events = <<>>, e.state = "Active",
           Held(e, e.tx.id) <= 1
    PROVE  LET f == ProgressActive(e, at, io)
               v == [w EXCEPT ![e.tx.id] = @ + 1]
           IN  /\ ~Starts(e, at, io) => Outcome(f, e, k, w, r, d)
               /\ Starts(e, at, io) /\ (IsRead(e.tx) \/ io.dispatch # None) =>
                     Outcome(f, e, k, v, r, TRUE)
               /\ Starts(e, at, io) /\ ~IsRead(e.tx) /\ io.dispatch = None =>
                     Outcome(f, e, k, v, r \cup {e.tx.id}, TRUE)
<1> DEFINE f == ProgressActive(e, at, io)
           v == [w EXCEPT ![e.tx.id] = @ + 1]
           c == Write(e, io)
<1>1. /\ Ending(e, k, w, r)
      /\ e.write_offset \in 0..RequestLen
      /\ e.deadline \in Nat
      /\ RequestLen \in Nat \ {0}
  BY SoundEnding, ExecutorAssumption DEF Ending, Executor
<1>2. io.written = None \/ io.written \in 0..RequestLen
  BY DEF Answer
<1>3. CASE at >= e.deadline
  <2>1. f = EnterRecovery(e, at) /\ ~Starts(e, at, io)
    <3>1. f = EnterRecovery(e, at)
      BY <1>3 DEF ProgressActive
    <3>2. ~(at < e.deadline)
      BY <1>1, <1>3
    <3> QED
      BY <3>1, <3>2 DEF Starts
  <2>2. Outcome(f, e, k, w, r, d)
    BY <1>1, <2>1, EnterRecoveryOutcome
  <2> QED
    BY <2>1, <2>2
<1>4. CASE ~(at >= e.deadline) /\ e.write_offset = RequestLen
  <2>1. f = Collect(e, at, io) /\ ~Starts(e, at, io)
    BY <1>1, <1>4 DEF ProgressActive, Starts
  <2>2. Outcome(f, e, k, w, r, d)
    BY <2>1, CollectOutcome
  <2> QED
    BY <2>1, <2>2
<1>5. CASE ~(at >= e.deadline) /\ e.write_offset # RequestLen /\ Denied(e, io)
  <2>1. /\ f = Vacate(Finish(e, e.tx, "Failed", FALSE), "Idle")
        /\ ~Starts(e, at, io)
        /\ e.write_offset = 0
    BY <1>5 DEF ProgressActive, Starts, Denied
  <2>2. (e.write_offset > 0) = FALSE
    BY <2>1
  <2>3. f = Vacate(Finish(e, e.tx, "Failed", e.write_offset > 0), "Idle")
    BY <2>1, <2>2
  <2>4. d = FALSE
    BY <2>1 DEF Sound, Guarded, Unavailable
  <2>5. Polled(f, e, k, w, r, d) /\ f.generation = e.generation /\ ~Completes(f)
    BY <1>1, <2>3, <2>4, FinishPolled
  <2> QED
    BY <2>1, <2>5 DEF Outcome
<1>6. CASE /\ ~(at >= e.deadline) /\ e.write_offset # RequestLen /\ ~Denied(e, io)
           /\ WriteFails(e, io)
  <2>1. f = EnterRecovery(e, at) /\ ~Starts(e, at, io)
    BY <1>1, <1>6 DEF ProgressActive, Starts, WriteFails
  <2>2. Outcome(f, e, k, w, r, d)
    BY <1>1, <2>1, EnterRecoveryOutcome
  <2> QED
    BY <2>1, <2>2
<1>7. CASE /\ ~(at >= e.deadline) /\ e.write_offset # RequestLen /\ ~Denied(e, io)
           /\ ~WriteFails(e, io) /\ StartRefused(e, io)
  <2>1. /\ f = EnterRecovery(e, at)
        /\ e.write_offset = 0
        /\ ~IsRead(e.tx) /\ io.dispatch = None
    BY <1>7 DEF ProgressActive, StartRefused
  <2>2. Starts(e, at, io)
    BY <1>1, <1>2, <1>7 DEF Starts, StartRefused, Denied, WriteFails
  <2>3. Ending(e, k, v, r \cup {e.tx.id})
    BY <2>1, RefusedEnding
  <2> HIDE DEF v
  <2>4. Outcome(f, e, k, v, r \cup {e.tx.id}, TRUE)
    BY <2>1, <2>3, EnterRecoveryOutcome
  <2> QED
    BY <2>1, <2>2, <2>4 DEF v
<1>8. CASE /\ ~(at >= e.deadline) /\ e.write_offset # RequestLen /\ ~Denied(e, io)
           /\ ~WriteFails(e, io) /\ ~StartRefused(e, io)
  <2>1. /\ f = Collect(c, at, io)
        /\ io.written \in 0..(RequestLen - e.write_offset)
    BY <1>1, <1>2, <1>8 DEF ProgressActive, WriteFails
  <2>2. Starts(e, at, io) <=> e.write_offset = 0 /\ io.written > 0
    BY <1>1, <1>2, <1>8, <2>1, NoneAssumption DEF Starts, Denied, WriteFails
  <2>3. CASE Starts(e, at, io)
    <3>1. IsRead(e.tx) \/ io.dispatch # None
      BY <1>8, <2>2, <2>3 DEF StartRefused
    <3>2. io.written \in 1..RequestLen /\ e.write_offset = 0
      BY <2>3 DEF Starts
    <3>3. /\ Sound(c, 0, k, v, r, TRUE)
          /\ c.events = <<>> /\ c.state = "Active"
          /\ c.generation = e.generation /\ c.next_transaction = e.next_transaction
          /\ \A id : Held(c, id) = Held(e, id)
      BY <3>1, <3>2, WriteFirst
    <3> HIDE DEF c, v
    <3>4. Outcome(f, c, k, v, r, TRUE)
      BY <2>1, <3>3, CollectOutcome
    <3>5. Outcome(f, e, k, v, r, TRUE)
      BY <3>3, <3>4, OutcomeFrom
    <3> QED
      BY <2>3, <3>1, <3>5 DEF v
  <2>4. CASE ~Starts(e, at, io)
    <3>1. e.write_offset > 0 \/ io.written = 0
      BY <1>1, <2>1, <2>2, <2>4
    <3>2. /\ Sound(c, 0, k, w, r, d)
          /\ c.events = <<>> /\ c.state = "Active"
          /\ c.generation = e.generation /\ c.next_transaction = e.next_transaction
          /\ \A id : Held(c, id) = Held(e, id)
      BY <2>1, <3>1, WriteMore
    <3> HIDE DEF c
    <3>3. Outcome(f, c, k, w, r, d)
      BY <2>1, <3>2, CollectOutcome
    <3>4. Outcome(f, e, k, w, r, d)
      BY <3>2, <3>3, OutcomeFrom
    <3> QED
      BY <2>4, <3>4
  <2> QED
    BY <2>3, <2>4
<1> QED
  BY <1>3, <1>4, <1>5, <1>6, <1>7, <1>8

-----------------------------------------------------------------------------
(* The transaction taken from the queue.                                   *)

Pending(e) == e.safe_queue # None \/ e.queue # <<>>

LEMMA RemainingFacts ==
    ASSUME NEW e, NEW k, NEW w, NEW r, NEW d, Sound(e, 0, k, w, r, d),
           e.state = "Idle", Pending(e)
    PROVE  LET f == Remaining(e)
               tx == Taken(e)
           IN  /\ e.events = <<>> /\ e.tx = None /\ d # TRUE /\ e.closed = FALSE
               /\ tx \in QueuedTransaction
               /\ Waiting(tx, k, w)
               /\ f \in Executor
               /\ Len(f.queue) <= MaxQueued
               /\ f.events = <<>>
               /\ SameState(f, e)
               /\ SameIdentity(f, e)
               /\ Enqueued(f, k, w)
               /\ \A id : Held(e, id) = Held(f, id) + Holds(tx, id)
<1> DEFINE f == Remaining(e)
           tx == Taken(e)
<1>1. /\ e \in Executor
      /\ e.queue \in Seq(QueuedTransaction)
      /\ e.events \in Seq(TransportEvent)
      /\ Len(e.events) <= 0
      /\ e.tx = None
      /\ e.closed = FALSE
      /\ Len(e.queue) <= MaxQueued
      /\ Enqueued(e, k, w)
      /\ d # TRUE
  BY DEF Sound, Executor, Structure, Owned, Guarded, Unavailable
<1>2. e.events = <<>>
  BY <1>1, EmptySeq
<1>3. CASE e.safe_queue # None
  <2>1. /\ tx = e.safe_queue
        /\ f = [e EXCEPT !.safe_queue = None]
        /\ tx \in QueuedTransaction
    BY <1>1, <1>3 DEF Taken, Remaining, Executor
  <2>2. Waiting(tx, k, w)
    BY <1>1, <1>3, <2>1 DEF Enqueued
  <2> HIDE DEF tx
  <2>3. /\ f \in Executor
        /\ f.queue = e.queue /\ f.safe_queue = None
        /\ f.events = e.events
        /\ SameState(f, e)
        /\ SameIdentity(f, e)
    BY <1>1, <2>1 DEF Executor, SameState, SameIdentity
  <2> HIDE DEF f
  <2>4. Enqueued(f, k, w)
    BY <1>1, <2>3 DEF Enqueued
  <2>5. \A id : Held(e, id) = Held(f, id) + Holds(tx, id)
    <3> TAKE id
    <3>1. Holds(f.safe_queue, id) = 0 /\ Holds(tx, id) = Holds(e.safe_queue, id)
      BY <2>1, <2>3, HoldsType
    <3>2. /\ Held(f, id) = Count(f.queue, OfId(id)) + Holds(f.safe_queue, id)
                           + Holds(f.tx, id) + Count(f.events, EndsOf(id))
          /\ Held(e, id) = Count(e.queue, OfId(id)) + Holds(e.safe_queue, id)
                           + Holds(e.tx, id) + Count(e.events, EndsOf(id))
          /\ Count(e.queue, OfId(id)) \in Nat
          /\ Count(e.events, EndsOf(id)) \in Nat
      BY <1>1, <2>3, HeldCounts
    <3>3. Holds(e.safe_queue, id) \in {0, 1} /\ Holds(e.tx, id) \in {0, 1}
      BY HoldsType
    <3> QED
      BY <2>3, <3>1, <3>2, <3>3 DEF SameState
  <2> QED
    BY <1>1, <1>2, <2>1, <2>2, <2>3, <2>4, <2>5 DEF f, tx
<1>4. CASE e.safe_queue = None
  <2>1. /\ e.queue # <<>>
        /\ tx = Head(e.queue)
        /\ tx \in QueuedTransaction
    BY <1>1, <1>4, HeadTailProperties DEF Pending, Taken
  <2>2. f = [e EXCEPT !.queue = Tail(@)]
    BY <1>4, <2>1, NoneAssumption DEF Remaining
  <2>3. /\ Tail(e.queue) \in Seq(QueuedTransaction)
        /\ Len(Tail(e.queue)) = Len(e.queue) - 1
        /\ \A i \in 1..Len(Tail(e.queue)) : Tail(e.queue)[i] = e.queue[i + 1]
        /\ Len(e.queue) \in Nat \ {0}
        /\ DOMAIN e.queue = 1..Len(e.queue)
        /\ DOMAIN Tail(e.queue) = 1..Len(Tail(e.queue))
    BY <1>1, <2>1, HeadTailProperties, LenProperties, EmptySeq
  <2>4. Waiting(tx, k, w)
    <3>1. tx = e.queue[1] /\ 1 \in DOMAIN e.queue
      BY <1>1, <2>1, <2>3
    <3> QED
      BY <1>1, <3>1 DEF Enqueued
  <2> HIDE DEF tx
  <2>5. /\ f \in Executor
        /\ f.queue = Tail(e.queue) /\ f.safe_queue = e.safe_queue
        /\ f.events = e.events
        /\ SameState(f, e)
        /\ SameIdentity(f, e)
    BY <1>1, <2>2, <2>3 DEF Executor, SameState, SameIdentity
  <2> HIDE DEF f
  <2>6. Enqueued(f, k, w)
    <3>1. ASSUME NEW i \in DOMAIN Tail(e.queue)
          PROVE  Waiting(Tail(e.queue)[i], k, w)
      <4>1. Tail(e.queue)[i] = e.queue[i + 1] /\ i + 1 \in DOMAIN e.queue
        BY <2>3
      <4> QED
        BY <1>1, <4>1 DEF Enqueued
    <3> QED
      BY <1>4, <2>5, <3>1 DEF Enqueued
  <2>7. \A id : Held(e, id) = Held(f, id) + Holds(tx, id)
    <3> TAKE id
    <3>1. Count(e.queue, OfId(id))
            = (IF tx \in OfId(id) THEN 1 ELSE 0) + Count(f.queue, OfId(id))
      BY <1>1, <2>1, <2>5, CountHeadTail
    <3>2. Holds(tx, id) = (IF tx \in OfId(id) THEN 1 ELSE 0)
      BY <2>1, HoldsType
    <3>3. /\ Held(f, id) = Count(f.queue, OfId(id)) + Holds(f.safe_queue, id)
                           + Holds(f.tx, id) + Count(f.events, EndsOf(id))
          /\ Held(e, id) = Count(e.queue, OfId(id)) + Holds(e.safe_queue, id)
                           + Holds(e.tx, id) + Count(e.events, EndsOf(id))
          /\ Count(f.queue, OfId(id)) \in Nat
          /\ Count(e.events, EndsOf(id)) \in Nat
      BY <1>1, <2>5, HeldCounts
    <3>4. Holds(e.safe_queue, id) \in {0, 1} /\ Holds(e.tx, id) \in {0, 1}
      BY HoldsType
    <3> QED
      BY <2>5, <3>1, <3>2, <3>3, <3>4 DEF SameState
  <2>8. Len(f.queue) <= MaxQueued
    BY <1>1, <2>3, <2>5, ExecutorAssumption
  <2> QED
    BY <1>1, <1>2, <2>1, <2>4, <2>5, <2>6, <2>7, <2>8 DEF f, tx
<1> QED
  BY <1>3, <1>4

\* Its deadline has passed: it ends unsent.
LEMMA ExpirePolled ==
    ASSUME NEW e, NEW k, NEW w, NEW r, NEW d \in BOOLEAN, Sound(e, 0, k, w, r, d),
           e.state = "Idle", Pending(e)
    PROVE  Outcome(Finish(Remaining(e), Taken(e), "QueueExpired", FALSE), e, k, w, r, d)
<1> DEFINE g == Remaining(e)
           tx == Taken(e)
           event == Event(TerminalType(tx), tx, "QueueExpired", FALSE)
           f == Finish(g, tx, "QueueExpired", FALSE)
<1>1. /\ e.events = <<>> /\ e.tx = None /\ d = FALSE /\ e.closed = FALSE
      /\ tx \in QueuedTransaction
      /\ Waiting(tx, k, w)
      /\ g \in Executor
      /\ Len(g.queue) <= MaxQueued
      /\ g.events = <<>>
      /\ SameState(g, e)
      /\ SameIdentity(g, e)
      /\ Enqueued(g, k, w)
      /\ \A id : Held(e, id) = Held(g, id) + Holds(tx, id)
  BY RemainingFacts
<1>2. History(e.next_transaction - 1, k, w, r)
  BY DEF Sound, Histories, History, Executor
<1> HIDE DEF g, tx
<1>3. EventIsHonest(event, k, w, r)
  BY <1>1, <1>2, WaitingEnd
<1>4. event \in TransportEvent /\ event.outcome = "QueueExpired"
  BY <1>1 DEF Event, TransportEvent, QueuedTransaction, TransactionOutcome, TerminalType
<1>5. /\ f \in Executor
      /\ f.events = Append(g.events, event)
      /\ SameQueues(f, g)
      /\ SameState(f, g)
      /\ SameIdentity(f, g)
      /\ \A id : Held(f, id) = Held(g, id) + Holds(tx, id)
  <2>1. "QueueExpired" \in TransactionOutcome /\ FALSE \in BOOLEAN
    BY DEF TransactionOutcome
  <2> QED
    BY <1>1, <2>1, FinishFields, FinishHeld
<1> HIDE DEF f, event
<1>6. /\ f.state = "Idle" /\ f.tx = None
      /\ f.write_offset = 0 /\ f.response = 0
      /\ f.queue = g.queue /\ f.safe_queue = g.safe_queue
      /\ f.generation = e.generation
      /\ f.next_transaction = e.next_transaction
      /\ f.closed = FALSE
      /\ f.events = <<event>>
  BY <1>1, <1>4, <1>5 DEF SameState, SameIdentity, SameQueues, Sound, Structure
<1>7. \A id : Held(f, id) = Held(e, id)
  BY <1>1, <1>5
<1>8. Structure(f, 1)
  BY <1>1, <1>6, ExecutorAssumption DEF Structure, Unavailable
<1>9. Quiet(f.events, k, w, r)
  BY <1>3, <1>4, <1>6 DEF Quiet
<1>10. /\ ~Completes(f) /\ Fresh(f, 1) /\ EventsAreHonest(f, k, w, r)
  BY <1>5, <1>9, QuietHead
<1>11. Histories(f, k, w, r)
  BY <1>6 DEF Sound, Histories
<1>12. Owned(f, k, w, r)
  BY <1>1, <1>6 DEF Owned, Enqueued
<1>13. Guarded(f, d)
  BY <1>1 DEF Guarded
<1>14. Outcome(f, e, k, w, r, d)
  BY <1>5, <1>6, <1>7, <1>8, <1>10, <1>11, <1>12, <1>13 DEF Polled, Sound, Outcome
<1> QED
  BY <1>14 DEF f, g, tx

\* Or it becomes the active one.
Begun(e, at) ==
    [Remaining(e) EXCEPT
        !.state = "Active", !.tx = Taken(e),
        !.deadline = Sooner(at + Taken(e).timeout, Taken(e).queue_deadline)]

LEMMA BegunSound ==
    ASSUME NEW e, NEW k, NEW w, NEW r, NEW d \in BOOLEAN, NEW at \in Nat,
           Sound(e, 0, k, w, r, d), e.state = "Idle", Pending(e),
           at < Taken(e).queue_deadline
    PROVE  LET f == Begun(e, at)
           IN  /\ Sound(f, 0, k, w, r, d)
               /\ d = FALSE
               /\ f.events = <<>> /\ f.state = "Active"
               /\ f.tx = Taken(e) /\ f.tx \in QueuedTransaction
               /\ f.write_offset = 0 /\ at < f.deadline
               /\ f.generation = e.generation /\ f.next_transaction = e.next_transaction
               /\ \A id : Held(f, id) = Held(e, id)
<1> DEFINE g == Remaining(e)
           tx == Taken(e)
           deadline == Sooner(at + tx.timeout, tx.queue_deadline)
           f == [g EXCEPT !.state = "Active", !.tx = tx, !.deadline = deadline]
<1>1. /\ e.events = <<>> /\ e.tx = None /\ d = FALSE /\ e.closed = FALSE
      /\ tx \in QueuedTransaction
      /\ Waiting(tx, k, w)
      /\ g \in Executor
      /\ Len(g.queue) <= MaxQueued
      /\ g.events = <<>>
      /\ SameState(g, e)
      /\ SameIdentity(g, e)
      /\ Enqueued(g, k, w)
      /\ \A id : Held(e, id) = Held(g, id) + Holds(tx, id)
  BY RemainingFacts
<1>2. f = Begun(e, at)
  BY DEF Begun
<1>3. deadline \in Nat /\ at < deadline
  BY <1>1 DEF Sooner, QueuedTransaction
<1> HIDE DEF g, tx, deadline
<1>4. /\ f \in Executor
      /\ f.state = "Active" /\ f.tx = tx /\ f.deadline = deadline
      /\ f.queue = g.queue /\ f.safe_queue = g.safe_queue
      /\ f.write_offset = g.write_offset /\ f.response = g.response
      /\ f.events = g.events
      /\ f.generation = g.generation
      /\ f.next_transaction = g.next_transaction
      /\ f.closed = g.closed
  BY <1>1, <1>3 DEF Executor
<1> HIDE DEF f
<1>5. /\ f.write_offset = 0 /\ f.response = 0
      /\ f.generation = e.generation
      /\ f.next_transaction = e.next_transaction
      /\ f.closed = FALSE
      /\ f.events = <<>>
  BY <1>1, <1>4 DEF SameState, SameIdentity, Sound, Structure
<1>6. \A id : Held(f, id) = Held(e, id)
  <2> TAKE id
  <2>1. /\ Held(f, id) = Count(f.queue, OfId(id)) + Holds(f.safe_queue, id)
                         + Holds(f.tx, id) + Count(f.events, EndsOf(id))
        /\ Held(g, id) = Count(g.queue, OfId(id)) + Holds(g.safe_queue, id)
                         + Holds(g.tx, id) + Count(g.events, EndsOf(id))
        /\ Count(g.queue, OfId(id)) \in Nat
        /\ Count(g.events, EndsOf(id)) \in Nat
    BY <1>1, <1>4, HeldCounts
  <2>2. Holds(g.tx, id) = 0 /\ Holds(g.safe_queue, id) \in {0, 1} /\ Holds(tx, id) \in {0, 1}
    BY <1>1, HoldsType DEF SameState
  <2> QED
    BY <1>1, <1>4, <2>1, <2>2
<1>7. tx # None
  BY <1>1, NoneAssumption
<1>8. Structure(f, 0)
  BY <1>1, <1>4, <1>5, <1>7, ExecutorAssumption DEF Structure, Unavailable
<1>9. Fresh(f, 0) /\ EventsAreHonest(f, k, w, r)
  BY <1>5 DEF Fresh, EventsAreHonest
<1>10. Histories(f, k, w, r) /\ History(e.next_transaction - 1, k, w, r)
  BY <1>5 DEF Sound, Histories, History, Executor
<1>11. Owned(f, k, w, r)
  <2>1. Executing(f, k, w, r)
    <3>1. Admitted(f.tx, k) /\ f.tx.dispatch = None
      BY <1>1, <1>4 DEF Waiting
    <3>2. w[f.tx.id] <= f.tx.retries + 1
      BY <1>1, <1>4, <1>10 DEF Waiting, Admitted, History, QueuedTransaction
    <3>3. ~IsRead(f.tx) => w[f.tx.id] = 0
      <4>1. ~IsRead(tx) => IsOutput(k, tx.id)
        BY <1>1, <1>10 DEF Waiting, Admitted, History, Kind, IsOutput
      <4> QED
        BY <1>1, <1>4, <1>10, <4>1, WaitingEnd
    <3> QED
      BY <1>5, <3>1, <3>2, <3>3 DEF Executing
  <2> QED
    BY <1>1, <1>4, <2>1 DEF Owned, Enqueued
<1>12. Guarded(f, d)
  BY <1>1 DEF Guarded
<1>13. Sound(f, 0, k, w, r, d)
  BY <1>4, <1>8, <1>9, <1>10, <1>11, <1>12 DEF Sound
<1> QED
  BY <1>1, <1>2, <1>3, <1>4, <1>5, <1>6, <1>13 DEF tx

-----------------------------------------------------------------------------
(* A poll.                                                                 *)

\* Offered and FirstByte, of any executor.
OfferedBy(e, at) ==
    CASE e.events # <<>> -> None
      [] e.events = <<>> /\ e.state = "Active" ->
            IF e.write_offset = 0 /\ at < e.deadline THEN e.tx ELSE None
      [] e.events = <<>> /\ e.state = "Idle" ->
            IF /\ e.safe_queue # None \/ e.queue # <<>>
               /\ at < Taken(e).queue_deadline
            THEN Taken(e) ELSE None
      [] OTHER -> None

FirstByteOf(tx, io) ==
    /\ tx # None
    /\ IsRead(tx) \/ io.authorized
    /\ io.written # None /\ io.written \in 1..RequestLen

\* The line stays dirty until a response completes or a boundary is recovered.
Result(f, e, k, w, r, d) ==
    /\ Completes(f) => Polled(f, e, k, w, r, FALSE) /\ f.generation = e.generation
    /\ ~Completes(f) /\ f.generation = e.generation => Polled(f, e, k, w, r, d)
    /\ f.generation # e.generation => Polled(f, e, k, w, r, FALSE)

\* A poll that begins a request finds a clean line.
PolledWith(f, e, tx, io, k, w, r, d) ==
    LET v == [w EXCEPT ![tx.id] = @ + 1]
    IN  /\ ~FirstByteOf(tx, io) => Result(f, e, k, w, r, d)
        /\ FirstByteOf(tx, io) =>
              /\ d = FALSE
              /\ tx \in QueuedTransaction
              /\ tx.id \in DOMAIN k
              /\ Held(e, tx.id) >= 1
        /\ FirstByteOf(tx, io) /\ (IsRead(tx) \/ io.dispatch # None) =>
              Result(f, e, k, v, r, TRUE)
        /\ FirstByteOf(tx, io) /\ ~IsRead(tx) /\ io.dispatch = None =>
              Result(f, e, k, v, r \cup {tx.id}, TRUE)

LEMMA OutcomeResult ==
    ASSUME NEW f, NEW e, NEW k, NEW w, NEW r, NEW d, Outcome(f, e, k, w, r, d)
    PROVE  Result(f, e, k, w, r, d)
  BY DEF Outcome, Result

LEMMA HoldsSelf ==
    ASSUME NEW e \in Executor, e.tx \in QueuedTransaction
    PROVE  Held(e, e.tx.id) >= 1
<1>1. Holds(e.tx, e.tx.id) = 1 /\ Holds(e.safe_queue, e.tx.id) \in {0, 1}
  BY HoldsType, NoneAssumption DEF Holds
<1> QED
  BY <1>1, HeldCounts

LEMMA ProgressActiveWith ==
    ASSUME NEW e, NEW k, NEW w, NEW r, NEW d \in BOOLEAN, NEW at \in Nat, NEW io \in Answer,
           Sound(e, 0, k, w, r, d), e.events = <<>>, e.state = "Active",
           \A id \in DOMAIN k : Held(e, id) <= 1
    PROVE  PolledWith(ProgressActive(e, at, io), e, OfferedBy(e, at), io, k, w, r, d)
<1> DEFINE f == ProgressActive(e, at, io)
           v == [w EXCEPT ![e.tx.id] = @ + 1]
           offered == OfferedBy(e, at)
<1>1. /\ e \in Executor /\ e.tx \in QueuedTransaction /\ e.tx # None
      /\ Executing(e, k, w, r)
  BY SoundEnding, EndingFacts DEF Ending
<1>2. e.tx.id \in DOMAIN k
  BY <1>1 DEF Executing, Admitted
<1>3. Held(e, e.tx.id) <= 1 /\ Held(e, e.tx.id) >= 1
  BY <1>1, <1>2, HoldsSelf
<1>4. offered = IF e.write_offset = 0 /\ at < e.deadline THEN e.tx ELSE None
  BY DEF OfferedBy
<1>5. FirstByteOf(offered, io) <=> Starts(e, at, io)
  BY <1>1, <1>4 DEF FirstByteOf, Starts
<1>6. /\ ~Starts(e, at, io) => Outcome(f, e, k, w, r, d)
      /\ Starts(e, at, io) /\ (IsRead(e.tx) \/ io.dispatch # None) =>
            Outcome(f, e, k, v, r, TRUE)
      /\ Starts(e, at, io) /\ ~IsRead(e.tx) /\ io.dispatch = None =>
            Outcome(f, e, k, v, r \cup {e.tx.id}, TRUE)
  BY <1>3, ProgressActiveOutcome
<1>7. ASSUME Starts(e, at, io)
      PROVE  d = FALSE /\ offered = e.tx
  BY <1>4, <1>7 DEF Starts, Sound, Guarded, Unavailable
<1> HIDE DEF offered, f
<1>8. PolledWith(f, e, offered, io, k, w, r, d)
  BY <1>1, <1>2, <1>3, <1>5, <1>6, <1>7, OutcomeResult DEF PolledWith
<1> QED
  BY <1>8 DEF offered, f

LEMMA StartOrRemainIdleWith ==
    ASSUME NEW e, NEW k, NEW w, NEW r, NEW d \in BOOLEAN, NEW at \in Nat, NEW io \in Answer,
           Sound(e, 0, k, w, r, d), e.events = <<>>, e.state = "Idle",
           \A id \in DOMAIN k : Held(e, id) <= 1
    PROVE  PolledWith(StartOrRemainIdle(e, at, io), e, OfferedBy(e, at), io, k, w, r, d)
<1> DEFINE f == StartOrRemainIdle(e, at, io)
           offered == OfferedBy(e, at)
           expired == Finish(Remaining(e), Taken(e), "QueueExpired", FALSE)
           b == Begun(e, at)
<1>1. offered = IF Pending(e) /\ at < Taken(e).queue_deadline THEN Taken(e) ELSE None
  BY DEF OfferedBy, Pending
<1>2. CASE ~Pending(e)
  <2>1. f = e /\ offered = None
    BY <1>1, <1>2 DEF StartOrRemainIdle, Pending
  <2>2. Result(e, e, k, w, r, d)
    BY UnchangedPolled DEF Result
  <2> HIDE DEF f, offered
  <2>3. PolledWith(f, e, offered, io, k, w, r, d)
    BY <2>1, <2>2 DEF PolledWith, FirstByteOf
  <2> QED
    BY <2>3 DEF f, offered
<1>3. ASSUME Pending(e)
      PROVE  Taken(e).queue_deadline \in Nat
  BY <1>3, RemainingFacts DEF QueuedTransaction
<1>4. CASE Pending(e) /\ at >= Taken(e).queue_deadline
  <2>1. f = expired
    BY <1>4 DEF StartOrRemainIdle, Pending
  <2>2. offered = None
    BY <1>1, <1>3, <1>4
  <2>3. Result(f, e, k, w, r, d)
    BY <1>4, <2>1, ExpirePolled, OutcomeResult
  <2> HIDE DEF f, offered
  <2>4. PolledWith(f, e, offered, io, k, w, r, d)
    BY <2>2, <2>3 DEF PolledWith, FirstByteOf
  <2> QED
    BY <2>4 DEF f, offered
<1>5. CASE Pending(e) /\ ~(at >= Taken(e).queue_deadline)
  <2>1. f = ProgressActive(b, at, io)
    BY <1>5 DEF StartOrRemainIdle, Pending, Begun
  <2>2. at < Taken(e).queue_deadline
    BY <1>3, <1>5
  <2>3. /\ Sound(b, 0, k, w, r, d)
        /\ d = FALSE
        /\ b.events = <<>> /\ b.state = "Active"
        /\ b.tx = Taken(e)
        /\ b.write_offset = 0 /\ at < b.deadline
        /\ b.generation = e.generation /\ b.next_transaction = e.next_transaction
        /\ \A id : Held(b, id) = Held(e, id)
    BY <1>5, <2>2, BegunSound
  <2> HIDE DEF b
  <2>4. OfferedBy(b, at) = offered
    BY <1>1, <1>5, <2>2, <2>3 DEF OfferedBy
  <2>5. PolledWith(f, b, offered, io, k, w, r, d)
    BY <2>1, <2>3, <2>4, ProgressActiveWith
  <2> HIDE DEF f, offered
  <2>6. \A v, q, dd : Result(f, b, k, v, q, dd) => Result(f, e, k, v, q, dd)
    BY <2>3 DEF Result, Polled
  <2>7. PolledWith(f, e, offered, io, k, w, r, d)
    BY <2>3, <2>5, <2>6 DEF PolledWith
  <2> QED
    BY <2>7 DEF f, offered
<1> QED
  BY <1>2, <1>4, <1>5

LEMMA ProgressWith ==
    ASSUME NEW e, NEW k, NEW w, NEW r, NEW d \in BOOLEAN, NEW at \in Nat, NEW io \in Answer,
           Sound(e, 0, k, w, r, d), e.events = <<>>,
           \A id \in DOMAIN k : Held(e, id) <= 1
    PROVE  PolledWith(Progress(e, at, io), e, OfferedBy(e, at), io, k, w, r, d)
<1> DEFINE f == Progress(e, at, io)
           offered == OfferedBy(e, at)
<1>1. e.state \in {"Idle", "Active", "Recovering", "ProtocolRecovery", "Offline"}
  BY DEF Sound, Executor, Unavailable
<1>2. CASE e.state = "Idle"
  <2>1. f = StartOrRemainIdle(e, at, io)
    BY <1>2 DEF Progress
  <2> QED
    BY <1>2, <2>1, StartOrRemainIdleWith
<1>3. CASE e.state = "Active"
  <2>1. f = ProgressActive(e, at, io)
    BY <1>3 DEF Progress
  <2> QED
    BY <1>3, <2>1, ProgressActiveWith
<1>4. ASSUME e.state \in Unavailable, Result(f, e, k, w, r, d)
      PROVE  PolledWith(f, e, offered, io, k, w, r, d)
  <2>1. offered = None
    BY <1>4 DEF OfferedBy, Unavailable
  <2> HIDE DEF f, offered
  <2> QED
    BY <1>4, <2>1 DEF PolledWith, FirstByteOf
<1>5. CASE e.state = "Recovering"
  <2>1. f = ProgressRecovery(e, at, io)
    BY <1>5 DEF Progress
  <2>2. Ending(e, k, w, r)
    BY <1>5, SoundEnding
  <2> HIDE DEF f
  <2>3. Result(f, e, k, w, r, d)
    BY <1>5, <2>1, <2>2, ProgressRecoveryPolled DEF Result
  <2> QED
    BY <1>4, <1>5, <2>3 DEF f, Unavailable
<1>6. CASE e.state = "ProtocolRecovery"
  <2>1. f = ProgressProtocolRecovery(e, at, io)
    BY <1>6 DEF Progress
  <2> HIDE DEF f
  <2>2. Result(f, e, k, w, r, d)
    BY <1>6, <2>1, ProgressProtocolRecoveryPolled DEF Result
  <2> QED
    BY <1>4, <1>6, <2>2 DEF f, Unavailable
<1>7. CASE e.state = "Offline"
  <2>1. f = e
    BY <1>7 DEF Progress
  <2> HIDE DEF f
  <2>2. Result(f, e, k, w, r, d)
    BY <2>1, UnchangedPolled DEF Result
  <2> QED
    BY <1>4, <1>7, <2>2 DEF f, Unavailable
<1> QED
  BY <1>1, <1>2, <1>3, <1>5, <1>6, <1>7

\* The time of the poll is remembered.
LEMMA PolledAt ==
    ASSUME NEW e, NEW slack, NEW k, NEW w, NEW r, NEW d, NEW at \in Nat,
           Sound(e, slack, k, w, r, d)
    PROVE  LET g == [e EXCEPT !.last_poll = at]
           IN  /\ Sound(g, slack, k, w, r, d)
               /\ g.events = e.events
               /\ g.generation = e.generation /\ g.next_transaction = e.next_transaction
               /\ OfferedBy(g, at) = OfferedBy(e, at)
               /\ \A id : Held(g, id) = Held(e, id)
<1> DEFINE g == [e EXCEPT !.last_poll = at]
<1>1. e \in Executor
  BY DEF Sound
<1>2. /\ g \in Executor
      /\ SameQueues(g, e) /\ SameState(g, e) /\ SameIdentity(g, e)
      /\ g.events = e.events /\ g.deadline = e.deadline
  BY <1>1 DEF Executor, SameQueues, SameState, SameIdentity
<1> HIDE DEF g
<1>3. Structure(g, slack) /\ Fresh(g, slack) /\ Histories(g, k, w, r)
  BY <1>2 DEF Sound, SameQueues, SameState, SameIdentity, Structure, Fresh, Histories
<1>4. Owned(g, k, w, r)
  BY <1>2 DEF Sound, SameQueues, SameState, Owned, Enqueued, Executing
<1>5. EventsAreHonest(g, k, w, r) /\ Guarded(g, d)
  BY <1>2 DEF Sound, SameState, EventsAreHonest, Guarded
<1>6. Taken(g) = Taken(e) /\ OfferedBy(g, at) = OfferedBy(e, at)
  BY <1>2 DEF SameQueues, SameState, Taken, OfferedBy
<1>7. \A id : Held(g, id) = Held(e, id)
  BY <1>2 DEF SameQueues, SameState, Held
<1>8. Sound(g, slack, k, w, r, d)
  BY <1>2, <1>3, <1>4, <1>5 DEF Sound
<1>9. g.generation = e.generation /\ g.next_transaction = e.next_transaction
  BY <1>2 DEF SameIdentity
<1> QED
  BY <1>2, <1>6, <1>7, <1>8, <1>9 DEF g

LEMMA PollStateWith ==
    ASSUME NEW e, NEW k, NEW w, NEW r, NEW d \in BOOLEAN, NEW at \in Nat, NEW io \in Answer,
           Sound(e, 0, k, w, r, d),
           \A id \in DOMAIN k : Held(e, id) <= 1
    PROVE  PolledWith(PollState(e, at, io), e, OfferedBy(e, at), io, k, w, r, d)
<1> DEFINE f == PollState(e, at, io)
           g == [e EXCEPT !.last_poll = at]
           offered == OfferedBy(e, at)
<1>1. /\ Sound(g, 0, k, w, r, d)
      /\ g.events = e.events
      /\ g.generation = e.generation /\ g.next_transaction = e.next_transaction
      /\ OfferedBy(g, at) = offered
      /\ \A id : Held(g, id) = Held(e, id)
  BY PolledAt
<1>2. f = IF e.events # <<>> THEN g ELSE Progress(g, at, io)
  BY DEF PollState
<1>3. e.events # <<>> => offered = None
  BY DEF OfferedBy
<1> HIDE DEF f, g, offered
<1>4. CASE e.events # <<>>
  <2>1. Polled(g, g, k, w, r, d) /\ ~Completes(g)
    BY <1>1, UnchangedPolled
  <2>2. Result(f, e, k, w, r, d)
    BY <1>1, <1>2, <1>4, <2>1 DEF Result, Polled
  <2>3. PolledWith(f, e, offered, io, k, w, r, d)
    BY <1>3, <1>4, <2>2 DEF PolledWith, FirstByteOf
  <2> QED
    BY <2>3 DEF f, offered
<1>5. CASE e.events = <<>>
  <2>1. PolledWith(f, g, offered, io, k, w, r, d)
    BY <1>1, <1>2, <1>5, ProgressWith
  <2>2. \A v, q, dd : Result(f, g, k, v, q, dd) => Result(f, e, k, v, q, dd)
    BY <1>1 DEF Result, Polled
  <2>3. PolledWith(f, e, offered, io, k, w, r, d)
    BY <1>1, <2>1, <2>2 DEF PolledWith
  <2> QED
    BY <2>3 DEF f, offered
<1> QED
  BY <1>4, <1>5

-----------------------------------------------------------------------------
(* The delivery of an event.                                               *)

\* The events the owner receives from one poll.
Received(f) == IF f.events = <<>> THEN <<>> ELSE <<Head(f.events)>>

LEMMA ReceivedFacts ==
    ASSUME NEW f \in Executor
    PROVE  /\ Received(f) \in Seq(TransportEvent)
           /\ \A i \in DOMAIN Received(f) : 1 \in DOMAIN f.events /\ Received(f)[i] = f.events[1]
           /\ Completes(f) <=> Received(f) # <<>> /\ Received(f)[1].outcome = "Completed"
<1>1. f.events \in Seq(TransportEvent)
  BY DEF Executor
<1>2. CASE f.events = <<>>
  BY <1>2 DEF Received, Completes
<1>3. CASE f.events # <<>>
  <2>1. Head(f.events) \in TransportEvent /\ Head(f.events) = f.events[1]
    BY <1>1, <1>3, HeadTailProperties
  <2>2. 1 \in DOMAIN f.events
    BY <1>1, <1>3
  <2>3. Received(f) = <<f.events[1]>>
    BY <1>3, <2>1 DEF Received
  <2>4. DOMAIN Received(f) = {1} /\ Received(f)[1] = f.events[1] /\ Received(f) # <<>>
    BY <2>3
  <2>5. Received(f) \in Seq(TransportEvent)
    BY <2>1, <2>3
  <2> QED
    BY <1>3, <2>1, <2>2, <2>4, <2>5 DEF Completes
<1> QED
  BY <1>2, <1>3

\* The owner takes the first event; the state may progress again when there is
\* no other.
LEMMA TakeFacts ==
    ASSUME NEW f, NEW k, NEW w, NEW r, NEW d, Sound(f, 1, k, w, r, d)
    PROVE  LET g == TakeEvent(f)
           IN  /\ Sound(g, 0, k, w, r, d)
               /\ g.generation = f.generation /\ g.next_transaction = f.next_transaction
               /\ \A id : Held(f, id) = Held(g, id) + Cardinality(Ends(Received(f), id))
               /\ Completes(f) => g.state = "Idle" /\ g.events = <<>>
<1> DEFINE g == TakeEvent(f)
<1>1. /\ f \in Executor
      /\ f.events \in Seq(TransportEvent) /\ f.queue \in Seq(QueuedTransaction)
      /\ Len(f.events) \in Nat /\ Len(f.queue) \in Nat
  BY LenProperties DEF Sound, Executor
<1>2. MaxQueued \in Nat
  BY ExecutorAssumption
<1>3. /\ g \in Executor
      /\ g.events = IF f.events = <<>> THEN <<>> ELSE Tail(f.events)
      /\ SameQueues(g, f) /\ SameState(g, f) /\ SameIdentity(g, f)
  <2>1. f.events # <<>> => Tail(f.events) \in Seq(TransportEvent)
    BY <1>1, HeadTailProperties
  <2> QED
    BY <1>1, <2>1 DEF TakeEvent, Executor, SameQueues, SameState, SameIdentity
<1>4. /\ Len(g.events) = IF f.events = <<>> THEN 0 ELSE Len(f.events) - 1
      /\ Len(g.events) \in Nat
      /\ \A i \in DOMAIN g.events :
            i + 1 \in DOMAIN f.events /\ i + 1 # 1 /\ g.events[i] = f.events[i + 1]
  BY <1>1, <1>3
<1> HIDE DEF g
<1>5. Structure(g, 0)
  BY <1>1, <1>2, <1>3, <1>4 DEF Sound, Structure, SameQueues, SameState, SameIdentity
<1>6. Fresh(g, 0)
  BY <1>3, <1>4 DEF Sound, Fresh
<1>7. Histories(g, k, w, r) /\ Owned(g, k, w, r)
  BY <1>3 DEF Sound, Histories, Owned, Enqueued, Executing, SameQueues, SameState, SameIdentity
<1>8. EventsAreHonest(g, k, w, r) /\ Guarded(g, d)
  BY <1>3, <1>4 DEF Sound, EventsAreHonest, Guarded, SameState
<1>9. Sound(g, 0, k, w, r, d)
  BY <1>3, <1>5, <1>6, <1>7, <1>8 DEF Sound
<1>10. \A id : Held(f, id) = Held(g, id) + Cardinality(Ends(Received(f), id))
  <2> TAKE id
  <2>1. /\ Cardinality(Ends(Received(f), id)) = Count(Received(f), EndsOf(id))
        /\ Count(Received(f), EndsOf(id)) \in Nat
    BY <1>1, ReceivedFacts, EndsCount
  <2>2. Count(f.events, EndsOf(id)) = Count(Received(f), EndsOf(id)) + Count(g.events, EndsOf(id))
    <3>1. CASE f.events = <<>>
      BY <1>3, <3>1, CountEmpty DEF Received
    <3>2. CASE f.events # <<>>
      <4>1. Received(f) = <<Head(f.events)>> /\ g.events = Tail(f.events)
        BY <1>3, <3>2 DEF Received
      <4>2. Count(f.events, EndsOf(id))
              = (IF Head(f.events) \in EndsOf(id) THEN 1 ELSE 0)
                + Count(Tail(f.events), EndsOf(id))
        BY <1>1, <3>2, CountHeadTail
      <4>3. Count(<<Head(f.events)>>, EndsOf(id))
              = (IF Head(f.events) \in EndsOf(id) THEN 1 ELSE 0)
        BY CountOne
      <4> QED
        BY <4>1, <4>2, <4>3
    <3> QED
      BY <3>1, <3>2
  <2>3. Holds(f.safe_queue, id) \in Nat /\ Holds(f.tx, id) \in Nat
    BY HoldsType
  <2>4. /\ Held(f, id) = Count(f.queue, OfId(id)) + Holds(f.safe_queue, id)
                         + Holds(f.tx, id) + Count(f.events, EndsOf(id))
        /\ Held(g, id) = Count(f.queue, OfId(id)) + Holds(f.safe_queue, id)
                         + Holds(f.tx, id) + Count(g.events, EndsOf(id))
        /\ Count(f.queue, OfId(id)) \in Nat
        /\ Count(g.events, EndsOf(id)) \in Nat
    BY <1>1, <1>3, HeldCounts DEF SameQueues, SameState
  <2> QED
    BY <2>1, <2>2, <2>3, <2>4
<1>11. ASSUME Completes(f)
       PROVE  g.state = "Idle" /\ g.events = <<>>
  <2>1. 1 \in DOMAIN f.events /\ Head(f.events) = f.events[1]
    BY <1>1, <1>11 DEF Completes
  <2>2. f.state = "Idle"
    BY <1>11, <2>1 DEF Completes, Sound, Fresh
  <2>3. g.state = "Idle" /\ Len(g.events) <= 0
    BY <1>3, <1>5, <2>2 DEF SameState, Structure
  <2>4. g.events \in Seq(TransportEvent)
    BY <1>3 DEF Executor
  <2> QED
    BY <1>4, <2>3, <2>4, EmptySeq
<1> QED
  BY <1>3, <1>9, <1>10, <1>11 DEF g, SameIdentity

\* The owner rejects the response it has just received: the line is not clean.
LEMMA ProtocolFailureSound ==
    ASSUME NEW g, NEW k, NEW w, NEW r, NEW d, Sound(g, 0, k, w, r, d),
           g.state = "Idle", g.events = <<>>
    PROVE  LET f == ProtocolFailure(g)
           IN  /\ Sound(f, 0, k, w, r, TRUE)
               /\ f.generation = g.generation /\ f.next_transaction = g.next_transaction
               /\ \A id : Held(f, id) = Held(g, id)
<1> DEFINE f == ProtocolFailure(g)
           h == FenceOrdinaryQueue(g)
<1>1. /\ g \in Executor
      /\ g.queue \in Seq(QueuedTransaction) /\ Len(g.queue) \in Nat
      /\ g.tx = None /\ g.closed = FALSE
      /\ Len(g.queue) <= MaxQueued
      /\ g.last_poll + RecoveryTimeout \in Nat
  BY LenProperties, ExecutorAssumption DEF Sound, Structure, Executor
<1>2. /\ h \in Executor
      /\ h.queue = <<>>
      /\ h.safe_queue = g.safe_queue
      /\ h.events = g.events \o Fences(g.queue)
      /\ SameState(h, g)
      /\ SameIdentity(h, g)
  BY <1>1, FenceFields
<1>3. f = [h EXCEPT !.state = "ProtocolRecovery", !.deadline = g.last_poll + RecoveryTimeout]
  BY DEF ProtocolFailure
<1>4. h.events = Fences(g.queue)
  <2>1. Fences(g.queue) \in Seq(TransportEvent)
    BY <1>1, FencesType
  <2> QED
    BY <1>2, <2>1
<1>5. Len(Fences(g.queue)) = Len(g.queue)
  BY <1>1, FencesType
<1>6. \A id : Held(h, id) = Held(g, id)
  BY <1>1, FenceHeld
<1> HIDE DEF h, f
<1>7. /\ f \in Executor
      /\ f.state = "ProtocolRecovery" /\ f.tx = None /\ f.queue = <<>>
      /\ f.write_offset = g.write_offset /\ f.response = g.response
      /\ f.safe_queue = g.safe_queue
      /\ f.events = Fences(g.queue)
      /\ f.generation = g.generation /\ f.next_transaction = g.next_transaction
      /\ f.closed = FALSE
  BY <1>1, <1>2, <1>3, <1>4 DEF Executor, SameState, SameIdentity, Unavailable
<1>8. Structure(f, 0)
  BY <1>1, <1>5, <1>7, ExecutorAssumption DEF Sound, Structure, Unavailable
<1>9. History(g.next_transaction - 1, k, w, r)
  BY <1>1 DEF Sound, Histories, History, Executor
<1>10. Quiet(f.events, k, w, r)
  <2>1. \A i \in DOMAIN g.queue : Waiting(g.queue[i], k, w)
    BY DEF Sound, Owned, Enqueued
  <2> QED
    BY <1>1, <1>7, <1>9, <2>1, QuietFences
<1>11. Fresh(f, 0) /\ EventsAreHonest(f, k, w, r)
  BY <1>7, <1>10, QuietHead
<1>12. Histories(f, k, w, r) /\ Owned(f, k, w, r) /\ Guarded(f, TRUE)
  BY <1>7 DEF Sound, Histories, Owned, Enqueued, Guarded, Unavailable
<1>13. \A id : Held(f, id) = Held(g, id)
  <2>1. f.events = h.events /\ f.queue = h.queue /\ f.safe_queue = h.safe_queue /\ f.tx = h.tx
    BY <1>1, <1>2, <1>4, <1>7 DEF SameState
  <2> QED
    BY <1>6, <2>1 DEF Held
<1>14. Sound(f, 0, k, w, r, TRUE)
  BY <1>7, <1>8, <1>11, <1>12 DEF Sound
<1> QED
  BY <1>7, <1>13, <1>14 DEF f

SettledAfter(n, sd, events) ==
    [id \in 1..n |-> sd[id] + Cardinality(Ends(events, id))]

ReportedAfter(n, rep, events) ==
    [id \in 1..n |-> IF Ends(events, id) = {} THEN rep[id]
                     ELSE Evidence(events[CHOOSE i \in Ends(events, id) : TRUE])]

\* An honest end tells the truth about the bytes.
LEMMA EvidenceIsHonest ==
    ASSUME NEW event \in TransportEvent, NEW k, NEW w, NEW r,
           IsTerminal(event), EventIsHonest(event, k, w, r)
    PROVE  /\ Evidence(event) \in Verdict
           /\ event.id \notin r /\ IsOutput(k, event.id) =>
                 /\ Evidence(event) \in {"Unsent", "QueueExpired"} => w[event.id] = 0
                 /\ Evidence(event) = "Sent" => w[event.id] = 1
  BY DEF Evidence, EventIsHonest, Verdict

\* What the owner knows after the delivery of honest events, where `e` is the
\* executor before the call, `g` the one it leaves behind, and only the bytes of a
\* transaction that was held can have moved.
LEMMA DeliverSettled ==
    ASSUME NEW e \in Executor, NEW g \in Executor, NEW events \in Seq(TransportEvent),
           NEW k, NEW w, NEW r, NEW v, NEW q, NEW sd, NEW rep,
           Settled(e, k, w, r, sd, rep),
           DOMAIN k = 1..(e.next_transaction - 1),
           g.next_transaction = e.next_transaction,
           r \subseteq q,
           \A id \in DOMAIN k : v[id] # w[id] => Held(e, id) >= 1,
           \A i \in DOMAIN events : EventIsHonest(events[i], k, v, q),
           \A id : Held(e, id) = Held(g, id) + Cardinality(Ends(events, id))
    PROVE  Settled(g, k, v, q, SettledAfter(e.next_transaction - 1, sd, events),
                   ReportedAfter(e.next_transaction - 1, rep, events))
<1> DEFINE n == e.next_transaction - 1
           sdn == SettledAfter(n, sd, events)
           repn == ReportedAfter(n, rep, events)
<1>1. /\ sd \in [1..n -> Nat]
      /\ rep \in [1..n -> Verdict \cup {None}]
      /\ DOMAIN k = 1..n
      /\ \A id \in 1..n :
            /\ Held(e, id) + sd[id] = 1
            /\ sd[id] = 0 => rep[id] = None
            /\ id \notin r /\ IsOutput(k, id) =>
                  /\ rep[id] \in {"Unsent", "QueueExpired"} => w[id] = 0
                  /\ rep[id] = "Sent" => w[id] = 1
  BY DEF Settled
<1>2. \A id : /\ Cardinality(Ends(events, id)) \in Nat
              /\ Ends(events, id) = {} <=> Cardinality(Ends(events, id)) = 0
  BY EndsCount
<1>3. \A id : Held(g, id) \in Nat /\ Held(e, id) \in Nat
  BY HeldCounts, HoldsType
<1>4. \A id \in 1..n : sdn[id] = sd[id] + Cardinality(Ends(events, id))
  BY DEF SettledAfter
<1>5. \A id \in 1..n :
         repn[id] = IF Ends(events, id) = {} THEN rep[id]
                    ELSE Evidence(events[CHOOSE i \in Ends(events, id) : TRUE])
  BY DEF ReportedAfter
<1>6. DOMAIN sdn = 1..n /\ DOMAIN repn = 1..n /\ sdn = [id \in 1..n |-> sdn[id]]
      /\ repn = [id \in 1..n |-> repn[id]]
  BY DEF SettledAfter, ReportedAfter
<1> HIDE DEF n, sdn, repn
<1>7. ASSUME NEW id \in 1..n
      PROVE  /\ sdn[id] \in Nat
             /\ repn[id] \in Verdict \cup {None}
             /\ Held(g, id) + sdn[id] = 1
             /\ sdn[id] = 0 => repn[id] = None
             /\ id \notin q /\ IsOutput(k, id) =>
                   /\ repn[id] \in {"Unsent", "QueueExpired"} => v[id] = 0
                   /\ repn[id] = "Sent" => v[id] = 1
  <2>1. sdn[id] \in Nat /\ Held(g, id) + sdn[id] = 1
    BY <1>1, <1>2, <1>3, <1>4
  <2>2. CASE Ends(events, id) = {}
    <3>1. sdn[id] = sd[id] /\ repn[id] = rep[id]
      BY <1>1, <1>2, <1>4, <1>5, <2>2
    <3>2. sd[id] = 0 => repn[id] = None /\ None \notin {"Unsent", "QueueExpired", "Sent"}
      BY <1>1, <3>1, NoneAssumption DEF Verdict
    <3>3. sd[id] # 0 => v[id] = w[id]
      <4>1. sd[id] \in Nat /\ Held(e, id) \in Nat /\ Held(e, id) + sd[id] = 1
        BY <1>1, <1>3
      <4>2. v[id] # w[id] => Held(e, id) >= 1
        BY <1>1
      <4> QED
        BY <4>1, <4>2
    <3>4. id \notin q => id \notin r
      OBVIOUS
    <3>5. repn[id] \in Verdict \cup {None}
      BY <1>1, <3>1
    <3> QED
      BY <1>1, <2>1, <3>1, <3>2, <3>3, <3>4, <3>5
  <2>3. CASE Ends(events, id) # {}
    <3> DEFINE i == CHOOSE j \in Ends(events, id) : TRUE
               event == events[i]
    <3>1. i \in Ends(events, id)
      BY <2>3
    <3>2. i \in DOMAIN events /\ IsTerminal(event) /\ event.id = id
      BY <3>1 DEF Ends
    <3>3. event \in TransportEvent /\ EventIsHonest(event, k, v, q)
      BY <3>2, LenProperties, ElementOfSeq
    <3>4. repn[id] = Evidence(event)
      BY <1>5, <2>3
    <3> HIDE DEF i, event
    <3>5. sdn[id] # 0
      BY <1>1, <1>2, <1>4, <2>3
    <3> QED
      BY <2>1, <3>2, <3>3, <3>4, <3>5, EvidenceIsHonest
  <2> QED
    BY <2>2, <2>3
<1>8. sdn \in [1..n -> Nat] /\ repn \in [1..n -> Verdict \cup {None}]
  BY <1>6, <1>7
<1>9. Settled(g, k, v, q, sdn, repn)
  BY <1>1, <1>7, <1>8 DEF Settled, n
<1> QED
  BY <1>9 DEF n, sdn, repn

-----------------------------------------------------------------------------
(* The actions.                                                            *)

\* The invariant after a step, of the values the step leaves behind.
LEMMA Stepped ==
    ASSUME now' \in Nat, dirty' \in BOOLEAN,
           Sound(ex', 0, admitted', wire', refused', dirty'),
           Settled(ex', admitted', wire', refused', settled', reported')
    PROVE  IInv'
  BY DEF IInv

\* What a poll leaves of the histories.
WireAfter(w, tx, io) ==
    IF FirstByteOf(tx, io) THEN [w EXCEPT ![tx.id] = @ + 1] ELSE w

RefusedAfter(r, tx, io) ==
    IF FirstByteOf(tx, io) /\ ~IsRead(tx) /\ io.dispatch = None THEN r \cup {tx.id} ELSE r

DirtyAfter(d, tx, io) == d \/ FirstByteOf(tx, io)

LEMMA PollHistories ==
    ASSUME NEW f, NEW e, NEW tx, NEW io, NEW k, NEW w, NEW r, NEW d \in BOOLEAN,
           PolledWith(f, e, tx, io, k, w, r, d), DOMAIN w = DOMAIN k
    PROVE  /\ r \subseteq RefusedAfter(r, tx, io)
           /\ \A id \in DOMAIN k : WireAfter(w, tx, io)[id] # w[id] => Held(e, id) >= 1
           /\ Result(f, e, k, WireAfter(w, tx, io), RefusedAfter(r, tx, io),
                     DirtyAfter(d, tx, io))
<1> DEFINE v == WireAfter(w, tx, io)
           q == RefusedAfter(r, tx, io)
           dd == DirtyAfter(d, tx, io)
<1>1. /\ v = (IF FirstByteOf(tx, io) THEN [w EXCEPT ![tx.id] = @ + 1] ELSE w)
      /\ q = (IF FirstByteOf(tx, io) /\ ~IsRead(tx) /\ io.dispatch = None
              THEN r \cup {tx.id} ELSE r)
      /\ dd \in BOOLEAN
      /\ dd <=> d \/ FirstByteOf(tx, io)
  BY DEF WireAfter, RefusedAfter, DirtyAfter
<1> HIDE DEF v, q, dd
<1>2. /\ r \subseteq q
      /\ \A id \in DOMAIN k : v[id] # w[id] => Held(e, id) >= 1
      /\ Result(f, e, k, v, q, dd)
  <2>1. CASE ~FirstByteOf(tx, io)
    <3>1. v = w /\ q = r /\ dd = d
      BY <1>1, <2>1
    <3>2. Result(f, e, k, w, r, d)
      BY <2>1 DEF PolledWith
    <3> QED
      BY <3>1, <3>2
  <2>2. CASE FirstByteOf(tx, io)
    <3>1. dd = TRUE
      BY <1>1, <2>2
    <3>2. v = [w EXCEPT ![tx.id] = @ + 1]
      BY <1>1, <2>2
    <3>3. Held(e, tx.id) >= 1
      BY <2>2 DEF PolledWith
    <3>4. \A id \in DOMAIN k : v[id] # w[id] => Held(e, id) >= 1
      BY <3>2, <3>3
    <3>5. CASE ~IsRead(tx) /\ io.dispatch = None
      <4>1. q = r \cup {tx.id}
        BY <1>1, <2>2, <3>5
      <4>2. Result(f, e, k, v, q, TRUE)
        BY <2>2, <3>2, <3>5, <4>1 DEF PolledWith
      <4> QED
        BY <3>1, <3>4, <4>1, <4>2
    <3>6. CASE IsRead(tx) \/ io.dispatch # None
      <4>1. q = r
        BY <1>1, <3>6
      <4>2. Result(f, e, k, v, q, TRUE)
        BY <2>2, <3>2, <3>6, <4>1 DEF PolledWith
      <4> QED
        BY <3>1, <3>4, <4>1, <4>2
    <3> QED
      BY <3>5, <3>6
  <2> QED
    BY <2>1, <2>2
<1> QED
  BY <1>2 DEF v, q, dd

LEMMA AnswersType ==
    ASSUME NEW io \in Answers
    PROVE  io \in Answer
<1>1. Silent \in Answer
  BY ExecutorAssumption DEF Silent, Answer
<1>2. CASE ex.events # <<>> \/ ex.state = "Offline"
  BY <1>1, <1>2 DEF Answers
<1>3. CASE ~(ex.events # <<>> \/ ex.state = "Offline")
            /\ ex.state \in {"Recovering", "ProtocolRecovery"}
  <2>1. PICK answer \in {"Pending", None, "Complete"} : io = [Silent EXCEPT !.recover = answer]
    BY <1>3 DEF Answers
  <2>2. io = [authorized |-> FALSE, dispatch |-> None, written |-> 0, read |-> 0,
              recover |-> answer]
    BY <2>1 DEF Silent
  <2> QED
    BY <2>2, ExecutorAssumption DEF Answer
<1>4. CASE ~(ex.events # <<>> \/ ex.state = "Offline")
            /\ ex.state \notin {"Recovering", "ProtocolRecovery"}
  BY <1>4 DEF Answers, Answer
<1> QED
  BY <1>2, <1>3, <1>4

\* The executor after a poll, and whether its line may be dirty.
OwnerAfter(f, reject) == IF reject THEN ProtocolFailure(TakeEvent(f)) ELSE TakeEvent(f)

LineAfter(f, e, d, reject) ==
    IF f.generation # e.generation THEN FALSE
    ELSE IF Completes(f) THEN reject
    ELSE d

LEMMA PollSound ==
    ASSUME NEW f, NEW e, NEW k, NEW v, NEW q, NEW d \in BOOLEAN, NEW reject \in BOOLEAN,
           Result(f, e, k, v, q, d), reject => Completes(f)
    PROVE  LET g == OwnerAfter(f, reject)
           IN  /\ Sound(g, 0, k, v, q, LineAfter(f, e, d, reject))
               /\ g.next_transaction = e.next_transaction
               /\ \A i \in DOMAIN Received(f) : EventIsHonest(Received(f)[i], k, v, q)
               /\ Received(f) \in Seq(TransportEvent)
               /\ \A id : Held(e, id) = Held(g, id) + Cardinality(Ends(Received(f), id))
<1> DEFINE g == OwnerAfter(f, reject)
           dd == LineAfter(f, e, d, reject)
           t == TakeEvent(f)
           \* Before a rejection.
           c == IF f.generation # e.generation \/ Completes(f) THEN FALSE ELSE d
<1>1. Polled(f, e, k, v, q, c)
  BY DEF Result
<1>2. Completes(f) => f.generation = e.generation
  BY DEF Result
<1> HIDE DEF c
<1>3. /\ Sound(f, 1, k, v, q, c)
      /\ f.next_transaction = e.next_transaction
      /\ \A id : Held(f, id) = Held(e, id)
  BY <1>1 DEF Polled
<1>4. /\ Sound(t, 0, k, v, q, c)
      /\ t.next_transaction = f.next_transaction
      /\ \A id : Held(f, id) = Held(t, id) + Cardinality(Ends(Received(f), id))
      /\ Completes(f) => t.state = "Idle" /\ t.events = <<>>
  BY <1>3, TakeFacts
<1>5. /\ Received(f) \in Seq(TransportEvent)
      /\ \A i \in DOMAIN Received(f) : EventIsHonest(Received(f)[i], k, v, q)
  BY <1>3, ReceivedFacts DEF Sound, EventsAreHonest
<1> HIDE DEF t, g, dd
<1>6. CASE reject
  <2>1. g = ProtocolFailure(t) /\ dd = TRUE
    BY <1>2, <1>6 DEF t, g, dd, OwnerAfter, LineAfter
  <2>2. /\ Sound(g, 0, k, v, q, TRUE)
        /\ g.next_transaction = t.next_transaction
        /\ \A id : Held(g, id) = Held(t, id)
    BY <1>4, <1>6, <2>1, ProtocolFailureSound
  <2>3. /\ Sound(g, 0, k, v, q, dd)
        /\ g.next_transaction = e.next_transaction
        /\ \A id : Held(e, id) = Held(g, id) + Cardinality(Ends(Received(f), id))
    BY <1>3, <1>4, <2>1, <2>2
  <2> QED
    BY <1>5, <2>3 DEF g, dd
<1>7. CASE ~reject
  <2>1. g = t
    BY <1>7 DEF t, g, OwnerAfter
  <2>2. dd = c
    BY <1>7 DEF c, dd, LineAfter
  <2>3. /\ Sound(g, 0, k, v, q, dd)
        /\ g.next_transaction = e.next_transaction
        /\ \A id : Held(e, id) = Held(g, id) + Cardinality(Ends(Received(f), id))
    BY <1>3, <1>4, <2>1, <2>2
  <2> QED
    BY <1>5, <2>3 DEF g, dd
<1> QED
  BY <1>6, <1>7

LEMMA PollStep ==
    ASSUME IInv, NEW io \in Answers, NEW reject \in BOOLEAN, Poll(io, reject)
    PROVE  IInv'
<1> DEFINE f == PollState(ex, now, io)
           n == ex.next_transaction - 1
           tx == OfferedBy(ex, now)
           first == FirstByteOf(tx, io)
           d == DirtyAfter(dirty, tx, io)
<1>1. /\ now \in Nat /\ dirty \in BOOLEAN
      /\ Sound(ex, 0, admitted, wire, refused, dirty)
      /\ Settled(ex, admitted, wire, refused, settled, reported)
  BY DEF IInv
<1>2. /\ ex \in Executor
      /\ DOMAIN admitted = 1..n /\ DOMAIN wire = 1..n
  BY <1>1 DEF Sound, Histories
<1>3. /\ \A id : Held(ex, id) \in Nat
      /\ \A id \in DOMAIN admitted : Held(ex, id) <= 1
  <2>1. \A id : Held(ex, id) \in Nat
    BY <1>2, HeldCounts, HoldsType
  <2>2. \A id \in DOMAIN admitted : Held(ex, id) + settled[id] = 1 /\ settled[id] \in Nat
    BY <1>1, <1>2 DEF Settled
  <2> QED
    BY <2>1, <2>2
<1>4. PolledWith(f, ex, tx, io, admitted, wire, refused, dirty)
  BY <1>1, <1>3, AnswersType, PollStateWith
<1>5. Offered = tx /\ (FirstByte(io) <=> first)
  BY DEF Offered, OfferedBy, FirstByte, FirstByteOf
<1>6. /\ wire' = WireAfter(wire, tx, io)
      /\ refused' = RefusedAfter(refused, tx, io)
      /\ now' = now /\ admitted' = admitted
  BY <1>5 DEF Poll, WireAfter, RefusedAfter
<1> HIDE DEF f, tx
<1>7. /\ refused \subseteq refused'
      /\ \A id \in DOMAIN admitted : wire'[id] # wire[id] => Held(ex, id) >= 1
      /\ Result(f, ex, admitted, wire', refused', d)
  <2>1. DOMAIN wire = DOMAIN admitted /\ dirty \in BOOLEAN
    BY <1>1, <1>2
  <2> QED
    BY <1>4, <1>6, <2>1, PollHistories
<1>8. f \in Executor
  <2> HIDE DEF first, d
  <2> QED
    BY <1>7 DEF Result, Polled, Sound
<1>9. Completes(f) <=> Received(f) # <<>> /\ Received(f)[1].outcome = "Completed"
  BY <1>8, ReceivedFacts
<1> HIDE DEF first, d
<1>10. /\ reject => Completes(f)
       /\ ex' = OwnerAfter(f, reject)
       /\ settled' = SettledAfter(n, settled, Received(f))
       /\ reported' = ReportedAfter(n, reported, Received(f))
       /\ dirty' = LineAfter(f, ex, d, reject)
  <2>1. Received(f) = IF f.events = <<>> THEN <<>> ELSE <<Head(f.events)>>
    BY DEF Received
  <2>2. reject => Completes(f)
    BY <1>9, <2>1 DEF Poll, f
  <2>3. ex' = OwnerAfter(f, reject)
    BY DEF Poll, OwnerAfter, f
  <2>4. Deliver(Received(f))
    BY <2>1 DEF Poll, f
  <2>5. dirty' = (IF f.generation # ex.generation THEN FALSE
                  ELSE IF Received(f) # <<>> /\ Received(f)[1].outcome = "Completed" THEN reject
                  ELSE dirty \/ FirstByte(io))
    BY <2>1 DEF Poll, f
  <2>6. d \in BOOLEAN /\ (d <=> dirty \/ FirstByte(io))
    BY <1>5 DEF d, first, DirtyAfter
  <2> QED
    BY <1>9, <2>2, <2>3, <2>4, <2>5, <2>6 DEF Deliver, SettledAfter, ReportedAfter, LineAfter, Id, n
<1>11. d \in BOOLEAN
  BY DEF d, DirtyAfter
<1>12. /\ Sound(ex', 0, admitted, wire', refused', dirty')
       /\ ex'.next_transaction = ex.next_transaction
       /\ \A i \in DOMAIN Received(f) :
             EventIsHonest(Received(f)[i], admitted, wire', refused')
       /\ Received(f) \in Seq(TransportEvent)
       /\ \A id : Held(ex, id) = Held(ex', id) + Cardinality(Ends(Received(f), id))
  BY <1>7, <1>10, <1>11, PollSound
<1>13. ex' \in Executor
  BY <1>12 DEF Sound
<1>14. Settled(ex', admitted, wire', refused', settled', reported')
  BY <1>1, <1>2, <1>7, <1>10, <1>12, <1>13, DeliverSettled
<1>15. dirty' \in BOOLEAN
  BY <1>10, <1>11 DEF LineAfter
<1> QED
  BY <1>1, <1>6, <1>12, <1>14, <1>15, Stepped

-----------------------------------------------------------------------------
(* Admission.                                                              *)

\* A history `t` has one more entry than `s`.
OneMore(n, S, s, x, t) ==
    /\ t \in [1..(n + 1) -> S]
    /\ t[n + 1] = x
    /\ \A i \in 1..n : t[i] = s[i]

LEMMA AppendEntry ==
    ASSUME NEW n \in Nat, NEW S, NEW s \in [1..n -> S], NEW x \in S
    PROVE  OneMore(n, S, s, x, Append(s, x))
<1> DEFINE t == Append(s, x)
<1>1. s \in Seq(S)
  BY SeqDef
<1>2. Len(s) = n
  BY <1>1, LenProperties
<1>3. /\ t \in Seq(S)
      /\ Len(t) = n + 1
      /\ \A i \in 1..n : t[i] = s[i]
      /\ t[n + 1] = x
  BY <1>1, <1>2, AppendProperties
<1> HIDE DEF t
<1>4. t \in [1..(n + 1) -> S]
  BY <1>3, LenProperties
<1> QED
  BY <1>3, <1>4 DEF t, OneMore

\* The entries of what was admitted before stay as they are.
Extends(n, k, w, m, v) ==
    \A id \in 1..n : id \in DOMAIN m /\ m[id] = k[id] /\ v[id] = w[id]

LEMMA ExtendedFacts ==
    ASSUME NEW n, NEW k, NEW w, NEW r, NEW m, NEW v, DOMAIN k = 1..n,
           Extends(n, k, w, m, v)
    PROVE  /\ \A tx : Waiting(tx, k, w) => Waiting(tx, m, v)
           /\ \A e : Executing(e, k, w, r) => Executing(e, m, v, r)
           /\ \A event : EventIsHonest(event, k, w, r) => EventIsHonest(event, m, v, r)
  BY DEF Extends, Waiting, Executing, Admitted, EventIsHonest, IsOutput

LEMMA AdmitSound ==
    ASSUME NEW e, NEW k, NEW w, NEW r, NEW d, Sound(e, 0, k, w, r, d),
           NEW kind \in Kind, NEW f \in Executor,
           SameState(f, e), f.events = e.events, f.closed = e.closed,
           f.next_transaction = e.next_transaction + 1,
           e.state \in Unavailable => f.queue = e.queue,
           Len(f.queue) <= MaxQueued,
           Enqueued(f, Append(k, kind), Append(w, 0))
    PROVE  Sound(f, 0, Append(k, kind), Append(w, 0), r, d)
<1> DEFINE n == e.next_transaction - 1
           m == Append(k, kind)
           v == Append(w, 0)
<1>1. /\ e \in Executor
      /\ k \in [1..n -> Kind] /\ w \in [1..n -> Nat] /\ r \subseteq 1..n
      /\ \A id \in 1..n : w[id] <= Tries(k[id])
  BY DEF Sound, Histories
<1>2. n \in Nat /\ f.next_transaction - 1 = n + 1
  <2>1. e.next_transaction \in Nat \ {0}
    BY <1>1 DEF Executor
  <2> QED
    BY <2>1
<1> HIDE DEF n
<1>3. /\ m \in [1..(n + 1) -> Kind] /\ m[n + 1] = kind
      /\ \A id \in 1..n : m[id] = k[id]
  <2>1. OneMore(n, Kind, k, kind, m)
    BY <1>1, <1>2, AppendEntry
  <2> QED
    BY <2>1 DEF OneMore
<1>4. /\ v \in [1..(n + 1) -> Nat] /\ v[n + 1] = 0
      /\ \A id \in 1..n : v[id] = w[id]
  <2>1. 0 \in Nat
    OBVIOUS
  <2>2. OneMore(n, Nat, w, 0, v)
    BY <1>1, <1>2, <2>1, AppendEntry
  <2> QED
    BY <2>2 DEF OneMore
<1> HIDE DEF m, v
<1>5. Histories(f, m, v, r)
  <2>1. \A id \in 1..(n + 1) : id \in 1..n \/ id = n + 1
    BY <1>2
  <2>2. \A id \in DOMAIN m : v[id] <= Tries(m[id])
    BY <1>1, <1>3, <1>4, <2>1 DEF Tries
  <2>3. r \subseteq 1..(n + 1)
    BY <1>2, <1>1
  <2> QED
    BY <1>2, <1>1, <1>3, <1>4, <2>2, <2>3 DEF Histories
<1>6. Extends(n, k, w, m, v) /\ DOMAIN k = 1..n
  BY <1>2, <1>1, <1>3, <1>4 DEF Extends
<1>7. Owned(f, m, v, r)
  <2>1. Enqueued(f, m, v)
    BY DEF m, v
  <2>2. f.tx # None => Executing(f, m, v, r)
    <3>1. f.tx # None => Executing(e, m, v, r)
      BY <1>6, ExtendedFacts DEF Sound, Owned, SameState
    <3> QED
      BY <3>1 DEF Executing, SameState
  <2>3. f.state = "Active" /\ f.write_offset = 0 => Waiting(f.tx, m, v)
    BY <1>6, ExtendedFacts DEF Sound, Owned, SameState
  <2> QED
    BY <2>1, <2>2, <2>3 DEF Owned
<1>8. EventsAreHonest(f, m, v, r)
  <2>1. \A event : EventIsHonest(event, k, w, r) => EventIsHonest(event, m, v, r)
    BY <1>6, ExtendedFacts
  <2> QED
    BY <2>1 DEF Sound, EventsAreHonest
<1>9. Structure(f, 0) /\ Fresh(f, 0) /\ Guarded(f, d)
  BY DEF Sound, Structure, Fresh, Guarded, SameState
<1>10. Sound(f, 0, m, v, r, d)
  BY <1>5, <1>7, <1>8, <1>9 DEF Sound
<1> QED
  BY <1>10 DEF m, v

\* The executor holds only what was admitted.
LEMMA HeldAdmitted ==
    ASSUME NEW e, NEW slack, NEW k, NEW w, NEW r, NEW d, Sound(e, slack, k, w, r, d),
           NEW id, id \notin DOMAIN k
    PROVE  Held(e, id) = 0
<1>1. e \in Executor
  BY DEF Sound
<1>2. Count(e.queue, OfId(id)) = 0
  <2>1. \A i \in DOMAIN e.queue : e.queue[i] \notin OfId(id)
    BY DEF Sound, Owned, Enqueued, Waiting, Admitted, OfId
  <2>2. Hits(e.queue, OfId(id)) = {}
    BY <2>1 DEF Hits
  <2> QED
    BY <2>2, FS_EmptySet DEF Count
<1>3. Count(e.events, EndsOf(id)) = 0
  <2>1. \A i \in DOMAIN e.events : e.events[i] \notin EndsOf(id)
    BY DEF Sound, EventsAreHonest, EventIsHonest, EndsOf
  <2>2. Hits(e.events, EndsOf(id)) = {}
    BY <2>1 DEF Hits
  <2> QED
    BY <2>2, FS_EmptySet DEF Count
<1>4. Holds(e.safe_queue, id) = 0
  BY DEF Sound, Owned, Enqueued, Waiting, Admitted, Holds
<1>5. Holds(e.tx, id) = 0
  BY DEF Sound, Owned, Executing, Admitted, Holds
<1> QED
  BY <1>1, <1>2, <1>3, <1>4, <1>5, HeldCounts

LEMMA AdmitSettled ==
    ASSUME NEW e, NEW k, NEW w, NEW r, NEW d, Sound(e, 0, k, w, r, d),
           NEW sd, NEW rep, Settled(e, k, w, r, sd, rep),
           NEW kind \in Kind, NEW f \in Executor,
           f.next_transaction = e.next_transaction + 1,
           \A id : Held(f, id) = Held(e, id) + (IF id = e.next_transaction THEN 1 ELSE 0)
    PROVE  Settled(f, Append(k, kind), Append(w, 0), r, Append(sd, 0), Append(rep, None))
<1> DEFINE n == e.next_transaction - 1
           m == Append(k, kind)
           v == Append(w, 0)
           sdn == Append(sd, 0)
           repn == Append(rep, None)
           V == Verdict \cup {None}
           S == Nat
<1>1. /\ e \in Executor
      /\ k \in [1..n -> Kind] /\ w \in [1..n -> S] /\ r \subseteq 1..n
      /\ sd \in [1..n -> S] /\ rep \in [1..n -> V]
      /\ 0 \in S /\ None \in V
      /\ \A id \in 1..n :
            /\ Held(e, id) + sd[id] = 1
            /\ sd[id] = 0 => rep[id] = None
            /\ id \notin r /\ IsOutput(k, id) =>
                  /\ rep[id] \in {"Unsent", "QueueExpired"} => w[id] = 0
                  /\ rep[id] = "Sent" => w[id] = 1
  BY DEF Sound, Histories, Settled
<1>2. n \in Nat /\ f.next_transaction - 1 = n + 1 /\ e.next_transaction = n + 1
  <2>1. e.next_transaction \in Nat \ {0}
    BY <1>1 DEF Executor
  <2> QED
    BY <2>1
<1>3. Held(e, n + 1) = 0
  <2>1. n + 1 \notin DOMAIN k
    BY <1>1, <1>2
  <2> QED
    BY <2>1, HeldAdmitted
<1>4. \A id : Held(e, id) \in Nat
  BY <1>1, HeldCounts, HoldsType
<1>5. /\ m = Append(k, kind) /\ v = Append(w, 0)
      /\ sdn = Append(sd, 0) /\ repn = Append(rep, None)
  OBVIOUS
<1> HIDE DEF n, m, v, sdn, repn, S, V
<1>6. m \in [1..(n + 1) -> Kind] /\ \A id \in 1..n : m[id] = k[id]
  <2>1. n \in Nat /\ k \in [1..n -> Kind] /\ kind \in Kind /\ m = Append(k, kind)
    BY <1>1, <1>2, <1>5
  <2>2. OneMore(n, Kind, k, kind, m)
    BY <2>1, AppendEntry
  <2> QED
    BY <2>2 DEF OneMore
<1>7. v[n + 1] = 0 /\ \A id \in 1..n : v[id] = w[id]
  <2>1. n \in Nat /\ w \in [1..n -> S] /\ 0 \in S /\ v = Append(w, 0)
    BY <1>1, <1>2, <1>5
  <2>2. OneMore(n, S, w, 0, v)
    BY <2>1, AppendEntry
  <2> QED
    BY <2>2 DEF OneMore
<1>8. /\ sdn \in [1..(n + 1) -> S]
      /\ sdn[n + 1] = 0 /\ \A id \in 1..n : sdn[id] = sd[id]
  <2>1. n \in Nat /\ sd \in [1..n -> S] /\ 0 \in S /\ sdn = Append(sd, 0)
    BY <1>1, <1>2, <1>5
  <2>2. OneMore(n, S, sd, 0, sdn)
    BY <2>1, AppendEntry
  <2> QED
    BY <2>2 DEF OneMore
<1>9. /\ repn \in [1..(n + 1) -> V]
      /\ repn[n + 1] = None /\ \A id \in 1..n : repn[id] = rep[id]
  <2>1. n \in Nat /\ rep \in [1..n -> V] /\ None \in V /\ repn = Append(rep, None)
    BY <1>1, <1>2, <1>5
  <2>2. OneMore(n, V, rep, None, repn)
    BY <2>1, AppendEntry
  <2> QED
    BY <2>2 DEF OneMore
<1>10. ASSUME NEW id \in 1..(n + 1)
      PROVE  /\ Held(f, id) + sdn[id] = 1
             /\ sdn[id] = 0 => repn[id] = None
             /\ id \notin r /\ IsOutput(m, id) =>
                   /\ repn[id] \in {"Unsent", "QueueExpired"} => v[id] = 0
                   /\ repn[id] = "Sent" => v[id] = 1
  <2>1. CASE id = n + 1
    <3>1. Held(f, id) = 1 /\ sdn[id] = 0 /\ repn[id] = None
      BY <1>2, <1>3, <1>8, <1>9, <2>1
    <3>2. None \notin {"Unsent", "QueueExpired", "Sent"}
      BY NoneAssumption DEF Verdict
    <3> QED
      BY <3>1, <3>2
  <2>2. CASE id \in 1..n
    <3>1. Held(f, id) = Held(e, id)
      <4>1. id # n + 1
        BY <1>2, <2>2
      <4> QED
        BY <1>2, <1>4, <4>1
    <3>2. IsOutput(m, id) <=> IsOutput(k, id)
      BY <1>6, <2>2 DEF IsOutput
    <3> QED
      BY <1>1, <1>7, <1>8, <1>9, <2>2, <3>1, <3>2
  <2> QED
    BY <1>2, <2>1, <2>2
<1>11. Settled(f, m, v, r, sdn, repn)
  BY <1>2, <1>6, <1>8, <1>9, <1>10 DEF Settled, S, V
<1> QED
  BY <1>11 DEF m, v, sdn, repn

\* A new transaction waits.
IsNew(tx, e, kind) ==
    /\ tx \in QueuedTransaction
    /\ tx.id = e.next_transaction
    /\ tx.dispatch = None
    /\ tx.retries = 0
    /\ IsRead(tx) <=> kind \in {"read", "retryable"}
    /\ tx.retryable <=> kind = "retryable"

LEMMA NewWaits ==
    ASSUME NEW e, NEW k, NEW w, NEW r, NEW d, Sound(e, 0, k, w, r, d),
           NEW kind \in Kind, NEW tx, IsNew(tx, e, kind)
    PROVE  /\ Waiting(tx, Append(k, kind), Append(w, 0))
           /\ \A old : Waiting(old, k, w) => Waiting(old, Append(k, kind), Append(w, 0))
<1> DEFINE n == e.next_transaction - 1
           m == Append(k, kind)
           v == Append(w, 0)
<1>1. /\ e \in Executor
      /\ k \in [1..n -> Kind] /\ w \in [1..n -> Nat]
  BY DEF Sound, Histories
<1>2. n \in Nat /\ e.next_transaction = n + 1
  <2>1. e.next_transaction \in Nat \ {0}
    BY <1>1 DEF Executor
  <2> QED
    BY <2>1
<1> HIDE DEF n
<1>3. /\ m \in [1..(n + 1) -> Kind] /\ m[n + 1] = kind
      /\ \A id \in 1..n : m[id] = k[id]
  <2>1. OneMore(n, Kind, k, kind, m)
    BY <1>1, <1>2, AppendEntry
  <2> QED
    BY <2>1 DEF OneMore
<1>4. v[n + 1] = 0 /\ \A id \in 1..n : v[id] = w[id]
  <2>1. 0 \in Nat
    OBVIOUS
  <2>2. OneMore(n, Nat, w, 0, v)
    BY <1>1, <1>2, <2>1, AppendEntry
  <2> QED
    BY <2>2 DEF OneMore
<1> HIDE DEF m, v
<1>5. Waiting(tx, m, v)
  <2>1. tx.id = n + 1 /\ tx.id \in DOMAIN m
    BY <1>2, <1>3 DEF IsNew
  <2> QED
    BY <1>3, <1>4, <2>1 DEF IsNew, Waiting, Admitted
<1>6. \A old : Waiting(old, k, w) => Waiting(old, m, v)
  <2>1. Extends(n, k, w, m, v) /\ DOMAIN k = 1..n
    BY <1>1, <1>2, <1>3, <1>4 DEF Extends
  <2> QED
    BY <2>1, ExtendedFacts
<1> QED
  BY <1>5, <1>6 DEF m, v

\* The executor with a transaction more.
Queued(e, tx) ==
    [e EXCEPT !.queue = Append(@, tx), !.next_transaction = @ + 1]

LEMMA QueueSound ==
    ASSUME NEW e, NEW k, NEW w, NEW r, NEW d, Sound(e, 0, k, w, r, d),
           NEW kind \in Kind, NEW tx, IsNew(tx, e, kind),
           e.state \notin Unavailable, Len(e.queue) < MaxQueued
    PROVE  LET f == Queued(e, tx)
           IN  /\ f \in Executor
               /\ Sound(f, 0, Append(k, kind), Append(w, 0), r, d)
               /\ f.next_transaction = e.next_transaction + 1
               /\ \A id : Held(f, id) = Held(e, id)
                                        + (IF id = e.next_transaction THEN 1 ELSE 0)
<1> DEFINE f == Queued(e, tx)
           m == Append(k, kind)
           v == Append(w, 0)
<1>1. /\ e \in Executor /\ tx \in QueuedTransaction /\ tx.id = e.next_transaction
      /\ e.queue \in Seq(QueuedTransaction) /\ Len(e.queue) \in Nat
      /\ e.next_transaction \in Nat \ {0}
  BY LenProperties DEF Sound, Executor, IsNew
<1>2. /\ Append(e.queue, tx) \in Seq(QueuedTransaction)
      /\ Len(Append(e.queue, tx)) = Len(e.queue) + 1
      /\ \A i \in 1..Len(e.queue) : Append(e.queue, tx)[i] = e.queue[i]
      /\ Append(e.queue, tx)[Len(e.queue) + 1] = tx
  BY <1>1, AppendProperties
<1>3. e.next_transaction + 1 \in Nat \ {0}
  BY <1>1
<1>4. /\ f \in Executor
      /\ f.queue = Append(e.queue, tx) /\ f.safe_queue = e.safe_queue
      /\ f.events = e.events /\ f.closed = e.closed
      /\ SameState(f, e)
      /\ f.next_transaction = e.next_transaction + 1
  BY <1>1, <1>2, <1>3 DEF Queued, Executor, SameState
<1> HIDE DEF f, m, v
<1>5. Len(f.queue) <= MaxQueued
  BY <1>1, <1>2, <1>4, ExecutorAssumption
<1>6. Waiting(tx, m, v) /\ \A old : Waiting(old, k, w) => Waiting(old, m, v)
  BY NewWaits DEF m, v
<1>7. Enqueued(f, m, v)
  <2>1. \A i \in DOMAIN e.queue : Waiting(e.queue[i], m, v)
    BY <1>6 DEF Sound, Owned, Enqueued
  <2>2. DOMAIN e.queue = 1..Len(e.queue) /\ DOMAIN f.queue = 1..(Len(e.queue) + 1)
    BY <1>1, <1>2, <1>4, LenProperties
  <2>3. \A i \in DOMAIN f.queue : Waiting(f.queue[i], m, v)
    <3> TAKE i \in DOMAIN f.queue
    <3>1. i \in 1..Len(e.queue) \/ i = Len(e.queue) + 1
      BY <1>1, <2>2
    <3>2. CASE i \in 1..Len(e.queue)
      BY <1>2, <1>4, <2>1, <2>2, <3>2
    <3>3. CASE i = Len(e.queue) + 1
      BY <1>2, <1>4, <1>6, <3>3
    <3> QED
      BY <3>1, <3>2, <3>3
  <2>4. f.safe_queue # None => Waiting(f.safe_queue, m, v)
    BY <1>4, <1>6 DEF Sound, Owned, Enqueued
  <2> QED
    BY <2>3, <2>4 DEF Enqueued
<1>8. Sound(f, 0, m, v, r, d)
  BY <1>4, <1>5, <1>7, AdmitSound DEF m, v
<1>9. \A id : Held(f, id) = Held(e, id) + (IF id = e.next_transaction THEN 1 ELSE 0)
  <2> TAKE id
  <2>1. Count(f.queue, OfId(id)) = Count(e.queue, OfId(id)) + (IF tx \in OfId(id) THEN 1 ELSE 0)
    BY <1>1, <1>4, CountAppend
  <2>2. tx \in OfId(id) <=> id = e.next_transaction
    BY <1>1 DEF OfId
  <2>3. Holds(e.safe_queue, id) \in Nat /\ Holds(e.tx, id) \in Nat
    BY HoldsType
  <2>4. /\ Held(f, id) = Count(f.queue, OfId(id)) + Holds(e.safe_queue, id)
                         + Holds(e.tx, id) + Count(e.events, EndsOf(id))
        /\ Held(e, id) = Count(e.queue, OfId(id)) + Holds(e.safe_queue, id)
                         + Holds(e.tx, id) + Count(e.events, EndsOf(id))
        /\ Count(e.queue, OfId(id)) \in Nat
        /\ Count(e.events, EndsOf(id)) \in Nat
    BY <1>1, <1>4, HeldCounts DEF SameState
  <2> QED
    BY <2>1, <2>2, <2>3, <2>4
<1> QED
  BY <1>4, <1>8, <1>9 DEF f, m, v

Slotted(e, tx) ==
    [e EXCEPT !.safe_queue = tx, !.next_transaction = @ + 1]

LEMMA SafeSound ==
    ASSUME NEW e, NEW k, NEW w, NEW r, NEW d, Sound(e, 0, k, w, r, d),
           NEW kind \in Kind, NEW tx, IsNew(tx, e, kind), e.safe_queue = None
    PROVE  LET f == Slotted(e, tx)
           IN  /\ f \in Executor
               /\ Sound(f, 0, Append(k, kind), Append(w, 0), r, d)
               /\ f.next_transaction = e.next_transaction + 1
               /\ \A id : Held(f, id) = Held(e, id)
                                        + (IF id = e.next_transaction THEN 1 ELSE 0)
<1> DEFINE f == Slotted(e, tx)
           m == Append(k, kind)
           v == Append(w, 0)
<1>1. /\ e \in Executor /\ tx \in QueuedTransaction /\ tx.id = e.next_transaction
      /\ e.next_transaction \in Nat \ {0}
  BY DEF Sound, Executor, IsNew
<1>2. e.next_transaction + 1 \in Nat \ {0}
  BY <1>1
<1>3. /\ f \in Executor
      /\ f.queue = e.queue /\ f.safe_queue = tx
      /\ f.events = e.events /\ f.closed = e.closed
      /\ SameState(f, e)
      /\ f.next_transaction = e.next_transaction + 1
  BY <1>1, <1>2 DEF Slotted, Executor, SameState
<1> HIDE DEF f, m, v
<1>4. Waiting(tx, m, v) /\ \A old : Waiting(old, k, w) => Waiting(old, m, v)
  BY NewWaits DEF m, v
<1>5. Enqueued(f, m, v)
  BY <1>3, <1>4 DEF Sound, Owned, Enqueued
<1>6. Len(f.queue) <= MaxQueued
  BY <1>3 DEF Sound, Structure
<1>7. Sound(f, 0, m, v, r, d)
  BY <1>3, <1>5, <1>6, AdmitSound DEF m, v
<1>8. \A id : Held(f, id) = Held(e, id) + (IF id = e.next_transaction THEN 1 ELSE 0)
  <2> TAKE id
  <2>1. Holds(tx, id) = (IF id = e.next_transaction THEN 1 ELSE 0)
    BY <1>1, NoneAssumption DEF Holds
  <2>2. Holds(e.tx, id) \in Nat /\ Holds(e.safe_queue, id) = 0
    BY HoldsType
  <2>3. /\ Held(f, id) = Count(e.queue, OfId(id)) + Holds(tx, id)
                         + Holds(e.tx, id) + Count(e.events, EndsOf(id))
        /\ Held(e, id) = Count(e.queue, OfId(id)) + Holds(e.safe_queue, id)
                         + Holds(e.tx, id) + Count(e.events, EndsOf(id))
        /\ Count(e.queue, OfId(id)) \in Nat
        /\ Count(e.events, EndsOf(id)) \in Nat
    BY <1>1, <1>3, HeldCounts DEF SameState
  <2> QED
    BY <2>1, <2>2, <2>3
<1> QED
  BY <1>3, <1>7, <1>8 DEF f, m, v

LEMMA TransactionNew ==
    ASSUME NEW e \in Executor, NEW kind \in Kind, NEW intent \in OutputIntent \cup {None},
           NEW deadline \in Nat, NEW timeout \in Nat \ {0}, NEW retryable \in BOOLEAN,
           intent = None <=> kind \in {"read", "retryable"},
           retryable <=> kind = "retryable"
    PROVE  IsNew(Transaction(e, intent, deadline, timeout, retryable), e, kind)
<1>1. e.next_transaction \in Nat
  BY DEF Executor
<1> QED
  BY <1>1 DEF IsNew, Transaction, QueuedTransaction, IsRead

LEMMA AdmitStep ==
    ASSUME IInv, NEW kind \in Kind, NEW new, Admit(kind, new),
           new \in Executor,
           Sound(new, 0, Append(admitted, kind), Append(wire, 0), refused, dirty),
           new.next_transaction = ex.next_transaction + 1,
           \A id : Held(new, id) = Held(ex, id) + (IF id = ex.next_transaction THEN 1 ELSE 0)
    PROVE  IInv'
<1>1. /\ ex' = new
      /\ admitted' = Append(admitted, kind) /\ wire' = Append(wire, 0)
      /\ settled' = Append(settled, 0) /\ reported' = Append(reported, None)
      /\ now' = now /\ refused' = refused /\ dirty' = dirty
  BY DEF Admit
<1>2. Settled(new, Append(admitted, kind), Append(wire, 0), refused,
              Append(settled, 0), Append(reported, None))
  BY AdmitSettled DEF IInv
<1>3. now' \in Nat /\ dirty' \in BOOLEAN
  BY <1>1 DEF IInv
<1>4. Sound(ex', 0, admitted', wire', refused', dirty')
  BY <1>1
<1>5. Settled(ex', admitted', wire', refused', settled', reported')
  BY <1>1, <1>2
<1> QED
  BY <1>3, <1>4, <1>5, Stepped

LEMMA AdmitReadStep ==
    ASSUME IInv, NEW ttl \in Ttls, NEW timeout \in Timeouts, NEW retryable \in BOOLEAN,
           AdmitRead(ttl, timeout, retryable)
    PROVE  IInv'
<1> DEFINE kind == IF retryable THEN "retryable" ELSE "read"
           tx == Transaction(ex, None, now + ttl, timeout, retryable)
           new == EnqueueRead(ex, now + ttl, timeout, retryable)
<1>1. Sound(ex, 0, admitted, wire, refused, dirty) /\ ex \in Executor
  BY DEF IInv, Sound
<1>2. kind \in Kind /\ (retryable <=> kind = "retryable") /\ kind \in {"read", "retryable"}
  BY DEF Kind
<1>3. now + ttl \in Nat /\ timeout \in Nat \ {0}
  BY HorizonAssumption DEF IInv
<1>4. ex.state \notin Unavailable /\ Len(ex.queue) < MaxQueued
  BY DEF AdmitRead, EnqueueReadOk
<1>5. Admit(kind, new)
  BY DEF AdmitRead
<1> HIDE DEF kind
<1>6. IsNew(tx, ex, kind)
  BY <1>1, <1>2, <1>3, TransactionNew
<1>7. new = Queued(ex, tx)
  BY DEF EnqueueRead, Queued
<1> HIDE DEF tx, new
<1>8. /\ new \in Executor
      /\ Sound(new, 0, Append(admitted, kind), Append(wire, 0), refused, dirty)
      /\ new.next_transaction = ex.next_transaction + 1
      /\ \A id : Held(new, id) = Held(ex, id) + (IF id = ex.next_transaction THEN 1 ELSE 0)
  BY <1>1, <1>2, <1>4, <1>6, <1>7, QueueSound
<1> QED
  BY <1>2, <1>5, <1>8, AdmitStep

LEMMA AdmitOutputStep ==
    ASSUME IInv, NEW kind \in {"normal", "safe"}, NEW ttl \in Ttls, NEW timeout \in Timeouts,
           AdmitOutput(kind, ttl, timeout)
    PROVE  IInv'
<1> DEFINE intent == Intent(kind)
           tx == Transaction(ex, intent, now + ttl, timeout, FALSE)
           new == EnqueueOutput(ex, intent, now + ttl, timeout)
<1>1. Sound(ex, 0, admitted, wire, refused, dirty) /\ ex \in Executor
  BY DEF IInv, Sound
<1>2. kind \in Kind /\ kind \notin {"read", "retryable"}
  BY DEF Kind
<1>3. now + ttl \in Nat /\ timeout \in Nat \ {0}
  BY HorizonAssumption DEF IInv
<1>4. intent \in OutputIntent /\ intent # None
  <2> DEFINE safe == kind = "safe"
  <2>1. safe \in BOOLEAN /\ intent = [safe |-> safe]
    BY DEF Intent
  <2> HIDE DEF safe
  <2> QED
    BY <2>1, NoneAssumption DEF OutputIntent
<1>5. IF intent.safe THEN ex.safe_queue = None
      ELSE ex.state \notin Unavailable /\ Len(ex.queue) < MaxQueued
  BY DEF AdmitOutput, EnqueueOutputOk
<1>6. Admit(kind, new)
  BY DEF AdmitOutput
<1> HIDE DEF intent
<1>7. IsNew(tx, ex, kind)
  BY <1>1, <1>2, <1>3, <1>4, TransactionNew
<1>8. new = IF intent.safe THEN Slotted(ex, tx) ELSE Queued(ex, tx)
  BY DEF EnqueueOutput, Slotted, Queued
<1> HIDE DEF tx, new
<1>9. /\ new \in Executor
      /\ Sound(new, 0, Append(admitted, kind), Append(wire, 0), refused, dirty)
      /\ new.next_transaction = ex.next_transaction + 1
      /\ \A id : Held(new, id) = Held(ex, id) + (IF id = ex.next_transaction THEN 1 ELSE 0)
  <2>1. CASE intent.safe
    BY <1>1, <1>2, <1>5, <1>7, <1>8, <2>1, SafeSound
  <2>2. CASE ~intent.safe
    BY <1>1, <1>2, <1>5, <1>7, <1>8, <2>2, QueueSound
  <2> QED
    BY <2>1, <2>2
<1> QED
  BY <1>2, <1>6, <1>9, AdmitStep

-----------------------------------------------------------------------------
(* Cancellation.                                                           *)

\* The executor with queues that hold no more than before.
LEMMA LessSound ==
    ASSUME NEW e, NEW k, NEW w, NEW r, NEW d, Sound(e, 0, k, w, r, d), NEW g \in Executor,
           SameState(g, e), SameIdentity(g, e), g.events = e.events,
           g.queue = e.queue \/ e.state \notin Unavailable, Len(g.queue) <= MaxQueued,
           Enqueued(g, k, w)
    PROVE  Sound(g, 0, k, w, r, d)
<1>1. Structure(g, 0)
  BY DEF Sound, Structure, SameState, SameIdentity
<1>2. Owned(g, k, w, r)
  BY DEF Sound, Owned, Executing, SameState
<1>3. Histories(g, k, w, r) /\ Fresh(g, 0) /\ EventsAreHonest(g, k, w, r) /\ Guarded(g, d)
  BY DEF Sound, Histories, Fresh, EventsAreHonest, Guarded, SameState, SameIdentity
<1> QED
  BY <1>1, <1>2, <1>3 DEF Sound

\* What is withdrawn had not begun.
LEMMA CancelFacts ==
    ASSUME NEW e, NEW k, NEW w, NEW r, NEW d, Sound(e, 0, k, w, r, d), NEW id,
           CancelOk(e, id)
    PROVE  LET g == CancelQueuedOutput(e, id)
           IN  /\ g \in Executor
               /\ Sound(g, 0, k, w, r, d)
               /\ g.next_transaction = e.next_transaction
               /\ \A x : Held(e, x) = Held(g, x) + (IF x = id THEN 1 ELSE 0)
               /\ IsOutput(k, id) => w[id] = 0
<1> DEFINE g == CancelQueuedOutput(e, id)
<1>1. /\ e \in Executor
      /\ e.queue \in Seq(QueuedTransaction) /\ Len(e.queue) \in Nat
      /\ DOMAIN e.queue = 1..Len(e.queue)
      /\ Len(e.queue) <= MaxQueued
  BY LenProperties DEF Sound, Structure, Executor
<1>2. History(e.next_transaction - 1, k, w, r)
  BY <1>1 DEF Sound, Histories, History, Executor
<1>3. Enqueued(e, k, w)
  BY DEF Sound, Owned
<1>4. \A x : Holds(e.safe_queue, x) \in Nat /\ Holds(e.tx, x) \in Nat
  BY HoldsType
<1>5. CASE e.safe_queue # None /\ e.safe_queue.id = id
  <2>1. g = [e EXCEPT !.safe_queue = None]
    BY <1>5 DEF CancelQueuedOutput
  <2>2. /\ g \in Executor
        /\ g.queue = e.queue /\ g.safe_queue = None
        /\ g.events = e.events
        /\ SameState(g, e) /\ SameIdentity(g, e)
    BY <1>1, <2>1 DEF Executor, SameState, SameIdentity
  <2> HIDE DEF g
  <2>3. Enqueued(g, k, w)
    BY <1>3, <2>2 DEF Enqueued
  <2>4. Sound(g, 0, k, w, r, d)
    BY <1>1, <2>2, <2>3, LessSound
  <2>5. \A x : Held(e, x) = Held(g, x) + (IF x = id THEN 1 ELSE 0)
    <3> TAKE x
    <3>1. Holds(e.safe_queue, x) = (IF x = id THEN 1 ELSE 0) /\ Holds(None, x) = 0
      BY <1>5 DEF Holds
    <3>2. /\ Held(g, x) = Count(e.queue, OfId(x)) + Holds(None, x)
                          + Holds(e.tx, x) + Count(e.events, EndsOf(x))
          /\ Held(e, x) = Count(e.queue, OfId(x)) + Holds(e.safe_queue, x)
                          + Holds(e.tx, x) + Count(e.events, EndsOf(x))
          /\ Count(e.queue, OfId(x)) \in Nat
          /\ Count(e.events, EndsOf(x)) \in Nat
      BY <1>1, <2>2, HeldCounts DEF SameState
    <3> QED
      BY <1>4, <3>1, <3>2
  <2>6. e.safe_queue \in QueuedTransaction /\ Waiting(e.safe_queue, k, w)
    BY <1>1, <1>3, <1>5 DEF Executor, Enqueued
  <2>7. IsOutput(k, id) => w[id] = 0
    BY <1>2, <1>5, <2>6, WaitingEnd
  <2> QED
    BY <2>2, <2>4, <2>5, <2>7 DEF g, SameIdentity
<1>6. CASE ~(e.safe_queue # None /\ e.safe_queue.id = id)
  <2> DEFINE i == CHOOSE j \in DOMAIN e.queue : e.queue[j].id = id
             t == Without(e.queue, i)
  <2>1. i \in 1..Len(e.queue) /\ e.queue[i].id = id
    BY <1>1, <1>6 DEF CancelOk
  <2>2. g = [e EXCEPT !.queue = t]
    BY <1>6 DEF CancelQueuedOutput, Without
  <2> HIDE DEF i, g
  <2>3. \A x : /\ t \in Seq(QueuedTransaction)
               /\ Len(t) = Len(e.queue) - 1
               /\ \A j \in DOMAIN t : \E l \in DOMAIN e.queue : t[j] = e.queue[l]
               /\ Count(e.queue, OfId(x))
                    = Count(t, OfId(x)) + (IF e.queue[i] \in OfId(x) THEN 1 ELSE 0)
    <3> TAKE x
    <3> DEFINE A == OfId(x)
    <3>1. e.queue \in Seq(QueuedTransaction) /\ i \in 1..Len(e.queue)
      BY <1>1, <2>1
    <3> HIDE DEF A
    <3>2. /\ t \in Seq(QueuedTransaction)
          /\ Len(t) = Len(e.queue) - 1
          /\ \A j \in DOMAIN t : \E l \in DOMAIN e.queue : t[j] = e.queue[l]
          /\ Count(e.queue, A) = Count(t, A) + (IF e.queue[i] \in A THEN 1 ELSE 0)
      BY <3>1, CountRemove
    <3> QED
      BY <3>2 DEF A
  <2> HIDE DEF t
  <2>4. /\ g \in Executor
        /\ g.queue = t /\ g.safe_queue = e.safe_queue
        /\ g.events = e.events
        /\ SameState(g, e) /\ SameIdentity(g, e)
    BY <1>1, <2>2, <2>3 DEF Executor, SameState, SameIdentity
  <2>5. Enqueued(g, k, w)
    BY <1>3, <2>3, <2>4 DEF Enqueued
  <2>6. e.state \notin Unavailable
    BY <1>1, <2>1 DEF Sound, Structure
  <2>7. Len(g.queue) <= MaxQueued
    BY <1>1, <2>3, <2>4, ExecutorAssumption
  <2>8. Sound(g, 0, k, w, r, d)
    BY <2>4, <2>5, <2>6, <2>7, LessSound
  <2>9. e.queue[i] \in QueuedTransaction /\ Waiting(e.queue[i], k, w)
    BY <1>1, <1>3, <2>1, ElementOfSeq DEF Enqueued
  <2>10. IsOutput(k, id) => w[id] = 0
    BY <1>2, <2>1, <2>9, WaitingEnd
  <2>11. \A x : Held(e, x) = Held(g, x) + (IF x = id THEN 1 ELSE 0)
    <3> TAKE x
    <3>1. e.queue[i] \in OfId(x) <=> x = id
      BY <2>1, <2>9 DEF OfId
    <3>2. /\ Held(g, x) = Count(t, OfId(x)) + Holds(e.safe_queue, x)
                          + Holds(e.tx, x) + Count(e.events, EndsOf(x))
          /\ Held(e, x) = Count(e.queue, OfId(x)) + Holds(e.safe_queue, x)
                          + Holds(e.tx, x) + Count(e.events, EndsOf(x))
          /\ Count(t, OfId(x)) \in Nat
          /\ Count(e.events, EndsOf(x)) \in Nat
      BY <1>1, <2>4, HeldCounts DEF SameState
    <3>3. Count(e.queue, OfId(x)) = Count(t, OfId(x)) + (IF x = id THEN 1 ELSE 0)
      BY <2>3, <3>1
    <3> QED
      BY <1>4, <3>2, <3>3
  <2> QED
    BY <2>4, <2>8, <2>10, <2>11 DEF g, SameIdentity
<1> QED
  BY <1>5, <1>6

LEMMA CancelStep ==
    ASSUME IInv, NEW id \in Id, CancelOutput(id)
    PROVE  IInv'
<1> DEFINE n == ex.next_transaction - 1
<1>1. /\ Sound(ex, 0, admitted, wire, refused, dirty) /\ ex \in Executor
      /\ DOMAIN admitted = 1..n
  BY DEF IInv, Sound, Histories
<1>2. /\ settled \in [1..n -> Nat]
      /\ reported \in [1..n -> Verdict \cup {None}]
      /\ \A x \in 1..n :
            /\ Held(ex, x) + settled[x] = 1
            /\ settled[x] = 0 => reported[x] = None
            /\ x \notin refused /\ IsOutput(admitted, x) =>
                  /\ reported[x] \in {"Unsent", "QueueExpired"} => wire[x] = 0
                  /\ reported[x] = "Sent" => wire[x] = 1
  BY <1>1 DEF IInv, Settled
<1>3. /\ CancelOk(ex, id) /\ IsOutput(admitted, id) /\ id \in 1..n
      /\ ex' = CancelQueuedOutput(ex, id)
      /\ settled' = [settled EXCEPT ![id] = @ + 1]
      /\ reported' = [reported EXCEPT ![id] = "Unsent"]
      /\ now' = now /\ admitted' = admitted /\ wire' = wire
      /\ refused' = refused /\ dirty' = dirty
  BY DEF CancelOutput, IsOutput, Id
<1>4. /\ ex' \in Executor
      /\ Sound(ex', 0, admitted, wire, refused, dirty)
      /\ ex'.next_transaction = ex.next_transaction
      /\ \A x : Held(ex, x) = Held(ex', x) + (IF x = id THEN 1 ELSE 0)
      /\ wire[id] = 0
  BY <1>1, <1>3, CancelFacts
<1>5. \A x : Held(ex', x) \in Nat
  BY <1>4, HeldCounts, HoldsType
<1>6. ASSUME NEW x \in 1..n
      PROVE  /\ Held(ex', x) + settled'[x] = 1
             /\ settled'[x] = 0 => reported'[x] = None
             /\ x \notin refused /\ IsOutput(admitted, x) =>
                   /\ reported'[x] \in {"Unsent", "QueueExpired"} => wire[x] = 0
                   /\ reported'[x] = "Sent" => wire[x] = 1
  <2>1. CASE x = id
    <3>1. settled'[x] = settled[x] + 1 /\ reported'[x] = "Unsent"
      BY <1>2, <1>3, <2>1
    <3>2. Held(ex, x) = Held(ex', x) + 1 /\ settled[x] \in Nat
      BY <1>2, <1>4, <2>1
    <3> QED
      BY <1>2, <1>4, <1>5, <2>1, <3>1, <3>2
  <2>2. CASE x # id
    <3>1. settled'[x] = settled[x] /\ reported'[x] = reported[x]
      BY <1>2, <1>3, <2>2
    <3>2. Held(ex, x) = Held(ex', x)
      BY <1>4, <1>5, <2>2
    <3> QED
      BY <1>2, <3>1, <3>2
  <2> QED
    BY <2>1, <2>2
<1>7. settled' \in [1..n -> Nat] /\ reported' \in [1..n -> Verdict \cup {None}]
  BY <1>2, <1>3 DEF Verdict
<1>8. Settled(ex', admitted, wire, refused, settled', reported')
  BY <1>1, <1>4, <1>6, <1>7 DEF Settled
<1>9. now' \in Nat /\ dirty' \in BOOLEAN
  BY <1>3 DEF IInv
<1> QED
  BY <1>3, <1>4, <1>8, <1>9, Stepped

-----------------------------------------------------------------------------
(* Retirement.                                                             *)

LEMMA FenceSafeFacts ==
    ASSUME NEW e \in Executor
    PROVE  LET f == FenceSafeQueue(e)
           IN  /\ f \in Executor
               /\ f.queue = e.queue /\ f.safe_queue = None
               /\ f.events = (IF e.safe_queue = None THEN e.events
                              ELSE Append(e.events, Fenced(e.safe_queue)))
               /\ SameState(f, e) /\ SameIdentity(f, e)
               /\ \A id : Held(f, id) = Held(e, id)
<1> DEFINE f == FenceSafeQueue(e)
<1>1. CASE e.safe_queue = None
  <2>1. f = e
    BY <1>1 DEF FenceSafeQueue
  <2> QED
    BY <1>1, <2>1 DEF SameState, SameIdentity
<1>2. CASE e.safe_queue # None
  <2> DEFINE event == Fenced(e.safe_queue)
             h == Emit(e, event)
  <2>1. e.safe_queue \in QueuedTransaction
    BY <1>2 DEF Executor
  <2>2. event \in TransportEvent /\ event.id = e.safe_queue.id /\ IsTerminal(event)
    BY <2>1, FencedType
  <2> HIDE DEF event
  <2>3. /\ h \in Executor
        /\ h.queue = e.queue /\ h.safe_queue = e.safe_queue
        /\ h.events = Append(e.events, event)
        /\ SameState(h, e) /\ SameIdentity(h, e)
    BY <2>2, EmitFields DEF SameQueues
  <2>4. \A id : Held(h, id) = Held(e, id) + (IF event \in EndsOf(id) THEN 1 ELSE 0)
    BY <2>2, EmitHeld
  <2>5. f = [h EXCEPT !.safe_queue = None]
    BY <1>2 DEF FenceSafeQueue, event
  <2> HIDE DEF h, f
  <2>6. /\ f \in Executor
        /\ f.queue = h.queue /\ f.safe_queue = None /\ f.events = h.events
        /\ SameState(f, h) /\ SameIdentity(f, h)
    BY <2>3, <2>5 DEF Executor, SameState, SameIdentity
  <2>7. \A id : Held(f, id) = Held(e, id)
    <3> TAKE id
    <3>1. event \in EndsOf(id) <=> e.safe_queue.id = id
      BY <2>2 DEF EndsOf
    <3>2. Holds(h.safe_queue, id) = (IF e.safe_queue.id = id THEN 1 ELSE 0)
      BY <1>2, <2>3 DEF Holds
    <3>3. Holds(None, id) = 0 /\ Holds(h.tx, id) \in Nat
      BY HoldsType
    <3>4. /\ Held(f, id) = Count(h.queue, OfId(id)) + Holds(None, id)
                           + Holds(h.tx, id) + Count(h.events, EndsOf(id))
          /\ Held(h, id) = Count(h.queue, OfId(id)) + Holds(h.safe_queue, id)
                           + Holds(h.tx, id) + Count(h.events, EndsOf(id))
          /\ Count(h.queue, OfId(id)) \in Nat
          /\ Count(h.events, EndsOf(id)) \in Nat
      BY <2>3, <2>6, HeldCounts DEF SameState
    <3>5. Held(e, id) \in Nat
      BY HeldCounts, HoldsType
    <3>6. Held(h, id) = Held(e, id) + Holds(h.safe_queue, id)
      BY <2>4, <3>1, <3>2
    <3>7. Held(h, id) = Held(f, id) + Holds(h.safe_queue, id)
      BY <3>2, <3>3, <3>4
    <3>8. Held(f, id) \in Nat /\ Holds(h.safe_queue, id) \in Nat
      BY <2>6, HeldCounts, HoldsType
    <3> QED
      BY <3>5, <3>6, <3>7, <3>8
  <2> QED
    BY <1>2, <2>3, <2>6, <2>7 DEF f, event, SameState, SameIdentity
<1> QED
  BY <1>1, <1>2

\* Where `e` is retired, `t` is left with the events to deliver.
Retired(t, e, k, w, r) ==
    /\ t \in Executor
    /\ t.state = "Offline" /\ t.tx = None /\ t.write_offset = 0 /\ t.response = 0
    /\ t.queue = <<>> /\ t.safe_queue = None
    /\ t.next_transaction = e.next_transaction
    /\ Quiet(t.events, k, w, r)
    /\ Len(t.events) <= MaxQueued + 2
    /\ \A id : Held(t, id) = Held(e, id)

\* The fence of both queues.
LEMMA FencedQueues ==
    ASSUME NEW e, NEW k, NEW w, NEW r, NEW d, Sound(e, 0, k, w, r, d)
    PROVE  LET f == FenceSafeQueue(FenceOrdinaryQueue(e))
           IN  /\ f \in Executor
               /\ f.queue = <<>> /\ f.safe_queue = None
               /\ SameState(f, e) /\ SameIdentity(f, e)
               /\ Quiet(f.events, k, w, r)
               /\ Len(f.events) <= MaxQueued + 1
               /\ \A id : Held(f, id) = Held(e, id)
<1> DEFINE h == FenceOrdinaryQueue(e)
           f == FenceSafeQueue(h)
<1>1. /\ e \in Executor
      /\ e.queue \in Seq(QueuedTransaction) /\ Len(e.queue) \in Nat
      /\ e.events \in Seq(TransportEvent) /\ Len(e.events) \in Nat
      /\ Len(e.queue) <= MaxQueued /\ Len(e.events) <= MaxQueued
      /\ MaxQueued \in Nat
  <2>1. e \in Executor /\ Len(e.queue) <= MaxQueued /\ Len(e.events) <= MaxQueued + 0
    BY DEF Sound, Structure
  <2>2. MaxQueued \in Nat
    BY ExecutorAssumption
  <2> QED
    BY <2>1, <2>2, LenProperties DEF Executor
<1>2. History(e.next_transaction - 1, k, w, r)
  BY <1>1 DEF Sound, Histories, History, Executor
<1>3. e.queue = <<>> \/ Len(e.events) = 0
  <2>1. e.state \in Unavailable => e.queue = <<>>
    BY DEF Sound, Structure
  <2>2. e.state \notin Unavailable => Len(e.events) <= 0
    BY <1>1 DEF Sound, Structure, Executor
  <2> QED
    BY <1>1, <2>1, <2>2
<1>4. Quiet(e.events, k, w, r)
  BY DEF Sound, Fresh, EventsAreHonest, Quiet
<1>5. Quiet(Fences(e.queue), k, w, r)
  <2>1. \A i \in DOMAIN e.queue : Waiting(e.queue[i], k, w)
    BY DEF Sound, Owned, Enqueued
  <2> QED
    BY <1>1, <1>2, <2>1, QuietFences
<1>6. Fences(e.queue) \in Seq(TransportEvent) /\ Len(Fences(e.queue)) = Len(e.queue)
  BY <1>1, FencesType
<1>7. /\ h \in Executor
      /\ h.queue = <<>> /\ h.safe_queue = e.safe_queue
      /\ h.events = e.events \o Fences(e.queue)
      /\ SameState(h, e) /\ SameIdentity(h, e)
      /\ \A id : Held(h, id) = Held(e, id)
  BY <1>1, FenceFields, FenceHeld
<1> HIDE DEF h
<1>8. /\ Quiet(h.events, k, w, r)
      /\ h.events \in Seq(TransportEvent)
      /\ Len(h.events) \in Nat /\ Len(h.events) <= MaxQueued
  <2>1. Quiet(e.events \o Fences(e.queue), k, w, r)
    BY <1>1, <1>4, <1>5, <1>6, QuietConcat
  <2> DEFINE q == Fences(e.queue)
             s == e.events
  <2>2. s \in Seq(TransportEvent) /\ q \in Seq(TransportEvent) /\ Len(q) = Len(e.queue)
    BY <1>1, <1>6
  <2>3. h.events = s \o q
    BY <1>7
  <2>4. Quiet(h.events, k, w, r)
    BY <1>7, <2>1
  <2>5. e.queue = <<>> => Len(e.queue) = 0
    OBVIOUS
  <2>6. Len(s) = Len(e.events)
    OBVIOUS
  <2> HIDE DEF s, q
  <2>7. s \o q \in Seq(TransportEvent) /\ Len(s \o q) = Len(s) + Len(q)
    BY <2>2, ConcatProperties
  <2>8. Len(h.events) = Len(e.events) + Len(e.queue)
    BY <2>2, <2>3, <2>6, <2>7
  <2> HIDE DEF h
  <2>9. Len(h.events) \in Nat /\ Len(h.events) <= MaxQueued
    <3> DEFINE a == Len(e.events)
               b == Len(e.queue)
    <3>1. a \in Nat /\ b \in Nat /\ a <= MaxQueued /\ b <= MaxQueued /\ (a = 0 \/ b = 0)
      BY <1>1, <1>3, <2>5
    <3> HIDE DEF a, b
    <3>2. a + b \in Nat /\ a + b <= MaxQueued
      BY <1>1, <3>1
    <3> QED
      BY <2>8, <3>2 DEF a, b
  <2>10. h.events \in Seq(TransportEvent)
    BY <2>3, <2>7
  <2> QED
    BY <2>4, <2>9, <2>10
<1>9. /\ f \in Executor
      /\ f.queue = h.queue /\ f.safe_queue = None
      /\ f.events = (IF h.safe_queue = None THEN h.events
                     ELSE Append(h.events, Fenced(h.safe_queue)))
      /\ SameState(f, h) /\ SameIdentity(f, h)
      /\ \A id : Held(f, id) = Held(h, id)
  BY <1>7, FenceSafeFacts
<1> HIDE DEF f
<1>10. Quiet(f.events, k, w, r) /\ Len(f.events) <= MaxQueued + 1
  <2>1. CASE h.safe_queue = None
    BY <1>1, <1>8, <1>9, <2>1
  <2>2. CASE h.safe_queue # None
    <3>1. h.safe_queue \in QueuedTransaction /\ Waiting(h.safe_queue, k, w)
      BY <1>1, <1>7, <2>2 DEF Executor, Sound, Owned, Enqueued
    <3>2. EventIsHonest(Fenced(h.safe_queue), k, w, r)
      BY <1>2, <3>1, WaitingEnd
    <3>3. /\ Fenced(h.safe_queue) \in TransportEvent
          /\ Fenced(h.safe_queue).outcome # "Completed"
      BY <3>1, FencedType, NoneAssumption DEF TransactionOutcome
    <3>4. f.events = Append(h.events, Fenced(h.safe_queue))
      BY <1>9, <2>2
    <3>5. Quiet(f.events, k, w, r)
      BY <1>8, <3>2, <3>3, <3>4, QuietAppend
    <3>6. Len(f.events) = Len(h.events) + 1
      BY <1>8, <3>3, <3>4, AppendProperties
    <3> QED
      BY <1>1, <1>8, <3>5, <3>6
  <2> QED
    BY <2>1, <2>2
<1> QED
  BY <1>7, <1>9, <1>10 DEF f, h, SameState, SameIdentity

LEMMA RetiredFacts ==
    ASSUME NEW e, NEW k, NEW w, NEW r, NEW d, Sound(e, 0, k, w, r, d),
           NEW complete \in BOOLEAN
    PROVE  Retired(TryShutdown(e, complete), e, k, w, r)
<1> DEFINE f == FenceSafeQueue(FenceOrdinaryQueue(e))
           started == f.write_offset > 0
           finished == Finish(f, f.tx, "Failed", started)
           ended == IF f.tx = None THEN f ELSE finished
           vacant == Vacate(ended, "Offline")
           t == TryShutdown(e, complete)
<1>1. /\ f \in Executor
      /\ f.queue = <<>> /\ f.safe_queue = None
      /\ SameState(f, e) /\ SameIdentity(f, e)
      /\ Quiet(f.events, k, w, r)
      /\ Len(f.events) <= MaxQueued + 1
      /\ \A id : Held(f, id) = Held(e, id)
  BY FencedQueues
<1>2. t = IF e.closed THEN f ELSE [vacant EXCEPT !.closed = complete]
  BY DEF TryShutdown
<1>3. started \in BOOLEAN /\ MaxQueued \in Nat
  BY ExecutorAssumption
<1>4. f.events \in Seq(TransportEvent) /\ Len(f.events) \in Nat
  BY <1>1, LenProperties DEF Executor
<1> HIDE DEF f
<1>5. CASE e.closed
  <2>1. t = f /\ f.state = "Offline"
    BY <1>1, <1>2, <1>5 DEF Sound, Structure, SameState
  <2>2. f.tx = None /\ f.write_offset = 0 /\ f.response = 0
    BY <1>1, <2>1 DEF Sound, Structure, SameState
  <2> HIDE DEF t
  <2>3. Len(t.events) <= MaxQueued + 2
    BY <1>1, <1>3, <1>4, <2>1
  <2>4. Retired(t, e, k, w, r)
    BY <1>1, <2>1, <2>2, <2>3 DEF Retired, SameIdentity
  <2> QED
    BY <2>4 DEF t
<1>6. CASE ~e.closed
  <2>1. /\ ended \in Executor
        /\ SameQueues(ended, f) /\ SameState(ended, f) /\ SameIdentity(ended, f)
        /\ Quiet(ended.events, k, w, r)
        /\ Len(ended.events) <= MaxQueued + 2
        /\ \A id : Held(ended, id) = Held(f, id) + Holds(f.tx, id)
    <3>1. CASE f.tx = None
      <4>1. ended = f
        BY <3>1
      <4>2. \A id : Held(f, id) \in Nat /\ Holds(f.tx, id) = 0
        BY <1>1, <3>1, HeldCounts, HoldsType
      <4> HIDE DEF ended
      <4>3. Len(ended.events) <= MaxQueued + 2
        BY <1>1, <1>3, <1>4, <4>1
      <4> QED
        BY <1>1, <4>1, <4>2, <4>3 DEF SameQueues, SameState, SameIdentity
    <3>2. CASE f.tx # None
      <4> DEFINE event == Event(TerminalType(f.tx), f.tx, "Failed", started)
      <4>1. ended = finished
        BY <3>2
      <4>2. f.tx \in QueuedTransaction
        BY <1>1, <3>2 DEF Executor
      <4>3. TerminalType(f.tx) \in TransactionEvents /\ "Failed" \in TransactionOutcome
        BY DEF TerminalType, TransactionEvents, TransactionOutcome
      <4> HIDE DEF started
      <4>4. event \in TransportEvent /\ event.outcome = "Failed"
        BY <1>3, <4>2, <4>3, EventType
      <4>5. /\ finished \in Executor
            /\ finished.events = Append(f.events, event)
            /\ SameQueues(finished, f) /\ SameState(finished, f) /\ SameIdentity(finished, f)
        BY <1>1, <1>3, <4>2, <4>3, FinishFields
      <4>6. \A id : Held(finished, id) = Held(f, id) + Holds(f.tx, id)
        BY <1>1, <1>3, <4>2, <4>3, FinishHeld
      <4>7. EventIsHonest(event, k, w, r)
        <5>1. e.tx = f.tx /\ e.write_offset = f.write_offset /\ e \in Executor
          BY <1>1 DEF SameState, Sound
        <5>2. Executing(e, k, w, r)
          BY <3>2, <5>1 DEF Sound, Owned
        <5>3. History(e.next_transaction - 1, k, w, r)
          BY <5>1 DEF Sound, Histories, History, Executor
        <5>4. EventIsHonest(Event(TerminalType(e.tx), e.tx, "Failed", e.write_offset > 0),
                            k, w, r)
          BY <4>2, <5>1, <5>2, <5>3, ExecutingEnd
        <5> QED
          BY <5>1, <5>4 DEF started
      <4> HIDE DEF event, finished, ended
      <4>8. Quiet(ended.events, k, w, r)
        BY <1>1, <1>4, <4>1, <4>4, <4>5, <4>7, QuietAppend
      <4>9. Len(ended.events) = Len(f.events) + 1
        BY <1>4, <4>1, <4>4, <4>5, AppendProperties
      <4> QED
        BY <1>1, <1>3, <1>4, <4>1, <4>5, <4>6, <4>8, <4>9
    <3> QED
      BY <3>1, <3>2
  <2> HIDE DEF ended, started
  <2>2. /\ vacant \in Executor
        /\ vacant.state = "Offline" /\ vacant.tx = None
        /\ vacant.write_offset = 0 /\ vacant.response = 0
        /\ vacant.events = ended.events
        /\ SameQueues(vacant, ended) /\ SameIdentity(vacant, ended)
    BY <2>1, VacateFields
  <2>3. \A id : Held(vacant, id) = Held(ended, id) - Holds(ended.tx, id)
    BY <2>1, VacateHeld
  <2>4. t = [vacant EXCEPT !.closed = complete]
    BY <1>2, <1>6
  <2> HIDE DEF vacant, t
  <2>5. /\ t \in Executor
        /\ t.state = vacant.state /\ t.tx = vacant.tx
        /\ t.write_offset = vacant.write_offset /\ t.response = vacant.response
        /\ t.events = vacant.events /\ SameQueues(t, vacant)
        /\ t.next_transaction = vacant.next_transaction
    BY <2>2, <2>4 DEF Executor, SameQueues
  <2>6. \A id : Held(t, id) = Held(e, id)
    <3> TAKE id
    <3>1. Held(t, id) = Held(vacant, id)
      BY <2>5 DEF Held, SameQueues
    <3>2. Held(f, id) \in Nat /\ Holds(f.tx, id) \in Nat
      BY <1>1, HeldCounts, HoldsType
    <3>3. Holds(ended.tx, id) = Holds(f.tx, id)
      BY <2>1 DEF SameState
    <3>4. Held(ended, id) = Held(f, id) + Holds(f.tx, id)
      BY <2>1
    <3>5. Held(vacant, id) = Held(ended, id) - Holds(ended.tx, id)
      BY <2>3
    <3> QED
      BY <1>1, <3>1, <3>2, <3>3, <3>4, <3>5
  <2>7. Retired(t, e, k, w, r)
    BY <1>1, <2>1, <2>2, <2>5, <2>6 DEF Retired, SameQueues, SameIdentity
  <2> QED
    BY <2>7 DEF t
<1> QED
  BY <1>5, <1>6

\* All its events are delivered at once.
Drained(t) == [t EXCEPT !.events = <<>>]

LEMMA DrainedSound ==
    ASSUME NEW t, NEW e, NEW k, NEW w, NEW r, NEW d \in BOOLEAN, Retired(t, e, k, w, r),
           Histories(e, k, w, r)
    PROVE  LET g == Drained(t)
           IN  /\ Sound(g, 0, k, w, r, d)
               /\ g.next_transaction = e.next_transaction
               /\ \A id : Held(e, id) = Held(g, id) + Cardinality(Ends(t.events, id))
<1> DEFINE g == Drained(t)
<1>1. /\ t \in Executor /\ t.events \in Seq(TransportEvent)
      /\ t.state = "Offline" /\ t.tx = None /\ t.write_offset = 0 /\ t.response = 0
      /\ t.queue = <<>> /\ t.safe_queue = None
      /\ t.next_transaction = e.next_transaction
      /\ \A id : Held(t, id) = Held(e, id)
  BY DEF Retired, Executor
<1>2. /\ g \in Executor
      /\ g.events = <<>>
      /\ g.state = "Offline" /\ g.tx = None /\ g.write_offset = 0 /\ g.response = 0
      /\ g.queue = <<>> /\ g.safe_queue = None
      /\ g.next_transaction = e.next_transaction
  BY <1>1 DEF Drained, Executor
<1> HIDE DEF g
<1>3. Structure(g, 0)
  BY <1>2, ExecutorAssumption DEF Structure, Unavailable
<1>4. Fresh(g, 0) /\ EventsAreHonest(g, k, w, r)
  BY <1>2 DEF Fresh, EventsAreHonest
<1>5. Owned(g, k, w, r)
  BY <1>2 DEF Owned, Enqueued
<1>6. Histories(g, k, w, r) /\ Guarded(g, d)
  BY <1>2 DEF Histories, Guarded, Unavailable
<1>7. \A id : Held(e, id) = Held(g, id) + Cardinality(Ends(t.events, id))
  <2> TAKE id
  <2>1. /\ Cardinality(Ends(t.events, id)) = Count(t.events, EndsOf(id))
        /\ Count(t.events, EndsOf(id)) \in Nat
    BY <1>1, EndsCount
  <2>2. /\ Held(t, id) = Count(t.queue, OfId(id)) + Holds(None, id)
                         + Holds(None, id) + Count(t.events, EndsOf(id))
        /\ Held(g, id) = Count(t.queue, OfId(id)) + Holds(None, id)
                         + Holds(None, id) + Count(g.events, EndsOf(id))
        /\ Count(t.queue, OfId(id)) \in Nat
    BY <1>1, <1>2, HeldCounts
  <2>3. Count(g.events, EndsOf(id)) = 0
    BY <1>2, CountEmpty
  <2>4. Holds(None, id) = 0
    BY HoldsType
  <2> QED
    BY <1>1, <2>1, <2>2, <2>3, <2>4
<1> QED
  BY <1>2, <1>3, <1>4, <1>5, <1>6, <1>7 DEF g, Sound

LEMMA ShutdownStep ==
    ASSUME IInv, NEW complete \in BOOLEAN, Shutdown(complete)
    PROVE  IInv'
<1> DEFINE t == TryShutdown(ex, complete)
           n == ex.next_transaction - 1
<1>1. /\ now \in Nat /\ dirty \in BOOLEAN
      /\ Sound(ex, 0, admitted, wire, refused, dirty)
      /\ Settled(ex, admitted, wire, refused, settled, reported)
  BY DEF IInv
<1>2. /\ ex \in Executor
      /\ DOMAIN admitted = 1..n
      /\ Histories(ex, admitted, wire, refused)
  BY <1>1 DEF Sound, Histories
<1>3. Retired(t, ex, admitted, wire, refused)
  BY <1>1, RetiredFacts
<1>4. /\ ex' = Drained(t)
      /\ settled' = SettledAfter(n, settled, t.events)
      /\ reported' = ReportedAfter(n, reported, t.events)
      /\ now' = now /\ admitted' = admitted /\ wire' = wire
      /\ refused' = refused /\ dirty' = dirty
  BY DEF Shutdown, Drained, Deliver, SettledAfter, ReportedAfter, Id
<1> HIDE DEF t
<1>5. /\ Sound(ex', 0, admitted, wire, refused, dirty)
      /\ ex'.next_transaction = ex.next_transaction
      /\ \A id : Held(ex, id) = Held(ex', id) + Cardinality(Ends(t.events, id))
  BY <1>1, <1>2, <1>3, <1>4, DrainedSound
<1>6. /\ t.events \in Seq(TransportEvent)
      /\ \A i \in DOMAIN t.events : EventIsHonest(t.events[i], admitted, wire, refused)
  BY <1>3 DEF Retired, Executor, Quiet
<1>7. ex' \in Executor
  BY <1>5 DEF Sound
<1>8. \A id \in DOMAIN admitted : wire[id] # wire[id] => Held(ex, id) >= 1
  OBVIOUS
<1>9. Settled(ex', admitted, wire, refused, settled', reported')
  BY <1>1, <1>2, <1>4, <1>5, <1>6, <1>7, <1>8, DeliverSettled
<1>10. now' \in Nat /\ dirty' \in BOOLEAN
  BY <1>1, <1>4
<1> QED
  BY <1>4, <1>5, <1>9, <1>10, Stepped

LEMMA NewSound ==
    ASSUME NEW g \in Nat
    PROVE  /\ Sound(NewExecutor(g), 0, <<>>, <<>>, {}, FALSE)
           /\ Settled(NewExecutor(g), <<>>, <<>>, {}, <<>>, <<>>)
<1> DEFINE f == NewExecutor(g)
<1>1. /\ f \in Executor
      /\ f.queue = <<>> /\ f.safe_queue = None /\ f.state = "Idle" /\ f.tx = None
      /\ f.write_offset = 0 /\ f.response = 0 /\ f.next_transaction = 1
      /\ f.events = <<>> /\ f.closed = FALSE
  BY ExecutorAssumption DEF NewExecutor, Executor
<1>2. \A S : <<>> \in [1..0 -> S]
  OBVIOUS
<1>3. f.next_transaction - 1 = 0
  BY <1>1
<1> HIDE DEF f
<1>4. Structure(f, 0)
  BY <1>1, ExecutorAssumption DEF Structure, Unavailable
<1>5. Fresh(f, 0) /\ EventsAreHonest(f, <<>>, <<>>, {})
  BY <1>1 DEF Fresh, EventsAreHonest
<1>6. Owned(f, <<>>, <<>>, {}) /\ Guarded(f, FALSE)
  BY <1>1 DEF Owned, Enqueued, Guarded
<1>7. Histories(f, <<>>, <<>>, {})
  BY <1>2, <1>3 DEF Histories
<1>8. Settled(f, <<>>, <<>>, {}, <<>>, <<>>)
  BY <1>2, <1>3 DEF Settled
<1> QED
  BY <1>1, <1>4, <1>5, <1>6, <1>7, <1>8 DEF Sound, f

LEMMA ReplaceStep ==
    ASSUME IInv, Replace
    PROVE  IInv'
<1>1. ex.generation + 1 \in Nat
  BY DEF IInv, Sound, Executor
<1>2. /\ ex' = NewExecutor(ex.generation + 1)
      /\ admitted' = <<>> /\ wire' = <<>> /\ settled' = <<>> /\ reported' = <<>>
      /\ refused' = {} /\ dirty' = FALSE /\ now' = now
  BY DEF Replace
<1>3. now' \in Nat /\ dirty' \in BOOLEAN
  BY <1>2 DEF IInv
<1> QED
  BY <1>1, <1>2, <1>3, NewSound, Stepped

LEMMA AdvanceStep ==
    ASSUME IInv, Advance
    PROVE  IInv'
<1>1. /\ now' = now + 1 /\ ex' = ex /\ admitted' = admitted /\ wire' = wire
      /\ settled' = settled /\ reported' = reported /\ refused' = refused /\ dirty' = dirty
  BY DEF Advance, history
<1> QED
  BY <1>1, Stepped DEF IInv

-----------------------------------------------------------------------------
(* The theorems.                                                           *)

\* IInv holds: every transaction the executor was given is in one place, and the
\* histories fit what the executor remembers.
THEOREM Inductive == Spec => []IInv
<1>1. Init => IInv
  <2> SUFFICES ASSUME Init
               PROVE  IInv
    OBVIOUS
  <2>1. /\ Sound(NewExecutor(1), 0, <<>>, <<>>, {}, FALSE)
        /\ Settled(NewExecutor(1), <<>>, <<>>, {}, <<>>, <<>>)
    BY NewSound
  <2> QED
    BY <2>1 DEF Init, InitHistory, IInv
<1>2. IInv /\ [Next]_vars => IInv'
  <2> SUFFICES ASSUME IInv, [Next]_vars
               PROVE  IInv'
    OBVIOUS
  <2>1. CASE \E ttl \in Ttls, timeout \in Timeouts, retryable \in BOOLEAN :
                AdmitRead(ttl, timeout, retryable)
    BY <2>1, AdmitReadStep
  <2>2. CASE \E kind \in {"normal", "safe"}, ttl \in Ttls, timeout \in Timeouts :
                AdmitOutput(kind, ttl, timeout)
    BY <2>2, AdmitOutputStep
  <2>3. CASE \E id \in Id : CancelOutput(id)
    BY <2>3, CancelStep
  <2>4. CASE \E io \in Answers, reject \in BOOLEAN : Poll(io, reject)
    BY <2>4, PollStep
  <2>5. CASE \E complete \in BOOLEAN : Shutdown(complete)
    BY <2>5, ShutdownStep
  <2>6. CASE Replace
    BY <2>6, ReplaceStep
  <2>7. CASE Advance
    BY <2>7, AdvanceStep
  <2>8. CASE UNCHANGED vars
    BY <2>8, Stepped DEF IInv, vars, history
  <2> QED
    BY <2>1, <2>2, <2>3, <2>4, <2>5, <2>6, <2>7, <2>8 DEF Next
<1> QED
  BY <1>1, <1>2, PTL DEF Spec

LEMMA IdsAdmitted ==
    ASSUME IInv
    PROVE  /\ ex \in Executor
           /\ Id = DOMAIN admitted
           /\ Id = DOMAIN wire
           /\ History(ex.next_transaction - 1, admitted, wire, refused)
<1>1. ex \in Executor
  BY DEF IInv, Sound
<1>2. ex.next_transaction - 1 \in Nat
  BY <1>1 DEF Executor
<1> QED
  BY <1>1, <1>2 DEF IInv, Sound, Histories, History, Id

\* Through retry, fence, recovery, cancellation and shutdown every admitted
\* transaction is in one place, and its owner learns one end of it.
THEOREM NothingIsLostOrDoubled == Spec => []Accounted
<1>1. IInv => Accounted
  <2> SUFFICES ASSUME IInv, NEW id \in Id
               PROVE  Places(id) = 1
    BY DEF Accounted
  <2>1. Places(id) = Held(ex, id) + settled[id]
    BY DEF Places, Held
  <2> QED
    BY <2>1, IdsAdmitted DEF IInv, Settled
<1> QED
  BY <1>1, Inductive, PTL

\* The executor begins to write a request once, that of a retryable read twice.
THEOREM RequestsAreSentOnce == Spec => []SentOnce
<1>1. IInv => SentOnce
  BY IdsAdmitted DEF IInv, Sound, Histories, Tries, SentOnce
<1> QED
  BY <1>1, Inductive, PTL

\* Neither the end the executor reports of an output nor its answer before that
\* end has arrived (output_may_have_started) denies that the output started.
THEOREM NoStartIsDenied == Spec => []StartsAreHonest
<1>1. IInv => HonestEnd
  <2> SUFFICES ASSUME IInv, NEW id \in Id \ refused, admitted[id] \in {"normal", "safe"}
               PROVE  /\ reported[id] \in {"Unsent", "QueueExpired"} => wire[id] = 0
                      /\ reported[id] = "Sent" => wire[id] = 1
    BY DEF HonestEnd
  <2> QED
    BY IdsAdmitted DEF IInv, Settled, IsOutput
<1>2. IInv => StartNotDenied
  <2> SUFFICES ASSUME IInv, NEW id \in Id \ refused, admitted[id] \in {"normal", "safe"},
                      wire[id] > 0, settled[id] = 0
               PROVE  OutputMayHaveStarted(ex, id)
    BY DEF StartNotDenied
  <2>1. /\ ex \in Executor
        /\ History(ex.next_transaction - 1, admitted, wire, refused)
        /\ id \in DOMAIN admitted
    BY IdsAdmitted
  <2>2. /\ ex.queue \in Seq(QueuedTransaction) /\ DOMAIN ex.queue = 1..Len(ex.queue)
        /\ ex.events \in Seq(TransportEvent)
    BY <2>1, LenProperties DEF Executor
  <2>3. Sound(ex, 0, admitted, wire, refused, dirty) /\ IsOutput(admitted, id)
    BY DEF IInv, IsOutput
  <2>4. Held(ex, id) = 1
    <3>1. Held(ex, id) + settled[id] = 1 /\ Held(ex, id) \in Nat
      BY <2>1, HeldCounts, HoldsType DEF IInv, Settled
    <3> QED
      BY <3>1
  \* What waits has not been written.
  <2>5. ASSUME NEW tx \in QueuedTransaction, Waiting(tx, admitted, wire), tx.id = id
        PROVE  FALSE
    <3> DEFINE n == ex.next_transaction - 1
    <3>1. History(n, admitted, wire, refused)
      BY <2>1
    <3> HIDE DEF n
    <3>2. IsOutput(admitted, tx.id) => wire[tx.id] = 0
      BY <2>5, <3>1, WaitingEnd
    <3> QED
      BY <2>3, <2>5, <3>2
  <2>6. Count(ex.queue, OfId(id)) = 0
    <3>1. \A i \in DOMAIN ex.queue : ex.queue[i] \notin OfId(id)
      <4> TAKE i \in DOMAIN ex.queue
      <4>1. ex.queue[i] \in QueuedTransaction
        BY <2>2, ElementOfSeq
      <4>2. Waiting(ex.queue[i], admitted, wire)
        BY <2>3 DEF Sound, Owned, Enqueued
      <4> QED
        BY <2>5, <4>1, <4>2 DEF OfId
    <3>2. Hits(ex.queue, OfId(id)) = {}
      BY <3>1 DEF Hits
    <3> QED
      BY <3>2, FS_EmptySet DEF Count
  <2>7. Holds(ex.safe_queue, id) = 0
    <3>1. ASSUME ex.safe_queue # None
          PROVE  ex.safe_queue.id # id
      <4>1. ex.safe_queue \in QueuedTransaction /\ Waiting(ex.safe_queue, admitted, wire)
        BY <2>1, <2>3, <3>1 DEF Executor, Sound, Owned, Enqueued
      <4> QED
        BY <2>5, <4>1
    <3> QED
      BY <3>1 DEF Holds
  <2>8. CASE Holds(ex.tx, id) # 0
    <3>1. ex.tx # None /\ ex.tx.id = id
      BY <2>8 DEF Holds
    <3>2. ex.tx \in QueuedTransaction /\ Executing(ex, admitted, wire, refused)
      BY <2>1, <2>3, <3>1 DEF Executor, Sound, Owned
    <3>3. ~IsRead(ex.tx)
      BY <2>3, <3>1, <3>2 DEF Executing, Admitted, IsOutput
    <3>4. ex.write_offset > 0
      BY <3>1, <3>2, <3>3 DEF Executing
    <3>5. ex.state \in {"Active", "Recovering"}
      BY <2>3, <3>1 DEF Sound, Structure
    <3> QED
      BY <3>1, <3>4, <3>5 DEF OutputMayHaveStarted
  <2>9. CASE Holds(ex.tx, id) = 0
    <3>1. Count(ex.events, EndsOf(id)) = 1
      BY <2>1, <2>4, <2>6, <2>7, <2>9, HeldCounts
    <3>2. Ends(ex.events, id) # {}
      BY <2>2, <3>1, EndsCount
    <3>3. PICK i \in DOMAIN ex.events :
             IsTerminal(ex.events[i]) /\ ex.events[i].id = id
      BY <3>2 DEF Ends
    <3>4. EventIsHonest(ex.events[i], admitted, wire, refused)
      BY <2>3 DEF Sound, EventsAreHonest
    <3>5. ex.events[i].type = "OutputTerminal" /\ ex.events[i].started
      <4>1. /\ ex.events[i].type = "OutputTerminal"
            /\ wire[id] = (IF ex.events[i].dispatch # None THEN 1 ELSE 0)
            /\ ex.events[i].started <=> ex.events[i].dispatch # None
        BY <2>3, <3>3, <3>4 DEF EventIsHonest
      <4>2. ex.events[i].dispatch # None
        BY <4>1
      <4> QED
        BY <4>1, <4>2
    <3> QED
      BY <3>3, <3>5 DEF OutputMayHaveStarted
  <2> QED
    BY <2>8, <2>9
<1>3. IInv => StartsAreHonest
  BY <1>1, <1>2 DEF StartsAreHonest
<1> QED
  BY <1>3, Inductive, PTL

\* A poll that begins a request finds a clean line.
LEMMA PollBegins ==
    ASSUME IInv, NEW io \in Answers, NEW reject \in BOOLEAN, Poll(io, reject),
           NEW id \in Id, Begins(id)
    PROVE  ~dirty
<1> DEFINE f == PollState(ex, now, io)
           tx == OfferedBy(ex, now)
<1>1. /\ now \in Nat /\ dirty \in BOOLEAN
      /\ Sound(ex, 0, admitted, wire, refused, dirty)
      /\ Settled(ex, admitted, wire, refused, settled, reported)
  BY DEF IInv
<1>2. ex \in Executor /\ Id = DOMAIN wire /\ wire[id] \in Nat
  BY IdsAdmitted DEF IInv, Sound, Histories
<1>3. \A x \in DOMAIN admitted : Held(ex, x) <= 1
  <2>1. \A x : Held(ex, x) \in Nat
    BY <1>2, HeldCounts, HoldsType
  <2>2. \A x \in DOMAIN admitted : Held(ex, x) + settled[x] = 1 /\ settled[x] \in Nat
    BY <1>1, IdsAdmitted DEF Id, Settled
  <2> QED
    BY <2>1, <2>2
<1>4. PolledWith(f, ex, tx, io, admitted, wire, refused, dirty)
  BY <1>1, <1>3, AnswersType, PollStateWith
<1>5. FirstByte(io) <=> FirstByteOf(tx, io)
  BY DEF Offered, OfferedBy, FirstByte, FirstByteOf
<1>6. FirstByte(io)
  <2>1. wire' # wire
    BY <1>2 DEF Begins
  <2> QED
    BY <2>1 DEF Poll
<1> HIDE DEF f, tx
<1>7. dirty = FALSE
  BY <1>4, <1>5, <1>6 DEF PolledWith
<1> QED
  BY <1>7

\* No request begins on a line that may still carry bytes of an exchange that did
\* not complete, whether it failed, was rejected or awaits its recovery.
THEOREM BoundariesAreClean == Spec => CleanBoundary
<1>1. IInv /\ [Next]_vars => [(\E id \in Id : Begins(id)) => ~dirty]_vars
  <2> SUFFICES ASSUME IInv, [Next]_vars, NEW id \in Id, Begins(id)
               PROVE  ~dirty
    OBVIOUS
  <2>1. id \in DOMAIN wire /\ wire[id] \in Nat
    BY IdsAdmitted DEF IInv, Sound, Histories
  <2>2. wire' # wire /\ wire' # <<>>
    <3>1. DOMAIN <<>> = {}
      OBVIOUS
    <3> QED
      BY <2>1, <3>1 DEF Begins
  <2>3. ASSUME wire' = Append(wire, 0)
        PROVE  FALSE
    <3> DEFINE n == ex.next_transaction - 1
    <3>1. n \in Nat /\ wire \in [1..n -> Nat] /\ id \in 1..n /\ 0 \in Nat
      BY <2>1, IdsAdmitted DEF History, IInv, Sound, Histories
    <3> HIDE DEF n
    <3>2. OneMore(n, Nat, wire, 0, wire')
      BY <2>3, <3>1, AppendEntry
    <3>3. wire'[id] = wire[id]
      BY <3>1, <3>2 DEF OneMore
    <3> QED
      BY <2>1, <3>3 DEF Begins
  <2>4. CASE \E ttl \in Ttls, timeout \in Timeouts, retryable \in BOOLEAN :
                AdmitRead(ttl, timeout, retryable)
    BY <2>3, <2>4 DEF AdmitRead, Admit
  <2>5. CASE \E kind \in {"normal", "safe"}, ttl \in Ttls, timeout \in Timeouts :
                AdmitOutput(kind, ttl, timeout)
    BY <2>3, <2>5 DEF AdmitOutput, Admit
  <2>6. CASE \E x \in Id : CancelOutput(x)
    BY <2>2, <2>6 DEF CancelOutput
  <2>7. CASE \E io \in Answers, reject \in BOOLEAN : Poll(io, reject)
    BY <2>7, PollBegins
  <2>8. CASE \E complete \in BOOLEAN : Shutdown(complete)
    BY <2>2, <2>8 DEF Shutdown
  <2>9. CASE Replace
    BY <2>2, <2>9 DEF Replace
  <2>10. CASE Advance \/ UNCHANGED vars
    BY <2>2, <2>10 DEF Advance, vars, history
  <2> QED
    BY <2>4, <2>5, <2>6, <2>7, <2>8, <2>9, <2>10 DEF Next
<1> QED
  BY <1>1, Inductive, PTL DEF Spec, CleanBoundary

\* The executor owns a transaction exactly in the states that have one, the offsets
\* stay within the request and its response, and its events fit their queue.
THEOREM ExecutorIsWellFormed == Spec => []TypeOK
<1>1. IInv => TypeOK
  <2> SUFFICES ASSUME IInv
               PROVE  TypeOK
    OBVIOUS
  <2>1. /\ ex \in Executor
        /\ Sound(ex, 0, admitted, wire, refused, dirty)
        /\ Histories(ex, admitted, wire, refused)
        /\ ex.next_transaction - 1 \in Nat
    BY IdsAdmitted DEF IInv, Sound, History
  <2>2. Len(ex.events) <= MaxQueued
    <3>1. Len(ex.events) <= MaxQueued + 0 /\ MaxQueued + 0 = MaxQueued
      BY <2>1, ExecutorAssumption DEF Sound, Structure
    <3> QED
      BY <3>1
  <2>3. Len(TryShutdown(ex, TRUE).events) <= MaxQueued + 2
    BY <2>1, RetiredFacts DEF Retired
  <2>4. /\ ex.state \in {"Idle", "Active"} \cup Unavailable
        /\ ex.write_offset \in 0..RequestLen
        /\ ex.response \in 0..(ResponseLen - 1)
    BY <2>1 DEF Executor
  <2>5. /\ ex.tx # None <=> ex.state \in {"Active", "Recovering"}
        /\ Len(ex.queue) <= MaxQueued
    BY <2>1 DEF Sound, Structure
  <2>6. Len(admitted) = ex.next_transaction - 1
    <3>1. admitted \in Seq(Kind)
      BY <2>1, SeqDef DEF Histories
    <3> QED
      BY <2>1, <3>1, LenProperties DEF Histories
  <2>7. \A id \in Id : admitted[id] \in Kind
    BY <2>1 DEF Histories, Id
  <2> QED
    BY <2>2, <2>3, <2>4, <2>5, <2>6, <2>7 DEF TypeOK
<1> QED
  BY <1>1, Inductive, PTL

=============================================================================
