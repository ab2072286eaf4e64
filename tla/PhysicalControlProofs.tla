----------------------- MODULE PhysicalControlProofs -----------------------
(***************************************************************************)
(* Theorems about PhysicalControl.                                         *)
(***************************************************************************)
EXTENDS PhysicalControl, OutputAuthorityProofs, FiniteSetTheorems, WellFoundedInduction

-----------------------------------------------------------------------------
(* The executor of a Runtime.                                              *)

ExecutorState == {"Idle", "Active"} \cup Unavailable

\* Of what does not matter here.
IsSequence(q) == \E S : q \in Seq(S)

\* An executor is a function of its fields, two of which are sequences.
Shaped(x) ==
    /\ x = [k \in DOMAIN x |-> x[k]]
    /\ {"state", "queue", "events"} \subseteq DOMAIN x
    /\ x.state \in ExecutorState
    /\ IsSequence(x.queue)
    /\ IsSequence(x.events)

\* What is made of a sequence by the operators the executor uses is one.
LEMMA Extended ==
    ASSUME NEW q, IsSequence(q)
    PROVE  /\ \A e : IsSequence(Append(q, e))
           /\ \A t : IsSequence(t) => IsSequence(q \o t)
           /\ q # <<>> => IsSequence(Tail(q))
           /\ Len(q) \in Nat
           /\ IsSequence(<<>>)
           /\ \A e : IsSequence(<<e>>)
<1>1. PICK S : q \in Seq(S)
  BY DEF IsSequence
<1>2. ASSUME NEW s, NEW A, NEW B, s \in Seq(A) PROVE s \in Seq(A \cup B) /\ s \in Seq(B \cup A)
  BY <1>2
<1>3. ASSUME NEW e PROVE IsSequence(Append(q, e))
  <2>1. Append(q, e) \in Seq(S \cup {e})
    BY <1>1, <1>2
  <2> QED BY <2>1 DEF IsSequence
<1>4. ASSUME NEW t, IsSequence(t) PROVE IsSequence(q \o t)
  <2>1. PICK T : t \in Seq(T)
    BY <1>4 DEF IsSequence
  <2>2. q \in Seq(S \cup T) /\ t \in Seq(S \cup T)
    BY <1>1, <1>2, <2>1
  <2>3. q \o t \in Seq(S \cup T)
    BY <2>2
  <2> QED BY <2>3 DEF IsSequence
<1>5. q # <<>> => IsSequence(Tail(q))
  BY <1>1 DEF IsSequence
<1>6. Len(q) \in Nat
  BY <1>1
<1>7. IsSequence(<<>>)
  <2>1. <<>> \in Seq({})
    OBVIOUS
  <2> QED BY <2>1 DEF IsSequence
<1>8. ASSUME NEW e PROVE IsSequence(<<e>>)
  <2>1. <<e>> \in Seq({e})
    OBVIOUS
  <2> QED BY <2>1 DEF IsSequence
<1> QED
  BY <1>3, <1>4, <1>5, <1>6, <1>7, <1>8

\* One field changes; the three that matter keep their kind.
LEMMA SetShaped ==
    ASSUME NEW x, Shaped(x), NEW f, NEW v,
           f = "state" => v \in ExecutorState,
           f \in {"queue", "events"} => IsSequence(v)
    PROVE  /\ Shaped([x EXCEPT ![f] = v])
           /\ \A g : g # f => [x EXCEPT ![f] = v][g] = x[g]
           /\ f \in {"state", "queue", "events"} => [x EXCEPT ![f] = v][f] = v
BY DEF Shaped

\* What most methods of an executor are made of.
LEMMA SmallStepsShaped ==
    ASSUME NEW x, Shaped(x)
    PROVE  /\ \A state \in ExecutorState : Shaped(Vacate(x, state))
           /\ \A e : Shaped(Emit(x, e))
           /\ \A v : Shaped([x EXCEPT !.latest = v])
           /\ \A v : Shaped([x EXCEPT !.deadline = v])
           /\ \A v : Shaped([x EXCEPT !.last_poll = v])
           /\ \A v : Shaped([x EXCEPT !.generation = v])
           /\ \A v : Shaped([x EXCEPT !.safe_queue = v])
           /\ \A v : Shaped([x EXCEPT !.response = v])
           /\ \A v : Shaped([x EXCEPT !.closed = v])
           /\ \A v, w : Shaped([x EXCEPT !.safe_queue = v, !.next_transaction = w])
           /\ \A v, w : IsSequence(v) => Shaped([x EXCEPT !.queue = v, !.next_transaction = w])
           /\ \A v : \A state \in ExecutorState : Shaped([x EXCEPT !.state = state, !.deadline = v])
           /\ \A v : IsSequence(v) => Shaped([x EXCEPT !.queue = v])
           /\ \A v : IsSequence(v) => Shaped([x EXCEPT !.events = v])
           /\ \A v, w : IsSequence(v) /\ IsSequence(w) =>
                 Shaped([x EXCEPT !.queue = v, !.events = w])
           /\ \A v, w : \A state \in ExecutorState :
                 Shaped([x EXCEPT !.state = state, !.tx = v, !.deadline = w])
           /\ \A v, w : Shaped([x EXCEPT !.write_offset = v, !.tx = w])
<1>1. ASSUME NEW state \in ExecutorState
      PROVE  Shaped(Vacate(x, state))
  <2> DEFINE a == [x EXCEPT !.state = state]
             b == [a EXCEPT !.tx = None]
             c == [b EXCEPT !.write_offset = 0]
             d == [c EXCEPT !.response = 0]
  <2>1. Shaped(a)
    BY SetShaped, Zenon
  <2>2. Shaped(b)
    BY <2>1, SetShaped, Zenon
  <2>3. Shaped(c)
    BY <2>2, SetShaped, Zenon
  <2>4. Shaped(d)
    BY <2>3, SetShaped, Zenon
  <2> QED
    BY <2>4, SetShaped, Zenon DEF Vacate
<1>2. ASSUME NEW e
      PROVE  Shaped(Emit(x, e))
  <2>1. IsSequence(Append(x.events, e))
    BY Extended DEF Shaped
  <2> QED
    BY <2>1, SetShaped, Zenon DEF Emit
<1>3. ASSUME NEW v
      PROVE  /\ Shaped([x EXCEPT !.latest = v])
             /\ Shaped([x EXCEPT !.deadline = v])
             /\ Shaped([x EXCEPT !.last_poll = v])
             /\ Shaped([x EXCEPT !.generation = v])
             /\ Shaped([x EXCEPT !.safe_queue = v])
             /\ Shaped([x EXCEPT !.response = v])
             /\ Shaped([x EXCEPT !.closed = v])
             /\ IsSequence(v) => Shaped([x EXCEPT !.queue = v])
             /\ IsSequence(v) => Shaped([x EXCEPT !.events = v])
  BY SetShaped, Zenon
<1>4. ASSUME NEW v, NEW w
      PROVE  /\ Shaped([x EXCEPT !.safe_queue = v, !.next_transaction = w])
             /\ IsSequence(v) => Shaped([x EXCEPT !.queue = v, !.next_transaction = w])
             /\ IsSequence(v) /\ IsSequence(w) => Shaped([x EXCEPT !.queue = v, !.events = w])
             /\ Shaped([x EXCEPT !.write_offset = v, !.tx = w])
  <2> DEFINE a == [x EXCEPT !.safe_queue = v]
             b == [x EXCEPT !.queue = v]
             c == [x EXCEPT !.write_offset = v]
  <2>1. Shaped(a) /\ Shaped(c) /\ (IsSequence(v) => Shaped(b))
    BY SetShaped, Zenon
  <2>2. Shaped([x EXCEPT !.safe_queue = v, !.next_transaction = w])
    BY <2>1, SetShaped, Zenon
  <2>3. IsSequence(v) => Shaped([x EXCEPT !.queue = v, !.next_transaction = w])
    BY <2>1, SetShaped, Zenon
  <2>4. IsSequence(v) /\ IsSequence(w) => Shaped([x EXCEPT !.queue = v, !.events = w])
    BY <2>1, SetShaped, Zenon
  <2>5. Shaped([x EXCEPT !.write_offset = v, !.tx = w])
    BY <2>1, SetShaped, Zenon
  <2> QED
    BY <2>2, <2>3, <2>4, <2>5
<1>5. ASSUME NEW state \in ExecutorState, NEW v, NEW w
      PROVE  /\ Shaped([x EXCEPT !.state = state, !.deadline = v])
             /\ Shaped([x EXCEPT !.state = state, !.tx = v, !.deadline = w])
  <2> DEFINE a == [x EXCEPT !.state = state]
             b == [a EXCEPT !.tx = v]
  <2>1. Shaped(a)
    BY SetShaped, Zenon
  <2>2. Shaped(b)
    BY <2>1, SetShaped, Zenon
  <2>3. Shaped([x EXCEPT !.state = state, !.deadline = v])
    BY <2>1, SetShaped, Zenon
  <2>4. Shaped([x EXCEPT !.state = state, !.tx = v, !.deadline = w])
    BY <2>2, SetShaped, Zenon
  <2> QED
    BY <2>3, <2>4
<1> QED
  BY <1>1, <1>2, <1>3, <1>4, <1>5, Zenon

\* To own no transaction, as OwnedState::Idle and Offline do, keeps the shape.
LEMMA VacateShaped ==
    ASSUME NEW x, Shaped(x), NEW state \in ExecutorState
    PROVE  Shaped(Vacate(x, state))
BY SmallStepsShaped, Zenon

\* finish keeps the shape: it adds the terminal event and the latest record.
LEMMA FinishShaped ==
    ASSUME NEW x, Shaped(x), NEW tx, NEW outcome, NEW started
    PROVE  Shaped(Finish(x, tx, outcome, started))
<1> DEFINE e == Event(IF IsRead(tx) THEN "ReadTerminal" ELSE "OutputTerminal", tx, outcome, started)
           y == Emit(x, e)
<1>1. Shaped(y)
  BY SmallStepsShaped, Zenon
<1>2. Finish(x, tx, outcome, started)
        = [y EXCEPT !.latest = [id |-> tx.id, outcome |-> outcome, started |-> started]]
  BY Zenon DEF Finish
<1>3. Shaped([y EXCEPT !.latest = [id |-> tx.id, outcome |-> outcome, started |-> started]])
  BY <1>1, SetShaped, Zenon
<1> QED
  BY <1>2, <1>3, Zenon

\* So do the fences of the queue and of the safe slot.
LEMMA FencesShaped ==
    ASSUME NEW x, Shaped(x)
    PROVE  Shaped(FenceOrdinaryQueue(x)) /\ Shaped(FenceSafeQueue(x))
<1> DEFINE s == [i \in DOMAIN x.queue |-> Fenced(x.queue[i])]
<1>1. IsSequence(s)
  <2>1. PICK S : x.queue \in Seq(S)
    BY DEF Shaped, IsSequence
  <2>2. DOMAIN x.queue = 1..Len(x.queue) /\ Len(x.queue) \in Nat
    BY <2>1
  <2>3. s \in Seq({s[i] : i \in 1..Len(x.queue)})
    <3> DEFINE n == Len(x.queue)
               T == {s[i] : i \in 1..n}
    <3>1. n \in Nat /\ s = [i \in 1..n |-> Fenced(x.queue[i])]
      BY <2>2
    <3>2. s \in [1..n -> T]
      BY <3>1, Zenon
    <3> HIDE DEF n, s, T
    <3>3. s \in Seq(T)
      BY <3>1, <3>2
    <3> QED
      BY <3>3 DEF T, n
  <2> QED
    BY <2>3 DEF IsSequence
<1>2. IsSequence(x.events \o s) /\ IsSequence(<<>>)
  BY <1>1, Extended DEF Shaped
<1>3. Shaped(FenceOrdinaryQueue(x))
  BY <1>2, SmallStepsShaped, Zenon DEF FenceOrdinaryQueue
<1>4. Shaped(FenceSafeQueue(x))
  <2> DEFINE y == Emit(x, Fenced(x.safe_queue))
  <2>1. Shaped(y)
    BY SmallStepsShaped, Zenon
  <2>2. Shaped([y EXCEPT !.safe_queue = None])
    BY <2>1, SmallStepsShaped, Zenon
  <2> QED
    BY <2>2, Zenon DEF FenceSafeQueue
<1> QED
  BY <1>3, <1>4

\* So do enter_recovery, enter_protocol_recovery and protocol_failure.
LEMMA RecoveryShaped ==
    ASSUME NEW x, Shaped(x), NEW at
    PROVE  /\ Shaped(EnterRecovery(x, at))
           /\ Shaped(EnterProtocolRecovery(x, at))
           /\ Shaped(ProtocolFailure(x))
<1> {"Idle", "Recovering", "ProtocolRecovery"} \subseteq ExecutorState
  BY DEF ExecutorState, Unavailable
<1>1. Shaped(EnterRecovery(x, at))
  <2> DEFINE y == IF IsRead(x.tx) THEN Emit(x, Event("ReadUnavailable", x.tx, None, FALSE))
                  ELSE IF x.tx.dispatch # None
                  THEN Emit(x, Event("OutputUncertain", x.tx, None, FALSE))
                  ELSE x
             z == FenceOrdinaryQueue(y)
  <2>1. Shaped(y)
    BY SmallStepsShaped, Zenon
  <2>2. EnterRecovery(x, at)
          = [z EXCEPT !.state = "Recovering", !.deadline = at + RecoveryTimeout]
    BY Zenon DEF EnterRecovery
  <2> HIDE DEF y
  <2>3. Shaped(z)
    BY <2>1, FencesShaped, Zenon
  <2> HIDE DEF z
  <2>4. Shaped([z EXCEPT !.state = "Recovering", !.deadline = at + RecoveryTimeout])
    BY <2>3, SmallStepsShaped, Zenon
  <2> QED
    BY <2>2, <2>4, Zenon
<1>2. Shaped(EnterProtocolRecovery(x, at))
  <2> DEFINE y == Finish(x, x.tx, "Failed", x.write_offset > 0)
             z == FenceOrdinaryQueue(y)
             v == Vacate(z, "ProtocolRecovery")
  <2>1. Shaped(y)
    BY FinishShaped, Zenon
  <2>2. Shaped(z)
    BY <2>1, FencesShaped, Zenon
  <2>3. Shaped(v)
    BY <2>2, SmallStepsShaped, Zenon
  <2>4. EnterProtocolRecovery(x, at) = [v EXCEPT !.deadline = at + RecoveryTimeout]
    BY Zenon DEF EnterProtocolRecovery
  <2> HIDE DEF v
  <2>5. Shaped([v EXCEPT !.deadline = at + RecoveryTimeout])
    BY <2>3, SetShaped, Zenon
  <2> QED
    BY <2>4, <2>5, Zenon
<1>3. Shaped(ProtocolFailure(x))
  <2> DEFINE y == FenceOrdinaryQueue(x)
  <2>1. Shaped(y)
    BY FencesShaped, Zenon
  <2>2. ProtocolFailure(x) \in
          {x, [y EXCEPT !.state = "ProtocolRecovery", !.deadline = x.last_poll + RecoveryTimeout]}
    BY Zenon DEF ProtocolFailure
  <2> HIDE DEF y
  <2>3. Shaped([y EXCEPT !.state = "ProtocolRecovery", !.deadline = x.last_poll + RecoveryTimeout])
    BY <2>1, SmallStepsShaped, Zenon
  <2> QED
    BY <2>2, <2>3, Zenon
<1> QED
  BY <1>1, <1>2, <1>3

\* So does recovery, whatever the adapter answers.
LEMMA RecoveringShaped ==
    ASSUME NEW x, Shaped(x), NEW at, NEW io
    PROVE  /\ Shaped(ProgressRecovery(x, at, io))
           /\ Shaped(ProgressProtocolRecovery(x, at, io))
<1> "Idle" \in ExecutorState /\ "Offline" \in ExecutorState
  BY DEF ExecutorState, Unavailable
<1> DEFINE failed == Finish(x, x.tx, "Failed", x.write_offset > 0)
           recovered == [x EXCEPT !.generation = x.generation + 1]
           again == [recovered EXCEPT !.queue = <<[x.tx EXCEPT !.retries = 1]>> \o recovered.queue]
           ended == Finish(recovered, x.tx, "Failed", x.write_offset > 0)
<1>1. Shaped(failed) /\ Shaped(recovered)
  BY FinishShaped, SmallStepsShaped, Zenon
<1>2. Shaped(ended)
  BY <1>1, FinishShaped, Zenon
<1>3. Shaped(again)
  <2>1. \A t : IsSequence(<<t>> \o recovered.queue)
    BY <1>1, Extended DEF Shaped
  <2> QED
    BY <1>1, <2>1, SmallStepsShaped, Zenon
<1>4. ProgressRecovery(x, at, io) \in
        {Vacate(failed, "Offline"), x, Vacate(again, "Idle"), Vacate(ended, "Idle")}
  BY Zenon DEF ProgressRecovery
<1>5. Shaped(ProgressRecovery(x, at, io))
  <2> HIDE DEF failed, again, ended
  <2>1. /\ Shaped(Vacate(failed, "Offline"))
        /\ Shaped(Vacate(again, "Idle"))
        /\ Shaped(Vacate(ended, "Idle"))
    BY <1>1, <1>2, <1>3, VacateShaped, Zenon
  <2> QED
    BY <1>4, <2>1, Zenon
<1>6. Shaped(ProgressProtocolRecovery(x, at, io))
  <2> DEFINE y == Emit(x, Boundary("BoundaryFailed"))
             z == Emit(recovered, Boundary("BoundaryRecovered"))
  <2>1. Shaped(y) /\ Shaped(z)
    BY <1>1, SmallStepsShaped, Zenon
  <2>2. ProgressProtocolRecovery(x, at, io) \in {Vacate(y, "Offline"), x, Vacate(z, "Idle")}
    BY Zenon DEF ProgressProtocolRecovery
  <2> HIDE DEF y, z
  <2>3. Shaped(Vacate(y, "Offline")) /\ Shaped(Vacate(z, "Idle"))
    BY <2>1, VacateShaped, Zenon
  <2> QED
    BY <2>2, <2>3, Zenon
<1> QED
  BY <1>5, <1>6

\* So does progress_active, whatever the adapter and the authorizer answer.
LEMMA ActiveShaped ==
    ASSUME NEW x, Shaped(x), NEW at, NEW io
    PROVE  Shaped(ProgressActive(x, at, io))
<1> "Idle" \in ExecutorState
  BY DEF ExecutorState
<1>1. ASSUME NEW y, Shaped(y)
      PROVE  Shaped(Collect(y, at, io))
  <2> DEFINE f == Finish(y, y.tx, "Completed", y.write_offset > 0)
  <2>1. Shaped(f)
    BY <1>1, FinishShaped, Zenon
  <2>2. Collect(y, at, io) \in
          {y, EnterRecovery(y, at), EnterProtocolRecovery(y, at), Vacate(f, "Idle"),
           [y EXCEPT !.response = y.response + io.read]}
    BY Zenon DEF Collect
  <2> HIDE DEF f
  <2>3. Shaped(Vacate(f, "Idle"))
    BY <2>1, VacateShaped, Zenon
  <2>4. Shaped([y EXCEPT !.response = y.response + io.read])
    BY <1>1, SetShaped, Zenon
  <2>5. Shaped(EnterRecovery(y, at)) /\ Shaped(EnterProtocolRecovery(y, at))
    BY <1>1, RecoveryShaped, Zenon
  <2> QED
    BY <1>1, <2>2, <2>3, <2>4, <2>5, Zenon
<1>2. Shaped(Write(x, io))
  <2> DEFINE w == IF x.write_offset = 0 /\ io.written > 0 /\ ~IsRead(x.tx) THEN io.dispatch
                  ELSE x.tx.dispatch
             y == [x EXCEPT !.write_offset = x.write_offset + io.written]
  <2>1. Write(x, io) = [y EXCEPT !.tx.dispatch = w]
    BY Zenon DEF Write
  <2>2. Shaped(y)
    BY SetShaped, Zenon
  <2> HIDE DEF w, y
  <2> DEFINE v == [y.tx EXCEPT !.dispatch = w]
  <2>3. Write(x, io) = [y EXCEPT !.tx = v]
    BY <2>1, Zenon
  <2> HIDE DEF v
  <2>4. Shaped([y EXCEPT !.tx = v])
    BY <2>2, SetShaped, Zenon
  <2> QED
    BY <2>3, <2>4, Zenon
<1> DEFINE f == Finish(x, x.tx, "Failed", FALSE)
<1>3. Shaped(f)
  BY FinishShaped, Zenon
<1>4. ProgressActive(x, at, io) \in
        {EnterRecovery(x, at), Collect(x, at, io), Vacate(f, "Idle"), Collect(Write(x, io), at, io)}
  BY Zenon DEF ProgressActive
<1> HIDE DEF f
<1>5. Shaped(Vacate(f, "Idle"))
  BY <1>3, VacateShaped, Zenon
<1>6. /\ Shaped(EnterRecovery(x, at))
      /\ Shaped(Collect(x, at, io))
      /\ Shaped(Collect(Write(x, io), at, io))
  BY <1>1, <1>2, RecoveryShaped, Zenon
<1> QED
  BY <1>4, <1>5, <1>6, Zenon

\* So does start_or_remain_idle.
LEMMA IdleShaped ==
    ASSUME NEW x, Shaped(x), NEW at, NEW io
    PROVE  Shaped(StartOrRemainIdle(x, at, io))
<1> "Active" \in ExecutorState
  BY DEF ExecutorState
<1> DEFINE tx == Taken(x)
           y == Remaining(x)
           d == Sooner(at + tx.timeout, tx.queue_deadline)
           z == [y EXCEPT !.state = "Active", !.tx = tx, !.deadline = d]
<1>1. CASE x.safe_queue = None /\ x.queue = <<>>
  BY <1>1, Zenon DEF StartOrRemainIdle
<1>2. CASE ~(x.safe_queue = None /\ x.queue = <<>>)
  <2>1. Shaped(y)
    <3>1. CASE tx = x.safe_queue
      BY <3>1, SmallStepsShaped, Zenon DEF Remaining
    <3>2. CASE tx # x.safe_queue
      <4>1. x.queue # <<>>
        BY <1>2, <3>2 DEF Taken
      <4>2. IsSequence(Tail(x.queue))
        BY <4>1, Extended DEF Shaped
      <4> QED
        BY <3>2, <4>2, SmallStepsShaped, Zenon DEF Remaining
    <3> QED
      BY <3>1, <3>2
  <2>2. StartOrRemainIdle(x, at, io) \in
          {Finish(y, tx, "QueueExpired", FALSE), ProgressActive(z, at, io)}
    BY <1>2, Zenon DEF StartOrRemainIdle
  <2> HIDE DEF y, d, tx
  <2>3. Shaped(z)
    BY <2>1, SmallStepsShaped, Zenon
  <2> HIDE DEF z
  <2> QED
    BY <2>1, <2>2, <2>3, FinishShaped, ActiveShaped, Zenon
<1> QED
  BY <1>1, <1>2

\* So does poll_authorized, up to the event it returns.
LEMMA PollShaped ==
    ASSUME NEW x, Shaped(x), NEW at, NEW io
    PROVE  Shaped(PollState(x, at, io))
<1> DEFINE y == [x EXCEPT !.last_poll = at]
<1>1. Shaped(y)
  BY SmallStepsShaped, Zenon
<1>2. PollState(x, at, io) \in {y, Progress(y, at, io)}
  BY Zenon DEF PollState
<1> HIDE DEF y
<1>3. y.state \in {"Idle", "Active", "Recovering", "ProtocolRecovery", "Offline"}
  BY <1>1 DEF Shaped, ExecutorState, Unavailable
<1>4. /\ y.state = "Idle" => Progress(y, at, io) = StartOrRemainIdle(y, at, io)
      /\ y.state = "Active" => Progress(y, at, io) = ProgressActive(y, at, io)
      /\ y.state = "Recovering" => Progress(y, at, io) = ProgressRecovery(y, at, io)
      /\ y.state = "ProtocolRecovery" => Progress(y, at, io) = ProgressProtocolRecovery(y, at, io)
      /\ y.state = "Offline" => Progress(y, at, io) = y
  BY DEF Progress
<1>5. Shaped(Progress(y, at, io))
  BY <1>1, <1>3, <1>4, IdleShaped, ActiveShaped, RecoveringShaped
<1> QED
  BY <1>1, <1>2, <1>5

\* And so does the removal of that event.
LEMMA TakeShaped ==
    ASSUME NEW x, Shaped(x)
    PROVE  Shaped(TakeEvent(x))
<1>1. x.events # <<>> => IsSequence(Tail(x.events))
  BY Extended DEF Shaped
<1> QED
  BY <1>1, SmallStepsShaped, Zenon DEF TakeEvent

\* So does try_shutdown.
LEMMA ShutdownShaped ==
    ASSUME NEW x, Shaped(x), NEW complete
    PROVE  Shaped(TryShutdown(x, complete))
<1> "Offline" \in ExecutorState
  BY DEF ExecutorState, Unavailable
<1> DEFINE fenced == FenceSafeQueue(FenceOrdinaryQueue(x))
           ended == IF fenced.tx = None THEN fenced
                    ELSE Finish(fenced, fenced.tx, "Failed", fenced.write_offset > 0)
           left == Vacate(ended, "Offline")
<1>1. Shaped(fenced)
  BY FencesShaped, Zenon
<1>2. TryShutdown(x, complete) \in {fenced, [left EXCEPT !.closed = complete]}
  BY Zenon DEF TryShutdown
<1> HIDE DEF fenced
<1>3. Shaped(ended)
  BY <1>1, FinishShaped, Zenon
<1> HIDE DEF ended
<1>4. Shaped(left)
  BY <1>3, SmallStepsShaped, Zenon
<1> HIDE DEF left
<1>5. Shaped([left EXCEPT !.closed = complete])
  BY <1>4, SetShaped, Zenon
<1> QED
  BY <1>1, <1>2, <1>5, Zenon

\* So do enqueue_read and enqueue_output.
LEMMA AdmissionShaped ==
    ASSUME NEW x, Shaped(x), NEW intent, NEW deadline, NEW timeout, NEW retryable
    PROVE  /\ Shaped(EnqueueRead(x, deadline, timeout, retryable))
           /\ Shaped(EnqueueOutput(x, intent, deadline, timeout))
<1>1. \A t : IsSequence(Append(x.queue, t))
  BY Extended DEF Shaped
<1>2. Shaped(EnqueueRead(x, deadline, timeout, retryable))
  BY <1>1, SmallStepsShaped, Zenon DEF EnqueueRead
<1>3. Shaped(EnqueueOutput(x, intent, deadline, timeout))
  BY <1>1, SmallStepsShaped, Zenon DEF EnqueueOutput
<1> QED
  BY <1>2, <1>3

\* A new executor has the shape.
LEMMA NewShaped ==
    ASSUME NEW generation
    PROVE  Shaped(NewExecutor(generation))
<1>1. IsSequence(<<>>)
  <2>1. <<>> \in Seq({})
    OBVIOUS
  <2> QED
    BY <2>1 DEF IsSequence
<1> QED
  BY <1>1 DEF NewExecutor, Shaped, ExecutorState

-----------------------------------------------------------------------------
(* The invariant, of one Runtime record.                                   *)

ControllerState == {"Created", "Ready", "Paused", "Failed", "Removed"} \cup Live

Controller == [state : ControllerState, lease : OutputLease \cup {None}, last_tick : Nat]

Gate == [enabled : BOOLEAN, open : BOOLEAN, failed : BOOLEAN, lost : BOOLEAN,
         confirmed : Nat]

\* A Runtime is a record of nine fields.  What the executor's sequences hold and
\* which transactions are correlated does not matter here.
Typed(r) ==
    /\ r \in [auth : Authority, ex : {r.ex}, generation : Nat, writes : {r.writes},
              readbacks : {r.readbacks}, unsettled : {r.unsettled}, sent_safe : BOOLEAN,
              ctl : [Controllers -> Controller], gate : Gate]
    /\ Shaped(r.ex)

\* A controller holds only leases of its own, and while it runs it holds one.
OwnLeases(r) ==
    \A c \in Controllers :
        /\ r.ctl[c].lease # None => r.ctl[c].lease.owner = c
        /\ r.ctl[c].state = "Running" => r.ctl[c].lease # None

\* An automatic lease is the one its controller runs with.
LeaseKnown(r) ==
    \A c \in Controllers :
        r.auth.lease # None /\ r.auth.lease.owner = c =>
            r.ctl[c].state = "Running" /\ r.ctl[c].lease = r.auth.lease

\* One controller prepares at a time, on an output that is confirmed safe.
OnePrepares(r) ==
    /\ \A c, d \in Controllers :
          r.ctl[c].state = "Warming" /\ r.ctl[d].state = "Warming" => c = d
    /\ WarmingOn(r) => CanPrepare(r.auth)

\* A gate that has failed is shut, and nobody owns the output or prepares to.
FailedGate(r) ==
    r.gate.failed =>
        /\ r.gate.enabled
        /\ ~r.gate.open
        /\ r.auth.lease = None
        /\ \A c \in Controllers : r.ctl[c].state \notin Live

ControlInv(r) ==
    /\ Typed(r)
    /\ Sound(r.auth, r.sent_safe, FALSE)
    /\ OwnLeases(r)
    /\ LeaseKnown(r)
    /\ OnePrepares(r)
    /\ FailedGate(r)

IInv == now \in Nat /\ ControlInv(rt)

-----------------------------------------------------------------------------
(* What the methods of an authority leave alone.                           *)

\* No lease is granted, and an output that may be prepared on stays so.
Eases(a, b) ==
    /\ b.instance = a.instance
    /\ b.lease \in {a.lease, None}
    /\ CanPrepare(a) => CanPrepare(b)

\* And nothing is sent.
Calm(a, b) == Eases(a, b) /\ b.sent = a.sent

\* A method left `b` behind, sound and calm; `s` is as in Sound.
Calmed(a, b, s) == b \in Authority /\ Sound(b, s, FALSE) /\ Calm(a, b)

\* Whoever had the lease has lost it.
Revoked(a, b, s) ==
    /\ b \in Authority /\ Sound(b, s, FALSE)
    /\ b.instance = a.instance
    /\ b.lease = None
    /\ b.sent = a.sent

\* Sound does not ask how the unknown send came about.
LEMMA Forgets ==
    ASSUME NEW a \in Authority, NEW s \in BOOLEAN, NEW u \in BOOLEAN, Sound(a, s, u)
    PROVE  Sound(a, s, FALSE)
  BY DEF Sound, Consistent, BlockedInv

\* Calm changes compose.
LEMMA CalmTransitive ==
    ASSUME NEW a \in Authority, NEW b \in Authority, NEW c, NEW s \in BOOLEAN,
           Calm(a, b), Calmed(b, c, s)
    PROVE  Calmed(a, c, s)
  BY DEF Calmed, Calm, Eases

\* What leaves the permission alone is calm.
LEMMA SameCalm ==
    ASSUME NEW a \in Authority, NEW b \in Authority, NEW s \in BOOLEAN, Sound(a, s, FALSE),
           SamePermission(a, b), SameEvidence(a, b)
    PROVE  Calmed(a, b, s)
<1>1. Sound(b, s, FALSE)
  BY SoundSame
<1>2. CanPrepare(a) => CanPrepare(b)
  BY DEF SamePermission, CanPrepare
<1> QED
  BY <1>1, <1>2 DEF Calmed, Calm, Eases, SamePermission

\* Doing nothing is calm.
LEMMA ItselfCalm ==
    ASSUME NEW a \in Authority, NEW s \in BOOLEAN, Sound(a, s, FALSE)
    PROVE  Calmed(a, a, s)
  BY DEF Calmed, Calm, Eases

\* A safe request revokes.
LEMMA RequestRevokes ==
    ASSUME NEW a \in Authority, NEW s \in BOOLEAN, Sound(a, s, FALSE), NEW fault \in BOOLEAN
    PROVE  /\ Revoked(a, Trip(a, fault), s)
           /\ a.profile # None => Revoked(a, RequestSafe(a, fault), s)
<1>1. ASSUME a.profile # None
      PROVE  Revoked(a, RequestSafe(a, fault), s)
  <2>1. /\ RequestSafe(a, fault) \in Authority
        /\ Requested(a, fault, RequestSafe(a, fault))
    BY RequestSafeFields
  <2>2. Sound(RequestSafe(a, fault), s, FALSE)
    BY <1>1, RequestSafeSound DEF Sound
  <2> QED
    BY <2>1, <2>2 DEF Requested, Revoked
<1>2. ASSUME a.profile = None
      PROVE  Revoked(a, a, s)
  BY <1>2 DEF Revoked, Sound, Consistent, LeaseInv
<1> QED
  BY <1>1, <1>2 DEF Trip

\* The watchdog takes a lease away, or does nothing.
LEMMA TickCalm ==
    ASSUME NEW a \in Authority, NEW s \in BOOLEAN, Sound(a, s, FALSE), NEW at
    PROVE  /\ Calmed(a, Tick(a, at), s)
           /\ Tick(a, at).lease # None => Tick(a, at) = a /\ ~(at >= a.lease.expires)
<1>1. CASE a.lease # None /\ at >= a.lease.expires
  <2>1. a.profile # None
    BY <1>1 DEF Sound, Consistent, LeaseInv
  <2>2. Tick(a, at) = RequestSafe(a, FALSE)
    BY <1>1 DEF Tick
  <2>3. Revoked(a, Tick(a, at), s)
    BY <2>1, <2>2, RequestRevokes
  <2>4. ~CanPrepare(a)
    BY <1>1 DEF CanPrepare
  <2> QED
    BY <2>3, <2>4 DEF Revoked, Calmed, Calm, Eases
<1>2. CASE ~(a.lease # None /\ at >= a.lease.expires)
  BY <1>2, ItselfCalm DEF Tick
<1> QED
  BY <1>1, <1>2

\* The acknowledgement of a fault is for outputs on which nobody prepares.
LEMMA AcknowledgeFaultCalm ==
    ASSUME NEW a \in Authority, NEW s \in BOOLEAN, Sound(a, s, FALSE)
    PROVE  Calmed(a, AcknowledgeFault(a), s)
<1>1. AcknowledgeFault(a) \in Authority /\ Sound(AcknowledgeFault(a), s, FALSE)
  BY AcknowledgeFaultSound
<1>2. Calm(a, AcknowledgeFault(a))
  BY DEF AcknowledgeFault, AcknowledgeFaultOk, Calm, Eases, CanPrepare, Authority
<1> QED
  BY <1>1, <1>2 DEF Calmed

\* A reservation needs work that nobody prepares beside.
LEMMA ReserveCalm ==
    ASSUME NEW a \in Authority, NEW s \in BOOLEAN, Sound(a, s, FALSE),
           NEW at \in Nat, NEW deadline \in Nat, NEW generation \in Nat
    PROVE  Calmed(a, ReserveTransport(a, at, deadline, generation), s)
<1> DEFINE b == ReserveTransport(a, at, deadline, generation)
           r == ReservedIntent(a, deadline, generation)
<1>1. b \in Authority /\ Sound(b, s, FALSE)
  BY ReserveSound
<1>2. Calm(a, b)
  <2>1. b \in {[a EXCEPT !.transport_reserved = r], ClearPending(a), a}
    BY Zenon DEF ReserveTransport
  <2>2. CanPrepare(a) => b = a
    BY DEF CanPrepare, ReserveTransport, ReserveOk, ReserveDropsPending
  <2>3. b.instance = a.instance /\ b.lease = a.lease /\ b.sent = a.sent
    <3> HIDE DEF b, r
    <3> QED
      BY <2>1 DEF ClearPending, Authority
  <2> QED
    BY <2>2, <2>3 DEF Calm, Eases
<1> QED
  BY <1>1, <1>2 DEF Calmed

\* An intent that is given back.
LEMMA AbortCalm ==
    ASSUME NEW a \in Authority, NEW s \in BOOLEAN, Sound(a, s, FALSE), NEW intent
    PROVE  /\ Calmed(a, AbortTransport(a, intent), s)
           /\ Calmed(a, FailTransportBeforeSend(a, intent), s)
<1>1. Calmed(a, AbortTransport(a, intent), s)
  <2> DEFINE r == [a EXCEPT !.transport_reserved = None]
             c == [a EXCEPT !.transport_reserved = None, !.pending = None]
  <2>1. r \in Authority /\ c \in Authority
    BY Zenon DEF Authority
  <2>2. Calm(a, r) /\ Calm(a, c)
    BY DEF Calm, Eases, CanPrepare, Authority
  <2>3. AbortTransport(a, intent) \in {a, r, FailManualBeforeSend(c)}
    BY Zenon DEF AbortTransport
  <2>4. AbortTransport(a, intent) \in Authority /\ Sound(AbortTransport(a, intent), s, FALSE)
    BY AbortSound
  <2> HIDE DEF r, c
  <2>5. /\ FailManualBeforeSend(c) \in Authority
        /\ SamePermission(c, FailManualBeforeSend(c))
    BY <2>1, FailManualFields
  <2>6. Calm(a, FailManualBeforeSend(c))
    BY <2>2, <2>5 DEF Calm, Eases, CanPrepare, SamePermission
  <2>7. Calm(a, a)
    BY DEF Calm, Eases
  <2> QED
    BY <2>2, <2>3, <2>4, <2>6, <2>7 DEF Calmed
<1>2. Calmed(a, FailTransportBeforeSend(a, intent), s)
  <2> DEFINE c == AbortTransport(a, intent)
             b == [c EXCEPT !.outcome = "Failed"]
  <2>1. FailTransportBeforeSend(a, intent) \in {a, b}
    BY Zenon DEF FailTransportBeforeSend
  <2>2. "Failed" \in DispatchOutcome
    BY DEF DispatchOutcome
  <2>3. Calmed(a, c, s) /\ c \in Authority /\ Sound(c, s, FALSE) /\ Calm(a, c)
    BY <1>1 DEF Calmed
  <2> HIDE DEF c
  <2>4. b \in Authority /\ SamePermission(c, b) /\ SameEvidence(c, b)
    BY <2>2, <2>3, SetOutcome
  <2> HIDE DEF b
  <2>5. Calmed(a, b, s)
    BY <2>3, <2>4, SameCalm, CalmTransitive
  <2> QED
    BY <2>1, <2>5, ItselfCalm
<1> QED
  BY <1>1, <1>2

\* A manual attempt that never got to its send.
LEMMA FailManualCalm ==
    ASSUME NEW a \in Authority, NEW s \in BOOLEAN, Sound(a, s, FALSE)
    PROVE  Calmed(a, FailManualBeforeSend(a), s)
<1>1. /\ FailManualBeforeSend(a) \in Authority
      /\ SamePermission(a, FailManualBeforeSend(a))
      /\ SameEvidence(a, FailManualBeforeSend(a))
  BY FailManualFields
<1> QED
  BY <1>1, SameCalm

\* Nobody proposes while the output may be prepared on.
LEMMA ProposedCalm ==
    ASSUME NEW a \in Authority, NEW s \in BOOLEAN, Sound(a, s, FALSE),
           NEW lease \in OutputLease, NEW ttl \in Nat, NEW at \in Nat,
           ProposeOk(a, lease, ttl, at)
    PROVE  Calmed(a, Proposed(a, lease, ttl, at), s)
<1> DEFINE p == Propose(a, lease, ttl, at)
           e == Earlier(at + ttl, lease.expires)
           n == NextAttempt(a)
           b == TrackManualAttempt(p, n)
<1>1. p \in Authority /\ Sound(p, s, FALSE)
  BY ProposeSound
<1>2. Calm(a, p)
  <2>1. p = [a EXCEPT !.pending = [lease |-> lease, expires |-> e]]
    BY Zenon DEF Propose
  <2> HIDE DEF p, e
  <2>2. p.instance = a.instance /\ p.lease = a.lease /\ p.sent = a.sent
    BY <2>1, Zenon DEF Authority
  <2>3. ~CanPrepare(a)
    BY DEF ProposeOk, CheckLease, CanPrepare, Armed
  <2> QED
    BY <2>2, <2>3 DEF Calm, Eases
<1>3. Proposed(a, lease, ttl, at) \in {p, b}
  BY Zenon DEF Proposed
<1>4. n \in Nat
  BY DEF NextAttempt, Authority, ManualAttempt
<1> HIDE DEF p, n
<1>5. b \in Authority /\ SamePermission(p, b) /\ SameEvidence(p, b)
  BY <1>1, <1>4, TrackFields
<1> HIDE DEF b
<1>6. Calmed(a, b, s)
  BY <1>1, <1>2, <1>5, SameCalm, CalmTransitive
<1> QED
  BY <1>1, <1>2, <1>3, <1>6 DEF Calmed

\* Failing closed revokes.
LEMMA FailClosedRevokes ==
    ASSUME NEW a \in Authority, NEW d \in Dispatch
    PROVE  /\ FailClosed(a, d).instance = a.instance
           /\ FailClosed(a, d).lease = None
           /\ FailClosed(a, d).sent = a.sent
<1> DEFINE b == RequestSafe(a, TRUE)
           c == [b EXCEPT !.ambiguous_safe_resend_blocked = TRUE, !.state = "FaultLatched"]
<1>1. b \in Authority /\ Requested(a, TRUE, b)
  BY RequestSafeFields
<1>2. FailClosed(a, d) \in {b, c}
  BY Zenon DEF FailClosed
<1> HIDE DEF b
<1>e. c = [b EXCEPT !.ambiguous_safe_resend_blocked = TRUE, !.state = "FaultLatched"]
  OBVIOUS
<1> HIDE DEF c
<1>3. c \in Authority /\ Blocked(b, c)
  BY <1>1, <1>e, BlockFields, Zenon
<1>4. b.instance = a.instance /\ b.lease = None /\ b.sent = a.sent
  BY <1>1 DEF Requested
<1>5. c.instance = a.instance /\ c.lease = None /\ c.sent = a.sent
  BY <1>3, <1>4 DEF Blocked
<1> QED
  BY <1>2, <1>4, <1>5

\* A completion, of whichever dispatch, grants nothing.
LEMMA CompleteCalm ==
    ASSUME NEW a \in Authority, NEW s \in BOOLEAN, Sound(a, s, FALSE),
           NEW id, NEW outcome \in DispatchOutcome
    PROVE  Calmed(a, Complete(a, id, outcome), s)
<1> DEFINE d == a.in_flight
           ack == IF outcome \in {"Acknowledged", "ReadbackVerified"}
                  THEN id.sequence ELSE a.acknowledged
           rb == IF outcome = "ReadbackVerified" THEN id.sequence ELSE a.readback
           c == [a EXCEPT !.in_flight = None, !.outcome = outcome,
                          !.acknowledged = ack, !.readback = rb]
           m == CaptureManualDelivery(c, id, TRUE)
           b == Complete(a, id, outcome)
<1>1. CASE IsInFlight(a, id)
  <2>1. d \in Dispatch /\ id \in DispatchId /\ a.in_flight # None
    BY <1>1, Numbers DEF IsInFlight
  <2>2. b \in {FailClosed(m, d), ConfirmSafe(m, d, outcome)}
    BY <1>1, Zenon DEF Complete
  <2>3. b \in Authority /\ Sound(b, s, FALSE)
    <3>1. Unknown(a, id, FALSE) \in BOOLEAN
      BY <2>1 DEF Unknown, IsInFlight, Dispatch
    <3> QED
      BY <2>1, <3>1, CompleteSound, Forgets
  <2>4. ack \in Nat /\ rb \in Nat
    BY <2>1 DEF Authority, DispatchId
  <2> HIDE DEF ack, rb, d, b
  <2>e. c = [a EXCEPT !.in_flight = None, !.outcome = outcome,
                      !.acknowledged = ack, !.readback = rb]
    OBVIOUS
  <2> HIDE DEF c
  <2>5. c \in Authority /\ Settled(a, c, ack, rb)
    BY <2>1, <2>4, <2>e, SettledConsistent, Zenon
  <2>6. m \in Authority /\ SamePermission(c, m)
    BY <2>1, <2>5, CaptureFields
  <2> HIDE DEF m
  <2>7. m.instance = a.instance /\ m.lease = a.lease /\ m.sent = a.sent
    BY <2>5, <2>6 DEF Settled, SamePermission
  <2>8. /\ FailClosed(m, d).instance = m.instance
        /\ FailClosed(m, d).lease = None
        /\ FailClosed(m, d).sent = m.sent
    BY <2>1, <2>6, FailClosedRevokes
  <2>9. /\ ConfirmSafe(m, d, outcome).instance = m.instance
        /\ ConfirmSafe(m, d, outcome).lease = m.lease
        /\ ConfirmSafe(m, d, outcome).sent = m.sent
    BY <2>6 DEF ConfirmSafe, Authority
  <2>10. ~CanPrepare(a)
    BY <2>1 DEF CanPrepare
  <2>11. b.instance = a.instance /\ b.lease \in {a.lease, None} /\ b.sent = a.sent
    BY <2>2, <2>7, <2>8, <2>9
  <2>12. Calmed(a, b, s)
    BY <2>3, <2>10, <2>11 DEF Calmed, Calm, Eases
  <2> QED
    BY <2>12 DEF b
<1>2. CASE ~IsInFlight(a, id)
  BY <1>2, ItselfCalm DEF Complete
<1> QED
  BY <1>1, <1>2

\* So do the other kinds of evidence.
LEMMA EvidenceCalm ==
    ASSUME NEW a \in Authority, NEW s \in BOOLEAN, Sound(a, s, FALSE),
           NEW id, NEW matched \in BOOLEAN
    PROVE  /\ Calmed(a, TransportUncertain(a, id), s)
           /\ Calmed(a, AcknowledgeTransport(a, id), s)
           /\ Calmed(a, CompleteTransportReadback(a, id, matched), s)
           /\ Calmed(a, FailTransportReadback(a, id), s)
<1>1. Calmed(a, TransportUncertain(a, id), s)
  <2>1. CASE IsInFlight(a, id)
    <3>1. a.in_flight \in Dispatch /\ id \in DispatchId /\ a.in_flight # None
      BY <2>1, Numbers DEF IsInFlight
    <3>2. Unknown(a, id, FALSE) \in BOOLEAN
      BY <3>1 DEF Unknown, IsInFlight, Dispatch
    <3>3. TransportUncertain(a, id) \in Authority /\ Sound(TransportUncertain(a, id), s, FALSE)
      BY <3>1, <3>2, UncertainSound, Forgets
    <3>4. TransportUncertain(a, id) = FailClosed(a, a.in_flight)
      BY <2>1 DEF TransportUncertain
    <3>5. ~CanPrepare(a)
      BY <3>1 DEF CanPrepare
    <3> QED
      BY <3>1, <3>3, <3>4, <3>5, FailClosedRevokes DEF Calmed, Calm, Eases
  <2>2. CASE ~IsInFlight(a, id)
    BY <2>2, ItselfCalm DEF TransportUncertain
  <2> QED
    BY <2>1, <2>2
<1>2. Calmed(a, AcknowledgeTransport(a, id), s)
  <2> DEFINE c == [a EXCEPT !.acknowledged = id.sequence, !.outcome = "Acknowledged"]
             b == CaptureManualDelivery(c, id, FALSE)
  <2>1. CASE IsInFlight(a, id)
    <3>1. id \in DispatchId /\ a.in_flight # None
      BY <2>1, Numbers DEF IsInFlight
    <3>2. id.sequence \in Nat /\ "Acknowledged" \in DispatchOutcome
      BY <3>1 DEF DispatchId, DispatchOutcome
    <3>3. c \in Authority
      BY <3>2, Zenon DEF Authority
    <3>4. SamePermission(a, c)
      BY Zenon DEF Authority, SamePermission
    <3>5. AcknowledgeTransport(a, id) = b
      BY <2>1, Zenon DEF AcknowledgeTransport
    <3>6. b \in Authority /\ Sound(b, s, FALSE)
      BY <3>1, <3>5, AcknowledgeSound
    <3> HIDE DEF c
    <3>7. SamePermission(c, b)
      BY <3>1, <3>3, CaptureFields
    <3> HIDE DEF b
    <3>8. ~CanPrepare(a)
      BY <3>1 DEF CanPrepare
    <3>9. Calmed(a, b, s)
      BY <3>4, <3>6, <3>7, <3>8 DEF SamePermission, Calmed, Calm, Eases
    <3> QED
      BY <3>5, <3>9
  <2>2. CASE ~IsInFlight(a, id)
    BY <2>2, ItselfCalm DEF AcknowledgeTransport
  <2> QED
    BY <2>1, <2>2
<1>3. ASSUME NEW f \in ReadbackFailure, NEW o \in DispatchOutcome
      PROVE  Calmed(a, Complete([a EXCEPT !.readback_failure = f], id, o), s)
  <2> DEFINE c == [a EXCEPT !.readback_failure = f]
             b == Complete(c, id, o)
  <2>1. c \in Authority /\ SamePermission(a, c) /\ SameEvidence(a, c)
    BY SetReadbackFailure
  <2> HIDE DEF c
  <2>2. Sound(c, s, FALSE) /\ Calm(a, c)
    BY <2>1, SameCalm DEF Calmed
  <2>3. Calmed(c, b, s)
    BY <2>1, <2>2, CompleteCalm
  <2> HIDE DEF b
  <2>4. Calmed(a, b, s)
    BY <2>1, <2>2, <2>3, CalmTransitive
  <2> QED
    BY <2>4 DEF b, c
<1>4. Calmed(a, CompleteTransportReadback(a, id, matched), s)
  <2>1. "Mismatch" \in ReadbackFailure /\ {"Failed", "ReadbackVerified"} \subseteq DispatchOutcome
    BY DEF ReadbackFailure, DispatchOutcome
  <2> QED
    BY <1>3, <2>1, ItselfCalm, CompleteCalm DEF CompleteTransportReadback
<1>5. Calmed(a, FailTransportReadback(a, id), s)
  <2>1. "Unavailable" \in ReadbackFailure /\ "Ambiguous" \in DispatchOutcome
    BY DEF ReadbackFailure, DispatchOutcome
  <2> QED
    BY <1>3, <2>1 DEF FailTransportReadback
<1> QED
  BY <1>1, <1>2, <1>4, <1>5

\* A simulated send leaves the permission as it is; a safe one is recorded as such.
LEMMA BeginEases ==
    ASSUME NEW a \in Authority, NEW s \in BOOLEAN, Sound(a, s, FALSE), NEW at \in Nat
    PROVE  /\ Begin(a, at) \in Authority
           /\ Eases(a, Begin(a, at))
           /\ BeginOk(a, at) =>
                 /\ Begin(a, at).in_flight # None
                 /\ Begin(a, at).in_flight.safe = BeginSafe(a)
                 /\ Sound(Begin(a, at), BeginSafe(a), FALSE)
           /\ ~BeginOk(a, at) => Calmed(a, Begin(a, at), s)
<1>1. /\ Begin(a, at) \in Authority
      /\ Begin(a, at).instance = a.instance
      /\ Begin(a, at).lease = a.lease
      /\ BeginOk(a, at) =>
            /\ Begin(a, at).in_flight # None
            /\ Begin(a, at).in_flight.safe = BeginSafe(a)
            /\ Sound(Begin(a, at), BeginSafe(a), FALSE)
      /\ ~BeginOk(a, at) => Sound(Begin(a, at), s, FALSE)
  BY BeginSound
<1>2. CanPrepare(a) => Begin(a, at) = a
  BY DEF CanPrepare, Begin, BeginOk, BeginDropsPending, BeginSafe
<1>3. ~BeginOk(a, at) => Begin(a, at).sent = a.sent
  BY DEF Begin, ClearPending, Authority
<1> QED
  BY <1>1, <1>2, <1>3 DEF Eases, Calm, Calmed

\* So does the physical send, which only takes what is reserved.
LEMMA BeginTransportEases ==
    ASSUME NEW a \in Authority, NEW s \in BOOLEAN, Sound(a, s, FALSE), NEW at \in Nat,
           NEW intent, intent # None, BeginTransportOk(a, intent, at)
    PROVE  /\ intent \in OutputIntent
           /\ BeginTransport(a, intent, at) \in Authority
           /\ Eases(a, BeginTransport(a, intent, at))
           /\ Sound(BeginTransport(a, intent, at), intent.safe, FALSE)
<1>1. intent = a.transport_reserved /\ intent \in OutputIntent
  BY DEF BeginTransportOk, ValidateTransport, Authority
<1>2. /\ BeginTransport(a, intent, at) \in Authority
      /\ Sound(BeginTransport(a, intent, at), intent.safe, FALSE)
      /\ BeginTransport(a, intent, at).instance = a.instance
      /\ BeginTransport(a, intent, at).lease = a.lease
  BY <1>1, BeginTransportSound
<1>3. ~CanPrepare(a)
  BY <1>1 DEF CanPrepare
<1> QED
  BY <1>1, <1>2, <1>3 DEF Eases

\* Acquiring grants a lease to the owner who asks, and to nobody else.
LEMMA AcquireLease ==
    ASSUME NEW a \in Authority, NEW s \in BOOLEAN, Sound(a, s, FALSE),
           NEW owner \in Owner, NEW lifetime \in Nat, NEW at \in Nat
    PROVE  /\ Acquire(a, owner, lifetime, at) \in Authority
           /\ Sound(Acquire(a, owner, lifetime, at), s, FALSE)
           /\ Acquire(a, owner, lifetime, at).instance = a.instance
           /\ Acquire(a, owner, lifetime, at).sent = a.sent
           /\ \/ Acquire(a, owner, lifetime, at).lease \in {a.lease, None}
              \/ Acquire(a, owner, lifetime, at).lease.owner = owner
<1> DEFINE l == [instance |-> a.instance, owner |-> owner, epoch |-> a.epoch + 1,
                 expires |-> at + lifetime]
           st == IF owner \in ManualOwners THEN "ArmedManual" ELSE "ArmedAuto"
           b == [a EXCEPT !.epoch = a.epoch + 1, !.lease = l, !.safe_confirmed = FALSE,
                          !.state = st]
<1>1. /\ Acquire(a, owner, lifetime, at) \in Authority
      /\ Sound(Acquire(a, owner, lifetime, at), s, FALSE)
  BY AcquireSound
<1>2. Acquire(a, owner, lifetime, at) \in {a, b, Exhausted(a)}
  BY Zenon DEF Acquire
<1>3. b.instance = a.instance /\ b.sent = a.sent /\ b.lease.owner = owner
  <2>1. l.owner = owner
    OBVIOUS
  <2> HIDE DEF l, st
  <2>2. b.instance = a.instance /\ b.sent = a.sent /\ b.lease = l
    BY Zenon DEF Authority
  <2> QED
    BY <2>1, <2>2
<1>4. /\ Exhausted(a).instance = a.instance
      /\ Exhausted(a).sent = a.sent
      /\ Exhausted(a).lease = None
  BY Zenon DEF Exhausted, Authority
<1> HIDE DEF b
<1> QED
  BY <1>1, <1>2, <1>3, <1>4

\* `lease` was renewed: its owner has a later one.
Renewed(a, b, lease, s) ==
    /\ b \in Authority /\ Sound(b, s, FALSE)
    /\ b.instance = a.instance
    /\ b.sent = a.sent
    /\ b.lease \in OutputLease
    /\ b.lease.owner = lease.owner
    /\ a.lease = lease
    /\ a.lease # None

\* Renewal gives the same owner a later lease.
LEMMA RenewLease ==
    ASSUME NEW a \in Authority, NEW s \in BOOLEAN, Sound(a, s, FALSE),
           NEW lease \in OutputLease, NEW lifetime \in Nat, NEW at \in Nat,
           RenewOk(a, lease, lifetime, at)
    PROVE  Renewed(a, Renew(a, lease, lifetime, at), lease, s)
<1>1. a.lease = lease /\ a.lease # None /\ lease \in OutputLease
  BY DEF RenewOk, CheckLease, Authority, Sound, Consistent, LeaseInv
<1>2. /\ Renew(a, lease, lifetime, at) \in Authority
      /\ Sound(Renew(a, lease, lifetime, at), s, FALSE)
  BY <1>1, RenewSound
<1> DEFINE l == [lease EXCEPT !.expires = at + lifetime]
<1>3. l \in OutputLease /\ l.owner = lease.owner
  BY <1>1 DEF OutputLease
<1>4. Renew(a, lease, lifetime, at) = [a EXCEPT !.lease = l]
  BY Zenon DEF Renew
<1> HIDE DEF l
<1>5. /\ Renew(a, lease, lifetime, at).lease = l
      /\ Renew(a, lease, lifetime, at).instance = a.instance
      /\ Renew(a, lease, lifetime, at).sent = a.sent
  BY <1>4, Zenon DEF Authority
<1> QED
  BY <1>1, <1>2, <1>3, <1>5 DEF Renewed

\* Binding a profile grants no lease.
LEMMA BindLease ==
    ASSUME NEW a \in Authority, NEW s \in BOOLEAN, Sound(a, s, FALSE),
           NEW evidence \in EvidenceLevel
    PROVE  /\ Bind(a, evidence) \in Authority
           /\ Sound(Bind(a, evidence), s, FALSE)
           /\ Bind(a, evidence).instance = a.instance
           /\ Bind(a, evidence).sent = a.sent
           /\ Bind(a, evidence).lease \in {a.lease, None}
<1> DEFINE b == [a EXCEPT !.epoch = a.epoch + 1, !.profile = evidence,
                          !.state = "Unverified", !.safe_confirmed = FALSE,
                          !.pending = None]
<1>1. Bind(a, evidence) \in Authority /\ Sound(Bind(a, evidence), s, FALSE)
  BY BindSound
<1>2. Bind(a, evidence) \in {a, b, Exhausted(a)}
  BY Zenon DEF Bind
<1>3. b.instance = a.instance /\ b.sent = a.sent /\ b.lease = a.lease
  BY Zenon DEF Authority
<1>4. /\ Exhausted(a).instance = a.instance
      /\ Exhausted(a).sent = a.sent
      /\ Exhausted(a).lease = None
  BY Zenon DEF Exhausted, Authority
<1> HIDE DEF b
<1> QED
  BY <1>1, <1>2, <1>3, <1>4

-----------------------------------------------------------------------------
(* Steps of the Runtime.                                                   *)

\* No send started, or the latest one is the safe write.
NothingOrdinary(r, s) ==
    /\ s.auth.instance = r.auth.instance
    /\ \/ s.auth.sent = r.auth.sent /\ s.sent_safe = r.sent_safe
       \/ s.sent_safe

\* Recording is confirmed and fresh.
Fresh(s, at) ==
    /\ RecordingOpen(s)
    /\ s.gate.enabled => at < s.gate.confirmed + ProgressAge

\* If an ordinary send started, it did while recording is fresh.
SendsFresh(r, s, at) ==
    /\ s.auth.instance = r.auth.instance
    /\ \/ s.auth.sent = r.auth.sent /\ s.sent_safe = r.sent_safe
       \/ s.sent_safe
       \/ Fresh(s, at)

\* The Runtime is well-formed and nothing ordinary was sent.
Safely(r, s) == ControlInv(s) /\ NothingOrdinary(r, s)

\* And the gate is as it was.
Steadily(r, s) == Safely(r, s) /\ s.gate = r.gate

\* The Runtime is well-formed and what was sent was allowed.
Freshly(r, s, at) == ControlInv(s) /\ SendsFresh(r, s, at)

\* The steps compose, as long as what follows a send leaves the gate alone.
LEMMA StepsCompose ==
    ASSUME NEW r, NEW s, NEW t, NEW at
    PROVE  /\ Safely(r, s) /\ Safely(s, t) => Safely(r, t)
           /\ Steadily(r, s) /\ Steadily(s, t) => Steadily(r, t)
           /\ Safely(r, s) /\ Freshly(s, t, at) => Freshly(r, t, at)
           /\ Freshly(r, s, at) /\ Steadily(s, t) => Freshly(r, t, at)
           /\ Safely(r, t) => Freshly(r, t, at)
  BY DEF Safely, Steadily, Freshly, NothingOrdinary, SendsFresh, Fresh, RecordingOpen

\* Doing nothing is a step.
LEMMA StayStep ==
    ASSUME NEW r, ControlInv(r)
    PROVE  Steadily(r, r)
  BY DEF Steadily, Safely, NothingOrdinary

\* What a lease and an owed safe state say of the profile.
LEMMA ProfileIsBound ==
    ASSUME NEW a \in Authority, NEW s \in BOOLEAN, Sound(a, s, FALSE)
    PROVE  /\ a.lease # None => a.profile # None /\ a.state \in Armed
           /\ a.state = "SafePending" => a.profile # None
           /\ a.state \in {"Disarmed", "SafePending"} => a.lease = None
  BY DEF Sound, Consistent, LeaseInv, SafeInv, Armed

\* The parts of a typed Runtime.
LEMMA Parts ==
    ASSUME NEW r, Typed(r)
    PROVE  /\ r.auth \in Authority
           /\ r.generation \in Nat
           /\ r.sent_safe \in BOOLEAN
           /\ r.ctl \in [Controllers -> Controller]
           /\ r.gate \in Gate
  BY Zenon DEF Typed

\* The parts that the invariant is about.
LEMMA Base ==
    ASSUME NEW r, ControlInv(r)
    PROVE  /\ Typed(r)
           /\ r.auth \in Authority
           /\ r.sent_safe \in BOOLEAN
           /\ r.generation \in Nat
           /\ r.gate \in Gate
           /\ Sound(r.auth, r.sent_safe, FALSE)
  BY Parts DEF ControlInv

\* Parts that agree with those of a typed Runtime, and the authority the step left.
Same(r, s) ==
    /\ Typed(s)
    /\ s.generation = r.generation
    /\ s.sent_safe = r.sent_safe
    /\ s.ctl = r.ctl
    /\ s.gate = r.gate

\* An authority that eases keeps the invariant.
LEMMA EaseKeeps ==
    ASSUME NEW r, ControlInv(r), NEW s, Typed(s), s.ctl = r.ctl, s.gate = r.gate,
           Eases(r.auth, s.auth), Sound(s.auth, s.sent_safe, FALSE)
    PROVE  ControlInv(s)
<1>1. OwnLeases(s)
  BY DEF ControlInv, OwnLeases
<1>2. LeaseKnown(s)
  BY DEF ControlInv, LeaseKnown, Eases
<1>3. OnePrepares(s)
  BY DEF ControlInv, OnePrepares, WarmingOn, Eases
<1>4. FailedGate(s)
  BY DEF ControlInv, FailedGate, Eases
<1> QED
  BY <1>1, <1>2, <1>3, <1>4 DEF ControlInv

\* In particular a calm one.
LEMMA CalmKeeps ==
    ASSUME NEW r, ControlInv(r), NEW s, Same(r, s), Calmed(r.auth, s.auth, r.sent_safe)
    PROVE  Steadily(r, s)
<1>1. ControlInv(s)
  BY EaseKeeps DEF Same, Calmed, Calm
<1> QED
  BY <1>1 DEF Steadily, Safely, NothingOrdinary, Same, Calmed, Calm, Eases

\* A revocation keeps it, once nobody prepares.
LEMMA RevokedKeeps ==
    ASSUME NEW r, ControlInv(r), NEW s, Typed(s), s.sent_safe = r.sent_safe,
           Revoked(r.auth, s.auth, r.sent_safe),
           OwnLeases(s),
           \A c \in Controllers : s.ctl[c].state # "Warming",
           s.gate.failed =>
              /\ s.gate.enabled
              /\ ~s.gate.open
              /\ \A c \in Controllers : s.ctl[c].state # "Running"
    PROVE  Safely(r, s)
<1>1. LeaseKnown(s)
  BY DEF LeaseKnown, Revoked
<1>2. OnePrepares(s)
  BY DEF OnePrepares, WarmingOn
<1>3. FailedGate(s)
  BY DEF FailedGate, Revoked, Live
<1>4. Sound(s.auth, s.sent_safe, FALSE)
  BY DEF Revoked
<1> QED
  BY <1>1, <1>2, <1>3, <1>4 DEF ControlInv, Safely, NothingOrdinary, Revoked

\* The fields of an update of the authority.
LEMMA SetAuth ==
    ASSUME NEW r, Typed(r), NEW b \in Authority, NEW s, s = [r EXCEPT !.auth = b]
    PROVE  Same(r, s) /\ s.auth = b
<1>1. /\ s.auth = b /\ s.ex = r.ex /\ s.generation = r.generation
      /\ s.writes = r.writes /\ s.readbacks = r.readbacks /\ s.unsettled = r.unsettled
      /\ s.sent_safe = r.sent_safe /\ s.ctl = r.ctl /\ s.gate = r.gate
  BY Zenon DEF Typed
<1>2. Typed(s)
  BY <1>1, Zenon DEF Typed
<1> QED
  BY <1>1, <1>2 DEF Same

\* A calm method called on the authority of a Runtime.
LEMMA CalmStep ==
    ASSUME NEW r, ControlInv(r), NEW b, Calmed(r.auth, b, r.sent_safe),
           NEW s, s = [r EXCEPT !.auth = b]
    PROVE  Steadily(r, s) /\ Same(r, s) /\ s.auth = b
<1>1. Same(r, s) /\ s.auth = b
  BY SetAuth DEF ControlInv, Calmed
<1> QED
  BY <1>1, CalmKeeps

\* The fields of an update of the executor and the correlations.
LEMMA SetOpaque ==
    ASSUME NEW r, Typed(r), NEW x
    PROVE  /\ Shaped(x) => Same(r, [r EXCEPT !.ex = x]) /\ [r EXCEPT !.ex = x].auth = r.auth
           /\ Same(r, [r EXCEPT !.writes = x]) /\ [r EXCEPT !.writes = x].auth = r.auth
           /\ Same(r, [r EXCEPT !.readbacks = x]) /\ [r EXCEPT !.readbacks = x].auth = r.auth
           /\ Same(r, [r EXCEPT !.unsettled = x]) /\ [r EXCEPT !.unsettled = x].auth = r.auth
<1>1. ASSUME NEW s, s = [r EXCEPT !.ex = x], Shaped(x)
      PROVE  Same(r, s) /\ s.auth = r.auth
  <2>1. /\ s.auth = r.auth /\ s.ex = x /\ s.generation = r.generation
        /\ s.writes = r.writes /\ s.readbacks = r.readbacks /\ s.unsettled = r.unsettled
        /\ s.sent_safe = r.sent_safe /\ s.ctl = r.ctl /\ s.gate = r.gate
    BY <1>1, Zenon DEF Typed
  <2>2. Typed(s)
    BY <1>1, <2>1, Zenon DEF Typed
  <2> QED
    BY <2>1, <2>2 DEF Same
<1>2. ASSUME NEW s, s = [r EXCEPT !.writes = x]
      PROVE  Same(r, s) /\ s.auth = r.auth
  <2>1. /\ s.auth = r.auth /\ s.ex = r.ex /\ s.generation = r.generation
        /\ s.writes = x /\ s.readbacks = r.readbacks /\ s.unsettled = r.unsettled
        /\ s.sent_safe = r.sent_safe /\ s.ctl = r.ctl /\ s.gate = r.gate
    BY <1>2, Zenon DEF Typed
  <2>2. Typed(s)
    BY <1>2, <2>1, Zenon DEF Typed
  <2> QED
    BY <2>1, <2>2 DEF Same
<1>3. ASSUME NEW s, s = [r EXCEPT !.readbacks = x]
      PROVE  Same(r, s) /\ s.auth = r.auth
  <2>1. /\ s.auth = r.auth /\ s.ex = r.ex /\ s.generation = r.generation
        /\ s.writes = r.writes /\ s.readbacks = x /\ s.unsettled = r.unsettled
        /\ s.sent_safe = r.sent_safe /\ s.ctl = r.ctl /\ s.gate = r.gate
    BY <1>3, Zenon DEF Typed
  <2>2. Typed(s)
    BY <1>3, <2>1, Zenon DEF Typed
  <2> QED
    BY <2>1, <2>2 DEF Same
<1>4. ASSUME NEW s, s = [r EXCEPT !.unsettled = x]
      PROVE  Same(r, s) /\ s.auth = r.auth
  <2>1. /\ s.auth = r.auth /\ s.ex = r.ex /\ s.generation = r.generation
        /\ s.writes = r.writes /\ s.readbacks = r.readbacks /\ s.unsettled = x
        /\ s.sent_safe = r.sent_safe /\ s.ctl = r.ctl /\ s.gate = r.gate
    BY <1>4, Zenon DEF Typed
  <2>2. Typed(s)
    BY <1>4, <2>1, Zenon DEF Typed
  <2> QED
    BY <2>1, <2>2 DEF Same
<1> QED
  BY <1>1, <1>2, <1>3, <1>4, Zenon

\* Such an update changes nothing that matters here.
LEMMA OpaqueStep ==
    ASSUME NEW r, ControlInv(r), NEW s, Same(r, s), s.auth = r.auth
    PROVE  Steadily(r, s)
<1>1. Calmed(r.auth, r.auth, r.sent_safe)
  BY Parts, ItselfCalm DEF ControlInv
<1> QED
  BY <1>1, CalmKeeps

\* `s` is `r` with controller `c` replaced by `k`.
Placed(r, s, c, k) ==
    /\ Typed(s)
    /\ s.auth = r.auth
    /\ s.generation = r.generation
    /\ s.sent_safe = r.sent_safe
    /\ s.gate = r.gate
    /\ s.ctl[c] = k
    /\ \A d \in Controllers : d # c => s.ctl[d] = r.ctl[d]

\* The fields of an update of one controller.
LEMMA SetController ==
    ASSUME NEW r, Typed(r), NEW c \in Controllers, NEW k \in Controller,
           NEW s, s = [r EXCEPT !.ctl[c] = k]
    PROVE  Placed(r, s, c, k)
<1> DEFINE f == [r.ctl EXCEPT ![c] = k]
<1>1. /\ f \in [Controllers -> Controller]
      /\ f[c] = k
      /\ \A d \in Controllers : d # c => f[d] = r.ctl[d]
  BY Parts
<1>2. s = [r EXCEPT !.ctl = f]
  OBVIOUS
<1> HIDE DEF f
<1>3. /\ s.auth = r.auth /\ s.ex = r.ex /\ s.generation = r.generation
      /\ s.writes = r.writes /\ s.readbacks = r.readbacks /\ s.unsettled = r.unsettled
      /\ s.sent_safe = r.sent_safe /\ s.ctl = f /\ s.gate = r.gate
  BY <1>2, Zenon DEF Typed
<1>4. Typed(s)
  BY <1>1, <1>2, <1>3, Zenon DEF Typed
<1> QED
  BY <1>1, <1>3, <1>4 DEF Placed

\* What a controller may become.
MayBecome(r, c, k) ==
    /\ k \in Controller
    /\ k.lease # None => k.lease.owner = c
    /\ k.state = "Running" => k.lease # None
    /\ r.auth.lease # None /\ r.auth.lease.owner = c =>
          k.state = "Running" /\ k.lease = r.auth.lease
    /\ k.state = "Warming" =>
          r.ctl[c].state = "Warming" \/ (~WarmingOn(r) /\ CanPrepare(r.auth))
    /\ k.state \in Live => ~r.gate.failed

\* A controller that becomes what it may keeps the invariant.
LEMMA PlacedKeeps ==
    ASSUME NEW r, ControlInv(r), NEW c \in Controllers, NEW k, MayBecome(r, c, k),
           NEW s, Placed(r, s, c, k)
    PROVE  Steadily(r, s)
<1>1. OwnLeases(s)
  BY DEF ControlInv, OwnLeases, MayBecome, Placed
<1>2. LeaseKnown(s)
  BY DEF ControlInv, LeaseKnown, MayBecome, Placed
<1>3. OnePrepares(s)
  BY DEF ControlInv, OnePrepares, WarmingOn, MayBecome, Placed
<1>4. FailedGate(s)
  BY DEF ControlInv, FailedGate, MayBecome, Placed
<1>5. ControlInv(s)
  BY <1>1, <1>2, <1>3, <1>4 DEF ControlInv, Placed
<1> QED
  BY <1>5 DEF Steadily, Safely, NothingOrdinary, Placed

\* The fields of a controller.
LEMMA ControllerFields ==
    ASSUME NEW r, Typed(r), NEW c \in Controllers
    PROVE  /\ r.ctl[c] \in Controller
           /\ r.ctl[c].state \in ControllerState
           /\ r.ctl[c].lease \in OutputLease \cup {None}
           /\ r.ctl[c].last_tick \in Nat
  BY Parts DEF Controller

\* A controller that does not run is moved to a state of rest.
LEMMA SetCtlStep ==
    ASSUME NEW r, ControlInv(r), NEW c \in Controllers,
           NEW state \in {"Ready", "Paused", "Failed", "Removed"},
           r.ctl[c].state # "Running"
    PROVE  /\ Steadily(r, SetCtl(r, c, state))
           /\ Placed(r, SetCtl(r, c, state), c, [r.ctl[c] EXCEPT !.state = state])
           /\ SetCtl(r, c, state).ctl[c].state = state
<1> DEFINE k == [r.ctl[c] EXCEPT !.state = state]
           s == SetCtl(r, c, state)
<1>1. r.ctl[c] \in Controller /\ Typed(r)
  BY ControllerFields DEF ControlInv
<1>2. k \in Controller /\ k.state = state /\ k.lease = r.ctl[c].lease
  BY <1>1 DEF Controller, ControllerState
<1>3. s = [r EXCEPT !.ctl[c] = k]
  BY DEF SetCtl
<1> HIDE DEF k, s
<1>4. Placed(r, s, c, k)
  BY <1>1, <1>2, <1>3, SetController
<1>5. MayBecome(r, c, k)
  BY <1>2 DEF MayBecome, ControlInv, OwnLeases, LeaseKnown, Live
<1>6. Steadily(r, s) /\ s.ctl[c].state = state
  BY <1>2, <1>4, <1>5, PlacedKeeps DEF Placed
<1> QED
  BY <1>4, <1>6 DEF s, k

\* The cadence of a controller.
LEMMA TickedStep ==
    ASSUME NEW r, ControlInv(r), NEW c \in Controllers, NEW at \in Nat
    PROVE  /\ Steadily(r, [r EXCEPT !.ctl[c].last_tick = at])
           /\ Placed(r, [r EXCEPT !.ctl[c].last_tick = at], c,
                     [r.ctl[c] EXCEPT !.last_tick = at])
           /\ [r EXCEPT !.ctl[c].last_tick = at].ctl[c].state = r.ctl[c].state
<1> DEFINE k == [r.ctl[c] EXCEPT !.last_tick = at]
           s == [r EXCEPT !.ctl[c].last_tick = at]
<1>1. r.ctl[c] \in Controller /\ Typed(r)
  BY ControllerFields DEF ControlInv
<1>2. k \in Controller /\ k.state = r.ctl[c].state /\ k.lease = r.ctl[c].lease
  BY <1>1 DEF Controller
<1>3. s = [r EXCEPT !.ctl[c] = k]
  OBVIOUS
<1> HIDE DEF k, s
<1>4. Placed(r, s, c, k)
  BY <1>1, <1>2, <1>3, SetController
<1>5. MayBecome(r, c, k)
  BY <1>2 DEF MayBecome, ControlInv, OwnLeases, LeaseKnown, FailedGate
<1>6. Steadily(r, s) /\ s.ctl[c].state = r.ctl[c].state
  BY <1>2, <1>4, <1>5, PlacedKeeps DEF Placed
<1> QED
  BY <1>4, <1>6 DEF s, k

-----------------------------------------------------------------------------
(* Required recording.                                                     *)

\* Nobody begins to prepare.
Entered(r, s) == Safely(r, s) /\ (WarmingOn(s) => WarmingOn(r))

\* Entries compose.
LEMMA EnteredCompose ==
    ASSUME NEW r, NEW s, NEW t, Entered(r, s), Entered(s, t)
    PROVE  Entered(r, t)
  BY StepsCompose DEF Entered

\* The controllers after required recording has failed.
StoppedOne(k) ==
    IF k.state \in Live THEN [k EXCEPT !.state = "Failed", !.lease = None] ELSE k

Stopped(ctl) == [c \in Controllers |-> StoppedOne(ctl[c])]

\* A stopped controller has neither a lease nor hopes of one.
LEMMA StoppedController ==
    ASSUME NEW k \in Controller
    PROVE  /\ StoppedOne(k) \in Controller
           /\ StoppedOne(k).state \notin Live
           /\ StoppedOne(k).lease \in {k.lease, None}
  BY DEF StoppedOne, Controller, ControllerState, Live

Replaced(r, g, f, b) == [r EXCEPT !.gate = g, !.ctl = f, !.auth = b]

\* `s` is `r` with another gate, other controllers and another authority.
Installed(r, s, g, f, b) ==
    /\ Typed(s)
    /\ s.gate = g /\ s.ctl = f /\ s.auth = b
    /\ s.generation = r.generation /\ s.sent_safe = r.sent_safe

\* The fields of an update of the three together.
LEMMA SetThree ==
    ASSUME NEW r, Typed(r), NEW g \in Gate, NEW f \in [Controllers -> Controller],
           NEW b \in Authority
    PROVE  Installed(r, Replaced(r, g, f, b), g, f, b)
<1> DEFINE s == Replaced(r, g, f, b)
<1>0. s = [r EXCEPT !.gate = g, !.ctl = f, !.auth = b]
  BY DEF Replaced
<1> HIDE DEF s
<1>1. /\ s.auth = b /\ s.ex = r.ex /\ s.generation = r.generation
      /\ s.writes = r.writes /\ s.readbacks = r.readbacks /\ s.unsettled = r.unsettled
      /\ s.sent_safe = r.sent_safe /\ s.ctl = f /\ s.gate = g
  BY <1>0, Zenon DEF Typed
<1>2. Typed(s)
  BY <1>0, <1>1, Zenon DEF Typed
<1>3. Installed(r, s, g, f, b)
  BY <1>1, <1>2 DEF Installed
<1> QED
  BY <1>3 DEF s

\* A failed gate takes every controller down and revokes.
LEMMA RecordingFailureKeeps ==
    ASSUME NEW r, ControlInv(r)
    PROVE  /\ Entered(r, RecordingFailure(r))
           /\ r.gate.enabled => /\ RecordingFailure(r).gate.enabled
                                /\ ~RecordingFailure(r).gate.open
<1>1. CASE ~r.gate.enabled \/ r.gate.failed
  <2>1. RecordingFailure(r) = r
    BY <1>1 DEF RecordingFailure
  <2> QED
    BY <1>1, <2>1, StayStep DEF Entered, Steadily, ControlInv, FailedGate
<1>2. CASE r.gate.enabled /\ ~r.gate.failed
  <2> DEFINE g == [r.gate EXCEPT !.open = FALSE, !.failed = TRUE]
             f == Stopped(r.ctl)
             b == Trip(r.auth, TRUE)
             s == RecordingFailure(r)
  <2>1. s = Replaced(r, g, f, b)
    BY <1>2, Zenon DEF RecordingFailure, Stopped, StoppedOne, Replaced
  <2>2. Typed(r) /\ Sound(r.auth, r.sent_safe, FALSE) /\ OwnLeases(r)
    BY DEF ControlInv
  <2>3. g \in Gate /\ g.enabled /\ ~g.open /\ g.failed
    BY <1>2, <2>2, Parts DEF Gate
  <2>4. Revoked(r.auth, b, r.sent_safe)
    BY <2>2, Parts, RequestRevokes
  <2>5. ASSUME NEW c \in Controllers
        PROVE  /\ f[c] \in Controller
               /\ f[c].state \notin Live
               /\ f[c].lease # None => f[c].lease.owner = c
    <3>1. r.ctl[c] \in Controller
      BY <2>2, ControllerFields
    <3>2. f[c] = StoppedOne(r.ctl[c])
      BY DEF Stopped
    <3>3. r.ctl[c].lease # None => r.ctl[c].lease.owner = c
      BY <2>2 DEF OwnLeases
    <3> QED
      BY <3>1, <3>2, <3>3, StoppedController
  <2>6. f \in [Controllers -> Controller]
    BY <2>5 DEF Stopped
  <2> HIDE DEF g, f, b, s
  <2>7. /\ Typed(s)
        /\ s.gate = g /\ s.ctl = f /\ s.auth = b
        /\ s.generation = r.generation /\ s.sent_safe = r.sent_safe
    <3>1. b \in Authority
      BY <2>4 DEF Revoked
    <3>2. Installed(r, s, g, f, b)
      BY <2>1, <2>2, <2>3, <2>6, <3>1, SetThree
    <3> QED
      BY <3>2 DEF Installed
  <2>8. OwnLeases(s)
    BY <2>5, <2>7 DEF OwnLeases, Live
  <2>9. \A c \in Controllers : s.ctl[c].state \notin {"Warming", "Running"}
    BY <2>5, <2>7 DEF Live
  <2>10. Safely(r, s)
    BY <2>3, <2>4, <2>7, <2>8, <2>9, RevokedKeeps
  <2>11. ~WarmingOn(s)
    BY <2>9 DEF WarmingOn
  <2>12. Entered(r, s) /\ s.gate.enabled /\ ~s.gate.open
    BY <2>3, <2>7, <2>10, <2>11 DEF Entered
  <2> QED
    BY <2>12 DEF s
<1> QED
  BY <1>1, <1>2, Parts DEF ControlInv, Gate

\* What is open after the deadline was served is fresh.
LEMMA DeadlineKeeps ==
    ASSUME NEW r, ControlInv(r), NEW at \in Nat
    PROVE  /\ Entered(r, ServiceRecordingDeadline(r, at))
           /\ RecordingOpen(ServiceRecordingDeadline(r, at)) =>
                 Fresh(ServiceRecordingDeadline(r, at), at)
<1>1. CASE r.gate.enabled /\ (r.gate.lost \/ (r.gate.open /\ at >= r.gate.confirmed + ProgressAge))
  <2>1. ServiceRecordingDeadline(r, at) = RecordingFailure(r)
    BY <1>1 DEF ServiceRecordingDeadline
  <2> QED
    BY <1>1, <2>1, RecordingFailureKeeps DEF RecordingOpen
<1>2. CASE ~(r.gate.enabled /\ (r.gate.lost \/ (r.gate.open /\ at >= r.gate.confirmed + ProgressAge)))
  <2>1. ServiceRecordingDeadline(r, at) = r
    BY <1>2 DEF ServiceRecordingDeadline
  <2>2. Entered(r, r)
    BY StayStep DEF Entered, Steadily
  <2>3. r.gate.confirmed \in Nat /\ ProgressAge \in Nat
    BY Parts, ConfigAssumption DEF ControlInv, Gate
  <2>4. RecordingOpen(r) => Fresh(r, at)
    BY <1>2, <2>3 DEF RecordingOpen, Fresh
  <2> QED
    BY <2>1, <2>2, <2>4
<1> QED
  BY <1>1, <1>2

\* require_recording_open.
LEMMA RequireOpenKeeps ==
    ASSUME NEW r, ControlInv(r), NEW at \in Nat
    PROVE  /\ Entered(r, RequireRecordingOpen(r, at).rt)
           /\ RequireRecordingOpen(r, at).ok => Fresh(RequireRecordingOpen(r, at).rt, at)
  BY DeadlineKeeps DEF RequireRecordingOpen, Done, Refused

\* A change of the gate alone.
LEMMA GateStep ==
    ASSUME NEW r, ControlInv(r), NEW g \in Gate,
           g.failed => r.gate.failed /\ g.enabled /\ ~g.open,
           NEW s, s = [r EXCEPT !.gate = g]
    PROVE  Entered(r, s)
<1>1. Typed(r)
  BY DEF ControlInv
<1>2. /\ s.auth = r.auth /\ s.ex = r.ex /\ s.generation = r.generation
      /\ s.writes = r.writes /\ s.readbacks = r.readbacks /\ s.unsettled = r.unsettled
      /\ s.sent_safe = r.sent_safe /\ s.ctl = r.ctl /\ s.gate = g
  BY <1>1, Zenon DEF Typed
<1>3. Typed(s)
  BY <1>1, <1>2, Zenon DEF Typed
<1>4. ControlInv(s)
  BY <1>2, <1>3
  DEF ControlInv, OwnLeases, LeaseKnown, OnePrepares, WarmingOn, FailedGate
<1> QED
  BY <1>2, <1>4 DEF Entered, Safely, NothingOrdinary, WarmingOn

\* What the recorder tells.
LEMMA RecorderKeeps ==
    ASSUME NEW r, ControlInv(r), NEW submitted \in Nat, NEW at \in Nat
    PROVE  /\ Safely(r, RequireRecording(r))
           /\ Safely(r, ConfirmRecordingStart(r, submitted, at).rt)
           /\ Safely(r, ConfirmRecordingProgress(r, submitted, at).rt)
           /\ Safely(r, CloseRequiredRecording(r))
           /\ Safely(r, [r EXCEPT !.gate.lost = TRUE])
<1>0. r.gate \in Gate /\ (r.gate.failed => r.gate.enabled /\ ~r.gate.open)
  BY Parts DEF ControlInv, FailedGate
<1>1. Safely(r, RequireRecording(r))
  <2> DEFINE g == [r.gate EXCEPT !.enabled = TRUE, !.open = FALSE, !.failed = FALSE]
  <2>1. g \in Gate /\ ~g.failed
    BY <1>0 DEF Gate
  <2>2. RequireRecording(r) = [r EXCEPT !.gate = g]
    BY DEF RequireRecording
  <2> HIDE DEF g
  <2> QED
    BY <2>1, <2>2, GateStep DEF Entered
<1>2. Safely(r, ConfirmRecordingStart(r, submitted, at).rt)
  <2> DEFINE g == [r.gate EXCEPT !.open = TRUE, !.confirmed = submitted]
             t == [r EXCEPT !.gate = g]
  <2>1. ConfirmRecordingStart(r, submitted, at) \in
           {Refused(r), Refused(RecordingFailure(r)), Done(t)}
    BY DEF ConfirmRecordingStart
  <2>2. ConfirmRecordingStart(r, submitted, at) = Done(t) =>
           ~r.gate.failed \/ ConfirmRecordingStart(r, submitted, at).rt = r
    BY <1>0 DEF ConfirmRecordingStart, Refused, Done
  <2>3. g \in Gate /\ g.failed = r.gate.failed
    BY <1>0 DEF Gate
  <2> HIDE DEF g
  <2>4. ~r.gate.failed => Safely(r, t)
    BY <2>3, GateStep DEF Entered
  <2> HIDE DEF t
  <2> QED
    BY <2>1, <2>2, <2>4, StayStep, RecordingFailureKeeps DEF Refused, Done, Entered, Steadily
<1>3. Safely(r, ConfirmRecordingProgress(r, submitted, at).rt)
  <2> DEFINE s == ServiceRecordingDeadline(r, at)
             g == [s.gate EXCEPT !.confirmed = submitted]
             t == [s EXCEPT !.gate = g]
  <2>1. Safely(r, s) /\ ControlInv(s)
    BY DeadlineKeeps DEF Entered, Safely
  <2>2. ConfirmRecordingProgress(r, submitted, at) \in
           {Refused(s), Refused(RecordingFailure(s)), Done(t)}
    BY DEF ConfirmRecordingProgress
  <2> HIDE DEF s
  <2>3. s.gate \in Gate /\ (s.gate.failed => s.gate.enabled /\ ~s.gate.open)
    BY <2>1, Parts DEF ControlInv, FailedGate
  <2>4. g \in Gate /\ g.failed = s.gate.failed /\ g.open = s.gate.open /\ g.enabled = s.gate.enabled
    BY <2>3 DEF Gate
  <2> HIDE DEF g
  <2>5. Safely(s, t)
    BY <2>1, <2>3, <2>4, GateStep DEF Entered
  <2>6. Safely(s, RecordingFailure(s))
    BY <2>1, RecordingFailureKeeps DEF Entered
  <2> HIDE DEF t
  <2> QED
    BY <2>1, <2>2, <2>5, <2>6, StepsCompose DEF Refused, Done
<1>4. Safely(r, CloseRequiredRecording(r))
  <2> DEFINE g == [r.gate EXCEPT !.open = FALSE]
             t == [r EXCEPT !.gate = g]
  <2>1. g \in Gate /\ g.failed = r.gate.failed /\ ~g.open /\ g.enabled = r.gate.enabled
    BY <1>0 DEF Gate
  <2>2. CloseRequiredRecording(r) \in {t, r}
    BY DEF CloseRequiredRecording
  <2> HIDE DEF g
  <2>3. Safely(r, t)
    BY <1>0, <2>1, GateStep DEF Entered
  <2> HIDE DEF t
  <2> QED
    BY <2>2, <2>3, StayStep DEF Steadily
<1>5. Safely(r, [r EXCEPT !.gate.lost = TRUE])
  <2> DEFINE g == [r.gate EXCEPT !.lost = TRUE]
             t == [r EXCEPT !.gate = g]
  <2>1. g \in Gate /\ g.failed = r.gate.failed /\ g.open = r.gate.open /\ g.enabled = r.gate.enabled
    BY <1>0 DEF Gate
  <2>2. [r EXCEPT !.gate.lost = TRUE] = t
    OBVIOUS
  <2> HIDE DEF g
  <2>3. Safely(r, t)
    BY <1>0, <2>1, GateStep DEF Entered
  <2> QED
    BY <2>2, <2>3
<1> QED
  BY <1>1, <1>2, <1>3, <1>4, <1>5

-----------------------------------------------------------------------------
(* Output commands.                                                        *)

\* While nobody prepares, a lease may come only to a manual owner, and only
\* while the gate has not failed.
LEMMA IdleKeeps ==
    ASSUME NEW r, ControlInv(r), NEW s, Same(r, s), ~WarmingOn(r),
           Sound(s.auth, r.sent_safe, FALSE),
           s.auth.instance = r.auth.instance,
           s.auth.sent = r.auth.sent,
           \/ s.auth.lease \in {r.auth.lease, None}
           \/ s.auth.lease.owner \notin Controllers /\ ~r.gate.failed
    PROVE  Steadily(r, s)
<1>1. OwnLeases(s)
  BY DEF ControlInv, OwnLeases, Same
<1>2. LeaseKnown(s)
  BY DEF ControlInv, LeaseKnown, Same
<1>3. OnePrepares(s)
  BY DEF OnePrepares, WarmingOn, Same
<1>4. FailedGate(s)
  BY DEF ControlInv, FailedGate, Same
<1>5. ControlInv(s)
  BY <1>1, <1>2, <1>3, <1>4 DEF ControlInv, Same
<1> QED
  BY <1>5 DEF Steadily, Safely, NothingOrdinary, Same

\* The watchdog of every command: a lease that remains has not expired.
LEMMA CheckTimeKeeps ==
    ASSUME NEW r, ControlInv(r), NEW at
    PROVE  /\ Steadily(r, CheckOutputTime(r, at).rt)
           /\ Same(r, CheckOutputTime(r, at).rt)
           /\ LET a == CheckOutputTime(r, at).rt.auth
              IN  a.lease # None => ~(at >= a.lease.expires)
<1> DEFINE b == Tick(r.auth, at)
           s == [r EXCEPT !.auth = b]
<1>1. r.auth \in Authority /\ r.sent_safe \in BOOLEAN /\ Sound(r.auth, r.sent_safe, FALSE)
  BY Parts DEF ControlInv
<1>2. Calmed(r.auth, b, r.sent_safe) /\ (b.lease # None => b = r.auth /\ ~(at >= r.auth.lease.expires))
  BY <1>1, TickCalm
<1>3. CheckOutputTime(r, at).rt = s
  BY DEF CheckOutputTime
<1> HIDE DEF b
<1>4. Steadily(r, s) /\ Same(r, s) /\ s.auth = b
  BY <1>2, CalmStep
<1> HIDE DEF s
<1> QED
  BY <1>2, <1>3, <1>4

\* Steps that touch no controller.
LEMMA SameEntered ==
    ASSUME NEW r, NEW s, Steadily(r, s), Same(r, s)
    PROVE  Entered(r, s)
  BY DEF Entered, Steadily, Same, WarmingOn

\* Every Command::Output.
LEMMA OutputEntryKeeps ==
    ASSUME NEW r, ControlInv(r), NEW at \in Nat, NEW ordinary
    PROVE  /\ Entered(r, OutputEntry(r, at, ordinary).rt)
           /\ ControlInv(OutputEntry(r, at, ordinary).rt)
           /\ OutputEntry(r, at, ordinary).ok /\ ordinary =>
                 RecordingOpen(OutputEntry(r, at, ordinary).rt)
<1> DEFINE s == ServiceRecordingDeadline(r, at)
           t == CheckOutputTime(s, at).rt
<1>1. Entered(r, s)
  BY DeadlineKeeps
<1>2. OutputEntry(r, at, ordinary) =
         IF ordinary /\ ~RecordingOpen(s) THEN Refused(s) ELSE CheckOutputTime(s, at)
  BY DEF OutputEntry
<1> HIDE DEF s
<1>3. Steadily(s, t) /\ Same(s, t)
  BY <1>1, CheckTimeKeeps DEF Entered, Safely
<1>4. Entered(s, t) /\ (RecordingOpen(s) => RecordingOpen(t))
  BY <1>3, SameEntered DEF Same, RecordingOpen
<1>5. Entered(r, t)
  BY <1>1, <1>4, EnteredCompose
<1>6. OutputEntry(r, at, ordinary).rt \in {s, t}
  BY <1>2 DEF Refused
<1>7. OutputEntry(r, at, ordinary).ok /\ ordinary =>
         RecordingOpen(s) /\ OutputEntry(r, at, ordinary).rt = t
  BY <1>2 DEF Refused
<1> HIDE DEF t
<1> QED
  BY <1>1, <1>4, <1>5, <1>6, <1>7 DEF Entered, Safely

\* A safe request cancels what prepares.
CalledOff(ctl, state) ==
    [c \in Controllers |-> IF ctl[c].state = "Warming"
                           THEN [ctl[c] EXCEPT !.state = state] ELSE ctl[c]]

\* Called-off warm-ups, field by field.
LEMMA CancelFields ==
    ASSUME NEW r, ControlInv(r), NEW state \in {"Failed", "Paused"}
    PROVE  LET u == CancelWarming(r, state)
           IN  /\ Typed(u)
               /\ u.auth = r.auth /\ u.generation = r.generation
               /\ u.sent_safe = r.sent_safe /\ u.gate = r.gate
               /\ OwnLeases(u)
               /\ \A c \in Controllers : u.ctl[c].state # "Warming"
               /\ \A c \in Controllers :
                     u.ctl[c].state = "Running" => r.ctl[c].state = "Running"
<1> DEFINE f == CalledOff(r.ctl, state)
           u == CancelWarming(r, state)
<1>1. Typed(r) /\ OwnLeases(r)
  BY DEF ControlInv
<1>2. u = [r EXCEPT !.ctl = f]
  BY DEF CancelWarming, CalledOff
<1>3. ASSUME NEW c \in Controllers
      PROVE  /\ f[c] \in Controller
             /\ f[c].lease = r.ctl[c].lease
             /\ f[c].state # "Warming"
             /\ f[c].state = "Running" => r.ctl[c].state = "Running"
  <2>1. r.ctl[c] \in Controller
    BY <1>1, ControllerFields
  <2>2. f[c] = IF r.ctl[c].state = "Warming" THEN [r.ctl[c] EXCEPT !.state = state] ELSE r.ctl[c]
    BY DEF CalledOff
  <2> DEFINE k == r.ctl[c]
             j == f[c]
  <2>3. k \in Controller
    BY <2>1
  <2>4. j = IF k.state = "Warming" THEN [k EXCEPT !.state = state] ELSE k
    BY <2>2
  <2> HIDE DEF k, j
  <2>5. /\ j \in Controller
        /\ j.lease = k.lease
        /\ j.state # "Warming"
        /\ j.state = "Running" => k.state = "Running"
    BY <2>3, <2>4 DEF Controller, ControllerState
  <2> QED
    BY <2>5 DEF k, j
<1>4. f \in [Controllers -> Controller]
  BY <1>3 DEF CalledOff
<1> HIDE DEF f, u
<1>5. /\ u.auth = r.auth /\ u.ex = r.ex /\ u.generation = r.generation
      /\ u.writes = r.writes /\ u.readbacks = r.readbacks /\ u.unsettled = r.unsettled
      /\ u.sent_safe = r.sent_safe /\ u.ctl = f /\ u.gate = r.gate
  BY <1>1, <1>2, Zenon DEF Typed
<1>6. Typed(u)
  BY <1>1, <1>2, <1>4, <1>5, Zenon DEF Typed
<1>7. OwnLeases(u)
  BY <1>1, <1>3, <1>5 DEF OwnLeases
<1> QED
  BY <1>3, <1>5, <1>6, <1>7 DEF u

\* RequestSafe and Trip.
LEMMA SafeOutputKeeps ==
    ASSUME NEW r, ControlInv(r), NEW at \in Nat, NEW fault \in BOOLEAN
    PROVE  Entered(r, SafeOutput(r, at, fault).rt)
<1> DEFINE s == OutputEntry(r, at, FALSE).rt
           state == IF fault THEN "Failed" ELSE "Paused"
           u == CancelWarming(s, state)
           b == Trip(u.auth, fault)
           t == [u EXCEPT !.auth = b]
<1>1. Entered(r, s) /\ ControlInv(s)
  BY OutputEntryKeeps
<1>2. SafeOutput(r, at, fault).rt \in {s, t}
  BY DEF SafeOutput, Then
<1> HIDE DEF s
<1>3. state \in {"Failed", "Paused"}
  OBVIOUS
<1> HIDE DEF state
<1>4. /\ Typed(u)
      /\ u.auth = s.auth /\ u.generation = s.generation
      /\ u.sent_safe = s.sent_safe /\ u.gate = s.gate
      /\ OwnLeases(u)
      /\ \A c \in Controllers : u.ctl[c].state # "Warming"
      /\ \A c \in Controllers : u.ctl[c].state = "Running" => s.ctl[c].state = "Running"
  BY <1>1, <1>3, CancelFields
<1> HIDE DEF u
<1>b. b = Trip(s.auth, fault)
  BY <1>4
<1> HIDE DEF b
<1>5. Revoked(s.auth, b, s.sent_safe) /\ b \in Authority
  <2>1. s.auth \in Authority /\ s.sent_safe \in BOOLEAN /\ Sound(s.auth, s.sent_safe, FALSE)
    BY <1>1, Base
  <2>2. Revoked(s.auth, Trip(s.auth, fault), s.sent_safe)
    BY <2>1, RequestRevokes
  <2> QED
    BY <1>b, <2>2 DEF Revoked
<1>6. Same(u, t) /\ t.auth = b
  BY <1>4, <1>5, SetAuth
<1> HIDE DEF t
<1>7. OwnLeases(t) /\ Typed(t) /\ t.sent_safe = s.sent_safe /\ t.gate = s.gate
  BY <1>4, <1>6 DEF OwnLeases, Same
<1>8. \A c \in Controllers :
         /\ t.ctl[c].state # "Warming"
         /\ t.ctl[c].state = "Running" => s.ctl[c].state = "Running"
  BY <1>4, <1>6 DEF Same
<1>9. t.gate.failed =>
         t.gate.enabled /\ ~t.gate.open /\ \A c \in Controllers : t.ctl[c].state # "Running"
  BY <1>1, <1>7, <1>8 DEF ControlInv, FailedGate, Live
<1>10. Safely(s, t)
  BY <1>1, <1>5, <1>6, <1>7, <1>8, <1>9, RevokedKeeps
<1>11. Entered(s, t)
  BY <1>8, <1>10 DEF Entered, WarmingOn
<1> QED
  BY <1>1, <1>2, <1>11, EnteredCompose

\* Bind and the acknowledgement of a fault.
LEMMA BindAndAcknowledgeKeep ==
    ASSUME NEW r, ControlInv(r), NEW at \in Nat
    PROVE  Entered(r, BindOutput(r, at).rt) /\ Entered(r, AcknowledgeOutputFault(r, at).rt)
<1>1. Entered(r, BindOutput(r, at).rt)
  <2> DEFINE s == OutputEntry(r, at, FALSE).rt
             b == Bind(s.auth, Evidence)
             t == [s EXCEPT !.auth = b]
  <2>1. Entered(r, s) /\ ControlInv(s)
    BY OutputEntryKeeps
  <2>2. BindOutput(r, at).rt = s \/ (~WarmingOn(s) /\ BindOutput(r, at).rt = t)
    BY DEF BindOutput, Then, Refused
  <2> HIDE DEF s
  <2>3. /\ b \in Authority /\ Sound(b, s.sent_safe, FALSE)
        /\ b.instance = s.auth.instance /\ b.sent = s.auth.sent
        /\ b.lease \in {s.auth.lease, None}
    BY <2>1, Base, BindLease, ConfigAssumption
  <2> HIDE DEF b
  <2>4. Same(s, t) /\ t.auth = b
    BY <2>1, <2>3, SetAuth DEF ControlInv
  <2> HIDE DEF t
  <2>5. ~WarmingOn(s) => Entered(s, t)
    BY <2>1, <2>3, <2>4, IdleKeeps, SameEntered
  <2> QED
    BY <2>1, <2>2, <2>5, EnteredCompose
<1>2. Entered(r, AcknowledgeOutputFault(r, at).rt)
  <2> DEFINE s == OutputEntry(r, at, TRUE).rt
             b == AcknowledgeFault(s.auth)
             t == [s EXCEPT !.auth = b]
  <2>1. Entered(r, s) /\ ControlInv(s)
    BY OutputEntryKeeps
  <2>2. AcknowledgeOutputFault(r, at).rt \in {s, t}
    BY DEF AcknowledgeOutputFault, Then
  <2> HIDE DEF s
  <2>3. Calmed(s.auth, b, s.sent_safe)
    BY <2>1, Base, AcknowledgeFaultCalm
  <2> HIDE DEF b
  <2>4. Entered(s, t)
    BY <2>1, <2>3, CalmStep, SameEntered
  <2> HIDE DEF t
  <2> QED
    BY <2>1, <2>2, <2>4, EnteredCompose
<1> QED
  BY <1>1, <1>2

-----------------------------------------------------------------------------
(* Delivery.                                                               *)

\* Agreement composes.
LEMMA SameTransitive ==
    ASSUME NEW r, NEW s, NEW t, Same(r, s), Same(s, t)
    PROVE  Same(r, t)
  BY DEF Same

\* Queueing a write reserves, and may give the reservation back.
LEMMA QueueOutputKeeps ==
    ASSUME NEW r, ControlInv(r), NEW at \in Nat
    PROVE  Steadily(r, QueueOutput(r, at).rt) /\ Same(r, QueueOutput(r, at).rt)
<1> DEFINE deadline == at + QueueTtl
           b == ReserveTransport(r.auth, at, deadline, r.generation)
           s == [r EXCEPT !.auth = b]
           intent == ReservedIntent(r.auth, deadline, r.generation)
           a == AbortTransport(s.auth, intent)
           t == [s EXCEPT !.auth = a]
           x == EnqueueOutput(s.ex, intent, deadline, Timeout)
           w == s.writes \cup {[tx |-> r.ex.next_transaction, intent |-> intent]}
           u == [s EXCEPT !.ex = x]
           v == [u EXCEPT !.writes = w]
<1>1. deadline \in Nat
  BY ConfigAssumption
<1>2. QueueOutput(r, at) \in {Refused(s), Refused(t), Done(v)}
  BY Zenon DEF QueueOutput
<1>3. QueueOutput(r, at).rt \in {s, t, v}
  BY <1>2 DEF Refused, Done
<1> HIDE DEF deadline, intent, x, w
<1>4. Calmed(r.auth, b, r.sent_safe)
  BY <1>1, Base, ReserveCalm
<1> HIDE DEF b
<1>5. Steadily(r, s) /\ Same(r, s)
  BY <1>4, CalmStep
<1> HIDE DEF s
<1>6. ControlInv(s) /\ Typed(s)
  BY <1>5 DEF Steadily, Safely, Same
<1>7. Calmed(s.auth, a, s.sent_safe)
  BY <1>6, Base, AbortCalm
<1> HIDE DEF a
<1>8. Steadily(s, t) /\ Same(s, t)
  BY <1>6, <1>7, CalmStep
<1> HIDE DEF t
<1>9. Same(s, u) /\ u.auth = s.auth /\ Typed(u)
  <2>1. Shaped(x)
    BY <1>6, AdmissionShaped DEF Typed, x
  <2> QED
    BY <1>6, <2>1, SetOpaque DEF Same
<1> HIDE DEF u
<1>10. Same(u, v) /\ v.auth = u.auth
  BY <1>9, SetOpaque
<1> HIDE DEF v
<1>11. Same(s, v) /\ Steadily(s, v)
  BY <1>6, <1>9, <1>10, SameTransitive, OpaqueStep
<1>12. /\ Steadily(r, t) /\ Same(r, t)
       /\ Steadily(r, v) /\ Same(r, v)
  BY <1>5, <1>8, <1>11, StepsCompose, SameTransitive
<1> QED
  BY <1>3, <1>5, <1>12

\* `s` is `r` after a send; `v` is whether it is the safe write.
Resent(r, s, b, v) ==
    /\ Typed(s)
    /\ s.auth = b /\ s.sent_safe = v
    /\ s.ctl = r.ctl /\ s.gate = r.gate /\ s.generation = r.generation

ResentAs(r, b, v) == [r EXCEPT !.auth = b, !.sent_safe = v]

\* The fields of an update of the authority and of the history.
LEMMA SetSent ==
    ASSUME NEW r, Typed(r), NEW b \in Authority, NEW v \in BOOLEAN
    PROVE  Resent(r, ResentAs(r, b, v), b, v)
<1> DEFINE s == ResentAs(r, b, v)
<1>0. s = [r EXCEPT !.auth = b, !.sent_safe = v]
  BY DEF ResentAs
<1> HIDE DEF s
<1>1. /\ s.auth = b /\ s.ex = r.ex /\ s.generation = r.generation
      /\ s.writes = r.writes /\ s.readbacks = r.readbacks /\ s.unsettled = r.unsettled
      /\ s.sent_safe = v /\ s.ctl = r.ctl /\ s.gate = r.gate
  BY <1>0, Zenon DEF Typed
<1>2. Typed(s)
  BY <1>0, <1>1, Zenon DEF Typed
<1>3. Resent(r, s, b, v)
  BY <1>1, <1>2 DEF Resent
<1> QED
  BY <1>3 DEF s

\* A Runtime that has sent: an owed safe write is always allowed, an ordinary one
\* while recording is fresh.
Sends(r, s, v) ==
    /\ ControlInv(s)
    /\ s.auth.instance = r.auth.instance
    /\ s.sent_safe = v
    /\ s.ctl = r.ctl /\ s.gate = r.gate

\* A safe send is steady, an ordinary one is allowed while recording is fresh.
LEMMA SendsKeep ==
    ASSUME NEW r, ControlInv(r), NEW s, NEW v \in BOOLEAN, Sends(r, s, v), NEW at
    PROVE  /\ v => Steadily(r, s)
           /\ Fresh(r, at) => Freshly(r, s, at)
  BY DEF Sends, Steadily, Safely, NothingOrdinary, Freshly, SendsFresh, Fresh, RecordingOpen

\* The simulated send.
LEMMA SimulatedKeeps ==
    ASSUME NEW r, ControlInv(r), NEW at \in Nat
    PROVE  /\ r.auth.safe_obligation_pending \/ ~Simulated(r, at).ok =>
                 Steadily(r, Simulated(r, at).rt)
           /\ Fresh(r, at) => Freshly(r, Simulated(r, at).rt, at)
           /\ Simulated(r, at).rt.ctl = r.ctl
<1> DEFINE e == Begin(r.auth, at)
           v == e.in_flight.safe
           b == Complete(e, e.in_flight.id, "ReadbackVerified")
           s == ResentAs(r, b, v)
           t == [r EXCEPT !.auth = e]
<1>0. /\ Typed(r) /\ r.auth \in Authority /\ r.sent_safe \in BOOLEAN
      /\ Sound(r.auth, r.sent_safe, FALSE)
  BY Base
<1>1. /\ e \in Authority
      /\ Eases(r.auth, e)
      /\ BeginOk(r.auth, at) =>
            /\ e.in_flight.safe = r.auth.safe_obligation_pending
            /\ Sound(e, r.auth.safe_obligation_pending, FALSE)
      /\ ~BeginOk(r.auth, at) => Calmed(r.auth, e, r.sent_safe)
  BY <1>0, BeginEases DEF BeginSafe
<1>2. CASE BeginOk(r.auth, at)
  <2>1. Simulated(r, at).ok /\ Simulated(r, at).rt = s
    BY <1>2 DEF Simulated, Done, ResentAs
  <2> HIDE DEF e
  <2>2. v = r.auth.safe_obligation_pending /\ v \in BOOLEAN /\ Sound(e, v, FALSE)
    <3>1. r.auth.safe_obligation_pending \in BOOLEAN
      BY <1>0, Zenon DEF Authority
    <3> QED
      BY <1>1, <1>2, <3>1
  <2> HIDE DEF v
  <2>3. Calmed(e, b, v)
    <3>1. "ReadbackVerified" \in DispatchOutcome
      BY DEF DispatchOutcome
    <3> QED
      BY <1>1, <2>2, <3>1, CompleteCalm
  <2> HIDE DEF b
  <2>4. Resent(r, s, b, v)
    BY <1>0, <2>2, <2>3, SetSent DEF Calmed
  <2> HIDE DEF s
  <2>5. Eases(r.auth, b) /\ Sound(b, v, FALSE)
    BY <1>1, <2>3 DEF Calmed, Calm, Eases
  <2>6. ControlInv(s)
    BY <2>4, <2>5, EaseKeeps DEF Resent
  <2>7. Sends(r, s, v)
    BY <2>4, <2>5, <2>6 DEF Resent, Sends, Eases
  <2> QED
    BY <2>1, <2>2, <2>7, SendsKeep DEF Sends
<1>3. CASE ~BeginOk(r.auth, at)
  <2>1. Simulated(r, at).rt = t
    BY <1>3 DEF Simulated, Refused
  <2> HIDE DEF e
  <2>2. Steadily(r, t) /\ Same(r, t)
    BY <1>1, <1>3, CalmStep
  <2> HIDE DEF t
  <2>3. Freshly(r, t, at)
    BY <2>2, StepsCompose DEF Steadily
  <2> QED
    BY <2>1, <2>2, <2>3 DEF Same
<1> QED
  BY <1>2, <1>3

\* deliver_physical and deliver_simulated.
LEMMA DeliverKeeps ==
    ASSUME NEW r, ControlInv(r), NEW lease, NEW ttl \in Nat, NEW at \in Nat
    PROVE  /\ Freshly(r, Deliver(r, lease, ttl, at).rt, at)
           /\ ~Deliver(r, lease, ttl, at).ok => Safely(r, Deliver(r, lease, ttl, at).rt)
           /\ WarmingOn(Deliver(r, lease, ttl, at).rt) => WarmingOn(r)
<1> DEFINE d == Deliver(r, lease, ttl, at)
           p == Proposed(r.auth, lease, ttl, at)
           u == [r EXCEPT !.auth = p]
           q == RequireRecordingOpen(u, at)
           s == q.rt
<1>0. Steadily(r, r) /\ Safely(r, r) /\ Freshly(r, r, at)
  BY StayStep, StepsCompose DEF Steadily
<1>1. CASE ~ProposeOk(r.auth, lease, ttl, at)
  <2>1. d.rt = r
    BY <1>1 DEF Deliver, Refused
  <2> QED
    BY <1>0, <2>1
<1>2. CASE ProposeOk(r.auth, lease, ttl, at)
  <2>1. d = IF q.ok THEN (IF Physical THEN QueueOutput(s, at) ELSE Simulated(s, at)) ELSE q
    BY <1>2 DEF Deliver, Then
  <2> HIDE DEF d
  <2>2. lease \in OutputLease
    <3>1. r.auth \in Authority /\ Sound(r.auth, r.sent_safe, FALSE)
      BY Base
    <3> QED
      BY <1>2, <3>1 DEF ProposeOk, CheckLease, Authority, Sound, Consistent, LeaseInv
  <2>3. Calmed(r.auth, p, r.sent_safe)
    BY <1>2, <2>2, Base, ProposedCalm
  <2> HIDE DEF p
  <2>4. Steadily(r, u) /\ Same(r, u)
    BY <2>3, CalmStep
  <2> HIDE DEF u
  <2>5. Entered(r, u) /\ ControlInv(u)
    BY <2>4, SameEntered DEF Steadily, Safely
  <2>6. Entered(u, s) /\ (q.ok => Fresh(s, at))
    BY <2>5, RequireOpenKeeps
  <2>7. Entered(r, s) /\ ControlInv(s)
    BY <2>5, <2>6, EnteredCompose DEF Entered, Safely
  <2> HIDE DEF s, q
  <2>8. CASE ~q.ok
    <3>1. d.rt = s
      BY <2>1, <2>8 DEF s
    <3> QED
      BY <2>7, <3>1, StepsCompose DEF Entered, d
  <2>9. CASE q.ok /\ Physical
    <3>1. d = QueueOutput(s, at)
      BY <2>1, <2>9
    <3>2. Steadily(s, d.rt) /\ Same(s, d.rt)
      BY <2>7, <3>1, QueueOutputKeeps
    <3>3. Entered(r, d.rt)
      BY <2>7, <3>2, SameEntered, EnteredCompose
    <3> QED
      BY <3>3, StepsCompose DEF Entered, d
  <2>10. CASE q.ok /\ ~Physical
    <3>1. d = Simulated(s, at)
      BY <2>1, <2>10
    <3>2. /\ ~d.ok => Steadily(s, d.rt)
          /\ Freshly(s, d.rt, at)
          /\ d.rt.ctl = s.ctl
      BY <2>6, <2>7, <2>10, <3>1, SimulatedKeeps
    <3>3. Freshly(r, d.rt, at) /\ (~d.ok => Safely(r, d.rt))
      BY <2>7, <3>2, StepsCompose DEF Entered, Steadily
    <3>4. WarmingOn(d.rt) => WarmingOn(r)
      BY <2>7, <3>2 DEF Entered, WarmingOn
    <3> QED
      BY <3>3, <3>4 DEF d
  <2> QED
    BY <2>8, <2>9, <2>10
<1> QED
  BY <1>1, <1>2

-----------------------------------------------------------------------------
(* Manual control.                                                         *)

\* An open gate has not failed.
LEMMA OpenGate ==
    ASSUME NEW r, ControlInv(r), RecordingOpen(r)
    PROVE  ~r.gate.failed
  BY DEF ControlInv, FailedGate, RecordingOpen

\* Manual control enters only while nobody prepares.
LEMMA ManualEntryKeeps ==
    ASSUME NEW r, ControlInv(r), NEW owner, NEW at \in Nat
    PROVE  /\ Entered(r, ManualEntry(r, owner, at).rt)
           /\ ControlInv(ManualEntry(r, owner, at).rt)
           /\ ManualEntry(r, owner, at).ok => ~WarmingOn(ManualEntry(r, owner, at).rt)
<1> DEFINE e == OutputEntry(r, at, FALSE)
<1>1. Entered(r, e.rt) /\ ControlInv(e.rt)
  BY OutputEntryKeeps
<1>2. /\ ManualEntry(r, owner, at).rt = e.rt
      /\ ManualEntry(r, owner, at).ok => ~WarmingOn(e.rt)
  BY DEF ManualEntry, Then, Refused, Done
<1> HIDE DEF e
<1> QED
  BY <1>1, <1>2

\* A manual owner may take the output.
LEMMA ManualAcquireKeeps ==
    ASSUME NEW r, ControlInv(r), NEW owner \in ManualOwners, NEW lifetime \in Nat,
           NEW at \in Nat
    PROVE  Safely(r, ManualAcquire(r, owner, lifetime, at).rt)
<1> DEFINE m == ManualEntry(r, owner, at)
           e == OutputEntry(m.rt, at, TRUE)
           t == e.rt
           b == Acquire(t.auth, owner, lifetime, at)
           u == [t EXCEPT !.auth = b]
<1>1. \/ ManualAcquire(r, owner, lifetime, at).rt = m.rt
      \/ m.ok /\ ManualAcquire(r, owner, lifetime, at).rt = t
      \/ m.ok /\ e.ok /\ ManualAcquire(r, owner, lifetime, at).rt = u
  BY DEF ManualAcquire, Then
<1>2. Entered(r, m.rt) /\ ControlInv(m.rt) /\ (m.ok => ~WarmingOn(m.rt))
  BY ManualEntryKeeps
<1> HIDE DEF m
<1>3. Entered(m.rt, t) /\ ControlInv(t) /\ (e.ok => RecordingOpen(t))
  BY <1>2, OutputEntryKeeps
<1> HIDE DEF e, t
<1>4. m.ok => ~WarmingOn(t)
  BY <1>2, <1>3 DEF Entered
<1>5. owner \in Owner /\ owner \notin Controllers
  BY OwnersAssumption DEF Owner, Controllers
<1>6. Typed(t) /\ t.auth \in Authority /\ t.sent_safe \in BOOLEAN /\ Sound(t.auth, t.sent_safe, FALSE)
  BY <1>3, Base
<1>7. /\ b \in Authority /\ Sound(b, t.sent_safe, FALSE)
      /\ b.instance = t.auth.instance /\ b.sent = t.auth.sent
      /\ b.lease \in {t.auth.lease, None} \/ b.lease.owner = owner
  <2> DEFINE a == t.auth
             v == t.sent_safe
  <2>1. a \in Authority /\ v \in BOOLEAN /\ Sound(a, v, FALSE)
    BY <1>6
  <2> HIDE DEF a, v
  <2>2. /\ Acquire(a, owner, lifetime, at) \in Authority
        /\ Sound(Acquire(a, owner, lifetime, at), v, FALSE)
        /\ Acquire(a, owner, lifetime, at).instance = a.instance
        /\ Acquire(a, owner, lifetime, at).sent = a.sent
        /\ \/ Acquire(a, owner, lifetime, at).lease \in {a.lease, None}
           \/ Acquire(a, owner, lifetime, at).lease.owner = owner
    BY <1>5, <2>1, AcquireLease
  <2> QED
    BY <2>2 DEF a, v
<1> HIDE DEF b
<1>8. Same(t, u) /\ u.auth = b
  BY <1>6, <1>7, SetAuth
<1> HIDE DEF u
<1>9. m.ok /\ e.ok => Steadily(t, u)
  BY <1>3, <1>4, <1>5, <1>7, <1>8, OpenGate, IdleKeeps
<1> QED
  BY <1>1, <1>2, <1>3, <1>9, StepsCompose DEF Entered, Steadily

\* And extend its lease.
LEMMA ManualRenewKeeps ==
    ASSUME NEW r, ControlInv(r), NEW owner \in ManualOwners, NEW lifetime \in Nat,
           NEW at \in Nat
    PROVE  Safely(r, ManualRenew(r, owner, lifetime, at).rt)
<1> DEFINE m == ManualEntry(r, owner, at)
           s == m.rt
           l == s.auth.lease
           e == OutputEntry(s, at, TRUE)
           t == e.rt
           b == Renew(t.auth, l, lifetime, at)
           u == [t EXCEPT !.auth = b]
<1>1. \/ ManualRenew(r, owner, lifetime, at).rt = s
      \/ m.ok /\ ManualRenew(r, owner, lifetime, at).rt = t
      \/ /\ m.ok /\ e.ok /\ l # None /\ l.owner = owner
         /\ ManualRenew(r, owner, lifetime, at).rt = u
  <2>1. m.ok => l = None \/ l.owner = owner
    BY DEF ManualEntry, Then, Refused, Done
  <2> HIDE DEF m
  <2> QED
    BY <2>1 DEF ManualRenew, Then, Refused, m
<1>2. Entered(r, s) /\ ControlInv(s) /\ (m.ok => ~WarmingOn(s))
  BY ManualEntryKeeps
<1> HIDE DEF m, s, l
<1>3. Entered(s, t) /\ ControlInv(t) /\ (e.ok => RecordingOpen(t))
  BY <1>2, OutputEntryKeeps
<1> HIDE DEF e, t
<1>4. m.ok => ~WarmingOn(t)
  BY <1>2, <1>3 DEF Entered
<1>5. owner \notin Controllers
  BY OwnersAssumption DEF Controllers
<1>6. Typed(t) /\ t.auth \in Authority /\ t.sent_safe \in BOOLEAN /\ Sound(t.auth, t.sent_safe, FALSE)
  BY <1>3, Base
<1>7. CASE m.ok /\ e.ok /\ l # None /\ l.owner = owner /\ RenewOk(t.auth, l, lifetime, at)
  <2>1. /\ b \in Authority /\ Sound(b, t.sent_safe, FALSE)
        /\ b.instance = t.auth.instance /\ b.sent = t.auth.sent
        /\ b.lease.owner = owner
    <3> DEFINE a == t.auth
               v == t.sent_safe
    <3>1. a \in Authority /\ v \in BOOLEAN /\ Sound(a, v, FALSE) /\ RenewOk(a, l, lifetime, at)
      BY <1>6, <1>7
    <3>3. l \in OutputLease
      BY <1>7, <3>1 DEF RenewOk, CheckLease, Authority, Sound, Consistent, LeaseInv
    <3> HIDE DEF a, v
    <3>2. Renewed(a, Renew(a, l, lifetime, at), l, v)
      BY <3>1, <3>3, RenewLease
    <3> QED
      BY <1>7, <3>2 DEF a, v, Renewed
  <2> HIDE DEF b
  <2>2. Same(t, u) /\ u.auth = b
    BY <1>6, <2>1, SetAuth
  <2> HIDE DEF u
  <2>3. Steadily(t, u)
    BY <1>3, <1>4, <1>5, <1>7, <2>1, <2>2, OpenGate, IdleKeeps
  <2> QED
    BY <1>1, <1>2, <1>3, <2>3, StepsCompose DEF Entered, Steadily
<1>8. CASE ~RenewOk(t.auth, l, lifetime, at)
  <2>1. b = t.auth
    BY <1>8 DEF Renew
  <2> HIDE DEF b
  <2>2. Calmed(t.auth, b, t.sent_safe)
    BY <1>6, <2>1, ItselfCalm
  <2>3. Steadily(t, u)
    BY <1>3, <2>2, CalmStep
  <2> HIDE DEF u
  <2> QED
    BY <1>1, <1>2, <1>3, <2>3, StepsCompose DEF Entered, Steadily
<1> HIDE DEF u
<1> QED
  BY <1>1, <1>2, <1>3, <1>7, <1>8, StepsCompose DEF Entered

\* Manual safe, and a manual write: an attempt that failed before its send is
\* followed by a request for the safe state.
LEMMA ManualSafeKeeps ==
    ASSUME NEW r, ControlInv(r), NEW owner, NEW at \in Nat
    PROVE  Safely(r, ManualSafe(r, owner, at).rt)
<1> DEFINE m == ManualEntry(r, owner, at)
           s == m.rt
           t == SafeOutput(s, at, FALSE).rt
<1>1. ManualSafe(r, owner, at).rt \in {s, t}
  BY DEF ManualSafe, Then
<1>2. Entered(r, s) /\ ControlInv(s)
  BY ManualEntryKeeps
<1> HIDE DEF m, s
<1>3. Entered(s, t)
  BY <1>2, SafeOutputKeeps
<1> HIDE DEF t
<1> QED
  BY <1>1, <1>2, <1>3, StepsCompose DEF Entered

\* manual_output with a write: an ordinary send needs an open gate.
LEMMA ManualWriteKeeps ==
    ASSUME NEW r, ControlInv(r), NEW owner, NEW ttl \in Nat, NEW at \in Nat
    PROVE  Freshly(r, ManualWrite(r, owner, ttl, at).rt, at)
<1> DEFINE m == ManualEntry(r, owner, at)
           s == m.rt
           q == RequireRecordingOpen(s, at)
           t == q.rt
           d == Deliver(t, t.auth.lease, ttl, at)
           b == FailManualBeforeSend(d.rt.auth)
           f == [d.rt EXCEPT !.auth = b]
           u == SafeOutput(f, at, FALSE).rt
<1>1. \/ ManualWrite(r, owner, ttl, at).rt \in {s, t, d.rt}
      \/ ~d.ok /\ ManualWrite(r, owner, ttl, at).rt = u
  BY DEF ManualWrite, Then, Refused
<1>2. Entered(r, s) /\ ControlInv(s)
  BY ManualEntryKeeps
<1> HIDE DEF m, s
<1>3. Entered(s, t) /\ ControlInv(t)
  BY <1>2, RequireOpenKeeps DEF Entered, Safely
<1> HIDE DEF q, t
<1>4. /\ Freshly(t, d.rt, at)
      /\ ~d.ok => Safely(t, d.rt)
  BY <1>3, DeliverKeeps
<1> HIDE DEF d
<1>5. ~d.ok => Safely(t, u)
  <2> HAVE ~d.ok
  <2>1. Safely(t, d.rt) /\ ControlInv(d.rt)
    BY <1>4 DEF Safely
  <2>2. Calmed(d.rt.auth, b, d.rt.sent_safe)
    BY <2>1, Base, FailManualCalm
  <2> HIDE DEF b
  <2>3. Steadily(d.rt, f) /\ ControlInv(f)
    BY <2>1, <2>2, CalmStep DEF Steadily, Safely
  <2> HIDE DEF f
  <2>4. Entered(f, u)
    BY <2>3, SafeOutputKeeps
  <2> QED
    BY <2>1, <2>3, <2>4, StepsCompose DEF Entered, Steadily
<1> HIDE DEF u
<1>6. Safely(r, s) /\ Safely(r, t) /\ Freshly(r, d.rt, at)
  BY <1>2, <1>3, <1>4, StepsCompose DEF Entered
<1> QED
  BY <1>1, <1>5, <1>6, StepsCompose

-----------------------------------------------------------------------------
(* Native controllers.                                                     *)

\* The controller after it has given its lease up, and the authority with it.
AtRest(r, c, state) == [r EXCEPT !.ctl[c] = [@ EXCEPT !.state = state, !.lease = None]]

Relieved(r, c, state, b) == [AtRest(r, c, state) EXCEPT !.auth = b]

Rested(k, state) == [k EXCEPT !.state = state, !.lease = None]

\* The fields of a controller at rest.
LEMMA RestFields ==
    ASSUME NEW r, Typed(r), NEW c \in Controllers, NEW state \in {"Failed", "Paused"}
    PROVE  /\ Placed(r, AtRest(r, c, state), c, Rested(r.ctl[c], state))
           /\ AtRest(r, c, state).ctl[c].state = state
           /\ AtRest(r, c, state).ctl[c].lease = None
           /\ Rested(r.ctl[c], state) \in Controller
           /\ Rested(r.ctl[c], state).state = state
           /\ Rested(r.ctl[c], state).lease = None
<1> DEFINE k == Rested(r.ctl[c], state)
           s == AtRest(r, c, state)
<1>1. r.ctl[c] \in Controller
  BY ControllerFields
<1>2. k \in Controller /\ k.state = state /\ k.lease = None
  BY <1>1 DEF Rested, Controller, ControllerState
<1>3. s = [r EXCEPT !.ctl[c] = k]
  BY DEF AtRest, Rested
<1> HIDE DEF k, s
<1>4. Placed(r, s, c, k)
  BY <1>2, <1>3, SetController
<1>5. s.ctl[c].state = state /\ s.ctl[c].lease = None
  BY <1>2, <1>4 DEF Placed
<1> QED
  BY <1>2, <1>4, <1>5 DEF s, k

\* A controller that does not own the output may come to rest.
LEMMA RestKeeps ==
    ASSUME NEW r, ControlInv(r), NEW c \in Controllers, NEW state \in {"Failed", "Paused"},
           ~(r.auth.lease # None /\ r.auth.lease.owner = c)
    PROVE  /\ Steadily(r, AtRest(r, c, state))
           /\ AtRest(r, c, state).ctl[c].state = state
           /\ WarmingOn(AtRest(r, c, state)) => WarmingOn(r)
<1> DEFINE k == Rested(r.ctl[c], state)
           s == AtRest(r, c, state)
<1>0. Typed(r)
  BY DEF ControlInv
<1>2. /\ Placed(r, s, c, k) /\ s.ctl[c].state = state
      /\ k \in Controller /\ k.state = state /\ k.lease = None
  BY <1>0, RestFields
<1> HIDE DEF k, s
<1>3. MayBecome(r, c, k)
  BY <1>2 DEF MayBecome, Live
<1>4. Steadily(r, s)
  BY <1>2, <1>3, PlacedKeeps
<1>5. WarmingOn(s) => WarmingOn(r)
  BY <1>2 DEF WarmingOn, Placed
<1> QED
  BY <1>2, <1>4, <1>5 DEF s

\* So may one whose output is revoked with it: nobody prepares beside a lease or
\* a safe state that is owed.
LEMMA RelievedKeeps ==
    ASSUME NEW r, ControlInv(r), NEW c \in Controllers, NEW state \in {"Failed", "Paused"},
           r.auth.lease # None \/ r.auth.state = "SafePending",
           NEW b, Revoked(r.auth, b, r.sent_safe)
    PROVE  /\ Steadily(r, Relieved(r, c, state, b))
           /\ Relieved(r, c, state, b).auth = b
           /\ Relieved(r, c, state, b).ctl[c].state = state
           /\ ~WarmingOn(Relieved(r, c, state, b))
<1> DEFINE s == AtRest(r, c, state)
           k == Rested(r.ctl[c], state)
           t == Relieved(r, c, state, b)
<1>0. Typed(r) /\ OwnLeases(r) /\ OnePrepares(r) /\ FailedGate(r)
  BY DEF ControlInv
<1>1. t = [s EXCEPT !.auth = b]
  BY DEF Relieved
<1>2. Placed(r, s, c, k) /\ s.ctl[c].state = state /\ s.ctl[c].lease = None
  BY <1>0, RestFields
<1> HIDE DEF s, k, t
<1>3. Same(s, t) /\ t.auth = b
  BY <1>1, <1>2, SetAuth DEF Placed, Revoked
<1>4. /\ Typed(t) /\ t.sent_safe = r.sent_safe /\ t.gate = r.gate
      /\ t.ctl[c].state = state /\ t.ctl[c].lease = None
      /\ \A d \in Controllers : d # c => t.ctl[d] = r.ctl[d]
  BY <1>2, <1>3 DEF Same, Placed
<1>5. OwnLeases(t)
  BY <1>0, <1>4 DEF OwnLeases
<1>6. \A d \in Controllers : t.ctl[d].state # "Warming"
  BY <1>0, <1>4 DEF OnePrepares, WarmingOn, CanPrepare
<1>7. t.gate.failed =>
         t.gate.enabled /\ ~t.gate.open /\ \A d \in Controllers : t.ctl[d].state # "Running"
  BY <1>0, <1>4 DEF FailedGate, Live
<1>8. Safely(r, t)
  BY <1>3, <1>4, <1>5, <1>6, <1>7, RevokedKeeps
<1>9. Steadily(r, t) /\ ~WarmingOn(t)
  BY <1>4, <1>6, <1>8 DEF Steadily, WarmingOn
<1> QED
  BY <1>3, <1>4, <1>9 DEF t

\* `s` is reached by giving the output back: nobody prepares, and controller `c`
\* is where it was sent.
GaveBack(r, s, c, state) ==
    /\ Steadily(r, s)
    /\ s.ctl[c].state = state
    /\ WarmingOn(s) => WarmingOn(r)

\* A safe state that is requested is sent at once to a simulated plant.
LEMMA SettledKeeps ==
    ASSUME NEW r, ControlInv(r), NEW c \in Controllers, NEW state \in {"Failed", "Paused"},
           r.auth.lease # None \/ r.auth.state = "SafePending",
           NEW fault \in BOOLEAN, NEW at \in Nat,
           NEW b, b = RequestSafe(r.auth, fault)
    PROVE  /\ GaveBack(r, Relieved(r, c, state, b), c, state)
           /\ BumpEpochOk(r.auth) =>
                 GaveBack(r, SettleSimulated(Relieved(r, c, state, b), at).rt, c, state)
<1> DEFINE t == Relieved(r, c, state, b)
           u == SettleSimulated(t, at).rt
<1>1. r.auth \in Authority /\ r.sent_safe \in BOOLEAN /\ Sound(r.auth, r.sent_safe, FALSE)
  BY Base
<1>2. r.auth.profile # None
  BY <1>1, ProfileIsBound
<1>3. Revoked(r.auth, b, r.sent_safe)
  BY <1>1, <1>2, RequestRevokes
<1>4. BumpEpochOk(r.auth) => b.safe_obligation_pending
  BY <1>1, RequestSafeFields DEF Requested
<1>5. /\ Steadily(r, t) /\ t.auth = b
      /\ t.ctl[c].state = state /\ ~WarmingOn(t)
  BY <1>3, RelievedKeeps
<1>6. u \in {t, Simulated(t, at).rt}
  BY DEF SettleSimulated, Done
<1> HIDE DEF t, u
<1>7. ControlInv(t)
  BY <1>5 DEF Steadily, Safely
<1>8. BumpEpochOk(r.auth) =>
         /\ Steadily(t, Simulated(t, at).rt)
         /\ Simulated(t, at).rt.ctl = t.ctl
  BY <1>4, <1>5, <1>7, SimulatedKeeps
<1>9. BumpEpochOk(r.auth) => Steadily(r, u) /\ u.ctl = t.ctl
  BY <1>5, <1>6, <1>8, StepsCompose
<1>10. GaveBack(r, t, c, state) /\ (BumpEpochOk(r.auth) => GaveBack(r, u, c, state))
  BY <1>5, <1>9 DEF GaveBack, WarmingOn
<1> QED
  BY <1>10 DEF t, u

\* fail_controller loses the controller, whatever it can still do for the output.
LEMMA FailControllerKeeps ==
    ASSUME NEW r, ControlInv(r), NEW c \in Controllers, NEW at \in Nat
    PROVE  GaveBack(r, FailController(r, c, at).rt, c, "Failed")
<1> DEFINE l == r.ctl[c].lease
           b == Trip(r.auth, TRUE)
           f == AtRest(r, c, "Failed")
           t == Relieved(r, c, "Failed", b)
           u == SettleSimulated(t, at).rt
           revokes == \/ l # None /\ r.auth.lease = l
                      \/ r.auth.lease = None /\ r.auth.state = "SafePending"
<1>1. /\ revokes /\ BumpEpochOk(r.auth) => FailController(r, c, at).rt = u
      /\ revokes /\ ~BumpEpochOk(r.auth) => FailController(r, c, at).rt = t
      /\ ~revokes => FailController(r, c, at).rt = f
  <2> DEFINE x == [r EXCEPT !.ctl[c] = [@ EXCEPT !.state = "Failed", !.lease = None]]
             y == [x EXCEPT !.auth = Trip(@, TRUE)]
  <2>1. FailController(r, c, at) =
           IF revokes
           THEN IF BumpEpochOk(r.auth) THEN SettleSimulated(y, at) ELSE Refused(y)
           ELSE Done(x)
    BY DEF FailController
  <2>2. x = f
    BY DEF AtRest
  <2> HIDE DEF x
  <2>3. f.auth = r.auth
    BY RestFields DEF ControlInv, Placed
  <2>4. y = t
    BY <2>2, <2>3 DEF Relieved
  <2> HIDE DEF f, t, y, revokes
  <2> QED
    BY <2>1, <2>2, <2>4 DEF Refused, Done, u
<1>2. revokes => r.auth.lease # None \/ r.auth.state = "SafePending"
  OBVIOUS
<1>3. revokes => b = RequestSafe(r.auth, TRUE)
  <2>1. r.auth \in Authority /\ r.sent_safe \in BOOLEAN /\ Sound(r.auth, r.sent_safe, FALSE)
    BY Base
  <2> QED
    BY <1>2, <2>1, ProfileIsBound DEF Trip
<1>4. ~revokes => ~(r.auth.lease # None /\ r.auth.lease.owner = c)
  BY DEF ControlInv, LeaseKnown
<1> HIDE DEF f, t, u, b, l, revokes
<1>5. ASSUME ~revokes PROVE GaveBack(r, f, c, "Failed")
  BY <1>4, <1>5, RestKeeps DEF f, GaveBack
<1>6. ASSUME revokes
      PROVE  GaveBack(r, t, c, "Failed") /\ (BumpEpochOk(r.auth) => GaveBack(r, u, c, "Failed"))
  BY <1>2, <1>3, <1>6, SettledKeeps DEF t, u
<1> QED
  BY <1>1, <1>5, <1>6

\* A paused controller gives back what it has, unless the watchdog did.
LEMMA PauseKeeps ==
    ASSUME NEW r, ControlInv(r), NEW c \in Controllers, NEW at \in Nat,
           r.ctl[c].state = "Running",
           r.auth.lease # None => ~(at >= r.auth.lease.expires)
    PROVE  Steadily(r, Pause(r, c, at).rt)
<1> DEFINE l == r.ctl[c].lease
           b == RequestSafe(r.auth, FALSE)
           f == AtRest(r, c, "Paused")
           t == Relieved(r, c, "Paused", b)
           u == SettleSimulated(t, at).rt
           revokes == \/ r.auth.lease = l /\ CheckLease(r.auth, l, at)
                      \/ r.auth.lease = None /\ r.auth.state = "SafePending"
<1>1. /\ revokes /\ BumpEpochOk(r.auth) => Pause(r, c, at).rt = u
      /\ revokes /\ ~BumpEpochOk(r.auth) => Pause(r, c, at).rt = t
      /\ ~revokes => Pause(r, c, at).rt = f
  <2> DEFINE x == [r EXCEPT !.ctl[c] = [@ EXCEPT !.state = "Paused", !.lease = None]]
             y == [x EXCEPT !.auth = RequestSafe(@, FALSE)]
  <2>1. Pause(r, c, at) =
           IF revokes
           THEN IF BumpEpochOk(r.auth) THEN SettleSimulated(y, at) ELSE Refused(y)
           ELSE Done(x)
    BY DEF Pause
  <2>2. x = f
    BY DEF AtRest
  <2> HIDE DEF x
  <2>3. f.auth = r.auth
    BY RestFields DEF ControlInv, Placed
  <2>4. y = t
    BY <2>2, <2>3 DEF Relieved
  <2> HIDE DEF f, t, y, revokes
  <2> QED
    BY <2>1, <2>2, <2>4 DEF Refused, Done, u
<1>2. l # None /\ l.owner = c
  BY DEF ControlInv, OwnLeases
<1>3. revokes => r.auth.lease # None \/ r.auth.state = "SafePending"
  BY <1>2
<1>4. ~revokes => ~(r.auth.lease # None /\ r.auth.lease.owner = c)
  <2> SUFFICES ASSUME r.auth.lease # None, r.auth.lease.owner = c
               PROVE  revokes
    OBVIOUS
  <2>1. r.auth.lease = l
    BY DEF ControlInv, LeaseKnown
  <2>2. r.auth \in Authority /\ Sound(r.auth, r.sent_safe, FALSE)
    BY Base
  <2>3. l \in OutputLease
    BY <2>1, <2>2 DEF Authority
  <2>4. l.expires \in Nat
    BY <2>3 DEF OutputLease
  <2>5. l.instance = r.auth.instance /\ l.epoch = r.auth.epoch /\ r.auth.state \in Armed
    BY <2>1, <2>2 DEF Sound, Consistent, LeaseInv
  <2>6. at < l.expires
    BY <2>1, <2>4
  <2> QED
    BY <2>1, <2>5, <2>6 DEF CheckLease
<1>5. b = RequestSafe(r.auth, FALSE)
  OBVIOUS
<1> HIDE DEF f, t, u, b, l, revokes
<1>6. ASSUME ~revokes PROVE Steadily(r, f)
  BY <1>4, <1>6, RestKeeps DEF f
<1>7. ASSUME revokes
      PROVE  Steadily(r, t) /\ (BumpEpochOk(r.auth) => Steadily(r, u))
  <2>1. /\ GaveBack(r, t, c, "Paused")
        /\ BumpEpochOk(r.auth) => GaveBack(r, u, c, "Paused")
    BY <1>3, <1>5, <1>7, SettledKeeps DEF t, u
  <2> QED
    BY <2>1 DEF GaveBack
<1> QED
  BY <1>1, <1>6, <1>7

\* pause_controller.
LEMMA PauseControllerKeeps ==
    ASSUME NEW r, ControlInv(r), NEW c \in Controllers, NEW at \in Nat
    PROVE  Steadily(r, PauseController(r, c, at).rt)
<1> DEFINE q == CheckOutputTime(r, at)
           s == q.rt
           t == SetCtl(s, c, "Paused")
           u == Pause(s, c, at).rt
<1>1. Steadily(r, s) /\ (s.auth.lease # None => ~(at >= s.auth.lease.expires))
  BY CheckTimeKeeps
<1>2. \/ PauseController(r, c, at).rt = s
      \/ s.ctl[c].state = "Warming" /\ PauseController(r, c, at).rt = t
      \/ s.ctl[c].state = "Running" /\ PauseController(r, c, at).rt = u
  <2>1. PauseController(r, c, at) =
           IF q.ok
           THEN CASE s.ctl[c].state = "Warming" -> Done(t)
                  [] s.ctl[c].state = "Running" -> Pause(s, c, at)
                  [] OTHER -> Refused(s)
           ELSE q
    BY DEF PauseController, Then
  <2> DEFINE state == s.ctl[c].state
  <2> HIDE DEF q, t
  <2> QED
    BY <2>1 DEF Done, Refused
<1> HIDE DEF q, s
<1>3. ControlInv(s)
  BY <1>1 DEF Steadily, Safely
<1>4. s.ctl[c].state = "Warming" => Steadily(s, t)
  BY <1>3, SetCtlStep
<1>5. s.ctl[c].state = "Running" => Steadily(s, u)
  BY <1>1, <1>3, PauseKeeps
<1> HIDE DEF t, u
<1> QED
  BY <1>1, <1>2, <1>4, <1>5, StepsCompose

\* Preparation, and the reset of a failed controller.
LEMMA PrepareKeeps ==
    ASSUME NEW r, ControlInv(r), NEW c \in Controllers, NEW at \in Nat
    PROVE  /\ Steadily(r, PrepareController(r, c).rt)
           /\ Steadily(r, ResetFailedController(r, c, at).rt)
<1>1. Steadily(r, PrepareController(r, c).rt)
  <2> DEFINE t == SetCtl(r, c, "Ready")
  <2>1. \/ PrepareController(r, c).rt = r
        \/ r.ctl[c].state = "Created" /\ PrepareController(r, c).rt = t
    BY DEF PrepareController, Done, Refused
  <2>2. r.ctl[c].state = "Created" => Steadily(r, t)
    BY SetCtlStep
  <2> HIDE DEF t
  <2> QED
    BY <2>1, <2>2, StayStep
<1>2. Steadily(r, ResetFailedController(r, c, at).rt)
  <2> DEFINE q == CheckOutputTime(r, at)
             s == q.rt
             t == SetCtl(s, c, "Paused")
  <2>1. Steadily(r, s)
    BY CheckTimeKeeps
  <2>2. \/ ResetFailedController(r, c, at).rt = s
        \/ s.ctl[c].state = "Failed" /\ ResetFailedController(r, c, at).rt = t
    BY DEF ResetFailedController, Then, ResetOk, Done, Refused
  <2> HIDE DEF q, s
  <2>3. s.ctl[c].state = "Failed" => Steadily(s, t)
    BY <2>1, SetCtlStep DEF Steadily, Safely
  <2> HIDE DEF t
  <2> QED
    BY <2>1, <2>2, <2>3, StepsCompose
<1> QED
  BY <1>1, <1>2

\* The controller that takes the output.
Activated(k, l) == [k EXCEPT !.state = "Running", !.lease = l]

\* activate_controller: the controller that has prepared takes the output, or is lost.
LEMMA ActivateKeeps ==
    ASSUME NEW r, ControlInv(r), NEW c \in Controllers, NEW at \in Nat,
           r.ctl[c].state = "Warming"
    PROVE  /\ Steadily(r, ActivateController(r, c, at).rt)
           /\ ~ActivateController(r, c, at).ok =>
                 ActivateController(r, c, at).rt.ctl[c].state = "Failed"
<1> DEFINE b == Acquire(r.auth, c, LeaseLifetime, at)
           s == [r EXCEPT !.auth = b]
           k == Activated(r.ctl[c], b.lease)
           t == [s EXCEPT !.ctl[c] = k]
           f == [r.ctl[c] EXCEPT !.state = "Failed"]
           u == [s EXCEPT !.ctl[c] = f]
           A == ActivateController(r, c, at)
<1>0. /\ Typed(r) /\ OwnLeases(r) /\ OnePrepares(r) /\ FailedGate(r)
      /\ r.auth \in Authority /\ r.sent_safe \in BOOLEAN /\ Sound(r.auth, r.sent_safe, FALSE)
      /\ r.ctl[c] \in Controller
  BY Base, ControllerFields DEF ControlInv
<1>1. CanPrepare(r.auth)
  BY <1>0 DEF OnePrepares, WarmingOn
<1>2. /\ b \in Authority /\ Sound(b, r.sent_safe, FALSE)
      /\ b.instance = r.auth.instance /\ b.sent = r.auth.sent
      /\ b.lease # None => b.lease.owner = c
  <2> DEFINE a == r.auth
             v == r.sent_safe
  <2>1. a \in Authority /\ v \in BOOLEAN /\ Sound(a, v, FALSE)
    BY <1>0
  <2>2. c \in Owner /\ LeaseLifetime \in Nat
    BY ConfigAssumption DEF Owner, Controllers
  <2>3. a.lease = None
    BY <1>1 DEF CanPrepare
  <2> HIDE DEF a, v
  <2>4. /\ Acquire(a, c, LeaseLifetime, at) \in Authority
        /\ Sound(Acquire(a, c, LeaseLifetime, at), v, FALSE)
        /\ Acquire(a, c, LeaseLifetime, at).instance = a.instance
        /\ Acquire(a, c, LeaseLifetime, at).sent = a.sent
        /\ \/ Acquire(a, c, LeaseLifetime, at).lease \in {a.lease, None}
           \/ Acquire(a, c, LeaseLifetime, at).lease.owner = c
    BY <2>1, <2>2, AcquireLease
  <2> QED
    BY <2>3, <2>4 DEF a, v
<1>3. Same(r, s) /\ s.auth = b
  BY <1>0, <1>2, SetAuth
<1>4. A = IF s.auth.lease # None
          THEN Done([s EXCEPT !.ctl[c] = [@ EXCEPT !.state = "Running",
                                                   !.lease = s.auth.lease]])
          ELSE Refused(SetCtl(s, c, "Failed"))
  BY <1>1, Zenon DEF ActivateController
<1> HIDE DEF A, s
<1>5. A = IF b.lease # None THEN Done(t) ELSE Refused(u)
  <2>1. s.ctl[c] = r.ctl[c] /\ s.auth = b
    BY <1>3 DEF Same
  <2>2. [s EXCEPT !.ctl[c] = [@ EXCEPT !.state = "Running", !.lease = s.auth.lease]] = t
    BY <2>1 DEF Activated
  <2>3. SetCtl(s, c, "Failed") = u
    BY <2>1 DEF SetCtl
  <2> HIDE DEF t, u, b
  <2> QED
    BY <1>4, <2>1, <2>2, <2>3
<1> HIDE DEF b
<1>6. CASE b.lease # None
  <2>1. /\ k \in Controller /\ k.state = "Running" /\ k.lease = b.lease
    <3>1. b.lease \in OutputLease
      BY <1>2, <1>6 DEF Authority
    <3> QED
      BY <1>0, <3>1 DEF Activated, Controller, ControllerState, Live
  <2> HIDE DEF k
  <2>2. Placed(s, t, c, k)
    BY <1>3, <2>1, SetController DEF Same
  <2> HIDE DEF t
  <2>3. /\ Typed(t) /\ t.auth = b /\ t.sent_safe = r.sent_safe /\ t.gate = r.gate
        /\ t.ctl[c] = k
        /\ \A d \in Controllers : d # c => t.ctl[d] = r.ctl[d]
    BY <1>3, <2>2 DEF Same, Placed
  <2>4. OwnLeases(t)
    BY <1>0, <1>2, <1>6, <2>1, <2>3 DEF OwnLeases
  <2>5. LeaseKnown(t)
    BY <1>2, <1>6, <2>1, <2>3 DEF LeaseKnown
  <2>6. OnePrepares(t)
    BY <1>0, <2>1, <2>3 DEF OnePrepares, WarmingOn
  <2>7. FailedGate(t)
    BY <1>0, <2>3 DEF FailedGate, Live
  <2>8. ControlInv(t)
    BY <1>2, <2>3, <2>4, <2>5, <2>6, <2>7 DEF ControlInv
  <2>9. Steadily(r, t)
    BY <1>2, <2>3, <2>8 DEF Steadily, Safely, NothingOrdinary
  <2>10. A.ok /\ A.rt = t
    BY <1>5, <1>6 DEF Done
  <2> QED
    BY <2>9, <2>10 DEF A
<1>7. CASE b.lease = None
  <2>1. /\ f \in Controller /\ f.state = "Failed" /\ f.lease = r.ctl[c].lease
    BY <1>0 DEF Controller, ControllerState
  <2> HIDE DEF f
  <2>2. Placed(s, u, c, f)
    BY <1>3, <2>1, SetController DEF Same
  <2> HIDE DEF u
  <2>3. /\ Typed(u) /\ u.auth = b /\ u.sent_safe = r.sent_safe /\ u.gate = r.gate
        /\ u.ctl[c] = f
        /\ \A d \in Controllers : d # c => u.ctl[d] = r.ctl[d]
    BY <1>3, <2>2 DEF Same, Placed
  <2>4. OwnLeases(u)
    BY <1>0, <2>1, <2>3 DEF OwnLeases
  <2>5. \A d \in Controllers : u.ctl[d].state # "Warming"
    BY <1>0, <2>1, <2>3 DEF OnePrepares
  <2>6. ~u.gate.failed
    BY <1>0, <2>3 DEF FailedGate, Live
  <2>7. Revoked(r.auth, u.auth, r.sent_safe)
    BY <1>2, <1>7, <2>3 DEF Revoked
  <2>8. Safely(r, u)
    BY <2>3, <2>4, <2>5, <2>6, <2>7, RevokedKeeps
  <2>9. Steadily(r, u)
    BY <2>3, <2>8 DEF Steadily
  <2>10. A.rt = u
    BY <1>5, <1>7 DEF Refused
  <2> QED
    BY <2>1, <2>3, <2>9, <2>10 DEF A
<1> QED
  BY <1>6, <1>7

\* The controller that begins to prepare.
Preparing(k, at) == [k EXCEPT !.state = "Warming", !.last_tick = at]

\* start_or_resume_controller: nobody else prepares, and the output is confirmed safe.
LEMMA StartKeeps ==
    ASSUME NEW r, ControlInv(r), NEW c \in Controllers,
           NEW expected \in {"Ready", "Paused"}, NEW at \in Nat, NEW input
    PROVE  Safely(r, StartOrResume(r, c, expected, at, input).rt)
<1> DEFINE p == RequireRecordingOpen(r, at)
           s == p.rt
           q == CheckOutputTime(s, at)
           t == q.rt
           k == Preparing(t.ctl[c], at)
           w == [t EXCEPT !.ctl[c] = k]
           u == ActivateController(w, c, at).rt
           z == StartOrResume(r, c, expected, at, input).rt
<1>1. \/ z = s
      \/ z = t
      \/ p.ok /\ MayPrepare(t, c, expected) /\ z \in {u, w}
  BY DEF StartOrResume, Then, Refused, Done, Preparing
<1> HIDE DEF z
<1>2. Safely(r, s) /\ ControlInv(s) /\ (p.ok => RecordingOpen(s))
  BY RequireOpenKeeps DEF Entered, Safely, Fresh
<1> HIDE DEF p, s
<1>3. Steadily(s, t) /\ Same(s, t)
  BY <1>2, CheckTimeKeeps
<1>4. Safely(r, t) /\ ControlInv(t) /\ (p.ok => ~t.gate.failed)
  BY <1>2, <1>3, StepsCompose, OpenGate DEF Steadily, Safely, Same
<1> HIDE DEF q, t
<1>5. ASSUME p.ok, MayPrepare(t, c, expected)
      PROVE  Safely(r, w) /\ Safely(r, u)
  <2>1. t.ctl[c] \in Controller /\ Typed(t)
    BY <1>4, ControllerFields DEF ControlInv
  <2>2. /\ k \in Controller /\ k.state = "Warming" /\ k.lease = t.ctl[c].lease
    BY <2>1 DEF Preparing, Controller, ControllerState, Live
  <2> HIDE DEF k
  <2>3. Placed(t, w, c, k)
    BY <2>1, <2>2, SetController
  <2> HIDE DEF w
  <2>4. MayBecome(t, c, k)
    BY <1>4, <1>5, <2>2 DEF MayBecome, MayPrepare, CanPrepare, ControlInv, OwnLeases
  <2>5. Steadily(t, w)
    BY <1>4, <2>3, <2>4, PlacedKeeps
  <2>6. ControlInv(w) /\ w.ctl[c].state = "Warming"
    BY <2>2, <2>3, <2>5 DEF Steadily, Safely, Placed
  <2>7. Steadily(w, u)
    BY <2>6, ActivateKeeps
  <2> QED
    BY <1>4, <2>5, <2>7, StepsCompose DEF Steadily
<1> HIDE DEF u, w
<1> QED
  BY <1>1, <1>2, <1>4, <1>5 DEF z

\* A turn of a controller that warms up.
LEMMA AdvanceKeeps ==
    ASSUME NEW r, ControlInv(r), NEW c \in Controllers, NEW at \in Nat, NEW input,
           r.ctl[c].state = "Warming"
    PROVE  Steadily(r, AdvanceWarming(r, c, at, input).rt)
<1> DEFINE w == [r EXCEPT !.ctl[c].last_tick = at]
           A == ActivateController(w, c, at)
           x == AdvanceWarming(r, c, at, input).rt
<1>1. x \in {A.rt, w, SetCtl(r, c, "Failed")} \/ (~A.ok /\ x = SetCtl(A.rt, c, "Failed"))
  BY DEF AdvanceWarming, Refused, Done
<1> HIDE DEF x
<1>2. Steadily(r, w) /\ w.ctl[c].state = "Warming"
  BY TickedStep
<1>3. ControlInv(w)
  BY <1>2 DEF Steadily, Safely
<1> HIDE DEF w
<1>4. Steadily(w, A.rt) /\ (~A.ok => A.rt.ctl[c].state = "Failed")
  BY <1>2, <1>3, ActivateKeeps
<1> HIDE DEF A
<1>5. Steadily(r, A.rt) /\ ControlInv(A.rt)
  BY <1>2, <1>4, StepsCompose DEF Steadily, Safely
<1>6. ~A.ok => Steadily(A.rt, SetCtl(A.rt, c, "Failed"))
  BY <1>4, <1>5, SetCtlStep
<1>7. Steadily(r, SetCtl(r, c, "Failed"))
  BY SetCtlStep
<1>8. ~A.ok => Steadily(r, SetCtl(A.rt, c, "Failed"))
  BY <1>5, <1>6, StepsCompose
<1> QED
  BY <1>1, <1>2, <1>5, <1>7, <1>8 DEF x

\* `s` is `r` after the lease of `c` was renewed: its owner and the authority hold it.
RenewedFor(r, c, b) == [r EXCEPT !.auth = b, !.ctl[c].lease = b.lease]

\* renew_native keeps the two copies of the lease together.
LEMMA RenewNativeKeeps ==
    ASSUME NEW r, ControlInv(r), NEW c \in Controllers, NEW at \in Nat
    PROVE  Steadily(r, RenewNative(r, c, at).rt)
<1> DEFINE l == r.ctl[c].lease
           b == Renew(r.auth, l, LeaseLifetime, at)
           s == [r EXCEPT !.auth = b]
           k == [r.ctl[c] EXCEPT !.lease = b.lease]
           t == [s EXCEPT !.ctl[c] = k]
<1>0. /\ Typed(r) /\ OwnLeases(r) /\ LeaseKnown(r) /\ OnePrepares(r) /\ FailedGate(r)
      /\ r.auth \in Authority /\ r.sent_safe \in BOOLEAN /\ Sound(r.auth, r.sent_safe, FALSE)
      /\ r.ctl[c] \in Controller
  BY Base, ControllerFields DEF ControlInv
<1>1. CASE ~RenewOk(r.auth, l, LeaseLifetime, at)
  <2>1. RenewNative(r, c, at).rt = r
    BY <1>1 DEF RenewNative, Refused
  <2> QED
    BY <2>1, StayStep
<1>2. CASE RenewOk(r.auth, l, LeaseLifetime, at)
  <2>1. RenewNative(r, c, at).rt = RenewedFor(r, c, b)
    BY <1>2 DEF RenewNative, RenewedFor, Done
  <2>2. r.auth.lease = l /\ r.auth.lease # None /\ l \in OutputLease /\ l.owner = c
    BY <1>0, <1>2 DEF RenewOk, CheckLease, Sound, Consistent, LeaseInv, Authority, OwnLeases
  <2>3. /\ b \in Authority /\ Sound(b, r.sent_safe, FALSE)
        /\ b.instance = r.auth.instance /\ b.sent = r.auth.sent
        /\ b.lease \in OutputLease /\ b.lease.owner = c
    <3> DEFINE a == r.auth
               v == r.sent_safe
    <3>1. a \in Authority /\ v \in BOOLEAN /\ Sound(a, v, FALSE)
          /\ RenewOk(a, l, LeaseLifetime, at)
      BY <1>0, <1>2
    <3>2. LeaseLifetime \in Nat
      BY ConfigAssumption
    <3> HIDE DEF a, v, l
    <3>3. Renewed(a, Renew(a, l, LeaseLifetime, at), l, v)
      BY <2>2, <3>1, <3>2, RenewLease
    <3> QED
      BY <2>2, <3>3 DEF a, v, Renewed
  <2>4. Same(r, s) /\ s.auth = b
    BY <1>0, <2>3, SetAuth
  <2>5. RenewedFor(r, c, b) = t
    <3>1. s.ctl = r.ctl
      BY <2>4 DEF Same
    <3> DEFINE g == [r.ctl EXCEPT ![c] = k]
    <3>2. t = [s EXCEPT !.ctl = g]
      BY <3>1
    <3> HIDE DEF g
    <3>3. RenewedFor(r, c, b) = [r EXCEPT !.auth = b, !.ctl = g]
      BY DEF RenewedFor, g
    <3>4. [s EXCEPT !.ctl = g] = [r EXCEPT !.auth = b, !.ctl = g]
      OBVIOUS
    <3> QED
      BY <3>2, <3>3, <3>4
  <2> HIDE DEF b, s
  <2>6. k \in Controller /\ k.state = r.ctl[c].state /\ k.lease = b.lease
    BY <1>0, <2>3 DEF Controller
  <2> HIDE DEF k
  <2>7. Placed(s, t, c, k)
    BY <2>4, <2>6, SetController DEF Same
  <2> HIDE DEF t
  <2>8. /\ Typed(t) /\ t.auth = b /\ t.sent_safe = r.sent_safe /\ t.gate = r.gate
        /\ t.ctl[c] = k
        /\ \A d \in Controllers : d # c => t.ctl[d] = r.ctl[d]
    BY <2>4, <2>7 DEF Same, Placed
  <2>9. r.ctl[c].state = "Running"
    BY <1>0, <2>2 DEF LeaseKnown
  <2>n. b.lease # None
    BY <2>3, NoneAssumption
  <2>10. OwnLeases(t)
    BY <1>0, <2>3, <2>6, <2>8, <2>n DEF OwnLeases
  <2>11. LeaseKnown(t)
    BY <2>3, <2>6, <2>8, <2>9 DEF LeaseKnown
  <2>12. OnePrepares(t)
    <3>1. \A d \in Controllers : r.ctl[d].state # "Warming"
      BY <1>0, <2>2 DEF OnePrepares, WarmingOn, CanPrepare
    <3> QED
      BY <2>6, <2>8, <3>1 DEF OnePrepares, WarmingOn
  <2>13. FailedGate(t)
    BY <1>0, <2>2, <2>8 DEF FailedGate
  <2>14. Steadily(r, t)
    BY <2>3, <2>8, <2>10, <2>11, <2>12, <2>13
    DEF ControlInv, Steadily, Safely, NothingOrdinary
  <2> QED
    BY <2>1, <2>5, <2>14
<1> QED
  BY <1>1, <1>2

\* A turn of a controller that runs: it proposes, and only simulated evidence
\* renews its lease here.  Whatever fails loses the controller.
LEMMA UpdateKeeps ==
    ASSUME NEW r, ControlInv(r), NEW c \in Controllers, NEW at \in Nat, NEW input,
           r.ctl[c].state = "Running"
    PROVE  Freshly(r, UpdateController(r, c, at, input).rt, at)
<1> DEFINE l == r.ctl[c].lease
           ttl == Earlier(ProposalTtl, l.expires - at)
           d == IF ~MayUpdate(r, c, at, input) THEN Refused(r) ELSE Deliver(r, l, ttl, at)
           s == d.rt
           n == IF d.ok /\ ~Physical THEN RenewNative(s, c, at) ELSE d
           t == n.rt
           u == [t EXCEPT !.ctl[c].last_tick = at]
           w == FailController(t, c, at).rt
           x == UpdateController(r, c, at, input).rt
<1>1. x \in {u, w}
  BY DEF UpdateController, Refused, Done
<1> HIDE DEF x
<1>2. Freshly(r, s, at)
  <2>1. CASE MayUpdate(r, c, at, input)
    <3>1. l \in OutputLease
      BY ControllerFields DEF ControlInv, OwnLeases
    <3>2. l.expires \in Nat /\ at < l.expires /\ ProposalTtl \in Nat
      BY <2>1, <3>1, ConfigAssumption DEF MayUpdate, OutputLease
    <3>3. ttl \in Nat
      BY <3>2 DEF Earlier
    <3>4. d = Deliver(r, l, ttl, at)
      BY <2>1
    <3> HIDE DEF ttl, l, d
    <3>5. Freshly(r, d.rt, at)
      BY <3>3, <3>4, DeliverKeeps
    <3> QED
      BY <3>5
  <2>2. CASE ~MayUpdate(r, c, at, input)
    <3>1. s = r
      BY <2>2 DEF Refused
    <3> HIDE DEF s, d
    <3>2. Freshly(r, r, at)
      BY StayStep, StepsCompose DEF Steadily
    <3> QED
      BY <3>1, <3>2
  <2> QED
    BY <2>1, <2>2
<1>3. t \in {s, RenewNative(s, c, at).rt}
  BY Zenon
<1> HIDE DEF d, s, n, t
<1>4. ControlInv(s)
  BY <1>2 DEF Freshly
<1>5. Steadily(s, t)
  BY <1>3, <1>4, StayStep, RenewNativeKeeps
<1>6. Freshly(r, t, at) /\ ControlInv(t)
  BY <1>2, <1>5, StepsCompose DEF Freshly
<1>7. Steadily(t, u)
  BY <1>6, TickedStep
<1> HIDE DEF u
<1>8. Steadily(t, w)
  BY <1>6, FailControllerKeeps DEF GaveBack
<1> HIDE DEF w
<1> QED
  BY <1>1, <1>6, <1>7, <1>8, StepsCompose DEF x

\* Command::TickController.
LEMMA TickKeeps ==
    ASSUME NEW r, ControlInv(r), NEW c \in Controllers, NEW at \in Nat, NEW input
    PROVE  Freshly(r, TickController(r, c, at, input).rt, at)
<1> DEFINE p == RequireRecordingOpen(r, at)
           s == p.rt
           q == CheckOutputTime(s, at)
           t == q.rt
           u == AdvanceWarming(t, c, at, input).rt
           w == UpdateController(t, c, at, input).rt
           x == TickController(r, c, at, input).rt
<1>1. \/ x \in {s, t}
      \/ t.ctl[c].state = "Warming" /\ x = u
      \/ t.ctl[c].state = "Running" /\ x = w
  BY DEF TickController, Then, Refused, Live
<1> HIDE DEF x
<1>2. Safely(r, s) /\ ControlInv(s)
  BY RequireOpenKeeps DEF Entered, Safely
<1> HIDE DEF p, s
<1>3. Steadily(s, t) /\ ControlInv(t)
  BY <1>2, CheckTimeKeeps DEF Steadily, Safely
<1> HIDE DEF q, t
<1>4. Safely(r, t)
  BY <1>2, <1>3, StepsCompose DEF Steadily
<1>5. t.ctl[c].state = "Warming" => Steadily(t, u)
  BY <1>3, AdvanceKeeps
<1> HIDE DEF u
<1>6. t.ctl[c].state = "Running" => Freshly(t, w, at)
  BY <1>3, UpdateKeeps
<1> HIDE DEF w
<1> QED
  BY <1>1, <1>2, <1>4, <1>5, <1>6, StepsCompose DEF x, Steadily

-----------------------------------------------------------------------------
(* Transport events.  None of them touches the gate.                       *)

\* The executor and the correlations do not matter here.
LEMMA OpaqueKeeps ==
    ASSUME NEW r, ControlInv(r), NEW x
    PROVE  /\ Shaped(x) => Steadily(r, [r EXCEPT !.ex = x])
           /\ Steadily(r, [r EXCEPT !.writes = x])
           /\ Steadily(r, [r EXCEPT !.readbacks = x])
           /\ Steadily(r, [r EXCEPT !.unsettled = x])
<1>1. ASSUME NEW s, Same(r, s) /\ s.auth = r.auth PROVE Steadily(r, s)
  BY <1>1, OpaqueStep
<1>2. Typed(r)
  BY DEF ControlInv
<1>3. /\ Shaped(x) => Same(r, [r EXCEPT !.ex = x]) /\ [r EXCEPT !.ex = x].auth = r.auth
      /\ Same(r, [r EXCEPT !.writes = x]) /\ [r EXCEPT !.writes = x].auth = r.auth
      /\ Same(r, [r EXCEPT !.readbacks = x]) /\ [r EXCEPT !.readbacks = x].auth = r.auth
      /\ Same(r, [r EXCEPT !.unsettled = x]) /\ [r EXCEPT !.unsettled = x].auth = r.auth
  BY <1>2, SetOpaque
<1> QED
  BY <1>1, <1>3, Zenon

\* Nor does the boundary that a rejected response costs.
LEMMA RejectKeeps ==
    ASSUME NEW r, ControlInv(r)
    PROVE  Steadily(r, RejectResponse(r))
<1>1. Shaped(ProtocolFailure(r.ex))
  BY RecoveryShaped DEF ControlInv, Typed
<1> DEFINE x == ProtocolFailure(r.ex)
<1>2. RejectResponse(r) = [r EXCEPT !.ex = x]
  BY Zenon DEF RejectResponse
<1> HIDE DEF x
<1>3. Steadily(r, [r EXCEPT !.ex = x])
  BY <1>1, OpaqueKeeps DEF x
<1> QED
  BY <1>2, <1>3

\* settle_controller_after_physical_readback renews, or loses the controller.
LEMMA SettleControllerKeeps ==
    ASSUME NEW r, ControlInv(r), NEW matched, NEW at \in Nat
    PROVE  Steadily(r, SettleController(r, matched, at).rt)
<1> DEFINE W == {c \in Controllers : r.ctl[c].state = "Running" /\ r.ctl[c].lease # None}
           c == CHOOSE w \in W : TRUE
           n == RenewNative(r, c, at).rt
           f == FailController(r, c, at).rt
           z == SetCtl(f, c, "Removed")
           x == SettleController(r, matched, at).rt
<1>1. x = r \/ (W # {} /\ x \in {n, f, z})
  BY DEF SettleController, Refused, Done
<1> HIDE DEF x
<1>2. CASE W # {}
  <2>1. c \in Controllers
    <3>1. c \in W
      BY <1>2
    <3> QED
      BY <3>1
  <2> HIDE DEF c, W
  <2>2. Steadily(r, n)
    BY <2>1, RenewNativeKeeps
  <2>3. Steadily(r, f) /\ f.ctl[c].state = "Failed"
    BY <2>1, FailControllerKeeps DEF GaveBack
  <2> HIDE DEF n, f
  <2>4. ControlInv(f)
    BY <2>3 DEF Steadily, Safely
  <2>5. Steadily(f, z)
    BY <2>1, <2>3, <2>4, SetCtlStep
  <2>6. Steadily(r, z)
    BY <2>3, <2>5, StepsCompose
  <2> QED
    BY <1>1, <2>2, <2>3, <2>6, StayStep DEF x
<1>3. CASE W = {}
  BY <1>1, <1>3, StayStep DEF x
<1> QED
  BY <1>2, <1>3

\* A safe write concerns no controller.
LEMMA SettleNormalKeeps ==
    ASSUME NEW r, ControlInv(r), NEW intent, NEW matched, NEW at \in Nat
    PROVE  Steadily(r, SettleNormal(r, intent, matched, at).rt)
  BY SettleControllerKeeps, StayStep DEF SettleNormal, Done

\* A read-back that never came.
LEMMA FailReadbackKeeps ==
    ASSUME NEW r, ControlInv(r), NEW pending, NEW at \in Nat
    PROVE  Steadily(r, FailOutputReadback(r, pending, at).rt)
<1> DEFINE b == FailTransportReadback(r.auth, pending.dispatch)
           s == [r EXCEPT !.auth = b]
           t == SettleNormal(s, pending.intent, FALSE, at).rt
           x == FailOutputReadback(r, pending, at).rt
<1>1. x \in {s, t}
  BY DEF FailOutputReadback, Then
<1> HIDE DEF x
<1>2. Calmed(r.auth, b, r.sent_safe)
  <2>1. r.auth \in Authority /\ r.sent_safe \in BOOLEAN /\ Sound(r.auth, r.sent_safe, FALSE)
    BY Base
  <2>2. TRUE \in BOOLEAN
    OBVIOUS
  <2> QED
    BY <2>1, <2>2, EvidenceCalm
<1> HIDE DEF b
<1>3. Steadily(r, s) /\ ControlInv(s)
  BY <1>2, CalmStep DEF Steadily, Safely
<1> HIDE DEF s
<1>4. Steadily(s, t)
  BY <1>3, SettleNormalKeeps
<1> HIDE DEF t
<1> QED
  BY <1>1, <1>3, <1>4, StepsCompose DEF x

\* A read-back that came.
LEMMA ReadbackKeeps ==
    ASSUME NEW r, ControlInv(r), NEW pending, NEW event, NEW at \in Nat, NEW decode
    PROVE  Steadily(r, HandleReadback(r, pending, event, at, decode).rt)
<1> DEFINE matched == decode = "match"
           b == CompleteTransportReadback(r.auth, pending.dispatch, matched)
           s == [r EXCEPT !.auth = b]
           t == SettleNormal(s, pending.intent, matched, at).rt
           f == FailOutputReadback(r, pending, at).rt
           g == RejectResponse(f)
           x == HandleReadback(r, pending, event, at, decode).rt
<1>1. x \in {r, f, g, s, t}
  BY DEF HandleReadback, Then, Done
<1> HIDE DEF x
<1>2. Calmed(r.auth, b, r.sent_safe)
  <2>1. r.auth \in Authority /\ r.sent_safe \in BOOLEAN /\ Sound(r.auth, r.sent_safe, FALSE)
    BY Base
  <2>2. matched \in BOOLEAN
    OBVIOUS
  <2> HIDE DEF matched
  <2> QED
    BY <2>1, <2>2, EvidenceCalm
<1> HIDE DEF b
<1>3. Steadily(r, s) /\ ControlInv(s)
  BY <1>2, CalmStep DEF Steadily, Safely
<1> HIDE DEF s, matched
<1>4. Steadily(s, t)
  BY <1>3, SettleNormalKeeps
<1> HIDE DEF t
<1>5. Steadily(r, f) /\ ControlInv(f)
  BY FailReadbackKeeps DEF Steadily, Safely
<1> HIDE DEF f
<1>6. Steadily(f, g)
  BY <1>5, RejectKeeps
<1> HIDE DEF g
<1> QED
  BY <1>1, <1>3, <1>4, <1>5, <1>6, StayStep, StepsCompose DEF x

\* The acknowledgement of a write, and the read that follows it.
LEMMA AcknowledgedKeeps ==
    ASSUME NEW r, ControlInv(r), NEW event, NEW at \in Nat
    PROVE  /\ Steadily(r, QueueReadback(r, event, at).rt)
           /\ Steadily(r, HandleAcknowledged(r, event, at).rt)
<1>1. ASSUME NEW s, ControlInv(s) PROVE Steadily(s, QueueReadback(s, event, at).rt)
  <2> DEFINE pending == [tx |-> s.ex.next_transaction, intent |-> event.intent,
                         dispatch |-> event.dispatch]
             x == EnqueueRead(s.ex, at + Timeout, Timeout, FALSE)
             t == [s EXCEPT !.ex = x]
             w == t.readbacks \cup {pending}
             u == [t EXCEPT !.readbacks = w]
             f == FailOutputReadback(s, pending, at).rt
             z == QueueReadback(s, event, at).rt
  <2>1. z = f \/ z = [s EXCEPT !.ex = x, !.readbacks = @ \cup {pending}]
    BY DEF QueueReadback, Done
  <2>2. [s EXCEPT !.ex = x, !.readbacks = @ \cup {pending}] = u
    <3>1. t.readbacks = s.readbacks
      BY <1>1, Zenon DEF ControlInv, Typed
    <3> HIDE DEF pending, x
    <3>2. [s EXCEPT !.ex = x, !.readbacks = @ \cup {pending}] =
             [t EXCEPT !.readbacks = s.readbacks \cup {pending}]
      OBVIOUS
    <3> QED
      BY <3>1, <3>2
  <2>3. z \in {f, u}
    BY <2>1, <2>2
  <2>0. Shaped(x)
    BY <1>1, AdmissionShaped DEF ControlInv, Typed
  <2> HIDE DEF z, w, pending, x
  <2>4. Steadily(s, f)
    BY <1>1, FailReadbackKeeps
  <2>5. Steadily(s, t) /\ ControlInv(t)
    BY <1>1, <2>0, OpaqueKeeps DEF Steadily, Safely
  <2> HIDE DEF f, t
  <2>6. Steadily(t, u)
    BY <2>5, OpaqueKeeps
  <2> HIDE DEF u
  <2> QED
    BY <2>3, <2>4, <2>5, <2>6, StepsCompose DEF z
<1>2. Steadily(r, HandleAcknowledged(r, event, at).rt)
  <2> DEFINE b == AcknowledgeTransport(r.auth, event.dispatch)
             s == [r EXCEPT !.auth = b]
             t == QueueReadback(s, event, at).rt
             c == Complete(r.auth, event.dispatch, "Acknowledged")
             u == [r EXCEPT !.auth = c]
             v == SettleNormal(u, event.intent, TRUE, at).rt
             z == HandleAcknowledged(r, event, at).rt
  <2>1. z \in {s, t, u, v}
    BY DEF HandleAcknowledged, Then
  <2> HIDE DEF z
  <2>2. r.auth \in Authority /\ r.sent_safe \in BOOLEAN /\ Sound(r.auth, r.sent_safe, FALSE)
    BY Base
  <2>3. Calmed(r.auth, b, r.sent_safe)
    <3>1. TRUE \in BOOLEAN
      OBVIOUS
    <3> QED
      BY <2>2, <3>1, EvidenceCalm
  <2>4. Calmed(r.auth, c, r.sent_safe)
    <3>1. "Acknowledged" \in DispatchOutcome
      BY DEF DispatchOutcome
    <3> QED
      BY <2>2, <3>1, CompleteCalm
  <2> HIDE DEF b, c
  <2>5. Steadily(r, s) /\ ControlInv(s) /\ Steadily(r, u) /\ ControlInv(u)
    BY <2>3, <2>4, CalmStep DEF Steadily, Safely
  <2> HIDE DEF s, u
  <2>6. Steadily(s, t)
    BY <1>1, <2>5
  <2>7. Steadily(u, v)
    BY <2>5, SettleNormalKeeps
  <2> HIDE DEF t, v
  <2> QED
    BY <2>1, <2>5, <2>6, <2>7, StepsCompose DEF z
<1> QED
  BY <1>1, <1>2

\* A dispatch whose end is not known.
LEMMA UnknownKeeps ==
    ASSUME NEW r, ControlInv(r), NEW dispatch
    PROVE  /\ Steadily(r, Uncertain(r, dispatch).rt)
           /\ Steadily(r, Ambiguous(r, dispatch).rt)
<1> DEFINE b == TransportUncertain(r.auth, dispatch)
           c == Complete(r.auth, dispatch, "Ambiguous")
           s == [r EXCEPT !.auth = b]
           t == [r EXCEPT !.auth = c]
<1>1. Uncertain(r, dispatch).rt = s /\ Ambiguous(r, dispatch).rt = t
  BY DEF Uncertain, Ambiguous
<1>2. r.auth \in Authority /\ r.sent_safe \in BOOLEAN /\ Sound(r.auth, r.sent_safe, FALSE)
  BY Base
<1>3. Calmed(r.auth, b, r.sent_safe)
  <2>1. TRUE \in BOOLEAN
    OBVIOUS
  <2> QED
    BY <1>2, <2>1, EvidenceCalm
<1>4. Calmed(r.auth, c, r.sent_safe)
  <2>1. "Ambiguous" \in DispatchOutcome
    BY DEF DispatchOutcome
  <2> QED
    BY <1>2, <2>1, CompleteCalm
<1> HIDE DEF b, c
<1>5. Steadily(r, s) /\ Steadily(r, t)
  BY <1>3, <1>4, CalmStep
<1> QED
  BY <1>1, <1>5

\* A response that is not the acknowledgement.
LEMMA RefusedAckKeeps ==
    ASSUME NEW r, ControlInv(r), NEW event
    PROVE  Steadily(r, HandleRefusedAck(r, event).rt)
<1> DEFINE s == Uncertain(r, event.dispatch).rt
           e == [intent |-> event.intent, dispatch |-> event.dispatch]
           t == [s EXCEPT !.unsettled = e]
           u == RejectResponse(t)
           z == HandleRefusedAck(r, event).rt
<1>1. z \in {s, u}
  BY DEF HandleRefusedAck, Then, Done
<1> HIDE DEF z, e
<1>2. Steadily(r, s) /\ ControlInv(s)
  BY UnknownKeeps DEF Steadily, Safely
<1> HIDE DEF s
<1>3. Steadily(s, t) /\ ControlInv(t)
  BY <1>2, OpaqueKeeps DEF Steadily, Safely
<1> HIDE DEF t
<1>4. Steadily(t, u)
  BY <1>3, RejectKeeps
<1> HIDE DEF u
<1> QED
  BY <1>1, <1>2, <1>3, <1>4, StepsCompose DEF z

\* The end of a write.
LEMMA OutputTerminalKeeps ==
    ASSUME NEW r, ControlInv(r), NEW event, NEW at \in Nat, NEW decode
    PROVE  Steadily(r, HandleOutputTerminal(r, event, at, decode).rt)
<1> DEFINE W == {w \in r.writes : w.tx # event.id}
           s == [r EXCEPT !.writes = W]
           b == FailTransportBeforeSend(s.auth, event.intent)
           t == [s EXCEPT !.auth = b]
           u == Ambiguous(s, event.dispatch).rt
           v == HandleAcknowledged(s, event, at).rt
           w1 == HandleRefusedAck(s, event).rt
           z == HandleOutputTerminal(r, event, at, decode).rt
<1>1. z \in {t, u, v, w1}
  BY DEF HandleOutputTerminal, Done
<1> HIDE DEF z, W
<1>2. Steadily(r, s) /\ ControlInv(s)
  BY OpaqueKeeps DEF Steadily, Safely
<1> HIDE DEF s
<1>3. Calmed(s.auth, b, s.sent_safe)
  <2>1. s.auth \in Authority /\ s.sent_safe \in BOOLEAN /\ Sound(s.auth, s.sent_safe, FALSE)
    BY <1>2, Base
  <2> QED
    BY <2>1, AbortCalm
<1> HIDE DEF b
<1>4. Steadily(s, t)
  BY <1>2, <1>3, CalmStep
<1>5. Steadily(s, u)
  BY <1>2, UnknownKeeps
<1>6. Steadily(s, v)
  BY <1>2, AcknowledgedKeeps
<1>7. Steadily(s, w1)
  BY <1>2, RefusedAckKeeps
<1> HIDE DEF t, u, v, w1
<1> QED
  BY <1>1, <1>2, <1>4, <1>5, <1>6, <1>7, StepsCompose DEF z

\* handle_transport_event: whatever the event says, and whenever it comes.
LEMMA EventKeeps ==
    ASSUME NEW r, ControlInv(r), NEW event, NEW at \in Nat, NEW decode
    PROVE  Steadily(r, HandleEvent(r, event, at, decode).rt)
<1> DEFINE R == {p \in r.readbacks : p.tx = event.id}
           p0 == CHOOSE p \in R : TRUE
           D == r.readbacks \ R
           s == [r EXCEPT !.readbacks = D]
           f == FailOutputReadback(s, p0, at).rt
           h == HandleReadback(s, p0, event, at, decode).rt
           j == RejectResponse(r)
           W == {w \in r.writes : w.tx # event.id}
           k == [r EXCEPT !.writes = W]
           l == Uncertain(k, event.dispatch).rt
           m == HandleOutputTerminal(r, event, at, decode).rt
           n == [r EXCEPT !.unsettled = None]
           o == Ambiguous(n, r.unsettled.dispatch).rt
           z == HandleEvent(r, event, at, decode).rt
<1>1. z \in {r, f, h, j, l, m, o}
  <2> DEFINE type == event.type
  <2>1. HandleEvent(r, event, at, decode) \in
           {Done(r), FailOutputReadback(s, p0, at), HandleReadback(s, p0, event, at, decode),
            Done(j), Uncertain(k, event.dispatch), HandleOutputTerminal(r, event, at, decode),
            Ambiguous(n, r.unsettled.dispatch)}
    BY Zenon DEF HandleEvent
  <2> HIDE DEF f, h, j, l, m, n, k, s, p0
  <2> QED
    BY <2>1 DEF Done, f, h, l, m, o
<1> HIDE DEF z, W, D, p0
<1>2. /\ Steadily(r, s) /\ ControlInv(s)
      /\ Steadily(r, k) /\ ControlInv(k)
      /\ Steadily(r, n) /\ ControlInv(n)
      /\ Steadily(r, j)
  BY OpaqueKeeps, RejectKeeps DEF Steadily, Safely
<1> HIDE DEF s, k, n, j
<1>3. Steadily(s, f)
  BY <1>2, FailReadbackKeeps
<1>4. Steadily(s, h)
  BY <1>2, ReadbackKeeps
<1>5. Steadily(k, l)
  BY <1>2, UnknownKeeps
<1>6. Steadily(r, m)
  BY OutputTerminalKeeps
<1>7. Steadily(n, o)
  BY <1>2, UnknownKeeps
<1> HIDE DEF f, h, l, m, o
<1> QED
  BY <1>1, <1>2, <1>3, <1>4, <1>5, <1>6, <1>7, StayStep, StepsCompose DEF z

-----------------------------------------------------------------------------
(* Polling and the safety service.                                         *)

\* The send that a poll may start.
PolledSend(r, x, b, v) == [r EXCEPT !.ex = x, !.auth = b, !.sent_safe = v]

\* The fields after it.
LEMMA SetPolled ==
    ASSUME NEW r, Typed(r), NEW x, Shaped(x), NEW b \in Authority, NEW v \in BOOLEAN
    PROVE  Resent(r, PolledSend(r, x, b, v), b, v)
<1> DEFINE s == PolledSend(r, x, b, v)
<1>0. s = [r EXCEPT !.ex = x, !.auth = b, !.sent_safe = v]
  BY DEF PolledSend
<1> HIDE DEF s
<1>1. /\ s.auth = b /\ s.ex = x /\ s.generation = r.generation
      /\ s.writes = r.writes /\ s.readbacks = r.readbacks /\ s.unsettled = r.unsettled
      /\ s.sent_safe = v /\ s.ctl = r.ctl /\ s.gate = r.gate
  BY <1>0, Zenon DEF Typed
<1>2. Typed(s)
  BY <1>0, <1>1, Zenon DEF Typed
<1>3. Resent(r, s, b, v)
  BY <1>1, <1>2 DEF Resent
<1> QED
  BY <1>3 DEF s

\* One poll: an ordinary send needs an open gate, at the moment it starts.
LEMMA PollResourceKeeps ==
    ASSUME NEW r, ControlInv(r), NEW at \in Nat, NEW answer, RecordingOpen(r) => Fresh(r, at)
    PROVE  Freshly(r, PollResource(r, at, answer).rt, at)
<1> DEFINE intent == OfferedIntent(r.ex)
           may == intent # None /\ Authorized(r, intent, at)
           id == IF may /\ BeginTransportOk(r.auth, intent, at)
                 THEN [instance |-> r.auth.instance, sequence |-> r.auth.next_dispatch]
                 ELSE None
           polled == PollState(r.ex, at,
                               [authorized |-> may, dispatch |-> id,
                                written |-> answer.written, read |-> answer.read,
                                recover |-> answer.recover])
           sent == /\ id # None
                   /\ \/ polled.tx # None /\ polled.tx.dispatch = id
                      \/ \E i \in DOMAIN polled.events : polled.events[i].dispatch = id
           x == [TakeEvent(polled) EXCEPT !.latest = None]
           b == IF sent THEN BeginTransport(r.auth, intent, at) ELSE r.auth
           v == IF sent THEN intent.safe ELSE r.sent_safe
           s == PolledSend(r, x, b, v)
           e == Head(polled.events)
           t == HandleEvent(s, e, at, answer.decode).rt
           z == PollResource(r, at, answer).rt
<1>1. z \in {s, t}
  <2> DEFINE y == [r EXCEPT !.ex = x,
                            !.auth = IF sent THEN BeginTransport(@, intent, at) ELSE @,
                            !.sent_safe = IF sent THEN intent.safe ELSE @]
  <2>1. PollResource(r, at, answer) =
           IF polled.events = <<>> THEN Done(y)
           ELSE HandleEvent(y, e, at, answer.decode)
    BY Zenon DEF PollResource
  <2> HIDE DEF x, sent, intent, e, polled
  <2>2. y = s
    BY DEF PolledSend
  <2> HIDE DEF y, s
  <2> QED
    BY <2>1, <2>2 DEF Done
<1>2. sent => may /\ BeginTransportOk(r.auth, intent, at)
  BY Zenon
<1>3. may => intent # None /\ (intent.safe \/ RecordingOpen(r))
  BY DEF Authorized
<1>0. Shaped(x)
  <2>1. Shaped(r.ex)
    BY DEF ControlInv, Typed
  <2>2. Shaped(polled)
    BY <2>1, PollShaped, Zenon
  <2> HIDE DEF polled
  <2>3. Shaped(TakeEvent(polled))
    BY <2>2, TakeShaped
  <2> QED
    BY <2>3, SetShaped, Zenon
<1> HIDE DEF z, e, x, polled, id, may, intent
<1>4. /\ Typed(r) /\ r.auth \in Authority /\ r.sent_safe \in BOOLEAN
      /\ Sound(r.auth, r.sent_safe, FALSE)
  BY Base
<1>5. CASE sent
  <2>1. b = BeginTransport(r.auth, intent, at) /\ v = intent.safe
    BY <1>5
  <2>2. /\ intent \in OutputIntent
        /\ BeginTransport(r.auth, intent, at) \in Authority
        /\ Eases(r.auth, BeginTransport(r.auth, intent, at))
        /\ Sound(BeginTransport(r.auth, intent, at), intent.safe, FALSE)
    <3>1. intent # None /\ BeginTransportOk(r.auth, intent, at)
      BY <1>2, <1>3, <1>5
    <3> QED
      BY <1>4, <3>1, BeginTransportEases
  <2>3. intent.safe \in BOOLEAN
    BY <2>2 DEF OutputIntent
  <2> HIDE DEF b, v, sent
  <2>4. Resent(r, s, b, v)
    BY <1>0, <1>4, <2>1, <2>2, <2>3, SetPolled
  <2> HIDE DEF s
  <2>5. ControlInv(s)
    <3>1. Eases(r.auth, s.auth) /\ Sound(s.auth, s.sent_safe, FALSE)
      BY <2>1, <2>2, <2>4 DEF Resent
    <3> QED
      BY <2>4, <3>1, EaseKeeps DEF Resent
  <2>6. Sends(r, s, v)
    BY <2>1, <2>2, <2>4, <2>5 DEF Sends, Resent, Eases
  <2>7. Freshly(r, s, at)
    <3>1. v \/ Fresh(r, at)
      BY <1>2, <1>3, <1>5, <2>1
    <3>2. v \in BOOLEAN
      BY <2>1, <2>3
    <3>3. Freshly(r, s, at) \/ Steadily(r, s)
      BY <2>6, <3>1, <3>2, SendsKeep
    <3> QED
      BY <3>3, StepsCompose DEF Steadily
  <2>8. Steadily(s, t)
    BY <2>5, EventKeeps
  <2> HIDE DEF t
  <2> QED
    BY <1>1, <2>7, <2>8, StepsCompose DEF z
<1>6. CASE ~sent
  <2>1. b = r.auth /\ v = r.sent_safe
    BY <1>6
  <2> HIDE DEF b, v, sent
  <2>2. Resent(r, s, b, v)
    BY <1>0, <1>4, <2>1, SetPolled
  <2> HIDE DEF s
  <2>3. Same(r, s) /\ s.auth = r.auth
    BY <2>1, <2>2 DEF Resent, Same
  <2>4. Steadily(r, s) /\ ControlInv(s)
    BY <2>3, OpaqueStep DEF Steadily, Safely
  <2>5. Steadily(s, t)
    BY <2>4, EventKeeps
  <2> HIDE DEF t
  <2> QED
    BY <1>1, <2>4, <2>5, StepsCompose DEF z, Steadily
<1> QED
  BY <1>5, <1>6

\* The deadline and the watchdogs, before the resource is served.
LEMMA ServedKeeps ==
    ASSUME NEW r, ControlInv(r), NEW at \in Nat
    PROVE  LET s == CheckOutputTime(ServiceRecordingDeadline(r, at), at).rt
           IN  /\ Safely(r, s)
               /\ ControlInv(s)
               /\ RecordingOpen(s) => Fresh(s, at)
<1> DEFINE d == ServiceRecordingDeadline(r, at)
           s == CheckOutputTime(d, at).rt
<1>1. Safely(r, d) /\ ControlInv(d) /\ (RecordingOpen(d) => Fresh(d, at))
  BY DeadlineKeeps DEF Entered, Safely
<1> HIDE DEF d
<1>2. Steadily(d, s) /\ Same(d, s)
  BY <1>1, CheckTimeKeeps
<1> HIDE DEF s
<1>3. RecordingOpen(s) => Fresh(s, at)
  BY <1>1, <1>2 DEF Same, RecordingOpen, Fresh
<1>4. Safely(r, s) /\ ControlInv(s)
  BY <1>1, <1>2, StepsCompose DEF Steadily, Safely
<1> QED
  BY <1>3, <1>4 DEF s, d

\* poll_transports.
LEMMA PollKeeps ==
    ASSUME NEW r, ControlInv(r), NEW at \in Nat, NEW answer
    PROVE  Freshly(r, PollTransports(r, at, answer).rt, at)
<1> DEFINE q == CheckOutputTime(ServiceRecordingDeadline(r, at), at)
           s == q.rt
           t == PollResource(s, at, answer).rt
           z == PollTransports(r, at, answer).rt
<1>1. z \in {s, t}
  BY DEF PollTransports, Then, Done
<1> HIDE DEF z
<1>2. Safely(r, s) /\ ControlInv(s) /\ (RecordingOpen(s) => Fresh(s, at))
  BY ServedKeeps
<1> HIDE DEF q, s
<1>3. Freshly(s, t, at)
  BY <1>2, PollResourceKeeps
<1> HIDE DEF t
<1> QED
  BY <1>1, <1>2, <1>3, StepsCompose DEF z

\* The safety service asks one controller.
LEMMA SuperviseKeeps ==
    ASSUME NEW r, ControlInv(r), NEW c \in Controllers, NEW at \in Nat, NEW bad
    PROVE  Steadily(r, Supervise(r, c, at, bad))
<1> DEFINE s == SetCtl(r, c, "Failed")
           t == FailController(r, c, at).rt
           z == Supervise(r, c, at, bad)
<1>1. \/ z = r
      \/ r.ctl[c].state = "Warming" /\ z = s
      \/ z = t
  BY DEF Supervise
<1> HIDE DEF z
<1>2. r.ctl[c].state = "Warming" => Steadily(r, s)
  BY SetCtlStep
<1> HIDE DEF s
<1>3. Steadily(r, t)
  BY FailControllerKeeps DEF GaveBack
<1> HIDE DEF t
<1> QED
  BY <1>1, <1>2, <1>3, StayStep DEF z

\* A set of naturals has a least element.
LEMMA LeastNatural ==
    ASSUME NEW T, T \subseteq Nat, T # {}
    PROVE  \E m \in T : \A k \in T : m <= k
<1> DEFINE R == OpToRel(<, Nat)
<1>1. IsWellFoundedOn(R, Nat)
  BY NatLessThanWellFounded DEF OpToRel
<1>2. \A x, y \in Nat : x < y => <<x, y>> \in R
  BY DEF OpToRel
<1> HIDE DEF R
<1>3. \E m \in T : \A k \in T : ~(<<k, m>> \in R)
  BY <1>1, WFMin
<1>4. ASSUME NEW m \in T, NEW k \in T, ~(<<k, m>> \in R)
      PROVE  m <= k
  <2>1. m \in Nat /\ k \in Nat
    OBVIOUS
  <2>2. ~(k < m)
    BY <1>2, <1>4, <2>1
  <2> QED
    BY <2>1, <2>2
<1> QED
  BY <1>3, <1>4

\* The loop over the controllers in `order`, up to the first n of them.
Supervision(f, r, at, bad, order, n) ==
    f = [i \in 0..n |-> IF i = 0 THEN r ELSE Supervise(f[i - 1], order[i], at, bad)]

\* The loop is well-defined: take the least n for which it were not.
LEMMA SupervisionExists ==
    ASSUME NEW r, NEW at, NEW bad, NEW order, NEW n \in Nat
    PROVE  \E f : Supervision(f, r, at, bad, order, n)
<1> DEFINE T == {k \in Nat : ~ \E f : Supervision(f, r, at, bad, order, k)}
<1>1. SUFFICES ASSUME T # {} PROVE FALSE
  OBVIOUS
<1>2. PICK m \in T : \A k \in T : m <= k
  <2> HIDE DEF T
  <2>1. T \subseteq Nat
    BY DEF T
  <2> QED
    BY <1>1, <2>1, LeastNatural
<1>3. CASE m = 0
  <2> DEFINE f == [i \in 0..0 |-> r]
  <2>1. Supervision(f, r, at, bad, order, 0)
    BY DEF Supervision
  <2> QED
    BY <1>2, <1>3, <2>1
<1>4. CASE m # 0
  <2>1. m - 1 \in Nat /\ m \in Nat
    BY <1>4
  <2>2. m - 1 \notin T
    <3> HIDE DEF T
    <3> QED
      BY <1>2, <2>1
  <2>3. PICK f : Supervision(f, r, at, bad, order, m - 1)
    BY <2>1, <2>2
  <2> DEFINE g == [i \in 0..m |->
                      IF i = m THEN Supervise(f[m - 1], order[m], at, bad) ELSE f[i]]
  <2>4. ASSUME NEW i \in 0..m
        PROVE  g[i] = IF i = 0 THEN r ELSE Supervise(g[i - 1], order[i], at, bad)
    <3>1. CASE i = m
      BY <1>4, <2>1, <3>1
    <3>2. CASE i # m
      <4>1. i \in 0..(m - 1)
        BY <2>1, <3>2
      <4>2. f[i] = IF i = 0 THEN r ELSE Supervise(f[i - 1], order[i], at, bad)
        BY <2>3, <4>1 DEF Supervision
      <4>3. i # 0 => i - 1 \in 0..m /\ i - 1 # m
        BY <2>1, <4>1
      <4> QED
        BY <2>1, <3>2, <4>2, <4>3
    <3> QED
      BY <3>1, <3>2
  <2>5. Supervision(g, r, at, bad, order, m)
    <3> DEFINE h == [i \in 0..m |->
                        IF i = 0 THEN r ELSE Supervise(g[i - 1], order[i], at, bad)]
    <3>1. g = h
      BY <2>4
    <3> QED
      BY <3>1 DEF Supervision
  <2> QED
    BY <1>2, <2>5
<1> QED
  BY <1>3, <1>4

\* The controllers in an order.
LEMMA OrderOfControllers ==
    LET order == SetToSeq(Controllers)
    IN  /\ Len(order) \in Nat
        /\ \A i \in 1..Len(order) : order[i] \in Controllers
<1>1. IsFiniteSet(Controllers)
  BY ConfigAssumption DEF Controllers
<1>2. PICK n \in Nat : ExistsBijection(1..n, Controllers)
  BY <1>1, FS_NatBijection
<1>3. Cardinality(Controllers) = n
  BY <1>2, FS_CountingElements
<1>4. \E f \in [1..Cardinality(Controllers) -> Controllers] : IsInjective(f)
  BY <1>2, <1>3 DEF ExistsBijection, Bijection, Injection
<1> DEFINE order == SetToSeq(Controllers)
<1>5. order \in [1..Cardinality(Controllers) -> Controllers]
  BY <1>4 DEF SetToSeq
<1> HIDE DEF order
<1>6. Len(order) = n /\ DOMAIN order = 1..n
  BY <1>3, <1>5
<1> QED
  BY <1>3, <1>5, <1>6 DEF order

\* The safety service asks every controller, one after the other.
LEMMA SuperviseAllKeeps ==
    ASSUME NEW r, ControlInv(r), NEW at \in Nat, NEW bad
    PROVE  Steadily(r, SuperviseAll(r, at, bad))
<1> DEFINE order == SetToSeq(Controllers)
           n == Len(order)
           f == CHOOSE f : Supervision(f, r, at, bad, order, n)
<1>1. n \in Nat /\ \A i \in 1..n : order[i] \in Controllers
  BY OrderOfControllers
<1>2. SuperviseAll(r, at, bad) = f[n]
  BY DEF SuperviseAll, Supervision
<1> HIDE DEF order, n
<1>3. Supervision(f, r, at, bad, order, n)
  BY <1>1, SupervisionExists
<1> HIDE DEF f
<1>4. f[0] = r /\ \A i \in 1..n : f[i] = Supervise(f[i - 1], order[i], at, bad)
  <2>1. \A i \in 0..n : f[i] = IF i = 0 THEN r ELSE Supervise(f[i - 1], order[i], at, bad)
    BY <1>3 DEF Supervision
  <2> QED
    BY <1>1, <2>1
<1> DEFINE T == {k \in 0..n : ~Steadily(r, f[k])}
<1>5. CASE T = {}
  BY <1>1, <1>2, <1>5
<1>6. CASE T # {}
  <2>1. PICK m \in T : \A k \in T : m <= k
    <3>1. T \subseteq Nat
      OBVIOUS
    <3> HIDE DEF T
    <3> QED
      BY <1>6, <3>1, LeastNatural
  <2>2. m # 0 /\ m \in 1..n
    BY <1>1, <1>4, StayStep
  <2>3. m - 1 \notin T
    BY <1>1, <2>1, <2>2
  <2>4. Steadily(r, f[m - 1]) /\ ControlInv(f[m - 1])
    BY <1>1, <2>2, <2>3 DEF Steadily, Safely
  <2>5. f[m] = Supervise(f[m - 1], order[m], at, bad) /\ order[m] \in Controllers
    BY <1>1, <1>4, <2>2
  <2>6. Steadily(f[m - 1], f[m])
    BY <2>4, <2>5, SuperviseKeeps
  <2>7. Steadily(r, f[m])
    BY <2>4, <2>6, StepsCompose
  <2> QED
    BY <2>7
<1> QED
  BY <1>5, <1>6

\* An owed safe write is the safe one.
LEMMA ServeSafeKeeps ==
    ASSUME NEW r, ControlInv(r), NEW at \in Nat
    PROVE  Steadily(r, ServeSafe(r, at))
<1> DEFINE s == QueueOutput(r, at).rt
           t == Simulated(r, at).rt
           z == ServeSafe(r, at)
<1>1. \/ z = r
      \/ z = s
      \/ r.auth.state = "SafePending" /\ r.auth.in_flight = None /\ z = t
  BY DEF ServeSafe
<1> HIDE DEF z
<1>2. Steadily(r, s)
  BY QueueOutputKeeps
<1> HIDE DEF s
<1>3. r.auth.state = "SafePending" /\ r.auth.in_flight = None => r.auth.safe_obligation_pending
  BY Base DEF Sound, WorkInv
<1>4. r.auth.safe_obligation_pending => Steadily(r, t)
  BY SimulatedKeeps
<1> HIDE DEF t
<1> QED
  BY <1>1, <1>2, <1>3, <1>4, StayStep DEF z

\* service_safety: the deadline, the controllers, the owed safe write, one poll.
LEMMA ServiceKeeps ==
    ASSUME NEW r, ControlInv(r), NEW at \in Nat, NEW bad, NEW answer
    PROVE  Freshly(r, ServiceSafety(r, at, bad, answer).rt, at)
<1> DEFINE q == CheckOutputTime(ServiceRecordingDeadline(r, at), at)
           s == q.rt
           t == SuperviseAll(s, at, bad)
           u == ServeSafe(t, at)
           v == PollTransports(u, at, answer).rt
           z == ServiceSafety(r, at, bad, answer).rt
<1>1. z \in {s, v}
  BY Zenon DEF ServiceSafety, Then
<1> HIDE DEF z
<1>2. Safely(r, s) /\ ControlInv(s)
  BY ServedKeeps
<1> HIDE DEF q, s
<1>3. Steadily(s, t) /\ ControlInv(t)
  BY <1>2, SuperviseAllKeeps DEF Steadily, Safely
<1> HIDE DEF t
<1>4. Steadily(t, u) /\ ControlInv(u)
  BY <1>3, ServeSafeKeeps DEF Steadily, Safely
<1> HIDE DEF u
<1>5. Freshly(u, v, at)
  BY <1>4, PollKeeps
<1> HIDE DEF v
<1>6. Safely(r, u)
  BY <1>2, <1>3, <1>4, StepsCompose DEF Steadily
<1>7. Freshly(r, v, at) /\ Freshly(r, s, at)
  BY <1>2, <1>5, <1>6, StepsCompose
<1> QED
  BY <1>1, <1>7 DEF z

-----------------------------------------------------------------------------
(* Retirement and rebind.                                                  *)

\* The Runtime with the retired executor.
Retired(r, complete) == [r EXCEPT !.ex = [TryShutdown(@, complete) EXCEPT !.events = <<>>]]

\* The retirement matters to nobody, and its events are finitely many.
LEMMA RetiredKeeps ==
    ASSUME NEW r, ControlInv(r), NEW complete
    PROVE  /\ Steadily(r, Retired(r, complete))
           /\ Len(TryShutdown(r.ex, complete).events) \in Nat
<1> DEFINE y == TryShutdown(r.ex, complete)
           x == [y EXCEPT !.events = <<>>]
<1>1. Shaped(r.ex)
  BY DEF ControlInv, Typed
<1>2. Shaped(y)
  BY <1>1, ShutdownShaped
<1>3. Retired(r, complete) = [r EXCEPT !.ex = x]
  BY Zenon DEF Retired
<1> HIDE DEF y
<1>4. IsSequence(y.events) /\ Len(y.events) \in Nat /\ IsSequence(<<>>)
  BY <1>2, Extended DEF Shaped
<1>5. Shaped(x)
  BY <1>2, <1>4, SetShaped, Zenon
<1> HIDE DEF x
<1>6. Steadily(r, [r EXCEPT !.ex = x])
  BY <1>5, OpaqueKeeps
<1> QED
  BY <1>3, <1>4, <1>6 DEF y

\* The loop over the events of a retirement, up to the first n of them.
Drained(f, r, at, events, n) ==
    f = [i \in 0..n |->
            IF i = 0 THEN Done(r)
            ELSE Then(f[i - 1], LAMBDA s : HandleEvent(s, events[i], at, "match"))]

\* The loop is well-defined: take the least n for which it were not.
LEMMA DrainedExists ==
    ASSUME NEW r, NEW at, NEW events, NEW n \in Nat
    PROVE  \E f : Drained(f, r, at, events, n)
<1> DEFINE Handle(p, e) == Then(p, LAMBDA s : HandleEvent(s, e, at, "match"))
           T == {k \in Nat : ~ \E f : Drained(f, r, at, events, k)}
<1>0. \A f, k : Drained(f, r, at, events, k) <=>
         f = [i \in 0..k |-> IF i = 0 THEN Done(r) ELSE Handle(f[i - 1], events[i])]
  BY DEF Drained
<1> HIDE DEF Handle
<1>1. SUFFICES ASSUME T # {} PROVE FALSE
  OBVIOUS
<1>2. PICK m \in T : \A k \in T : m <= k
  <2> HIDE DEF T
  <2>1. T \subseteq Nat
    BY DEF T
  <2> QED
    BY <1>1, <2>1, LeastNatural
<1>3. CASE m = 0
  <2> DEFINE f == [i \in 0..0 |-> Done(r)]
  <2>1. f = [i \in 0..0 |-> IF i = 0 THEN Done(r) ELSE Handle(f[i - 1], events[i])]
    OBVIOUS
  <2>2. Drained(f, r, at, events, 0)
    BY <1>0, <2>1
  <2> QED
    BY <1>2, <1>3, <2>2
<1>4. CASE m # 0
  <2>1. m - 1 \in Nat /\ m \in Nat
    BY <1>4
  <2>2. m - 1 \notin T
    <3> HIDE DEF T
    <3> QED
      BY <1>2, <2>1
  <2>3. PICK f : Drained(f, r, at, events, m - 1)
    BY <2>1, <2>2
  <2> DEFINE g == [i \in 0..m |-> IF i = m THEN Handle(f[m - 1], events[m]) ELSE f[i]]
  <2>4. ASSUME NEW i \in 0..m
        PROVE  g[i] = IF i = 0 THEN Done(r) ELSE Handle(g[i - 1], events[i])
    <3>1. CASE i = m
      BY <1>4, <2>1, <3>1
    <3>2. CASE i # m
      <4>1. i \in 0..(m - 1)
        BY <2>1, <3>2
      <4>2. f[i] = IF i = 0 THEN Done(r) ELSE Handle(f[i - 1], events[i])
        BY <1>0, <2>3, <4>1
      <4>3. i # 0 => i - 1 \in 0..m /\ i - 1 # m
        BY <2>1, <4>1
      <4> QED
        BY <2>1, <3>2, <4>2, <4>3
    <3> QED
      BY <3>1, <3>2
  <2>5. Drained(g, r, at, events, m)
    <3> DEFINE h == [i \in 0..m |-> IF i = 0 THEN Done(r) ELSE Handle(g[i - 1], events[i])]
    <3>1. g = h
      BY <2>4
    <3> QED
      BY <1>0, <3>1
  <2> QED
    BY <1>2, <2>5
<1> QED
  BY <1>3, <1>4

\* shutdown_transport: the owner learns the end of everything, or stops at an error.
LEMMA ShutdownKeeps ==
    ASSUME NEW r, ControlInv(r), NEW at \in Nat, NEW complete
    PROVE  Steadily(r, ShutdownTransport(r, at, complete).rt)
<1> DEFINE events == TryShutdown(r.ex, complete).events
           n == Len(events)
           q == Retired(r, complete)
           f == CHOOSE f : Drained(f, q, at, events, n)
           z == ShutdownTransport(r, at, complete)
<1>1. Steadily(r, q) /\ n \in Nat
  BY RetiredKeeps
<1>2. z = f[n]
  BY DEF ShutdownTransport, Drained, Retired
<1> HIDE DEF events, n, q, z
<1>3. Drained(f, q, at, events, n)
  BY <1>1, DrainedExists
<1> HIDE DEF f
<1> DEFINE Handle(p, e) == Then(p, LAMBDA s : HandleEvent(s, e, at, "match"))
<1>0. \A p, e : Handle(p, e) \in {p, HandleEvent(p.rt, e, at, "match")}
  BY DEF Then
<1>4. f = [i \in 0..n |-> IF i = 0 THEN Done(q) ELSE Handle(f[i - 1], events[i])]
  BY <1>3 DEF Drained
<1> HIDE DEF Handle
<1>5. f[0].rt = q
  BY <1>1, <1>4 DEF Done
<1>6. ASSUME NEW i \in 1..n
      PROVE  f[i] \in {f[i - 1], HandleEvent(f[i - 1].rt, events[i], at, "match")}
  <2>1. f[i] = Handle(f[i - 1], events[i])
    BY <1>1, <1>4
  <2> QED
    BY <1>0, <2>1
<1> DEFINE T == {k \in 0..n : ~Steadily(r, f[k].rt)}
<1>7. CASE T = {}
  <2>1. Steadily(r, f[n].rt)
    BY <1>1, <1>7
  <2> QED
    BY <1>2, <2>1 DEF z
<1>8. CASE T # {}
  <2>1. PICK m \in T : \A k \in T : m <= k
    <3>1. T \subseteq Nat
      OBVIOUS
    <3> HIDE DEF T
    <3> QED
      BY <1>8, <3>1, LeastNatural
  <2>2. m # 0 /\ m \in 1..n
    BY <1>1, <1>5
  <2>3. m - 1 \notin T
    BY <1>1, <2>1, <2>2
  <2> DEFINE p == f[m - 1].rt
             h == HandleEvent(p, events[m], at, "match")
  <2>4. Steadily(r, p) /\ ControlInv(p)
    BY <1>1, <2>2, <2>3 DEF Steadily, Safely
  <2>5. f[m].rt \in {p, h.rt}
    BY <1>6, <2>2
  <2>6. Steadily(p, h.rt)
    BY <2>4, EventKeeps
  <2> HIDE DEF h, p
  <2>7. Steadily(r, f[m].rt)
    BY <2>4, <2>5, <2>6, StepsCompose
  <2> QED
    BY <2>7
<1> QED
  BY <1>7, <1>8

\* A rebind, while no controller is live, starts a new authority.
LEMMA ReboundKeeps ==
    ASSUME NEW r, ControlInv(r), \A c \in Controllers : r.ctl[c].state \notin Live
    PROVE  ControlInv(Rebound(r)) /\ Rebound(r).auth.instance # r.auth.instance
<1> DEFINE i == r.auth.instance + 1
           b == New(i)
           g == r.generation + 1
           s == Rebound(r)
<1>1. Typed(r) /\ r.auth.instance \in Nat /\ r.generation \in Nat /\ r.sent_safe \in BOOLEAN
  BY Base, Zenon DEF Authority
<1>2. b \in Authority /\ Sound(b, r.sent_safe, FALSE)
  <2>1. i \in Nat
    BY <1>1
  <2> HIDE DEF i
  <2> QED
    BY <1>1, <2>1, NewSound
<1>3. b.lease = None /\ b.instance = i
  BY DEF New
<1>4. g \in Nat /\ i # r.auth.instance
  BY <1>1
<1>5. s = [r EXCEPT !.generation = g, !.writes = {}, !.readbacks = {}, !.auth = b]
  BY Zenon DEF Rebound
<1> HIDE DEF s, b, g, i
<1>6. /\ s.auth = b /\ s.ex = r.ex /\ s.generation = g
      /\ s.writes = {} /\ s.readbacks = {} /\ s.unsettled = r.unsettled
      /\ s.sent_safe = r.sent_safe /\ s.ctl = r.ctl /\ s.gate = r.gate
  BY <1>1, <1>5, Zenon DEF Typed
<1>7. Typed(s)
  BY <1>1, <1>2, <1>4, <1>5, <1>6, Zenon DEF Typed
<1>8. OwnLeases(s) /\ LeaseKnown(s)
  BY <1>3, <1>6 DEF ControlInv, OwnLeases, LeaseKnown
<1>9. OnePrepares(s)
  BY <1>6 DEF OnePrepares, WarmingOn, Live
<1>10. FailedGate(s)
  BY <1>3, <1>6 DEF ControlInv, FailedGate
<1>11. ControlInv(s)
  BY <1>2, <1>6, <1>7, <1>8, <1>9, <1>10 DEF ControlInv
<1> QED
  BY <1>3, <1>4, <1>6, <1>11 DEF s

\* A step sent nothing ordinary, or there is a new authority.
Replaces(r, s) == ControlInv(s) /\ (NothingOrdinary(r, s) \/ s.auth.instance # r.auth.instance)

\* The host's reconnect.
LEMMA ReconnectKeeps ==
    ASSUME NEW r, ControlInv(r), NEW at \in Nat
    PROVE  Replaces(r, Reconnect(r, at).rt)
<1> DEFINE s == ShutdownTransport(r, at, TRUE).rt
           x == NewExecutor(s.ex.generation + 1)
           t == [s EXCEPT !.ex = x]
           u == CheckOutputTime(t, at).rt
           v == Rebound(u)
           d == RebindDevice(t, at)
           w == BindOutput(d.rt, at).rt
           z == Reconnect(r, at).rt
<1>1. z \in {s, d.rt, w}
  BY Zenon DEF Reconnect, Then
<1>2. \/ d.rt = t
      \/ d.rt = u
      \/ d.rt = v /\ ~ \E c \in Controllers : t.ctl[c].state \in Live
  BY Zenon DEF RebindDevice, Then, Done, Refused
<1> HIDE DEF z, d
<1>3. Steadily(r, s) /\ ControlInv(s)
  BY ShutdownKeeps DEF Steadily, Safely
<1> HIDE DEF s
<1>4. Steadily(s, t) /\ ControlInv(t)
  <2>1. Shaped(x)
    BY NewShaped
  <2> HIDE DEF x
  <2> QED
    BY <1>3, <2>1, OpaqueKeeps DEF Steadily, Safely
<1> HIDE DEF t
<1>5. Steadily(t, u) /\ Same(t, u) /\ ControlInv(u)
  BY <1>4, CheckTimeKeeps DEF Steadily, Safely
<1> HIDE DEF u
<1>6. Safely(r, s) /\ Safely(r, t) /\ Safely(r, u)
  BY <1>3, <1>4, <1>5, StepsCompose DEF Steadily
<1>7. Replaces(r, d.rt)
  <2>1. ASSUME NEW y, Safely(r, y)
        PROVE  Replaces(r, y)
    BY <2>1 DEF Safely, Replaces
  <2>2. ASSUME ~ \E c \in Controllers : t.ctl[c].state \in Live
        PROVE  Replaces(r, v)
    <3>1. \A c \in Controllers : u.ctl[c].state \notin Live
      BY <1>5, <2>2 DEF Same
    <3>2. ControlInv(v) /\ v.auth.instance # u.auth.instance
      BY <1>5, <3>1, ReboundKeeps
    <3> HIDE DEF v
    <3> QED
      BY <1>6, <3>2 DEF Replaces, Safely, NothingOrdinary
  <2> HIDE DEF v
  <2> QED
    BY <1>2, <1>6, <2>1, <2>2
<1>8. Replaces(r, w)
  <2>1. Safely(d.rt, w)
    BY <1>7, BindAndAcknowledgeKeep DEF Replaces, Entered
  <2> HIDE DEF w
  <2> QED
    BY <1>7, <2>1 DEF Replaces, Safely, NothingOrdinary
<1> QED
  BY <1>1, <1>6, <1>7, <1>8 DEF z, Replaces, Safely

-----------------------------------------------------------------------------
(* The steps of PhysicalControl.                                           *)

\* What a step leaves: the invariant, and no ordinary send without fresh recording,
\* unless there is a new authority.
Allowed(r, s, at) ==
    /\ ControlInv(s)
    /\ SendsFresh(r, s, at) \/ s.auth.instance # r.auth.instance

\* Every outcome the lemmas about the calls speak of is allowed.
LEMMA OutcomesAllowed ==
    ASSUME NEW r, NEW s, NEW at
    PROVE  /\ Steadily(r, s) => Allowed(r, s, at)
           /\ Safely(r, s) => Allowed(r, s, at)
           /\ Entered(r, s) => Allowed(r, s, at)
           /\ Freshly(r, s, at) => Allowed(r, s, at)
           /\ Replaces(r, s) => Allowed(r, s, at)
  BY DEF Steadily, Safely, Entered, Freshly, Replaces, Allowed, NothingOrdinary, SendsFresh

\* The first state.
LEMMA InitInv ==
    Init => IInv
<1> SUFFICES ASSUME Init PROVE IInv
  OBVIOUS
<1> DEFINE b == New(1)
           x == NewExecutor(1)
           k == [state |-> "Created", lease |-> None, last_tick |-> 0]
           ctl == [c \in Controllers |-> k]
           g == [enabled |-> Required, open |-> FALSE, failed |-> FALSE, lost |-> FALSE,
                 confirmed |-> 0]
<1>1. rt = [auth |-> b, ex |-> x, generation |-> 1, writes |-> {}, readbacks |-> {},
            unsettled |-> None, sent_safe |-> FALSE, ctl |-> ctl, gate |-> g]
  BY DEF Init, NewRuntime
<1>2. b \in Authority /\ Sound(b, FALSE, FALSE) /\ b.lease = None
  <2>1. New(1).lease = None
    BY DEF New
  <2> QED
    BY <2>1, NewSound
<1>3. Shaped(x)
  BY NewShaped
<1>4. ctl \in [Controllers -> Controller]
  <2>1. k \in Controller
    BY DEF Controller, ControllerState
  <2> HIDE DEF k
  <2> QED
    BY <2>1
<1>5. g \in Gate /\ ~g.failed
  BY RequiredAssumption DEF Gate
<1>6. \A c \in Controllers : ctl[c].state = "Created" /\ ctl[c].lease = None
  OBVIOUS
<1> HIDE DEF b, x, ctl, g
<1>7. /\ rt.auth = b /\ rt.ex = x /\ rt.generation = 1 /\ rt.writes = {} /\ rt.readbacks = {}
      /\ rt.unsettled = None /\ rt.sent_safe = FALSE /\ rt.ctl = ctl /\ rt.gate = g
  BY <1>1
<1>8. Typed(rt)
  <2>1. 1 \in Nat /\ FALSE \in BOOLEAN
    OBVIOUS
  <2>2. rt \in [auth : Authority, ex : {x}, generation : Nat, writes : {{}},
                readbacks : {{}}, unsettled : {None}, sent_safe : BOOLEAN,
                ctl : [Controllers -> Controller], gate : Gate]
    BY <1>1, <1>2, <1>4, <1>5, <2>1, Zenon
  <2> QED
    BY <1>3, <1>7, <2>2 DEF Typed
<1>9. OwnLeases(rt) /\ LeaseKnown(rt)
  BY <1>2, <1>6, <1>7 DEF OwnLeases, LeaseKnown
<1>10. OnePrepares(rt) /\ FailedGate(rt)
  BY <1>5, <1>6, <1>7 DEF OnePrepares, WarmingOn, FailedGate
<1>11. ControlInv(rt)
  BY <1>2, <1>7, <1>8, <1>9, <1>10 DEF ControlInv
<1>12. now \in Nat
  BY DEF Init
<1> QED
  BY <1>11, <1>12 DEF IInv

\* Client commands and controller cadence.
LEMMA CommandStep ==
    ASSUME IInv, CommandNext
    PROVE  Allowed(rt, rt', now) /\ now' = now
<1>0. ControlInv(rt) /\ now \in Nat
  BY DEF IInv
<1>1. CASE BindProfile
  BY <1>0, <1>1, BindAndAcknowledgeKeep, OutcomesAllowed DEF BindProfile, Call
<1>2. CASE \E fault \in BOOLEAN : RequestSafeState(fault)
  BY <1>0, <1>2, SafeOutputKeeps, OutcomesAllowed DEF RequestSafeState, Call
<1>3. CASE AcknowledgeLatchedFault
  BY <1>0, <1>3, BindAndAcknowledgeKeep, OutcomesAllowed DEF AcknowledgeLatchedFault, Call
<1>4. ASSUME NEW o \in ManualOwners,
             TakeManual(o) \/ ExtendManual(o) \/ WriteManual(o) \/ LeaveManual(o)
      PROVE  Allowed(rt, rt', now) /\ now' = now
  <2>1. MaxLease \in Nat /\ MaxTtl \in Nat
    BY BoundsAssumption
  <2>2. CASE TakeManual(o)
    BY <1>0, <2>1, <2>2, ManualAcquireKeeps, OutcomesAllowed DEF TakeManual, Call
  <2>3. CASE ExtendManual(o)
    BY <1>0, <2>1, <2>3, ManualRenewKeeps, OutcomesAllowed DEF ExtendManual, Call
  <2>4. CASE WriteManual(o)
    BY <1>0, <2>1, <2>4, ManualWriteKeeps, OutcomesAllowed DEF WriteManual, Call
  <2>5. CASE LeaveManual(o)
    BY <1>0, <2>1, <2>5, ManualSafeKeeps, OutcomesAllowed DEF LeaveManual, Call
  <2> QED
    BY <1>4, <2>2, <2>3, <2>4, <2>5
<1>5. ASSUME NEW c \in Controllers, PrepareNative(c) \/ PauseNative(c) \/ ResetNative(c)
      PROVE  Allowed(rt, rt', now) /\ now' = now
  <2>1. CASE PrepareNative(c)
    BY <1>0, <2>1, PrepareKeeps, OutcomesAllowed DEF PrepareNative, Call
  <2>2. CASE PauseNative(c)
    BY <1>0, <2>2, PauseControllerKeeps, OutcomesAllowed DEF PauseNative, Call
  <2>3. CASE ResetNative(c)
    BY <1>0, <2>3, PrepareKeeps, OutcomesAllowed DEF ResetNative, Call
  <2> QED
    BY <1>5, <2>1, <2>2, <2>3
<1>6. ASSUME NEW c \in Controllers, NEW i \in Inputs,
             StartNative(c, i) \/ ResumeNative(c, i) \/ TickNative(c, i)
      PROVE  Allowed(rt, rt', now) /\ now' = now
  <2>1. CASE StartNative(c, i)
    BY <1>0, <2>1, StartKeeps, OutcomesAllowed DEF StartNative, Call
  <2>2. CASE ResumeNative(c, i)
    BY <1>0, <2>2, StartKeeps, OutcomesAllowed DEF ResumeNative, Call
  <2>3. CASE TickNative(c, i)
    BY <1>0, <2>3, TickKeeps, OutcomesAllowed DEF TickNative, Call
  <2> QED
    BY <1>6, <2>1, <2>2, <2>3
<1> QED
  BY <1>1, <1>2, <1>3, <1>4, <1>5, <1>6 DEF CommandNext

\* The resource.
LEMMA ResourceStep ==
    ASSUME IInv, ResourceNext
    PROVE  Allowed(rt, rt', now) /\ now' = now
<1>0. ControlInv(rt) /\ now \in Nat
  BY DEF IInv
<1>1. CASE QueueRead
  <2> DEFINE x == EnqueueRead(rt.ex, now + QueueTtl, Timeout, FALSE)
  <2>1. Shaped(x)
    BY <1>0, AdmissionShaped DEF ControlInv, Typed
  <2>2. rt' = [rt EXCEPT !.ex = x] /\ now' = now
    BY <1>1, Zenon DEF QueueRead
  <2> HIDE DEF x
  <2>3. Steadily(rt, [rt EXCEPT !.ex = x])
    BY <1>0, <2>1, OpaqueKeeps
  <2> QED
    BY <2>2, <2>3, OutcomesAllowed
<1>2. CASE \E bad \in SUBSET Controllers, answer \in Answers : Service(bad, answer)
  BY <1>0, <1>2, ServiceKeeps, OutcomesAllowed DEF Service, Call
<1>3. CASE \E answer \in Answers : Poll(answer)
  BY <1>0, <1>3, PollKeeps, OutcomesAllowed DEF Poll, Call
<1>4. CASE \E complete \in BOOLEAN : Shutdown(complete)
  BY <1>0, <1>4, ShutdownKeeps, OutcomesAllowed DEF Shutdown, Call
<1>5. CASE ReconnectResource
  BY <1>0, <1>5, ReconnectKeeps, OutcomesAllowed DEF ReconnectResource, Call
<1> QED
  BY <1>1, <1>2, <1>3, <1>4, <1>5 DEF ResourceNext

\* The recorder.
LEMMA RecorderStep ==
    ASSUME IInv, RecorderNext
    PROVE  Allowed(rt, rt', now) /\ now' = now
<1>0. ControlInv(rt) /\ now \in Nat
  BY DEF IInv
<1>1. ASSUME NEW submitted \in 0..now, RecordingStarted(submitted) \/ RecordingProgress(submitted)
      PROVE  Allowed(rt, rt', now) /\ now' = now
  <2>1. submitted \in Nat
    BY <1>0
  <2>2. CASE RecordingStarted(submitted)
    BY <1>0, <2>1, <2>2, RecorderKeeps, OutcomesAllowed DEF RecordingStarted, Call
  <2>3. CASE RecordingProgress(submitted)
    BY <1>0, <2>1, <2>3, RecorderKeeps, OutcomesAllowed DEF RecordingProgress, Call
  <2> QED
    BY <1>1, <2>2, <2>3
<1>2. CASE RecordingFails
  BY <1>0, <1>2, RecordingFailureKeeps, OutcomesAllowed DEF RecordingFails
<1>3. CASE RecordingCloses
  BY <1>0, <1>3, RecorderKeeps, OutcomesAllowed DEF RecordingCloses
<1>4. CASE RecordingFence
  BY <1>0, <1>4, RecorderKeeps, OutcomesAllowed DEF RecordingFence
<1>5. CASE FactsLost
  <2> DEFINE s == [rt EXCEPT !.gate.lost = TRUE]
  <2>1. Safely(rt, s)
    BY <1>0, RecorderKeeps
  <2>2. rt' = s /\ now' = now
    BY <1>5 DEF FactsLost
  <2> HIDE DEF s
  <2> QED
    BY <2>1, <2>2, OutcomesAllowed
<1> QED
  BY <1>1, <1>2, <1>3, <1>4, <1>5 DEF RecorderNext

\* A step keeps the invariant, and an ordinary send in it is one that recording allows.
LEMMA NextStep ==
    ASSUME IInv, [Next]_vars
    PROVE  /\ IInv'
           /\ SendsOrdinary => /\ RecordingOpen(rt')
                               /\ rt'.gate.enabled => now < rt'.gate.confirmed + ProgressAge
<1>0. ControlInv(rt) /\ now \in Nat
  BY DEF IInv
<1>1. CASE Allowed(rt, rt', now) /\ now' = now
  <2>1. IInv'
    BY <1>0, <1>1 DEF IInv, Allowed
  <2>2. SendsOrdinary => Fresh(rt', now)
    BY <1>1 DEF Allowed, SendsFresh, SendsOrdinary
  <2> QED
    BY <2>1, <2>2 DEF Fresh
<1>2. CASE Advance
  <2>1. rt' = rt /\ now' \in Nat
    BY <1>0, <1>2 DEF Advance
  <2>2. IInv'
    BY <1>0, <2>1 DEF IInv
  <2> QED
    BY <2>1, <2>2 DEF SendsOrdinary
<1>3. CASE UNCHANGED vars
  <2>1. rt' = rt /\ now' = now
    BY <1>3 DEF vars
  <2>2. IInv'
    BY <1>0, <2>1 DEF IInv
  <2> QED
    BY <2>1, <2>2 DEF SendsOrdinary
<1> QED
  BY <1>1, <1>2, <1>3, CommandStep, ResourceStep, RecorderStep DEF Next

-----------------------------------------------------------------------------
(* The theorems.                                                           *)

\* The invariant holds.
THEOREM Inductive ==
    Spec => []IInv
<1>1. IInv /\ [Next]_vars => IInv'
  BY NextStep
<1> QED
  BY InitInv, <1>1, PTL DEF Spec

\* start_or_resume_controller, advance_warming_controller and whatever runs between
\* them: at most one controller prepares, and the output it will take stays confirmed
\* safe, with nothing pending, reserved or in flight.
THEOREM PreparationHasTheOutput ==
    Spec => []PreparationIsExclusive
<1>1. IInv => PreparationIsExclusive
  <2> SUFFICES ASSUME IInv PROVE PreparationIsExclusive
    OBVIOUS
  <2> DEFINE W == {c \in Controllers : rt.ctl[c].state = "Warming"}
  <2>1. OnePrepares(rt)
    BY DEF IInv, ControlInv
  <2>2. \A c, d \in W : c = d
    BY <2>1 DEF OnePrepares
  <2>3. Cardinality(W) <= 1
    <3>1. CASE W = {}
      BY <3>1, FS_EmptySet
    <3>2. CASE W # {}
      <4>1. PICK c : c \in W
        BY <3>2
      <4> HIDE DEF W
      <4>2. W = {c}
        BY <2>2, <4>1
      <4>3. Cardinality({c}) = 1
        BY FS_Singleton
      <4> QED
        BY <4>2, <4>3
    <3> QED
      BY <3>1, <3>2
  <2> QED
    BY <2>1, <2>3 DEF PreparationIsExclusive, OnePrepares
<1> QED
  BY Inductive, <1>1, PTL

\* renew_native, fail_controller, pause_controller: the lease the authority honours
\* for an automatic owner is the one its controller runs with.
THEOREM AutomaticLeaseIsOwned ==
    Spec => []LeaseHasRunningOwner
<1>1. IInv => LeaseHasRunningOwner
  BY DEF IInv, ControlInv, LeaseKnown, LeaseHasRunningOwner
<1> QED
  BY Inductive, <1>1, PTL

\* service_required_recording_deadline, deliver_physical, poll_authorized: the loss of
\* required recording takes control down, and no ordinary write starts without it.
THEOREM ControlNeedsRecording ==
    Spec => RecordingIsRequired
<1>1. IInv => LostRecordingDisarms
  BY DEF IInv, ControlInv, FailedGate, LostRecordingDisarms
<1>2. IInv /\ [Next]_vars =>
         [/\ LostRecordingDisarms'
          /\ SendsOrdinary => /\ RecordingOpen(rt')
                              /\ rt'.gate.enabled => now < rt'.gate.confirmed + ProgressAge]_vars
  <2>1. IInv' => LostRecordingDisarms'
    BY DEF IInv, ControlInv, FailedGate, LostRecordingDisarms
  <2> QED
    BY <2>1, NextStep
<1> QED
  BY Inductive, <1>2, PTL DEF Spec, RecordingIsRequired

=============================================================================
