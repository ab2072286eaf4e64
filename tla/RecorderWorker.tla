--------------------------- MODULE RecorderWorker ----------------------------
(***************************************************************************)
(* The recorder as its Runtime owner holds it (recorder/worker): credits,  *)
(* identities and lifecycle on the owner's side, one bounded channel, the  *)
(* shared cumulative receipt, and the storage thread that commits into the *)
(* archive of RecorderArchive.                                             *)
(*                                                                         *)
(* An owner operation maps the world w to the next world: w.own is the     *)
(* handle, w.queue the channel, w.receipt the shared receipt, w.jobs the   *)
(* history slots and mailbox, w.link the thread as the channel sees it.    *)
(* The host's handlers call several of these operations in one turn, which *)
(* is why they are operators and not actions.  The storage thread is the   *)
(* actions below; each is one step between two of its visible effects.     *)
(*                                                                         *)
(* A receipt is copied under its lock, so a poll that misses the lock is a *)
(* poll that ran earlier: try_lock failures on it are not separate steps.  *)
(* The lock of the history slots spans a check and an insertion and is     *)
(* kept.  Bytes, labels and instants are abstracted: credit is counted in  *)
(* groups and records, and "due" says that a second has passed.            *)
(***************************************************************************)
EXTENDS RecorderArchive, FiniteSets

CONSTANTS
    OrdinaryGroups,   \* groups beside the protected ones (MAX_GROUPS - 4 = 32)
    ProtectedPairs,   \* Reference pairs whose credit is protected (2)
    RecordCredit,     \* records of ordinary credit (MAX_RECORDS - 6)
    Envelope,         \* records one reserved fact group charges (256)
    MaxBatchGroups,   \* fact groups of one transaction (4)
    MaxHistoryJobs,   \* history slots (8)
    ControlSlots      \* channel places beyond groups and jobs (6)

ASSUME RecorderLimitsAssumption ==
    /\ {OrdinaryGroups, ProtectedPairs, RecordCredit, Envelope,
        MaxBatchGroups, MaxHistoryJobs, ControlSlots} \subseteq Nat \ {0}
    /\ Envelope <= RecordCredit

-----------------------------------------------------------------------------
(* Credit.                                                                 *)

Credit(groups, records) == [groups |-> groups, records |-> records]
NoCredit == Credit(0, 0)
Plus(a, b) == Credit(a.groups + b.groups, a.records + b.records)
Minus(a, b) == Credit(a.groups - b.groups, a.records - b.records)
Covers(a, b) == b.groups <= a.groups /\ b.records <= a.records

AcceptedCredit == Credit(1, 1)
CompletionRecords == 2
CompletionCredit == Credit(1, CompletionRecords)
PairCredit == Plus(AcceptedCredit, CompletionCredit)
Protected == Credit(2 * ProtectedPairs, 3 * ProtectedPairs)
LimitGroups == OrdinaryGroups + Protected.groups
LimitRecords == RecordCredit + Protected.records

Capacity == LimitGroups + MaxHistoryJobs + ControlSlots

-----------------------------------------------------------------------------
(* The handle, the receipt and the history slots after open_internal.      *)

NoReservation == [held |-> FALSE, accepted |-> FALSE, op |-> 0, gen |-> 0, run |-> 0, fact |-> 0]

InitOwner ==
    [state |-> "idle", persisted |-> 0, reserved |-> 0,
     charged |-> NoCredit, reference |-> NoCredit,
     seen |-> NoCredit, seenReference |-> NoCredit,
     pendingGen |-> 0, liveGen |-> 0, generation |-> 0, run |-> 0,
     sealed |-> FALSE, coverage |-> "complete", failurePersisted |-> FALSE,
     gapScheduled |-> FALSE, finish |-> FALSE, probePending |-> FALSE,
     periodic |-> 0, due |-> {}, closed |-> FALSE, lastFact |-> 0,
     reservation |-> NoReservation, tokens |-> {}, nextToken |-> 1]

InitReceipt ==
    [state |-> "idle", persisted |-> 0, released |-> NoCredit, reference |-> NoCredit,
     run |-> 0, sealed |-> FALSE, generation |-> 0, probed |-> FALSE,
     failurePersisted |-> FALSE]

InitJobs == [next |-> 1, active |-> {}, live |-> {}, cancelled |-> {}, mail |-> {}]

InitWorld ==
    [own |-> InitOwner, queue |-> <<>>, receipt |-> InitReceipt,
     jobs |-> InitJobs, locked |-> FALSE, link |-> "up"]

\* One message: its rows take the identities first, first + 1, ...
Message(kind, first, rows) ==
    [kind |-> kind, first |-> first, rows |-> rows, credit |-> NoCredit, gen |-> 0, job |-> 0]

Row(kind, item) == [kind |-> kind, item |-> item]
Charged(message, credit) == [message EXCEPT !.credit = credit]

\* try_send: full or disconnected refuses; an accepted message keeps its identities.
CanSend(w) == w.link = "up" /\ Len(w.queue) < Capacity
Sent(w, message) ==
    [w EXCEPT !.queue = Append(@, message), !.own.reserved = @ + Len(message.rows)]

-----------------------------------------------------------------------------
(* Failure.                                                                *)

\* fail: sticky on the owner and published into the receipt.
Fail(w) ==
    [w EXCEPT
        !.own.coverage = IF @ = "complete" /\ w.own.run # 0 THEN "unknown_tail" ELSE @,
        !.own.state = "failed",
        !.receipt.state = "failed"]

GapPayload(own, missing) == [missing |-> missing, last |-> own.lastFact]

\* fail_with_gap: the first known loss freezes coverage and queues one FIFO seal.
FailWithGap(w, missing) ==
    IF w.own.gapScheduled \/ w.own.state = "failed" THEN w
    ELSE LET failed == Fail([w EXCEPT !.own.coverage = "gap"])
             seal == Message("gap", w.own.reserved + 1,
                             <<Row("recorder_gap", GapPayload(w.own, missing))>>) IN
         IF CanSend(failed)
         THEN [Sent(failed, seal) EXCEPT !.own.gapScheduled = TRUE]
         ELSE failed

-----------------------------------------------------------------------------
(* poll: history cancellations, the receipt, the thread, the periodic clock. *)

\* drain_history_cancellations waits for no lock.
Drained(w) ==
    IF w.locked THEN w
    ELSE [w EXCEPT !.jobs.active = @ \ w.jobs.cancelled,
                   !.jobs.mail = @ \ w.jobs.cancelled,
                   !.jobs.cancelled = {}]

\* Reference credit already in the channel: all of it but the open reservation.
UnusedReference(own) ==
    IF ~own.reservation.held THEN NoCredit
    ELSE IF own.reservation.accepted THEN CompletionCredit ELSE PairCredit
SubmittedReference(own) == Minus(own.reference, UnusedReference(own))

\* A receipt may release only what was submitted, and confirm what was reserved.
ReceiptIsCredible(own, receipt) ==
    LET total == Minus(receipt.released, own.seen)
        reference == Minus(receipt.reference, own.seenReference) IN
    /\ receipt.persisted <= own.reserved
    /\ Covers(total, NoCredit) /\ Covers(reference, NoCredit)
    /\ Covers(own.charged, total)
    /\ Covers(total, reference)
    /\ Covers(SubmittedReference(own), reference)
    /\ Covers(Minus(own.charged, own.reference), Minus(total, reference))

\* A submitted barrier stays pending until its successor is published; failure is sticky.
NextState(own, receipt) ==
    IF \/ own.state = "failed"
       \/ own.state = "starting" /\ receipt.state = "idle"
       \/ own.state = "stopping" /\ receipt.state = "recording"
    THEN own.state
    ELSE receipt.state

\* The handle after a credible receipt.
Informed(own, receipt) ==
    [own EXCEPT
        !.charged = Minus(@, Minus(receipt.released, own.seen)),
        !.reference = Minus(@, Minus(receipt.reference, own.seenReference)),
        !.seen = receipt.released,
        !.seenReference = receipt.reference,
        !.persisted = receipt.persisted,
        !.run = receipt.run,
        !.sealed = receipt.sealed,
        !.generation = receipt.generation,
        !.pendingGen = IF @ # 0 /\ receipt.generation >= @ THEN 0 ELSE @,
        !.failurePersisted = receipt.failurePersisted,
        !.periodic = IF receipt.persisted >= @ THEN 0 ELSE @,
        !.probePending = @ /\ ~receipt.probed,
        !.state = NextState(own, receipt),
        !.coverage = IF receipt.state = "failed" /\ @ = "complete" /\ receipt.run # 0
                     THEN "unknown_tail" ELSE @]

Applied(w) ==
    IF ~ReceiptIsCredible(w.own, w.receipt) THEN Fail(w)
    ELSE [w EXCEPT !.own = Informed(@, w.receipt), !.receipt.probed = FALSE]

\* reconcile_receipt: a thread that ended without its final receipt is a failure.
Ended(w) == w.link \in {"closed", "panicked"}
EndFailed(w) ==
    IF w.link = "panicked" \/ (Ended(w) /\ w.own.state \notin {"closed", "failed"})
    THEN Fail(w) ELSE w
Reconciled(w) == [EndFailed(Applied(w)) EXCEPT !.own.closed = Ended(w)]

\* schedule_periodic: one clock fact in flight, between barriers only.
Scheduled(w) ==
    IF /\ "clock" \in w.own.due /\ w.own.periodic = 0 /\ ~w.own.finish
       /\ w.own.state \in {"idle", "recording"} /\ CanSend(w)
    THEN [Sent(w, Message("clock", w.own.reserved + 1, <<Row("clock", 0)>>)) EXCEPT
            !.own.periodic = w.own.reserved + 1, !.own.due = @ \ {"clock"}]
    ELSE w

Poll(w) == Scheduled(Reconciled(Drained(w)))

\* A handler that goes on with what an earlier step of it left behind.
With(result, Rest(_)) == Rest(result)

\* Every call of the owner below polls first and works on what it finds.
Polled(w, Call(_)) == With(Poll(w), Call)

-----------------------------------------------------------------------------
(* Ordinary ingress: facts, operations, annotations.                       *)

OrdinaryCapacity(own, records) ==
    LET free == Minus(Protected, own.reference) IN
    /\ own.charged.groups < LimitGroups - free.groups
    /\ records <= LimitRecords - free.records - own.charged.records

\* One admitted group: charged and queued at the next identities.
Admit(w, kind, rows) ==
    LET credit == Credit(1, Len(rows)) IN
    [Sent(w, Charged(Message(kind, w.own.reserved + 1, rows), credit)) EXCEPT
        !.own.charged = Plus(@, credit)]

\* try_admit_at: no credit is a gap; a gone thread is an unknown tail.
AdmitFacts(w, facts) ==
    Polled(w, LAMBDA p :
        LET rows == [i \in DOMAIN facts |-> Row("fact", facts[i])] IN
        IF facts = <<>> \/ p.own.state \notin {"starting", "recording"}
        THEN [ok |-> FALSE, w |-> p]
        ELSE IF ~OrdinaryCapacity(p.own, Len(rows))
        THEN [ok |-> FALSE, w |-> FailWithGap(p, facts[1])]
        ELSE IF p.link # "up" THEN [ok |-> FALSE, w |-> Fail(p)]
        ELSE IF ~CanSend(p) THEN [ok |-> FALSE, w |-> FailWithGap(p, facts[1])]
        ELSE [ok |-> TRUE,
              w |-> [Admit(p, "facts", rows) EXCEPT !.own.lastFact = facts[Len(facts)]]])

\* operation_credit_available, after its own poll; an operation that is not
\* admissible at all is an error, not a wait.
OperationAdmissible(own, operation) ==
    \/ own.state \in {"starting", "recording"}
    \/ /\ own.state = "idle" /\ operation.command = "recording_stop"
       /\ operation.phase # "accepted"

OperationCredit(w, operation) ==
    Polled(w, LAMBDA p :
        [answer |-> IF ~OperationAdmissible(p.own, operation) THEN "error"
                    ELSE IF OrdinaryCapacity(p.own, 1) THEN "yes" ELSE "no",
         w |-> p])

\* try_admit_operation.
AdmitOperation(w, operation) ==
    Polled(w, LAMBDA p :
        IF ~OperationAdmissible(p.own, operation) THEN [ok |-> FALSE, w |-> p]
        ELSE IF ~(OrdinaryCapacity(p.own, 1) /\ CanSend(p))
        THEN [ok |-> FALSE, w |-> FailWithGap(p, 0)]
        ELSE [ok |-> TRUE, w |-> Admit(p, "operation", <<Row("operation", operation)>>)])

\* try_admit_annotation.
AdmitAnnotation(w) ==
    Polled(w, LAMBDA p :
        IF p.own.state # "recording" THEN [ok |-> FALSE, w |-> p]
        ELSE IF ~(OrdinaryCapacity(p.own, 1) /\ CanSend(p))
        THEN [ok |-> FALSE, w |-> FailWithGap(p, 0)]
        ELSE [ok |-> TRUE, w |-> Admit(p, "annotation", <<Row("annotation", 0)>>)])

-----------------------------------------------------------------------------
(* Reserved fact groups: credit taken before the producer runs.            *)

EnvelopeCredit == Credit(1, Envelope)

\* reserve_fact_group: no capacity is backpressure, not a loss.
ReserveFacts(w) ==
    Polled(w, LAMBDA p :
        IF p.own.state # "recording" THEN [answer |-> "error", w |-> p, token |-> 0]
        ELSE IF ~OrdinaryCapacity(p.own, Envelope) THEN [answer |-> "no", w |-> p, token |-> 0]
        ELSE [answer |-> "yes", token |-> p.own.nextToken,
              w |-> [p EXCEPT !.own.charged = Plus(@, EnvelopeCredit),
                              !.own.tokens = @ \cup {p.own.nextToken},
                              !.own.nextToken = @ + 1]])

\* cancel_fact_group.
CancelFacts(w, token) ==
    [w EXCEPT !.own.charged = Minus(@, EnvelopeCredit), !.own.tokens = @ \ {token}]

\* admit_reserved_facts: the envelope is returned, then the group admitted.
AdmitReserved(w, token, facts) ==
    LET freed == CancelFacts(w, token) IN
    IF facts = <<>> THEN [ok |-> TRUE, w |-> freed] ELSE AdmitFacts(freed, facts)

-----------------------------------------------------------------------------
(* Reference pairs: accepted and completion credit taken in one charge.    *)

\* reserve_reference_operation.
ReserveReference(w, op) ==
    Polled(w, LAMBDA p :
        IF p.own.reservation.held \/ p.own.state # "recording" THEN [answer |-> "error", w |-> p]
        ELSE IF \/ p.own.pendingGen # 0
                \/ p.own.charged.groups + PairCredit.groups > LimitGroups
                \/ p.own.charged.records + PairCredit.records > LimitRecords
                \/ ~Covers(Minus(Protected, p.own.reference), PairCredit)
        THEN [answer |-> "no", w |-> p]
        ELSE [answer |-> "yes",
              w |-> [p EXCEPT
                       !.own.charged = Plus(@, PairCredit),
                       !.own.reference = Plus(@, PairCredit),
                       !.own.reservation =
                           [held |-> TRUE, accepted |-> FALSE, op |-> op, fact |-> 0,
                            gen |-> p.own.generation, run |-> p.own.run]]])

ReleaseUnused(w, credit) ==
    [w EXCEPT !.own.charged = Minus(@, credit), !.own.reference = Minus(@, credit)]

\* cancel_reference_reservation: only credit that was never transferred.
CancelReference(w) ==
    [ReleaseUnused(w, UnusedReference(w.own)) EXCEPT !.own.reservation = NoReservation]

\* reference_generation_current.
GenerationCurrent(own) ==
    /\ own.state = "recording" /\ own.pendingGen = 0
    /\ own.generation = own.reservation.gen /\ own.run = own.reservation.run

\* commit_reference_acceptance: the accepted record enters the channel.
CommitAcceptance(w, operation) ==
    Polled(w, LAMBDA p :
        LET message == Charged(Message("accepted", p.own.reserved + 1,
                                       <<Row("operation", operation)>>), AcceptedCredit) IN
        IF ~(/\ p.own.reservation.held /\ ~p.own.reservation.accepted
             /\ GenerationCurrent(p.own) /\ p.own.reservation.op = operation.op)
        THEN [ok |-> FALSE, w |-> Fail(CancelReference(p))]
        ELSE IF ~CanSend(p) THEN [ok |-> FALSE, w |-> Fail(CancelReference(p))]
        ELSE [ok |-> TRUE, w |-> [Sent(p, message) EXCEPT !.own.reservation.accepted = TRUE]])

\* reference_completion_ready.
CompletionReady(w, op) ==
    Polled(w, LAMBDA p :
        [answer |-> /\ p.own.reservation.held /\ p.own.reservation.accepted
                    /\ p.own.reservation.op = op /\ GenerationCurrent(p.own),
         w |-> p])

\* capture_reference_completion: the one Reference fact of the mutation.
CaptureCompletion(w, facts) ==
    IF facts = <<>> THEN w
    ELSE IF Len(facts) # 1 THEN FailWithGap(w, facts[1])
    ELSE [w EXCEPT !.own.reservation.fact = facts[1]]

\* Mutant: the record that no fact used stays charged.
KeepsUnusedRecord(w, records) == w

ReturnUnusedRecord(w, records) ==
    ReleaseUnused(w, Credit(0, CompletionRecords - records))

\* commit_reference_completion: fact and terminal as one causal group.
CommitCompletion(w, operation) ==
    Polled(w, LAMBDA p :
        LET fact == p.own.reservation.fact
            rows == (IF fact = 0 THEN <<>> ELSE <<Row("fact", fact)>>)
                        \o <<Row("operation", operation)>>
            message == Charged(Message("completion", p.own.reserved + 1, rows),
                               Credit(1, Len(rows)))
            taken == [p EXCEPT !.own.reservation = NoReservation] IN
        IF ~(/\ p.own.reservation.held /\ p.own.reservation.accepted
             /\ GenerationCurrent(p.own) /\ p.own.reservation.op = operation.op)
        THEN [ok |-> FALSE, w |-> Fail(CancelReference(p))]
        ELSE IF ~CanSend(p)
        THEN [ok |-> FALSE, w |-> FailWithGap(ReleaseUnused(taken, CompletionCredit), fact)]
        ELSE [ok |-> TRUE,
              w |-> [ReturnUnusedRecord(Sent(taken, message), Len(rows)) EXCEPT
                        !.own.lastFact = IF fact = 0 THEN @ ELSE fact]])

-----------------------------------------------------------------------------
(* Lifecycle.                                                              *)

\* send_control: no place for a barrier is a failure of the recorder.
SendControl(w, message) ==
    IF CanSend(w) THEN [ok |-> TRUE, w |-> Sent(w, message)]
    ELSE [ok |-> FALSE, w |-> Fail(w)]

\* request_activation: the startup set, without a record identity.
RequestActivation(w) ==
    Polled(w, LAMBDA p :
        LET sent == SendControl(p, Message("activation", 0, <<>>)) IN
        IF p.own.state # "idle" \/ p.own.generation # 0 THEN [ok |-> FALSE, w |-> p]
        ELSE IF ~sent.ok THEN sent
        ELSE [ok |-> TRUE, w |-> [sent.w EXCEPT !.own.pendingGen = 1]])

\* try_reserve_live_activation: credit and generation before the owner commit.
ReserveLive(w) ==
    Polled(w, LAMBDA p :
        IF \/ p.own.state \notin {"idle", "recording"} \/ p.own.generation = 0
           \/ p.own.pendingGen # 0 \/ p.own.liveGen # 0
        THEN [answer |-> "error", w |-> p]
        ELSE IF ~OrdinaryCapacity(p.own, 1) THEN [answer |-> "no", w |-> p]
        ELSE [answer |-> "yes",
              w |-> [p EXCEPT !.own.charged = Plus(@, Credit(1, 1)),
                              !.own.pendingGen = p.own.generation + 1,
                              !.own.liveGen = p.own.generation + 1]])

LiveIdentity(own) == own.reserved + 1

\* commit_reserved_live_activation: the identity is taken with the transfer.
CommitLive(w) ==
    LET message == [Charged(Message("activation", LiveIdentity(w.own),
                                    <<Row("activation", w.own.liveGen)>>), Credit(1, 1))
                      EXCEPT !.gen = w.own.liveGen] IN
    IF CanSend(w) THEN [ok |-> TRUE, w |-> [Sent(w, message) EXCEPT !.own.liveGen = 0]]
    ELSE [ok |-> FALSE, w |-> Fail(w)]

\* cancel_live_activation_reservation.
CancelLive(w) ==
    [w EXCEPT !.own.charged = Minus(@, Credit(1, 1)), !.own.liveGen = 0, !.own.pendingGen = 0]

\* request_start_with_boundary: boundary and start anchor ahead of every later group.
RequestStart(w) ==
    Polled(w, LAMBDA p :
        LET starting == [p EXCEPT !.own.state = "starting"] IN
        IF p.own.state # "idle" THEN [ok |-> FALSE, w |-> p]
        ELSE SendControl(starting, Message("start", p.own.reserved + 1,
                                           <<Row("boundary", 0), Row("clock", 0)>>)))

\* request_stop_with_summary: the pending operations go into the seal.
RequestStop(w, pending) ==
    Polled(w, LAMBDA p :
        LET stopping == [p EXCEPT !.own.state = "stopping"] IN
        IF p.own.state # "recording" \/ p.own.reservation.held THEN [ok |-> FALSE, w |-> p]
        ELSE SendControl(stopping, Message("stop", p.own.reserved + 1,
                                           <<Row("clock", 0), Row("interval_seal", pending)>>)))

\* request_finish_with_summary, at most once, after the last run ended or failed.
RequestFinish(w, summary) ==
    Polled(w, LAMBDA p :
        LET sent == SendControl(p, Message("finish", p.own.reserved + 1,
                                           <<Row("clock", 0), Row("shutdown", summary)>>)) IN
        IF w.own.finish THEN [ok |-> TRUE, w |-> w]
        ELSE IF p.own.state \notin {"idle", "failed"} \/ p.own.reservation.held
        THEN [ok |-> FALSE, w |-> p]
        ELSE IF ~sent.ok THEN sent
        ELSE [ok |-> TRUE, w |-> [sent.w EXCEPT !.own.finish = TRUE]])

\* request_probe_at: a quiet run asks for one progress commit at a time.
RequestProbe(w) ==
    Polled(w, LAMBDA p :
        LET sent == SendControl(p, Message("probe", 0, <<>>)) IN
        IF p.own.state # "recording" THEN [ok |-> FALSE, w |-> p]
        ELSE IF p.own.probePending \/ "probe" \notin p.own.due THEN [ok |-> TRUE, w |-> p]
        ELSE IF ~sent.ok THEN sent
        ELSE [ok |-> TRUE,
              w |-> [sent.w EXCEPT !.own.probePending = TRUE, !.own.due = @ \ {"probe"}]])

-----------------------------------------------------------------------------
(* Archived-history jobs.                                                  *)

\* request_history and request_runs differ only in the page they name.
RequestHistory(w) ==
    LET d == Drained(w)
        job == d.jobs.next IN
    IF \/ d.jobs.cancelled # {} \/ d.locked
       \/ Cardinality(d.jobs.active) >= MaxHistoryJobs \/ ~CanSend(d)
    THEN [ok |-> FALSE, w |-> d, job |-> 0]
    ELSE [ok |-> TRUE, job |-> job,
          w |-> [Sent(d, [Message("history", 0, <<>>) EXCEPT !.job = job]) EXCEPT
                    !.jobs.next = @ + 1, !.jobs.active = @ \cup {job},
                    !.jobs.live = @ \cup {job}]]

\* try_take_history: a result frees its slot when it is taken.
TakeHistory(w, job) ==
    LET d == Drained(w) IN
    IF d.locked \/ job \in d.jobs.cancelled \/ job \notin d.jobs.mail
    THEN [ok |-> FALSE, w |-> d]
    ELSE [ok |-> TRUE, w |-> [d EXCEPT !.jobs.mail = @ \ {job}, !.jobs.active = @ \ {job},
                                       !.jobs.live = @ \ {job}]]

\* cancel_history: fence the job; its slot is free as soon as the lock is.
CancelHistory(w, job) ==
    IF job \notin w.jobs.live THEN w
    ELSE Drained([w EXCEPT !.jobs.live = @ \ {job}, !.jobs.cancelled = @ \cup {job}])

-----------------------------------------------------------------------------
(* The storage thread (worker_loop).  A thread is at one of                *)
(*   idle        waiting on the channel                                    *)
(*   holding     a command, or a batch of fact groups, taken               *)
(*   reading     a history page is being read                              *)
(*   publishing  the page is checked and inserted under the slots' lock    *)
(*   committed   the transaction is durable, the receipt is not yet out    *)

VARIABLES
    w,          \* the owner's world
    worker,     \* the storage thread: where it is, what it holds
    store       \* its connection: the archive file and the volatile run state

workerVars == <<w, worker, store>>

InitWorker == [at |-> "idle", batch |-> <<>>, deferred |-> <<>>]

RecordsOf(batch) == Len(FlattenSeq([i \in DOMAIN batch |-> batch[i].rows]))

\* The thread returned: what is queued is dropped, its last status is not yet out.
Returned(world) == [world EXCEPT !.link = "returned", !.queue = <<>>]
ReturnedFailed(world) == Returned([world EXCEPT !.receipt.state = "failed"])

\* Take the deferred message or the head of the channel.
Take ==
    /\ w.link = "up" /\ worker.at = "idle"
    /\ LET message == IF worker.deferred # <<>> THEN Head(worker.deferred) ELSE Head(w.queue) IN
       /\ worker.deferred # <<>> \/ w.queue # <<>>
       /\ worker' = [at |-> IF message.kind = "history" THEN "reading" ELSE "holding",
                     batch |-> <<message>>, deferred |-> <<>>]
       /\ w' = IF worker.deferred # <<>> THEN w ELSE [w EXCEPT !.queue = Tail(@)]
    /\ UNCHANGED store

\* A batch may grow while groups arrive; anything else that arrives waits its turn.
BatchMayGrow ==
    /\ worker.at = "holding" /\ worker.batch[1].kind = "facts" /\ worker.deferred = <<>>
    /\ Len(worker.batch) < MaxBatchGroups /\ RecordsOf(worker.batch) < Envelope

\* Mutant: a batch is committed only when it is full.
WaitsForMore == BatchMayGrow

CanCollect == BatchMayGrow /\ w.queue # <<>>

Defer(message) == <<message>>

Collect ==
    /\ w.link = "up" /\ CanCollect /\ w.queue # <<>>
    /\ LET next == Head(w.queue) IN
       worker' = IF /\ next.kind = "facts"
                    /\ Len(next.rows) <= Envelope - RecordsOf(worker.batch)
                 THEN [worker EXCEPT !.batch = Append(@, next)]
                 ELSE [worker EXCEPT !.deferred = Defer(next)]
    /\ w' = [w EXCEPT !.queue = Tail(@)]
    /\ UNCHANGED store

\* The transaction of the held command is durable.
Commit ==
    /\ w.link = "up" /\ worker.at = "holding" /\ ~CanCollect
    /\ LET message == worker.batch[1] IN
       /\ Aligned(worker.batch) /\ Accepts(store, message)
       /\ store' = IF message.kind = "facts" THEN CommittedBatch(store, worker.batch)
                   ELSE Committed(store, message)
    /\ worker' = [worker EXCEPT !.at = "committed"]
    /\ UNCHANGED w

\* A command the store refuses: the thread reports the failure and returns.
Refuse ==
    /\ w.link = "up" /\ worker.at = "holding" /\ ~CanCollect
    /\ ~(Aligned(worker.batch) /\ Accepts(store, worker.batch[1]))
    /\ w' = ReturnedFailed(w) /\ worker' = InitWorker
    /\ UNCHANGED store

\* SQL, quota or checkpoint failure: the transaction is rolled back.
StorageFault ==
    /\ w.link = "up" /\ worker.at = "holding" /\ ~CanCollect
    /\ w' = ReturnedFailed(w) /\ worker' = InitWorker
    /\ UNCHANGED store

BatchCredit(batch, kinds) ==
    FoldLeft(LAMBDA sum, message : IF message.kind \in kinds THEN Plus(sum, message.credit) ELSE sum,
             NoCredit, batch)
Kinds == {"facts", "operation", "accepted", "completion", "annotation", "activation"}

\* The committed prefix and the credit it held.
Released(receipt, batch) ==
    [receipt EXCEPT
        !.released = Plus(@, BatchCredit(batch, Kinds)),
        !.reference = Plus(@, BatchCredit(batch, {"accepted", "completion"}))]

\* Mutant: a receipt confirms all identities that were handed out.
AllReserved == w.own.reserved

\* A receipt confirms the identities that are in the archive.
PersistedThrough == NextRecord(store) - 1

\* What each command publishes after its commit.
PublishedReceipt ==
    LET kind == worker.batch[1].kind
        receipt == Released(w.receipt, worker.batch)
        through == PersistedThrough IN
    CASE kind = "activation" ->
            [receipt EXCEPT !.generation = @ + 1,
                            !.persisted = IF worker.batch[1].rows = <<>> THEN @ ELSE through]
      [] kind = "start" ->
            [receipt EXCEPT !.state = "recording", !.persisted = through, !.run = store.run]
      [] kind = "stop" -> [receipt EXCEPT !.state = "idle", !.persisted = through, !.run = 0]
      [] kind = "gap" ->
            [receipt EXCEPT !.persisted = through, !.run = 0, !.failurePersisted = TRUE]
      [] kind = "probe" -> [receipt EXCEPT !.probed = TRUE]
      [] kind = "finish" -> [receipt EXCEPT !.sealed = TRUE]
      [] OTHER -> [receipt EXCEPT !.persisted = through]

\* A live activation must be the next generation; it is checked after its commit.
GenerationMatches ==
    LET message == worker.batch[1] IN
    message.kind = "activation" /\ message.rows # <<>>
        => message.gen = w.receipt.generation + 1

\* The receipt of the committed prefix; a finished boot closes the store.
Publish ==
    /\ w.link = "up" /\ worker.at = "committed"
    /\ w' = IF ~GenerationMatches THEN ReturnedFailed(w)
            ELSE LET published == [w EXCEPT !.receipt = PublishedReceipt] IN
                 IF worker.batch[1].kind = "finish" THEN Returned(published) ELSE published
    /\ worker' = [worker EXCEPT !.at = "idle", !.batch = <<>>]
    /\ UNCHANGED store

\* storage_health or close fails behind the commit; a start has no receipt yet.
PublishFault ==
    /\ w.link = "up" /\ worker.at = "committed"
    /\ w' = ReturnedFailed(IF worker.batch[1].kind = "start" THEN w
                           ELSE [w EXCEPT !.receipt = PublishedReceipt])
    /\ worker' = InitWorker
    /\ UNCHANGED store

\* A history page is read, then inserted while the slots are locked.
LockJobs ==
    /\ w.link = "up" /\ worker.at = "reading"
    /\ worker' = [worker EXCEPT !.at = "publishing"]
    /\ w' = [w EXCEPT !.locked = TRUE]
    /\ UNCHANGED store

InsertActive(jobs, job) ==
    IF job \in jobs.active THEN [jobs EXCEPT !.mail = @ \cup {job}] ELSE jobs

PublishPage ==
    /\ w.link = "up" /\ worker.at = "publishing"
    /\ w' = [w EXCEPT !.jobs = InsertActive(@, worker.batch[1].job), !.locked = FALSE]
    /\ worker' = [worker EXCEPT !.at = "idle", !.batch = <<>>]
    /\ UNCHANGED store

\* The last status, then alive = false.
ExitThread ==
    /\ w.link = "returned"
    /\ w' = [w EXCEPT !.link = "closed",
                      !.receipt.state = IF @ = "failed" \/ ~w.receipt.sealed THEN "failed"
                                        ELSE "closed"]
    /\ UNCHANGED <<worker, store>>

\* A panic skips the final receipt and leaves alive set.
Panic ==
    /\ w.link = "up" /\ worker.at \in {"holding", "committed"}
    /\ w' = [w EXCEPT !.link = "panicked", !.queue = <<>>]
    /\ worker' = InitWorker
    /\ UNCHANGED store

StorageThread ==
    \/ Take \/ Collect \/ Commit \/ Refuse \/ Publish \/ LockJobs \/ PublishPage \/ ExitThread
=============================================================================
