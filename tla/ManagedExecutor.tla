-------------------------- MODULE ManagedExecutor --------------------------
(***************************************************************************)
(* The two-slot executor of managed components                             *)
(* (apps/lab-runtime/src/managed_executor.rs) as operators over one        *)
(* executor value.  A slot is a worker thread with a job mailbox and a     *)
(* completion mailbox of one entry each, and the Runtime's record of the   *)
(* job it gave it.  An optional value is a set of at most one element.     *)
(* What a job computes is left to the module that owns the workers.        *)
(***************************************************************************)
EXTENDS Integers

CONSTANT JobDeadline    \* JOB_DEADLINE, in ticks of the clock
ASSUME JobDeadlineAssumption == JobDeadline \in Nat \ {0}

Slots == {1, 2}         \* WORKERS
Other(i) == 3 - i

\* A slot: what the executor believes of it (lifecycle, jobs, busy), and
\* the worker thread itself (alive, the job it holds, its completion).
Slot == [lifecycle |-> "Alive", open |-> TRUE, busy |-> {},
         alive |-> TRUE, job |-> {}, done |-> {}]

NewExecutor == [slots |-> [i \in Slots |-> Slot], cursor |-> 1, closed |-> FALSE]

\* Marked dead on a disconnected channel; never respawned.
Buried(s) == [s EXCEPT !.lifecycle = "Dead", !.open = FALSE]

\* The slot a scan from the cursor picks among the non-empty set `fit`.
FirstFrom(e, fit) == IF e.cursor \in fit THEN e.cursor ELSE Other(e.cursor)

\* The slots of `gone` the scan buries on its way: all of them when no slot
\* fits, otherwise the cursor's own, the only one that can precede the pick.
Scanned(e, fit, gone) ==
    [i \in Slots |-> IF i \in gone /\ (fit = {} \/ i = e.cursor)
                     THEN Buried(e.slots[i]) ELSE e.slots[i]]

-----------------------------------------------------------------------------
\* try_submit: the first live slot that is not busy takes the job.
TrySubmit(e, correlation, phase, at) ==
    LET idle == {i \in Slots : e.slots[i].lifecycle = "Alive" /\ e.slots[i].busy = {}}
        fit  == {i \in idle : e.slots[i].alive}
        seen == Scanned(e, fit, idle \ fit)
        i    == FirstFrom(e, fit)
        deadline == at + JobDeadline
    IN  IF e.closed
        THEN [executor |-> e, result |-> "Executor"]
        ELSE IF fit = {}
        THEN [executor |-> [e EXCEPT !.slots = seen],
              result |-> IF \E j \in Slots : seen[j].lifecycle = "Alive"
                         THEN "Busy" ELSE "Executor"]
        ELSE [executor |->
                 [e EXCEPT !.slots = [seen EXCEPT
                     ![i].busy = {[correlation |-> correlation, deadline |-> deadline,
                                   cancelled |-> FALSE, expired |-> FALSE]},
                     ![i].job = {[correlation |-> correlation, phase |-> phase,
                                  deadline |-> deadline]}],
                  !.cursor = Other(i)],
              result |-> "Ok"]

\* Mutant: a worker that dies with its job yields nothing.
DeadIsSilent(s, at) == s.done

\* The completion slot s yields: the worker's own, timely only for the job the
\* slot is busy with and before its deadline; or, from a worker that died with
\* its job, an Executor error.
CompletionOf(s, at) ==
    IF s.done # {}
    THEN {[d EXCEPT !.timely = /\ d.timely
                               /\ \E b \in s.busy : /\ ~b.expired
                                                    /\ at < b.deadline
                                                    /\ b.correlation = d.correlation] :
          d \in s.done}
    ELSE {[correlation |-> b.correlation, timely |-> FALSE, outcome |-> "Error"] : b \in s.busy}

\* try_poll: at most one completion, from the first slot that has one.
TryPoll(e, at) ==
    LET known == {i \in Slots : e.slots[i].lifecycle = "Alive"}
        gone  == {i \in known : ~e.slots[i].alive /\ e.slots[i].done = {}}
        fit   == {i \in known : e.slots[i].done # {}} \union {i \in gone : e.slots[i].busy # {}}
        seen  == Scanned(e, fit, gone \ fit)
        i     == FirstFrom(e, fit)
        freed == [seen[i] EXCEPT !.busy = {}, !.done = {}]
    IN  IF fit = {}
        THEN [executor |-> [e EXCEPT !.slots = seen], completion |-> {}]
        ELSE [executor |->
                 [e EXCEPT !.slots = [seen EXCEPT ![i] =
                                      IF i \in gone THEN Buried(freed) ELSE freed],
                           !.cursor = Other(i)],
              completion |-> CompletionOf(e.slots[i], at)]

\* try_cancel for each correlation of the set: the slot stays busy.
TryCancel(e, correlations) ==
    [e EXCEPT !.slots = [i \in Slots |-> [e.slots[i] EXCEPT !.busy =
        {IF b.correlation \in correlations THEN [b EXCEPT !.cancelled = TRUE] ELSE b : b \in @}]]]

\* try_expire finds the first slot busy with this correlation past its deadline.
Overdue(e, correlation, at) ==
    {i \in Slots : \E b \in e.slots[i].busy : b.correlation = correlation /\ at >= b.deadline}

TryExpire(e, correlation, at) ==
    LET due == Overdue(e, correlation, at)
    IN  [e EXCEPT !.slots = [i \in Slots |->
            IF i \in due /\ \A j \in due : i <= j
            THEN [e.slots[i] EXCEPT !.busy =
                     {[b EXCEPT !.cancelled = TRUE, !.expired = TRUE] : b \in @}]
            ELSE e.slots[i]]]

\* begin_shutdown: nothing more is admitted and every job mailbox closes.
BeginShutdown(e) ==
    [e EXCEPT !.closed = TRUE,
              !.slots = [i \in Slots |-> [e.slots[i] EXCEPT !.open = FALSE,
                  !.busy = {[b EXCEPT !.cancelled = TRUE] : b \in @}]]]

-----------------------------------------------------------------------------
\* The worker thread of slot i: it returns an answer, stamped timely by its own
\* clock reading, or panics, or leaves when its mailbox is closed and empty.
Finishes(e, i, outcome, at) ==
    [e EXCEPT !.slots[i].job = {},
              !.slots[i].done = {[correlation |-> j.correlation, timely |-> at < j.deadline,
                                  outcome |-> outcome] : j \in e.slots[i].job}]

Panics(e, i) == [e EXCEPT !.slots[i].job = {}, !.slots[i].alive = FALSE]

CanLeave(e, i) == e.slots[i].alive /\ e.slots[i].job = {} /\ ~e.slots[i].open
Leaves(e, i) == [e EXCEPT !.slots[i].alive = FALSE]

BusyWith(e, correlation) ==
    \E i \in Slots : \E b \in e.slots[i].busy : b.correlation = correlation
=============================================================================
