------------------------- MODULE ManagedComponents -------------------------
(***************************************************************************)
(* Managed components: the Runtime's side of the disposable workers        *)
(* (core runtime/managed_components.rs and dispatch.rs) over the two-slot  *)
(* ManagedExecutor.  One Source component and one Transform whose input is *)
(* the Source's signal; a step of either is invoked, computed elsewhere by *)
(* a worker that may be late, hang, panic or answer badly, and committed   *)
(* only if nothing it rested on has changed.  Init of a replacement runs   *)
(* the same way, straight into the graph or kept prepared for a batch.     *)
(*                                                                         *)
(* Of a signal only its latest sample is kept, of a controller only        *)
(* whether one is Warming or Running on the signal, of data only its       *)
(* quality and lineage.  The whole state is one record per command, as the *)
(* Runtime is one owner that runs its commands one at a time.              *)
(***************************************************************************)
EXTENDS ManagedExecutor, FiniteSets, Sequences

CONSTANTS
    MaxInputAge,     \* manifest max_input_age, in ticks; also a controller's
    Warmup,          \* manifest warmup_samples
    MaxTime,         \* bound: the clock stops here
    MaxGeneration,   \* bound: replacements of one component
    MaxJobs,         \* bound: jobs submitted in all
    MaxPanics,       \* bound: workers that die with their job
    Controlled       \* bound: the components whose signal a controller may read

Source    == "Source"
Transform == "Transform"
Components == {Source, Transform}

VARIABLES
    now,        \* the monotonic clock of Runtime and workers
    managed,    \* installed instances, by component
    staged,     \* the single staging slot, optional
    prepared,   \* validated replacements kept outside the graph, by component
    quiesced,   \* managed_quiesced
    controlled, \* components whose signal a Warming or Running controller reads
    executor,   \* the ManagedExecutor
    jobs        \* the jobs submitted so far, for the bound

vars == <<now, managed, staged, prepared, quiesced, controlled, executor, jobs>>

Never == -1

\* A Good sample carries the observation it derives from and the generation of
\* the component that produced that observation, if one did.
Good(at, freshness, from) == [at |-> at, good |-> TRUE, freshness |-> freshness, from |-> from]
Unavailable(at) == [at |-> at, good |-> FALSE, freshness |-> at, from |-> {}]

Instance(generation) ==
    [generation |-> generation, revision |-> 0, attempt |-> 0, state |-> "Warming",
     goodSteps |-> 0, lastService |-> Never, lastObservation |-> Never,
     pending |-> {}, input |-> {}, pendingAt |-> Never, latest |-> {}]

Correlation(c, generation, attempt, revision) ==
    [component |-> c, generation |-> generation, attempt |-> attempt, revision |-> revision]

Init ==
    /\ now = 0 /\ managed = <<>> /\ staged = {} /\ prepared = <<>>
    /\ quiesced = FALSE /\ controlled = {} /\ executor = NewExecutor /\ jobs = 0

-----------------------------------------------------------------------------
CanSubmit == jobs < MaxJobs   \* bound

\* The state as one value, for the operators a handler chains.
State == [managed |-> managed, staged |-> staged, prepared |-> prepared,
          controlled |-> controlled, executor |-> executor]

Becomes(st) ==
    /\ managed' = st.managed /\ staged' = st.staged /\ prepared' = st.prepared
    /\ controlled' = st.controlled /\ executor' = st.executor

InputOf(c) == IF c = Transform THEN {Source} ELSE {}
Dependents(st, c) == {d \in DOMAIN st.managed : c \in InputOf(d)}

\* fail_component: the branch and its dependents fail together, their jobs are
\* cancelled, their signals invalidated and their controllers stopped.
Failed(inst, at) ==
    [inst EXCEPT !.state = "Failed", !.pending = {}, !.input = {}, !.pendingAt = Never,
                 !.latest = {Unavailable(at)}]

FailComponent(st, c, at) ==
    LET hit == {c} \union Dependents(st, c)
    IN  [st EXCEPT
            !.executor = TryCancel(@, UNION {st.managed[d].pending : d \in hit}),
            !.managed = [d \in DOMAIN @ |-> IF d \in hit THEN Failed(@[d], at) ELSE @[d]],
            !.controlled = @ \ hit]

\* validate_component_definition: an install is new, a replacement is not, and
\* a transform's input has a descriptor.
DefinitionIsValid(c, replaces) ==
    /\ replaces <=> c \in DOMAIN managed
    /\ InputOf(c) \subseteq DOMAIN managed

\* stage_component: the correlation of an Init always names attempt 0.
StageComponent(c, replaces, prepareOnly) ==
    /\ ~quiesced /\ staged = {}
    /\ prepareOnly => replaces /\ c \notin DOMAIN prepared
    /\ DefinitionIsValid(c, replaces)
    /\ CanSubmit
    /\ LET generation == IF replaces THEN managed[c].generation + 1 ELSE 1
           revision   == IF replaces THEN managed[c].revision ELSE 0
           correlation == Correlation(c, generation, 0, revision)
           submitted  == TrySubmit(executor, correlation, "Init", now)
       IN  /\ generation <= MaxGeneration                 \* bound
           /\ executor' = submitted.executor
           /\ staged' = IF submitted.result = "Ok"
                        THEN {[component |-> c, replaces |-> replaces,
                               correlation |-> correlation, prepareOnly |-> prepareOnly]}
                        ELSE {}
    /\ jobs' = jobs + 1
    /\ UNCHANGED <<now, managed, prepared, quiesced, controlled>>

\* commit_staged: a replacement pauses the controllers and fails the dependents
\* of the signal, fences the old job, and starts over in a new generation.
StagedIsCurrent(st, s) ==
    s.replaces => /\ s.component \in DOMAIN st.managed
                  /\ st.managed[s.component].generation + 1 = s.correlation.generation
                  /\ st.managed[s.component].revision = s.correlation.revision

Quieted(inst, at) ==
    [inst EXCEPT !.state = "Failed", !.pending = {}, !.input = {}, !.pendingAt = Never,
                 !.latest = {Unavailable(at) : x \in @}]

CommitStaged(st, s, at) ==
    LET c == s.component
        downstream == IF s.replaces THEN Dependents(st, c) ELSE {}
        replaced == IF s.replaces THEN {c} ELSE {}
        retained == UNION {{Unavailable(at) : x \in st.managed[d].latest} : d \in replaced}
        fenced == UNION {st.managed[d].pending : d \in replaced \union downstream}
    IN  IF ~StagedIsCurrent(st, s) THEN st
        ELSE [st EXCEPT
                !.executor = TryCancel(@, fenced),
                !.controlled = @ \ (replaced \union downstream),
                !.managed = [d \in {c} \union DOMAIN @ |->
                    IF d = c THEN [Instance(s.correlation.generation) EXCEPT !.latest = retained]
                    ELSE IF d \in downstream THEN Quieted(@[d], at) ELSE @[d]]]

-----------------------------------------------------------------------------
\* capture_component_input: the Good, fresh latest sample of the input, with
\* the generation of the component that made it.
Captured(c) ==
    UNION {{[freshness |-> s.freshness, from |-> managed[i].generation] :
             s \in {x \in managed[i].latest : x.good /\ now - x.freshness < MaxInputAge}} :
           i \in InputOf(c)}

\* invoke_component: an input that is not usable fails the component at once;
\* an observation already consumed and a busy executor change nothing.
InvokeComponent(c) ==
    /\ c \in DOMAIN managed /\ ~quiesced
    /\ managed[c].state # "Failed" /\ managed[c].pending = {}
    /\ CanSubmit
    /\ LET inst == managed[c]
           input == Captured(c)
           observation == IF input = {} THEN now ELSE (CHOOSE x \in input : TRUE).freshness
           attempt == inst.attempt + 1
           correlation == Correlation(c, inst.generation, attempt, inst.revision)
           submitted == TrySubmit(executor, correlation, "Step", now)
       IN  IF InputOf(c) # {} /\ input = {}
           THEN Becomes(FailComponent(State, c, now))
           ELSE /\ observation > inst.lastObservation /\ now > inst.lastService
                /\ executor' = submitted.executor
                /\ managed' = IF submitted.result # "Ok" THEN managed
                              ELSE [managed EXCEPT ![c].attempt = attempt,
                                                   ![c].pending = {correlation},
                                                   ![c].input = input,
                                                   ![c].pendingAt = now]
                /\ UNCHANGED <<staged, prepared, controlled>>
    /\ jobs' = jobs + 1
    /\ UNCHANGED <<now, quiesced>>

\* Mutant: the input's age is not looked at again when the answer comes.
InputWasYoung(st, inst, c, at) ==
    \A x \in inst.input : \A i \in InputOf(c) : \E s \in st.managed[i].latest :
        s.good /\ s.freshness >= x.freshness

\* commit_step: the answer must be the pending one, in time, and its input must
\* still be young and its signal still Good.
InputStillHolds(st, inst, c, at) ==
    \A x \in inst.input :
        /\ at - x.freshness < MaxInputAge
        /\ \A i \in InputOf(c) : \E s \in st.managed[i].latest :
               s.good /\ s.freshness >= x.freshness

StepIsValid(inst, outcome) ==
    /\ outcome \in {"Ready", "Warming"}
    /\ outcome = "Ready" => inst.goodSteps + 1 >= Warmup
    /\ inst.state = "Ready" => outcome = "Ready"

Published(inst, outcome, at) ==
    LET sourceAt == IF inst.input = {} THEN inst.pendingAt
                    ELSE (CHOOSE x \in inst.input : TRUE).freshness
    IN  [inst EXCEPT
            !.latest = {IF outcome = "Ready"
                        THEN Good(at, sourceAt, {x.from : x \in inst.input})
                        ELSE Unavailable(at)},
            !.revision = @ + 1,
            !.goodSteps = IF @ < Warmup THEN @ + 1 ELSE @,
            !.state = outcome,
            !.pending = {}, !.input = {}, !.pendingAt = Never,
            !.lastService = at, !.lastObservation = sourceAt]

CommitStep(st, done, at) ==
    LET c == done.correlation.component
        inst == st.managed[c]
        accepted == /\ done.timely
                    /\ InputStillHolds(st, inst, c, at)
                    /\ StepIsValid(inst, done.outcome)
                    /\ \A s \in inst.latest : s.at < at
    IN  IF \/ c \notin DOMAIN st.managed
           \/ st.managed[c].pending # {done.correlation}
           \/ st.managed[c].generation # done.correlation.generation
           \/ st.managed[c].revision # done.correlation.revision
           \/ st.managed[c].state = "Failed"
        THEN st
        ELSE IF ~accepted THEN FailComponent(st, c, at)
        ELSE [st EXCEPT !.managed[c] = Published(inst, done.outcome, at)]

-----------------------------------------------------------------------------
\* poll_components, in its order: the staged Init past its deadline is dropped,
\* every pending step past its deadline fails its component, and at most two
\* completions are taken.
DropExpiredStaged(st, at) ==
    IF \E s \in st.staged : Overdue(st.executor, s.correlation, at) # {}
    THEN LET c == (CHOOSE s \in st.staged : TRUE).correlation
         IN  [st EXCEPT !.staged = {},
                        !.executor = TryCancel(TryExpire(@, c, at), {c})]
    ELSE st

Expired(st, at) ==
    {c \in DOMAIN st.managed : \E p \in st.managed[c].pending : Overdue(st.executor, p, at) # {}}

FailExpired(st, at) ==
    LET expire(s, c) == IF c \in Expired(st, at)
                        THEN [s EXCEPT !.executor = TryExpire(@,
                                 CHOOSE p \in st.managed[c].pending : TRUE, at)]
                        ELSE s
        fail(s, c) == IF c \in Expired(st, at) THEN FailComponent(s, c, at) ELSE s
    IN  fail(fail(expire(expire(st, Source), Transform), Source), Transform)

IsStaged(st, done) == \E s \in st.staged : s.correlation = done.correlation

StagedDone(st, done, at) ==
    LET s == CHOOSE s \in st.staged : TRUE
        taken == [st EXCEPT !.staged = {}]
    IN  IF ~(done.timely /\ done.outcome = "Init") THEN taken
        ELSE IF s.prepareOnly THEN [taken EXCEPT !.prepared = [d \in {s.component} \union DOMAIN @ |->
                                                       IF d = s.component THEN s ELSE @[d]]]
        ELSE CommitStaged(taken, s, at)

TakeCompletion(st, at) ==
    LET polled == TryPoll(st.executor, at)
        after  == [st EXCEPT !.executor = polled.executor]
    IN  IF polled.completion = {} THEN after
        ELSE LET done == CHOOSE d \in polled.completion : TRUE
             IN  IF IsStaged(after, done) THEN StagedDone(after, done, at)
                 ELSE CommitStep(after, done, at)

Polled(st, at) ==
    LET ready == FailExpired(DropExpiredStaged(st, at), at)
        once  == TakeCompletion(ready, at)
    IN  IF TryPoll(ready.executor, at).completion = {} THEN once ELSE TakeCompletion(once, at)

PollComponents ==
    /\ Becomes(Polled(State, now))
    /\ UNCHANGED <<now, quiesced, jobs>>

-----------------------------------------------------------------------------
\* commit_prepared_components: every candidate is checked first, its expected
\* revision refreshed, and the batch is committed in the caller's order.
Refreshed(c) == [prepared[c] EXCEPT !.correlation.revision = managed[c].revision]

Batches == {<<Source>>, <<Transform>>, <<Source, Transform>>, <<Transform, Source>>}

CommitPrepared(batch) ==
    LET named == {batch[i] : i \in DOMAIN batch}
        first == CommitStaged(State, Refreshed(batch[1]), now)
        all   == IF Len(batch) = 1 THEN first ELSE CommitStaged(first, Refreshed(batch[2]), now)
    IN  /\ named \subseteq DOMAIN prepared
        /\ \A c \in named : managed[c].generation + 1 = prepared[c].correlation.generation
        /\ Becomes([all EXCEPT !.prepared = [c \in DOMAIN prepared \ named |-> prepared[c]]])
        /\ UNCHANGED <<now, quiesced, jobs>>

DiscardPrepared ==
    /\ prepared' = <<>>
    /\ UNCHANGED <<now, managed, staged, quiesced, controlled, executor, jobs>>

\* QuiesceManaged, once: nothing staged or prepared survives, every component
\* fails, and the executor admits nothing more.
Unstaged(st) ==
    [st EXCEPT !.staged = {}, !.prepared = <<>>,
               !.executor = TryCancel(@, {s.correlation : s \in st.staged})]

QuiesceManaged ==
    LET fail(st, c) == IF c \in DOMAIN st.managed THEN FailComponent(st, c, now) ELSE st
        failed == fail(fail(Unstaged(State), Source), Transform)
    IN  /\ ~quiesced /\ quiesced' = TRUE
        /\ Becomes([failed EXCEPT !.executor = BeginShutdown(@)])
        /\ UNCHANGED <<now, jobs>>

\* A controller starts or resumes on a Good, fresh signal (control_input), and
\* ends by its own pause or failure.
StartController(c) ==
    /\ c \in (DOMAIN managed \intersect Controlled) \ controlled
    /\ \E s \in managed[c].latest : s.good /\ now - s.freshness < MaxInputAge
    /\ controlled' = controlled \union {c}
    /\ UNCHANGED <<now, managed, staged, prepared, quiesced, executor, jobs>>

EndController(c) ==
    /\ c \in controlled
    /\ controlled' = controlled \ {c}
    /\ UNCHANGED <<now, managed, staged, prepared, quiesced, executor, jobs>>

-----------------------------------------------------------------------------
\* The workers and the clock.
Outcomes(phase) == IF phase = "Init" THEN {"Init", "Error"} ELSE {"Ready", "Warming", "Error"}

WorkerFinishes(i) ==
    /\ \E j \in executor.slots[i].job : \E outcome \in Outcomes(j.phase) :
           executor' = Finishes(executor, i, outcome, now)
    /\ UNCHANGED <<now, managed, staged, prepared, quiesced, controlled, jobs>>

WorkerPanics(i) ==
    /\ executor.slots[i].job # {}
    /\ Cardinality({j \in Slots : ~executor.slots[j].alive}) < MaxPanics   \* bound
    /\ executor' = Panics(executor, i)
    /\ UNCHANGED <<now, managed, staged, prepared, quiesced, controlled, jobs>>

WorkerLeaves(i) ==
    /\ CanLeave(executor, i)
    /\ executor' = Leaves(executor, i)
    /\ UNCHANGED <<now, managed, staged, prepared, quiesced, controlled, jobs>>

Tick ==
    /\ now < MaxTime
    /\ now' = now + 1
    /\ UNCHANGED <<managed, staged, prepared, quiesced, controlled, executor, jobs>>

Next ==
    \/ \E c \in Components, replaces, prepareOnly \in BOOLEAN :
           StageComponent(c, replaces, prepareOnly)
    \/ \E c \in Components : InvokeComponent(c) \/ StartController(c) \/ EndController(c)
    \/ PollComponents
    \/ \E batch \in Batches : CommitPrepared(batch)
    \/ DiscardPrepared
    \/ QuiesceManaged
    \/ \E i \in Slots : WorkerFinishes(i) \/ WorkerPanics(i) \/ WorkerLeaves(i)
    \/ Tick

Spec == Init /\ [][Next]_vars

-----------------------------------------------------------------------------
\* A Good sample was published within the age its input allows, by a component
\* that has not failed since; and a Transform's rests on a Source that is still
\* Good, of the same generation and no older, however late its worker was.
GoodRestsOnGood ==
    \A c \in DOMAIN managed : \A s \in managed[c].latest : s.good =>
        /\ managed[c].state = "Ready"
        /\ InputOf(c) # {} => s.at - s.freshness < MaxInputAge
        /\ \A i \in InputOf(c) : \E t \in managed[i].latest :
               t.good /\ t.freshness >= s.freshness /\ s.from = {managed[i].generation}

\* No controller keeps running on a component that failed or was replaced under
\* it, or whose source did.
ControlRestsOnGood ==
    \A c \in controlled : c \in DOMAIN managed /\ \A s \in managed[c].latest : s.good

\* Every answer the Runtime waits for is owed by a busy slot, the only thing that
\* will ever complete or expire it; and a slot busy with a step nobody waits for
\* was told to stop.
Awaited == {s.correlation : s \in staged} \union UNION {managed[c].pending : c \in DOMAIN managed}

AnswersAreOwed ==
    /\ \A k \in Awaited : BusyWith(executor, k)
    /\ \A i \in Slots : \A b \in executor.slots[i].busy :
           b.correlation.attempt > 0 => b.correlation \in Awaited \/ b.cancelled

\* After the quiesce nothing computed before it comes back: no component is
\* pending or usable, nothing is staged, prepared or under control.
QuiesceIsFinal ==
    quiesced => /\ staged = {} /\ DOMAIN prepared = {} /\ controlled = {}
                /\ \A c \in DOMAIN managed : managed[c].state = "Failed" /\ managed[c].pending = {}

\* Nothing rests on a signal that is not Good: no sample, no controller, and after
\* the quiesce nothing at all (poll_components, fail_component, QuiesceManaged).
NothingRestsOnBad == GoodRestsOnGood /\ ControlRestsOnGood /\ QuiesceIsFinal

=============================================================================
