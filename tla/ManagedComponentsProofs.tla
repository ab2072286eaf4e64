---------------------- MODULE ManagedComponentsProofs ----------------------
(***************************************************************************)
(* ManagedComponents keeps IInv for every value of the constants: nothing  *)
(* rests on a signal that is not Good, and every answer awaited is owed.   *)
(*                                                                         *)
(* A handler is a chain of operations on the state record.  Each is shown  *)
(* once to keep the record Sane; only between taking a completion and      *)
(* using it is one answer awaited that nobody owes (OwedBut).              *)
(***************************************************************************)
EXTENDS ManagedComponents, TLAPS

-----------------------------------------------------------------------------
(* The inductive invariant.                                                *)

AtMostOne(S) == \A x, y \in S : x = y

CorrelationType ==
    [component : Components, generation : Nat, attempt : Nat, revision : Nat]

JobType == [correlation : CorrelationType, phase : {"Init", "Step"}, deadline : Nat]
BusyType == [correlation : CorrelationType, deadline : Nat,
             cancelled : BOOLEAN, expired : BOOLEAN]
DoneType == [correlation : CorrelationType, timely : BOOLEAN,
             outcome : {"Init", "Ready", "Warming", "Error"}]

SlotType ==
    [lifecycle : {"Alive", "Dead"}, open : BOOLEAN, busy : SUBSET BusyType,
     alive : BOOLEAN, job : SUBSET JobType, done : SUBSET DoneType]

ExecutorType == [slots : [Slots -> SlotType], cursor : Slots, closed : BOOLEAN]

SampleType == [at : Int, good : BOOLEAN, freshness : Int, from : SUBSET Nat]
InputType == [freshness : Int, from : Nat]

InstanceType ==
    [generation : Nat, revision : Nat, attempt : Nat,
     state : {"Warming", "Ready", "Failed"}, goodSteps : Int,
     lastService : Int, lastObservation : Int,
     pending : SUBSET CorrelationType, input : SUBSET InputType, pendingAt : Int,
     latest : SUBSET SampleType]

StagedType ==
    [component : Components, replaces : BOOLEAN, correlation : CorrelationType,
     prepareOnly : BOOLEAN]

\* A slot knows the job its worker holds or has answered.
SlotIsSane(s) ==
    /\ AtMostOne(s.busy)
    /\ \A j \in s.job : \E b \in s.busy : b.correlation = j.correlation
    /\ \A d \in s.done : \E b \in s.busy : b.correlation = d.correlation
    /\ s.done # {} \/ ~s.alive => s.job = {}

ExecutorIsSane(e) ==
    /\ e \in ExecutorType
    /\ \A i \in Slots : SlotIsSane(e.slots[i])

\* A step a slot is busy with is one of this instance or of one it replaced, and
\* no two slots are busy with the same step.
IsStepOf(m, k) ==
    /\ k.component \in DOMAIN m
    /\ \/ k.generation < m[k.component].generation
       \/ /\ k.generation = m[k.component].generation
          /\ k.attempt <= m[k.component].attempt

StepsAreUnique(e, m) ==
    /\ \A i \in Slots : \A b \in e.slots[i].busy :
          b.correlation.attempt > 0 => IsStepOf(m, b.correlation)
    /\ \A i, j \in Slots : \A b \in e.slots[i].busy, d \in e.slots[j].busy :
          b.correlation.attempt > 0 /\ i # j => b.correlation # d.correlation

\* What an instance waits for is its own last attempt.
PendingIsLast(c, inst) ==
    /\ AtMostOne(inst.pending)
    /\ \A k \in inst.pending :
          /\ k = Correlation(c, inst.generation, inst.attempt, inst.revision)
          /\ inst.attempt > 0
          /\ inst.state # "Failed"
          /\ InputOf(c) # {} => inst.input # {}
          /\ InputOf(c) = {} => inst.pendingAt > inst.lastObservation

InstanceIsSane(c, inst) ==
    /\ inst \in InstanceType
    /\ PendingIsLast(c, inst)
    /\ AtMostOne(inst.latest) /\ AtMostOne(inst.input)
    /\ \A s \in inst.latest : s.good =>
          /\ inst.state = "Ready"
          /\ InputOf(c) # {} => s.at - s.freshness < MaxInputAge
          /\ InputOf(c) = {} => s.freshness <= inst.lastObservation
    /\ InputOf(c) = {} => inst.input = {}

\* A transform's sample rests on one of its source that is Good and no older, of
\* the generation that is installed; what it has captured is of that generation.
RestsOnSource(m) ==
    Transform \in DOMAIN m =>
        /\ Source \in DOMAIN m
        /\ \A x \in m[Transform].input : x.from = m[Source].generation
        /\ \A s \in m[Transform].latest : s.good =>
              \E t \in m[Source].latest :
                  t.good /\ t.freshness >= s.freshness /\ s.from = {m[Source].generation}

GraphIsSane(m) ==
    /\ DOMAIN m \subseteq Components
    /\ \A c \in DOMAIN m : InstanceIsSane(c, m[c])
    /\ RestsOnSource(m)

\* A staged install finds its place free and its input installed.
StagedFits(s, m) ==
    /\ s \in StagedType
    /\ s.correlation.component = s.component
    /\ s.correlation.attempt = 0
    /\ s.replaces <=> s.component \in DOMAIN m
    /\ s.prepareOnly => s.replaces
    /\ InputOf(s.component) \subseteq DOMAIN m

CandidatesAreSane(st) ==
    /\ AtMostOne(st.staged)
    /\ \A s \in st.staged : StagedFits(s, st.managed)
    /\ \A c \in DOMAIN st.prepared :
          /\ st.prepared[c].component = c
          /\ st.prepared[c].replaces
          /\ StagedFits(st.prepared[c], st.managed)

ControlIsSane(m, ct) ==
    \A c \in ct : c \in DOMAIN m /\ \E s \in m[c].latest : s.good

IsAwaited(st, k) ==
    \/ \E s \in st.staged : s.correlation = k
    \/ \E c \in DOMAIN st.managed : k \in st.managed[c].pending

\* A slot busy with a step nobody waits for was told to stop.
StrayIsCancelled(st) ==
    \A i \in Slots : \A b \in st.executor.slots[i].busy :
        b.correlation.attempt > 0 => IsAwaited(st, b.correlation) \/ b.cancelled

Sane(st) ==
    /\ st = [managed |-> st.managed, staged |-> st.staged, prepared |-> st.prepared,
             controlled |-> st.controlled, executor |-> st.executor]
    /\ ExecutorIsSane(st.executor)
    /\ GraphIsSane(st.managed)
    /\ StepsAreUnique(st.executor, st.managed)
    /\ CandidatesAreSane(st)
    /\ ControlIsSane(st.managed, st.controlled)
    /\ StrayIsCancelled(st)

\* What is awaited is owed by a slot, except perhaps `k`.
OwedBut(st, except) ==
    \A k : IsAwaited(st, k) /\ k \notin except => BusyWith(st.executor, k)

\* After the quiesce nothing is left that could come back.
Stopped(st) ==
    /\ st.staged = {} /\ DOMAIN st.prepared = {} /\ st.controlled = {}
    /\ \A c \in DOMAIN st.managed : st.managed[c].state = "Failed" /\ st.managed[c].pending = {}

IInv ==
    /\ now \in Nat
    /\ Sane(State)
    /\ OwedBut(State, {})
    /\ quiesced => Stopped(State)

-----------------------------------------------------------------------------
(* The executor.                                                           *)

\* `f` is `e` with other marks on its jobs, and no job told to stop goes on.
Marks(e, f) ==
    /\ f \in ExecutorType
    /\ \A i \in Slots :
          /\ f.slots[i].alive = e.slots[i].alive
          /\ f.slots[i].job = e.slots[i].job
          /\ f.slots[i].done = e.slots[i].done
          /\ AtMostOne(f.slots[i].busy)
          /\ \A b \in e.slots[i].busy : \E d \in f.slots[i].busy :
                d.correlation = b.correlation /\ (b.cancelled => d.cancelled)
          /\ \A d \in f.slots[i].busy : \E b \in e.slots[i].busy :
                d.correlation = b.correlation /\ (b.cancelled => d.cancelled)

LEMMA MarksAreSane ==
    ASSUME NEW e, NEW f, NEW m, ExecutorIsSane(e), StepsAreUnique(e, m), Marks(e, f)
    PROVE  /\ ExecutorIsSane(f)
           /\ StepsAreUnique(f, m)
           /\ \A k : BusyWith(f, k) <=> BusyWith(e, k)
<1>1. ExecutorIsSane(f)
  <2> SUFFICES ASSUME NEW i \in Slots
               PROVE  SlotIsSane(f.slots[i])
    BY DEF ExecutorIsSane, Marks
  <2> QED
    BY DEF ExecutorIsSane, SlotIsSane, Marks
<1>2. StepsAreUnique(f, m)
  <2>1. ASSUME NEW i \in Slots, NEW b \in f.slots[i].busy, b.correlation.attempt > 0
        PROVE  IsStepOf(m, b.correlation)
    BY <2>1 DEF StepsAreUnique, Marks
  <2>2. ASSUME NEW i \in Slots, NEW j \in Slots, NEW b \in f.slots[i].busy,
               NEW d \in f.slots[j].busy, b.correlation.attempt > 0, i # j
        PROVE  b.correlation # d.correlation
    BY <2>2 DEF StepsAreUnique, Marks
  <2> QED
    BY <2>1, <2>2 DEF StepsAreUnique
<1>3. \A k : BusyWith(f, k) <=> BusyWith(e, k)
  BY DEF BusyWith, Marks
<1> QED
  BY <1>1, <1>2, <1>3

\* try_cancel marks, and what it names is cancelled.
LEMMA CancelMarks ==
    ASSUME NEW e, NEW ks, ExecutorIsSane(e)
    PROVE  /\ Marks(e, TryCancel(e, ks))
           /\ \A i \in Slots : \A b \in TryCancel(e, ks).slots[i].busy :
                 b.correlation \in ks => b.cancelled
<1> DEFINE mark(b) == IF b.correlation \in ks THEN [b EXCEPT !.cancelled = TRUE] ELSE b
           slots == [i \in Slots |-> [e.slots[i] EXCEPT !.busy = {mark(b) : b \in @}]]
           f == TryCancel(e, ks)
<1>1. f = [e EXCEPT !.slots = slots]
  BY DEF TryCancel
<1>2. e \in ExecutorType /\ \A i \in Slots : e.slots[i] \in SlotType
  BY DEF ExecutorIsSane, ExecutorType
<1>3. ASSUME NEW b \in BusyType
      PROVE  /\ mark(b) \in BusyType
             /\ mark(b).correlation = b.correlation
             /\ b.cancelled => mark(b).cancelled
             /\ b.correlation \in ks => mark(b).cancelled
  BY DEF BusyType
<1> HIDE DEF mark
<1>4. ASSUME NEW i \in Slots
      PROVE  /\ slots[i] \in SlotType
             /\ slots[i].busy = {mark(b) : b \in e.slots[i].busy}
             /\ slots[i].alive = e.slots[i].alive
             /\ slots[i].job = e.slots[i].job
             /\ slots[i].done = e.slots[i].done
  BY <1>2, <1>3 DEF SlotType
<1>5. slots \in [Slots -> SlotType]
  BY <1>4
<1> HIDE DEF slots
<1>6. f \in ExecutorType /\ f.slots = slots
  BY <1>1, <1>2, <1>5 DEF ExecutorType
<1> HIDE DEF f
<1>7. ASSUME NEW i \in Slots
      PROVE  /\ AtMostOne(f.slots[i].busy)
             /\ \A b \in e.slots[i].busy : \E d \in f.slots[i].busy :
                   d.correlation = b.correlation /\ (b.cancelled => d.cancelled)
             /\ \A d \in f.slots[i].busy : \E b \in e.slots[i].busy :
                   d.correlation = b.correlation /\ (b.cancelled => d.cancelled)
             /\ \A b \in f.slots[i].busy : b.correlation \in ks => b.cancelled
  <2>1. AtMostOne(e.slots[i].busy) /\ e.slots[i].busy \subseteq BusyType
    BY <1>2 DEF ExecutorIsSane, SlotIsSane, SlotType
  <2> QED
    BY <1>3, <1>4, <1>6, <2>1 DEF AtMostOne
<1> QED
  BY <1>4, <1>6, <1>7 DEF Marks, f

\* try_expire marks at most one slot.
LEMMA ExpireMarks ==
    ASSUME NEW e, NEW k, NEW at, ExecutorIsSane(e)
    PROVE  Marks(e, TryExpire(e, k, at))
<1> DEFINE mark(b) == [b EXCEPT !.cancelled = TRUE, !.expired = TRUE]
           due == Overdue(e, k, at)
           hit(i) == i \in due /\ \A j \in due : i <= j
           slots == [i \in Slots |->
                        IF hit(i) THEN [e.slots[i] EXCEPT !.busy = {mark(b) : b \in @}]
                        ELSE e.slots[i]]
           f == TryExpire(e, k, at)
<1>1. f = [e EXCEPT !.slots = slots]
  BY DEF TryExpire
<1>2. e \in ExecutorType /\ \A i \in Slots : e.slots[i] \in SlotType
  BY DEF ExecutorIsSane, ExecutorType
<1>3. ASSUME NEW b \in BusyType
      PROVE  /\ mark(b) \in BusyType
             /\ mark(b).correlation = b.correlation
             /\ mark(b).cancelled
  BY DEF BusyType
<1> HIDE DEF mark, hit
<1>4. ASSUME NEW i \in Slots
      PROVE  /\ slots[i] \in SlotType
             /\ slots[i].busy = IF hit(i) THEN {mark(b) : b \in e.slots[i].busy}
                                ELSE e.slots[i].busy
             /\ slots[i].alive = e.slots[i].alive
             /\ slots[i].job = e.slots[i].job
             /\ slots[i].done = e.slots[i].done
  BY <1>2, <1>3 DEF SlotType
<1>5. slots \in [Slots -> SlotType]
  BY <1>4
<1> HIDE DEF slots
<1>6. f \in ExecutorType /\ f.slots = slots
  BY <1>1, <1>2, <1>5 DEF ExecutorType
<1> HIDE DEF f
<1>7. ASSUME NEW i \in Slots
      PROVE  /\ AtMostOne(f.slots[i].busy)
             /\ \A b \in e.slots[i].busy : \E d \in f.slots[i].busy :
                   d.correlation = b.correlation /\ (b.cancelled => d.cancelled)
             /\ \A d \in f.slots[i].busy : \E b \in e.slots[i].busy :
                   d.correlation = b.correlation /\ (b.cancelled => d.cancelled)
  <2>1. AtMostOne(e.slots[i].busy) /\ e.slots[i].busy \subseteq BusyType
    BY <1>2 DEF ExecutorIsSane, SlotIsSane, SlotType
  <2>2. CASE hit(i)
    <3>1. f.slots[i].busy = {mark(b) : b \in e.slots[i].busy}
      BY <1>4, <1>6, <2>2
    <3> QED
      BY <1>3, <2>1, <3>1 DEF AtMostOne
  <2>3. CASE ~hit(i)
    BY <1>3, <1>4, <1>6, <2>1, <2>3 DEF AtMostOne
  <2> QED
    BY <2>2, <2>3
<1> QED
  BY <1>4, <1>6, <1>7 DEF Marks, f

\* begin_shutdown marks every job.
LEMMA ShutdownMarks ==
    ASSUME NEW e, ExecutorIsSane(e)
    PROVE  Marks(e, BeginShutdown(e))
<1> DEFINE mark(b) == [b EXCEPT !.cancelled = TRUE]
           stop(s) == [s EXCEPT !.open = FALSE, !.busy = {mark(b) : b \in @}]
           slots == [i \in Slots |-> stop(e.slots[i])]
           f == BeginShutdown(e)
<1>1. f = [e EXCEPT !.closed = TRUE, !.slots = slots]
  BY DEF BeginShutdown
<1>2. e \in ExecutorType /\ \A i \in Slots : e.slots[i] \in SlotType
  BY DEF ExecutorIsSane, ExecutorType
<1>3. ASSUME NEW b \in BusyType
      PROVE  /\ mark(b) \in BusyType
             /\ mark(b).correlation = b.correlation
             /\ mark(b).cancelled
  BY DEF BusyType
<1> HIDE DEF mark
<1>8. ASSUME NEW s \in SlotType
      PROVE  /\ stop(s) \in SlotType
             /\ stop(s).busy = {mark(b) : b \in s.busy}
             /\ stop(s).alive = s.alive
             /\ stop(s).job = s.job
             /\ stop(s).done = s.done
  <2> DEFINE shut == [s EXCEPT !.open = FALSE]
             busy == {mark(b) : b \in s.busy}
  <2>1. busy \in SUBSET BusyType
    BY <1>3 DEF SlotType
  <2>2. /\ shut \in SlotType /\ shut.busy = s.busy /\ shut.alive = s.alive
        /\ shut.job = s.job /\ shut.done = s.done
    BY DEF SlotType
  <2>3. stop(s) = [shut EXCEPT !.busy = busy]
    BY <2>2
  <2> HIDE DEF shut, stop
  <2>4. /\ stop(s).busy = busy /\ stop(s).alive = shut.alive
        /\ stop(s).job = shut.job /\ stop(s).done = shut.done
    BY <2>2, <2>3 DEF SlotType
  <2>5. stop(s) \in SlotType
    <3> HIDE DEF busy
    <3> QED
      BY <2>1, <2>2, <2>3 DEF SlotType
  <2> QED
    BY <2>2, <2>4, <2>5
<1> HIDE DEF stop
<1>4. ASSUME NEW i \in Slots
      PROVE  /\ slots[i] \in SlotType
             /\ slots[i].busy = {mark(b) : b \in e.slots[i].busy}
             /\ slots[i].alive = e.slots[i].alive
             /\ slots[i].job = e.slots[i].job
             /\ slots[i].done = e.slots[i].done
  BY <1>2, <1>8
<1>5. slots \in [Slots -> SlotType]
  BY <1>4
<1> HIDE DEF slots
<1>6. f \in ExecutorType /\ f.slots = slots
  BY <1>1, <1>2, <1>5 DEF ExecutorType
<1> HIDE DEF f
<1>7. ASSUME NEW i \in Slots
      PROVE  /\ AtMostOne(f.slots[i].busy)
             /\ \A b \in e.slots[i].busy : \E d \in f.slots[i].busy :
                   d.correlation = b.correlation /\ (b.cancelled => d.cancelled)
             /\ \A d \in f.slots[i].busy : \E b \in e.slots[i].busy :
                   d.correlation = b.correlation /\ (b.cancelled => d.cancelled)
  <2>1. AtMostOne(e.slots[i].busy) /\ e.slots[i].busy \subseteq BusyType
    BY <1>2 DEF ExecutorIsSane, SlotIsSane, SlotType
  <2> QED
    BY <1>3, <1>4, <1>6, <2>1 DEF AtMostOne
<1> QED
  BY <1>4, <1>6, <1>7 DEF Marks, f

LEMMA NewExecutorIsSane ==
    ASSUME NEW m
    PROVE  /\ ExecutorIsSane(NewExecutor)
           /\ StepsAreUnique(NewExecutor, m)
           /\ \A i \in Slots : NewExecutor.slots[i].busy = {}
<1>1. Slot \in SlotType /\ SlotIsSane(Slot) /\ Slot.busy = {}
  BY DEF Slot, SlotType, SlotIsSane, AtMostOne
<1>2. /\ NewExecutor \in ExecutorType
      /\ \A i \in Slots : NewExecutor.slots[i] = Slot
  BY <1>1 DEF NewExecutor, ExecutorType, Slots
<1> QED
  BY <1>1, <1>2 DEF ExecutorIsSane, StepsAreUnique

\* Scanning buries slots and changes no job.
LEMMA ScannedSlots ==
    ASSUME NEW e, NEW fit, NEW gone, ExecutorIsSane(e)
    PROVE  /\ Scanned(e, fit, gone) \in [Slots -> SlotType]
           /\ \A i \in Slots :
                 /\ Scanned(e, fit, gone)[i].alive = e.slots[i].alive
                 /\ Scanned(e, fit, gone)[i].busy = e.slots[i].busy
                 /\ Scanned(e, fit, gone)[i].job = e.slots[i].job
                 /\ Scanned(e, fit, gone)[i].done = e.slots[i].done
<1>1. e \in ExecutorType /\ \A i \in Slots : e.slots[i] \in SlotType
  BY DEF ExecutorIsSane, ExecutorType
<1>2. ASSUME NEW s \in SlotType
      PROVE  /\ Buried(s) \in SlotType
             /\ Buried(s).alive = s.alive
             /\ Buried(s).busy = s.busy
             /\ Buried(s).job = s.job
             /\ Buried(s).done = s.done
  BY DEF Buried, SlotType
<1>3. ASSUME NEW i \in Slots
      PROVE  \/ Scanned(e, fit, gone)[i] = e.slots[i]
             \/ Scanned(e, fit, gone)[i] = Buried(e.slots[i])
  BY DEF Scanned
<1>4. Scanned(e, fit, gone) = [i \in Slots |-> Scanned(e, fit, gone)[i]]
  BY DEF Scanned
<1>5. \A i \in Slots : Scanned(e, fit, gone)[i] \in SlotType
  BY <1>1, <1>2, <1>3
<1> QED
  BY <1>1, <1>2, <1>3, <1>4, <1>5

LEMMA FirstFits ==
    ASSUME NEW e, NEW fit, e.cursor \in Slots, fit \subseteq Slots, fit # {}
    PROVE  FirstFrom(e, fit) \in fit
<1>1. PICK i \in fit : TRUE
  OBVIOUS
<1>2. e.cursor \notin fit => 3 - e.cursor = i
  BY <1>1 DEF Slots
<1> QED
  BY <1>1, <1>2 DEF FirstFrom, Other

LEMMA OtherIsSlot ==
    ASSUME NEW i \in Slots
    PROVE  Other(i) \in Slots
  BY DEF Other, Slots

\* An idle slot of `e` is busy in `f` with `k` alone, the others are as they were.
Given(e, f, k) ==
    \E i \in Slots :
        /\ e.slots[i].busy = {}
        /\ \E b \in f.slots[i].busy : b.correlation = k /\ f.slots[i].busy = {b}
        /\ \A j \in Slots \ {i} : f.slots[j].busy = e.slots[j].busy

LEMMA SubmitGives ==
    ASSUME NEW e, NEW k \in CorrelationType, NEW phase \in {"Init", "Step"},
           NEW at \in Nat, ExecutorIsSane(e)
    PROVE  LET submitted == TrySubmit(e, k, phase, at)
           IN  /\ ExecutorIsSane(submitted.executor)
               /\ submitted.result # "Ok" => Marks(e, submitted.executor)
               /\ submitted.result = "Ok" => Given(e, submitted.executor, k)
<1> DEFINE idle == {i \in Slots : e.slots[i].lifecycle = "Alive" /\ e.slots[i].busy = {}}
           fit  == {i \in idle : e.slots[i].alive}
           seen == Scanned(e, fit, idle \ fit)
           i    == FirstFrom(e, fit)
           busy == [correlation |-> k, deadline |-> at + JobDeadline,
                    cancelled |-> FALSE, expired |-> FALSE]
           job  == [correlation |-> k, phase |-> phase, deadline |-> at + JobDeadline]
           given == [seen EXCEPT ![i].busy = {busy}, ![i].job = {job}]
           submitted == TrySubmit(e, k, phase, at)
<1>1. e \in ExecutorType /\ \A j \in Slots : e.slots[j] \in SlotType
  BY DEF ExecutorIsSane, ExecutorType
<1>2. /\ seen \in [Slots -> SlotType]
      /\ \A j \in Slots :
            /\ seen[j].alive = e.slots[j].alive
            /\ seen[j].busy = e.slots[j].busy
            /\ seen[j].job = e.slots[j].job
            /\ seen[j].done = e.slots[j].done
  BY ScannedSlots
<1>6. submitted =
        IF e.closed
        THEN [executor |-> e, result |-> "Executor"]
        ELSE IF fit = {}
        THEN [executor |-> [e EXCEPT !.slots = seen],
              result |-> IF \E j \in Slots : seen[j].lifecycle = "Alive"
                         THEN "Busy" ELSE "Executor"]
        ELSE [executor |-> [e EXCEPT !.slots = given, !.cursor = Other(i)], result |-> "Ok"]
  BY DEF TrySubmit
<1> HIDE DEF submitted
<1>3. CASE e.closed
  <2>1. submitted.executor = e /\ submitted.result # "Ok"
    BY <1>3, <1>6
  <2>2. Marks(e, e)
    BY <1>1 DEF Marks, ExecutorIsSane, SlotIsSane
  <2> QED
    BY <2>1, <2>2 DEF submitted
<1>4. CASE ~e.closed /\ fit = {}
  <2>1. submitted.executor = [e EXCEPT !.slots = seen] /\ submitted.result # "Ok"
    <3> HIDE DEF seen, fit, given
    <3> QED
      BY <1>4, <1>6
  <2> HIDE DEF seen
  <2>2. submitted.executor \in ExecutorType /\ submitted.executor.slots = seen
    BY <1>1, <1>2, <2>1 DEF ExecutorType
  <2>3. Marks(e, submitted.executor)
    BY <1>2, <2>2 DEF Marks, ExecutorIsSane, SlotIsSane
  <2>4. ExecutorIsSane(submitted.executor)
    BY <1>2, <2>2 DEF ExecutorIsSane, SlotIsSane
  <2> QED
    BY <2>1, <2>3, <2>4 DEF submitted
<1>5. CASE ~e.closed /\ fit # {}
  <2>1. /\ submitted.executor = [e EXCEPT !.slots = given, !.cursor = Other(i)]
        /\ submitted.result = "Ok"
    <3> HIDE DEF seen, fit, given, i
    <3> QED
      BY <1>5, <1>6
  <2>2. i \in Slots /\ Other(i) \in Slots /\ e.slots[i].busy = {} /\ e.slots[i].alive
    <3>1. i \in fit
      BY <1>1, <1>5, FirstFits DEF ExecutorType
    <3> QED
      BY <3>1, OtherIsSlot
  <2> HIDE DEF seen, i
  <2>3. busy \in BusyType /\ job \in JobType
    BY JobDeadlineAssumption DEF BusyType, JobType
  <2>4. busy.correlation = k /\ job.correlation = k
    OBVIOUS
  <2> HIDE DEF busy, job
  <2>5. /\ given \in [Slots -> SlotType]
        /\ given[i].busy = {busy} /\ given[i].job = {job}
        /\ given[i].done = seen[i].done /\ given[i].alive = seen[i].alive
        /\ \A j \in Slots \ {i} : given[j] = seen[j]
    <3> DEFINE one == [seen[i] EXCEPT !.busy = {busy}]
               two == [one EXCEPT !.job = {job}]
    <3>1. /\ one \in SlotType /\ one.busy = {busy} /\ one.done = seen[i].done
          /\ one.alive = seen[i].alive
      BY <1>2, <2>2, <2>3 DEF SlotType
    <3>2. given = [seen EXCEPT ![i] = two]
      BY <1>2, <2>2
    <3> HIDE DEF one
    <3>3. /\ two \in SlotType /\ two.busy = one.busy /\ two.job = {job}
          /\ two.done = one.done /\ two.alive = one.alive
      BY <2>3, <3>1 DEF SlotType
    <3> HIDE DEF two, given
    <3> QED
      BY <1>2, <2>2, <3>1, <3>2, <3>3
  <2> HIDE DEF given
  <2>6. submitted.executor \in ExecutorType /\ submitted.executor.slots = given
    BY <1>1, <2>1, <2>2, <2>5 DEF ExecutorType
  <2>7. seen[i].done = {}
    BY <1>2, <2>2 DEF ExecutorIsSane, SlotIsSane
  <2>8. SlotIsSane(given[i])
    BY <1>2, <2>2, <2>4, <2>5, <2>7 DEF SlotIsSane, AtMostOne
  <2>9. \A j \in Slots \ {i} : SlotIsSane(given[j])
    BY <1>2, <2>5 DEF ExecutorIsSane, SlotIsSane
  <2>10. ExecutorIsSane(submitted.executor)
    BY <2>6, <2>8, <2>9 DEF ExecutorIsSane
  <2>11. Given(e, submitted.executor, k)
    BY <1>2, <2>2, <2>4, <2>5, <2>6 DEF Given
  <2> QED
    BY <2>1, <2>10, <2>11 DEF submitted
<1> QED
  BY <1>3, <1>4, <1>5

\* In `f` the slot of `e` that was busy with `k` is free, the others are as they were.
Freed(e, f, k) ==
    \E i \in Slots :
        /\ \E b \in e.slots[i].busy : b.correlation = k
        /\ f.slots[i].busy = {}
        /\ \A j \in Slots \ {i} : f.slots[j].busy = e.slots[j].busy

LEMMA CompletionFacts ==
    ASSUME NEW s \in SlotType, NEW at \in Nat, SlotIsSane(s), s.busy # {}
    PROVE  /\ CompletionOf(s, at) # {}
           /\ \A d \in CompletionOf(s, at) :
                 /\ d \in DoneType
                 /\ \E b \in s.busy : b.correlation = d.correlation
<1>1. CASE s.done # {}
  <2> DEFINE stamp(d) == [d EXCEPT !.timely = /\ d.timely
                               /\ \E b \in s.busy : /\ ~b.expired
                                                    /\ at < b.deadline
                                                    /\ b.correlation = d.correlation]
  <2>1. CompletionOf(s, at) = {stamp(d) : d \in s.done}
    BY <1>1 DEF CompletionOf
  <2>2. ASSUME NEW d \in s.done
        PROVE  stamp(d) \in DoneType /\ stamp(d).correlation = d.correlation
    <3> DEFINE t == /\ d.timely
                    /\ \E b \in s.busy : /\ ~b.expired
                                         /\ at < b.deadline
                                         /\ b.correlation = d.correlation
    <3>1. d \in DoneType /\ t \in BOOLEAN
      BY DEF SlotType
    <3> HIDE DEF t
    <3> QED
      BY <3>1 DEF DoneType
  <2> HIDE DEF stamp
  <2> QED
    BY <1>1, <2>1, <2>2 DEF SlotIsSane
<1>2. CASE s.done = {}
  <2> DEFINE fail(b) == [correlation |-> b.correlation, timely |-> FALSE, outcome |-> "Error"]
  <2>1. CompletionOf(s, at) = {fail(b) : b \in s.busy}
    BY <1>2 DEF CompletionOf
  <2>2. ASSUME NEW b \in s.busy
        PROVE  fail(b) \in DoneType /\ fail(b).correlation = b.correlation
    BY DEF SlotType, BusyType, DoneType
  <2> HIDE DEF fail
  <2> QED
    BY <2>1, <2>2
<1> QED
  BY <1>1, <1>2

\* try_poll frees the slot whose completion it returns.
LEMMA PollFrees ==
    ASSUME NEW e, NEW at \in Nat, ExecutorIsSane(e)
    PROVE  LET polled == TryPoll(e, at)
           IN  /\ ExecutorIsSane(polled.executor)
               /\ polled.completion = {} => Marks(e, polled.executor)
               /\ \A d \in polled.completion :
                     d \in DoneType /\ Freed(e, polled.executor, d.correlation)
<1> DEFINE known == {i \in Slots : e.slots[i].lifecycle = "Alive"}
           gone  == {i \in known : ~e.slots[i].alive /\ e.slots[i].done = {}}
           fit   == {i \in known : e.slots[i].done # {}}
                    \union {i \in gone : e.slots[i].busy # {}}
           seen  == Scanned(e, fit, gone \ fit)
           i     == FirstFrom(e, fit)
           freed == [seen[i] EXCEPT !.busy = {}, !.done = {}]
           left  == IF i \in gone THEN Buried(freed) ELSE freed
           slots == [seen EXCEPT ![i] = left]
           polled == TryPoll(e, at)
<1>1. e \in ExecutorType /\ \A j \in Slots : e.slots[j] \in SlotType /\ SlotIsSane(e.slots[j])
  BY DEF ExecutorIsSane, ExecutorType
<1>2. /\ seen \in [Slots -> SlotType]
      /\ \A j \in Slots :
            /\ seen[j].alive = e.slots[j].alive
            /\ seen[j].busy = e.slots[j].busy
            /\ seen[j].job = e.slots[j].job
            /\ seen[j].done = e.slots[j].done
  <2> DEFINE buried == gone \ fit
  <2>1. seen = Scanned(e, fit, buried)
    OBVIOUS
  <2> HIDE DEF seen, fit, buried
  <2> QED
    BY <2>1, ScannedSlots
<1>3. polled =
        IF fit = {}
        THEN [executor |-> [e EXCEPT !.slots = seen], completion |-> {}]
        ELSE [executor |-> [e EXCEPT !.slots = slots, !.cursor = Other(i)],
              completion |-> CompletionOf(e.slots[i], at)]
  BY DEF TryPoll
<1> HIDE DEF polled
<1>4. CASE fit = {}
  <2>1. polled.executor = [e EXCEPT !.slots = seen] /\ polled.completion = {}
    <3> HIDE DEF seen, fit, slots
    <3> QED
      BY <1>3, <1>4
  <2> HIDE DEF seen
  <2>2. polled.executor \in ExecutorType /\ polled.executor.slots = seen
    BY <1>1, <1>2, <2>1 DEF ExecutorType
  <2>3. Marks(e, polled.executor)
    BY <1>1, <1>2, <2>2 DEF Marks, SlotIsSane
  <2>4. ExecutorIsSane(polled.executor)
    BY <1>1, <1>2, <2>2 DEF ExecutorIsSane, SlotIsSane
  <2> QED
    BY <2>1, <2>3, <2>4 DEF polled
<1>5. CASE fit # {}
  <2>1. /\ polled.executor = [e EXCEPT !.slots = slots, !.cursor = Other(i)]
        /\ polled.completion = CompletionOf(e.slots[i], at)
    <3> HIDE DEF seen, fit, slots, i
    <3> QED
      BY <1>3, <1>5
  <2>2. i \in Slots /\ Other(i) \in Slots /\ e.slots[i].busy # {}
    <3>1. i \in fit
      BY <1>1, <1>5, FirstFits DEF ExecutorType
    <3> HIDE DEF i
    <3>2. i \in Slots
      BY <3>1
    <3>3. e.slots[i].done # {} \/ e.slots[i].busy # {}
      BY <3>1
    <3> QED
      BY <1>1, <3>2, <3>3, OtherIsSlot DEF SlotIsSane
  <2>3. /\ CompletionOf(e.slots[i], at) # {}
        /\ \A d \in CompletionOf(e.slots[i], at) :
              d \in DoneType /\ \E b \in e.slots[i].busy : b.correlation = d.correlation
    BY <1>1, <2>2, CompletionFacts
  <2>4. seen[i].job = {}
    <3>1. i \in fit
      BY <1>1, <1>5, FirstFits DEF ExecutorType
    <3> HIDE DEF i, seen
    <3>2. e.slots[i].done # {} \/ ~e.slots[i].alive
      BY <3>1
    <3> QED
      BY <1>1, <1>2, <2>2, <3>2 DEF SlotIsSane
  <2>5. /\ left \in SlotType /\ left.busy = {} /\ left.done = {} /\ left.job = {}
    <3> HIDE DEF seen, i
    <3>1. /\ freed \in SlotType /\ freed.busy = {} /\ freed.done = {}
          /\ freed.job = seen[i].job
      BY <1>2, <2>2 DEF SlotType
    <3> HIDE DEF freed
    <3>2. /\ Buried(freed) \in SlotType /\ Buried(freed).busy = {} /\ Buried(freed).done = {}
          /\ Buried(freed).job = seen[i].job
      BY <3>1 DEF Buried, SlotType
    <3> QED
      BY <2>4, <3>1, <3>2
  <2> HIDE DEF seen, i, left
  <2>6. /\ slots \in [Slots -> SlotType]
        /\ slots[i] = left
        /\ \A j \in Slots \ {i} : slots[j] = seen[j]
    BY <1>2, <2>2, <2>5
  <2> HIDE DEF slots
  <2>7. polled.executor \in ExecutorType /\ polled.executor.slots = slots
    BY <1>1, <2>1, <2>2, <2>6 DEF ExecutorType
  <2>8. SlotIsSane(left)
    BY <2>5 DEF SlotIsSane, AtMostOne
  <2>9. \A j \in Slots \ {i} : SlotIsSane(slots[j])
    BY <1>1, <1>2, <2>6 DEF SlotIsSane
  <2>10. ExecutorIsSane(polled.executor)
    BY <2>6, <2>7, <2>8, <2>9 DEF ExecutorIsSane
  <2>11. \A d \in polled.completion :
            d \in DoneType /\ Freed(e, polled.executor, d.correlation)
    BY <1>2, <2>1, <2>2, <2>3, <2>5, <2>6, <2>7 DEF Freed
  <2> QED
    BY <2>1, <2>3, <2>10, <2>11 DEF polled
<1> QED
  BY <1>4, <1>5

\* A worker answers, dies or leaves: what the slots are busy with stays.
LEMMA WorkerKeeps ==
    ASSUME NEW e, NEW i \in Slots, NEW s \in SlotType, ExecutorIsSane(e),
           s.busy = e.slots[i].busy, SlotIsSane(s)
    PROVE  LET f == [e EXCEPT !.slots[i] = s]
           IN  /\ ExecutorIsSane(f)
               /\ \A j \in Slots : f.slots[j].busy = e.slots[j].busy
<1> DEFINE f == [e EXCEPT !.slots[i] = s]
<1>1. e \in ExecutorType
  BY DEF ExecutorIsSane
<1>2. /\ f \in ExecutorType
      /\ f.slots[i] = s
      /\ \A j \in Slots \ {i} : f.slots[j] = e.slots[j]
  BY <1>1 DEF ExecutorType
<1> HIDE DEF f
<1>3. ExecutorIsSane(f)
  BY <1>2 DEF ExecutorIsSane
<1>4. \A j \in Slots : f.slots[j].busy = e.slots[j].busy
  BY <1>2
<1> QED
  BY <1>3, <1>4 DEF f

LEMMA FinishKeeps ==
    ASSUME NEW e, NEW i \in Slots, NEW at \in Nat, ExecutorIsSane(e),
           NEW j \in e.slots[i].job, NEW outcome \in Outcomes(j.phase)
    PROVE  LET f == Finishes(e, i, outcome, at)
           IN  /\ ExecutorIsSane(f)
               /\ \A l \in Slots : f.slots[l].busy = e.slots[l].busy
<1> DEFINE answer(x) == [correlation |-> x.correlation, timely |-> at < x.deadline,
                         outcome |-> outcome]
           answers == {answer(x) : x \in e.slots[i].job}
           idle == [e.slots[i] EXCEPT !.job = {}]
           s == [idle EXCEPT !.done = answers]
<1>1. e \in ExecutorType /\ e.slots[i] \in SlotType /\ SlotIsSane(e.slots[i])
  BY DEF ExecutorIsSane, ExecutorType
<1>2. outcome \in {"Init", "Ready", "Warming", "Error"}
  BY DEF Outcomes
<1>3. ASSUME NEW x \in e.slots[i].job
      PROVE  answer(x) \in DoneType /\ answer(x).correlation = x.correlation
  BY <1>1, <1>2, <1>3 DEF SlotType, JobType, DoneType
<1> HIDE DEF answer
<1>4. answers \subseteq DoneType
      /\ \A d \in answers : \E x \in e.slots[i].job : d.correlation = x.correlation
  BY <1>3
<1>5. /\ idle \in SlotType /\ idle.busy = e.slots[i].busy /\ idle.job = {}
      /\ idle.done = e.slots[i].done
  BY <1>1 DEF SlotType
<1>6. Finishes(e, i, outcome, at) = [e EXCEPT !.slots[i] = s]
  <2>1. Finishes(e, i, outcome, at) =
          [e EXCEPT !.slots[i].job = {}, !.slots[i].done = answers]
    BY DEF Finishes, answer
  <2> HIDE DEF answers
  <2> QED
    BY <1>1, <2>1 DEF ExecutorType
<1> HIDE DEF answers, idle
<1>7. s \in SlotType /\ s.busy = idle.busy /\ s.job = {} /\ s.done = answers
  BY <1>4, <1>5 DEF SlotType
<1> HIDE DEF s
<1>8. SlotIsSane(s)
  BY <1>1, <1>4, <1>5, <1>7 DEF SlotIsSane
<1> QED
  BY <1>5, <1>6, <1>7, <1>8, WorkerKeeps

LEMMA PanicKeeps ==
    ASSUME NEW e, NEW i \in Slots, ExecutorIsSane(e)
    PROVE  LET f == Panics(e, i)
           IN  /\ ExecutorIsSane(f)
               /\ \A l \in Slots : f.slots[l].busy = e.slots[l].busy
<1> DEFINE idle == [e.slots[i] EXCEPT !.job = {}]
           s == [idle EXCEPT !.alive = FALSE]
<1>1. e \in ExecutorType /\ e.slots[i] \in SlotType /\ SlotIsSane(e.slots[i])
  BY DEF ExecutorIsSane, ExecutorType
<1>2. /\ idle \in SlotType /\ idle.busy = e.slots[i].busy /\ idle.job = {}
      /\ idle.done = e.slots[i].done
  BY <1>1 DEF SlotType
<1>3. Panics(e, i) = [e EXCEPT !.slots[i] = s]
  BY <1>1 DEF Panics, ExecutorType
<1> HIDE DEF idle
<1>4. s \in SlotType /\ s.busy = idle.busy /\ s.job = {} /\ s.done = idle.done
  BY <1>2 DEF SlotType
<1> HIDE DEF s
<1>5. SlotIsSane(s)
  BY <1>1, <1>2, <1>4 DEF SlotIsSane
<1> QED
  BY <1>2, <1>3, <1>4, <1>5, WorkerKeeps

LEMMA LeaveKeeps ==
    ASSUME NEW e, NEW i \in Slots, ExecutorIsSane(e), CanLeave(e, i)
    PROVE  LET f == Leaves(e, i)
           IN  /\ ExecutorIsSane(f)
               /\ \A l \in Slots : f.slots[l].busy = e.slots[l].busy
<1> DEFINE s == [e.slots[i] EXCEPT !.alive = FALSE]
<1>1. e \in ExecutorType /\ e.slots[i] \in SlotType /\ SlotIsSane(e.slots[i])
      /\ e.slots[i].job = {}
  BY DEF ExecutorIsSane, ExecutorType, CanLeave
<1>2. Leaves(e, i) = [e EXCEPT !.slots[i] = s]
  BY <1>1 DEF Leaves, ExecutorType
<1>3. /\ s \in SlotType /\ s.busy = e.slots[i].busy /\ s.job = {}
      /\ s.done = e.slots[i].done
  BY <1>1 DEF SlotType
<1> HIDE DEF s
<1>4. SlotIsSane(s)
  BY <1>1, <1>3 DEF SlotIsSane
<1> QED
  BY <1>2, <1>3, <1>4, WorkerKeeps

-----------------------------------------------------------------------------
(* The operations on the state record.                                     *)

\* Marks change nothing but the executor, which owes the same answers.
LEMMA MarkedStateIsSane ==
    ASSUME NEW st, NEW e, Sane(st), Marks(st.executor, e)
    PROVE  /\ Sane([st EXCEPT !.executor = e])
           /\ \A k : BusyWith(e, k) <=> BusyWith(st.executor, k)
<1> DEFINE f == [st EXCEPT !.executor = e]
<1>1. /\ f = [managed |-> f.managed, staged |-> f.staged, prepared |-> f.prepared,
              controlled |-> f.controlled, executor |-> f.executor]
      /\ f.managed = st.managed /\ f.staged = st.staged /\ f.prepared = st.prepared
      /\ f.controlled = st.controlled /\ f.executor = e
  BY DEF Sane
<1> HIDE DEF f
<1>2. /\ ExecutorIsSane(e)
      /\ StepsAreUnique(e, st.managed)
      /\ \A k : BusyWith(e, k) <=> BusyWith(st.executor, k)
  BY MarksAreSane DEF Sane
<1>3. \A k : IsAwaited(f, k) <=> IsAwaited(st, k)
  BY <1>1 DEF IsAwaited
<1>4. StrayIsCancelled(f)
  <2> SUFFICES ASSUME NEW i \in Slots, NEW b \in e.slots[i].busy, b.correlation.attempt > 0
               PROVE  IsAwaited(st, b.correlation) \/ b.cancelled
    BY <1>1, <1>3 DEF StrayIsCancelled
  <2>1. PICK d \in st.executor.slots[i].busy :
            b.correlation = d.correlation /\ (d.cancelled => b.cancelled)
    BY DEF Marks
  <2> QED
    BY <2>1 DEF Sane, StrayIsCancelled
<1>5. CandidatesAreSane(f)
  BY <1>1 DEF Sane, CandidatesAreSane
<1> QED
  BY <1>1, <1>2, <1>4, <1>5 DEF Sane, f

LEMMA FailedInstance ==
    ASSUME NEW c \in Components, NEW inst \in InstanceType, NEW at \in Nat
    PROVE  LET g == Failed(inst, at)
           IN  /\ g \in InstanceType
               /\ InstanceIsSane(c, g)
               /\ g.pending = {} /\ g.input = {} /\ g.state = "Failed"
               /\ g.generation = inst.generation /\ g.attempt = inst.attempt
               /\ \A s \in g.latest : ~s.good
<1> DEFINE g == Failed(inst, at)
<1>1. Unavailable(at) \in SampleType /\ ~Unavailable(at).good
  BY DEF Unavailable, SampleType
<1>2. /\ g \in InstanceType
      /\ g.pending = {} /\ g.input = {} /\ g.state = "Failed"
      /\ g.generation = inst.generation /\ g.attempt = inst.attempt
      /\ g.latest = {Unavailable(at)}
  <2> DEFINE latest == {Unavailable(at)}
  <2>1. latest \subseteq SampleType
    BY <1>1
  <2>2. g = [inst EXCEPT !.state = "Failed", !.pending = {}, !.input = {},
                         !.pendingAt = Never, !.latest = latest]
    BY DEF Failed
  <2> HIDE DEF latest, g
  <2>3. Never \in Int
    BY DEF Never
  <2>4. g \in InstanceType
    BY <2>1, <2>2, <2>3 DEF InstanceType
  <2>5. /\ g.pending = {} /\ g.input = {} /\ g.state = "Failed"
        /\ g.generation = inst.generation /\ g.attempt = inst.attempt
        /\ g.latest = latest
    BY <2>2 DEF InstanceType
  <2> QED
    BY <2>4, <2>5 DEF latest
<1> HIDE DEF g
<1>3. InstanceIsSane(c, g)
  BY <1>1, <1>2 DEF InstanceIsSane, PendingIsLast, AtMostOne
<1> QED
  BY <1>1, <1>2, <1>3 DEF g

LEMMA InputsAre ==
    /\ InputOf(Source) = {} /\ InputOf(Transform) = {Source}
    /\ Source # Transform
    /\ \A st : Dependents(st, Source) = DOMAIN st.managed \cap {Transform}
    /\ \A st : Dependents(st, Transform) = {}
<1>1. Source # Transform /\ InputOf(Source) = {} /\ InputOf(Transform) = {Source}
  BY DEF Source, Transform, InputOf
<1>2. \A d : Source \in InputOf(d) <=> d = Transform
  BY DEF InputOf
<1>3. \A d : Transform \notin InputOf(d)
  BY <1>1 DEF InputOf
<1> QED
  BY <1>1, <1>2, <1>3 DEF Dependents

\* Instances that are started over or failed, with all that rests on them, leave
\* a sane graph.
Untouched(m, g, hit) ==
    /\ DOMAIN g \subseteq Components
    /\ Transform \in DOMAIN g => Source \in DOMAIN g
    /\ Source \in hit /\ Transform \in DOMAIN g => Transform \in hit
    /\ \A d \in DOMAIN g :
          /\ InstanceIsSane(d, g[d])
          /\ d \notin hit => d \in DOMAIN m /\ g[d] = m[d]
          /\ d \in hit => g[d].input = {} /\ \A s \in g[d].latest : ~s.good

LEMMA GraphWhereFailed ==
    ASSUME NEW m, NEW g, NEW hit, GraphIsSane(m), Untouched(m, g, hit)
    PROVE  GraphIsSane(g)
<1>1. RestsOnSource(g)
  <2> SUFFICES ASSUME Transform \in DOMAIN g
               PROVE  /\ Source \in DOMAIN g
                      /\ \A x \in g[Transform].input : x.from = g[Source].generation
                      /\ \A s \in g[Transform].latest : s.good =>
                            \E t \in g[Source].latest :
                                /\ t.good
                                /\ t.freshness >= s.freshness
                                /\ s.from = {g[Source].generation}
    BY DEF RestsOnSource
  <2>1. Source \in DOMAIN g
    BY DEF Untouched
  <2>2. CASE Transform \in hit
    BY <2>1, <2>2 DEF Untouched
  <2>3. CASE Transform \notin hit
    <3>1. /\ Source \notin hit
          /\ g[Source] = m[Source] /\ g[Transform] = m[Transform]
          /\ Transform \in DOMAIN m
      BY <2>1, <2>3 DEF Untouched
    <3> QED
      BY <2>1, <3>1 DEF GraphIsSane, RestsOnSource
  <2> QED
    BY <2>2, <2>3
<1> QED
  BY <1>1 DEF GraphIsSane, Untouched

\* What no operation on instances and marks takes away from the candidates.
LEMMA CandidatesStay ==
    ASSUME NEW st, NEW f, CandidatesAreSane(st), f.staged \subseteq st.staged,
           DOMAIN f.prepared \subseteq DOMAIN st.prepared,
           \A c \in DOMAIN f.prepared : f.prepared[c] = st.prepared[c],
           DOMAIN f.managed = DOMAIN st.managed
    PROVE  CandidatesAreSane(f)
<1>1. \A s : StagedFits(s, st.managed) => StagedFits(s, f.managed)
  BY DEF StagedFits
<1> QED
  BY <1>1 DEF CandidatesAreSane, AtMostOne

\* fail_component.
Branch(st, c) == {c} \union Dependents(st, c)

LEMMA FailIsSane ==
    ASSUME NEW st, NEW c \in Components, NEW at \in Nat, Sane(st), c \in DOMAIN st.managed
    PROVE  LET f == FailComponent(st, c, at)
           IN  /\ Sane(f)
               /\ f.staged = st.staged /\ f.prepared = st.prepared
               /\ f.controlled = st.controlled \ Branch(st, c)
               /\ DOMAIN f.managed = DOMAIN st.managed
               /\ \A k : BusyWith(f.executor, k) <=> BusyWith(st.executor, k)
               /\ \A k : IsAwaited(f, k) => IsAwaited(st, k)
               /\ \A d \in DOMAIN st.managed :
                     d = c \/ f.managed[d] # st.managed[d] =>
                        f.managed[d].state = "Failed" /\ f.managed[d].pending = {}
<1> DEFINE hit == {c} \union Dependents(st, c)
           ks  == UNION {st.managed[d].pending : d \in hit}
           e   == TryCancel(st.executor, ks)
           m   == [d \in DOMAIN st.managed |-> IF d \in hit THEN Failed(st.managed[d], at)
                                               ELSE st.managed[d]]
           ct  == st.controlled \ hit
           f   == FailComponent(st, c, at)
<1>1. f = [st EXCEPT !.executor = e, !.managed = m, !.controlled = ct]
  BY DEF FailComponent
<1>2. /\ Marks(st.executor, e)
      /\ \A i \in Slots : \A b \in e.slots[i].busy : b.correlation \in ks => b.cancelled
  BY CancelMarks DEF Sane
<1>3. /\ DOMAIN st.managed \subseteq Components
      /\ \A d \in DOMAIN st.managed : st.managed[d] \in InstanceType /\ InstanceIsSane(d, st.managed[d])
  BY DEF Sane, GraphIsSane, InstanceIsSane
<1>4. /\ DOMAIN m = DOMAIN st.managed
      /\ \A d \in DOMAIN m :
            /\ InstanceIsSane(d, m[d])
            /\ d \notin hit => m[d] = st.managed[d]
            /\ m[d].generation = st.managed[d].generation
            /\ m[d].attempt = st.managed[d].attempt
            /\ d \in hit =>
                  /\ m[d].state = "Failed" /\ m[d].pending = {} /\ m[d].input = {}
                  /\ \A s \in m[d].latest : ~s.good
  BY <1>3, FailedInstance
<1>5. Source \in hit /\ Transform \in DOMAIN st.managed => Transform \in hit
  BY InputsAre DEF Components
<1>6. c \in hit /\ hit \subseteq DOMAIN st.managed
  BY DEF Dependents
<1>7. \A d \in hit : st.managed[d].pending \subseteq ks
  OBVIOUS
<1> HIDE DEF hit, m, e, ks
<1>8. /\ f = [managed |-> f.managed, staged |-> f.staged, prepared |-> f.prepared,
              controlled |-> f.controlled, executor |-> f.executor]
      /\ f.managed = m /\ f.staged = st.staged /\ f.prepared = st.prepared
      /\ f.controlled = ct /\ f.executor = e
  <2>1. st = [managed |-> st.managed, staged |-> st.staged, prepared |-> st.prepared,
              controlled |-> st.controlled, executor |-> st.executor]
    BY DEF Sane
  <2> HIDE DEF ct, f
  <2> QED
    BY <1>1, <2>1
<1> HIDE DEF f
<1>9. GraphIsSane(m)
  <2>1. Untouched(st.managed, m, hit)
    BY <1>3, <1>4, <1>5 DEF Untouched, Sane, GraphIsSane, RestsOnSource
  <2> QED
    BY <2>1, GraphWhereFailed DEF Sane
<1>10. /\ ExecutorIsSane(e)
       /\ StepsAreUnique(e, st.managed)
       /\ \A k : BusyWith(e, k) <=> BusyWith(st.executor, k)
  BY <1>2, MarksAreSane DEF Sane
<1>11. StepsAreUnique(e, m)
  <2>1. \A k : IsStepOf(st.managed, k) => IsStepOf(m, k)
    BY <1>4 DEF IsStepOf
  <2> QED
    BY <1>10, <2>1 DEF StepsAreUnique
<1>12. CandidatesAreSane(f)
  BY <1>4, <1>8, CandidatesStay DEF Sane
<1>13. ControlIsSane(m, ct)
  BY <1>4 DEF Sane, ControlIsSane
<1>14. \A k : IsAwaited(f, k) => IsAwaited(st, k)
  BY <1>4, <1>8 DEF IsAwaited
<1>15. \A k : IsAwaited(st, k) => IsAwaited(f, k) \/ k \in ks
  BY <1>4, <1>7, <1>8 DEF IsAwaited
<1>16. StrayIsCancelled(f)
  <2> SUFFICES ASSUME NEW i \in Slots, NEW b \in e.slots[i].busy, b.correlation.attempt > 0
               PROVE  IsAwaited(f, b.correlation) \/ b.cancelled
    BY <1>8 DEF StrayIsCancelled
  <2>1. PICK d \in st.executor.slots[i].busy :
            b.correlation = d.correlation /\ (d.cancelled => b.cancelled)
    BY <1>2 DEF Marks
  <2>2. IsAwaited(st, b.correlation) \/ b.cancelled
    BY <2>1 DEF Sane, StrayIsCancelled
  <2> QED
    BY <1>2, <1>15, <2>2
<1>17. Sane(f)
  BY <1>8, <1>9, <1>10, <1>11, <1>12, <1>13, <1>16 DEF Sane
<1>18. f.controlled = st.controlled \ Branch(st, c)
  BY <1>8 DEF hit, Branch
<1>19. \A d \in DOMAIN st.managed :
          d = c \/ f.managed[d] # st.managed[d] =>
             f.managed[d].state = "Failed" /\ f.managed[d].pending = {}
  BY <1>4, <1>6, <1>8
<1> QED
  BY <1>4, <1>8, <1>10, <1>14, <1>17, <1>18, <1>19 DEF f

LEMMA FreshInstance ==
    ASSUME NEW c \in Components, NEW generation \in Nat, NEW retained \in SUBSET SampleType,
           AtMostOne(retained), \A s \in retained : ~s.good
    PROVE  LET g == [Instance(generation) EXCEPT !.latest = retained]
           IN  /\ g \in InstanceType
               /\ InstanceIsSane(c, g)
               /\ g.pending = {} /\ g.input = {} /\ g.generation = generation
               /\ g.latest = retained
<1> DEFINE g == [Instance(generation) EXCEPT !.latest = retained]
<1>1. Instance(generation) \in InstanceType
  BY DEF Instance, InstanceType, Never
<1>2. Instance(generation).pending = {} /\ Instance(generation).input = {}
      /\ Instance(generation).generation = generation
  BY DEF Instance
<1>3. /\ g \in InstanceType
      /\ g.pending = {} /\ g.input = {} /\ g.generation = generation
      /\ g.latest = retained
  BY <1>1, <1>2 DEF InstanceType
<1> HIDE DEF g
<1>4. InstanceIsSane(c, g)
  BY <1>3 DEF InstanceIsSane, PendingIsLast, AtMostOne
<1> QED
  BY <1>3, <1>4 DEF g

LEMMA Retained ==
    ASSUME NEW S, NEW at \in Nat, AtMostOne(S)
    PROVE  LET latest == {Unavailable(at) : x \in S}
           IN  latest \in SUBSET SampleType /\ AtMostOne(latest) /\ \A s \in latest : ~s.good
<1>1. Unavailable(at) \in SampleType /\ ~Unavailable(at).good
  BY DEF Unavailable, SampleType
<1> QED
  BY <1>1 DEF AtMostOne

LEMMA QuietedInstance ==
    ASSUME NEW c \in Components, NEW inst \in InstanceType, NEW at \in Nat,
           AtMostOne(inst.latest)
    PROVE  LET g == Quieted(inst, at)
           IN  /\ g \in InstanceType
               /\ InstanceIsSane(c, g)
               /\ g.pending = {} /\ g.input = {}
               /\ g.generation = inst.generation /\ g.attempt = inst.attempt
               /\ \A s \in g.latest : ~s.good
<1> DEFINE g == Quieted(inst, at)
           latest == {Unavailable(at) : x \in inst.latest}
<1>1. latest \in SUBSET SampleType /\ AtMostOne(latest) /\ \A s \in latest : ~s.good
  BY Retained
<1>2. g = [inst EXCEPT !.state = "Failed", !.pending = {}, !.input = {},
                       !.pendingAt = Never, !.latest = latest]
  BY DEF Quieted
<1> HIDE DEF latest, g
<1>3. Never \in Int
  BY DEF Never
<1>4. g \in InstanceType
  BY <1>1, <1>2, <1>3 DEF InstanceType
<1>5. /\ g.pending = {} /\ g.input = {} /\ g.state = "Failed"
      /\ g.generation = inst.generation /\ g.attempt = inst.attempt
      /\ g.latest = latest
  BY <1>2 DEF InstanceType
<1>6. InstanceIsSane(c, g)
  BY <1>1, <1>4, <1>5 DEF InstanceIsSane, PendingIsLast, AtMostOne
<1> QED
  BY <1>1, <1>4, <1>5, <1>6 DEF g

\* commit_staged.  A staged install has been taken from the slot before.
LEMMA CommitStagedIsSane ==
    ASSUME NEW st, NEW s, NEW at \in Nat, Sane(st), StagedFits(s, st.managed),
           st.staged = {} \/ s.replaces
    PROVE  LET f == CommitStaged(st, s, at)
           IN  /\ Sane(f)
               /\ f.staged = st.staged /\ f.prepared = st.prepared
               /\ DOMAIN st.managed \subseteq DOMAIN f.managed
               /\ s.replaces => DOMAIN f.managed = DOMAIN st.managed
               /\ \A k : BusyWith(f.executor, k) <=> BusyWith(st.executor, k)
               /\ \A k : IsAwaited(f, k) => IsAwaited(st, k)
<1> DEFINE c == s.component
           D == DOMAIN st.managed
           generation == s.correlation.generation
           downstream == IF s.replaces THEN Dependents(st, c) ELSE {}
           replaced == IF s.replaces THEN {c} ELSE {}
           retained == UNION {{Unavailable(at) : x \in st.managed[d].latest} : d \in replaced}
           fenced == UNION {st.managed[d].pending : d \in replaced \union downstream}
           e == TryCancel(st.executor, fenced)
           ct == st.controlled \ (replaced \union downstream)
           m == [d \in {c} \union D |->
                    IF d = c THEN [Instance(generation) EXCEPT !.latest = retained]
                    ELSE IF d \in downstream THEN Quieted(st.managed[d], at) ELSE st.managed[d]]
           f == CommitStaged(st, s, at)
<1>1. CASE ~StagedIsCurrent(st, s)
  BY <1>1 DEF CommitStaged
<1>2. CASE StagedIsCurrent(st, s)
  <2>1. f = [st EXCEPT !.executor = e, !.controlled = ct, !.managed = m]
    BY <1>2 DEF CommitStaged
  <2>2. /\ c \in Components /\ generation \in Nat
        /\ s.replaces <=> c \in D
        /\ InputOf(c) \subseteq D
        /\ s.replaces => generation = st.managed[c].generation + 1
    BY <1>2 DEF StagedFits, StagedType, CorrelationType, StagedIsCurrent
  <2>3. /\ D \subseteq Components
        /\ \A d \in D : /\ st.managed[d] \in InstanceType
                        /\ InstanceIsSane(d, st.managed[d])
                        /\ AtMostOne(st.managed[d].latest)
    BY DEF Sane, GraphIsSane, InstanceIsSane
  <2>4. /\ Marks(st.executor, e)
        /\ \A i \in Slots : \A b \in e.slots[i].busy : b.correlation \in fenced => b.cancelled
    BY CancelMarks DEF Sane
  <2>5. /\ downstream \subseteq D \ {c}
        /\ c = Source /\ s.replaces => downstream = D \cap {Transform}
    BY InputsAre, <2>2 DEF Dependents, Components
  <2>6. retained \in SUBSET SampleType /\ AtMostOne(retained) /\ \A x \in retained : ~x.good
    <3>1. CASE s.replaces
      <4>1. retained = {Unavailable(at) : x \in st.managed[c].latest}
        BY <3>1
      <4> DEFINE S == st.managed[c].latest
                 latest == {Unavailable(at) : x \in S}
      <4>2. AtMostOne(S)
        BY <2>2, <2>3, <3>1
      <4>3. latest \in SUBSET SampleType /\ AtMostOne(latest) /\ \A x \in latest : ~x.good
        BY <4>2, Retained
      <4>4. retained = latest
        BY <4>1
      <4> HIDE DEF retained, latest
      <4> QED
        BY <4>3, <4>4
    <3>2. CASE ~s.replaces
      BY <3>2 DEF AtMostOne
    <3> QED
      BY <3>1, <3>2
  <2>7. \A d \in replaced \union downstream : st.managed[d].pending \subseteq fenced
    OBVIOUS
  <2>8. s.replaces => replaced = {c}
    OBVIOUS
  <2>9. ~s.replaces => downstream = {} /\ replaced = {}
    OBVIOUS
  <2> HIDE DEF downstream, replaced, retained, fenced, e
  <2>10. /\ DOMAIN m = {c} \union D
         /\ m[c] \in InstanceType /\ InstanceIsSane(c, m[c])
         /\ m[c].pending = {} /\ m[c].input = {} /\ m[c].generation = generation
         /\ \A x \in m[c].latest : ~x.good
    <3>1. DOMAIN m = {c} \union D /\ m[c] = [Instance(generation) EXCEPT !.latest = retained]
      OBVIOUS
    <3> HIDE DEF m
    <3> QED
      BY <2>2, <2>6, <3>1, FreshInstance
  <2>11. \A d \in downstream :
            /\ m[d] \in InstanceType /\ InstanceIsSane(d, m[d])
            /\ m[d].pending = {} /\ m[d].input = {}
            /\ m[d].generation = st.managed[d].generation
            /\ m[d].attempt = st.managed[d].attempt
            /\ \A x \in m[d].latest : ~x.good
    BY <2>3, <2>5, QuietedInstance
  <2>12. \A d \in D \ (downstream \union {c}) : m[d] = st.managed[d]
    OBVIOUS
  <2> HIDE DEF m
  <2>13. /\ f = [managed |-> f.managed, staged |-> f.staged, prepared |-> f.prepared,
                 controlled |-> f.controlled, executor |-> f.executor]
         /\ f.managed = m /\ f.staged = st.staged /\ f.prepared = st.prepared
         /\ f.controlled = ct /\ f.executor = e
    <3>1. st = [managed |-> st.managed, staged |-> st.staged, prepared |-> st.prepared,
                controlled |-> st.controlled, executor |-> st.executor]
      BY DEF Sane
    <3> HIDE DEF ct, f
    <3> QED
      BY <2>1, <3>1
  <2> HIDE DEF f
  <2>14. GraphIsSane(m)
    <3> DEFINE hit == {c} \union downstream
    <3>1. Transform \in DOMAIN m => Source \in DOMAIN m
      BY <2>2, <2>10, InputsAre DEF Sane, GraphIsSane, RestsOnSource, Components
    <3>2. Source \in hit /\ Transform \in DOMAIN m => Transform \in hit
      <4> SUFFICES ASSUME Source \in hit, Transform \in DOMAIN m
                   PROVE  Transform \in hit
        OBVIOUS
      <4>1. CASE c = Transform
        BY <4>1
      <4>2. CASE c = Source
        BY <2>2, <2>5, <2>10, <4>2, InputsAre DEF Sane, GraphIsSane, RestsOnSource
      <4> QED
        BY <2>2, <4>1, <4>2 DEF Components
    <3>3. \A d \in DOMAIN m :
             /\ InstanceIsSane(d, m[d])
             /\ d \notin hit => d \in D /\ m[d] = st.managed[d]
             /\ d \in hit => m[d].input = {} /\ \A x \in m[d].latest : ~x.good
      BY <2>3, <2>10, <2>11, <2>12
    <3>4. Untouched(st.managed, m, hit)
      BY <2>2, <2>3, <2>10, <3>1, <3>2, <3>3 DEF Untouched
    <3> QED
      BY <3>4, GraphWhereFailed DEF Sane
  <2>15. /\ ExecutorIsSane(e)
         /\ StepsAreUnique(e, st.managed)
         /\ \A k : BusyWith(e, k) <=> BusyWith(st.executor, k)
    BY <2>4, MarksAreSane DEF Sane
  <2>16. StepsAreUnique(e, m)
    <3>1. ASSUME NEW k \in CorrelationType, IsStepOf(st.managed, k)
          PROVE  IsStepOf(m, k)
      <4>1. k.component \in D /\ k.generation \in Nat
        BY <3>1 DEF IsStepOf, CorrelationType
      <4>2. CASE k.component = c
        <5>1. /\ st.managed[c].generation \in Nat
              /\ generation = st.managed[c].generation + 1
              /\ k.generation <= st.managed[c].generation
          BY <2>2, <2>3, <3>1, <4>1, <4>2 DEF InstanceType, IsStepOf
        <5> QED
          BY <2>10, <4>1, <4>2, <5>1 DEF IsStepOf
      <4>3. CASE k.component # c
        <5>1. /\ m[k.component].generation = st.managed[k.component].generation
              /\ m[k.component].attempt = st.managed[k.component].attempt
          BY <2>11, <2>12, <4>1, <4>3
        <5> QED
          BY <2>10, <3>1, <4>1, <5>1 DEF IsStepOf
      <4> QED
        BY <4>2, <4>3
    <3>2. \A i \in Slots : \A b \in e.slots[i].busy : b.correlation \in CorrelationType
      BY <2>15 DEF ExecutorIsSane, ExecutorType, SlotType, BusyType
    <3> QED
      BY <2>15, <3>1, <3>2 DEF StepsAreUnique
  <2>17. CandidatesAreSane(f)
    <3>1. ASSUME NEW x, StagedFits(x, st.managed), x.replaces
          PROVE  StagedFits(x, m)
      BY <2>10, <3>1 DEF StagedFits
    <3>2. ASSUME NEW x, StagedFits(x, st.managed), s.replaces
          PROVE  StagedFits(x, m)
      BY <2>2, <2>10, <3>2 DEF StagedFits
    <3> QED
      BY <2>13, <3>1, <3>2 DEF Sane, CandidatesAreSane
  <2>18. ControlIsSane(m, ct)
    BY <2>2, <2>8, <2>10, <2>12 DEF Sane, ControlIsSane
  <2>19. \A k : IsAwaited(f, k) => IsAwaited(st, k)
    BY <2>10, <2>11, <2>12, <2>13 DEF IsAwaited
  <2>20. \A k : IsAwaited(st, k) => IsAwaited(f, k) \/ k \in fenced
    BY <2>2, <2>7, <2>8, <2>10, <2>12, <2>13 DEF IsAwaited
  <2>21. StrayIsCancelled(f)
    <3> SUFFICES ASSUME NEW i \in Slots, NEW b \in e.slots[i].busy,
                        b.correlation.attempt > 0
                 PROVE  IsAwaited(f, b.correlation) \/ b.cancelled
      BY <2>13 DEF StrayIsCancelled
    <3>1. PICK d \in st.executor.slots[i].busy :
              b.correlation = d.correlation /\ (d.cancelled => b.cancelled)
      BY <2>4 DEF Marks
    <3>2. IsAwaited(st, b.correlation) \/ b.cancelled
      BY <3>1 DEF Sane, StrayIsCancelled
    <3> QED
      BY <2>4, <2>20, <3>2
  <2>22. Sane(f)
    BY <2>13, <2>14, <2>15, <2>16, <2>17, <2>18, <2>21 DEF Sane
  <2> QED
    BY <2>2, <2>10, <2>13, <2>15, <2>19, <2>22 DEF f
<1> QED
  BY <1>1, <1>2

\* The result of a step, for the observation it derives from.
Sample(inst, outcome, at, sourceAt) ==
    IF outcome = "Ready" THEN Good(at, sourceAt, {x.from : x \in inst.input})
    ELSE Unavailable(at)

LEMMA PublishedInstance ==
    ASSUME NEW c \in Components, NEW inst, InstanceIsSane(c, inst),
           NEW k \in inst.pending, NEW outcome, NEW at \in Nat, StepIsValid(inst, outcome),
           \A x \in inst.input : at - x.freshness < MaxInputAge
    PROVE  LET g == Published(inst, outcome, at)
           IN  /\ g \in InstanceType
               /\ InstanceIsSane(c, g)
               /\ g.pending = {} /\ g.input = {}
               /\ g.generation = inst.generation /\ g.attempt = inst.attempt
               /\ \E sourceAt \in Int :
                     /\ g.latest = {Sample(inst, outcome, at, sourceAt)}
                     /\ inst.input = {} => sourceAt = inst.pendingAt
                     /\ \A x \in inst.input : sourceAt = x.freshness
<1> DEFINE sourceAt == IF inst.input = {} THEN inst.pendingAt
                       ELSE (CHOOSE x \in inst.input : TRUE).freshness
           from == {x.from : x \in inst.input}
           sample == IF outcome = "Ready" THEN Good(at, sourceAt, from) ELSE Unavailable(at)
           latest == {sample}
           steps == IF inst.goodSteps < Warmup THEN inst.goodSteps + 1 ELSE inst.goodSteps
           g == Published(inst, outcome, at)
<1>1. /\ inst \in InstanceType /\ inst.input \subseteq InputType /\ AtMostOne(inst.input)
      /\ InputOf(c) = {} => inst.input = {} /\ inst.pendingAt > inst.lastObservation
      /\ InputOf(c) # {} => inst.input # {}
      /\ outcome \in {"Ready", "Warming"}
  BY DEF InstanceIsSane, PendingIsLast, InstanceType, StepIsValid
<1>2. /\ sourceAt \in Int
      /\ inst.input = {} => sourceAt = inst.pendingAt
      /\ \A x \in inst.input : sourceAt = x.freshness
  <2>1. CASE inst.input = {}
    BY <1>1, <2>1 DEF InstanceType
  <2>2. CASE inst.input # {}
    <3>1. (CHOOSE x \in inst.input : TRUE) \in inst.input
      BY <2>2
    <3> QED
      BY <1>1, <2>2, <3>1 DEF InputType, AtMostOne
  <2> QED
    BY <2>1, <2>2
<1>3. from \in SUBSET Nat
  BY <1>1 DEF InputType
<1>4. g = [inst EXCEPT !.latest = latest, !.revision = inst.revision + 1,
                       !.goodSteps = steps, !.state = outcome,
                       !.pending = {}, !.input = {}, !.pendingAt = Never,
                       !.lastService = at, !.lastObservation = sourceAt]
  BY DEF Published
<1> HIDE DEF sourceAt, from, g
<1>5. /\ sample \in SampleType
      /\ sample.good => /\ outcome = "Ready" /\ sample.at = at
                        /\ sample.freshness = sourceAt /\ sample.from = from
  BY <1>1, <1>2, <1>3 DEF Good, Unavailable, SampleType
<1>6. /\ latest \in SUBSET SampleType
      /\ AtMostOne(latest)
      /\ \A s \in latest : s = sample
  BY <1>5 DEF AtMostOne
<1>7. steps \in Int /\ Never \in Int /\ inst.revision + 1 \in Nat
  BY <1>1 DEF InstanceType, Never
<1>8. latest = {Sample(inst, outcome, at, sourceAt)}
  BY DEF from, Sample
<1> HIDE DEF sample, latest, steps
<1>9. g \in InstanceType
  <2>1. g = [generation |-> inst.generation, revision |-> inst.revision + 1,
             attempt |-> inst.attempt, state |-> outcome, goodSteps |-> steps,
             lastService |-> at, lastObservation |-> sourceAt,
             pending |-> {}, input |-> {}, pendingAt |-> Never, latest |-> latest]
    BY <1>1, <1>4 DEF InstanceType
  <2>2. /\ inst.generation \in Nat /\ inst.attempt \in Nat
        /\ outcome \in {"Warming", "Ready", "Failed"} /\ at \in Int
    BY <1>1 DEF InstanceType
  <2> QED
    BY <1>2, <1>6, <1>7, <2>1, <2>2 DEF InstanceType
<1>10. /\ g.latest = latest /\ g.state = outcome /\ g.pending = {} /\ g.input = {}
       /\ g.generation = inst.generation /\ g.attempt = inst.attempt
       /\ g.lastObservation = sourceAt
  BY <1>1, <1>4 DEF InstanceType
<1>11. InstanceIsSane(c, g)
  <2>1. PendingIsLast(c, g) /\ AtMostOne(g.latest) /\ AtMostOne(g.input)
    BY <1>6, <1>10 DEF PendingIsLast, AtMostOne
  <2>2. ASSUME NEW s \in g.latest, s.good
        PROVE  /\ g.state = "Ready"
               /\ InputOf(c) # {} => s.at - s.freshness < MaxInputAge
               /\ InputOf(c) = {} => s.freshness <= g.lastObservation
    <3>1. s = sample /\ outcome = "Ready" /\ s.at = at /\ s.freshness = sourceAt
      BY <1>5, <1>6, <1>10, <2>2
    <3>2. InputOf(c) # {} => at - sourceAt < MaxInputAge
      BY <1>1, <1>2
    <3> QED
      BY <1>2, <1>10, <3>1, <3>2
  <2> QED
    BY <1>9, <1>10, <2>1, <2>2 DEF InstanceIsSane
<1> QED
  BY <1>2, <1>8, <1>9, <1>10, <1>11 DEF g

\* commit_step, for an answer whose slot is free already.
LEMMA CommitStepIsSane ==
    ASSUME NEW st, NEW done \in DoneType, NEW at \in Nat, Sane(st),
           done.correlation.attempt > 0 => ~BusyWith(st.executor, done.correlation)
    PROVE  LET f == CommitStep(st, done, at)
           IN  /\ Sane(f)
               /\ f.staged = st.staged /\ f.prepared = st.prepared
               /\ \A k : BusyWith(f.executor, k) <=> BusyWith(st.executor, k)
               /\ \A k : IsAwaited(f, k) => IsAwaited(st, k)
               /\ \A c \in DOMAIN f.managed : done.correlation \notin f.managed[c].pending
               /\ (\A c \in DOMAIN st.managed : st.managed[c].pending = {}) => f = st
<1> DEFINE k == done.correlation
           c == k.component
           inst == st.managed[c]
           D == DOMAIN st.managed
           accepted == /\ done.timely
                       /\ InputStillHolds(st, inst, c, at)
                       /\ StepIsValid(inst, done.outcome)
                       /\ \A s \in inst.latest : s.at < at
           stale == \/ c \notin D
                    \/ inst.pending # {k}
                    \/ inst.generation # k.generation
                    \/ inst.revision # k.revision
                    \/ inst.state = "Failed"
           f == CommitStep(st, done, at)
<1>1. f = IF stale THEN st
          ELSE IF ~accepted THEN FailComponent(st, c, at)
          ELSE [st EXCEPT !.managed[c] = Published(inst, done.outcome, at)]
  BY DEF CommitStep
<1>2. k \in CorrelationType /\ c \in Components
  BY DEF DoneType, CorrelationType
<1>3. /\ D \subseteq Components
      /\ \A d \in D : /\ InstanceIsSane(d, st.managed[d])
                      /\ PendingIsLast(d, st.managed[d])
                      /\ st.managed[d] \in InstanceType
  BY DEF Sane, GraphIsSane, InstanceIsSane
<1>4. ASSUME NEW d \in D, NEW x \in st.managed[d].pending
      PROVE  /\ x = Correlation(d, st.managed[d].generation, st.managed[d].attempt,
                                st.managed[d].revision)
             /\ x.component = d
             /\ x.generation = st.managed[d].generation
             /\ x.revision = st.managed[d].revision
             /\ x.attempt > 0
             /\ st.managed[d].pending = {x}
             /\ st.managed[d].state # "Failed"
  BY <1>3 DEF PendingIsLast, Correlation, AtMostOne
<1> HIDE DEF accepted, f
<1>5. CASE stale
  <2>1. \A d \in D : k \notin st.managed[d].pending
    BY <1>4, <1>5
  <2>2. f = st
    BY <1>1, <1>5
  <2> HIDE DEF k
  <2> QED
    BY <2>1, <2>2 DEF f, k
<1>6. CASE ~stale /\ ~accepted
  <2>1. f = FailComponent(st, c, at) /\ c \in D /\ k \in inst.pending
    BY <1>1, <1>6
  <2>2. \A d \in D : k \in st.managed[d].pending => d = c
    BY <1>4
  <2>3. inst.pending # {}
    BY <2>1
  <2> HIDE DEF c
  <2>4. /\ Sane(f)
        /\ f.staged = st.staged /\ f.prepared = st.prepared
        /\ DOMAIN f.managed = D
        /\ \A x : BusyWith(f.executor, x) <=> BusyWith(st.executor, x)
        /\ \A x : IsAwaited(f, x) => IsAwaited(st, x)
        /\ \A d \in D : d = c \/ f.managed[d] # st.managed[d] =>
                f.managed[d].state = "Failed" /\ f.managed[d].pending = {}
    <3> DEFINE g == FailComponent(st, c, at)
    <3>1. c \in DOMAIN st.managed /\ c \in Components
      BY <1>2, <2>1
    <3>2. /\ Sane(g)
          /\ g.staged = st.staged /\ g.prepared = st.prepared
          /\ DOMAIN g.managed = D
          /\ \A x : BusyWith(g.executor, x) <=> BusyWith(st.executor, x)
          /\ \A x : IsAwaited(g, x) => IsAwaited(st, x)
          /\ \A d \in D : d = c \/ g.managed[d] # st.managed[d] =>
                g.managed[d].state = "Failed" /\ g.managed[d].pending = {}
      BY <3>1, FailIsSane
    <3> HIDE DEF g
    <3>3. f = g
      BY <2>1 DEF g
    <3> QED
      BY <3>2, <3>3
  <2>5. \A d \in DOMAIN f.managed : k \notin f.managed[d].pending
    BY <2>2, <2>4
  <2> QED
    BY <2>1, <2>3, <2>4, <2>5 DEF f
<1>7. CASE ~stale /\ accepted
  <2> DEFINE outcome == done.outcome
             new == Published(inst, outcome, at)
             m == [st.managed EXCEPT ![c] = new]
  <2>1. f = [st EXCEPT !.managed[c] = new] /\ c \in D /\ k \in inst.pending
    BY <1>1, <1>7
  <2>2. /\ \A x \in inst.input : at - x.freshness < MaxInputAge
        /\ \A x \in inst.input : \A i \in InputOf(c) : \E s \in st.managed[i].latest :
              s.good /\ s.freshness >= x.freshness
        /\ StepIsValid(inst, outcome)
    BY <1>7 DEF accepted, InputStillHolds
  <2> HIDE DEF new
  <2>3. /\ new \in InstanceType /\ InstanceIsSane(c, new)
        /\ new.pending = {} /\ new.input = {}
        /\ new.generation = inst.generation /\ new.attempt = inst.attempt
        /\ \E sourceAt \in Int :
              /\ new.latest = {Sample(inst, outcome, at, sourceAt)}
              /\ inst.input = {} => sourceAt = inst.pendingAt
              /\ \A x \in inst.input : sourceAt = x.freshness
    <3> HIDE DEF k, outcome
    <3>1. InstanceIsSane(c, inst)
      BY <1>3, <2>1
    <3>2. k \in inst.pending
      BY <2>1
    <3>3. StepIsValid(inst, outcome) /\ \A x \in inst.input : at - x.freshness < MaxInputAge
      BY <2>2
    <3> HIDE DEF inst, c
    <3>4. c \in Components
      BY <1>2
    <3> QED
      BY <3>1, <3>2, <3>3, <3>4, PublishedInstance DEF new
  <2>4. PICK sourceAt \in Int :
           /\ new.latest = {Sample(inst, outcome, at, sourceAt)}
           /\ inst.input = {} => sourceAt = inst.pendingAt
           /\ \A x \in inst.input : sourceAt = x.freshness
    BY <2>3
  <2>5. ASSUME NEW s \in inst.latest, s.good
        PROVE  outcome = "Ready" /\ inst.state = "Ready"
    BY <1>3, <2>1, <2>2, <2>5 DEF InstanceIsSane, StepIsValid
  <2>6. outcome = "Ready" => \E t \in new.latest :
            t.good /\ t.freshness = sourceAt /\ t.from = {x.from : x \in inst.input}
    BY <2>4 DEF Sample, Good
  <2>7. \A t \in new.latest : t.good =>
            /\ t.freshness = sourceAt
            /\ t.from = {x.from : x \in inst.input}
    BY <2>4 DEF Sample, Good, Unavailable
  <2>8. /\ DOMAIN m = D /\ m[c] = new
        /\ \A d \in D \ {c} : m[d] = st.managed[d]
    BY <2>1
  <2>9. /\ f = [managed |-> f.managed, staged |-> f.staged, prepared |-> f.prepared,
                controlled |-> f.controlled, executor |-> f.executor]
        /\ f.managed = m /\ f.staged = st.staged /\ f.prepared = st.prepared
        /\ f.controlled = st.controlled /\ f.executor = st.executor
    <3>1. st = [managed |-> st.managed, staged |-> st.staged, prepared |-> st.prepared,
                controlled |-> st.controlled, executor |-> st.executor]
      BY DEF Sane
    <3> QED
      BY <2>1, <3>1
  <2> HIDE DEF m
  <2>10. RestsOnSource(m)
    <3> SUFFICES ASSUME Transform \in D
                 PROVE  /\ \A x \in m[Transform].input : x.from = m[Source].generation
                        /\ \A s \in m[Transform].latest : s.good =>
                              \E t \in m[Source].latest :
                                  /\ t.good
                                  /\ t.freshness >= s.freshness
                                  /\ s.from = {m[Source].generation}
      BY <2>8 DEF RestsOnSource, Sane, GraphIsSane
    <3>1. /\ Source \in D
          /\ \A x \in st.managed[Transform].input : x.from = st.managed[Source].generation
          /\ \A s \in st.managed[Transform].latest : s.good =>
                \E t \in st.managed[Source].latest :
                    /\ t.good
                    /\ t.freshness >= s.freshness
                    /\ s.from = {st.managed[Source].generation}
      BY DEF Sane, GraphIsSane, RestsOnSource
    <3>2. CASE c = Source
      <4>1. /\ m[Source] = new /\ m[Transform] = st.managed[Transform]
            /\ new.generation = st.managed[Source].generation
        BY <2>3, <2>8, <3>2, InputsAre
      <4>2. /\ inst.input = {} /\ sourceAt = inst.pendingAt
            /\ inst.pendingAt > inst.lastObservation
            /\ inst.pendingAt \in Int /\ inst.lastObservation \in Int
        BY <1>3, <2>1, <2>4, <3>2, InputsAre DEF InstanceIsSane, PendingIsLast, InstanceType
      <4>3. ASSUME NEW s \in st.managed[Transform].latest, s.good
            PROVE  \E t \in new.latest :
                      t.good /\ t.freshness >= s.freshness /\ s.from = {new.generation}
        <5>1. PICK t \in inst.latest : /\ t.good /\ t.freshness >= s.freshness
                                       /\ s.from = {inst.generation}
          BY <3>1, <3>2, <4>3
        <5>2. /\ t.freshness <= inst.lastObservation
              /\ t.freshness \in Int /\ s.freshness \in Int
          BY <1>3, <2>1, <3>1, <3>2, <5>1, InputsAre
             DEF InstanceIsSane, InstanceType, SampleType
        <5>3. PICK y \in new.latest : y.good /\ y.freshness = sourceAt
          BY <2>5, <2>6, <5>1
        <5>4. y.freshness >= s.freshness
          BY <4>2, <5>1, <5>2, <5>3
        <5> QED
          BY <2>3, <5>1, <5>3, <5>4
      <4> QED
        BY <3>1, <4>1, <4>3
    <3>3. CASE c = Transform
      <4>1. m[Transform] = new /\ m[Source] = st.managed[Source]
        BY <2>8, <3>1, <3>3, InputsAre
      <4>2. PICK x \in inst.input : TRUE
        BY <1>3, <2>1, <3>3, InputsAre DEF PendingIsLast
      <4>3. inst.input = {x} /\ x.from = st.managed[Source].generation
        BY <1>3, <2>1, <3>1, <3>3, <4>2 DEF InstanceIsSane, AtMostOne
      <4>4. {y.from : y \in inst.input} = {st.managed[Source].generation}
        BY <4>3
      <4>5. \E t \in st.managed[Source].latest : t.good /\ t.freshness >= x.freshness
        BY <2>2, <3>3, <4>2, InputsAre
      <4>6. sourceAt = x.freshness
        BY <2>4, <4>2
      <4> QED
        BY <2>3, <2>7, <4>1, <4>4, <4>5, <4>6
    <3> QED
      BY <1>2, <3>2, <3>3 DEF Components
  <2>11. GraphIsSane(m)
    BY <1>3, <2>3, <2>8, <2>10 DEF GraphIsSane
  <2>12. StepsAreUnique(st.executor, m)
    <3>1. \A x : IsStepOf(st.managed, x) => IsStepOf(m, x)
      BY <2>3, <2>8 DEF IsStepOf
    <3> QED
      BY <3>1 DEF Sane, StepsAreUnique
  <2>13. CandidatesAreSane(f)
    BY <2>8, <2>9, CandidatesStay DEF Sane
  <2>14. ControlIsSane(m, st.controlled)
    <3>1. ASSUME NEW s \in inst.latest, s.good
          PROVE  \E t \in new.latest : t.good
      BY <2>5, <2>6, <3>1
    <3> QED
      BY <2>8, <3>1 DEF Sane, ControlIsSane
  <2>15. \A x : IsAwaited(f, x) => IsAwaited(st, x)
    BY <2>3, <2>8, <2>9 DEF IsAwaited
  <2>16. \A x : IsAwaited(st, x) => IsAwaited(f, x) \/ x = k
    <3> HIDE DEF k
    <3>1. inst.pending = {k}
      BY <1>4, <2>1
    <3> QED
      BY <2>8, <2>9, <3>1 DEF IsAwaited
  <2>17. StrayIsCancelled(f)
    <3> SUFFICES ASSUME NEW i \in Slots, NEW b \in st.executor.slots[i].busy,
                        b.correlation.attempt > 0
                 PROVE  IsAwaited(f, b.correlation) \/ b.cancelled
      BY <2>9 DEF StrayIsCancelled
    <3>1. IsAwaited(st, b.correlation) \/ b.cancelled
      BY DEF Sane, StrayIsCancelled
    <3>2. b.correlation # k
      BY DEF BusyWith
    <3> QED
      BY <2>16, <3>1, <3>2
  <2>18. Sane(f)
    BY <2>9, <2>11, <2>12, <2>13, <2>14, <2>17 DEF Sane
  <2>19. \A d \in DOMAIN f.managed : k \notin f.managed[d].pending
    BY <1>4, <2>3, <2>8, <2>9
  <2>20. st.managed[c].pending # {}
    BY <2>1
  <2> QED
    BY <2>1, <2>9, <2>15, <2>18, <2>19, <2>20 DEF f
<1> QED
  BY <1>5, <1>6, <1>7

-----------------------------------------------------------------------------
(* poll_components.                                                        *)

\* `f` follows from `st`: the slots owe the same answers, no more are awaited.
Carried(st, f) ==
    /\ Sane(f)
    /\ \A k : BusyWith(f.executor, k) <=> BusyWith(st.executor, k)
    /\ \A k : IsAwaited(f, k) => IsAwaited(st, k)
    /\ Stopped(st) => Stopped(f)

LEMMA CarriedOn ==
    ASSUME NEW st, NEW f, NEW g, Carried(st, f), Carried(f, g)
    PROVE  Carried(st, g)
  BY DEF Carried

LEMMA StillOwed ==
    ASSUME NEW st, NEW f, Carried(st, f), OwedBut(st, {})
    PROVE  OwedBut(f, {})
  BY DEF Carried, OwedBut

LEMMA MarksItself ==
    ASSUME NEW e, ExecutorIsSane(e)
    PROVE  Marks(e, e)
  BY DEF Marks, ExecutorIsSane, SlotIsSane

\* `f` is `st` with fewer candidates and other marks.
Fewer(st, f) ==
    /\ f = [managed |-> f.managed, staged |-> f.staged, prepared |-> f.prepared,
            controlled |-> f.controlled, executor |-> f.executor]
    /\ f.managed = st.managed /\ f.controlled = st.controlled
    /\ f.staged = st.staged \/ f.staged = {}
    /\ DOMAIN f.prepared \subseteq DOMAIN st.prepared
    /\ \A c \in DOMAIN f.prepared : f.prepared[c] = st.prepared[c]
    /\ Marks(st.executor, f.executor)

LEMMA FewerIsCarried ==
    ASSUME NEW st, NEW f, Sane(st), Fewer(st, f)
    PROVE  Carried(st, f)
<1>1. /\ ExecutorIsSane(f.executor)
      /\ StepsAreUnique(f.executor, f.managed)
      /\ \A k : BusyWith(f.executor, k) <=> BusyWith(st.executor, k)
  BY MarksAreSane DEF Sane, Fewer
<1>2. CandidatesAreSane(f)
  BY CandidatesStay DEF Sane, Fewer
<1>3. \A k : IsAwaited(f, k) => IsAwaited(st, k)
  BY DEF IsAwaited, Fewer
<1>4. StrayIsCancelled(f)
  <2> SUFFICES ASSUME NEW i \in Slots, NEW b \in f.executor.slots[i].busy,
                      b.correlation.attempt > 0
               PROVE  IsAwaited(f, b.correlation) \/ b.cancelled
    BY DEF StrayIsCancelled
  <2>1. PICK d \in st.executor.slots[i].busy :
            b.correlation = d.correlation /\ (d.cancelled => b.cancelled)
    BY DEF Fewer, Marks
  <2>2. IsAwaited(st, b.correlation) \/ b.cancelled
    BY <2>1 DEF Sane, StrayIsCancelled
  <2>3. \A s \in st.staged : s.correlation # b.correlation
    <3> SUFFICES ASSUME NEW s \in st.staged, s.correlation = b.correlation
                 PROVE  FALSE
      OBVIOUS
    <3>1. s.correlation.attempt = 0
      BY DEF Sane, CandidatesAreSane, StagedFits
    <3> QED
      BY <3>1
  <2> QED
    BY <2>2, <2>3 DEF IsAwaited, Fewer
<1>5. Sane(f)
  BY <1>1, <1>2, <1>4 DEF Sane, Fewer
<1>6. Stopped(st) => Stopped(f)
  BY DEF Stopped, Fewer
<1> QED
  BY <1>1, <1>3, <1>5, <1>6 DEF Carried

LEMMA FailIsCarried ==
    ASSUME NEW st, NEW c \in Components, NEW at \in Nat, Sane(st), c \in DOMAIN st.managed
    PROVE  /\ Carried(st, FailComponent(st, c, at))
           /\ DOMAIN FailComponent(st, c, at).managed = DOMAIN st.managed
<1> DEFINE f == FailComponent(st, c, at)
<1>1. /\ Sane(f)
      /\ f.staged = st.staged /\ f.prepared = st.prepared
      /\ f.controlled = st.controlled \ Branch(st, c)
      /\ DOMAIN f.managed = DOMAIN st.managed
      /\ \A k : BusyWith(f.executor, k) <=> BusyWith(st.executor, k)
      /\ \A k : IsAwaited(f, k) => IsAwaited(st, k)
      /\ \A d \in DOMAIN st.managed : d = c \/ f.managed[d] # st.managed[d] =>
            f.managed[d].state = "Failed" /\ f.managed[d].pending = {}
  BY FailIsSane
<1> HIDE DEF f
<1>2. Stopped(st) => Stopped(f)
  BY <1>1 DEF Stopped
<1> QED
  BY <1>1, <1>2 DEF Carried, f

\* The staged Init past its deadline is dropped.
LEMMA DropIsCarried ==
    ASSUME NEW st, NEW at \in Nat, Sane(st)
    PROVE  Carried(st, DropExpiredStaged(st, at))
<1> DEFINE f == DropExpiredStaged(st, at)
<1>1. CASE f = st
  BY <1>1 DEF Carried
<1>2. CASE f # st
  <2> DEFINE k == (CHOOSE s \in st.staged : TRUE).correlation
             x == TryExpire(st.executor, k, at)
             e == TryCancel(x, {k})
  <2>1. f = [st EXCEPT !.staged = {}, !.executor = e]
    BY <1>2 DEF DropExpiredStaged
  <2>2. Marks(st.executor, x)
    BY ExpireMarks DEF Sane
  <2>3. ExecutorIsSane(x)
    BY <2>2, MarksAreSane DEF Sane
  <2>4. Marks(x, e)
    BY <2>3, CancelMarks
  <2> HIDE DEF x, e, k, f
  <2>5. Marks(st.executor, e)
    BY <2>2, <2>4 DEF Marks
  <2>6. Fewer(st, f)
    <3>1. st = [managed |-> st.managed, staged |-> st.staged, prepared |-> st.prepared,
                controlled |-> st.controlled, executor |-> st.executor]
      BY DEF Sane
    <3> QED
      BY <2>1, <2>5, <3>1 DEF Fewer
  <2> QED
    BY <2>6, FewerIsCarried DEF f
<1> QED
  BY <1>1, <1>2

\* Every pending step past its deadline is expired, then its component fails.
LEMMA FailExpiredIsCarried ==
    ASSUME NEW st, NEW at \in Nat, Sane(st)
    PROVE  Carried(st, FailExpired(st, at))
<1> DEFINE expire(s, c) ==
               IF c \in Expired(st, at)
               THEN [s EXCEPT !.executor =
                        TryExpire(@, CHOOSE p \in st.managed[c].pending : TRUE, at)]
               ELSE s
           fail(s, c) == IF c \in Expired(st, at) THEN FailComponent(s, c, at) ELSE s
           s1 == expire(st, Source)
           s2 == expire(s1, Transform)
           s3 == fail(s2, Source)
           s4 == fail(s3, Transform)
<1>1. FailExpired(st, at) = s4
  BY DEF FailExpired
<1>2. ASSUME NEW s, NEW c, Sane(s)
      PROVE  Carried(s, expire(s, c)) /\ expire(s, c).managed = s.managed
  <2> DEFINE k == CHOOSE p \in st.managed[c].pending : TRUE
             e == TryExpire(s.executor, k, at)
             f == [s EXCEPT !.executor = e]
  <2>1. Marks(s.executor, e)
    BY <1>2, ExpireMarks DEF Sane
  <2>2. expire(s, c) = f \/ expire(s, c) = s
    OBVIOUS
  <2>3. s = [managed |-> s.managed, staged |-> s.staged, prepared |-> s.prepared,
             controlled |-> s.controlled, executor |-> s.executor]
    BY <1>2 DEF Sane
  <2> HIDE DEF e, expire
  <2>4. Fewer(s, f)
    BY <2>1, <2>3 DEF Fewer
  <2>5. Carried(s, f) /\ f.managed = s.managed
    BY <1>2, <2>4, FewerIsCarried DEF Fewer
  <2>6. Carried(s, s)
    BY <1>2 DEF Carried
  <2> QED
    BY <2>2, <2>5, <2>6
<1>3. ASSUME NEW s, NEW c \in Components, Sane(s), DOMAIN s.managed = DOMAIN st.managed
      PROVE  Carried(s, fail(s, c)) /\ DOMAIN fail(s, c).managed = DOMAIN st.managed
  <2>1. CASE c \in Expired(st, at)
    <3>1. c \in DOMAIN s.managed
      BY <1>3, <2>1 DEF Expired
    <3>2. fail(s, c) = FailComponent(s, c, at)
      BY <2>1
    <3> QED
      BY <1>3, <3>1, <3>2, FailIsCarried
  <2>2. CASE c \notin Expired(st, at)
    BY <1>3, <2>2 DEF Carried
  <2> QED
    BY <2>1, <2>2
<1>4. Source \in Components /\ Transform \in Components
  BY DEF Components
<1> HIDE DEF expire, fail
<1>5. Carried(st, s1) /\ s1.managed = st.managed
  BY <1>2
<1>6. Carried(s1, s2) /\ s2.managed = st.managed
  <2> HIDE DEF s1
  <2> QED
    BY <1>2, <1>5 DEF Carried
<1>7. Carried(s2, s3) /\ DOMAIN s3.managed = DOMAIN st.managed
  <2> HIDE DEF s2, s1
  <2> QED
    BY <1>3, <1>4, <1>6 DEF Carried
<1>8. Carried(s3, s4)
  <2> HIDE DEF s3, s2, s1
  <2> QED
    BY <1>3, <1>4, <1>7 DEF Carried
<1> QED
  <2> HIDE DEF s1, s2, s3, s4
  <2> QED
    BY <1>1, <1>5, <1>6, <1>7, <1>8, CarriedOn

\* A slot is free: nobody else is busy with its step.
LEMMA FreedIsSane ==
    ASSUME NEW st, NEW e, NEW k, Sane(st), OwedBut(st, {}),
           ExecutorIsSane(e), Freed(st.executor, e, k)
    PROVE  LET f == [st EXCEPT !.executor = e]
           IN  /\ Sane(f)
               /\ f.executor = e
               /\ OwedBut(f, {k})
               /\ k.attempt > 0 => ~BusyWith(e, k)
               /\ Stopped(st) => Stopped(f)
               /\ f.staged = st.staged
<1> DEFINE f == [st EXCEPT !.executor = e]
<1>1. /\ f = [managed |-> f.managed, staged |-> f.staged, prepared |-> f.prepared,
              controlled |-> f.controlled, executor |-> f.executor]
      /\ f.managed = st.managed /\ f.staged = st.staged /\ f.prepared = st.prepared
      /\ f.controlled = st.controlled /\ f.executor = e
  BY DEF Sane
<1> HIDE DEF f
<1>2. PICK i \in Slots :
          /\ \E b \in st.executor.slots[i].busy : b.correlation = k
          /\ e.slots[i].busy = {}
          /\ \A j \in Slots \ {i} : e.slots[j].busy = st.executor.slots[j].busy
  BY DEF Freed
<1>3. \A j \in Slots : e.slots[j].busy \subseteq st.executor.slots[j].busy
  BY <1>2
<1>4. StepsAreUnique(e, st.managed)
  BY <1>3 DEF Sane, StepsAreUnique
<1>5. \A x : IsAwaited(f, x) <=> IsAwaited(st, x)
  BY <1>1 DEF IsAwaited
<1>6. StrayIsCancelled(f)
  BY <1>1, <1>3, <1>5 DEF Sane, StrayIsCancelled
<1>7. CandidatesAreSane(f)
  BY <1>1 DEF Sane, CandidatesAreSane
<1>8. Sane(f)
  BY <1>1, <1>4, <1>6, <1>7 DEF Sane
<1>9. AtMostOne(st.executor.slots[i].busy)
  BY DEF Sane, ExecutorIsSane, SlotIsSane
<1>10. ASSUME NEW x, x # k, BusyWith(st.executor, x)
       PROVE  BusyWith(e, x)
  <2>1. PICK j \in Slots : \E b \in st.executor.slots[j].busy : b.correlation = x
    BY <1>10 DEF BusyWith
  <2>2. j # i
    BY <1>2, <1>9, <1>10, <2>1 DEF AtMostOne
  <2> QED
    BY <1>2, <2>1, <2>2 DEF BusyWith
<1>11. OwedBut(f, {k})
  BY <1>1, <1>5, <1>10 DEF OwedBut
<1>12. k.attempt > 0 => ~BusyWith(e, k)
  <2> SUFFICES ASSUME k.attempt > 0, NEW j \in Slots, NEW b \in e.slots[j].busy,
                      b.correlation = k
               PROVE  FALSE
    BY DEF BusyWith
  <2>1. j # i /\ b \in st.executor.slots[j].busy
    BY <1>2
  <2> QED
    BY <1>2, <2>1 DEF Sane, StepsAreUnique
<1>13. Stopped(st) => Stopped(f)
  BY <1>1 DEF Stopped
<1> QED
  BY <1>1, <1>8, <1>11, <1>12, <1>13 DEF f

\* The staged Init has its answer.
LEMMA StagedDoneIsSane ==
    ASSUME NEW st, NEW done \in DoneType, NEW at \in Nat, Sane(st),
           IsStaged(st, done), OwedBut(st, {done.correlation})
    PROVE  LET f == StagedDone(st, done, at)
           IN  Sane(f) /\ OwedBut(f, {})
<1> DEFINE s == CHOOSE x \in st.staged : TRUE
           k == done.correlation
           taken == [st EXCEPT !.staged = {}]
           pr == [d \in {s.component} \union DOMAIN taken.prepared |->
                     IF d = s.component THEN s ELSE taken.prepared[d]]
           kept == [taken EXCEPT !.prepared = pr]
           f == StagedDone(st, done, at)
<1>1. /\ f = taken \/ (s.prepareOnly /\ f = kept) \/ f = CommitStaged(taken, s, at)
  BY DEF StagedDone
<1>2. /\ s \in st.staged /\ s.correlation = k
      /\ StagedFits(s, st.managed)
  BY DEF IsStaged, Sane, CandidatesAreSane, AtMostOne
<1>3. /\ taken = [managed |-> taken.managed, staged |-> taken.staged,
                  prepared |-> taken.prepared, controlled |-> taken.controlled,
                  executor |-> taken.executor]
      /\ taken.managed = st.managed /\ taken.staged = {} /\ taken.prepared = st.prepared
      /\ taken.controlled = st.controlled /\ taken.executor = st.executor
  BY DEF Sane
<1> HIDE DEF s, taken, pr, f
<1>4. Carried(st, taken)
  <2>1. Marks(st.executor, st.executor)
    BY MarksItself DEF Sane
  <2>2. Fewer(st, taken)
    BY <1>3, <2>1 DEF Fewer
  <2> QED
    BY <2>2, FewerIsCarried
<1>5. ~IsAwaited(taken, k)
  <2>1. k.attempt = 0
    BY <1>2 DEF StagedFits
  <2>2. ASSUME NEW c \in DOMAIN st.managed, NEW x \in st.managed[c].pending
        PROVE  x.attempt > 0
    BY DEF Sane, GraphIsSane, InstanceIsSane, PendingIsLast, Correlation
  <2> QED
    BY <1>3, <2>1, <2>2 DEF IsAwaited
<1>6. Sane(taken) /\ OwedBut(taken, {})
  BY <1>4, <1>5 DEF Carried, OwedBut
<1>7. CASE f = taken
  BY <1>6, <1>7 DEF f
<1>8. CASE s.prepareOnly /\ f = kept
  <2>1. /\ f = [managed |-> f.managed, staged |-> f.staged, prepared |-> f.prepared,
                controlled |-> f.controlled, executor |-> f.executor]
        /\ f.managed = taken.managed /\ f.staged = {} /\ f.prepared = pr
        /\ f.controlled = taken.controlled /\ f.executor = taken.executor
    BY <1>3, <1>8
  <2>2. CandidatesAreSane(f)
    <3>1. s.replaces
      BY <1>2, <1>8 DEF StagedFits
    <3>2. DOMAIN pr = {s.component} \union DOMAIN st.prepared
      BY <1>3 DEF pr
    <3>3. \A c \in DOMAIN pr : pr[c] = IF c = s.component THEN s ELSE st.prepared[c]
      BY <1>3 DEF pr
    <3>4. \A c \in DOMAIN st.prepared :
             /\ st.prepared[c].component = c
             /\ st.prepared[c].replaces
             /\ StagedFits(st.prepared[c], st.managed)
      BY DEF Sane, CandidatesAreSane
    <3> QED
      BY <1>2, <1>3, <2>1, <3>1, <3>2, <3>3, <3>4 DEF CandidatesAreSane, AtMostOne
  <2>3. \A x : IsAwaited(f, x) <=> IsAwaited(taken, x)
    BY <1>3, <2>1 DEF IsAwaited
  <2>4. Sane(f)
    BY <1>6, <2>1, <2>2, <2>3 DEF Sane, StrayIsCancelled
  <2>5. OwedBut(f, {})
    BY <1>6, <2>1, <2>3 DEF OwedBut
  <2> QED
    BY <2>4, <2>5 DEF f
<1>9. CASE f = CommitStaged(taken, s, at)
  <2>1. /\ Sane(f)
        /\ \A x : BusyWith(f.executor, x) <=> BusyWith(taken.executor, x)
        /\ \A x : IsAwaited(f, x) => IsAwaited(taken, x)
    BY <1>2, <1>3, <1>6, <1>9, CommitStagedIsSane
  <2> QED
    BY <1>6, <2>1 DEF OwedBut, f
<1> QED
  BY <1>1, <1>7, <1>8, <1>9

\* At most one completion is taken, and what it answers is no longer awaited.
LEMMA TakeIsSane ==
    ASSUME NEW st, NEW at \in Nat, Sane(st), OwedBut(st, {})
    PROVE  LET f == TakeCompletion(st, at)
           IN  Sane(f) /\ OwedBut(f, {}) /\ (Stopped(st) => Stopped(f))
<1> DEFINE polled == TryPoll(st.executor, at)
           e == polled.executor
           after == [st EXCEPT !.executor = e]
           done == CHOOSE d \in polled.completion : TRUE
           k == done.correlation
           f == TakeCompletion(st, at)
<1>1. f = IF polled.completion = {} THEN after
          ELSE IF IsStaged(after, done) THEN StagedDone(after, done, at)
          ELSE CommitStep(after, done, at)
  BY DEF TakeCompletion
<1>2. /\ ExecutorIsSane(e)
      /\ polled.completion = {} => Marks(st.executor, e)
      /\ \A d \in polled.completion : d \in DoneType /\ Freed(st.executor, e, d.correlation)
  BY PollFrees DEF Sane
<1>3. polled.completion # {} => done \in polled.completion
  OBVIOUS
<1> HIDE DEF done, e, polled, f
<1>4. CASE polled.completion = {}
  <2>1. f = after
    BY <1>1, <1>4
  <2>2. Fewer(st, after)
    <3>1. st = [managed |-> st.managed, staged |-> st.staged, prepared |-> st.prepared,
                controlled |-> st.controlled, executor |-> st.executor]
      BY DEF Sane
    <3>2. Marks(st.executor, e)
      BY <1>2, <1>4
    <3> QED
      BY <3>1, <3>2 DEF Fewer
  <2>3. Carried(st, f)
    BY <2>1, <2>2, FewerIsCarried
  <2> QED
    BY <2>3, StillOwed DEF Carried, f
<1>5. CASE polled.completion # {}
  <2>1. done \in DoneType /\ Freed(st.executor, e, k)
    BY <1>2, <1>3, <1>5
  <2>2. /\ Sane(after)
        /\ after.executor = e
        /\ OwedBut(after, {k})
        /\ k.attempt > 0 => ~BusyWith(e, k)
        /\ Stopped(st) => Stopped(after)
        /\ after.staged = st.staged
    BY <1>2, <2>1, FreedIsSane
  <2> HIDE DEF after
  <2>3. CASE IsStaged(after, done)
    <3>1. f = StagedDone(after, done, at)
      BY <1>1, <1>5, <2>3
    <3>2. Sane(f) /\ OwedBut(f, {})
      BY <2>1, <2>2, <2>3, <3>1, StagedDoneIsSane
    <3>3. ~Stopped(st)
      BY <2>2, <2>3 DEF Stopped, IsStaged
    <3> QED
      BY <3>2, <3>3 DEF f
  <2>4. CASE ~IsStaged(after, done)
    <3>1. f = CommitStep(after, done, at)
      BY <1>1, <1>5, <2>4
    <3>2. /\ Sane(f)
          /\ f.staged = after.staged /\ f.prepared = after.prepared
          /\ \A x : BusyWith(f.executor, x) <=> BusyWith(after.executor, x)
          /\ \A x : IsAwaited(f, x) => IsAwaited(after, x)
          /\ \A c \in DOMAIN f.managed : k \notin f.managed[c].pending
          /\ (\A c \in DOMAIN after.managed : after.managed[c].pending = {}) => f = after
      BY <2>1, <2>2, <3>1, CommitStepIsSane
    <3>3. ~IsAwaited(f, k)
      BY <2>4, <3>2 DEF IsAwaited, IsStaged
    <3>4. OwedBut(f, {})
      BY <2>2, <3>2, <3>3 DEF OwedBut
    <3>5. Stopped(st) => Stopped(f)
      BY <2>2, <3>2 DEF Stopped
    <3> QED
      BY <3>2, <3>4, <3>5 DEF f
  <2> QED
    BY <2>3, <2>4
<1> QED
  BY <1>4, <1>5

LEMMA PolledIsSane ==
    ASSUME NEW st, NEW at \in Nat, Sane(st), OwedBut(st, {})
    PROVE  LET f == Polled(st, at)
           IN  Sane(f) /\ OwedBut(f, {}) /\ (Stopped(st) => Stopped(f))
<1> DEFINE dropped == DropExpiredStaged(st, at)
           ready == FailExpired(dropped, at)
           once == TakeCompletion(ready, at)
           f == Polled(st, at)
<1>1. f = once \/ f = TakeCompletion(once, at)
  BY DEF Polled
<1>2. Carried(st, dropped)
  BY DropIsCarried
<1> HIDE DEF dropped, f
<1>3. Carried(dropped, ready)
  BY <1>2, FailExpiredIsCarried DEF Carried
<1> HIDE DEF ready
<1>4. Sane(ready) /\ OwedBut(ready, {}) /\ (Stopped(st) => Stopped(ready))
  BY <1>2, <1>3, StillOwed DEF Carried
<1>5. Sane(once) /\ OwedBut(once, {}) /\ (Stopped(ready) => Stopped(once))
  BY <1>4, TakeIsSane
<1> HIDE DEF once
<1>6. LET g == TakeCompletion(once, at)
      IN  Sane(g) /\ OwedBut(g, {}) /\ (Stopped(once) => Stopped(g))
  BY <1>5, TakeIsSane
<1> QED
  BY <1>1, <1>4, <1>5, <1>6 DEF f

-----------------------------------------------------------------------------
(* The actions.                                                            *)

LEMMA StateBecomes ==
    ASSUME NEW st, Sane(st), Becomes(st)
    PROVE  State' = st
  BY DEF Sane, Becomes, State

LEMMA StateFields ==
    /\ State = [managed |-> State.managed, staged |-> State.staged,
                prepared |-> State.prepared, controlled |-> State.controlled,
                executor |-> State.executor]
    /\ State.managed = managed /\ State.staged = staged /\ State.prepared = prepared
    /\ State.controlled = controlled /\ State.executor = executor
  BY DEF State

LEMMA StateFieldsNext ==
    /\ State' = [managed |-> State'.managed, staged |-> State'.staged,
                 prepared |-> State'.prepared, controlled |-> State'.controlled,
                 executor |-> State'.executor]
    /\ State'.managed = managed' /\ State'.staged = staged' /\ State'.prepared = prepared'
    /\ State'.controlled = controlled' /\ State'.executor = executor'
  BY DEF State

\* A step whose new state follows from the old one.
LEMMA CarriedInv ==
    ASSUME IInv, Carried(State, State'), now' = now, quiesced' = quiesced
    PROVE  IInv'
  BY StillOwed DEF IInv, Carried

\* The slots other than the one that was given `k` are as they were.
LEMMA GivenSlots ==
    ASSUME NEW e, NEW f, NEW k, Given(e, f, k)
    PROVE  /\ \A i \in Slots : \A b \in f.slots[i].busy :
                 b \in e.slots[i].busy \/ b.correlation = k
           /\ \A i, j \in Slots : \A b \in f.slots[i].busy, d \in f.slots[j].busy :
                 i # j => b \in e.slots[i].busy \/ d \in e.slots[j].busy
           /\ BusyWith(f, k)
           /\ \A x : BusyWith(e, x) => BusyWith(f, x)
<1>1. PICK i \in Slots :
          /\ e.slots[i].busy = {}
          /\ \E b \in f.slots[i].busy : b.correlation = k /\ f.slots[i].busy = {b}
          /\ \A j \in Slots \ {i} : f.slots[j].busy = e.slots[j].busy
  BY DEF Given
<1>2. \A j \in Slots : \A b \in f.slots[j].busy :
         b \in e.slots[j].busy \/ (j = i /\ b.correlation = k)
  BY <1>1
<1>3. \A x : BusyWith(e, x) => BusyWith(f, x)
  <2> SUFFICES ASSUME NEW x, NEW j \in Slots, NEW b \in e.slots[j].busy, b.correlation = x
               PROVE  BusyWith(f, x)
    BY DEF BusyWith
  <2>1. b \in f.slots[j].busy
    BY <1>1
  <2> QED
    BY <2>1 DEF BusyWith
<1>4. BusyWith(f, k)
  BY <1>1 DEF BusyWith
<1> QED
  BY <1>2, <1>3, <1>4

LEMMA StageKeeps ==
    ASSUME IInv, NEW c \in Components, NEW replaces \in BOOLEAN, NEW prepareOnly \in BOOLEAN,
           StageComponent(c, replaces, prepareOnly)
    PROVE  IInv'
<1> DEFINE generation == IF replaces THEN managed[c].generation + 1 ELSE 1
           revision == IF replaces THEN managed[c].revision ELSE 0
           k == Correlation(c, generation, 0, revision)
           submitted == TrySubmit(executor, k, "Init", now)
           s == [component |-> c, replaces |-> replaces, correlation |-> k,
                 prepareOnly |-> prepareOnly]
<1>1. /\ ~quiesced /\ staged = {}
      /\ prepareOnly => replaces
      /\ replaces <=> c \in DOMAIN managed
      /\ InputOf(c) \subseteq DOMAIN managed
      /\ executor' = submitted.executor
      /\ staged' = IF submitted.result = "Ok" THEN {s} ELSE {}
      /\ UNCHANGED <<now, managed, prepared, quiesced, controlled>>
  BY DEF StageComponent, DefinitionIsValid
<1>2. Sane(State) /\ OwedBut(State, {}) /\ now \in Nat
  BY DEF IInv
<1>3. k \in CorrelationType /\ k.component = c /\ k.attempt = 0
  <2>1. generation \in Nat /\ revision \in Nat
    BY <1>1, <1>2, StateFields DEF Sane, GraphIsSane, InstanceIsSane, InstanceType
  <2> HIDE DEF generation, revision
  <2> QED
    BY <2>1 DEF Correlation, CorrelationType
<1> HIDE DEF k
<1>4. /\ ExecutorIsSane(executor')
      /\ submitted.result # "Ok" => Marks(executor, executor')
      /\ submitted.result = "Ok" => Given(executor, executor', k)
  <2>1. ExecutorIsSane(executor)
    BY <1>2, StateFields DEF Sane
  <2> QED
    BY <1>1, <1>2, <1>3, <2>1, SubmitGives
<1> HIDE DEF submitted
<1>5. CASE submitted.result # "Ok"
  <2>1. Fewer(State, State')
    BY <1>1, <1>4, <1>5, StateFields, StateFieldsNext DEF Fewer
  <2> QED
    BY <1>1, <1>2, <2>1, FewerIsCarried, CarriedInv
<1>6. CASE submitted.result = "Ok"
  <2>1. /\ \A i \in Slots : \A b \in executor'.slots[i].busy :
              b \in executor.slots[i].busy \/ b.correlation = k
        /\ \A i, j \in Slots : \A b \in executor'.slots[i].busy, d \in executor'.slots[j].busy :
              i # j => b \in executor.slots[i].busy \/ d \in executor.slots[j].busy
        /\ BusyWith(executor', k)
        /\ \A x : BusyWith(executor, x) => BusyWith(executor', x)
    BY <1>4, <1>6, GivenSlots
  <2>2. staged' = {s} /\ s.correlation = k
    BY <1>1, <1>6
  <2>3. \A x : IsAwaited(State', x) <=> IsAwaited(State, x) \/ x = k
    BY <1>1, <2>2, StateFields, StateFieldsNext DEF IsAwaited
  <2>4. StepsAreUnique(executor', managed')
    <3>1. StepsAreUnique(executor, managed)
      BY <1>2, StateFields DEF Sane
    <3>2. ASSUME NEW i \in Slots, NEW b \in executor'.slots[i].busy, b.correlation.attempt > 0
          PROVE  b \in executor.slots[i].busy
      BY <1>3, <2>1, <3>2
    <3>3. \A i \in Slots : \A b \in executor'.slots[i].busy :
             b.correlation.attempt > 0 => IsStepOf(managed', b.correlation)
      BY <1>1, <3>1, <3>2 DEF StepsAreUnique
    <3>4. ASSUME NEW i \in Slots, NEW j \in Slots, NEW b \in executor'.slots[i].busy,
                 NEW d \in executor'.slots[j].busy, b.correlation.attempt > 0, i # j
          PROVE  b.correlation # d.correlation
      <4>1. CASE d.correlation.attempt > 0
        BY <3>1, <3>2, <3>4, <4>1 DEF StepsAreUnique
      <4>2. CASE ~(d.correlation.attempt > 0)
        BY <3>4, <4>2
      <4> QED
        BY <4>1, <4>2
    <3> QED
      BY <3>3, <3>4 DEF StepsAreUnique
  <2>5. CandidatesAreSane(State')
    <3>1. StagedFits(s, managed)
      BY <1>1, <1>3 DEF StagedFits, StagedType
    <3> QED
      BY <1>1, <1>2, <2>2, <3>1, StateFields, StateFieldsNext
         DEF Sane, CandidatesAreSane, AtMostOne
  <2>6. StrayIsCancelled(State')
    BY <1>2, <2>1, <2>3, StateFields, StateFieldsNext DEF Sane, StrayIsCancelled
  <2>7. Sane(State')
    BY <1>1, <1>2, <1>4, <2>4, <2>5, <2>6, StateFields, StateFieldsNext DEF Sane
  <2>8. OwedBut(State', {})
    BY <1>2, <2>1, <2>3, StateFields, StateFieldsNext DEF OwedBut
  <2> QED
    BY <1>1, <1>2, <2>7, <2>8 DEF IInv
<1> QED
  BY <1>5, <1>6

LEMMA FailStateKeeps ==
    ASSUME IInv, NEW c \in Components, c \in DOMAIN managed,
           Becomes(FailComponent(State, c, now)), now' = now, quiesced' = quiesced
    PROVE  IInv'
<1>1. Carried(State, FailComponent(State, c, now))
  BY FailIsCarried, StateFields DEF IInv
<1>2. State' = FailComponent(State, c, now)
  BY <1>1, StateBecomes DEF Carried
<1> QED
  BY <1>1, <1>2, CarriedInv

\* What an invocation captures of its input.
LEMMA CapturedInputs ==
    ASSUME NEW c \in Components, c \in DOMAIN managed, GraphIsSane(managed)
    PROVE  /\ Captured(c) \in SUBSET InputType
           /\ AtMostOne(Captured(c))
           /\ InputOf(c) = {} => Captured(c) = {}
           /\ c = Transform => \A x \in Captured(c) : x.from = managed[Source].generation
<1>1. CASE c = Source
  <2>1. Captured(c) = {}
    BY <1>1, InputsAre DEF Captured
  <2> QED
    BY <1>1, <2>1, InputsAre DEF AtMostOne
<1>2. CASE c = Transform
  <2> DEFINE young == {x \in managed[Source].latest : x.good /\ now - x.freshness < MaxInputAge}
             capture(s) == [freshness |-> s.freshness, from |-> managed[Source].generation]
  <2>1. Captured(c) = {capture(s) : s \in young}
    BY <1>2, InputsAre DEF Captured
  <2>2. /\ Source \in DOMAIN managed
        /\ managed[Source] \in InstanceType
        /\ AtMostOne(managed[Source].latest)
    BY <1>2 DEF GraphIsSane, RestsOnSource, InstanceIsSane
  <2>3. ASSUME NEW s \in young
        PROVE  capture(s) \in InputType /\ capture(s).from = managed[Source].generation
    BY <2>2 DEF InstanceType, SampleType, InputType
  <2>4. AtMostOne(young)
    BY <2>2 DEF AtMostOne
  <2> HIDE DEF young, capture
  <2> QED
    BY <1>2, <2>1, <2>3, <2>4, InputsAre DEF AtMostOne
<1> QED
  BY <1>1, <1>2 DEF Components

LEMMA InvokeKeeps ==
    ASSUME IInv, NEW c \in Components, InvokeComponent(c)
    PROVE  IInv'
<1> DEFINE inst == managed[c]
           input == Captured(c)
           observation == IF input = {} THEN now ELSE (CHOOSE x \in input : TRUE).freshness
           attempt == inst.attempt + 1
           k == Correlation(c, inst.generation, attempt, inst.revision)
           submitted == TrySubmit(executor, k, "Step", now)
           asked == {k}
           new == [inst EXCEPT !.attempt = attempt, !.pending = asked, !.input = input,
                               !.pendingAt = now]
<1>1. /\ c \in DOMAIN managed /\ ~quiesced
      /\ inst.state # "Failed" /\ inst.pending = {}
      /\ now' = now /\ quiesced' = quiesced
  BY DEF InvokeComponent
<1>2. /\ Sane(State) /\ OwedBut(State, {}) /\ now \in Nat
      /\ ExecutorIsSane(executor) /\ GraphIsSane(managed) /\ StepsAreUnique(executor, managed)
  BY StateFields DEF IInv, Sane
<1>3. CASE InputOf(c) # {} /\ input = {}
  <2>1. Becomes(FailComponent(State, c, now))
    BY <1>3 DEF InvokeComponent
  <2> QED
    BY <1>1, <2>1, FailStateKeeps
<1>4. CASE ~(InputOf(c) # {} /\ input = {})
  <2>1. /\ observation > inst.lastObservation
        /\ executor' = submitted.executor
        /\ managed' = IF submitted.result # "Ok" THEN managed
                      ELSE [managed EXCEPT ![c].attempt = attempt, ![c].pending = {k},
                                           ![c].input = input, ![c].pendingAt = now]
        /\ UNCHANGED <<staged, prepared, controlled>>
    BY <1>4 DEF InvokeComponent
  <2>2. /\ inst \in InstanceType /\ InstanceIsSane(c, inst)
    BY <1>1, <1>2 DEF GraphIsSane, InstanceIsSane
  <2>3. /\ k \in CorrelationType /\ k.component = c /\ k.attempt = attempt
        /\ k.generation = inst.generation
        /\ attempt \in Nat /\ attempt > 0
    BY <2>2 DEF InstanceType, Correlation, CorrelationType
  <2>4. /\ input \in SUBSET InputType
        /\ AtMostOne(input)
        /\ InputOf(c) = {} => input = {}
        /\ c = Transform => \A x \in input : x.from = managed[Source].generation
    BY <1>1, <1>2, CapturedInputs
  <2>5. InputOf(c) = {} => now > inst.lastObservation
    BY <2>1, <2>4
  <2>6. k = Correlation(c, inst.generation, attempt, inst.revision)
    OBVIOUS
  <2>7. managed' = IF submitted.result # "Ok" THEN managed ELSE [managed EXCEPT ![c] = new]
    <3> HIDE DEF k, input, submitted, attempt
    <3>1. [managed EXCEPT ![c].attempt = attempt, ![c].pending = {k},
                          ![c].input = input, ![c].pendingAt = now]
          = [managed EXCEPT ![c] = new]
      BY <1>1
    <3> QED
      BY <2>1, <3>1
  <2> HIDE DEF k, input, observation, attempt
  <2>8. /\ ExecutorIsSane(executor')
        /\ submitted.result # "Ok" => Marks(executor, executor')
        /\ submitted.result = "Ok" => Given(executor, executor', k)
    BY <1>2, <2>1, <2>3, SubmitGives
  <2> HIDE DEF submitted
  <2>9. CASE submitted.result # "Ok"
    <3>1. Fewer(State, State')
      BY <2>1, <2>7, <2>8, <2>9, StateFields, StateFieldsNext DEF Fewer
    <3> QED
      BY <1>1, <1>2, <3>1, FewerIsCarried, CarriedInv
  <2>10. CASE submitted.result = "Ok"
    <3>1. /\ \A i \in Slots : \A b \in executor'.slots[i].busy :
                b \in executor.slots[i].busy \/ b.correlation = k
          /\ \A i, j \in Slots : \A b \in executor'.slots[i].busy,
                                    d \in executor'.slots[j].busy :
                i # j => b \in executor.slots[i].busy \/ d \in executor.slots[j].busy
          /\ BusyWith(executor', k)
          /\ \A x : BusyWith(executor, x) => BusyWith(executor', x)
      BY <2>8, <2>10, GivenSlots
    <3>2. /\ DOMAIN managed' = DOMAIN managed /\ managed'[c] = new
          /\ \A d \in DOMAIN managed \ {c} : managed'[d] = managed[d]
      <4> HIDE DEF new
      <4> QED
        BY <1>1, <2>7, <2>10
    <3>3. /\ new \in InstanceType
          /\ new.attempt = attempt /\ new.pending = {k} /\ new.input = input
          /\ new.pendingAt = now /\ new.generation = inst.generation
          /\ new.revision = inst.revision /\ new.state = inst.state
          /\ new.latest = inst.latest /\ new.lastObservation = inst.lastObservation
      <4>1. new = [generation |-> inst.generation, revision |-> inst.revision,
                   attempt |-> attempt, state |-> inst.state, goodSteps |-> inst.goodSteps,
                   lastService |-> inst.lastService, lastObservation |-> inst.lastObservation,
                   pending |-> asked, input |-> input, pendingAt |-> now, latest |-> inst.latest]
        <5>1. inst \in InstanceType
          BY <2>2
        <5>2. new = [inst EXCEPT !.attempt = attempt, !.pending = asked, !.input = input,
                                 !.pendingAt = now]
          OBVIOUS
        <5> HIDE DEF inst, asked, new
        <5> QED
          BY <5>1, <5>2 DEF InstanceType
      <4>2. {k} \in SUBSET CorrelationType /\ now \in Int
        BY <1>2, <2>3
      <4> HIDE DEF new
      <4>3. new \in InstanceType
        BY <2>2, <2>3, <2>4, <4>1, <4>2 DEF InstanceType
      <4> QED
        BY <4>1, <4>3
    <3> HIDE DEF new
    <3>4. PendingIsLast(c, new)
      BY <1>1, <1>4, <2>3, <2>5, <2>6, <3>3 DEF PendingIsLast, AtMostOne
    <3>5. InstanceIsSane(c, new)
      BY <2>2, <2>4, <3>3, <3>4 DEF InstanceIsSane
    <3>6. RestsOnSource(managed')
      <4> SUFFICES ASSUME Transform \in DOMAIN managed
                   PROVE  /\ \A x \in managed'[Transform].input :
                                 x.from = managed'[Source].generation
                          /\ \A s \in managed'[Transform].latest : s.good =>
                                \E t \in managed'[Source].latest :
                                    /\ t.good
                                    /\ t.freshness >= s.freshness
                                    /\ s.from = {managed'[Source].generation}
        BY <1>2, <3>2 DEF RestsOnSource, GraphIsSane
      <4>1. /\ Source \in DOMAIN managed
            /\ \A x \in managed[Transform].input : x.from = managed[Source].generation
            /\ \A s \in managed[Transform].latest : s.good =>
                  \E t \in managed[Source].latest :
                      /\ t.good
                      /\ t.freshness >= s.freshness
                      /\ s.from = {managed[Source].generation}
        BY <1>2 DEF GraphIsSane, RestsOnSource
      <4>2. /\ managed'[Source].generation = managed[Source].generation
            /\ managed'[Source].latest = managed[Source].latest
            /\ managed'[Transform].latest = managed[Transform].latest
        BY <3>2, <3>3, <4>1
      <4>3. \A x \in managed'[Transform].input : x.from = managed[Source].generation
        <5>1. CASE c = Transform
          BY <2>4, <3>2, <3>3, <5>1
        <5>2. CASE c # Transform
          BY <3>2, <4>1, <5>2
        <5> QED
          BY <5>1, <5>2
      <4> QED
        BY <4>1, <4>2, <4>3
    <3>7. GraphIsSane(managed')
      BY <1>2, <3>2, <3>5, <3>6 DEF GraphIsSane
    <3>8. StepsAreUnique(executor', managed')
      <4>1. ASSUME NEW x, IsStepOf(managed, x), x.attempt \in Nat
            PROVE  IsStepOf(managed', x) /\ x # k
        <5>1. inst.attempt \in Nat /\ attempt = inst.attempt + 1
              /\ inst.generation \in Nat
          BY <2>2 DEF InstanceType, attempt
        <5>2. CASE x.component = c
          BY <2>3, <3>2, <3>3, <4>1, <5>1, <5>2 DEF IsStepOf
        <5>3. CASE x.component # c
          BY <2>3, <3>2, <4>1, <5>3 DEF IsStepOf
        <5> QED
          BY <5>2, <5>3
      <4>2. IsStepOf(managed', k)
        BY <1>1, <2>3, <3>2, <3>3 DEF IsStepOf
      <4>3. \A i \in Slots : \A b \in executor.slots[i].busy : b.correlation.attempt \in Nat
        BY <1>2 DEF ExecutorIsSane, ExecutorType, SlotType, BusyType, CorrelationType
      <4>4. \A i \in Slots : \A b \in executor'.slots[i].busy :
               b.correlation.attempt > 0 => IsStepOf(managed', b.correlation)
        BY <1>2, <3>1, <4>1, <4>2, <4>3 DEF StepsAreUnique
      <4>5. ASSUME NEW i \in Slots, NEW j \in Slots, NEW b \in executor'.slots[i].busy,
                   NEW d \in executor'.slots[j].busy, b.correlation.attempt > 0, i # j,
                   b.correlation = d.correlation
            PROVE  FALSE
        <5>1. CASE b \in executor.slots[i].busy /\ d \in executor.slots[j].busy
          BY <1>2, <4>5, <5>1 DEF StepsAreUnique
        <5>2. CASE b \in executor.slots[i].busy /\ d.correlation = k
          BY <1>2, <4>1, <4>3, <4>5, <5>2 DEF StepsAreUnique
        <5>3. CASE b.correlation = k /\ d \in executor.slots[j].busy
          BY <1>2, <4>1, <4>3, <4>5, <5>3 DEF StepsAreUnique
        <5> QED
          BY <3>1, <4>5, <5>1, <5>2, <5>3
      <4> QED
        BY <4>4, <4>5 DEF StepsAreUnique
    <3>9. \A x : IsAwaited(State', x) <=> IsAwaited(State, x) \/ x = k
      BY <1>1, <2>1, <3>2, <3>3, StateFields, StateFieldsNext DEF IsAwaited
    <3>10. CandidatesAreSane(State')
      BY <1>2, <2>1, <3>2, CandidatesStay, StateFields, StateFieldsNext DEF Sane
    <3>11. ControlIsSane(managed', controlled')
      BY <1>2, <2>1, <3>2, <3>3, StateFields DEF Sane, ControlIsSane
    <3>12. StrayIsCancelled(State')
      BY <1>2, <3>1, <3>9, StateFields, StateFieldsNext DEF Sane, StrayIsCancelled
    <3>13. Sane(State')
      BY <2>8, <3>7, <3>8, <3>10, <3>11, <3>12, StateFieldsNext DEF Sane
    <3>14. OwedBut(State', {})
      BY <1>2, <3>1, <3>9, StateFields, StateFieldsNext DEF OwedBut
    <3> QED
      BY <1>1, <1>2, <3>13, <3>14 DEF IInv
  <2> QED
    BY <2>9, <2>10
<1> QED
  BY <1>3, <1>4

LEMMA PollKeeps ==
    ASSUME IInv, PollComponents
    PROVE  IInv'
<1>1. LET f == Polled(State, now)
      IN  Sane(f) /\ OwedBut(f, {}) /\ (Stopped(State) => Stopped(f))
  BY PolledIsSane DEF IInv
<1>2. State' = Polled(State, now)
  BY <1>1, StateBecomes DEF PollComponents
<1> QED
  BY <1>1, <1>2 DEF IInv, PollComponents

\* A batch: each candidate is committed as a replacement, then leaves the prepared ones.
LEMMA RefreshedFits ==
    ASSUME NEW c \in DOMAIN prepared, NEW m, Sane(State), DOMAIN m = DOMAIN managed
    PROVE  StagedFits(Refreshed(c), m) /\ Refreshed(c).replaces
<1> DEFINE s == prepared[c]
           k == [s.correlation EXCEPT !.revision = managed[c].revision]
<1>1. /\ s \in StagedType /\ s.correlation \in CorrelationType
      /\ s.correlation.component = s.component /\ s.correlation.attempt = 0
      /\ s.component = c /\ s.replaces
      /\ c \in DOMAIN managed
      /\ s.prepareOnly => s.replaces
      /\ InputOf(c) \subseteq DOMAIN managed
  BY StateFields DEF Sane, CandidatesAreSane, StagedFits, StagedType
<1>2. managed[c].revision \in Nat
  BY <1>1, StateFields DEF Sane, GraphIsSane, InstanceIsSane, InstanceType
<1>3. k \in CorrelationType /\ k.component = c /\ k.attempt = 0
  BY <1>1, <1>2 DEF CorrelationType
<1>4. Refreshed(c) = [s EXCEPT !.correlation = k]
  BY <1>1 DEF Refreshed
<1> HIDE DEF s, k
<1>5. /\ Refreshed(c) \in StagedType
      /\ Refreshed(c).component = c /\ Refreshed(c).replaces
      /\ Refreshed(c).correlation = k
      /\ Refreshed(c).prepareOnly = s.prepareOnly
  BY <1>1, <1>3, <1>4 DEF StagedType
<1> QED
  BY <1>1, <1>3, <1>5 DEF StagedFits

LEMMA BatchKeeps ==
    ASSUME IInv, NEW batch \in Batches, CommitPrepared(batch)
    PROVE  IInv'
<1> DEFINE named == {batch[i] : i \in DOMAIN batch}
           first == CommitStaged(State, Refreshed(batch[1]), now)
           all   == IF Len(batch) = 1 THEN first
                    ELSE CommitStaged(first, Refreshed(batch[2]), now)
           pr == [c \in DOMAIN prepared \ named |-> prepared[c]]
           f == [all EXCEPT !.prepared = pr]
<1>1. /\ named \subseteq DOMAIN prepared
      /\ Becomes(f)
      /\ now' = now /\ quiesced' = quiesced
  BY DEF CommitPrepared
<1>2. Sane(State) /\ OwedBut(State, {}) /\ now \in Nat
  BY DEF IInv
<1>3. batch[1] \in DOMAIN prepared /\ (Len(batch) # 1 => batch[2] \in DOMAIN prepared)
  <2>1. 1 \in DOMAIN batch /\ (Len(batch) # 1 => 2 \in DOMAIN batch)
    BY DEF Batches
  <2> QED
    BY <1>1, <2>1
<1>4. /\ Sane(first)
      /\ first.staged = staged /\ first.prepared = prepared
      /\ DOMAIN first.managed = DOMAIN managed
      /\ \A k : BusyWith(first.executor, k) <=> BusyWith(executor, k)
      /\ \A k : IsAwaited(first, k) => IsAwaited(State, k)
  <2>1. StagedFits(Refreshed(batch[1]), State.managed) /\ Refreshed(batch[1]).replaces
    BY <1>2, <1>3, RefreshedFits, StateFields
  <2> QED
    BY <1>2, <2>1, CommitStagedIsSane, StateFields
<1>5. /\ Sane(all)
      /\ all.staged = staged /\ all.prepared = prepared
      /\ \A k : BusyWith(all.executor, k) <=> BusyWith(executor, k)
      /\ \A k : IsAwaited(all, k) => IsAwaited(State, k)
  <2>1. CASE Len(batch) = 1
    BY <1>4, <2>1
  <2>2. CASE Len(batch) # 1
    <3> DEFINE second == CommitStaged(first, Refreshed(batch[2]), now)
    <3>1. all = second
      BY <2>2
    <3>2. StagedFits(Refreshed(batch[2]), first.managed) /\ Refreshed(batch[2]).replaces
      <4> HIDE DEF first
      <4> QED
        BY <1>2, <1>3, <1>4, <2>2, RefreshedFits
    <3> HIDE DEF first
    <3>3. /\ Sane(second)
          /\ second.staged = first.staged /\ second.prepared = first.prepared
          /\ \A k : BusyWith(second.executor, k) <=> BusyWith(first.executor, k)
          /\ \A k : IsAwaited(second, k) => IsAwaited(first, k)
      BY <1>2, <1>4, <3>2, CommitStagedIsSane
    <3> HIDE DEF second, all
    <3> QED
      BY <1>4, <3>1, <3>3
  <2> QED
    BY <2>1, <2>2
<1> HIDE DEF all, first
<1>6. Fewer(all, f)
  <2>1. all = [managed |-> all.managed, staged |-> all.staged, prepared |-> all.prepared,
               controlled |-> all.controlled, executor |-> all.executor]
    BY <1>5 DEF Sane
  <2>2. Marks(all.executor, all.executor)
    BY <1>5, MarksItself DEF Sane
  <2>3. DOMAIN pr \subseteq DOMAIN prepared /\ \A c \in DOMAIN pr : pr[c] = prepared[c]
    OBVIOUS
  <2> HIDE DEF pr
  <2> QED
    BY <1>5, <2>1, <2>2, <2>3 DEF Fewer
<1>7. Carried(all, f)
  BY <1>5, <1>6, FewerIsCarried
<1> HIDE DEF f
<1>8. State' = f
  BY <1>1, <1>7, StateBecomes DEF Carried
<1>9. ~quiesced
  <2>1. DOMAIN prepared # {}
    BY <1>3
  <2> QED
    BY <2>1, StateFields DEF IInv, Stopped
<1>10. Sane(f) /\ OwedBut(f, {})
  BY <1>2, <1>5, <1>7, StateFields DEF Carried, OwedBut
<1> QED
  BY <1>1, <1>2, <1>8, <1>9, <1>10 DEF IInv

LEMMA DiscardKeeps ==
    ASSUME IInv, DiscardPrepared
    PROVE  IInv'
<1>1. Sane(State)
  BY DEF IInv
<1>2. Fewer(State, State')
  <2>1. Marks(executor, executor)
    BY <1>1, MarksItself, StateFields DEF Sane
  <2>2. DOMAIN prepared' = {}
    BY DEF DiscardPrepared
  <2> QED
    BY <2>1, <2>2, StateFields, StateFieldsNext DEF Fewer, DiscardPrepared
<1> QED
  BY <1>1, <1>2, FewerIsCarried, CarriedInv DEF DiscardPrepared

LEMMA QuiesceKeeps ==
    ASSUME IInv, QuiesceManaged
    PROVE  IInv'
<1> DEFINE fail(st, c) == IF c \in DOMAIN st.managed THEN FailComponent(st, c, now) ELSE st
           s0 == Unstaged(State)
           s1 == fail(s0, Source)
           s2 == fail(s1, Transform)
           f == [s2 EXCEPT !.executor = BeginShutdown(@)]
<1>1. Becomes(f) /\ now' = now /\ quiesced' = TRUE
  BY DEF QuiesceManaged
<1>2. Sane(State) /\ OwedBut(State, {}) /\ now \in Nat
  BY DEF IInv
<1>3. Carried(State, s0) /\ s0.staged = {} /\ DOMAIN s0.prepared = {}
  <2> DEFINE e == TryCancel(executor, {s.correlation : s \in staged})
  <2>1. s0 = [State EXCEPT !.staged = {}, !.prepared = <<>>, !.executor = e]
    BY StateFields DEF Unstaged
  <2>2. Marks(executor, e)
    BY <1>2, CancelMarks, StateFields DEF Sane
  <2> HIDE DEF e, s0
  <2>3. DOMAIN <<>> = {}
    OBVIOUS
  <2>4. Fewer(State, s0) /\ s0.staged = {} /\ DOMAIN s0.prepared = {}
    BY <2>1, <2>2, <2>3, StateFields DEF Fewer
  <2> QED
    BY <1>2, <2>4, FewerIsCarried
<1>4. ASSUME NEW st, NEW c \in Components, Sane(st)
      PROVE  /\ Carried(st, fail(st, c))
             /\ fail(st, c).staged = st.staged /\ fail(st, c).prepared = st.prepared
             /\ fail(st, c).controlled \subseteq st.controlled
             /\ DOMAIN fail(st, c).managed = DOMAIN st.managed
             /\ \A d \in DOMAIN st.managed : d = c \/ fail(st, c).managed[d] # st.managed[d] =>
                   fail(st, c).managed[d].state = "Failed" /\ fail(st, c).managed[d].pending = {}
  <2> DEFINE g == FailComponent(st, c, now)
  <2>1. CASE c \in DOMAIN st.managed
    <3>1. /\ g.staged = st.staged /\ g.prepared = st.prepared
          /\ g.controlled = st.controlled \ Branch(st, c)
          /\ DOMAIN g.managed = DOMAIN st.managed
          /\ \A d \in DOMAIN st.managed : d = c \/ g.managed[d] # st.managed[d] =>
                g.managed[d].state = "Failed" /\ g.managed[d].pending = {}
      BY <1>2, <1>4, <2>1, FailIsSane
    <3>2. Carried(st, g)
      BY <1>2, <1>4, <2>1, FailIsCarried
    <3>3. fail(st, c) = g
      BY <2>1
    <3> HIDE DEF g, fail
    <3> QED
      BY <3>1, <3>2, <3>3
  <2>2. CASE c \notin DOMAIN st.managed
    <3>1. fail(st, c) = st
      BY <2>2
    <3> HIDE DEF fail
    <3> QED
      BY <1>4, <2>2, <3>1 DEF Carried
  <2> QED
    BY <2>1, <2>2
<1>5. Source \in Components /\ Transform \in Components
  BY DEF Components
<1> HIDE DEF s0, fail
<1>6. /\ Carried(s0, s1)
      /\ s1.staged = {} /\ DOMAIN s1.prepared = {}
      /\ DOMAIN s1.managed = DOMAIN s0.managed
      /\ \A d \in DOMAIN s0.managed : d = Source =>
            s1.managed[d].state = "Failed" /\ s1.managed[d].pending = {}
  BY <1>3, <1>4, <1>5 DEF Carried
<1> HIDE DEF s1
<1>7. /\ Carried(s1, s2)
      /\ s2.staged = {} /\ DOMAIN s2.prepared = {}
      /\ DOMAIN s2.managed = DOMAIN s1.managed
      /\ \A d \in DOMAIN s1.managed : d = Transform \/ s2.managed[d] # s1.managed[d] =>
            s2.managed[d].state = "Failed" /\ s2.managed[d].pending = {}
  BY <1>4, <1>5, <1>6 DEF Carried
<1> HIDE DEF s2
<1>8. \A d \in DOMAIN s2.managed :
         s2.managed[d].state = "Failed" /\ s2.managed[d].pending = {}
  <2>1. DOMAIN s2.managed \subseteq {Source, Transform}
    BY <1>7 DEF Carried, Sane, GraphIsSane, Components
  <2> QED
    BY <1>6, <1>7, <2>1
<1>9. s2.controlled = {}
  <2>1. ASSUME NEW c \in s2.controlled
        PROVE  FALSE
    BY <1>7, <1>8, <2>1 DEF Carried, Sane, ControlIsSane, GraphIsSane, InstanceIsSane
  <2> QED
    BY <2>1
<1>10. Stopped(s2)
  BY <1>7, <1>8, <1>9 DEF Stopped
<1>11. Carried(s2, f)
  <2>1. Marks(s2.executor, BeginShutdown(s2.executor))
    BY <1>7, ShutdownMarks DEF Carried, Sane
  <2>2. s2 = [managed |-> s2.managed, staged |-> s2.staged, prepared |-> s2.prepared,
              controlled |-> s2.controlled, executor |-> s2.executor]
    BY <1>7 DEF Carried, Sane
  <2>3. Fewer(s2, f)
    BY <2>1, <2>2 DEF Fewer
  <2> QED
    BY <1>7, <2>3, FewerIsCarried DEF Carried
<1> HIDE DEF f
<1>12. Carried(State, f)
  BY <1>3, <1>6, <1>7, <1>11, CarriedOn
<1>13. State' = f
  BY <1>1, <1>12, StateBecomes DEF Carried
<1>14. Sane(f) /\ OwedBut(f, {}) /\ Stopped(f)
  BY <1>2, <1>10, <1>11, <1>12, StillOwed DEF Carried
<1> QED
  BY <1>1, <1>2, <1>13, <1>14 DEF IInv

LEMMA StartControllerKeeps ==
    ASSUME IInv, NEW c \in Components, StartController(c)
    PROVE  IInv'
<1>1. /\ c \in DOMAIN managed
      /\ \E s \in managed[c].latest : s.good
      /\ controlled' = controlled \union {c}
      /\ UNCHANGED <<now, managed, staged, prepared, quiesced, executor>>
  BY DEF StartController
<1>2. Sane(State) /\ OwedBut(State, {}) /\ now \in Nat
  BY DEF IInv
<1>3. \A k : IsAwaited(State', k) <=> IsAwaited(State, k)
  BY <1>1, StateFields, StateFieldsNext DEF IsAwaited
<1>4. ControlIsSane(managed', controlled')
  BY <1>1, <1>2, StateFields DEF Sane, ControlIsSane
<1>5. CandidatesAreSane(State') /\ StrayIsCancelled(State')
  BY <1>1, <1>2, <1>3, StateFields, StateFieldsNext DEF Sane, CandidatesAreSane, StrayIsCancelled
<1>6. Sane(State')
  BY <1>1, <1>2, <1>4, <1>5, StateFields, StateFieldsNext DEF Sane
<1>7. OwedBut(State', {})
  BY <1>1, <1>2, <1>3, StateFields, StateFieldsNext DEF OwedBut
<1>8. ~quiesced
  <2>1. managed[c].state = "Ready"
    BY <1>1, <1>2, StateFields DEF Sane, GraphIsSane, InstanceIsSane
  <2> QED
    BY <1>1, <2>1, StateFields DEF IInv, Stopped
<1> QED
  BY <1>1, <1>2, <1>6, <1>7, <1>8 DEF IInv

LEMMA EndControllerKeeps ==
    ASSUME IInv, NEW c \in Components, EndController(c)
    PROVE  IInv'
<1>1. /\ controlled' = controlled \ {c}
      /\ UNCHANGED <<now, managed, staged, prepared, quiesced, executor>>
  BY DEF EndController
<1>2. Sane(State) /\ OwedBut(State, {}) /\ now \in Nat
  BY DEF IInv
<1>3. \A k : IsAwaited(State', k) <=> IsAwaited(State, k)
  BY <1>1, StateFields, StateFieldsNext DEF IsAwaited
<1>4. ControlIsSane(managed', controlled')
  BY <1>1, <1>2, StateFields DEF Sane, ControlIsSane
<1>5. CandidatesAreSane(State') /\ StrayIsCancelled(State')
  BY <1>1, <1>2, <1>3, StateFields, StateFieldsNext DEF Sane, CandidatesAreSane, StrayIsCancelled
<1>6. Sane(State')
  BY <1>1, <1>2, <1>4, <1>5, StateFields, StateFieldsNext DEF Sane
<1>7. OwedBut(State', {})
  BY <1>1, <1>2, <1>3, StateFields, StateFieldsNext DEF OwedBut
<1>8. quiesced => Stopped(State')
  BY <1>1, StateFields, StateFieldsNext DEF IInv, Stopped
<1> QED
  BY <1>1, <1>2, <1>6, <1>7, <1>8 DEF IInv

\* A worker's own step leaves the Runtime's record of its jobs alone.
LEMMA WorkerStepKeeps ==
    ASSUME IInv, ExecutorIsSane(executor'),
           \A i \in Slots : executor'.slots[i].busy = executor.slots[i].busy,
           UNCHANGED <<now, managed, staged, prepared, quiesced, controlled>>
    PROVE  IInv'
<1>2. Sane(State) /\ OwedBut(State, {}) /\ now \in Nat
  BY DEF IInv
<1>3. \A k : /\ IsAwaited(State', k) <=> IsAwaited(State, k)
             /\ BusyWith(executor', k) <=> BusyWith(executor, k)
  BY StateFields, StateFieldsNext DEF IsAwaited, BusyWith
<1>4. StepsAreUnique(executor', managed')
  BY <1>2, StateFields DEF Sane, StepsAreUnique
<1>5. CandidatesAreSane(State') /\ StrayIsCancelled(State')
  BY <1>2, <1>3, StateFields, StateFieldsNext DEF Sane, CandidatesAreSane, StrayIsCancelled
<1>6. Sane(State')
  BY <1>2, <1>4, <1>5, StateFields, StateFieldsNext DEF Sane
<1>7. OwedBut(State', {})
  BY <1>2, <1>3, StateFields, StateFieldsNext DEF OwedBut
<1>8. quiesced => Stopped(State')
  BY StateFields, StateFieldsNext DEF IInv, Stopped
<1> QED
  BY <1>2, <1>6, <1>7, <1>8 DEF IInv

LEMMA WorkersKeep ==
    ASSUME IInv, NEW i \in Slots, WorkerFinishes(i) \/ WorkerPanics(i) \/ WorkerLeaves(i)
    PROVE  IInv'
<1>1. ExecutorIsSane(executor) /\ now \in Nat
  BY StateFields DEF IInv, Sane
<1>2. CASE WorkerFinishes(i)
  <2>1. PICK j \in executor.slots[i].job : \E outcome \in Outcomes(j.phase) :
            executor' = Finishes(executor, i, outcome, now)
    BY <1>2 DEF WorkerFinishes
  <2>2. PICK outcome \in Outcomes(j.phase) : executor' = Finishes(executor, i, outcome, now)
    BY <2>1
  <2>3. /\ ExecutorIsSane(executor')
        /\ \A l \in Slots : executor'.slots[l].busy = executor.slots[l].busy
    BY <1>1, <2>2, FinishKeeps
  <2> QED
    BY <1>2, <2>3, WorkerStepKeeps DEF WorkerFinishes
<1>3. CASE WorkerPanics(i)
  <2>1. /\ ExecutorIsSane(executor')
        /\ \A l \in Slots : executor'.slots[l].busy = executor.slots[l].busy
    BY <1>1, <1>3, PanicKeeps DEF WorkerPanics
  <2> QED
    BY <1>3, <2>1, WorkerStepKeeps DEF WorkerPanics
<1>4. CASE WorkerLeaves(i)
  <2>1. /\ ExecutorIsSane(executor')
        /\ \A l \in Slots : executor'.slots[l].busy = executor.slots[l].busy
    BY <1>1, <1>4, LeaveKeeps DEF WorkerLeaves
  <2> QED
    BY <1>4, <2>1, WorkerStepKeeps DEF WorkerLeaves
<1> QED
  BY <1>2, <1>3, <1>4

LEMMA InitIsSane == Init => IInv
<1> SUFFICES ASSUME Init
             PROVE  IInv
  OBVIOUS
<1>1. /\ now = 0 /\ DOMAIN managed = {} /\ staged = {} /\ DOMAIN prepared = {}
      /\ quiesced = FALSE /\ controlled = {} /\ executor = NewExecutor
  <2>1. DOMAIN <<>> = {}
    OBVIOUS
  <2> QED
    BY <2>1 DEF Init
<1>2. /\ ExecutorIsSane(executor)
      /\ StepsAreUnique(executor, managed)
      /\ \A i \in Slots : executor.slots[i].busy = {}
  BY <1>1, NewExecutorIsSane
<1>3. GraphIsSane(managed)
  BY <1>1 DEF GraphIsSane, RestsOnSource
<1>4. CandidatesAreSane(State)
  BY <1>1, StateFields DEF CandidatesAreSane, AtMostOne
<1>5. ControlIsSane(managed, controlled)
  BY <1>1 DEF ControlIsSane
<1>6. StrayIsCancelled(State)
  BY <1>2, StateFields DEF StrayIsCancelled
<1>7. OwedBut(State, {})
  BY <1>1, StateFields DEF OwedBut, IsAwaited
<1>8. Sane(State)
  BY <1>2, <1>3, <1>4, <1>5, <1>6, StateFields DEF Sane
<1> QED
  BY <1>1, <1>7, <1>8 DEF IInv

LEMMA NextKeeps == IInv /\ [Next]_vars => IInv'
<1> SUFFICES ASSUME IInv, [Next]_vars
             PROVE  IInv'
  OBVIOUS
<1>1. CASE \E c \in Components, replaces, prepareOnly \in BOOLEAN :
              StageComponent(c, replaces, prepareOnly)
  BY <1>1, StageKeeps
<1>2. CASE \E c \in Components : InvokeComponent(c)
  BY <1>2, InvokeKeeps
<1>3. CASE \E c \in Components : StartController(c)
  BY <1>3, StartControllerKeeps
<1>4. CASE \E c \in Components : EndController(c)
  BY <1>4, EndControllerKeeps
<1>5. CASE PollComponents
  BY <1>5, PollKeeps
<1>6. CASE \E batch \in Batches : CommitPrepared(batch)
  BY <1>6, BatchKeeps
<1>7. CASE DiscardPrepared
  BY <1>7, DiscardKeeps
<1>8. CASE QuiesceManaged
  BY <1>8, QuiesceKeeps
<1>9. CASE \E i \in Slots : WorkerFinishes(i) \/ WorkerPanics(i) \/ WorkerLeaves(i)
  BY <1>9, WorkersKeep
<1>10. CASE Tick
  BY <1>10 DEF Tick, IInv, State
<1>11. CASE UNCHANGED vars
  BY <1>11 DEF vars, IInv, State
<1> QED
  BY <1>1, <1>2, <1>3, <1>4, <1>5, <1>6, <1>7, <1>8, <1>9, <1>10, <1>11 DEF Next

-----------------------------------------------------------------------------
(* The theorems.                                                           *)

\* The invariant that poll_components, fail_component and commit_staged keep together.
THEOREM Inductive == Spec => []IInv
  BY InitIsSane, NextKeeps, PTL DEF Spec

\* No sample and no controller rests on a signal that is not Good, whatever the workers
\* answer and however late, and after the quiesce nothing at all (fail_component,
\* commit_step, QuiesceManaged).
THEOREM NothingRests == Spec => []NothingRestsOnBad
<1>1. IInv => NothingRestsOnBad
  <2> SUFFICES ASSUME IInv
               PROVE  NothingRestsOnBad
    OBVIOUS
  <2>1. GraphIsSane(managed) /\ ControlIsSane(managed, controlled)
    BY StateFields DEF IInv, Sane
  <2>2. GoodRestsOnGood
    <3> SUFFICES ASSUME NEW c \in DOMAIN managed, NEW s \in managed[c].latest, s.good
                 PROVE  /\ managed[c].state = "Ready"
                        /\ InputOf(c) # {} => s.at - s.freshness < MaxInputAge
                        /\ \A i \in InputOf(c) : \E t \in managed[i].latest :
                              /\ t.good
                              /\ t.freshness >= s.freshness
                              /\ s.from = {managed[i].generation}
      BY DEF GoodRestsOnGood
    <3>1. InstanceIsSane(c, managed[c]) /\ c \in Components
      BY <2>1 DEF GraphIsSane
    <3>2. \A i \in InputOf(c) : \E t \in managed[i].latest :
             t.good /\ t.freshness >= s.freshness /\ s.from = {managed[i].generation}
      BY <2>1, <3>1, InputsAre DEF GraphIsSane, RestsOnSource, Components
    <3> QED
      BY <3>1, <3>2 DEF InstanceIsSane
  <2>3. ControlRestsOnGood
    BY <2>1 DEF ControlIsSane, ControlRestsOnGood, GraphIsSane, InstanceIsSane, AtMostOne
  <2>4. QuiesceIsFinal
    BY StateFields DEF IInv, Stopped, QuiesceIsFinal
  <2> QED
    BY <2>2, <2>3, <2>4 DEF NothingRestsOnBad
<1> QED
  BY <1>1, Inductive, PTL

\* Every answer the Runtime waits for is owed by a busy slot, and a slot that is busy
\* with a step nobody waits for was told to stop (try_submit, try_poll, try_cancel).
THEOREM AllAnswersAreOwed == Spec => []AnswersAreOwed
<1>1. IInv => AnswersAreOwed
  <2> SUFFICES ASSUME IInv
               PROVE  AnswersAreOwed
    OBVIOUS
  <2>1. Sane(State) /\ OwedBut(State, {})
    BY DEF IInv
  <2>2. \A k : k \in Awaited <=> IsAwaited(State, k)
    BY StateFields DEF Awaited, IsAwaited
  <2>3. \A k \in Awaited : BusyWith(executor, k)
    BY <2>1, <2>2, StateFields DEF OwedBut
  <2>4. \A i \in Slots : \A b \in executor.slots[i].busy :
           b.correlation.attempt > 0 => b.correlation \in Awaited \/ b.cancelled
    BY <2>1, <2>2, StateFields DEF Sane, StrayIsCancelled
  <2> QED
    BY <2>3, <2>4 DEF AnswersAreOwed
<1> QED
  BY <1>1, Inductive, PTL

=============================================================================
