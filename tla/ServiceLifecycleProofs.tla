----------------------- MODULE ServiceLifecycleProofs ----------------------
(***************************************************************************)
(* What ServiceLifecycle promises about the Required gate, the ports, the  *)
(* lifecycle records, the hidden output evidence and the success exit, for *)
(* every number of resources and adapters and whatever the scenario.       *)
(***************************************************************************)
EXTENDS ServiceLifecycle, FiniteSetTheorems, WellFoundedInduction, TLAPS

-----------------------------------------------------------------------------
(* The inductive invariant, of a service record `v` and its adapters `a`.  *)

\* The fields of the records, so that an EXCEPT is known to set one of them.
Fields == {"stopping", "fatal", "panicked", "quiesced", "gate", "exe", "closed", "gated",
           "bind", "probe", "out", "hid", "quar", "held", "rec", "staged", "overlay", "rev",
           "apply", "op", "cut", "safeLate", "flushing", "flushLate", "terminal"}
ExecutorFields == {"adapter", "closed", "offline", "job"}
HiddenFields == {"state", "sent", "listed"}
RecorderFields == {"state", "next", "reserved", "pending", "committed", "facts"}
AdapterFields == {"res", "dropped", "state", "fault", "pending", "opened", "stop", "mail",
                  "done", "at", "word", "device", "attempts"}
OpFields == {"kind", "res", "pc", "gen", "reopen", "cand", "late", "cancel"}
ApplyFields == {"phase", "kind", "gen", "begun", "reopen", "actuator", "quiesced",
                "published", "late"}

ExecutorShape(exe) ==
    DOMAIN exe = Resources /\ \A r \in Resources : DOMAIN exe[r] = ExecutorFields
Shape(v) ==
    /\ DOMAIN v = Fields
    /\ ExecutorShape(v.exe)
    /\ DOMAIN v.out = Resources /\ DOMAIN v.probe = Resources
    /\ v.bind \in [Resources -> Nat \ {0}]
    /\ DOMAIN v.hid = HiddenFields /\ DOMAIN v.rec = RecorderFields
    /\ DOMAIN v.op = OpFields /\ DOMAIN v.apply = ApplyFields

\* An adapter whose session is closed has a worker off its port for good.
Off(at) == at \in {"exit", "finished"}
AdapterInv(a) ==
    /\ DOMAIN a = AdapterFields
    /\ a.state = "closed" => Off(a.at) /\ a.done = "empty"
    /\ a.done = "stopped" => Off(a.at)
AdaptersInv(a) == DOMAIN a = Adapters /\ \A i \in Adapters : AdapterInv(a[i])

-----------------------------------------------------------------------------
(* The adapter.                                                            *)

\* What an owner call leaves of an adapter.
Handled(a, b) ==
    /\ AdapterInv(b) /\ b.res = a.res
    /\ b.at = a.at
    /\ a.state = "closed" => b.state = "closed"

LEMMA DrainHandled ==
    ASSUME NEW a, AdapterInv(a)
    PROVE  Handled(a, Drain(a)) /\ Drain(a).dropped = a.dropped
  BY DEF AdapterInv, AdapterFields, Handled, Drain, Received, Off

LEMMA RetireHandled ==
    ASSUME NEW a, AdapterInv(a)
    PROVE  Handled(a, Retire(a)) /\ Retire(a).dropped = a.dropped
  BY DEF AdapterInv, AdapterFields, Handled, Retire, Off

LEMMA ShutdownHandled ==
    ASSUME NEW a, AdapterInv(a)
    PROVE  Handled(a, TryShutdown(a)) /\ TryShutdown(a).dropped = a.dropped
<1> DEFINE b == Retire(a)
<1>1. Handled(a, b) /\ b.dropped = a.dropped
  BY RetireHandled
<1> HIDE DEF b
<1>2. Handled(b, Drain(b)) /\ Drain(b).dropped = b.dropped
  BY <1>1, DrainHandled DEF Handled
<1> QED
  BY <1>1, <1>2 DEF Handled, TryShutdown, b

LEMMA RequestHandled ==
    ASSUME NEW a, AdapterInv(a)
    PROVE  Handled(a, Request(a)) /\ Request(a).dropped = a.dropped
  BY DEF AdapterInv, AdapterFields, Handled, Request, Off

LEMMA DroppedHandled ==
    ASSUME NEW a, AdapterInv(a)
    PROVE  Handled(a, Dropped(a)) /\ Dropped(a).dropped
<1> DEFINE b == TryShutdown(a)
<1>1. Handled(a, b)
  BY ShutdownHandled
<1>2. Dropped(a) = [b EXCEPT !.dropped = TRUE]
  BY DEF Dropped, TryShutdown
<1> HIDE DEF b
<1> QED
  BY <1>1, <1>2 DEF Handled, AdapterInv, AdapterFields

\* A worker step leaves a closed session closed, and an exited worker off its port.
Worked(a, b) ==
    /\ AdapterInv(b) /\ b.res = a.res /\ b.dropped = a.dropped
    /\ b.state = a.state
    /\ Off(a.at) => Off(b.at)

LEMMA WorkerWorks ==
    ASSUME NEW a, AdapterInv(a), NEW b \in WorkerGood(a) \cup WorkerBad(a)
    PROVE  Worked(a, b) /\ a.at # "finished"
<1>1. ASSUME b \in WorkerStart(a) PROVE Worked(a, b) /\ a.at # "finished"
  BY <1>1 DEF WorkerStart, StopsOr, Says, Worked, AdapterInv, AdapterFields, Off
<1>2. ASSUME b \in WorkerOpens(a) PROVE Worked(a, b) /\ a.at # "finished"
  BY <1>2 DEF WorkerOpens, StopsOr, Says, Worked, AdapterInv, AdapterFields, Off
<1>3. ASSUME b \in WorkerRetries(a) PROVE Worked(a, b) /\ a.at # "finished"
  BY <1>3 DEF WorkerRetries, Says, Worked, AdapterInv, AdapterFields, Off
<1>4. ASSUME b \in WorkerSends(a) PROVE Worked(a, b) /\ a.at # "finished"
  <2>1. a.at = "send" /\ ~Off(a.at) /\ a.state # "closed"
    BY <1>4 DEF WorkerSends, Off, AdapterInv
  <2>2. CASE a.dropped \/ a.word = "stopped" \/ ~a.device
    <3>1. b = [a EXCEPT !.at = "exit", !.done = IF a.dropped THEN a.done ELSE a.word]
      BY <1>4, <2>2 DEF WorkerSends
    <3> QED
      BY <2>1, <3>1 DEF Worked, AdapterInv, AdapterFields, Off
  <2>3. CASE ~(a.dropped \/ a.word = "stopped" \/ ~a.device)
    <3>1. b = [a EXCEPT !.at = IF a.word = "opened" THEN "loop" ELSE "after", !.done = a.word]
      BY <1>4, <2>3 DEF WorkerSends
    <3> QED
      BY <2>1, <2>3, <3>1 DEF Worked, AdapterInv, AdapterFields, Off
  <2> QED
    BY <2>2, <2>3
<1>5. ASSUME b \in WorkerChecks(a) PROVE Worked(a, b) /\ a.at # "finished"
  BY <1>5 DEF WorkerChecks, StopsOr, Says, Worked, AdapterInv, AdapterFields, Off
<1>6. ASSUME b \in WorkerReceives(a) PROVE Worked(a, b) /\ a.at # "finished"
  BY <1>6 DEF WorkerReceives, StopsOr, Says, Worked, AdapterInv, AdapterFields, Off
<1>7. ASSUME NEW word, b \in WorkerReturns(a, word) PROVE Worked(a, b) /\ a.at # "finished"
  BY <1>7 DEF WorkerReturns, Says, Worked, AdapterInv, AdapterFields, Off
<1>8. ASSUME b \in WorkerExits(a) PROVE Worked(a, b) /\ a.at # "finished"
  BY <1>8 DEF WorkerExits, Worked, AdapterInv, AdapterFields, Off
<1>9. ASSUME b \in WorkerOpenFails(a) PROVE Worked(a, b) /\ a.at # "finished"
  BY <1>9 DEF WorkerOpenFails, Says, Worked, AdapterInv, AdapterFields, Off
<1> QED
  BY <1>1, <1>2, <1>3, <1>4, <1>5, <1>6, <1>7, <1>8, <1>9 DEF WorkerGood, WorkerBad

-----------------------------------------------------------------------------
(* One owner turn.                                                         *)

\* A job of an executor is a write whose outcome is awaited.
Jobs(v) ==
    \A r \in Resources :
       /\ v.exe[r].job = "safe" => InFlight(v.out[r])
       /\ v.exe[r].job = "hidden" => r = Candidate /\ InFlight(v.hid.state)

\* A closed executor is offline, and its adapter has closed its session.
ExecutorsClose(v, a) ==
    /\ \A r \in Resources : v.exe[r].adapter \in Adapters
    /\ v.closed \subseteq Resources /\ \A r \in v.closed : v.exe[r].closed
    /\ \A r \in Resources :
          v.exe[r].closed => v.exe[r].offline /\ IsClosed(a[v.exe[r].adapter])

\* What a turn needs, and keeps.
Ready(x) ==
    /\ x = Lane(x.v, x.a)
    /\ Shape(x.v) /\ AdaptersInv(x.a)
    /\ Jobs(x.v) /\ ExecutorsClose(x.v, x.a)

\* The fields a turn does not touch.
SameRest(v, w) ==
    /\ w.stopping = v.stopping /\ w.fatal = v.fatal /\ w.panicked = v.panicked
    /\ w.quiesced = v.quiesced /\ w.gated = v.gated /\ w.bind = v.bind /\ w.quar = v.quar
    /\ w.held = v.held /\ w.rec = v.rec /\ w.staged = v.staged /\ w.overlay = v.overlay
    /\ w.rev = v.rev /\ w.apply = v.apply /\ w.op = v.op /\ w.cut = v.cut
    /\ w.safeLate = v.safeLate /\ w.flushing = v.flushing /\ w.flushLate = v.flushLate
    /\ w.terminal = v.terminal

\* Outputs without one, or safe, stay so; hidden evidence only grows.
SameOutputs(v, w) ==
    /\ \A r \in Resources : v.out[r] \in {"none", "safe"} => w.out[r] = v.out[r]
    /\ w.hid.listed = v.hid.listed
    /\ v.hid.sent => w.hid.sent
    /\ v.hid.state \in {"none", "safe"} => w.hid = v.hid
    /\ v.hid.state # "none" => w.hid.state # "none"

SameAdapters(v, a, w, b) ==
    /\ \A r \in Resources : w.exe[r].adapter = v.exe[r].adapter
    /\ \A i \in Adapters : /\ b[i].res = a[i].res /\ b[i].dropped = a[i].dropped
                           /\ IsClosed(a[i]) => IsClosed(b[i])
                           /\ b[i].at = a[i].at

Gated(v, w) == w.gate = v.gate \/ w.gate = "failed"

Moved(x, y) ==
    /\ Ready(y)
    /\ SameRest(x.v, y.v) /\ SameOutputs(x.v, y.v) /\ Gated(x.v, y.v)
    /\ SameAdapters(x.v, x.a, y.v, y.a)
    /\ \A r \in Resources : x.v.exe[r].closed => y.v.exe[r].closed
    /\ x.v.closed \subseteq y.v.closed

\* Only the stop closes a transport in a turn.
Turned(x, y) ==
    /\ Moved(x, y)
    /\ ~x.v.stopping => /\ y.v.closed = x.v.closed
                        /\ \A r \in Resources : y.v.exe[r].closed = x.v.exe[r].closed

LEMMA TurnedReflexive ==
    ASSUME NEW x, Ready(x)
    PROVE  Turned(x, x)
  BY DEF Turned, Moved, SameRest, SameOutputs, SameAdapters, Gated

LEMMA MovedTransitive ==
    ASSUME NEW x, NEW y, NEW z, Moved(x, y), Moved(y, z)
    PROVE  Moved(x, z)
<1>1. SameRest(x.v, z.v)
  BY DEF Moved, SameRest
<1>2. SameOutputs(x.v, z.v)
  BY DEF Moved, SameOutputs
<1>3. SameAdapters(x.v, x.a, z.v, z.a)
  BY DEF Moved, SameAdapters
<1>4. Gated(x.v, z.v)
  BY DEF Moved, Gated
<1> QED
  BY <1>1, <1>2, <1>3, <1>4 DEF Moved

LEMMA TurnedTransitive ==
    ASSUME NEW x, NEW y, NEW z, Turned(x, y), Turned(y, z)
    PROVE  Turned(x, z)
<1>1. Moved(x, z)
  BY MovedTransitive DEF Turned
<1>2. x.v.stopping = y.v.stopping
  BY DEF Turned, Moved, SameRest
<1> QED
  BY <1>1, <1>2 DEF Turned

\* An adapter the owner called.
LEMMA AdapterTurned ==
    ASSUME NEW x, Ready(x), NEW i \in Adapters, NEW b,
           Handled(x.a[i], b), b.dropped = x.a[i].dropped
    PROVE  Turned(x, Lane(x.v, [x.a EXCEPT ![i] = b]))
<1> DEFINE aa == [x.a EXCEPT ![i] = b]
           y == Lane(x.v, aa)
<1>1. y.v = x.v /\ y.a = aa /\ y = Lane(y.v, y.a)
  BY DEF Lane
<1>2. /\ DOMAIN aa = Adapters /\ aa[i] = b
      /\ \A j \in Adapters : j # i => aa[j] = x.a[j]
  BY DEF Ready, AdaptersInv
<1> HIDE DEF aa, y
<1>3. \A j \in Adapters : /\ AdapterInv(aa[j])
                          /\ aa[j].res = x.a[j].res /\ aa[j].dropped = x.a[j].dropped
                          /\ IsClosed(x.a[j]) => IsClosed(aa[j])
                          /\ aa[j].at = x.a[j].at
  BY <1>2 DEF Handled, Ready, AdaptersInv, IsClosed
<1>4. Ready(y)
  BY <1>1, <1>2, <1>3 DEF Ready, AdaptersInv, ExecutorsClose
<1>5. Turned(x, y)
  BY <1>1, <1>3, <1>4 DEF Turned, Moved, SameRest, SameOutputs, SameAdapters, Gated
<1> QED
  BY <1>5 DEF y, aa

\* A change of the executor, the output and the probe of one resource, and of the
\* hidden output, that ends or keeps its job.
Executed(v, w, r) ==
    /\ DOMAIN w = Fields /\ SameRest(v, w)
    /\ w.gate = v.gate /\ w.closed = v.closed
    /\ ExecutorShape(w.exe)
    /\ \A q \in Resources \ {r} : w.exe[q] = v.exe[q] /\ w.out[q] = v.out[q]
    /\ w.exe[r].adapter = v.exe[r].adapter /\ w.exe[r].closed = v.exe[r].closed
    /\ v.exe[r].offline => w.exe[r].offline
    /\ DOMAIN w.out = Resources /\ DOMAIN w.probe = Resources /\ DOMAIN w.hid = HiddenFields
    /\ SameOutputs(v, w)
    /\ Jobs(w)

LEMMA ExecutedTurned ==
    ASSUME NEW x, Ready(x), NEW r \in Resources, NEW w, Executed(x.v, w, r)
    PROVE  Turned(x, With(x, w))
<1> DEFINE y == With(x, w)
<1>1. y = Lane(w, x.a)
  BY DEF Ready, Lane, With
<1>2. y.v = w /\ y.a = x.a
  BY <1>1 DEF Lane
<1> HIDE DEF y
<1>3. Shape(w)
  BY DEF Executed, SameRest, Shape, Ready
<1>4. ExecutorsClose(w, x.a)
  BY DEF Executed, Ready, ExecutorsClose
<1>5. Ready(y)
  BY <1>1, <1>2, <1>3, <1>4 DEF Ready, Executed
<1> QED
  BY <1>2, <1>5 DEF Turned, Moved, Executed, SameAdapters, Gated, y

\* The executor goes offline.
LEMMA OfflineExecuted ==
    ASSUME NEW v, Shape(v), Jobs(v), NEW r \in Resources
    PROVE  Executed(v, [v EXCEPT !.exe[r].offline = TRUE], r)
<1> DEFINE w == [v EXCEPT !.exe[r].offline = TRUE]
<1>1. /\ DOMAIN w = Fields
      /\ w.exe = [v.exe EXCEPT ![r].offline = TRUE]
      /\ w.out = v.out /\ w.probe = v.probe /\ w.hid = v.hid /\ w.gate = v.gate
      /\ w.closed = v.closed /\ SameRest(v, w)
  BY DEF Shape, Fields, SameRest
<1> HIDE DEF w
<1>2. Executed(v, w, r)
  BY <1>1 DEF Executed, Shape, ExecutorShape, ExecutorFields, SameOutputs, Jobs
<1> QED
  BY <1>2 DEF w

\* The job ends: a write that was under way is uncertain.
LEMMA JobLostExecuted ==
    ASSUME NEW v, Shape(v), Jobs(v), NEW r \in Resources
    PROVE  Executed(v, JobLost(v, r), r)
<1> DEFINE w == JobLost(v, r)
           job == v.exe[r].job
<1>1. /\ DOMAIN w = Fields
      /\ w.exe = [v.exe EXCEPT ![r].job = "none"]
      /\ w.gate = v.gate /\ w.closed = v.closed /\ SameRest(v, w)
      /\ DOMAIN w.out = Resources /\ DOMAIN w.probe = Resources
  BY DEF JobLost, Shape, Fields, SameRest
<1>2. /\ job = "safe" => w.out = [v.out EXCEPT ![r] = Uncertain(@)]
      /\ job # "safe" => w.out = v.out
      /\ job = "hidden" => w.hid = [v.hid EXCEPT !.state = Uncertain(@)]
      /\ job # "hidden" => w.hid = v.hid
  BY DEF JobLost, Shape, Fields
<1> HIDE DEF w
<1>3. SameOutputs(v, w) /\ DOMAIN w.hid = HiddenFields
  BY <1>2 DEF SameOutputs, Jobs, Uncertain, InFlight, Shape, HiddenFields
<1>4. \A q \in Resources \ {r} : w.exe[q] = v.exe[q] /\ w.out[q] = v.out[q]
  BY <1>1, <1>2 DEF Shape, ExecutorShape
<1>5. Jobs(w)
  <2>1. w.exe[r].job = "none"
    BY <1>1 DEF Shape, ExecutorShape, ExecutorFields
  <2>2. ASSUME NEW q \in Resources \ {r}, w.exe[q].job = "hidden"
        PROVE  q = Candidate /\ InFlight(w.hid.state)
    BY <1>2, <1>4, <2>2 DEF Jobs
  <2> QED
    BY <1>4, <2>1, <2>2 DEF Jobs
<1>6. Executed(v, w, r)
  BY <1>1, <1>3, <1>4, <1>5 DEF Executed, Shape, ExecutorShape, ExecutorFields
<1> QED
  BY <1>6 DEF w

\* The queue is fenced.
LEMMA QueueFencedExecuted ==
    ASSUME NEW v, Shape(v), Jobs(v), NEW r \in Resources
    PROVE  Executed(v, QueueFenced(v, r), r)
<1> DEFINE w == QueueFenced(v, r)
<1>1. /\ DOMAIN w = Fields
      /\ w.exe = v.exe /\ w.out = v.out
      /\ w.gate = v.gate /\ w.closed = v.closed /\ SameRest(v, w)
      /\ DOMAIN w.probe = Resources
      /\ \/ w.hid = v.hid
         \/ v.hid.state \in {"pending", "rejected"} /\ w.hid = [v.hid EXCEPT !.state = "rejected"]
  BY DEF QueueFenced, HiddenDue, Shape, Fields, SameRest
<1> HIDE DEF w
<1>2. SameOutputs(v, w) /\ DOMAIN w.hid = HiddenFields
  BY <1>1 DEF SameOutputs, Shape, HiddenFields
<1>3. Jobs(w)
  BY <1>1 DEF Jobs, InFlight
<1>4. Executed(v, w, r)
  BY <1>1, <1>2, <1>3 DEF Executed, Shape
<1> QED
  BY <1>4 DEF w

\* The job is done: the write is proved, obsolete or refused.
LEMMA JobDoneExecuted ==
    ASSUME NEW v, Shape(v), Jobs(v), NEW r \in Resources, NEW w \in JobDone(v, r)
    PROVE  Executed(v, w, r)
<1> DEFINE job == v.exe[r].job
           u == [v EXCEPT !.exe[r].job = "none"]
           proved(state) == IF state = "started" THEN "safe" ELSE "pending"
<1>1. /\ DOMAIN u = Fields
      /\ u.exe = [v.exe EXCEPT ![r].job = "none"]
      /\ u.gate = v.gate /\ u.closed = v.closed /\ SameRest(v, u)
      /\ u.out = v.out /\ u.probe = v.probe /\ u.hid = v.hid
  BY DEF Shape, Fields, SameRest
<1>2. \/ job = "probe" /\ \E o : w = [u EXCEPT !.probe[r] = o]
      \/ job = "safe" /\ \E o \in {proved(v.out[r]), "fault"} : w = [u EXCEPT !.out[r] = o]
      \/ job = "hidden" /\ \E o \in {proved(v.hid.state), "fault"} : w = [u EXCEPT !.hid.state = o]
      \/ job \notin {"probe", "safe", "hidden"} /\ w = u
  <2>1. JobDone(v, r) =
          CASE job = "probe" -> {[u EXCEPT !.probe[r] = o] : o \in {"good", "bad"}}
            [] job = "safe" -> {[u EXCEPT !.out[r] = o] : o \in {proved(v.out[r]), "fault"}}
            [] job = "hidden" ->
                   {[u EXCEPT !.hid.state = o] : o \in {proved(v.hid.state), "fault"}}
            [] OTHER -> {u}
    BY DEF JobDone
  <2> HIDE DEF u, proved
  <2>2. CASE job = "probe"
    BY <2>1, <2>2
  <2>3. CASE job = "safe"
    BY <2>1, <2>3
  <2>4. CASE job = "hidden"
    BY <2>1, <2>4
  <2>5. CASE job \notin {"probe", "safe", "hidden"}
    BY <2>1, <2>5
  <2> QED
    BY <2>2, <2>3, <2>4, <2>5
<1> HIDE DEF u
<1>3. /\ DOMAIN w = Fields
      /\ w.exe = [v.exe EXCEPT ![r].job = "none"]
      /\ w.gate = v.gate /\ w.closed = v.closed /\ SameRest(v, w)
      /\ DOMAIN w.out = Resources /\ DOMAIN w.probe = Resources
  BY <1>1, <1>2 DEF Shape, Fields, SameRest
<1>4. /\ job = "safe" => \E o \in {"safe", "pending", "fault"} : w.out = [v.out EXCEPT ![r] = o]
      /\ job # "safe" => w.out = v.out
      /\ job = "hidden" =>
            \E o \in {"safe", "pending", "fault"} : w.hid = [v.hid EXCEPT !.state = o]
      /\ job # "hidden" => w.hid = v.hid
  BY <1>1, <1>2 DEF Shape, Fields
<1> HIDE DEF proved
<1>5. SameOutputs(v, w) /\ DOMAIN w.hid = HiddenFields
  BY <1>4 DEF SameOutputs, Jobs, InFlight, Shape, HiddenFields
<1>6. \A q \in Resources \ {r} : w.exe[q] = v.exe[q] /\ w.out[q] = v.out[q]
  BY <1>3, <1>4 DEF Shape, ExecutorShape
<1>7. Jobs(w)
  <2>1. w.exe[r].job = "none"
    BY <1>3 DEF Shape, ExecutorShape, ExecutorFields
  <2>2. ASSUME NEW q \in Resources \ {r}, w.exe[q].job = "hidden"
        PROVE  q = Candidate /\ InFlight(w.hid.state)
    BY <1>4, <1>6, <2>2 DEF Jobs
  <2> QED
    BY <1>6, <2>1, <2>2 DEF Jobs
<1> QED
  BY <1>3, <1>5, <1>6, <1>7 DEF Executed, Shape, ExecutorShape, ExecutorFields

\* An idle executor starts the safe write of its output.
LEMMA SafeStarts ==
    ASSUME NEW v, Shape(v), Jobs(v), NEW r \in Resources,
           v.exe[r].job = "none", v.out[r] = "pending"
    PROVE  Executed(v, [[v EXCEPT !.out[r] = "started"] EXCEPT !.exe[r].job = "safe"], r)
<1> DEFINE w == [[v EXCEPT !.out[r] = "started"] EXCEPT !.exe[r].job = "safe"]
<1>1. /\ DOMAIN w = Fields
      /\ w.exe = [v.exe EXCEPT ![r].job = "safe"] /\ w.out = [v.out EXCEPT ![r] = "started"]
      /\ w.probe = v.probe /\ w.hid = v.hid
      /\ w.gate = v.gate /\ w.closed = v.closed /\ SameRest(v, w)
  BY DEF Shape, Fields, SameRest
<1> HIDE DEF w
<1>2. Jobs(w)
  BY <1>1 DEF Jobs, InFlight, Shape, ExecutorShape, ExecutorFields
<1>3. Executed(v, w, r)
  BY <1>1, <1>2 DEF Executed, Shape, ExecutorShape, ExecutorFields, SameOutputs
<1> QED
  BY <1>3 DEF w

\* It starts the safe write of the hidden output.
LEMMA HiddenStarts ==
    ASSUME NEW v, Shape(v), Jobs(v), NEW r \in Resources,
           v.exe[r].job = "none", HiddenDue(v, r)
    PROVE  Executed(v, [[v EXCEPT !.hid.state = "started", !.hid.sent = TRUE]
                           EXCEPT !.exe[r].job = "hidden"], r)
<1> DEFINE w == [[v EXCEPT !.hid.state = "started", !.hid.sent = TRUE]
                    EXCEPT !.exe[r].job = "hidden"]
<1>1. /\ DOMAIN w = Fields
      /\ w.exe = [v.exe EXCEPT ![r].job = "hidden"] /\ w.out = v.out /\ w.probe = v.probe
      /\ w.hid = [v.hid EXCEPT !.state = "started", !.sent = TRUE]
      /\ w.gate = v.gate /\ w.closed = v.closed /\ SameRest(v, w)
  BY DEF Shape, Fields, SameRest
<1> HIDE DEF w
<1>2. Jobs(w)
  BY <1>1 DEF Jobs, InFlight, Shape, ExecutorShape, ExecutorFields, HiddenFields, HiddenDue
<1>3. SameOutputs(v, w)
  BY <1>1 DEF SameOutputs, Shape, HiddenFields, HiddenDue
<1>4. Executed(v, w, r)
  BY <1>1, <1>2, <1>3 DEF Executed, Shape, ExecutorShape, ExecutorFields
<1> QED
  BY <1>4 DEF w

\* It starts a probe.
LEMMA ProbeStarts ==
    ASSUME NEW v, Shape(v), Jobs(v), NEW r \in Resources, v.exe[r].job = "none"
    PROVE  Executed(v, [[v EXCEPT !.probe[r] = "sent"] EXCEPT !.exe[r].job = "probe"], r)
<1> DEFINE w == [[v EXCEPT !.probe[r] = "sent"] EXCEPT !.exe[r].job = "probe"]
<1>1. /\ DOMAIN w = Fields
      /\ w.exe = [v.exe EXCEPT ![r].job = "probe"] /\ w.out = v.out
      /\ DOMAIN w.probe = Resources /\ w.hid = v.hid
      /\ w.gate = v.gate /\ w.closed = v.closed /\ SameRest(v, w)
  BY DEF Shape, Fields, SameRest
<1> HIDE DEF w
<1>2. Jobs(w)
  BY <1>1 DEF Jobs, InFlight, Shape, ExecutorShape, ExecutorFields
<1>3. Executed(v, w, r)
  BY <1>1, <1>2 DEF Executed, Shape, ExecutorShape, ExecutorFields, SameOutputs
<1> QED
  BY <1>3 DEF w

LEMMA ExecutedLane ==
    ASSUME NEW v, NEW a, Ready(Lane(v, a)), NEW r \in Resources, NEW w, Executed(v, w, r)
    PROVE  Turned(Lane(v, a), Lane(w, a)) /\ Ready(Lane(w, a))
<1>1. Lane(v, a).v = v /\ With(Lane(v, a), w) = Lane(w, a)
  BY DEF Lane, With
<1>2. Turned(Lane(v, a), Lane(w, a))
  BY <1>1, ExecutedTurned
<1> QED
  BY <1>2 DEF Turned, Moved

LEMMA LaneLaws ==
    ASSUME NEW v, NEW a
    PROVE  Lane(v, a).v = v /\ Lane(v, a).a = a
  BY DEF Lane

LEMMA ReadyParts ==
    ASSUME NEW v, NEW a, Ready(Lane(v, a))
    PROVE  Shape(v) /\ Jobs(v)
  BY DEF Ready, Lane

\* The job is lost with an executor that goes offline, or is fenced.
LEMMA FencedTurned ==
    ASSUME NEW v, NEW a, Ready(Lane(v, a)), NEW r \in Resources
    PROVE  Turned(Lane(v, a), Lane(QueueFenced(JobLost(v, r), r), a))
<1>1. Shape(v) /\ Jobs(v)
  BY ReadyParts
<1> DEFINE w == JobLost(v, r)
<1>2. Executed(v, w, r)
  BY <1>1, JobLostExecuted
<1> HIDE DEF w
<1>3. Turned(Lane(v, a), Lane(w, a)) /\ Ready(Lane(w, a))
  BY <1>2, ExecutedLane
<1>4. Executed(w, QueueFenced(w, r), r)
  BY <1>3, ReadyParts, QueueFencedExecuted
<1>5. Turned(Lane(w, a), Lane(QueueFenced(w, r), a))
  BY <1>3, <1>4, ExecutedLane
<1> QED
  BY <1>3, <1>5, TurnedTransitive DEF w

\* One poll of one executor.
LEMMA ExecutorTurned ==
    ASSUME NEW x, Ready(x), NEW r \in Resources, NEW y \in ExecutorTurn(x, r)
    PROVE  Turned(x, y)
<1> DEFINE v == x.v
           e == v.exe[r]
           i == e.adapter
           a == Drain(x.a[i])
           drained == [x.a EXCEPT ![i] = a]
           asked == [x.a EXCEPT ![i] = Request(a)]
           lost == QueueFenced(JobLost([v EXCEPT !.exe[r].offline = TRUE], r), r)
<1>1. i \in Adapters /\ AdapterInv(x.a[i]) /\ Shape(v) /\ Jobs(v)
  BY DEF Ready, ExecutorsClose, AdaptersInv
<1>2. Handled(x.a[i], a) /\ a.dropped = x.a[i].dropped
  BY <1>1, DrainHandled
<1>3. Handled(x.a[i], Request(a)) /\ Request(a).dropped = x.a[i].dropped
  <2> HIDE DEF a
  <2>1. Handled(a, Request(a)) /\ Request(a).dropped = a.dropped
    BY <1>2, RequestHandled DEF Handled
  <2> QED
    BY <1>2, <2>1 DEF Handled
<1>4. Turned(x, Lane(v, drained)) /\ Ready(Lane(v, drained))
  <2> HIDE DEF a, i
  <2>1. Turned(x, Lane(x.v, drained))
    BY <1>1, <1>2, AdapterTurned
  <2>2. Ready(Lane(x.v, drained))
    BY <2>1, Zenon DEF Turned, Moved
  <2> QED
    BY <2>1, <2>2
<1>5. Turned(x, Lane(v, asked)) /\ Ready(Lane(v, asked))
  <2> HIDE DEF a, i
  <2>1. Turned(x, Lane(x.v, asked))
    BY <1>1, <1>3, AdapterTurned
  <2>2. Ready(Lane(x.v, asked))
    BY <2>1, Zenon DEF Turned, Moved
  <2> QED
    BY <2>1, <2>2
<1>6. \/ y = x
      \/ y = Lane(lost, drained)
      \/ y = Lane(v, drained)
      \/ \E w \in JobDone(v, r) : y = Lane(w, drained)
      \/ /\ e.job = "none"
         /\ \/ /\ v.out[r] = "pending"
               /\ y = Lane([[v EXCEPT !.out[r] = "started"] EXCEPT !.exe[r].job = "safe"], asked)
            \/ /\ HiddenDue(v, r)
               /\ y = Lane([[v EXCEPT !.hid.state = "started", !.hid.sent = TRUE]
                              EXCEPT !.exe[r].job = "hidden"], asked)
            \/ y = Lane([[v EXCEPT !.probe[r] = "sent"] EXCEPT !.exe[r].job = "probe"], asked)
  <2> DEFINE starts(w, job) == {Lane([w EXCEPT !.exe[r].job = job], asked)}
  <2>1. y \in IF e.closed \/ e.offline THEN {x}
              ELSE IF a.fault THEN {Lane(lost, drained)}
              ELSE IF e.job # "none"
              THEN IF a.pending THEN {Lane(v, drained)}
                   ELSE {Lane(w, drained) : w \in JobDone(v, r)}
              ELSE IF ~TakesRequest(a) THEN {Lane(v, drained)}
              ELSE IF v.out[r] = "pending" THEN starts([v EXCEPT !.out[r] = "started"], "safe")
              ELSE IF HiddenDue(v, r)
              THEN starts([v EXCEPT !.hid.state = "started", !.hid.sent = TRUE], "hidden")
              ELSE IF v.probe[r] = "queued"
              THEN starts([v EXCEPT !.probe[r] = "sent"], "probe")
              ELSE {Lane(v, drained)}
    BY Zenon DEF ExecutorTurn
  <2> HIDE DEF v, e, a, drained, asked, lost
  <2> QED
    BY <2>1
<1> HIDE DEF a, drained, asked
<1>7. CASE y = x
  BY <1>7, TurnedReflexive
<1>8. CASE y = Lane(lost, drained)
  <2> DEFINE off == [v EXCEPT !.exe[r].offline = TRUE]
  <2>1. Executed(v, off, r)
    BY <1>1, OfflineExecuted
  <2> HIDE DEF off, v
  <2>2. Turned(Lane(v, drained), Lane(off, drained)) /\ Ready(Lane(off, drained))
    BY <1>4, <2>1, ExecutedLane
  <2>3. Turned(Lane(off, drained), y)
    BY <1>8, <2>2, FencedTurned DEF off
  <2> QED
    BY <1>4, <2>2, <2>3, TurnedTransitive
<1>9. CASE y = Lane(v, drained)
  BY <1>4, <1>9
<1>10. ASSUME NEW w \in JobDone(v, r), y = Lane(w, drained)
       PROVE  Turned(x, y)
  <2>1. Executed(v, w, r)
    BY <1>1, JobDoneExecuted
  <2> HIDE DEF v
  <2>2. Turned(Lane(v, drained), y)
    BY <1>4, <1>10, <2>1, ExecutedLane
  <2> QED
    BY <1>4, <2>2, TurnedTransitive
<1>11. ASSUME NEW w, Executed(v, w, r), y = Lane(w, asked)
       PROVE  Turned(x, y)
  <2> HIDE DEF v
  <2>1. Turned(Lane(v, asked), y)
    BY <1>5, <1>11, ExecutedLane
  <2> QED
    BY <1>5, <2>1, TurnedTransitive
<1>12. CASE e.job = "none" /\ v.out[r] = "pending"
            /\ y = Lane([[v EXCEPT !.out[r] = "started"] EXCEPT !.exe[r].job = "safe"], asked)
  <2> DEFINE w == [[v EXCEPT !.out[r] = "started"] EXCEPT !.exe[r].job = "safe"]
  <2>1. Shape(v) /\ Jobs(v) /\ v.exe[r].job = "none" /\ v.out[r] = "pending"
    BY <1>1, <1>12
  <2>2. y = Lane(w, asked)
    BY <1>12
  <2> HIDE DEF v
  <2>3. Executed(v, w, r)
    BY <2>1, SafeStarts, Zenon
  <2> HIDE DEF w
  <2> QED
    BY <1>11, <2>2, <2>3
<1>13. CASE e.job = "none" /\ HiddenDue(v, r)
            /\ y = Lane([[v EXCEPT !.hid.state = "started", !.hid.sent = TRUE]
                           EXCEPT !.exe[r].job = "hidden"], asked)
  <2> DEFINE w == [[v EXCEPT !.hid.state = "started", !.hid.sent = TRUE]
                 EXCEPT !.exe[r].job = "hidden"]
  <2>1. Shape(v) /\ Jobs(v) /\ v.exe[r].job = "none" /\ HiddenDue(v, r)
    BY <1>1, <1>13
  <2>2. y = Lane(w, asked)
    BY <1>13
  <2> HIDE DEF v
  <2>3. Executed(v, w, r)
    BY <2>1, HiddenStarts, Zenon
  <2> HIDE DEF w
  <2> QED
    BY <1>11, <2>2, <2>3
<1>14. CASE e.job = "none"
            /\ y = Lane([[v EXCEPT !.probe[r] = "sent"] EXCEPT !.exe[r].job = "probe"], asked)
  <2> DEFINE w == [[v EXCEPT !.probe[r] = "sent"] EXCEPT !.exe[r].job = "probe"]
  <2>1. Shape(v) /\ Jobs(v) /\ v.exe[r].job = "none"
    BY <1>1, <1>14
  <2>2. y = Lane(w, asked)
    BY <1>14
  <2> HIDE DEF v
  <2>3. Executed(v, w, r)
    BY <2>1, ProbeStarts, Zenon
  <2> HIDE DEF w
  <2> QED
    BY <1>11, <2>2, <2>3
<1> QED
  BY <1>6, <1>7, <1>8, <1>9, <1>10, <1>12, <1>13, <1>14

\* A turn touches the adapters of the executors and no other.
Elsewhere(x, y) ==
    \A i \in Adapters : (\A r \in Resources : x.v.exe[r].adapter # i) => y.a[i] = x.a[i]

LEMMA ElsewhereTransitive ==
    ASSUME NEW x, NEW y, NEW z, Moved(x, y), Elsewhere(x, y), Elsewhere(y, z)
    PROVE  Elsewhere(x, z)
  BY DEF Moved, SameAdapters, Elsewhere

LEMMA ExecutorElsewhere ==
    ASSUME NEW x, Ready(x), NEW r \in Resources, NEW y \in ExecutorTurn(x, r)
    PROVE  Elsewhere(x, y)
<1> DEFINE v == x.v
           i == v.exe[r].adapter
           a == Drain(x.a[i])
           drained == [x.a EXCEPT ![i] = a]
           asked == [x.a EXCEPT ![i] = Request(a)]
           starts(w, job) == {Lane([w EXCEPT !.exe[r].job = job], asked)}
           lost == QueueFenced(JobLost([v EXCEPT !.exe[r].offline = TRUE], r), r)
<1>1. y \in IF v.exe[r].closed \/ v.exe[r].offline THEN {x}
            ELSE IF a.fault THEN {Lane(lost, drained)}
            ELSE IF v.exe[r].job # "none"
            THEN IF a.pending THEN {Lane(v, drained)}
                 ELSE {Lane(w, drained) : w \in JobDone(v, r)}
            ELSE IF ~TakesRequest(a) THEN {Lane(v, drained)}
            ELSE IF v.out[r] = "pending" THEN starts([v EXCEPT !.out[r] = "started"], "safe")
            ELSE IF HiddenDue(v, r)
            THEN starts([v EXCEPT !.hid.state = "started", !.hid.sent = TRUE], "hidden")
            ELSE IF v.probe[r] = "queued"
            THEN starts([v EXCEPT !.probe[r] = "sent"], "probe")
            ELSE {Lane(v, drained)}
  BY Zenon DEF ExecutorTurn
<1> HIDE DEF drained, asked, lost
<1>2. \/ y = x
      \/ \E w : y = Lane(w, drained) \/ y = Lane(w, asked)
  BY <1>1
<1>3. y.a = x.a \/ y.a = drained \/ y.a = asked
  BY <1>2 DEF Lane
<1>4. \A j \in Adapters \ {i} : drained[j] = x.a[j] /\ asked[j] = x.a[j]
  BY DEF drained, asked, Ready, AdaptersInv
<1> QED
  BY <1>3, <1>4 DEF Elsewhere

\* Among some subsets of a finite set one has none of them inside.
LEMMA LeastSubset ==
    ASSUME NEW D, IsFiniteSet(D), NEW T, T \subseteq SUBSET D, T # {}
    PROVE  \E U \in T : \A V \in T : V \subseteq U => V = U
<1> DEFINE F == FiniteSubsetsOf(D)
           R == StrictSubsetOrdering(D)
<1>1. IsWellFoundedOn(R, F)
  BY FS_StrictSubsetOrderingWellFounded
<1>2. T \subseteq F
  BY FS_Subset DEF FiniteSubsetsOf
<1>3. \A V, U \in F : V \subseteq U /\ V # U => <<V, U>> \in R
  BY DEF FiniteSubsetsOf, StrictSubsetOrdering
<1> HIDE DEF F, R
<1>4. PICK U \in T : \A V \in T : ~(<<V, U>> \in R)
  BY <1>1, <1>2, WFMin
<1>5. \A V \in T : V \subseteq U => V = U
  BY <1>2, <1>3, <1>4
<1> QED
  BY <1>5

First(S) == CHOOSE s \in S : TRUE
LEMMA FirstLaws ==
    ASSUME NEW S, S # {}
    PROVE  /\ First(S) \in S
           /\ S \ {First(S)} \subseteq S /\ S \ {First(S)} # S
  BY DEF First

\* The poll of a set of executors, one after the other.
PolledBody(f, x, S) ==
    IF S = {} THEN {x} ELSE UNION {ExecutorTurn(y, First(S)) : y \in f[S \ {First(S)}]}
Polls(f, x, D) == f = [S \in SUBSET D |-> PolledBody(f, x, S)]

LEMMA PolledAgree ==
    ASSUME NEW f, NEW g, NEW x, NEW S,
           S # {} => f[S \ {First(S)}] = g[S \ {First(S)}]
    PROVE  PolledBody(f, x, S) = PolledBody(g, x, S)
  BY DEF PolledBody

LEMMA PollsUnique ==
    ASSUME NEW D, IsFiniteSet(D), NEW E, NEW x, NEW f, NEW g, Polls(f, x, D), Polls(g, x, E),
           NEW S \in SUBSET D, S \in SUBSET E
    PROVE  f[S] = g[S]
<1> DEFINE T == {U \in SUBSET D : U \in SUBSET E /\ f[U] # g[U]}
<1>1. SUFFICES ASSUME T # {} PROVE FALSE
  OBVIOUS
<1>2. PICK U \in T : \A V \in T : V \subseteq U => V = U
  <2>1. T \subseteq SUBSET D
    OBVIOUS
  <2> HIDE DEF T
  <2> QED
    BY <1>1, <2>1, LeastSubset
<1>3. U \in SUBSET D /\ U \in SUBSET E /\ f[U] # g[U]
  OBVIOUS
<1>4. f[U] = PolledBody(f, x, U) /\ g[U] = PolledBody(g, x, U)
  <2> HIDE DEF T
  <2> QED
    BY <1>3 DEF Polls
<1>5. ASSUME U # {} PROVE f[U \ {First(U)}] = g[U \ {First(U)}]
  <2> DEFINE V == U \ {First(U)}
  <2>1. V \subseteq U /\ V # U
    BY <1>5, FirstLaws
  <2>2. V \notin T
    <3> HIDE DEF T, V
    <3> QED
      BY <1>2, <2>1
  <2> QED
    BY <1>3, <2>1, <2>2
<1> QED
  BY <1>3, <1>4, <1>5, PolledAgree

LEMMA PollsExist ==
    ASSUME NEW D, IsFiniteSet(D), NEW x
    PROVE  \E f : Polls(f, x, D)
<1> DEFINE T == {U \in SUBSET D : ~ \E f : Polls(f, x, U)}
<1>1. SUFFICES ASSUME T # {} PROVE FALSE
  OBVIOUS
<1>2. PICK U \in T : \A V \in T : V \subseteq U => V = U
  <2>1. T \subseteq SUBSET D
    OBVIOUS
  <2> HIDE DEF T
  <2> QED
    BY <1>1, <2>1, LeastSubset
<1>3. U \in SUBSET D /\ ~ \E f : Polls(f, x, U)
  OBVIOUS
<1> DEFINE of(V) == CHOOSE f : Polls(f, x, V)
           h == [S \in SUBSET U |-> PolledBody(of(S \ {First(S)}), x, S)]
<1>4. ASSUME NEW V \in SUBSET U, V # U
      PROVE  Polls(of(V), x, V) /\ IsFiniteSet(V)
  <2>1. V \notin T /\ V \in SUBSET D
    <3> HIDE DEF T
    <3> QED
      BY <1>2, <1>3, <1>4
  <2>2. \E f : Polls(f, x, V)
    BY <2>1
  <2> QED
    BY <2>1, <2>2, FS_Subset
<1>5. ASSUME NEW S \in SUBSET U, S # {}
      PROVE  h[S \ {First(S)}] = of(S \ {First(S)})[S \ {First(S)}]
  <2> DEFINE V == S \ {First(S)}
             W == V \ {First(V)}
  <2>1. V \subseteq S /\ V # S /\ V \in SUBSET U /\ V # U
    BY <1>5, FirstLaws
  <2>2. h[V] = PolledBody(of(W), x, V)
    <3> HIDE DEF V
    <3> QED
      BY <2>1
  <2> HIDE DEF V
  <2>3. Polls(of(V), x, V) /\ IsFiniteSet(V)
    BY <1>4, <2>1
  <2>4. of(V)[V] = PolledBody(of(V), x, V)
    <3> HIDE DEF of
    <3> QED
      BY <2>3 DEF Polls
  <2>5. ASSUME V # {} PROVE of(W)[W] = of(V)[W]
    <3>1. W \subseteq V /\ W # V
      BY <2>5, FirstLaws
    <3>2. W \in SUBSET U /\ W # U
      BY <2>1, <3>1
    <3> HIDE DEF W
    <3>3. Polls(of(W), x, W) /\ IsFiniteSet(W)
      BY <1>4, <3>2
    <3> HIDE DEF of
    <3> QED
      BY <2>3, <3>1, <3>3, PollsUnique
  <2> HIDE DEF of
  <2>6. PolledBody(of(W), x, V) = PolledBody(of(V), x, V)
    BY <2>5, PolledAgree
  <2> QED
    BY <2>2, <2>4, <2>6 DEF V
<1> HIDE DEF T, of
<1>6. ASSUME NEW S \in SUBSET U
      PROVE  h[S] = PolledBody(h, x, S)
  <2>1. h[S] = PolledBody(of(S \ {First(S)}), x, S)
    OBVIOUS
  <2> HIDE DEF h
  <2>2. S # {} => of(S \ {First(S)})[S \ {First(S)}] = h[S \ {First(S)}]
    BY <1>5
  <2> QED
    BY <2>1, <2>2, PolledAgree
<1>7. Polls(h, x, U)
  <2> DEFINE k == [S \in SUBSET U |-> PolledBody(h, x, S)]
  <2>1. h = k
    BY <1>6
  <2> QED
    BY <2>1 DEF Polls
<1> QED
  BY <1>3, <1>7

\* The poll of every executor keeps what a turn keeps.
LEMMA PollTurned ==
    ASSUME NEW x, Ready(x), NEW y \in PollExecutors(x)
    PROVE  Turned(x, y) /\ Elsewhere(x, y)
<1> DEFINE f == CHOOSE f : Polls(f, x, Resources)
<1>1. IsFiniteSet(Resources)
  BY LifecycleAssumption
<1>2. PollExecutors(x) = f[Resources]
  BY DEF PollExecutors, Polls, PolledBody, First
<1>3. Polls(f, x, Resources)
  BY <1>1, PollsExist
<1> HIDE DEF f
<1>4. \A S \in SUBSET Resources : f[S] = PolledBody(f, x, S)
  BY <1>3 DEF Polls
<1> DEFINE T == {S \in SUBSET Resources :
                    \E z \in f[S] : ~(Turned(x, z) /\ Elsewhere(x, z))}
<1>5. T = {}
  <2>1. SUFFICES ASSUME T # {} PROVE FALSE
    OBVIOUS
  <2>2. PICK S \in T : \A V \in T : V \subseteq S => V = S
    <3>1. T \subseteq SUBSET Resources
      OBVIOUS
    <3> HIDE DEF T
    <3> QED
      BY <1>1, <2>1, <3>1, LeastSubset
  <2>3. S \in SUBSET Resources
    OBVIOUS
  <2>4. PICK z \in f[S] : ~(Turned(x, z) /\ Elsewhere(x, z))
    OBVIOUS
  <2>5. z \in PolledBody(f, x, S)
    <3> HIDE DEF T
    <3> QED
      BY <1>4, <2>3, <2>4
  <2>6. S # {}
    <3>1. S = {} => z = x
      BY <2>5 DEF PolledBody
    <3> QED
      BY <2>4, <3>1, TurnedReflexive DEF Elsewhere
  <2> DEFINE V == S \ {First(S)}
  <2>7. V \subseteq S /\ V # S /\ First(S) \in S
    BY <2>6, FirstLaws
  <2>8. PICK w \in f[V] : z \in ExecutorTurn(w, First(S))
    BY <2>5, <2>6 DEF PolledBody
  <2>9. Turned(x, w) /\ Elsewhere(x, w)
    <3>1. V \notin T
      <4> HIDE DEF T, V
      <4> QED
        BY <2>2, <2>7
    <3>2. V \in SUBSET Resources
      BY <2>3, <2>7
    <3> HIDE DEF V
    <3> QED
      BY <2>8, <3>1, <3>2
  <2>10. Ready(w) /\ First(S) \in Resources
    BY <2>3, <2>7, <2>9 DEF Turned, Moved
  <2>11. Turned(w, z) /\ Elsewhere(w, z)
    BY <2>8, <2>10, ExecutorTurned, ExecutorElsewhere
  <2> QED
    BY <2>4, <2>9, <2>11, TurnedTransitive, ElsewhereTransitive DEF Turned
<1> QED
  BY <1>2, <1>5

\* Only the executor of r closes, with its adapter; nothing is marked closed yet.
Shut(x, y, r) ==
    /\ Moved(x, y)
    /\ y.v.closed = x.v.closed
    /\ \A q \in Resources \ {r} : y.v.exe[q].closed = x.v.exe[q].closed

LEMMA ShutdownShut ==
    ASSUME NEW x, Ready(x), NEW r \in Resources
    PROVE  /\ Shut(x, ShutdownTransport(x, r), r)
           /\ ShutdownTransport(x, r).v.gate = x.v.gate
<1> DEFINE v == QueueFenced(JobLost(x.v, r), r)
           i == v.exe[r].adapter
           a == TryShutdown(x.a[i])
           aa == [x.a EXCEPT ![i] = a]
           w == [v EXCEPT !.exe[r].offline = TRUE, !.exe[r].closed = IsClosed(a)]
           y == ShutdownTransport(x, r)
<1>1. Shape(x.v) /\ Jobs(x.v) /\ x = Lane(x.v, x.a)
  BY DEF Ready
<1>2. Executed(x.v, JobLost(x.v, r), r)
  BY <1>1, JobLostExecuted
<1>3. Turned(x, Lane(v, x.a)) /\ Ready(Lane(v, x.a))
  <2>1. Ready(Lane(x.v, x.a))
    BY <1>1
  <2>2. Turned(Lane(x.v, x.a), Lane(v, x.a))
    BY <2>1, FencedTurned
  <2> HIDE DEF v
  <2>3. Turned(x, Lane(v, x.a))
    BY <1>1, <2>2
  <2> QED
    BY <2>3 DEF Turned, Moved
<1>4. \A q \in Resources : v.exe[q].closed = x.v.exe[q].closed
  <2> DEFINE u == JobLost(x.v, r)
  <2>1. Executed(x.v, u, r)
    BY <1>2
  <2> HIDE DEF u
  <2>2. Shape(u) /\ Jobs(u)
    BY <1>1, <2>1 DEF Executed, Shape, SameRest
  <2>3. Executed(u, QueueFenced(u, r), r)
    BY <2>2, QueueFencedExecuted
  <2>4. v = QueueFenced(u, r)
    BY DEF u
  <2> HIDE DEF v
  <2> QED
    BY <2>1, <2>3, <2>4 DEF Executed
<1>5. v.gate = x.v.gate /\ v.closed = x.v.closed
  <2> DEFINE u == JobLost(x.v, r)
  <2>1. Executed(x.v, u, r)
    BY <1>2
  <2> HIDE DEF u
  <2>2. Shape(u) /\ Jobs(u)
    BY <1>1, <2>1 DEF Executed, Shape, SameRest
  <2>3. Executed(u, QueueFenced(u, r), r)
    BY <2>2, QueueFencedExecuted
  <2>4. v = QueueFenced(u, r)
    BY DEF u
  <2> HIDE DEF v
  <2> QED
    BY <2>1, <2>3, <2>4 DEF Executed
<1>6. y = IF v.exe[r].closed THEN Lane(v, x.a) ELSE Lane(w, aa)
  BY DEF ShutdownTransport
<1> HIDE DEF v
<1>7. CASE v.exe[r].closed
  <2>1. y = Lane(v, x.a) /\ y.v = v
    BY <1>6, <1>7 DEF Lane
  <2> HIDE DEF y
  <2>2. Shut(x, y, r) /\ y.v.gate = x.v.gate
    BY <1>3, <1>4, <1>5, <2>1 DEF Shut, Turned
  <2> QED
    BY <2>2 DEF y
<1>8. CASE ~v.exe[r].closed
  <2>1. Shape(v) /\ Jobs(v) /\ ExecutorsClose(v, x.a) /\ AdaptersInv(x.a) /\ i \in Adapters
    BY <1>3 DEF Ready, Lane, ExecutorsClose
  <2>2. Handled(x.a[i], a) /\ a.dropped = x.a[i].dropped
    BY <2>1, ShutdownHandled DEF AdaptersInv
  <2> HIDE DEF a
  <2>3. Turned(Lane(v, x.a), Lane(v, aa)) /\ Ready(Lane(v, aa))
    <3> DEFINE z == Lane(v, x.a)
    <3>1. z.v = v /\ z.a = x.a /\ Ready(z)
      BY <1>3 DEF Lane
    <3> HIDE DEF z, i
    <3>2. Turned(z, Lane(v, aa))
      BY <2>1, <2>2, <3>1, AdapterTurned
    <3>3. Ready(Lane(v, aa))
      BY <3>2 DEF Turned, Moved
    <3> QED
      BY <3>2, <3>3 DEF z
  <2>4. Turned(x, Lane(v, aa))
    BY <1>3, <2>3, TurnedTransitive
  <2>5. aa[i] = a /\ DOMAIN aa = Adapters
    BY <2>1 DEF AdaptersInv
  <2>6. /\ DOMAIN w = Fields
        /\ w.exe = [v.exe EXCEPT ![r] = [v.exe[r] EXCEPT !.offline = TRUE,
                                                       !.closed = IsClosed(a)]]
        /\ w.out = v.out /\ w.probe = v.probe /\ w.hid = v.hid /\ w.gate = v.gate
        /\ w.closed = v.closed /\ SameRest(v, w)
    BY <2>1 DEF Shape, Fields, SameRest
  <2> HIDE DEF w
  <2>7. /\ ExecutorShape(w.exe)
        /\ \A q \in Resources \ {r} : w.exe[q] = v.exe[q]
        /\ w.exe[r].adapter = v.exe[r].adapter /\ w.exe[r].job = v.exe[r].job
        /\ w.exe[r].offline /\ (w.exe[r].closed <=> IsClosed(a))
    BY <2>1, <2>6 DEF Shape, ExecutorShape, ExecutorFields, IsClosed
  <2>8. Shape(w) /\ Jobs(w)
    <3>1. Shape(w)
      BY <2>1, <2>6, <2>7 DEF Shape, SameRest
    <3>2. \A q \in Resources : w.exe[q].job = v.exe[q].job
      BY <2>7
    <3> QED
      BY <2>1, <2>6, <3>1, <3>2 DEF Jobs
  <2> HIDE DEF aa
  <2>9. ExecutorsClose(v, aa) /\ AdaptersInv(aa)
    BY <2>3 DEF Ready, Lane
  <2>10. ExecutorsClose(w, aa)
    <3>1. \A q \in Resources : w.exe[q].adapter = v.exe[q].adapter
      BY <2>7
    <3>2. r \notin w.closed
      BY <1>8, <2>6, <2>9 DEF ExecutorsClose
    <3> QED
      BY <2>5, <2>6, <2>7, <2>9, <3>1, <3>2 DEF ExecutorsClose
  <2>11. y = Lane(w, aa) /\ y.v = w /\ y.a = aa
    BY <1>6, <1>8 DEF Lane, w, aa
  <2> HIDE DEF y
  <2>12. Ready(y)
    BY <2>8, <2>9, <2>10, <2>11 DEF Ready
  <2> DEFINE z == Lane(v, aa)
  <2>13. z.v = v /\ z.a = aa /\ Turned(x, z)
    BY <2>4 DEF Lane
  <2> HIDE DEF z
  <2>14. SameRest(x.v, w)
    BY <2>6, <2>13 DEF Turned, Moved, SameRest
  <2>15. SameOutputs(x.v, w)
    BY <2>6, <2>13 DEF Turned, Moved, SameOutputs
  <2>16. SameAdapters(x.v, x.a, w, aa)
    BY <2>7, <2>13 DEF Turned, Moved, SameAdapters
  <2>17. Moved(x, y)
    <3>1. \A q \in Resources : x.v.exe[q].closed => w.exe[q].closed
      BY <1>4, <1>8, <2>7
    <3>2. w.gate = x.v.gate /\ w.closed = x.v.closed
      BY <1>5, <2>6
    <3> QED
      BY <2>11, <2>12, <2>14, <2>15, <2>16, <3>1, <3>2 DEF Moved, Gated
  <2>18. \A q \in Resources \ {r} : w.exe[q].closed = x.v.exe[q].closed
    BY <1>4, <2>7
  <2>19. Shut(x, y, r)
    BY <1>5, <2>6, <2>11, <2>17, <2>18 DEF Shut
  <2>20. y.v.gate = x.v.gate
    BY <1>5, <2>6, <2>11
  <2> QED
    BY <2>19, <2>20 DEF y
<1> QED
  BY <1>7, <1>8

LEMMA WithLaws ==
    ASSUME NEW x, x = Lane(x.v, x.a), NEW v, NEW w
    PROVE  /\ With(x, v) = Lane(v, x.a) /\ With(x, v).v = v /\ With(x, v).a = x.a
           /\ With(With(x, v), w) = With(x, w)
<1>1. With(x, v) = Lane(v, x.a) /\ With(x, w) = Lane(w, x.a)
  BY DEF With, Lane
<1>2. With(Lane(v, x.a), w) = Lane(w, x.a)
  BY DEF With, Lane
<1> QED
  BY <1>1, <1>2 DEF Lane

LEMMA ShutdownElsewhere ==
    ASSUME NEW x, Ready(x), NEW r \in Resources
    PROVE  Elsewhere(x, ShutdownTransport(x, r))
<1> DEFINE v == QueueFenced(JobLost(x.v, r), r)
           i == v.exe[r].adapter
           y == ShutdownTransport(x, r)
<1>1. \/ y.a = x.a
      \/ y.a = [x.a EXCEPT ![i] = TryShutdown(x.a[i])]
  BY DEF ShutdownTransport, Lane
<1>2. i = x.v.exe[r].adapter
  <2>1. Ready(Lane(x.v, x.a))
    BY DEF Ready
  <2>2. Turned(Lane(x.v, x.a), Lane(v, x.a))
    BY <2>1, FencedTurned
  <2> HIDE DEF v
  <2> QED
    BY <2>2, LaneLaws DEF Turned, Moved, SameAdapters
<1> HIDE DEF v, y
<1>3. \A j \in Adapters : j # x.v.exe[r].adapter => y.a[j] = x.a[j]
  BY <1>1, <1>2 DEF Ready, AdaptersInv
<1> QED
  BY <1>3 DEF Elsewhere, y

\* The transports that are closed, one after the other.
ShutBody(f, x, S) ==
    IF S = {} THEN x
    ELSE LET y == ShutdownTransport(f[S \ {First(S)}], First(S)) IN
         IF First(S) \in x.v.closed THEN f[S \ {First(S)}]
         ELSE IF IsRetired(y, First(S))
         THEN With(y, [y.v EXCEPT !.closed = @ \cup {First(S)}]) ELSE y
Shuts(f, x, D) == f = [S \in SUBSET D |-> ShutBody(f, x, S)]

LEMMA ShutAgree ==
    ASSUME NEW f, NEW g, NEW x, NEW S,
           S # {} => f[S \ {First(S)}] = g[S \ {First(S)}]
    PROVE  ShutBody(f, x, S) = ShutBody(g, x, S)
  BY DEF ShutBody

LEMMA ShutsUnique ==
    ASSUME NEW D, IsFiniteSet(D), NEW E, NEW x, NEW f, NEW g, Shuts(f, x, D), Shuts(g, x, E),
           NEW S \in SUBSET D, S \in SUBSET E
    PROVE  f[S] = g[S]
<1> DEFINE T == {U \in SUBSET D : U \in SUBSET E /\ f[U] # g[U]}
<1>1. SUFFICES ASSUME T # {} PROVE FALSE
  OBVIOUS
<1>2. PICK U \in T : \A V \in T : V \subseteq U => V = U
  <2>1. T \subseteq SUBSET D
    OBVIOUS
  <2> HIDE DEF T
  <2> QED
    BY <1>1, <2>1, LeastSubset
<1>3. U \in SUBSET D /\ U \in SUBSET E /\ f[U] # g[U]
  OBVIOUS
<1>4. f[U] = ShutBody(f, x, U) /\ g[U] = ShutBody(g, x, U)
  <2> HIDE DEF T
  <2> QED
    BY <1>3 DEF Shuts
<1>5. ASSUME U # {} PROVE f[U \ {First(U)}] = g[U \ {First(U)}]
  <2> DEFINE V == U \ {First(U)}
  <2>1. V \subseteq U /\ V # U
    BY <1>5, FirstLaws
  <2>2. V \notin T
    <3> HIDE DEF T, V
    <3> QED
      BY <1>2, <2>1
  <2> QED
    BY <1>3, <2>1, <2>2
<1> QED
  BY <1>3, <1>4, <1>5, ShutAgree

LEMMA ShutsExist ==
    ASSUME NEW D, IsFiniteSet(D), NEW x
    PROVE  \E f : Shuts(f, x, D)
<1> DEFINE T == {U \in SUBSET D : ~ \E f : Shuts(f, x, U)}
<1>1. SUFFICES ASSUME T # {} PROVE FALSE
  OBVIOUS
<1>2. PICK U \in T : \A V \in T : V \subseteq U => V = U
  <2>1. T \subseteq SUBSET D
    OBVIOUS
  <2> HIDE DEF T
  <2> QED
    BY <1>1, <2>1, LeastSubset
<1>3. U \in SUBSET D /\ ~ \E f : Shuts(f, x, U)
  OBVIOUS
<1> DEFINE of(V) == CHOOSE f : Shuts(f, x, V)
           h == [S \in SUBSET U |-> ShutBody(of(S \ {First(S)}), x, S)]
<1>4. ASSUME NEW V \in SUBSET U, V # U
      PROVE  Shuts(of(V), x, V) /\ IsFiniteSet(V)
  <2>1. V \notin T /\ V \in SUBSET D
    <3> HIDE DEF T
    <3> QED
      BY <1>2, <1>3, <1>4
  <2>2. \E f : Shuts(f, x, V)
    BY <2>1
  <2> QED
    BY <2>1, <2>2, FS_Subset
<1>5. ASSUME NEW S \in SUBSET U, S # {}
      PROVE  h[S \ {First(S)}] = of(S \ {First(S)})[S \ {First(S)}]
  <2> DEFINE V == S \ {First(S)}
             W == V \ {First(V)}
  <2>1. V \subseteq S /\ V # S /\ V \in SUBSET U /\ V # U
    BY <1>5, FirstLaws
  <2>2. h[V] = ShutBody(of(W), x, V)
    <3> HIDE DEF V
    <3> QED
      BY <2>1
  <2> HIDE DEF V
  <2>3. Shuts(of(V), x, V) /\ IsFiniteSet(V)
    BY <1>4, <2>1
  <2>4. of(V)[V] = ShutBody(of(V), x, V)
    <3> HIDE DEF of
    <3> QED
      BY <2>3 DEF Shuts
  <2>5. ASSUME V # {} PROVE of(W)[W] = of(V)[W]
    <3>1. W \subseteq V /\ W # V
      BY <2>5, FirstLaws
    <3>2. W \in SUBSET U /\ W # U
      BY <2>1, <3>1
    <3> HIDE DEF W
    <3>3. Shuts(of(W), x, W) /\ IsFiniteSet(W)
      BY <1>4, <3>2
    <3> HIDE DEF of
    <3> QED
      BY <2>3, <3>1, <3>3, ShutsUnique
  <2> HIDE DEF of
  <2>6. ShutBody(of(W), x, V) = ShutBody(of(V), x, V)
    BY <2>5, ShutAgree
  <2> QED
    BY <2>2, <2>4, <2>6 DEF V
<1> HIDE DEF T, of
<1>6. ASSUME NEW S \in SUBSET U
      PROVE  h[S] = ShutBody(h, x, S)
  <2>1. h[S] = ShutBody(of(S \ {First(S)}), x, S)
    OBVIOUS
  <2> HIDE DEF h
  <2>2. S # {} => of(S \ {First(S)})[S \ {First(S)}] = h[S \ {First(S)}]
    BY <1>5
  <2> QED
    BY <2>1, <2>2, ShutAgree
<1>7. Shuts(h, x, U)
  <2> DEFINE k == [S \in SUBSET U |-> ShutBody(h, x, S)]
  <2>1. h = k
    BY <1>6
  <2> QED
    BY <2>1 DEF Shuts
<1> QED
  BY <1>3, <1>7

LEMMA ClosedMoves ==
    ASSUME NEW x, Ready(x), NEW r \in Resources, x.v.exe[r].closed
    PROVE  Moved(x, With(x, [x.v EXCEPT !.closed = @ \cup {r}]))
<1> DEFINE v == x.v
           w == [v EXCEPT !.closed = @ \cup {r}]
           y == With(x, w)
<1>1. y = Lane(w, x.a) /\ y.v = w /\ y.a = x.a
  BY DEF Ready, Lane, With
<1>2. /\ DOMAIN w = Fields
      /\ w.exe = v.exe /\ w.out = v.out /\ w.probe = v.probe /\ w.hid = v.hid
      /\ w.gate = v.gate /\ w.closed = v.closed \cup {r} /\ SameRest(v, w)
  BY DEF Ready, Shape, Fields, SameRest
<1> HIDE DEF y, w
<1>3. Shape(w)
  BY <1>2 DEF Ready, Shape, SameRest
<1>4. Ready(y)
  BY <1>1, <1>2, <1>3 DEF Ready, Jobs, ExecutorsClose
<1>5. Moved(x, y)
  BY <1>1, <1>2, <1>4 DEF Moved, SameOutputs, SameAdapters, Gated
<1> QED
  BY <1>5 DEF y, w

\* Transports close only while the service stops.
LEMMA ClosingTurned ==
    ASSUME NEW x, Ready(x)
    PROVE  Turned(x, TransportsClosing(x)) /\ Elsewhere(x, TransportsClosing(x))
<1>1. CASE ~x.v.stopping \/ ~PublishedSafe(x.v)
  BY <1>1, TurnedReflexive DEF TransportsClosing, Elsewhere
<1>2. CASE x.v.stopping /\ PublishedSafe(x.v)
  <2> DEFINE f == CHOOSE f : Shuts(f, x, Resources)
  <2>1. IsFiniteSet(Resources)
    BY LifecycleAssumption
  <2>2. TransportsClosing(x) = f[Resources]
    BY <1>2 DEF TransportsClosing, Shuts, ShutBody, First
  <2>3. Shuts(f, x, Resources)
    BY <2>1, ShutsExist
  <2> HIDE DEF f
  <2>4. \A S \in SUBSET Resources : f[S] = ShutBody(f, x, S)
    BY <2>3 DEF Shuts
  <2> DEFINE T == {S \in SUBSET Resources : ~(Moved(x, f[S]) /\ Elsewhere(x, f[S]))}
  <2>5. T = {}
    <3>1. SUFFICES ASSUME T # {} PROVE FALSE
      OBVIOUS
    <3>2. PICK S \in T : \A V \in T : V \subseteq S => V = S
      <4>1. T \subseteq SUBSET Resources
        OBVIOUS
      <4> HIDE DEF T
      <4> QED
        BY <2>1, <3>1, <4>1, LeastSubset
    <3>3. S \in SUBSET Resources /\ ~(Moved(x, f[S]) /\ Elsewhere(x, f[S]))
      OBVIOUS
    <3>4. f[S] = ShutBody(f, x, S)
      <4> HIDE DEF T
      <4> QED
        BY <2>4, <3>3
    <3>5. S # {}
      <4>1. S = {} => f[S] = x
        BY <3>4 DEF ShutBody
      <4>2. Moved(x, x) /\ Elsewhere(x, x)
        BY TurnedReflexive DEF Turned, Elsewhere
      <4> QED
        BY <3>3, <4>1, <4>2
    <3> DEFINE V == S \ {First(S)}
               z == ShutdownTransport(f[V], First(S))
    <3>6. V \subseteq S /\ V # S /\ First(S) \in S
      BY <3>5, FirstLaws
    <3>7. Moved(x, f[V]) /\ Elsewhere(x, f[V])
      <4>1. V \notin T
        <5> HIDE DEF T, V
        <5> QED
          BY <3>2, <3>6
      <4>2. V \in SUBSET Resources
        BY <3>3, <3>6
      <4> HIDE DEF V
      <4> QED
        BY <4>1, <4>2
    <3>8. First(S) \in Resources /\ Ready(f[V])
      BY <3>3, <3>6, <3>7 DEF Moved
    <3>9. Moved(f[V], z) /\ Ready(z) /\ Elsewhere(f[V], z)
      BY <3>8, ShutdownShut, ShutdownElsewhere DEF Shut, Moved
    <3>10. Moved(x, z) /\ Elsewhere(x, z)
      BY <3>7, <3>9, MovedTransitive, ElsewhereTransitive
    <3>11. \/ f[S] = f[V]
           \/ f[S] = z
           \/ IsRetired(z, First(S)) /\ f[S] = With(z, [z.v EXCEPT !.closed = @ \cup {First(S)}])
      BY <3>4, <3>5 DEF ShutBody
    <3> HIDE DEF z, V
    <3>12. CASE IsRetired(z, First(S))
                /\ f[S] = With(z, [z.v EXCEPT !.closed = @ \cup {First(S)}])
      <4>1. Moved(z, f[S])
        BY <3>8, <3>9, <3>12, ClosedMoves DEF IsRetired
      <4>2. Elsewhere(z, f[S])
        BY <3>9, <3>12, WithLaws DEF Elsewhere, Ready
      <4> QED
        BY <3>3, <3>10, <4>1, <4>2, MovedTransitive, ElsewhereTransitive
    <3> QED
      BY <3>3, <3>7, <3>10, <3>11, <3>12
  <2>6. Moved(x, TransportsClosing(x)) /\ Elsewhere(x, TransportsClosing(x))
    <3>1. Resources \in SUBSET Resources /\ Resources \notin T
      BY <2>5
    <3> QED
      BY <2>2, <3>1
  <2> QED
    BY <1>2, <2>6 DEF Turned
<1> QED
  BY <1>1, <1>2

\* One turn of the owner.
LEMMA TurnsTurned ==
    ASSUME NEW x, Ready(x), NEW y \in Turns(x)
    PROVE  Turned(x, y) /\ Elsewhere(x, y)
<1>1. PICK z \in PollExecutors(x) : y = TransportsClosing(With(z, RecorderPolled(z.v)))
  BY DEF Turns
<1>2. Turned(x, z) /\ Ready(z) /\ Elsewhere(x, z)
  BY PollTurned DEF Turned, Moved
<1> DEFINE v == z.v
           w == RecorderPolled(v)
           u == With(z, w)
<1>3. u = Lane(w, z.a) /\ u.v = w /\ u.a = z.a
  BY <1>2 DEF Ready, Lane, With
<1>4. /\ DOMAIN w = Fields
      /\ w.exe = v.exe /\ w.out = v.out /\ w.probe = v.probe /\ w.hid = v.hid
      /\ Gated(v, w) /\ w.closed = v.closed /\ SameRest(v, w)
  BY <1>2 DEF Ready, Shape, Fields, SameRest, RecorderPolled, RecordingFailed, Gated
<1> HIDE DEF u, w
<1>5. Shape(w)
  BY <1>2, <1>4 DEF Ready, Shape, SameRest
<1>6. Ready(u)
  BY <1>2, <1>3, <1>4, <1>5 DEF Ready, Jobs, ExecutorsClose
<1>7. Turned(z, u)
  BY <1>3, <1>4, <1>6 DEF Turned, Moved, SameOutputs, SameAdapters
<1>8. Turned(u, y) /\ Elsewhere(u, y)
  BY <1>1, <1>6, ClosingTurned DEF u, w
<1>9. Elsewhere(z, u)
  BY <1>3 DEF Elsewhere
<1>10. Turned(x, u) /\ Elsewhere(x, u)
  BY <1>2, <1>7, <1>9, TurnedTransitive, ElsewhereTransitive DEF Turned
<1> QED
  BY <1>8, <1>10, TurnedTransitive, ElsewhereTransitive DEF Turned

-----------------------------------------------------------------------------
(* The inductive invariant.                                                *)

\* Where an operation of each kind can be.
Placed(o) ==
    \/ o.kind = "reconnect" /\ o.pc \in {"reserve", "facts", "retire", "open", "opening",
          "dispose", "probe", "safing", "commit", "confirm", "retire_failed"}
    \/ o.kind = "reconcile" /\ o.pc \in {"reserve", "retire", "open", "opening", "discard",
          "dispose", "commit", "confirm"}
    \/ o.kind = "restart" /\ o.pc \in {"reserve", "change", "commit", "confirm"}
    \/ o.kind = "file" /\ o.pc \in {"reserve", "retire", "open", "change", "commit", "confirm"}

\* Where an operation and an application can be, and which exclude each other.
Lanes(v) ==
    /\ v.op.kind = "none" => v.op = NoOp
    /\ v.op.kind # "none" => Placed(v.op) /\ ~v.stopping
    /\ v.op.res \in Resources
    /\ v.op.kind \in {"reconnect", "reconcile"} => v.apply.phase = "none"
    /\ v.op.kind = "reconcile" => v.op.res = Candidate
    /\ v.apply.phase = "none" => v.apply = NoApply

\* One fence at a time owes the gate its opening, and the gate is closed meanwhile.
Fence(v) ==
    /\ v.op.reopen => v.op.kind \in {"restart", "file"}
    /\ ~(v.op.reopen /\ v.apply.reopen)
    /\ v.op.reopen \/ v.apply.reopen => v.gate # "open"

\* Where an operation has a new adapter that is not installed yet.
HasCandidate(o) ==
    \/ o.pc \in {"opening", "dispose", "discard"}
    \/ o.kind = "file" /\ o.cand # NoAdapter /\ o.pc \in {"reserve", "change"}

\* Every adapter that is not dropped has one owner: the executor of its resource,
\* the operation that opened it, or the slot for one that did not stop; but for
\* `free`, which is about to be dropped.
Owned(v, a, free) ==
    /\ \A r \in Resources :
          LET i == v.exe[r].adapter IN
          /\ ~a[i].dropped /\ a[i].res = r
          /\ i # v.held /\ i # v.op.cand /\ i # NoAdapter /\ i # free
    /\ free # NoAdapter => free \in Adapters /\ free # v.held /\ free # v.op.cand
    /\ v.held # NoAdapter => v.held \in Adapters /\ ~a[v.held].dropped /\ v.held # v.op.cand
    /\ v.op.cand # NoAdapter =>
          v.op.cand \in Adapters /\ ~a[v.op.cand].dropped /\ a[v.op.cand].res = v.op.res
    /\ v.op.cand # NoAdapter <=> HasCandidate(v.op)
    /\ \A i \in Adapters : i # free /\ ~a[i].dropped =>
          i = v.held \/ i = v.op.cand \/ \E r \in Resources : v.exe[r].adapter = i
    /\ v.op.kind = "reconnect" => v.held = NoAdapter

\* A new adapter is opened, and kept, only beside a retired executor.
Retired(v) ==
    v.op.pc \in {"open", "opening", "discard"} \/ (v.op.kind = "file" /\ v.op.cand # NoAdapter)
       => v.exe[v.op.res].closed

\* A recorder that is absent, or sealed its file, has nothing left to write.
Sealed(v) == v.rec.state \in {"absent", "closed"} => v.rec.pending = 0

\* What the success exit rests on.
Clean(v) ==
    v.terminal = "clean" =>
        /\ OutputsSafe(v) /\ v.rec.state \in {"absent", "closed"}
        /\ v.closed = Resources /\ v.held = NoAdapter /\ v.op.kind = "none"

\* A reconnected resource has its new binding, and from the commit on safe outputs.
Released(v) ==
    /\ v.op.kind = "reconnect" /\ v.op.pc \in {"probe", "safing", "commit", "confirm"} =>
          v.bind[v.op.res] > 1 /\ ~v.exe[v.op.res].closed
    /\ v.op.kind = "reconnect" /\ v.op.pc \in {"commit", "confirm"} => OutputsSafe(v)

Simple == {"sensor", "output", "controller"}

\* Whose the hidden output is: of the application under way, or of the quarantine.
Hidden(v) ==
    /\ v.hid.sent => v.hid.state # "none"
    /\ v.quar => v.hid.state # "none" /\ v.apply.phase = "none" /\ v.staged \notin Simple
    /\ v.apply.phase # "none" => v.staged = "none" /\ ~v.overlay
    /\ v.staged \in Simple => ~v.overlay
    /\ ~v.overlay => v.out[Candidate] = "none"
    /\ v.apply.actuator =>
          HasOutput(v.apply.kind) /\ v.apply.phase \in {"safing", "commit", "confirm"}
    /\ v.apply.phase \in {"safing", "commit", "confirm"} =>
          (HasOutput(v.apply.kind) => v.apply.actuator)
    /\ v.apply.published <=> v.apply.phase = "confirm"
    /\ v.apply.phase = "confirm" => v.hid.listed
    /\ ~v.panicked => /\ v.hid.listed => v.apply.phase = "confirm"
                      /\ v.hid.state # "none" => v.quar \/ v.apply.actuator
    /\ v.apply.phase = "commit" /\ v.apply.actuator => v.hid.state = "safe"
    /\ v.apply.phase = "confirm" /\ v.apply.actuator /\ ~v.stopping => v.hid.state = "safe"

\* While the recorder works, its credit is the operation's or the application's.
Credits(v) ==
    v.rec.state = "up" /\ ~v.cut =>
        /\ v.rec.reserved # 0 =>
              \/ v.op.cancel /\ v.op.gen = v.rec.reserved
              \/ v.apply.phase \in {"topology", "safing", "commit"} /\ v.apply.begun
                 /\ v.apply.gen = v.rec.reserved
        /\ v.rec.facts => /\ v.op.kind = "reconnect" /\ v.op.cancel
                          /\ v.op.pc \in {"retire", "open", "opening"}

\* Whoever quiesced acquisition is still there to end that.
Quiet(v) ==
    /\ v.op.pc \in {"dispose", "confirm"} => ~v.op.cancel
    /\ v.op.pc = "facts" => v.op.cancel
    /\ v.quiesced /\ ~v.cut => v.op.kind \in {"restart", "file"} \/ v.apply.quiesced

InvBut(x, free) ==
    /\ Ready(x)
    /\ Lanes(x.v) /\ Fence(x.v) /\ Owned(x.v, x.a, free) /\ Retired(x.v) /\ Sealed(x.v)
    /\ Clean(x.v) /\ Released(x.v) /\ Hidden(x.v) /\ Credits(x.v) /\ Quiet(x.v)

Inv(x) == InvBut(x, NoAdapter)

-----------------------------------------------------------------------------
(* What the steps of the operations keep.                                  *)

\* w is v but for the fields F, of the fields D.
Keeps(v, w, D, F) == DOMAIN w = D /\ \A f \in D \ F : w[f] = v[f]

LEMMA TurnedInv ==
    ASSUME NEW x, Inv(x), NEW y, Turned(x, y)
    PROVE  Inv(y)
<1> DEFINE v == x.v
           w == y.v
<1>1. /\ Ready(y) /\ SameRest(v, w) /\ SameOutputs(v, w) /\ Gated(v, w)
      /\ SameAdapters(v, x.a, w, y.a)
      /\ \A r \in Resources : v.exe[r].closed => w.exe[r].closed
      /\ v.closed \subseteq w.closed /\ w.closed \subseteq Resources
      /\ ~v.stopping => \A r \in Resources : w.exe[r].closed = v.exe[r].closed
  BY DEF Turned, Moved, Ready, ExecutorsClose
<1>2. /\ Lanes(v) /\ Fence(v) /\ Owned(v, x.a, NoAdapter) /\ Retired(v) /\ Sealed(v)
      /\ Clean(v) /\ Released(v) /\ Hidden(v) /\ Credits(v) /\ Quiet(v)
  BY DEF Inv, InvBut
<1>3. Candidate \in Resources
  BY LifecycleAssumption
<1> HIDE DEF v, w
<1>4. OutputsSafe(v) => OutputsSafe(w)
  BY <1>1 DEF OutputsSafe, SameOutputs
<1>5. Lanes(w)
  BY <1>1, <1>2 DEF Lanes, SameRest
<1>6. Fence(w)
  BY <1>1, <1>2 DEF Fence, SameRest, Gated
<1>7. Owned(w, y.a, NoAdapter)
  <2>1. \A r \in Resources : w.exe[r].adapter = v.exe[r].adapter /\ v.exe[r].adapter \in Adapters
    BY <1>1 DEF SameAdapters, Inv, InvBut, Ready, ExecutorsClose, v
  <2>2. \A i \in Adapters : y.a[i].res = x.a[i].res /\ y.a[i].dropped = x.a[i].dropped
    BY <1>1 DEF SameAdapters
  <2>3. w.op = v.op /\ w.held = v.held
    BY <1>1 DEF SameRest
  <2> QED
    BY <1>2, <2>1, <2>2, <2>3 DEF Owned
<1>8. Retired(w)
  BY <1>1, <1>2 DEF Retired, Lanes, SameRest
<1>9. Sealed(w)
  BY <1>1, <1>2 DEF Sealed, SameRest
<1>10. Clean(w)
  BY <1>1, <1>2, <1>4 DEF Clean, SameRest
<1>11. Released(w)
  BY <1>1, <1>2, <1>4 DEF Released, Lanes, SameRest
<1>12. Hidden(w)
  BY <1>1, <1>2, <1>3 DEF Hidden, SameRest, SameOutputs
<1>13. Credits(w) /\ Quiet(w)
  BY <1>1, <1>2 DEF Credits, Quiet, SameRest
<1> QED
  BY <1>1, <1>5, <1>6, <1>7, <1>8, <1>9, <1>10, <1>11, <1>12, <1>13 DEF Inv, InvBut, w

\* An operation that has returned its credit ends.
LEMMA EndedBut ==
    ASSUME NEW x, Inv(x), x.v.op.kind # "none",
           x.v.op.cancel => x.v.rec.state # "up" \/ x.v.cut
    PROVE  InvBut(With(x, Ended(x.v)), x.v.op.cand)
<1>0. Candidate \in Resources
  BY LifecycleAssumption
<1> DEFINE v == x.v
           w == Ended(v)
           y == With(x, Ended(v))
<1>1. y = Lane(w, x.a) /\ y.v = w /\ y.a = x.a
  BY DEF Inv, InvBut, Ready, Lane, With
<1>2. /\ Keeps(v, w, Fields, {"op", "quiesced"})
      /\ w.op = NoOp
      /\ w.quiesced = IF v.op.kind \in {"restart", "file"} THEN FALSE ELSE v.quiesced
  BY DEF Inv, InvBut, Ready, Shape, Keeps, Fields, Ended
<1>3. /\ Shape(v) /\ Jobs(v) /\ ExecutorsClose(v, x.a) /\ AdaptersInv(x.a)
      /\ Lanes(v) /\ Fence(v) /\ Owned(v, x.a, NoAdapter) /\ Retired(v) /\ Sealed(v)
      /\ Clean(v) /\ Released(v) /\ Hidden(v) /\ Credits(v) /\ Quiet(v)
  BY DEF Inv, InvBut, Ready
<1>4. v.op.kind # "none" /\ (v.op.cancel => v.rec.state # "up" \/ v.cut)
  OBVIOUS
<1> HIDE DEF v, w, y
<1>5. Shape(w)
  BY <1>2, <1>3, <1>0 DEF Keeps, Fields, Shape, NoOp, OpFields
<1>6. ExecutorsClose(w, x.a) /\ AdaptersInv(x.a)
  BY <1>2, <1>3 DEF Keeps, Fields, ExecutorsClose
<1>7. /\ Jobs(w) /\ Sealed(w) /\ Hidden(w)
  BY <1>2, <1>3 DEF Keeps, Fields, Jobs, InFlight, Sealed, Hidden
<1>8. Lanes(w)
  BY <1>2, <1>3, <1>0 DEF Keeps, Fields, Lanes, NoOp
<1>9. Fence(w)
  BY <1>2, <1>3 DEF Keeps, Fields, Fence, NoOp
<1>10. Owned(w, x.a, v.op.cand)
  BY <1>2, <1>3 DEF Keeps, Fields, Owned, NoOp, HasCandidate
<1>11. Retired(w)
  BY <1>2, <1>3 DEF Keeps, Fields, Retired, NoOp
<1>12. Clean(w)
  BY <1>2, <1>3 DEF Keeps, Fields, Clean, OutputsSafe, NoOp
<1>13. Released(w)
  BY <1>2, <1>3 DEF Keeps, Fields, Released, OutputsSafe, NoOp
<1>14. Credits(w)
  BY <1>2, <1>3, <1>4 DEF Keeps, Fields, Credits, NoOp
<1>15. Quiet(w)
  BY <1>2, <1>3 DEF Keeps, Fields, Quiet, NoOp
<1>16. InvBut(y, v.op.cand)
  BY <1>1, <1>5, <1>6, <1>7, <1>8, <1>9, <1>10, <1>11, <1>12, <1>13, <1>14, <1>15 DEF Inv,
     InvBut, Ready
<1> QED
  BY <1>16 DEF v, w, y

LEMMA GoneIsDropped == AdapterInv(Gone) /\ Gone.dropped /\ Gone.at = "finished"
  BY DEF AdapterInv, AdapterFields, Gone, Spawned, Off

\* An adapter without an owner is dropped.
LEMMA DropAdapterInv ==
    ASSUME NEW x, NEW i, InvBut(x, i)
    PROVE  Inv(DropAdapter(x, i)) /\ DropAdapter(x, i).v = x.v
<1>1. CASE i = NoAdapter
  BY <1>1 DEF DropAdapter, Inv
<1>2. CASE i # NoAdapter
  <2> DEFINE b == IF Dropped(x.a[i]).at = "finished" THEN Gone ELSE Dropped(x.a[i])
             aa == [x.a EXCEPT ![i] = b]
             y == DropAdapter(x, i)
  <2>1. /\ x = Lane(x.v, x.a) /\ Shape(x.v) /\ Jobs(x.v) /\ ExecutorsClose(x.v, x.a)
        /\ AdaptersInv(x.a) /\ Owned(x.v, x.a, i)
    BY DEF InvBut, Ready
  <2>2. y = Lane(x.v, aa) /\ y.v = x.v /\ y.a = aa
    BY <1>2, <2>1 DEF DropAdapter, Lane
  <2>3. i \in Adapters
    BY <1>2, <2>1 DEF Owned
  <2>4. AdapterInv(b) /\ b.dropped
    BY <2>1, <2>3, DroppedHandled, GoneIsDropped DEF AdaptersInv, Handled
  <2> HIDE DEF b, y
  <2>5. /\ DOMAIN aa = Adapters /\ aa[i] = b
        /\ \A j \in Adapters : j # i => aa[j] = x.a[j]
    BY <2>1, <2>3 DEF AdaptersInv
  <2> HIDE DEF aa
  <2>6. AdaptersInv(aa)
    BY <2>1, <2>4, <2>5 DEF AdaptersInv
  <2>7. ExecutorsClose(x.v, aa)
    BY <2>1, <2>5 DEF ExecutorsClose, Owned
  <2>8. Owned(x.v, aa, NoAdapter)
    BY <2>1, <2>4, <2>5 DEF Owned, ExecutorsClose
  <2>9. Inv(y)
    BY <2>1, <2>2, <2>6, <2>7, <2>8 DEF Inv, InvBut, Ready
  <2> QED
    BY <2>2, <2>9 DEF y
<1> QED
  BY <1>1, <1>2

\* A failed operation returns its credit and the facts.
LEMMA RefusedCancels ==
    ASSUME NEW x, Inv(x), x.v.op.kind # "none"
    PROVE  InvBut(With(x, Ended(Cancelled(x.v, x.v.op.gen))), x.v.op.cand)
<1>0. Candidate \in Resources
  BY LifecycleAssumption
<1> DEFINE v == x.v
           w == Ended(Cancelled(v, v.op.gen))
           y == With(x, w)
<1>1. y = Lane(w, x.a) /\ y.v = w /\ y.a = x.a
  BY DEF Inv, InvBut, Ready, Lane, With
<1>2. /\ Keeps(v, w, Fields, {"op", "quiesced", "rec"})
      /\ w.op = NoOp
      /\ w.quiesced = IF v.op.kind \in {"restart", "file"} THEN FALSE ELSE v.quiesced
      /\ Keeps(v.rec, w.rec, RecorderFields, {"facts", "reserved"})
      /\ w.rec.facts = FALSE
      /\ w.rec.reserved = IF v.op.gen # 0 /\ v.rec.reserved = v.op.gen THEN 0 ELSE v.rec.reserved
  BY DEF Inv, InvBut, Ready, Shape, Keeps, Fields, RecorderFields, Ended, Cancelled
<1>3. /\ Shape(v) /\ Jobs(v) /\ ExecutorsClose(v, x.a) /\ AdaptersInv(x.a)
      /\ Lanes(v) /\ Fence(v) /\ Owned(v, x.a, NoAdapter) /\ Retired(v) /\ Sealed(v)
      /\ Clean(v) /\ Released(v) /\ Hidden(v) /\ Credits(v) /\ Quiet(v)
  BY DEF Inv, InvBut, Ready
<1>4. v.op.kind # "none"
  OBVIOUS
<1> HIDE DEF v, w, y
<1>5. Shape(w)
  BY <1>2, <1>3, <1>0 DEF Keeps, Fields, RecorderFields, Shape, NoOp, OpFields
<1>6. ExecutorsClose(w, x.a) /\ AdaptersInv(x.a)
  BY <1>2, <1>3 DEF Keeps, Fields, ExecutorsClose
<1>7. /\ Jobs(w) /\ Hidden(w)
  BY <1>2, <1>3 DEF Keeps, Fields, Jobs, InFlight, Hidden
<1>8. Lanes(w)
  BY <1>2, <1>3, <1>0 DEF Keeps, Fields, RecorderFields, Lanes, NoOp
<1>9. Fence(w)
  BY <1>2, <1>3 DEF Keeps, Fields, RecorderFields, Fence, NoOp
<1>10. Owned(w, x.a, v.op.cand)
  BY <1>2, <1>3 DEF Keeps, Fields, RecorderFields, Owned, NoOp, HasCandidate
<1>11. Retired(w)
  BY <1>2, <1>3 DEF Keeps, Fields, RecorderFields, Retired, NoOp
<1>12. Sealed(w)
  BY <1>2, <1>3 DEF Keeps, Fields, RecorderFields, Sealed
<1>13. Clean(w)
  BY <1>2, <1>3 DEF Keeps, Fields, RecorderFields, Clean, OutputsSafe, NoOp
<1>14. Released(w)
  BY <1>2, <1>3 DEF Keeps, Fields, RecorderFields, Released, OutputsSafe, NoOp
<1>15. Credits(w)
  BY <1>2, <1>3, <1>4 DEF Keeps, Fields, RecorderFields, Credits, NoOp
<1>16. Quiet(w)
  BY <1>2, <1>3 DEF Keeps, Fields, RecorderFields, Quiet, NoOp
<1>17. InvBut(y, v.op.cand)
  BY <1>1, <1>5, <1>6, <1>7, <1>8, <1>9, <1>10, <1>11, <1>12, <1>13, <1>14, <1>15, <1>16
     DEF Inv, InvBut, Ready
<1> QED
  BY <1>17 DEF v, w, y

LEMMA RefusedInv ==
    ASSUME NEW x, Inv(x), x.v.op.kind # "none"
    PROVE  InvBut(Refused(x), x.v.op.cand)
<1>1. CASE x.v.op.cancel
  BY <1>1, RefusedCancels DEF Refused
<1>2. CASE ~x.v.op.cancel
  BY <1>2, EndedBut DEF Refused
<1> QED
  BY <1>1, <1>2

\* A propagated error says that it left its debts.
LEMMA CutBut ==
    ASSUME NEW x, Inv(x), x.v.op.kind # "none"
    PROVE  InvBut(With(x, [Ended(x.v) EXCEPT !.quiesced = x.v.quiesced, !.cut = TRUE]),
                  x.v.op.cand)
<1>0. Candidate \in Resources
  BY LifecycleAssumption
<1> DEFINE v == x.v
           w == [Ended(v) EXCEPT !.quiesced = v.quiesced, !.cut = TRUE]
           y == With(x, w)
<1>1. y = Lane(w, x.a) /\ y.v = w /\ y.a = x.a
  BY DEF Inv, InvBut, Ready, Lane, With
<1>2. /\ Keeps(v, w, Fields, {"cut", "op"})
      /\ w.cut = TRUE
      /\ w.op = NoOp
  BY DEF Inv, InvBut, Ready, Shape, Keeps, Fields, Ended
<1>3. /\ Shape(v) /\ Jobs(v) /\ ExecutorsClose(v, x.a) /\ AdaptersInv(x.a)
      /\ Lanes(v) /\ Fence(v) /\ Owned(v, x.a, NoAdapter) /\ Retired(v) /\ Sealed(v)
      /\ Clean(v) /\ Released(v) /\ Hidden(v) /\ Credits(v) /\ Quiet(v)
  BY DEF Inv, InvBut, Ready
<1>4. v.op.kind # "none"
  OBVIOUS
<1> HIDE DEF v, w, y
<1>5. Shape(w)
  BY <1>2, <1>3, <1>0 DEF Keeps, Fields, Shape, NoOp, OpFields
<1>6. ExecutorsClose(w, x.a) /\ AdaptersInv(x.a)
  BY <1>2, <1>3 DEF Keeps, Fields, ExecutorsClose
<1>7. /\ Jobs(w) /\ Sealed(w) /\ Hidden(w)
  BY <1>2, <1>3 DEF Keeps, Fields, Jobs, InFlight, Sealed, Hidden
<1>8. Lanes(w)
  BY <1>2, <1>3, <1>0 DEF Keeps, Fields, Lanes, NoOp
<1>9. Fence(w)
  BY <1>2, <1>3, <1>4 DEF Keeps, Fields, Fence, NoOp
<1>10. Owned(w, x.a, v.op.cand)
  BY <1>2, <1>3 DEF Keeps, Fields, Owned, NoOp, HasCandidate
<1>11. Retired(w)
  BY <1>2, <1>3 DEF Keeps, Fields, Retired, NoOp
<1>12. Clean(w)
  BY <1>2, <1>3, <1>4 DEF Keeps, Fields, Clean, OutputsSafe, NoOp
<1>13. Released(w)
  BY <1>2, <1>3 DEF Keeps, Fields, Released, OutputsSafe, NoOp
<1>14. Credits(w)
  BY <1>2, <1>3 DEF Keeps, Fields, Credits, NoOp
<1>15. Quiet(w)
  BY <1>2, <1>3 DEF Keeps, Fields, Quiet, NoOp
<1>16. InvBut(y, v.op.cand)
  BY <1>1, <1>5, <1>6, <1>7, <1>8, <1>9, <1>10, <1>11, <1>12, <1>13, <1>14, <1>15 DEF Inv,
     InvBut, Ready
<1> QED
  BY <1>16 DEF v, w, y

LEMMA CutInv ==
    ASSUME NEW x, Inv(x), x.v.op.kind # "none"
    PROVE  Inv(Cut(x))
<1> DEFINE z == With(x, [Ended(x.v) EXCEPT !.quiesced = x.v.quiesced, !.cut = TRUE])
<1>1. InvBut(z, x.v.op.cand)
  BY CutBut, Zenon
<1>2. Cut(x) = DropAdapter(z, x.v.op.cand)
  BY DEF Cut
<1> HIDE DEF z
<1> QED
  BY <1>1, <1>2, DropAdapterInv

\* A turn of the owner.
LEMMA TurnsInv ==
    ASSUME NEW x, Inv(x), NEW y \in Turns(x)
    PROVE  Inv(y) /\ SameRest(x.v, y.v) /\ Turned(x, y)
<1>1. Turned(x, y)
  BY TurnsTurned DEF Inv, InvBut
<1> QED
  BY <1>1, TurnedInv DEF Turned, Moved

\* The operation retires the executor of its resource.
LEMMA MovedInv ==
    ASSUME NEW x, Inv(x), NEW y, Moved(x, y), x.v.op.pc \in {"retire", "retire_failed"}
    PROVE  Inv(y)
<1> DEFINE v == x.v
           w == y.v
<1>1. /\ Ready(y) /\ SameRest(v, w) /\ SameOutputs(v, w) /\ Gated(v, w)
      /\ SameAdapters(v, x.a, w, y.a)
      /\ \A r \in Resources : v.exe[r].closed => w.exe[r].closed
  BY DEF Moved
<1>2. /\ Lanes(v) /\ Fence(v) /\ Owned(v, x.a, NoAdapter) /\ Retired(v) /\ Sealed(v)
      /\ Clean(v) /\ Released(v) /\ Hidden(v) /\ Credits(v) /\ Quiet(v)
      /\ v.op.pc \in {"retire", "retire_failed"}
  BY DEF Inv, InvBut
<1>3. Candidate \in Resources
  BY LifecycleAssumption
<1> HIDE DEF v, w
<1>4. v.op.kind # "none"
  BY <1>2 DEF Lanes, NoOp
<1>5. Lanes(w)
  BY <1>1, <1>2 DEF Lanes, SameRest
<1>6. Fence(w)
  BY <1>1, <1>2 DEF Fence, SameRest, Gated
<1>7. Owned(w, y.a, NoAdapter)
  <2>1. \A r \in Resources : w.exe[r].adapter = v.exe[r].adapter /\ v.exe[r].adapter \in Adapters
    BY <1>1 DEF SameAdapters, Inv, InvBut, Ready, ExecutorsClose, v
  <2>2. \A i \in Adapters : y.a[i].res = x.a[i].res /\ y.a[i].dropped = x.a[i].dropped
    BY <1>1 DEF SameAdapters
  <2>3. w.op = v.op /\ w.held = v.held
    BY <1>1 DEF SameRest
  <2> QED
    BY <1>2, <2>1, <2>2, <2>3 DEF Owned
<1>8. Retired(w)
  BY <1>1, <1>2 DEF Retired, Lanes, SameRest
<1>9. Sealed(w) /\ Clean(w) /\ Released(w)
  BY <1>1, <1>2, <1>4 DEF Sealed, Clean, Released, SameRest
<1>10. Hidden(w)
  BY <1>1, <1>2, <1>3 DEF Hidden, SameRest, SameOutputs
<1>11. Credits(w) /\ Quiet(w)
  BY <1>1, <1>2 DEF Credits, Quiet, SameRest
<1> QED
  BY <1>1, <1>5, <1>6, <1>7, <1>8, <1>9, <1>10, <1>11 DEF Inv, InvBut, w

\* The old executor is retired: the new adapter can be opened.
LEMMA RetireOpens ==
    ASSUME NEW x, Inv(x),
           x.v.op.pc = "retire" /\ x.v.exe[x.v.op.res].closed
    PROVE  Inv(With(x, Goto(x.v, "open")))
<1> DEFINE v == x.v
           w == Goto(v, "open")
           y == With(x, w)
<1> HIDE DEF w
<1>1. y = Lane(w, x.a) /\ y.v = w /\ y.a = x.a
  BY DEF Inv, InvBut, Ready, Lane, With
<1> USE DEF w
<1>2. /\ Keeps(v, w, Fields, {"op"})
      /\ Keeps(v.op, w.op, OpFields, {"pc", "late"})
      /\ w.op.pc = "open"
      /\ w.op.late = FALSE
  BY DEF Inv, InvBut, Ready, Shape, Keeps, Fields, OpFields, Goto
<1>3. /\ Shape(v) /\ Jobs(v) /\ ExecutorsClose(v, x.a) /\ AdaptersInv(x.a)
      /\ Lanes(v) /\ Fence(v) /\ Owned(v, x.a, NoAdapter) /\ Retired(v) /\ Sealed(v)
      /\ Clean(v) /\ Released(v) /\ Hidden(v) /\ Credits(v) /\ Quiet(v)
  BY DEF Inv, InvBut, Ready
<1>4. v.op.pc = "retire" /\ v.exe[v.op.res].closed
  OBVIOUS
<1> HIDE DEF v, w, y
<1>5. Shape(w)
  BY <1>2, <1>3 DEF Keeps, Fields, OpFields, Shape
<1>6. ExecutorsClose(w, x.a) /\ AdaptersInv(x.a)
  BY <1>2, <1>3 DEF Keeps, Fields, ExecutorsClose
<1>7. /\ Jobs(w) /\ Sealed(w) /\ Hidden(w)
  BY <1>2, <1>3 DEF Keeps, Fields, Jobs, InFlight, Sealed, Hidden
<1>8. Lanes(w)
  BY <1>2, <1>3, <1>4 DEF Keeps, Fields, OpFields, Lanes, Placed, NoOp
<1>9. Fence(w)
  BY <1>2, <1>3, <1>4 DEF Keeps, Fields, OpFields, Fence
<1>10. Owned(w, x.a, NoAdapter)
  BY <1>2, <1>3, <1>4 DEF Keeps, Fields, OpFields, Owned, HasCandidate
<1>11. Retired(w)
  BY <1>2, <1>3, <1>4 DEF Keeps, Fields, OpFields, Retired
<1>12. Clean(w)
  BY <1>2, <1>3, <1>4 DEF Keeps, Fields, OpFields, Clean, OutputsSafe
<1>13. Released(w)
  BY <1>2, <1>3, <1>4 DEF Keeps, Fields, OpFields, Released, OutputsSafe
<1>14. Credits(w)
  BY <1>2, <1>3, <1>4 DEF Keeps, Fields, OpFields, Credits
<1>15. Quiet(w)
  BY <1>2, <1>3, <1>4 DEF Keeps, Fields, OpFields, Quiet
<1>16. Inv(y)
  BY <1>1, <1>5, <1>6, <1>7, <1>8, <1>9, <1>10, <1>11, <1>12, <1>13, <1>14, <1>15 DEF Inv,
     InvBut, Ready
<1> QED
  BY <1>16 DEF v, w, y

\* The new adapter of a reconciliation is open.
LEMMA OpeningDiscards ==
    ASSUME NEW x, Inv(x),
           x.v.op.pc = "opening" /\ x.v.op.kind = "reconcile"
    PROVE  Inv(With(x, Goto(x.v, "discard")))
<1> DEFINE v == x.v
           w == Goto(v, "discard")
           y == With(x, w)
<1> HIDE DEF w
<1>1. y = Lane(w, x.a) /\ y.v = w /\ y.a = x.a
  BY DEF Inv, InvBut, Ready, Lane, With
<1> USE DEF w
<1>2. /\ Keeps(v, w, Fields, {"op"})
      /\ Keeps(v.op, w.op, OpFields, {"pc", "late"})
      /\ w.op.pc = "discard"
      /\ w.op.late = FALSE
  BY DEF Inv, InvBut, Ready, Shape, Keeps, Fields, OpFields, Goto
<1>3. /\ Shape(v) /\ Jobs(v) /\ ExecutorsClose(v, x.a) /\ AdaptersInv(x.a)
      /\ Lanes(v) /\ Fence(v) /\ Owned(v, x.a, NoAdapter) /\ Retired(v) /\ Sealed(v)
      /\ Clean(v) /\ Released(v) /\ Hidden(v) /\ Credits(v) /\ Quiet(v)
  BY DEF Inv, InvBut, Ready
<1>4. v.op.pc = "opening" /\ v.op.kind = "reconcile"
  OBVIOUS
<1> HIDE DEF v, w, y
<1>5. Shape(w)
  BY <1>2, <1>3 DEF Keeps, Fields, OpFields, Shape
<1>6. ExecutorsClose(w, x.a) /\ AdaptersInv(x.a)
  BY <1>2, <1>3 DEF Keeps, Fields, ExecutorsClose
<1>7. /\ Jobs(w) /\ Sealed(w) /\ Hidden(w)
  BY <1>2, <1>3 DEF Keeps, Fields, Jobs, InFlight, Sealed, Hidden
<1>8. Lanes(w)
  BY <1>2, <1>3, <1>4 DEF Keeps, Fields, OpFields, Lanes, Placed, NoOp
<1>9. Fence(w)
  BY <1>2, <1>3, <1>4 DEF Keeps, Fields, OpFields, Fence
<1>10. Owned(w, x.a, NoAdapter)
  BY <1>2, <1>3, <1>4 DEF Keeps, Fields, OpFields, Owned, HasCandidate
<1>11. Retired(w)
  BY <1>2, <1>3, <1>4 DEF Keeps, Fields, OpFields, Retired
<1>12. Clean(w)
  BY <1>2, <1>3, <1>4 DEF Keeps, Fields, OpFields, Clean, OutputsSafe
<1>13. Released(w)
  BY <1>2, <1>3, <1>4 DEF Keeps, Fields, OpFields, Released, OutputsSafe
<1>14. Credits(w)
  BY <1>2, <1>3, <1>4 DEF Keeps, Fields, OpFields, Credits
<1>15. Quiet(w)
  BY <1>2, <1>3, <1>4 DEF Keeps, Fields, OpFields, Quiet
<1>16. Inv(y)
  BY <1>1, <1>5, <1>6, <1>7, <1>8, <1>9, <1>10, <1>11, <1>12, <1>13, <1>14, <1>15 DEF Inv,
     InvBut, Ready
<1> QED
  BY <1>16 DEF v, w, y

\* A new adapter that is not installed is disposed of, its credit returned first.
LEMMA Disposes ==
    ASSUME NEW x, Inv(x),
           x.v.op.pc \in {"opening", "discard"}
    PROVE  Inv(With(x, [Goto(Cancelled(x.v, x.v.op.gen), "dispose") EXCEPT !.op.cancel = FALSE]))
<1> DEFINE v == x.v
           w == [Goto(Cancelled(v, v.op.gen), "dispose") EXCEPT !.op.cancel = FALSE]
           y == With(x, w)
<1> HIDE DEF w
<1>1. y = Lane(w, x.a) /\ y.v = w /\ y.a = x.a
  BY DEF Inv, InvBut, Ready, Lane, With
<1> USE DEF w
<1>2. /\ Keeps(v, w, Fields, {"op", "rec"})
      /\ Keeps(v.op, w.op, OpFields, {"pc", "late", "cancel"})
      /\ w.op.pc = "dispose"
      /\ w.op.late = FALSE
      /\ w.op.cancel = FALSE
      /\ Keeps(v.rec, w.rec, RecorderFields, {"facts", "reserved"})
      /\ w.rec.facts = FALSE
      /\ w.rec.reserved = IF v.op.gen # 0 /\ v.rec.reserved = v.op.gen THEN 0 ELSE v.rec.reserved
  BY DEF Inv, InvBut, Ready, Shape, Keeps, Fields, OpFields, RecorderFields, Goto,
     Cancelled
<1>3. /\ Shape(v) /\ Jobs(v) /\ ExecutorsClose(v, x.a) /\ AdaptersInv(x.a)
      /\ Lanes(v) /\ Fence(v) /\ Owned(v, x.a, NoAdapter) /\ Retired(v) /\ Sealed(v)
      /\ Clean(v) /\ Released(v) /\ Hidden(v) /\ Credits(v) /\ Quiet(v)
  BY DEF Inv, InvBut, Ready
<1>4. v.op.pc \in {"opening", "discard"}
  OBVIOUS
<1> HIDE DEF v, w, y
<1>5. Shape(w)
  BY <1>2, <1>3 DEF Keeps, Fields, OpFields, RecorderFields, Shape
<1>6. ExecutorsClose(w, x.a) /\ AdaptersInv(x.a)
  BY <1>2, <1>3 DEF Keeps, Fields, ExecutorsClose
<1>7. /\ Jobs(w) /\ Hidden(w)
  BY <1>2, <1>3 DEF Keeps, Fields, Jobs, InFlight, Hidden
<1>8. Lanes(w)
  BY <1>2, <1>3, <1>4 DEF Keeps, Fields, OpFields, RecorderFields, Lanes, Placed, NoOp
<1>9. Fence(w)
  BY <1>2, <1>3, <1>4 DEF Keeps, Fields, OpFields, RecorderFields, Fence
<1>10. Owned(w, x.a, NoAdapter)
  BY <1>2, <1>3, <1>4 DEF Keeps, Fields, OpFields, RecorderFields, Owned, HasCandidate
<1>11. Retired(w)
  BY <1>2, <1>3, <1>4 DEF Keeps, Fields, OpFields, RecorderFields, Retired
<1>12. Sealed(w)
  BY <1>2, <1>3, <1>4 DEF Keeps, Fields, OpFields, RecorderFields, Sealed
<1>13. Clean(w)
  BY <1>2, <1>3, <1>4 DEF Keeps, Fields, OpFields, RecorderFields, Clean, OutputsSafe
<1>14. Released(w)
  BY <1>2, <1>3, <1>4 DEF Keeps, Fields, OpFields, RecorderFields, Released, OutputsSafe
<1>15. Credits(w)
  BY <1>2, <1>3, <1>4 DEF Keeps, Fields, OpFields, RecorderFields, Credits
<1>16. Quiet(w)
  BY <1>2, <1>3, <1>4 DEF Keeps, Fields, OpFields, RecorderFields, Quiet
<1>17. Inv(y)
  BY <1>1, <1>5, <1>6, <1>7, <1>8, <1>9, <1>10, <1>11, <1>12, <1>13, <1>14, <1>15, <1>16
     DEF Inv, InvBut, Ready
<1> QED
  BY <1>17 DEF v, w, y

\* A failed reconnect retires the executor it has bound again.
LEMMA Retires ==
    ASSUME NEW x, Inv(x),
           x.v.op.pc \in {"probe", "safing", "confirm"} /\ x.v.op.kind = "reconnect"
    PROVE  Inv(With(x, Goto(x.v, "retire_failed")))
<1> DEFINE v == x.v
           w == Goto(v, "retire_failed")
           y == With(x, w)
<1> HIDE DEF w
<1>1. y = Lane(w, x.a) /\ y.v = w /\ y.a = x.a
  BY DEF Inv, InvBut, Ready, Lane, With
<1> USE DEF w
<1>2. /\ Keeps(v, w, Fields, {"op"})
      /\ Keeps(v.op, w.op, OpFields, {"pc", "late"})
      /\ w.op.pc = "retire_failed"
      /\ w.op.late = FALSE
  BY DEF Inv, InvBut, Ready, Shape, Keeps, Fields, OpFields, Goto
<1>3. /\ Shape(v) /\ Jobs(v) /\ ExecutorsClose(v, x.a) /\ AdaptersInv(x.a)
      /\ Lanes(v) /\ Fence(v) /\ Owned(v, x.a, NoAdapter) /\ Retired(v) /\ Sealed(v)
      /\ Clean(v) /\ Released(v) /\ Hidden(v) /\ Credits(v) /\ Quiet(v)
  BY DEF Inv, InvBut, Ready
<1>4. v.op.pc \in {"probe", "safing", "confirm"} /\ v.op.kind = "reconnect"
  OBVIOUS
<1> HIDE DEF v, w, y
<1>5. Shape(w)
  BY <1>2, <1>3 DEF Keeps, Fields, OpFields, Shape
<1>6. ExecutorsClose(w, x.a) /\ AdaptersInv(x.a)
  BY <1>2, <1>3 DEF Keeps, Fields, ExecutorsClose
<1>7. /\ Jobs(w) /\ Sealed(w) /\ Hidden(w)
  BY <1>2, <1>3 DEF Keeps, Fields, Jobs, InFlight, Sealed, Hidden
<1>8. Lanes(w)
  BY <1>2, <1>3, <1>4 DEF Keeps, Fields, OpFields, Lanes, Placed, NoOp
<1>9. Fence(w)
  BY <1>2, <1>3, <1>4 DEF Keeps, Fields, OpFields, Fence
<1>10. Owned(w, x.a, NoAdapter)
  BY <1>2, <1>3, <1>4 DEF Keeps, Fields, OpFields, Owned, HasCandidate
<1>11. Retired(w)
  BY <1>2, <1>3, <1>4 DEF Keeps, Fields, OpFields, Retired
<1>12. Clean(w)
  BY <1>2, <1>3, <1>4 DEF Keeps, Fields, OpFields, Clean, OutputsSafe
<1>13. Released(w)
  BY <1>2, <1>3, <1>4 DEF Keeps, Fields, OpFields, Released, OutputsSafe
<1>14. Credits(w)
  BY <1>2, <1>3, <1>4 DEF Keeps, Fields, OpFields, Credits
<1>15. Quiet(w)
  BY <1>2, <1>3, <1>4 DEF Keeps, Fields, OpFields, Quiet
<1>16. Inv(y)
  BY <1>1, <1>5, <1>6, <1>7, <1>8, <1>9, <1>10, <1>11, <1>12, <1>13, <1>14, <1>15 DEF Inv,
     InvBut, Ready
<1> QED
  BY <1>16 DEF v, w, y

\* Every output is safe: the lifecycle can be committed.
LEMMA SafingCommits ==
    ASSUME NEW x, Inv(x),
           x.v.op.pc = "safing" /\ OutputsSafe(x.v)
    PROVE  Inv(With(x, Goto(x.v, "commit")))
<1> DEFINE v == x.v
           w == Goto(v, "commit")
           y == With(x, w)
<1> HIDE DEF w
<1>1. y = Lane(w, x.a) /\ y.v = w /\ y.a = x.a
  BY DEF Inv, InvBut, Ready, Lane, With
<1> USE DEF w
<1>2. /\ Keeps(v, w, Fields, {"op"})
      /\ Keeps(v.op, w.op, OpFields, {"pc", "late"})
      /\ w.op.pc = "commit"
      /\ w.op.late = FALSE
  BY DEF Inv, InvBut, Ready, Shape, Keeps, Fields, OpFields, Goto
<1>3. /\ Shape(v) /\ Jobs(v) /\ ExecutorsClose(v, x.a) /\ AdaptersInv(x.a)
      /\ Lanes(v) /\ Fence(v) /\ Owned(v, x.a, NoAdapter) /\ Retired(v) /\ Sealed(v)
      /\ Clean(v) /\ Released(v) /\ Hidden(v) /\ Credits(v) /\ Quiet(v)
  BY DEF Inv, InvBut, Ready
<1>4. v.op.pc = "safing" /\ OutputsSafe(v)
  OBVIOUS
<1> HIDE DEF v, w, y
<1>5. Shape(w)
  BY <1>2, <1>3 DEF Keeps, Fields, OpFields, Shape
<1>6. ExecutorsClose(w, x.a) /\ AdaptersInv(x.a)
  BY <1>2, <1>3 DEF Keeps, Fields, ExecutorsClose
<1>7. /\ Jobs(w) /\ Sealed(w) /\ Hidden(w)
  BY <1>2, <1>3 DEF Keeps, Fields, Jobs, InFlight, Sealed, Hidden
<1>8. Lanes(w)
  BY <1>2, <1>3, <1>4 DEF Keeps, Fields, OpFields, Lanes, Placed, NoOp
<1>9. Fence(w)
  BY <1>2, <1>3, <1>4 DEF Keeps, Fields, OpFields, Fence
<1>10. Owned(w, x.a, NoAdapter)
  BY <1>2, <1>3, <1>4 DEF Keeps, Fields, OpFields, Owned, HasCandidate
<1>11. Retired(w)
  BY <1>2, <1>3, <1>4 DEF Keeps, Fields, OpFields, Retired
<1>12. Clean(w)
  BY <1>2, <1>3, <1>4 DEF Keeps, Fields, OpFields, Clean, OutputsSafe
<1>13. Released(w)
  BY <1>2, <1>3, <1>4 DEF Keeps, Fields, OpFields, Released, OutputsSafe
<1>14. Credits(w)
  BY <1>2, <1>3, <1>4 DEF Keeps, Fields, OpFields, Credits
<1>15. Quiet(w)
  BY <1>2, <1>3, <1>4 DEF Keeps, Fields, OpFields, Quiet
<1>16. Inv(y)
  BY <1>1, <1>5, <1>6, <1>7, <1>8, <1>9, <1>10, <1>11, <1>12, <1>13, <1>14, <1>15 DEF Inv,
     InvBut, Ready
<1> QED
  BY <1>16 DEF v, w, y

\* What the helpers of the recorder and of the hidden topology change.
LEMMA ReservedKeeps ==
    ASSUME NEW v, Shape(v)
    PROVE  /\ Keeps(v, Reserved(v), Fields, {"rec"})
           /\ Keeps(v.rec, Reserved(v).rec, RecorderFields, {"reserved", "next"})
           /\ Reserved(v).rec.reserved = IF Recorded(v) THEN v.rec.next ELSE v.rec.reserved
  BY DEF Shape, Fields, RecorderFields, Keeps, Reserved

LEMMA CommittedKeeps ==
    ASSUME NEW v, Shape(v), NEW gen
    PROVE  /\ Keeps(v, Committed(v, gen), Fields, {"rec"})
           /\ Keeps(v.rec, Committed(v, gen).rec, RecorderFields, {"reserved", "pending"})
           /\ gen = 0 => Committed(v, gen) = v
           /\ gen # 0 => /\ Committed(v, gen).rec.reserved = 0
                         /\ Committed(v, gen).rec.pending = gen
  BY DEF Shape, Fields, RecorderFields, Keeps, Committed

LEMMA CancelledKeeps ==
    ASSUME NEW v, Shape(v), NEW gen
    PROVE  /\ Keeps(v, Cancelled(v, gen), Fields, {"rec"})
           /\ Keeps(v.rec, Cancelled(v, gen).rec, RecorderFields, {"reserved", "facts"})
           /\ Cancelled(v, gen).rec.facts = FALSE
           /\ Cancelled(v, gen).rec.reserved =
                 IF gen # 0 /\ v.rec.reserved = gen THEN 0 ELSE v.rec.reserved
           /\ Shape(Cancelled(v, gen))
<1> DEFINE w == Cancelled(v, gen)
<1>1. /\ Keeps(v, w, Fields, {"rec"})
      /\ Keeps(v.rec, w.rec, RecorderFields, {"reserved", "facts"})
      /\ w.rec.facts = FALSE
      /\ w.rec.reserved = IF gen # 0 /\ v.rec.reserved = gen THEN 0 ELSE v.rec.reserved
  BY DEF Shape, Fields, RecorderFields, Keeps, Cancelled
<1> HIDE DEF w
<1>2. Shape(w)
  BY <1>1 DEF Shape, Fields, Keeps
<1> QED
  BY <1>1, <1>2 DEF w

LEMMA FencedKeeps ==
    ASSUME NEW v, Shape(v)
    PROVE  /\ Keeps(v, Fenced(v), Fields, {"gate"})
           /\ Fenced(v).gate = IF Fences(v) THEN "closed" ELSE v.gate
  BY DEF Shape, Fields, Keeps, Fenced

LEMMA RecordingFailedKeeps ==
    ASSUME NEW v, Shape(v)
    PROVE  /\ Keeps(v, RecordingFailed(v), Fields, {"gate"})
           /\ RecordingFailed(v).gate = IF Recorded(v) THEN "failed" ELSE v.gate
           /\ Shape(RecordingFailed(v))
<1> DEFINE w == RecordingFailed(v)
<1>1. /\ Keeps(v, w, Fields, {"gate"})
      /\ w.gate = IF Recorded(v) THEN "failed" ELSE v.gate
  BY DEF Shape, Fields, Keeps, RecordingFailed
<1> HIDE DEF w
<1>2. Shape(w)
  BY <1>1 DEF Shape, Fields, Keeps
<1> QED
  BY <1>1, <1>2 DEF w

LEMMA ReopenedKeeps ==
    ASSUME NEW v, Shape(v), NEW gen, NEW reopen
    PROVE  /\ Keeps(v, Reopened(v, gen, reopen), Fields, {"gate"})
           /\ ~reopen => Reopened(v, gen, reopen) = v
  BY DEF Shape, Fields, Keeps, Reopened

LEMMA EndedKeeps ==
    ASSUME NEW v, Shape(v)
    PROVE  /\ Keeps(v, Ended(v), Fields, {"op", "quiesced"})
           /\ Ended(v).op = NoOp
           /\ Ended(v).quiesced =
                 IF v.op.kind \in {"restart", "file"} THEN FALSE ELSE v.quiesced
  BY DEF Shape, Fields, Keeps, Ended

LEMMA DiscardedKeeps ==
    ASSUME NEW v, Shape(v)
    PROVE  /\ Keeps(v, Discarded(v), Fields, {"hid", "exe"})
           /\ Discarded(v).hid = NoHidden
           /\ \A r \in Resources :
                 /\ Keeps(v.exe[r], Discarded(v).exe[r], ExecutorFields, {"job"})
                 /\ Discarded(v).exe[r].job =
                       IF r = Candidate /\ v.exe[r].job = "hidden" THEN "none"
                       ELSE v.exe[r].job
           /\ Shape(Discarded(v))
<1> DEFINE w == Discarded(v)
<1>0. Candidate \in Resources
  BY LifecycleAssumption
<1>1. Keeps(v, w, Fields, {"hid", "exe"}) /\ w.hid = NoHidden
  BY DEF Shape, Fields, Keeps, Discarded
<1>2. w.exe = [v.exe EXCEPT ![Candidate] =
                 [v.exe[Candidate] EXCEPT !.job = IF @ = "hidden" THEN "none" ELSE @]]
  BY DEF Shape, Fields, Discarded
<1> HIDE DEF w
<1>3. DOMAIN w.exe = Resources /\ \A r \in Resources : r # Candidate => w.exe[r] = v.exe[r]
  BY <1>2 DEF Shape, ExecutorShape
<1>4. w.exe[Candidate] =
        [v.exe[Candidate] EXCEPT !.job = IF @ = "hidden" THEN "none" ELSE @]
  BY <1>0, <1>2 DEF Shape, ExecutorShape
<1>5. \A r \in Resources : /\ Keeps(v.exe[r], w.exe[r], ExecutorFields, {"job"})
                           /\ w.exe[r].job = IF r = Candidate /\ v.exe[r].job = "hidden"
                                             THEN "none" ELSE v.exe[r].job
  BY <1>3, <1>4 DEF Shape, ExecutorShape, ExecutorFields, Keeps
<1>6. Shape(w)
  BY <1>1, <1>3, <1>5 DEF Shape, ExecutorShape, Fields, Keeps, NoHidden, HiddenFields
<1> QED
  BY <1>1, <1>5, <1>6 DEF w

\* The operation record with the credit that was granted.
Granted(v) == [Reserved(v) EXCEPT !.op.gen = Generation(v), !.op.cancel = TRUE]

LEMMA GrantedKeeps ==
    ASSUME NEW v, Shape(v)
    PROVE  /\ Keeps(v, Granted(v), Fields, {"op", "rec"})
           /\ Keeps(v.op, Granted(v).op, OpFields, {"gen", "cancel"})
           /\ Granted(v).op.gen = Generation(v) /\ Granted(v).op.cancel = TRUE
           /\ Keeps(v.rec, Granted(v).rec, RecorderFields, {"reserved", "next"})
           /\ Granted(v).rec.reserved = IF Recorded(v) THEN v.rec.next ELSE v.rec.reserved
           /\ Shape(Granted(v))
<1> DEFINE u == Reserved(v)
           w == Granted(v)
<1>1. /\ Keeps(v, u, Fields, {"rec"})
      /\ Keeps(v.rec, u.rec, RecorderFields, {"reserved", "next"})
      /\ u.rec.reserved = IF Recorded(v) THEN v.rec.next ELSE v.rec.reserved
  BY ReservedKeeps
<1> HIDE DEF u
<1>2. /\ Keeps(u, w, Fields, {"op"}) /\ Keeps(u.op, w.op, OpFields, {"gen", "cancel"})
      /\ w.op.gen = Generation(v) /\ w.op.cancel = TRUE
  BY <1>1 DEF Granted, u, Keeps, Shape, Fields, OpFields
<1> HIDE DEF w
<1>3. w.rec = u.rec /\ u.op = v.op
  BY <1>1, <1>2 DEF Keeps, Fields
<1>4. /\ Keeps(v, w, Fields, {"op", "rec"})
      /\ Keeps(v.op, w.op, OpFields, {"gen", "cancel"})
      /\ w.op.gen = Generation(v) /\ w.op.cancel = TRUE
      /\ Keeps(v.rec, w.rec, RecorderFields, {"reserved", "next"})
      /\ w.rec.reserved = IF Recorded(v) THEN v.rec.next ELSE v.rec.reserved
  BY <1>1, <1>2, <1>3 DEF Keeps, Fields
<1>5. Shape(w)
  BY <1>4 DEF Shape, Keeps, Fields
<1> QED
  BY <1>4, <1>5 DEF w

\* The activation of a reconnect is reserved: the facts are next.
LEMMA ReconnectReserves ==
    ASSUME NEW x, Inv(x),
           x.v.op.pc = "reserve" /\ x.v.op.kind = "reconnect" /\ ~CannotReserve(x.v)
    PROVE  Inv(With(x, Goto(Granted(x.v), "facts")))
<1>0. Candidate \in Resources
  BY LifecycleAssumption
<1> DEFINE v == x.v
           u == Granted(v)
           w == Goto(u, "facts")
           y == With(x, w)
<1> HIDE DEF w
<1>1. y = Lane(w, x.a) /\ y.v = w /\ y.a = x.a
  BY DEF Inv, InvBut, Ready, Lane, With
<1> USE DEF w
<1>2. /\ Keeps(v, w, Fields, {"op", "rec"})
      /\ Keeps(v.op, w.op, OpFields, {"pc", "late", "gen", "cancel"})
      /\ w.op.pc = "facts"
      /\ w.op.late = FALSE
      /\ w.op.gen = Generation(v)
      /\ w.op.cancel = TRUE
      /\ Keeps(v.rec, w.rec, RecorderFields, {"reserved", "next"})
      /\ w.rec.reserved = IF Recorded(v) THEN v.rec.next ELSE v.rec.reserved
  <2>1. Shape(v)
    BY DEF Inv, InvBut, Ready
  <2>2. /\ Keeps(v, u, Fields, {"op", "rec"})
        /\ Keeps(v.op, u.op, OpFields, {"gen", "cancel"})
        /\ u.op.gen = Generation(v) /\ u.op.cancel = TRUE
        /\ Keeps(v.rec, u.rec, RecorderFields, {"reserved", "next"})
        /\ u.rec.reserved = IF Recorded(v) THEN v.rec.next ELSE v.rec.reserved
        /\ Shape(u)
    BY <2>1, GrantedKeeps
  <2> HIDE DEF u
  <2> QED
    BY <2>1, <2>2 DEF Shape, Keeps, Fields, OpFields, RecorderFields, Goto
<1>3. /\ Shape(v) /\ Jobs(v) /\ ExecutorsClose(v, x.a) /\ AdaptersInv(x.a)
      /\ Lanes(v) /\ Fence(v) /\ Owned(v, x.a, NoAdapter) /\ Retired(v) /\ Sealed(v)
      /\ Clean(v) /\ Released(v) /\ Hidden(v) /\ Credits(v) /\ Quiet(v)
  BY DEF Inv, InvBut, Ready
<1>4. v.op.pc = "reserve" /\ v.op.kind = "reconnect" /\ ~CannotReserve(v)
  OBVIOUS
<1> HIDE DEF v, w, y, u
<1>5. Shape(w)
  BY <1>2, <1>3, <1>4, <1>0 DEF Keeps, Fields, OpFields, RecorderFields, Shape
<1>6. ExecutorsClose(w, x.a) /\ AdaptersInv(x.a)
  BY <1>2, <1>3, <1>4 DEF Keeps, Fields, ExecutorsClose
<1>7. /\ Jobs(w) /\ Hidden(w)
  BY <1>2, <1>3 DEF Keeps, Fields, Jobs, InFlight, Hidden
<1>8. Lanes(w)
  BY <1>2, <1>3, <1>4, <1>0 DEF Keeps, Fields, OpFields, RecorderFields, Lanes, Placed, NoOp
<1>9. Fence(w)
  BY <1>2, <1>3, <1>4 DEF Keeps, Fields, OpFields, RecorderFields, Fence
<1>10. Owned(w, x.a, NoAdapter)
  BY <1>2, <1>3, <1>4 DEF Keeps, Fields, OpFields, RecorderFields, Owned, HasCandidate
<1>11. Retired(w)
  BY <1>2, <1>3, <1>4 DEF Keeps, Fields, OpFields, RecorderFields, Retired
<1>12. Sealed(w)
  BY <1>2, <1>3, <1>4 DEF Keeps, Fields, OpFields, RecorderFields, Sealed
<1>13. Clean(w)
  BY <1>2, <1>3, <1>4 DEF Keeps, Fields, OpFields, RecorderFields, Clean, OutputsSafe
<1>14. Released(w)
  BY <1>2, <1>3, <1>4 DEF Keeps, Fields, OpFields, RecorderFields, Released, OutputsSafe
<1>15. Credits(w)
  BY <1>2, <1>3, <1>4 DEF Keeps, Fields, OpFields, RecorderFields, Credits, CannotReserve,
     Recorded, Generation
<1>16. Quiet(w)
  BY <1>2, <1>3, <1>4 DEF Keeps, Fields, OpFields, RecorderFields, Quiet
<1>17. Inv(y)
  BY <1>1, <1>5, <1>6, <1>7, <1>8, <1>9, <1>10, <1>11, <1>12, <1>13, <1>14, <1>15, <1>16
     DEF Inv, InvBut, Ready
<1> QED
  BY <1>17 DEF v, w, y, u

\* That of a reconciliation gates its resource.
LEMMA ReconcileReserves ==
    ASSUME NEW x, Inv(x),
           NEW g,
           x.v.op.pc = "reserve" /\ x.v.op.kind = "reconcile" /\ ~CannotReserve(x.v)
    PROVE  Inv(With(x, [Goto(Granted(x.v), "retire") EXCEPT !.gated = g]))
<1>0. Candidate \in Resources
  BY LifecycleAssumption
<1> DEFINE v == x.v
           u == Granted(v)
           w == [Goto(u, "retire") EXCEPT !.gated = g]
           y == With(x, w)
<1> HIDE DEF w
<1>1. y = Lane(w, x.a) /\ y.v = w /\ y.a = x.a
  BY DEF Inv, InvBut, Ready, Lane, With
<1> USE DEF w
<1>2. /\ Keeps(v, w, Fields, {"gated", "op", "rec"})
      /\ Keeps(v.op, w.op, OpFields, {"pc", "late", "gen", "cancel"})
      /\ w.op.pc = "retire"
      /\ w.op.late = FALSE
      /\ w.op.gen = Generation(v)
      /\ w.op.cancel = TRUE
      /\ Keeps(v.rec, w.rec, RecorderFields, {"reserved", "next"})
      /\ w.rec.reserved = IF Recorded(v) THEN v.rec.next ELSE v.rec.reserved
  <2>1. Shape(v)
    BY DEF Inv, InvBut, Ready
  <2>2. /\ Keeps(v, u, Fields, {"op", "rec"})
        /\ Keeps(v.op, u.op, OpFields, {"gen", "cancel"})
        /\ u.op.gen = Generation(v) /\ u.op.cancel = TRUE
        /\ Keeps(v.rec, u.rec, RecorderFields, {"reserved", "next"})
        /\ u.rec.reserved = IF Recorded(v) THEN v.rec.next ELSE v.rec.reserved
        /\ Shape(u)
    BY <2>1, GrantedKeeps
  <2> HIDE DEF u
  <2> QED
    BY <2>1, <2>2 DEF Shape, Keeps, Fields, OpFields, RecorderFields, Goto
<1>3. /\ Shape(v) /\ Jobs(v) /\ ExecutorsClose(v, x.a) /\ AdaptersInv(x.a)
      /\ Lanes(v) /\ Fence(v) /\ Owned(v, x.a, NoAdapter) /\ Retired(v) /\ Sealed(v)
      /\ Clean(v) /\ Released(v) /\ Hidden(v) /\ Credits(v) /\ Quiet(v)
  BY DEF Inv, InvBut, Ready
<1>4. v.op.pc = "reserve" /\ v.op.kind = "reconcile" /\ ~CannotReserve(v)
  OBVIOUS
<1> HIDE DEF v, w, y, u
<1>5. Shape(w)
  BY <1>2, <1>3, <1>4, <1>0 DEF Keeps, Fields, OpFields, RecorderFields, Shape
<1>6. ExecutorsClose(w, x.a) /\ AdaptersInv(x.a)
  BY <1>2, <1>3, <1>4 DEF Keeps, Fields, ExecutorsClose
<1>7. /\ Jobs(w) /\ Hidden(w)
  BY <1>2, <1>3 DEF Keeps, Fields, Jobs, InFlight, Hidden
<1>8. Lanes(w)
  BY <1>2, <1>3, <1>4, <1>0 DEF Keeps, Fields, OpFields, RecorderFields, Lanes, Placed, NoOp
<1>9. Fence(w)
  BY <1>2, <1>3, <1>4 DEF Keeps, Fields, OpFields, RecorderFields, Fence
<1>10. Owned(w, x.a, NoAdapter)
  BY <1>2, <1>3, <1>4 DEF Keeps, Fields, OpFields, RecorderFields, Owned, HasCandidate
<1>11. Retired(w)
  BY <1>2, <1>3, <1>4 DEF Keeps, Fields, OpFields, RecorderFields, Retired
<1>12. Sealed(w)
  BY <1>2, <1>3, <1>4 DEF Keeps, Fields, OpFields, RecorderFields, Sealed
<1>13. Clean(w)
  BY <1>2, <1>3, <1>4 DEF Keeps, Fields, OpFields, RecorderFields, Clean, OutputsSafe
<1>14. Released(w)
  BY <1>2, <1>3, <1>4 DEF Keeps, Fields, OpFields, RecorderFields, Released, OutputsSafe
<1>15. Credits(w)
  BY <1>2, <1>3, <1>4 DEF Keeps, Fields, OpFields, RecorderFields, Credits, CannotReserve,
     Recorded, Generation
<1>16. Quiet(w)
  BY <1>2, <1>3, <1>4 DEF Keeps, Fields, OpFields, RecorderFields, Quiet
<1>17. Inv(y)
  BY <1>1, <1>5, <1>6, <1>7, <1>8, <1>9, <1>10, <1>11, <1>12, <1>13, <1>14, <1>15, <1>16
     DEF Inv, InvBut, Ready
<1> QED
  BY <1>17 DEF v, w, y, u

\* That of a restart or a file is followed by the change.
LEMMA ChangeReserves ==
    ASSUME NEW x, Inv(x),
           x.v.op.pc = "reserve" /\ x.v.op.kind \in {"restart", "file"} /\ ~CannotReserve(x.v)
    PROVE  Inv(With(x, Goto(Granted(x.v), "change")))
<1>0. Candidate \in Resources
  BY LifecycleAssumption
<1> DEFINE v == x.v
           u == Granted(v)
           w == Goto(u, "change")
           y == With(x, w)
<1> HIDE DEF w
<1>1. y = Lane(w, x.a) /\ y.v = w /\ y.a = x.a
  BY DEF Inv, InvBut, Ready, Lane, With
<1> USE DEF w
<1>2. /\ Keeps(v, w, Fields, {"op", "rec"})
      /\ Keeps(v.op, w.op, OpFields, {"pc", "late", "gen", "cancel"})
      /\ w.op.pc = "change"
      /\ w.op.late = FALSE
      /\ w.op.gen = Generation(v)
      /\ w.op.cancel = TRUE
      /\ Keeps(v.rec, w.rec, RecorderFields, {"reserved", "next"})
      /\ w.rec.reserved = IF Recorded(v) THEN v.rec.next ELSE v.rec.reserved
  <2>1. Shape(v)
    BY DEF Inv, InvBut, Ready
  <2>2. /\ Keeps(v, u, Fields, {"op", "rec"})
        /\ Keeps(v.op, u.op, OpFields, {"gen", "cancel"})
        /\ u.op.gen = Generation(v) /\ u.op.cancel = TRUE
        /\ Keeps(v.rec, u.rec, RecorderFields, {"reserved", "next"})
        /\ u.rec.reserved = IF Recorded(v) THEN v.rec.next ELSE v.rec.reserved
        /\ Shape(u)
    BY <2>1, GrantedKeeps
  <2> HIDE DEF u
  <2> QED
    BY <2>1, <2>2 DEF Shape, Keeps, Fields, OpFields, RecorderFields, Goto
<1>3. /\ Shape(v) /\ Jobs(v) /\ ExecutorsClose(v, x.a) /\ AdaptersInv(x.a)
      /\ Lanes(v) /\ Fence(v) /\ Owned(v, x.a, NoAdapter) /\ Retired(v) /\ Sealed(v)
      /\ Clean(v) /\ Released(v) /\ Hidden(v) /\ Credits(v) /\ Quiet(v)
  BY DEF Inv, InvBut, Ready
<1>4. v.op.pc = "reserve" /\ v.op.kind \in {"restart", "file"} /\ ~CannotReserve(v)
  OBVIOUS
<1> HIDE DEF v, w, y, u
<1>5. Shape(w)
  BY <1>2, <1>3, <1>4, <1>0 DEF Keeps, Fields, OpFields, RecorderFields, Shape
<1>6. ExecutorsClose(w, x.a) /\ AdaptersInv(x.a)
  BY <1>2, <1>3, <1>4 DEF Keeps, Fields, ExecutorsClose
<1>7. /\ Jobs(w) /\ Hidden(w)
  BY <1>2, <1>3 DEF Keeps, Fields, Jobs, InFlight, Hidden
<1>8. Lanes(w)
  BY <1>2, <1>3, <1>4, <1>0 DEF Keeps, Fields, OpFields, RecorderFields, Lanes, Placed, NoOp
<1>9. Fence(w)
  BY <1>2, <1>3, <1>4 DEF Keeps, Fields, OpFields, RecorderFields, Fence
<1>10. Owned(w, x.a, NoAdapter)
  BY <1>2, <1>3, <1>4 DEF Keeps, Fields, OpFields, RecorderFields, Owned, HasCandidate
<1>11. Retired(w)
  BY <1>2, <1>3, <1>4 DEF Keeps, Fields, OpFields, RecorderFields, Retired
<1>12. Sealed(w)
  BY <1>2, <1>3, <1>4 DEF Keeps, Fields, OpFields, RecorderFields, Sealed
<1>13. Clean(w)
  BY <1>2, <1>3, <1>4 DEF Keeps, Fields, OpFields, RecorderFields, Clean, OutputsSafe
<1>14. Released(w)
  BY <1>2, <1>3, <1>4 DEF Keeps, Fields, OpFields, RecorderFields, Released, OutputsSafe
<1>15. Credits(w)
  BY <1>2, <1>3, <1>4 DEF Keeps, Fields, OpFields, RecorderFields, Credits, CannotReserve,
     Recorded, Generation
<1>16. Quiet(w)
  BY <1>2, <1>3, <1>4 DEF Keeps, Fields, OpFields, RecorderFields, Quiet
<1>17. Inv(y)
  BY <1>1, <1>5, <1>6, <1>7, <1>8, <1>9, <1>10, <1>11, <1>12, <1>13, <1>14, <1>15, <1>16
     DEF Inv, InvBut, Ready
<1> QED
  BY <1>17 DEF v, w, y, u

\* The facts of the replacement are reserved, and the resource gated.
LEMMA FactsReserved ==
    ASSUME NEW x, Inv(x),
           NEW g,
           x.v.op.pc = "facts"
    PROVE  Inv(With(x, [Goto(x.v, "retire") EXCEPT !.rec.facts = Recorded(x.v), !.gated = g]))
<1>0. Candidate \in Resources
  BY LifecycleAssumption
<1> DEFINE v == x.v
           w == [Goto(v, "retire") EXCEPT !.rec.facts = Recorded(v), !.gated = g]
           y == With(x, w)
<1> HIDE DEF w
<1>1. y = Lane(w, x.a) /\ y.v = w /\ y.a = x.a
  BY DEF Inv, InvBut, Ready, Lane, With
<1> USE DEF w
<1>2. /\ Keeps(v, w, Fields, {"gated", "op", "rec"})
      /\ Keeps(v.op, w.op, OpFields, {"pc", "late"})
      /\ w.op.pc = "retire"
      /\ w.op.late = FALSE
      /\ Keeps(v.rec, w.rec, RecorderFields, {"facts"})
  BY DEF Inv, InvBut, Ready, Shape, Keeps, Fields, OpFields, RecorderFields, Goto
<1>3. /\ Shape(v) /\ Jobs(v) /\ ExecutorsClose(v, x.a) /\ AdaptersInv(x.a)
      /\ Lanes(v) /\ Fence(v) /\ Owned(v, x.a, NoAdapter) /\ Retired(v) /\ Sealed(v)
      /\ Clean(v) /\ Released(v) /\ Hidden(v) /\ Credits(v) /\ Quiet(v)
  BY DEF Inv, InvBut, Ready
<1>4. v.op.pc = "facts"
  OBVIOUS
<1> HIDE DEF v, w, y
<1>5. Shape(w)
  BY <1>2, <1>3, <1>4, <1>0 DEF Keeps, Fields, OpFields, RecorderFields, Shape
<1>6. ExecutorsClose(w, x.a) /\ AdaptersInv(x.a)
  BY <1>2, <1>3, <1>4 DEF Keeps, Fields, ExecutorsClose
<1>7. /\ Jobs(w) /\ Hidden(w)
  BY <1>2, <1>3 DEF Keeps, Fields, Jobs, InFlight, Hidden
<1>8. Lanes(w)
  BY <1>2, <1>3, <1>4, <1>0 DEF Keeps, Fields, OpFields, RecorderFields, Lanes, Placed, NoOp
<1>9. Fence(w)
  BY <1>2, <1>3, <1>4 DEF Keeps, Fields, OpFields, RecorderFields, Fence
<1>10. Owned(w, x.a, NoAdapter)
  BY <1>2, <1>3, <1>4 DEF Keeps, Fields, OpFields, RecorderFields, Owned, HasCandidate
<1>11. Retired(w)
  BY <1>2, <1>3, <1>4 DEF Keeps, Fields, OpFields, RecorderFields, Retired
<1>12. Sealed(w)
  BY <1>2, <1>3, <1>4 DEF Keeps, Fields, OpFields, RecorderFields, Sealed
<1>13. Clean(w)
  BY <1>2, <1>3, <1>4 DEF Keeps, Fields, OpFields, RecorderFields, Clean, OutputsSafe
<1>14. Released(w)
  BY <1>2, <1>3, <1>4 DEF Keeps, Fields, OpFields, RecorderFields, Released, OutputsSafe
<1>15. Credits(w)
  BY <1>2, <1>3, <1>4 DEF Keeps, Fields, OpFields, RecorderFields, Credits, Placed, Lanes,
     Quiet, NoOp
<1>16. Quiet(w)
  BY <1>2, <1>3, <1>4 DEF Keeps, Fields, OpFields, RecorderFields, Quiet
<1>17. Inv(y)
  BY <1>1, <1>5, <1>6, <1>7, <1>8, <1>9, <1>10, <1>11, <1>12, <1>13, <1>14, <1>15, <1>16
     DEF Inv, InvBut, Ready
<1> QED
  BY <1>17 DEF v, w, y

-----------------------------------------------------------------------------
(* The replacement of a transport.                                         *)

\* What becomes of the service record when the new adapter i of r is bound.
Replaced(v, r, i) == [v EXCEPT !.exe[r] = InitExecutor(i), !.closed = @ \ {r}]
BoundAgain(v) ==
    LET r == v.op.res  u == Replaced(v, r, v.op.cand) IN
    [u EXCEPT !.bind[r] = @ + 1, !.op.cand = NoAdapter,
              !.probe[r] = IF r \in Native THEN "unknown" ELSE @,
              !.out[r] = IF @ = "none" THEN @ ELSE "unverified"]
InstalledAgain(v) ==
    LET u == Discarded(v)  w == Replaced(u, v.op.res, v.op.cand) IN
    [w EXCEPT !.gated = @ \ {v.op.res}, !.op.cand = NoAdapter]

LEMMA ReplacedKeeps ==
    ASSUME NEW v, Shape(v), NEW r \in Resources, NEW i
    PROVE  /\ Keeps(v, Replaced(v, r, i), Fields, {"exe", "closed"})
           /\ Replaced(v, r, i).closed = v.closed \ {r}
           /\ Replaced(v, r, i).exe[r] = InitExecutor(i)
           /\ \A q \in Resources : q # r => Replaced(v, r, i).exe[q] = v.exe[q]
           /\ Shape(Replaced(v, r, i))
<1> DEFINE w == Replaced(v, r, i)
<1>1. /\ Keeps(v, w, Fields, {"exe", "closed"}) /\ w.closed = v.closed \ {r}
      /\ w.exe = [v.exe EXCEPT ![r] = InitExecutor(i)]
  BY DEF Shape, Fields, Keeps, Replaced
<1> HIDE DEF w
<1>2. /\ DOMAIN w.exe = Resources /\ w.exe[r] = InitExecutor(i)
      /\ \A q \in Resources : q # r => w.exe[q] = v.exe[q]
  BY <1>1 DEF Shape, ExecutorShape
<1>3. Shape(w)
  BY <1>1, <1>2 DEF Shape, ExecutorShape, Keeps, Fields, InitExecutor, ExecutorFields
<1> QED
  BY <1>1, <1>2, <1>3 DEF w

LEMMA BoundKeeps ==
    ASSUME NEW v, Shape(v), v.op.res \in Resources
    PROVE  LET w == BoundAgain(v)  r == v.op.res IN
           /\ Keeps(v, w, Fields, {"exe", "closed", "bind", "op", "probe", "out"})
           /\ Keeps(v.op, w.op, OpFields, {"cand"}) /\ w.op.cand = NoAdapter
           /\ w.closed = v.closed \ {r}
           /\ w.exe[r] = InitExecutor(v.op.cand)
           /\ w.bind[r] = v.bind[r] + 1
           /\ w.out[r] = IF v.out[r] = "none" THEN "none" ELSE "unverified"
           /\ \A q \in Resources : q # r => w.exe[q] = v.exe[q] /\ w.out[q] = v.out[q]
           /\ Shape(w)
<1> DEFINE r == v.op.res
           u == Replaced(v, r, v.op.cand)
           w == BoundAgain(v)
<1>1. /\ Keeps(v, u, Fields, {"exe", "closed"})
      /\ u.closed = v.closed \ {r}
      /\ u.exe[r] = InitExecutor(v.op.cand)
      /\ \A q \in Resources : q # r => u.exe[q] = v.exe[q]
      /\ Shape(u)
  BY ReplacedKeeps
<1>2. w = [u EXCEPT !.bind[r] = @ + 1, !.op.cand = NoAdapter,
                    !.probe[r] = IF r \in Native THEN "unknown" ELSE @,
                    !.out[r] = IF @ = "none" THEN @ ELSE "unverified"]
  BY Zenon DEF BoundAgain
<1> HIDE DEF u, w
<1>3. /\ Keeps(u, w, Fields, {"bind", "op", "probe", "out"})
      /\ Keeps(u.op, w.op, OpFields, {"cand"}) /\ w.op.cand = NoAdapter
      /\ w.bind = [u.bind EXCEPT ![r] = @ + 1]
      /\ w.out = [u.out EXCEPT ![r] = IF @ = "none" THEN @ ELSE "unverified"]
      /\ DOMAIN w.probe = DOMAIN u.probe
  BY <1>1, <1>2 DEF Shape, Keeps, Fields, OpFields
<1>4. r \in Resources /\ u.bind \in [Resources -> Nat \ {0}]
  BY <1>1 DEF Shape
<1>5. w.bind \in [Resources -> Nat \ {0}] /\ w.bind[r] = u.bind[r] + 1
  <2> DEFINE n == u.bind[r] + 1
  <2>1. n \in Nat \ {0}
    BY <1>4
  <2>2. w.bind = [u.bind EXCEPT ![r] = n]
    BY <1>3
  <2> HIDE DEF n
  <2>3. w.bind \in [Resources -> Nat \ {0}] /\ w.bind[r] = n
    BY <1>4, <2>1, <2>2
  <2> QED
    BY <2>3 DEF n
<1>6. /\ DOMAIN w.out = Resources
      /\ w.out[r] = IF u.out[r] = "none" THEN "none" ELSE "unverified"
      /\ \A q \in Resources : q # r => w.out[q] = u.out[q]
  BY <1>1, <1>3, <1>4 DEF Shape
<1>7. Shape(w)
  BY <1>1, <1>3, <1>5, <1>6 DEF Shape, Keeps, Fields, OpFields
<1>8. u.op = v.op /\ u.bind = v.bind /\ u.out = v.out
  BY <1>1 DEF Keeps, Fields
<1>9. /\ Keeps(v, w, Fields, {"exe", "closed", "bind", "op", "probe", "out"})
      /\ w.exe = u.exe /\ w.closed = u.closed
  BY <1>1, <1>3 DEF Keeps, Fields
<1> QED
  BY <1>1, <1>3, <1>5, <1>6, <1>7, <1>8, <1>9 DEF w

LEMMA InstalledKeeps ==
    ASSUME NEW v, Shape(v), v.op.res \in Resources
    PROVE  LET w == InstalledAgain(v)  r == v.op.res IN
           /\ Keeps(v, w, Fields, {"exe", "closed", "gated", "op", "hid"})
           /\ Keeps(v.op, w.op, OpFields, {"cand"}) /\ w.op.cand = NoAdapter
           /\ w.closed = v.closed \ {r} /\ w.hid = NoHidden
           /\ w.exe[r] = InitExecutor(v.op.cand)
           /\ \A q \in Resources : q # r =>
                 /\ Keeps(v.exe[q], w.exe[q], ExecutorFields, {"job"})
                 /\ w.exe[q].job = IF q = Candidate /\ v.exe[q].job = "hidden" THEN "none"
                                   ELSE v.exe[q].job
           /\ Shape(w)
<1> DEFINE r == v.op.res
           d == Discarded(v)
           u == Replaced(d, r, v.op.cand)
           w == InstalledAgain(v)
<1>1. /\ Keeps(v, d, Fields, {"hid", "exe"}) /\ d.hid = NoHidden
      /\ \A q \in Resources :
            /\ Keeps(v.exe[q], d.exe[q], ExecutorFields, {"job"})
            /\ d.exe[q].job = IF q = Candidate /\ v.exe[q].job = "hidden" THEN "none"
                              ELSE v.exe[q].job
      /\ Shape(d)
  BY DiscardedKeeps
<1> HIDE DEF d
<1>2. /\ Keeps(d, u, Fields, {"exe", "closed"})
      /\ u.closed = d.closed \ {r}
      /\ u.exe[r] = InitExecutor(v.op.cand)
      /\ \A q \in Resources : q # r => u.exe[q] = d.exe[q]
      /\ Shape(u)
  BY <1>1, ReplacedKeeps
<1>3. w = [u EXCEPT !.gated = @ \ {r}, !.op.cand = NoAdapter]
  BY Zenon DEF InstalledAgain, d
<1> HIDE DEF u, w
<1>4. /\ Keeps(u, w, Fields, {"gated", "op"})
      /\ Keeps(u.op, w.op, OpFields, {"cand"}) /\ w.op.cand = NoAdapter
  BY <1>2, <1>3 DEF Shape, Keeps, Fields, OpFields
<1>5. Shape(w)
  BY <1>2, <1>4 DEF Shape, Keeps, Fields, OpFields
<1>6. Keeps(v, w, Fields, {"exe", "closed", "gated", "op", "hid"})
  BY <1>1, <1>2, <1>4 DEF Keeps, Fields
<1>7. w.exe = u.exe /\ w.closed = u.closed /\ w.hid = d.hid /\ d.closed = v.closed
      /\ u.op = v.op
  BY <1>1, <1>2, <1>4 DEF Keeps, Fields
<1> QED
  BY <1>1, <1>2, <1>4, <1>5, <1>6, <1>7 DEF w

\* The record of the service does not depend on the adapter that is dropped.
LEMMA DropCommutes ==
    ASSUME NEW x, x = Lane(x.v, x.a), NEW i, NEW w
    PROVE  /\ With(DropAdapter(x, i), w) = DropAdapter(With(x, w), i)
           /\ DropAdapter(x, i).v = x.v
  BY DEF DropAdapter, With, Lane

LEMMA ReboundIs ==
    ASSUME NEW x, x = Lane(x.v, x.a)
    PROVE  ReboundFromConfiguration(x) =
              DropAdapter(With(x, BoundAgain(x.v)), x.v.exe[x.v.op.res].adapter)
<1> DEFINE v == x.v
           r == v.op.res
           old == v.exe[r].adapter
           u == Replaced(v, r, v.op.cand)
           z == With(x, u)
           y == DropAdapter(z, old)
           bound == BoundAgain(v)
<1>1. z = Lane(z.v, z.a) /\ z.v = u /\ With(z, bound) = With(x, bound)
  BY WithLaws DEF Lane
<1>2. ReplaceTransport(x, r, v.op.cand) = y
  BY Zenon DEF ReplaceTransport, Replaced
<1>3. bound = [u EXCEPT !.bind[r] = @ + 1, !.op.cand = NoAdapter,
                        !.probe[r] = IF r \in Native THEN "unknown" ELSE @,
                        !.out[r] = IF @ = "none" THEN @ ELSE "unverified"]
  BY Zenon DEF BoundAgain
<1> HIDE DEF z
<1>4. y.v = u
  BY <1>1, DropCommutes
<1>5. ReboundFromConfiguration(x) =
         With(y, [y.v EXCEPT !.bind[r] = @ + 1, !.op.cand = NoAdapter,
                             !.probe[r] = IF r \in Native THEN "unknown" ELSE @,
                             !.out[r] = IF @ = "none" THEN @ ELSE "unverified"])
  BY <1>2, Zenon DEF ReboundFromConfiguration
<1> HIDE DEF u, y, bound
<1>6. ReboundFromConfiguration(x) = With(y, bound)
  BY <1>3, <1>4, <1>5, Zenon
<1>7. With(y, bound) = DropAdapter(With(z, bound), old)
  BY <1>1, DropCommutes DEF y
<1> QED
  BY <1>1, <1>6, <1>7 DEF bound

LEMMA InstalledIs ==
    ASSUME NEW x, x = Lane(x.v, x.a), Shape(x.v)
    PROVE  Installed(With(x, Discarded(x.v))) =
              DropAdapter(With(x, InstalledAgain(x.v)), x.v.exe[x.v.op.res].adapter)
<1> DEFINE v == x.v
           r == v.op.res
           d == Discarded(v)
           s == With(x, d)
           u == Replaced(d, r, v.op.cand)
           z == With(s, u)
           old == d.exe[r].adapter
           y == DropAdapter(z, old)
           w == InstalledAgain(v)
<1>1. d.op = v.op /\ old = v.exe[r].adapter
  <2>1. Keeps(v, d, Fields, {"hid", "exe"})
    BY DiscardedKeeps
  <2>2. old = v.exe[r].adapter
    BY DEF Discarded, Shape, Fields, ExecutorShape, ExecutorFields
  <2> HIDE DEF d
  <2> QED
    BY <2>1, <2>2 DEF Keeps, Fields
<1> HIDE DEF d
<1>2. s = Lane(s.v, s.a) /\ s.v = d /\ s.a = x.a
  BY WithLaws DEF Lane
<1>3. With(s, u) = With(x, u) /\ With(s, w) = With(x, w)
  BY WithLaws
<1> HIDE DEF s
<1>4. z = Lane(z.v, z.a) /\ z.v = u /\ With(z, w) = With(s, w)
  BY <1>2, WithLaws DEF Lane
<1>5. ReplaceTransport(s, r, v.op.cand) = y
  BY <1>2, Zenon DEF ReplaceTransport, Replaced
<1>6. w = [u EXCEPT !.gated = @ \ {r}, !.op.cand = NoAdapter]
  BY Zenon DEF InstalledAgain, d
<1> HIDE DEF z
<1>7. y.v = u
  BY <1>4, DropCommutes
<1>8. Installed(s) = With(y, [y.v EXCEPT !.gated = @ \ {r}, !.op.cand = NoAdapter])
  BY <1>1, <1>2, <1>5, Zenon DEF Installed
<1> HIDE DEF u, y, w
<1>9. Installed(s) = With(y, w)
  BY <1>6, <1>7, <1>8, Zenon
<1>10. With(y, w) = DropAdapter(With(z, w), old)
  BY <1>4, DropCommutes DEF y
<1>11. Installed(s) = DropAdapter(With(x, w), old)
  BY <1>3, <1>4, <1>9, <1>10
<1> QED
  BY <1>1, <1>11 DEF w, s, d

-----------------------------------------------------------------------------
(* The new adapter: opened, bound, installed, or retained.                 *)

\* The new adapter of a reconnect is bound; the old one is left to be dropped.
LEMMA ReconnectBinds ==
    ASSUME NEW x, Inv(x),
           x.v.op.pc = "opening" /\ x.v.op.kind = "reconnect" /\ x.v.op.res \in Resources
    PROVE  InvBut(With(x,
               Goto([BoundAgain(x.v) EXCEPT !.rec.facts = FALSE], "probe")), x.v.exe[x.v.op.res].adapter)
<1>0. Candidate \in Resources
  BY LifecycleAssumption
<1> DEFINE v == x.v
           u == BoundAgain(v)
           w == Goto([u EXCEPT !.rec.facts = FALSE], "probe")
           y == With(x, w)
<1> HIDE DEF w
<1>1. y = Lane(w, x.a) /\ y.v = w /\ y.a = x.a
  BY DEF Inv, InvBut, Ready, Lane, With
<1> USE DEF w
<1>2. /\ Keeps(v, w, Fields, {"bind", "closed", "exe", "op", "out", "probe", "rec"})
      /\ Keeps(v.op, w.op, OpFields, {"pc", "late", "cand"})
      /\ w.op.pc = "probe"
      /\ w.op.late = FALSE
      /\ w.op.cand = NoAdapter
      /\ Keeps(v.rec, w.rec, RecorderFields, {"facts"})
      /\ w.rec.facts = FALSE
      /\ w.closed = v.closed \ {v.op.res}
      /\ w.exe[v.op.res] = InitExecutor(v.op.cand)
      /\ DOMAIN w.exe = Resources /\ DOMAIN w.probe = Resources /\ DOMAIN w.out = Resources
      /\ w.bind \in [Resources -> Nat \ {0}]
      /\ w.bind[v.op.res] = v.bind[v.op.res] + 1
      /\ w.out[v.op.res] = IF v.out[v.op.res] = "none" THEN "none" ELSE "unverified"
      /\ \A q \in Resources : q # v.op.res => w.exe[q] = v.exe[q] /\ w.out[q] = v.out[q]
  <2>1. Shape(v)
    BY DEF Inv, InvBut, Ready
  <2>2. /\ Keeps(v, u, Fields, {"exe", "closed", "bind", "op", "probe", "out"})
        /\ Keeps(v.op, u.op, OpFields, {"cand"}) /\ u.op.cand = NoAdapter
        /\ u.closed = v.closed \ {v.op.res}
        /\ u.exe[v.op.res] = InitExecutor(v.op.cand)
        /\ u.bind[v.op.res] = v.bind[v.op.res] + 1
        /\ u.out[v.op.res] = IF v.out[v.op.res] = "none" THEN "none" ELSE "unverified"
        /\ \A q \in Resources : q # v.op.res => u.exe[q] = v.exe[q] /\ u.out[q] = v.out[q]
        /\ Shape(u)
    BY <2>1, BoundKeeps
  <2> HIDE DEF u
  <2>3. /\ Keeps(u, w, Fields, {"op", "rec"})
        /\ Keeps(u.op, w.op, OpFields, {"pc", "late"})
        /\ w.op.pc = "probe" /\ w.op.late = FALSE
        /\ Keeps(u.rec, w.rec, RecorderFields, {"facts"}) /\ w.rec.facts = FALSE
    BY <2>2 DEF Shape, Keeps, Fields, OpFields, RecorderFields, Goto
  <2> HIDE DEF w
  <2> QED
    BY <2>1, <2>2, <2>3 DEF Shape, ExecutorShape, Keeps, Fields, OpFields, RecorderFields
<1>3. /\ Shape(v) /\ Jobs(v) /\ ExecutorsClose(v, x.a) /\ AdaptersInv(x.a)
      /\ Lanes(v) /\ Fence(v) /\ Owned(v, x.a, NoAdapter) /\ Retired(v) /\ Sealed(v)
      /\ Clean(v) /\ Released(v) /\ Hidden(v) /\ Credits(v) /\ Quiet(v)
  BY DEF Inv, InvBut, Ready
<1>4. v.op.pc = "opening" /\ v.op.kind = "reconnect" /\ v.op.res \in Resources
  OBVIOUS
<1> HIDE DEF v, w, y, u
<1>5. Shape(w)
  BY <1>2, <1>3, <1>4, <1>0 DEF Keeps, Fields, OpFields, RecorderFields, Shape,
     ExecutorShape, ExecutorFields, InitExecutor
<1>6. ExecutorsClose(w, x.a) /\ AdaptersInv(x.a)
  BY <1>2, <1>3, <1>4 DEF Keeps, Fields, ExecutorsClose, InitExecutor, Owned, HasCandidate
<1>7. Jobs(w)
  BY <1>2, <1>3, <1>4 DEF Keeps, Fields, OpFields, RecorderFields, Jobs, InFlight,
     InitExecutor
<1>8. Lanes(w)
  BY <1>2, <1>3, <1>4, <1>0 DEF Keeps, Fields, OpFields, RecorderFields, Lanes, Placed, NoOp
<1>9. Fence(w)
  BY <1>2, <1>3, <1>4 DEF Keeps, Fields, OpFields, RecorderFields, Fence
<1>10. Owned(w, x.a, v.exe[v.op.res].adapter)
  BY <1>2, <1>3, <1>4 DEF Keeps, Fields, OpFields, RecorderFields, Owned, HasCandidate,
     InitExecutor, ExecutorsClose
<1>11. Retired(w)
  BY <1>2, <1>3, <1>4 DEF Keeps, Fields, OpFields, RecorderFields, Retired, InitExecutor
<1>12. Sealed(w)
  BY <1>2, <1>3, <1>4 DEF Keeps, Fields, OpFields, RecorderFields, Sealed
<1>13. Clean(w)
  BY <1>2, <1>3, <1>4 DEF Keeps, Fields, OpFields, RecorderFields, Clean, OutputsSafe, NoOp
<1>14. Released(w)
  BY <1>2, <1>3, <1>4 DEF Keeps, Fields, OpFields, RecorderFields, Released, OutputsSafe,
     InitExecutor, Shape, Lanes, NoOp
<1>15. Hidden(w)
  BY <1>2, <1>3, <1>4, <1>0 DEF Keeps, Fields, OpFields, RecorderFields, Hidden
<1>16. Credits(w)
  BY <1>2, <1>3, <1>4 DEF Keeps, Fields, OpFields, RecorderFields, Credits, Placed, Lanes,
     NoOp
<1>17. Quiet(w)
  BY <1>2, <1>3, <1>4 DEF Keeps, Fields, OpFields, RecorderFields, Quiet
<1>18. InvBut(y, v.exe[v.op.res].adapter)
  BY <1>1, <1>5, <1>6, <1>7, <1>8, <1>9, <1>10, <1>11, <1>12, <1>13, <1>14, <1>15, <1>16,
     <1>17 DEF Inv, InvBut, Ready
<1> QED
  BY <1>18 DEF v, w, y, u

\* So is that of a file candidate.
LEMMA FileBinds ==
    ASSUME NEW x, Inv(x),
           x.v.op.pc = "change" /\ x.v.op.kind = "file" /\ x.v.op.cand # NoAdapter /\ x.v.op.res \in Resources
    PROVE  InvBut(With(x, BoundAgain(x.v)), x.v.exe[x.v.op.res].adapter)
<1>0. Candidate \in Resources
  BY LifecycleAssumption
<1> DEFINE v == x.v
           w == BoundAgain(v)
           y == With(x, w)
<1> HIDE DEF w
<1>1. y = Lane(w, x.a) /\ y.v = w /\ y.a = x.a
  BY DEF Inv, InvBut, Ready, Lane, With
<1> USE DEF w
<1>2. /\ Keeps(v, w, Fields, {"bind", "closed", "exe", "op", "out", "probe"})
      /\ Keeps(v.op, w.op, OpFields, {"cand"})
      /\ w.op.cand = NoAdapter
      /\ w.closed = v.closed \ {v.op.res}
      /\ w.exe[v.op.res] = InitExecutor(v.op.cand)
      /\ DOMAIN w.exe = Resources /\ DOMAIN w.probe = Resources /\ DOMAIN w.out = Resources
      /\ w.bind \in [Resources -> Nat \ {0}]
      /\ w.bind[v.op.res] = v.bind[v.op.res] + 1
      /\ w.out[v.op.res] = IF v.out[v.op.res] = "none" THEN "none" ELSE "unverified"
      /\ \A q \in Resources : q # v.op.res => w.exe[q] = v.exe[q] /\ w.out[q] = v.out[q]
  <2>1. Shape(v)
    BY DEF Inv, InvBut, Ready
  <2>2. /\ Keeps(v, w, Fields, {"exe", "closed", "bind", "op", "probe", "out"})
        /\ Keeps(v.op, w.op, OpFields, {"cand"}) /\ w.op.cand = NoAdapter
        /\ w.closed = v.closed \ {v.op.res}
        /\ w.exe[v.op.res] = InitExecutor(v.op.cand)
        /\ w.bind[v.op.res] = v.bind[v.op.res] + 1
        /\ w.out[v.op.res] = IF v.out[v.op.res] = "none" THEN "none" ELSE "unverified"
        /\ \A q \in Resources : q # v.op.res => w.exe[q] = v.exe[q] /\ w.out[q] = v.out[q]
        /\ Shape(w)
    BY <2>1, BoundKeeps
  <2> HIDE DEF w
  <2> QED
    BY <2>1, <2>2 DEF Shape, ExecutorShape, Keeps, Fields, OpFields
<1>3. /\ Shape(v) /\ Jobs(v) /\ ExecutorsClose(v, x.a) /\ AdaptersInv(x.a)
      /\ Lanes(v) /\ Fence(v) /\ Owned(v, x.a, NoAdapter) /\ Retired(v) /\ Sealed(v)
      /\ Clean(v) /\ Released(v) /\ Hidden(v) /\ Credits(v) /\ Quiet(v)
  BY DEF Inv, InvBut, Ready
<1>4. v.op.pc = "change" /\ v.op.kind = "file" /\ v.op.cand # NoAdapter /\ v.op.res \in Resources
  OBVIOUS
<1> HIDE DEF v, w, y
<1>5. Shape(w)
  BY <1>2, <1>3, <1>4, <1>0 DEF Keeps, Fields, OpFields, Shape, ExecutorShape,
     ExecutorFields, InitExecutor
<1>6. ExecutorsClose(w, x.a) /\ AdaptersInv(x.a)
  BY <1>2, <1>3, <1>4 DEF Keeps, Fields, ExecutorsClose, InitExecutor, Owned, HasCandidate
<1>7. /\ Sealed(w)
  BY <1>2, <1>3 DEF Keeps, Fields, Sealed
<1>8. Jobs(w)
  BY <1>2, <1>3, <1>4 DEF Keeps, Fields, OpFields, Jobs, InFlight, InitExecutor
<1>9. Lanes(w)
  BY <1>2, <1>3, <1>4, <1>0 DEF Keeps, Fields, OpFields, Lanes, Placed, NoOp
<1>10. Fence(w)
  BY <1>2, <1>3, <1>4 DEF Keeps, Fields, OpFields, Fence
<1>11. Owned(w, x.a, v.exe[v.op.res].adapter)
  BY <1>2, <1>3, <1>4 DEF Keeps, Fields, OpFields, Owned, HasCandidate, InitExecutor,
     ExecutorsClose
<1>12. Retired(w)
  BY <1>2, <1>3, <1>4 DEF Keeps, Fields, OpFields, Retired, InitExecutor
<1>13. Clean(w)
  BY <1>2, <1>3, <1>4 DEF Keeps, Fields, OpFields, Clean, OutputsSafe, NoOp
<1>14. Released(w)
  BY <1>2, <1>3, <1>4 DEF Keeps, Fields, OpFields, Released, OutputsSafe, InitExecutor,
     Shape, Lanes, NoOp
<1>15. Hidden(w)
  BY <1>2, <1>3, <1>4, <1>0 DEF Keeps, Fields, OpFields, Hidden
<1>16. Credits(w)
  BY <1>2, <1>3, <1>4 DEF Keeps, Fields, OpFields, Credits, Placed, Lanes, NoOp
<1>17. Quiet(w)
  BY <1>2, <1>3, <1>4 DEF Keeps, Fields, OpFields, Quiet
<1>18. InvBut(y, v.exe[v.op.res].adapter)
  BY <1>1, <1>5, <1>6, <1>7, <1>8, <1>9, <1>10, <1>11, <1>12, <1>13, <1>14, <1>15, <1>16,
     <1>17 DEF Inv, InvBut, Ready
<1> QED
  BY <1>18 DEF v, w, y

\* The reconciliation forgets the hidden output and installs the new adapter.
LEMMA Installs ==
    ASSUME NEW x, Inv(x),
           x.v.op.pc = "discard" /\ x.v.op.res \in Resources
    PROVE  InvBut(With(x,
               [Goto(InstalledAgain(x.v), "commit") EXCEPT !.quar = FALSE]), x.v.exe[x.v.op.res].adapter)
<1>0. Candidate \in Resources
  BY LifecycleAssumption
<1> DEFINE v == x.v
           u == InstalledAgain(v)
           w == [Goto(u, "commit") EXCEPT !.quar = FALSE]
           y == With(x, w)
<1> HIDE DEF w
<1>1. y = Lane(w, x.a) /\ y.v = w /\ y.a = x.a
  BY DEF Inv, InvBut, Ready, Lane, With
<1> USE DEF w
<1>2. /\ Keeps(v, w, Fields, {"closed", "exe", "gated", "hid", "op", "quar"})
      /\ Keeps(v.op, w.op, OpFields, {"pc", "late", "cand"})
      /\ w.op.pc = "commit"
      /\ w.op.late = FALSE
      /\ w.op.cand = NoAdapter
      /\ w.closed = v.closed \ {v.op.res}
      /\ w.quar = FALSE
      /\ w.exe[v.op.res] = InitExecutor(v.op.cand)
      /\ DOMAIN w.exe = Resources
      /\ \A q \in Resources : q # v.op.res =>
            /\ Keeps(v.exe[q], w.exe[q], ExecutorFields, {"job"})
            /\ w.exe[q].job = IF q = Candidate /\ v.exe[q].job = "hidden" THEN "none"
                              ELSE v.exe[q].job
      /\ w.hid = NoHidden
  <2>1. Shape(v)
    BY DEF Inv, InvBut, Ready
  <2>2. /\ Keeps(v, u, Fields, {"exe", "closed", "gated", "op", "hid"})
        /\ Keeps(v.op, u.op, OpFields, {"cand"}) /\ u.op.cand = NoAdapter
        /\ u.closed = v.closed \ {v.op.res}
        /\ u.hid = NoHidden
        /\ u.exe[v.op.res] = InitExecutor(v.op.cand)
        /\ \A q \in Resources : q # v.op.res =>
              /\ Keeps(v.exe[q], u.exe[q], ExecutorFields, {"job"})
              /\ u.exe[q].job = IF q = Candidate /\ v.exe[q].job = "hidden" THEN "none"
                                ELSE v.exe[q].job
        /\ Shape(u)
    BY <2>1, InstalledKeeps
  <2> HIDE DEF u
  <2>3. /\ Keeps(u, w, Fields, {"op", "quar"})
        /\ Keeps(u.op, w.op, OpFields, {"pc", "late"})
        /\ w.op.pc = "commit" /\ w.op.late = FALSE
        /\ w.quar = FALSE
    BY <2>2 DEF Shape, Keeps, Fields, OpFields, RecorderFields, Goto
  <2> HIDE DEF w
  <2> QED
    BY <2>1, <2>2, <2>3 DEF Shape, ExecutorShape, Keeps, Fields, OpFields, RecorderFields
<1>3. /\ Shape(v) /\ Jobs(v) /\ ExecutorsClose(v, x.a) /\ AdaptersInv(x.a)
      /\ Lanes(v) /\ Fence(v) /\ Owned(v, x.a, NoAdapter) /\ Retired(v) /\ Sealed(v)
      /\ Clean(v) /\ Released(v) /\ Hidden(v) /\ Credits(v) /\ Quiet(v)
  BY DEF Inv, InvBut, Ready
<1>4. v.op.pc = "discard" /\ v.op.res \in Resources
  OBVIOUS
<1> HIDE DEF v, w, y, u
<1>5. Shape(w)
  BY <1>2, <1>3, <1>4, <1>0 DEF Keeps, Fields, OpFields, Shape, ExecutorShape,
     ExecutorFields, InitExecutor, NoHidden, HiddenFields
<1>6. ExecutorsClose(w, x.a) /\ AdaptersInv(x.a)
  BY <1>2, <1>3, <1>4 DEF Keeps, Fields, ExecutorsClose, InitExecutor, Owned, HasCandidate,
     ExecutorFields
<1>7. /\ Sealed(w)
  BY <1>2, <1>3 DEF Keeps, Fields, Sealed
<1>8. Jobs(w)
  BY <1>2, <1>3, <1>4 DEF Keeps, Fields, OpFields, Jobs, InFlight, InitExecutor,
     ExecutorFields, NoHidden
<1>9. Lanes(w)
  BY <1>2, <1>3, <1>4, <1>0 DEF Keeps, Fields, OpFields, Lanes, Placed, NoOp, Placed, NoOp
<1>10. Fence(w)
  BY <1>2, <1>3, <1>4 DEF Keeps, Fields, OpFields, Fence
<1>11. Owned(w, x.a, v.exe[v.op.res].adapter)
  BY <1>2, <1>3, <1>4 DEF Keeps, Fields, OpFields, Owned, HasCandidate, InitExecutor,
     ExecutorsClose, ExecutorFields, Placed, Lanes, NoOp
<1>12. Retired(w)
  BY <1>2, <1>3, <1>4 DEF Keeps, Fields, OpFields, Retired, InitExecutor
<1>13. Clean(w)
  BY <1>2, <1>3, <1>4 DEF Keeps, Fields, OpFields, Clean, OutputsSafe, NoOp, Lanes
<1>14. Released(w)
  BY <1>2, <1>3, <1>4 DEF Keeps, Fields, OpFields, Released, OutputsSafe, Lanes, Placed,
     NoOp
<1>15. Hidden(w)
  BY <1>2, <1>3, <1>4, <1>0 DEF Keeps, Fields, OpFields, Hidden, NoHidden, NoApply,
     HasOutput, Placed, Lanes, NoOp
<1>16. Credits(w)
  BY <1>2, <1>3, <1>4 DEF Keeps, Fields, OpFields, Credits, Placed, Lanes, NoOp
<1>17. Quiet(w)
  BY <1>2, <1>3, <1>4 DEF Keeps, Fields, OpFields, Quiet
<1>18. InvBut(y, v.exe[v.op.res].adapter)
  BY <1>1, <1>5, <1>6, <1>7, <1>8, <1>9, <1>10, <1>11, <1>12, <1>13, <1>14, <1>15, <1>16,
     <1>17 DEF Inv, InvBut, Ready
<1> QED
  BY <1>18 DEF v, w, y, u

\* A reconnect whose recorder is gone gives its new adapter up.
LEMMA OpeningIsLost ==
    ASSUME NEW x, Inv(x),
           x.v.op.pc = "opening" /\ x.v.op.kind = "reconnect" /\ x.v.rec.state # "up"
    PROVE  InvBut(With(x,
               Goto([x.v EXCEPT !.op.cand = NoAdapter], "retire_failed")), x.v.op.cand)
<1>0. Candidate \in Resources
  BY LifecycleAssumption
<1> DEFINE v == x.v
           w == Goto([v EXCEPT !.op.cand = NoAdapter], "retire_failed")
           y == With(x, w)
<1> HIDE DEF w
<1>1. y = Lane(w, x.a) /\ y.v = w /\ y.a = x.a
  BY DEF Inv, InvBut, Ready, Lane, With
<1> USE DEF w
<1>2. /\ Keeps(v, w, Fields, {"op"})
      /\ Keeps(v.op, w.op, OpFields, {"pc", "late", "cand"})
      /\ w.op.pc = "retire_failed"
      /\ w.op.late = FALSE
      /\ w.op.cand = NoAdapter
  BY DEF Inv, InvBut, Ready, Shape, Keeps, Fields, OpFields, Goto
<1>3. /\ Shape(v) /\ Jobs(v) /\ ExecutorsClose(v, x.a) /\ AdaptersInv(x.a)
      /\ Lanes(v) /\ Fence(v) /\ Owned(v, x.a, NoAdapter) /\ Retired(v) /\ Sealed(v)
      /\ Clean(v) /\ Released(v) /\ Hidden(v) /\ Credits(v) /\ Quiet(v)
  BY DEF Inv, InvBut, Ready
<1>4. v.op.pc = "opening" /\ v.op.kind = "reconnect" /\ v.rec.state # "up"
  OBVIOUS
<1> HIDE DEF v, w, y
<1>5. Shape(w)
  BY <1>2, <1>3, <1>4, <1>0 DEF Keeps, Fields, OpFields, Shape
<1>6. ExecutorsClose(w, x.a) /\ AdaptersInv(x.a)
  BY <1>2, <1>3, <1>4 DEF Keeps, Fields, ExecutorsClose
<1>7. /\ Jobs(w) /\ Sealed(w) /\ Hidden(w)
  BY <1>2, <1>3 DEF Keeps, Fields, Jobs, InFlight, Sealed, Hidden
<1>8. Lanes(w)
  BY <1>2, <1>3, <1>4, <1>0 DEF Keeps, Fields, OpFields, Lanes, Placed, NoOp
<1>9. Fence(w)
  BY <1>2, <1>3, <1>4 DEF Keeps, Fields, OpFields, Fence
<1>10. Owned(w, x.a, v.op.cand)
  BY <1>2, <1>3, <1>4 DEF Keeps, Fields, OpFields, Owned, HasCandidate
<1>11. Retired(w)
  BY <1>2, <1>3, <1>4 DEF Keeps, Fields, OpFields, Retired
<1>12. Clean(w)
  BY <1>2, <1>3, <1>4 DEF Keeps, Fields, OpFields, Clean, OutputsSafe, NoOp
<1>13. Released(w)
  BY <1>2, <1>3, <1>4 DEF Keeps, Fields, OpFields, Released, OutputsSafe
<1>14. Credits(w)
  BY <1>2, <1>3, <1>4 DEF Keeps, Fields, OpFields, Credits
<1>15. Quiet(w)
  BY <1>2, <1>3, <1>4 DEF Keeps, Fields, OpFields, Quiet
<1>16. InvBut(y, v.op.cand)
  BY <1>1, <1>5, <1>6, <1>7, <1>8, <1>9, <1>10, <1>11, <1>12, <1>13, <1>14, <1>15 DEF Inv,
     InvBut, Ready
<1> QED
  BY <1>16 DEF v, w, y

\* An adapter that did not stop in time is kept for a later retirement.
LEMMA Retained ==
    ASSUME NEW x, Inv(x),
           x.v.op.pc = "dispose"
    PROVE  InvBut(With(x, [Ended(x.v) EXCEPT !.held = x.v.op.cand]), x.v.held)
<1>0. Candidate \in Resources
  BY LifecycleAssumption
<1> DEFINE v == x.v
           w == [Ended(v) EXCEPT !.held = v.op.cand]
           y == With(x, w)
<1> HIDE DEF w
<1>1. y = Lane(w, x.a) /\ y.v = w /\ y.a = x.a
  BY DEF Inv, InvBut, Ready, Lane, With
<1> USE DEF w
<1>2. /\ Keeps(v, w, Fields, {"held", "op", "quiesced"})
      /\ w.held = v.op.cand
      /\ w.quiesced = IF v.op.kind \in {"restart", "file"} THEN FALSE ELSE v.quiesced
      /\ w.op = NoOp
  BY DEF Inv, InvBut, Ready, Shape, Keeps, Fields, Ended
<1>3. /\ Shape(v) /\ Jobs(v) /\ ExecutorsClose(v, x.a) /\ AdaptersInv(x.a)
      /\ Lanes(v) /\ Fence(v) /\ Owned(v, x.a, NoAdapter) /\ Retired(v) /\ Sealed(v)
      /\ Clean(v) /\ Released(v) /\ Hidden(v) /\ Credits(v) /\ Quiet(v)
  BY DEF Inv, InvBut, Ready
<1>4. v.op.pc = "dispose"
  OBVIOUS
<1> HIDE DEF v, w, y
<1>5. Shape(w)
  BY <1>2, <1>3, <1>4, <1>0, <1>0 DEF Keeps, Fields, Shape, NoOp, OpFields
<1>6. ExecutorsClose(w, x.a) /\ AdaptersInv(x.a)
  BY <1>2, <1>3, <1>4 DEF Keeps, Fields, ExecutorsClose
<1>7. /\ Jobs(w) /\ Sealed(w) /\ Hidden(w)
  BY <1>2, <1>3 DEF Keeps, Fields, Jobs, InFlight, Sealed, Hidden
<1>8. Lanes(w)
  BY <1>2, <1>3, <1>4, <1>0 DEF Keeps, Fields, Lanes, Placed, NoOp
<1>9. Fence(w)
  BY <1>2, <1>3, <1>4 DEF Keeps, Fields, Fence, NoOp
<1>10. Owned(w, x.a, v.held)
  BY <1>2, <1>3, <1>4 DEF Keeps, Fields, Owned, HasCandidate, HasCandidate, NoOp, Lanes,
     Placed
<1>11. Retired(w)
  BY <1>2, <1>3, <1>4 DEF Keeps, Fields, Retired, NoOp
<1>12. Clean(w)
  BY <1>2, <1>3, <1>4 DEF Keeps, Fields, Clean, OutputsSafe, NoOp, Lanes, Placed
<1>13. Released(w)
  BY <1>2, <1>3, <1>4 DEF Keeps, Fields, Released, OutputsSafe, NoOp
<1>14. Credits(w)
  BY <1>2, <1>3, <1>4 DEF Keeps, Fields, Credits, NoOp, Quiet
<1>15. Quiet(w)
  BY <1>2, <1>3, <1>4 DEF Keeps, Fields, Quiet, NoOp, Placed, Lanes
<1>16. InvBut(y, v.held)
  BY <1>1, <1>5, <1>6, <1>7, <1>8, <1>9, <1>10, <1>11, <1>12, <1>13, <1>14, <1>15 DEF Inv,
     InvBut, Ready
<1> QED
  BY <1>16 DEF v, w, y

\* A new worker is started beside the retired executor.
LEMMA Launches ==
    ASSUME NEW x, Inv(x),
           NEW i \in Adapters, x.a[i] = Gone,
           x.v.op.pc = "open"
    PROVE  Inv(Lane([Goto(x.v, IF x.v.op.kind = "file" THEN "reserve" ELSE "opening")
                     EXCEPT !.op.cand = i],
                    [x.a EXCEPT ![i] = Spawned(x.v.op.res)]))
<1>0. Candidate \in Resources
  BY LifecycleAssumption
<1> DEFINE v == x.v
           aa == [x.a EXCEPT ![i] = Spawned(v.op.res)]
           w == [Goto(v, IF v.op.kind = "file" THEN "reserve" ELSE "opening") EXCEPT !.op.cand = i]
           y == Lane(w, aa)
<1> HIDE DEF w
<1>1. y = Lane(w, aa) /\ y.v = w /\ y.a = aa
  BY DEF Inv, InvBut, Ready, Lane, With
<1> USE DEF w
<1>2. /\ Keeps(v, w, Fields, {"op"})
      /\ Keeps(v.op, w.op, OpFields, {"pc", "late", "cand"})
      /\ w.op.pc = IF v.op.kind = "file" THEN "reserve" ELSE "opening"
      /\ w.op.late = FALSE
      /\ w.op.cand = i
  BY DEF Inv, InvBut, Ready, Shape, Keeps, Fields, OpFields, Goto
<1>3. /\ Shape(v) /\ Jobs(v) /\ ExecutorsClose(v, x.a) /\ AdaptersInv(x.a)
      /\ Lanes(v) /\ Fence(v) /\ Owned(v, x.a, NoAdapter) /\ Retired(v) /\ Sealed(v)
      /\ Clean(v) /\ Released(v) /\ Hidden(v) /\ Credits(v) /\ Quiet(v)
  BY DEF Inv, InvBut, Ready
<1>4. /\ v.op.pc = "open" /\ i \in Adapters /\ x.a[i] = Gone
      /\ DOMAIN aa = Adapters /\ aa[i] = Spawned(v.op.res)
      /\ \A q \in Adapters : q # i => aa[q] = x.a[q]
  BY DEF Inv, InvBut, Ready, AdaptersInv
<1> HIDE DEF v, w, y, aa
<1>5. Shape(w)
  BY <1>2, <1>3, <1>4, <1>0 DEF Keeps, Fields, OpFields, Shape
<1>6. ExecutorsClose(w, aa) /\ AdaptersInv(aa)
  <2>1. \A r \in Resources : v.exe[r].adapter # i
    BY <1>3, <1>4, GoneIsDropped DEF Owned, ExecutorsClose
  <2>2. ExecutorsClose(w, aa)
    BY <1>2, <1>3, <1>4, <2>1 DEF Keeps, Fields, ExecutorsClose
  <2>3. AdapterInv(Spawned(v.op.res))
    BY DEF AdapterInv, AdapterFields, Spawned, Off
  <2> QED
    BY <1>3, <1>4, <2>2, <2>3 DEF AdaptersInv
<1>7. /\ Jobs(w) /\ Sealed(w) /\ Hidden(w)
  BY <1>2, <1>3 DEF Keeps, Fields, Jobs, InFlight, Sealed, Hidden
<1>8. Lanes(w)
  BY <1>2, <1>3, <1>4, <1>0 DEF Keeps, Fields, OpFields, Lanes, Placed, NoOp
<1>9. Fence(w)
  BY <1>2, <1>3, <1>4 DEF Keeps, Fields, OpFields, Fence
<1>10. Owned(w, aa, NoAdapter)
  <2>1. \A q \in Adapters : q # i => aa[q] = x.a[q]
    BY <1>4
  <2>2. ~aa[i].dropped /\ aa[i].res = v.op.res
    BY <1>4 DEF Spawned
  <2>3. \A r \in Resources : v.exe[r].adapter # i /\ v.exe[r].adapter \in Adapters
    BY <1>3, <1>4, GoneIsDropped DEF Owned, ExecutorsClose
  <2>4. v.held # i /\ i # NoAdapter
    BY <1>3, <1>4, GoneIsDropped DEF Owned, Adapters, NoAdapter
  <2>5. /\ w.exe = v.exe /\ w.held = v.held /\ w.op.cand = i /\ w.op.kind = v.op.kind
        /\ w.op.res = v.op.res /\ HasCandidate(w.op)
    BY <1>2, <1>3, <1>4, <2>4 DEF Keeps, Fields, OpFields, HasCandidate, Lanes, Placed, NoOp
  <2>6. v.op.cand = NoAdapter
    BY <1>3, <1>4 DEF Owned, HasCandidate, Lanes, Placed, NoOp
  <2> QED
    BY <1>3, <1>4, <2>1, <2>2, <2>3, <2>4, <2>5, <2>6 DEF Owned
<1>11. Retired(w)
  BY <1>2, <1>3, <1>4 DEF Keeps, Fields, OpFields, Retired, Placed, Lanes, NoOp
<1>12. Clean(w)
  BY <1>2, <1>3, <1>4 DEF Keeps, Fields, OpFields, Clean, OutputsSafe
<1>13. Released(w)
  BY <1>2, <1>3, <1>4 DEF Keeps, Fields, OpFields, Released, OutputsSafe
<1>14. Credits(w)
  BY <1>2, <1>3, <1>4 DEF Keeps, Fields, OpFields, Credits, Placed, Lanes, NoOp
<1>15. Quiet(w)
  BY <1>2, <1>3, <1>4 DEF Keeps, Fields, OpFields, Quiet
<1>16. Inv(y)
  BY <1>1, <1>5, <1>6, <1>7, <1>8, <1>9, <1>10, <1>11, <1>12, <1>13, <1>14, <1>15 DEF Inv,
     InvBut, Ready
<1> QED
  BY <1>16 DEF v, w, y, aa

LEMMA GotoKeeps ==
    ASSUME NEW v, Shape(v), NEW pc
    PROVE  /\ Keeps(v, Goto(v, pc), Fields, {"op"})
           /\ Keeps(v.op, Goto(v, pc).op, OpFields, {"pc", "late"})
           /\ Goto(v, pc).op.pc = pc /\ Goto(v, pc).op.late = FALSE
           /\ Shape(Goto(v, pc))
<1> DEFINE w == Goto(v, pc)
<1>1. /\ Keeps(v, w, Fields, {"op"}) /\ Keeps(v.op, w.op, OpFields, {"pc", "late"})
      /\ w.op.pc = pc /\ w.op.late = FALSE
  BY DEF Goto, Keeps, Fields, OpFields, Shape
<1> HIDE DEF w
<1>2. Shape(w)
  BY <1>1 DEF Keeps, Fields, OpFields, Shape
<1> QED
  BY <1>1, <1>2 DEF w

LEMMA ProbesKeeps ==
    ASSUME NEW v, Shape(v), NEW rs
    PROVE  /\ Keeps(v, ProbesBegun(v, rs), Fields, {"probe"})
           /\ DOMAIN ProbesBegun(v, rs).probe = Resources
           /\ Shape(ProbesBegun(v, rs))
<1> DEFINE w == ProbesBegun(v, rs)
           probe == [q \in Resources |-> IF q \in rs \cap Unasked(v) THEN "queued"
                                         ELSE v.probe[q]]
<1>1. w = [v EXCEPT !.probe = probe] /\ DOMAIN probe = Resources
  BY DEF ProbesBegun
<1> HIDE DEF w, probe
<1>2. Keeps(v, w, Fields, {"probe"}) /\ DOMAIN w.probe = Resources
  BY <1>1 DEF Keeps, Fields, Shape
<1>3. Shape(w)
  BY <1>2 DEF Keeps, Fields, Shape
<1> QED
  BY <1>2, <1>3 DEF w

\* The outputs a request for the safe state addresses are neither safe nor in flight.
Asked(v, w) ==
    /\ Keeps(v, w, Fields, {"out"}) /\ DOMAIN w.out = Resources
    /\ \A r \in Resources :
          v.out[r] \in {"none", "safe", "started", "obsolete"} => w.out[r] = v.out[r]

LEMMA AskedKeeps ==
    ASSUME NEW v, Shape(v)
    PROVE  Asked(v, UnverifiedAsked(v)) /\ Asked(v, BarrierAsked(v))
<1> DEFINE f == [r \in Resources |-> IF v.out[r] = "unverified" THEN "pending" ELSE v.out[r]]
           g == [r \in Resources |-> IF v.out[r] \in {"armed", "unverified"} THEN "pending"
                                     ELSE v.out[r]]
<1>1. UnverifiedAsked(v) = [v EXCEPT !.out = f] /\ BarrierAsked(v) = [v EXCEPT !.out = g]
  BY DEF UnverifiedAsked, BarrierAsked
<1>2. /\ DOMAIN f = Resources /\ DOMAIN g = Resources
      /\ \A r \in Resources : v.out[r] \in {"none", "safe", "started", "obsolete"} =>
            f[r] = v.out[r] /\ g[r] = v.out[r]
  OBVIOUS
<1> HIDE DEF f, g
<1> QED
  BY <1>1, <1>2 DEF Asked, Keeps, Fields, Shape

LEMMA AskedInv ==
    ASSUME NEW x, Inv(x), NEW w, Asked(x.v, w)
    PROVE  Inv(With(x, w))
<1>0. Candidate \in Resources
  BY LifecycleAssumption
<1> DEFINE v == x.v
           y == With(x, w)
<1>1. y = Lane(w, x.a) /\ y.v = w /\ y.a = x.a
  BY DEF Inv, InvBut, Ready, Lane, With
<1>2. /\ Keeps(v, w, Fields, {"out"}) /\ DOMAIN w.out = Resources
      /\ \A r \in Resources :
            v.out[r] \in {"none", "safe", "started", "obsolete"} => w.out[r] = v.out[r]
  BY DEF Asked
<1>3. /\ Shape(v) /\ Jobs(v) /\ ExecutorsClose(v, x.a) /\ AdaptersInv(x.a)
      /\ Lanes(v) /\ Fence(v) /\ Owned(v, x.a, NoAdapter) /\ Retired(v) /\ Sealed(v)
      /\ Clean(v) /\ Released(v) /\ Hidden(v) /\ Credits(v) /\ Quiet(v)
  BY DEF Inv, InvBut, Ready
<1> HIDE DEF v, y
<1>4. Shape(w)
  BY <1>2, <1>3 DEF Shape, Keeps, Fields
<1>5. ExecutorsClose(w, x.a)
  BY <1>2, <1>3 DEF ExecutorsClose, Keeps, Fields
<1>6. Jobs(w)
  BY <1>2, <1>3 DEF Jobs, InFlight, Keeps, Fields
<1>7. OutputsSafe(v) => OutputsSafe(w)
  BY <1>2 DEF OutputsSafe
<1>8. Lanes(w) /\ Fence(w) /\ Owned(w, x.a, NoAdapter) /\ Retired(w) /\ Sealed(w)
  BY <1>2, <1>3 DEF Lanes, Fence, Owned, Retired, Sealed, Keeps, Fields
<1>9. Clean(w) /\ Released(w) /\ Credits(w) /\ Quiet(w)
  BY <1>2, <1>3, <1>7 DEF Clean, Released, Credits, Quiet, Keeps, Fields
<1>10. v.out[Candidate] = "none" => w.out[Candidate] = "none"
  BY <1>0, <1>2
<1>11. Hidden(w)
  BY <1>2, <1>3, <1>10 DEF Hidden, Keeps, Fields
<1>12. Inv(y)
  BY <1>1, <1>3, <1>4, <1>5, <1>6, <1>8, <1>9, <1>11 DEF Inv, InvBut, Ready
<1> QED
  BY <1>12 DEF y

-----------------------------------------------------------------------------
(* Probes, outputs, and the lifecycle record.                              *)

\* Probes are queued.
LEMMA Probes ==
    ASSUME NEW x, Inv(x),
           NEW rs
    PROVE  Inv(With(x, ProbesBegun(x.v, rs)))
<1>0. Candidate \in Resources
  BY LifecycleAssumption
<1> DEFINE v == x.v
           w == ProbesBegun(v, rs)
           y == With(x, w)
<1> HIDE DEF w
<1>1. y = Lane(w, x.a) /\ y.v = w /\ y.a = x.a
  BY DEF Inv, InvBut, Ready, Lane, With
<1> USE DEF w
<1>2. /\ Keeps(v, w, Fields, {"probe"})
      /\ DOMAIN w.probe = Resources
  <2>1. Shape(v)
    BY DEF Inv, InvBut, Ready
  <2> QED
    BY <2>1, ProbesKeeps
<1>3. /\ Shape(v) /\ Jobs(v) /\ ExecutorsClose(v, x.a) /\ AdaptersInv(x.a)
      /\ Lanes(v) /\ Fence(v) /\ Owned(v, x.a, NoAdapter) /\ Retired(v) /\ Sealed(v)
      /\ Clean(v) /\ Released(v) /\ Hidden(v) /\ Credits(v) /\ Quiet(v)
  BY DEF Inv, InvBut, Ready
<1> HIDE DEF v, w, y
<1>4. Shape(w)
  BY <1>2, <1>3, <1>0 DEF Keeps, Fields, Shape
<1>5. ExecutorsClose(w, x.a) /\ AdaptersInv(x.a)
  BY <1>2, <1>3 DEF Keeps, Fields, ExecutorsClose
<1>6. /\ Jobs(w) /\ Lanes(w) /\ Fence(w) /\ Owned(w, x.a, NoAdapter) /\ Retired(w)
      /\ Sealed(w) /\ Clean(w) /\ Released(w) /\ Hidden(w) /\ Credits(w) /\ Quiet(w)
  BY <1>2, <1>3 DEF Keeps, Fields, Jobs, InFlight, Lanes, Fence, Owned, Retired, Sealed,
     Clean, OutputsSafe, Released, OutputsSafe, Hidden, Credits, Quiet
<1>7. Inv(y)
  BY <1>1, <1>4, <1>5, <1>6 DEF Inv, InvBut, Ready
<1> QED
  BY <1>7 DEF v, w, y

\* The probe is answered: outputs are next.
LEMMA ProbeSafes ==
    ASSUME NEW x, Inv(x),
           x.v.op.pc = "probe"
    PROVE  Inv(With(x, Goto(x.v, "safing")))
<1>0. Candidate \in Resources
  BY LifecycleAssumption
<1> DEFINE v == x.v
           w == Goto(v, "safing")
           y == With(x, w)
<1> HIDE DEF w
<1>1. y = Lane(w, x.a) /\ y.v = w /\ y.a = x.a
  BY DEF Inv, InvBut, Ready, Lane, With
<1> USE DEF w
<1>2. /\ Keeps(v, w, Fields, {"op"})
      /\ Keeps(v.op, w.op, OpFields, {"pc", "late"})
      /\ w.op.pc = "safing"
      /\ w.op.late = FALSE
  BY DEF Inv, InvBut, Ready, Shape, Keeps, Fields, OpFields, Goto
<1>3. /\ Shape(v) /\ Jobs(v) /\ ExecutorsClose(v, x.a) /\ AdaptersInv(x.a)
      /\ Lanes(v) /\ Fence(v) /\ Owned(v, x.a, NoAdapter) /\ Retired(v) /\ Sealed(v)
      /\ Clean(v) /\ Released(v) /\ Hidden(v) /\ Credits(v) /\ Quiet(v)
  BY DEF Inv, InvBut, Ready
<1>4. v.op.pc = "probe"
  OBVIOUS
<1> HIDE DEF v, w, y
<1>5. Shape(w)
  BY <1>2, <1>3, <1>4, <1>0 DEF Keeps, Fields, OpFields, Shape
<1>6. ExecutorsClose(w, x.a) /\ AdaptersInv(x.a)
  BY <1>2, <1>3, <1>4 DEF Keeps, Fields, ExecutorsClose
<1>7. /\ Jobs(w) /\ Sealed(w) /\ Hidden(w)
  BY <1>2, <1>3 DEF Keeps, Fields, Jobs, InFlight, Sealed, Hidden
<1>8. Lanes(w)
  BY <1>2, <1>3, <1>4, <1>0 DEF Keeps, Fields, OpFields, Lanes, Placed, NoOp
<1>9. Fence(w)
  BY <1>2, <1>3, <1>4 DEF Keeps, Fields, OpFields, Fence, NoOp, Lanes, Placed
<1>10. Owned(w, x.a, NoAdapter)
  BY <1>2, <1>3, <1>4 DEF Keeps, Fields, OpFields, Owned, HasCandidate, NoOp, Lanes, Placed
<1>11. Retired(w)
  BY <1>2, <1>3, <1>4 DEF Keeps, Fields, OpFields, Retired
<1>12. Clean(w)
  BY <1>2, <1>3, <1>4 DEF Keeps, Fields, OpFields, Clean, OutputsSafe, NoOp, Lanes, Placed
<1>13. Released(w)
  BY <1>2, <1>3, <1>4 DEF Keeps, Fields, OpFields, Released, OutputsSafe, NoOp, Lanes,
     Placed
<1>14. Credits(w)
  BY <1>2, <1>3, <1>4 DEF Keeps, Fields, OpFields, Credits, NoOp, Lanes, Placed
<1>15. Quiet(w)
  BY <1>2, <1>3, <1>4 DEF Keeps, Fields, OpFields, Quiet, NoOp, Lanes, Placed
<1>16. Inv(y)
  BY <1>1, <1>5, <1>6, <1>7, <1>8, <1>9, <1>10, <1>11, <1>12, <1>13, <1>14, <1>15 DEF Inv,
     InvBut, Ready
<1> QED
  BY <1>16 DEF v, w, y

\* The change is made: its lifecycle can be committed.
LEMMA ChangeCommits ==
    ASSUME NEW x, Inv(x),
           x.v.op.pc = "change" /\ x.v.op.cand = NoAdapter
    PROVE  Inv(With(x, Goto(x.v, "commit")))
<1>0. Candidate \in Resources
  BY LifecycleAssumption
<1> DEFINE v == x.v
           w == Goto(v, "commit")
           y == With(x, w)
<1> HIDE DEF w
<1>1. y = Lane(w, x.a) /\ y.v = w /\ y.a = x.a
  BY DEF Inv, InvBut, Ready, Lane, With
<1> USE DEF w
<1>2. /\ Keeps(v, w, Fields, {"op"})
      /\ Keeps(v.op, w.op, OpFields, {"pc", "late"})
      /\ w.op.pc = "commit"
      /\ w.op.late = FALSE
  BY DEF Inv, InvBut, Ready, Shape, Keeps, Fields, OpFields, Goto
<1>3. /\ Shape(v) /\ Jobs(v) /\ ExecutorsClose(v, x.a) /\ AdaptersInv(x.a)
      /\ Lanes(v) /\ Fence(v) /\ Owned(v, x.a, NoAdapter) /\ Retired(v) /\ Sealed(v)
      /\ Clean(v) /\ Released(v) /\ Hidden(v) /\ Credits(v) /\ Quiet(v)
  BY DEF Inv, InvBut, Ready
<1>4. v.op.pc = "change" /\ v.op.cand = NoAdapter
  OBVIOUS
<1> HIDE DEF v, w, y
<1>5. Shape(w)
  BY <1>2, <1>3, <1>4, <1>0 DEF Keeps, Fields, OpFields, Shape
<1>6. ExecutorsClose(w, x.a) /\ AdaptersInv(x.a)
  BY <1>2, <1>3, <1>4 DEF Keeps, Fields, ExecutorsClose
<1>7. /\ Jobs(w) /\ Sealed(w) /\ Hidden(w)
  BY <1>2, <1>3 DEF Keeps, Fields, Jobs, InFlight, Sealed, Hidden
<1>8. Lanes(w)
  BY <1>2, <1>3, <1>4, <1>0 DEF Keeps, Fields, OpFields, Lanes, Placed, NoOp
<1>9. Fence(w)
  BY <1>2, <1>3, <1>4 DEF Keeps, Fields, OpFields, Fence, NoOp, Lanes, Placed
<1>10. Owned(w, x.a, NoAdapter)
  BY <1>2, <1>3, <1>4 DEF Keeps, Fields, OpFields, Owned, HasCandidate, NoOp, Lanes, Placed
<1>11. Retired(w)
  BY <1>2, <1>3, <1>4 DEF Keeps, Fields, OpFields, Retired
<1>12. Clean(w)
  BY <1>2, <1>3, <1>4 DEF Keeps, Fields, OpFields, Clean, OutputsSafe, NoOp, Lanes, Placed
<1>13. Released(w)
  BY <1>2, <1>3, <1>4 DEF Keeps, Fields, OpFields, Released, OutputsSafe, NoOp, Lanes,
     Placed
<1>14. Credits(w)
  BY <1>2, <1>3, <1>4 DEF Keeps, Fields, OpFields, Credits, NoOp, Lanes, Placed
<1>15. Quiet(w)
  BY <1>2, <1>3, <1>4 DEF Keeps, Fields, OpFields, Quiet, NoOp, Lanes, Placed
<1>16. Inv(y)
  BY <1>1, <1>5, <1>6, <1>7, <1>8, <1>9, <1>10, <1>11, <1>12, <1>13, <1>14, <1>15 DEF Inv,
     InvBut, Ready
<1> QED
  BY <1>16 DEF v, w, y

\* The service record once the lifecycle is submitted, and q tells whether that ends
\* the quiesce.
Submitted(v, q) ==
    LET u == Committed(v, v.op.gen) IN
    [Goto([(IF v.op.kind = "file" THEN [u EXCEPT !.rev = @ + 1] ELSE u)
              EXCEPT !.op.cancel = FALSE], "confirm")
       EXCEPT !.quiesced = IF q THEN FALSE ELSE @]

\* The lifecycle record is submitted; a file revision stands.
LEMMA Commits ==
    ASSUME NEW x, Inv(x),
           NEW q,
           x.v.op.pc = "commit" /\ CanCommit(x.v, x.v.op.gen)
    PROVE  Inv(With(x, Submitted(x.v, q)))
<1>0. Candidate \in Resources
  BY LifecycleAssumption
<1> DEFINE v == x.v
           u == Committed(v, v.op.gen)
           w == [Goto([(IF v.op.kind = "file" THEN [u EXCEPT !.rev = @ + 1] ELSE u)
                         EXCEPT !.op.cancel = FALSE], "confirm")
                  EXCEPT !.quiesced = IF q THEN FALSE ELSE @]
           y == With(x, w)
<1> HIDE DEF w
<1>1. y = Lane(w, x.a) /\ y.v = w /\ y.a = x.a
  BY DEF Inv, InvBut, Ready, Lane, With
<1> USE DEF w
<1>2. /\ Keeps(v, w, Fields, {"op", "quiesced", "rec", "rev"})
      /\ Keeps(v.op, w.op, OpFields, {"pc", "late", "cancel"})
      /\ w.op.pc = "confirm"
      /\ w.op.late = FALSE
      /\ w.op.cancel = FALSE
      /\ Keeps(v.rec, w.rec, RecorderFields, {"reserved", "pending"})
      /\ w.quiesced = IF q THEN FALSE ELSE v.quiesced
      /\ v.op.gen = 0 => w.rec = v.rec
      /\ v.op.gen # 0 => w.rec.reserved = 0 /\ w.rec.pending = v.op.gen
  <2>1. Shape(v)
    BY DEF Inv, InvBut, Ready
  <2>2. /\ Keeps(v, u, Fields, {"rec"})
        /\ Keeps(v.rec, u.rec, RecorderFields, {"reserved", "pending"})
        /\ v.op.gen = 0 => u.rec = v.rec
        /\ v.op.gen # 0 => u.rec.reserved = 0 /\ u.rec.pending = v.op.gen
    BY <2>1, CommittedKeeps
  <2> HIDE DEF u
  <2>3. /\ Keeps(u, w, Fields, {"op", "quiesced", "rev"})
        /\ Keeps(u.op, w.op, OpFields, {"pc", "late", "cancel"})
        /\ w.op.pc = "confirm" /\ w.op.late = FALSE /\ w.op.cancel = FALSE
        /\ w.quiesced = IF q THEN FALSE ELSE u.quiesced
    BY <2>1, <2>2 DEF Shape, Keeps, Fields, OpFields, RecorderFields, Goto
  <2> HIDE DEF w
  <2>4. w.rec = u.rec /\ u.op = v.op /\ u.quiesced = v.quiesced
    BY <2>2, <2>3 DEF Keeps, Fields
  <2>5. Keeps(v, w, Fields, {"op", "quiesced", "rec", "rev"})
    BY <2>2, <2>3 DEF Keeps, Fields
  <2> QED
    BY <2>1, <2>2, <2>3, <2>4, <2>5
<1>3. /\ Shape(v) /\ Jobs(v) /\ ExecutorsClose(v, x.a) /\ AdaptersInv(x.a)
      /\ Lanes(v) /\ Fence(v) /\ Owned(v, x.a, NoAdapter) /\ Retired(v) /\ Sealed(v)
      /\ Clean(v) /\ Released(v) /\ Hidden(v) /\ Credits(v) /\ Quiet(v)
  BY DEF Inv, InvBut, Ready
<1>4. v.op.pc = "commit" /\ CanCommit(v, v.op.gen)
  OBVIOUS
<1> HIDE DEF v, w, y, u
<1>5. Shape(w)
  BY <1>2, <1>3, <1>4, <1>0 DEF Keeps, Fields, OpFields, RecorderFields, Shape
<1>6. ExecutorsClose(w, x.a) /\ AdaptersInv(x.a)
  BY <1>2, <1>3, <1>4 DEF Keeps, Fields, ExecutorsClose
<1>7. /\ Jobs(w) /\ Hidden(w)
  BY <1>2, <1>3 DEF Keeps, Fields, Jobs, InFlight, Hidden
<1>8. Lanes(w)
  BY <1>2, <1>3, <1>4, <1>0 DEF Keeps, Fields, OpFields, RecorderFields, Lanes, Placed, NoOp
<1>9. Fence(w)
  BY <1>2, <1>3, <1>4 DEF Keeps, Fields, OpFields, RecorderFields, Fence, NoOp, Lanes,
     Placed
<1>10. Owned(w, x.a, NoAdapter)
  BY <1>2, <1>3, <1>4 DEF Keeps, Fields, OpFields, RecorderFields, Owned, HasCandidate,
     NoOp, Lanes, Placed
<1>11. Retired(w)
  BY <1>2, <1>3, <1>4 DEF Keeps, Fields, OpFields, RecorderFields, Retired
<1>12. Sealed(w)
  BY <1>2, <1>3, <1>4 DEF Keeps, Fields, OpFields, RecorderFields, Sealed, CanCommit
<1>13. Clean(w)
  BY <1>2, <1>3, <1>4 DEF Keeps, Fields, OpFields, RecorderFields, Clean, OutputsSafe,
     NoOp, Lanes, Placed
<1>14. Released(w)
  BY <1>2, <1>3, <1>4 DEF Keeps, Fields, OpFields, RecorderFields, Released, OutputsSafe,
     NoOp, Lanes, Placed
<1>15. Credits(w)
  BY <1>2, <1>3, <1>4 DEF Keeps, Fields, OpFields, RecorderFields, Credits, CanCommit,
     NoOp, Lanes, Placed
<1>16. Quiet(w)
  BY <1>2, <1>3, <1>4 DEF Keeps, Fields, OpFields, RecorderFields, Quiet, NoOp, Lanes,
     Placed
<1>17. Inv(y)
  BY <1>1, <1>5, <1>6, <1>7, <1>8, <1>9, <1>10, <1>11, <1>12, <1>13, <1>14, <1>15, <1>16
     DEF Inv, InvBut, Ready
<1> QED
  BY <1>17 DEF v, w, y, u, Submitted

\* A reconnect that cannot be recorded is retired.
LEMMA CommitRetires ==
    ASSUME NEW x, Inv(x),
           x.v.op.pc = "commit" /\ x.v.op.kind = "reconnect" /\ ~CanCommit(x.v, x.v.op.gen)
    PROVE  Inv(With(x,
               Goto([RecordingFailed(Cancelled(x.v, x.v.op.gen)) EXCEPT !.op.cancel = FALSE], "retire_failed")))
<1>0. Candidate \in Resources
  BY LifecycleAssumption
<1> DEFINE v == x.v
           u == RecordingFailed(Cancelled(v, v.op.gen))
           w == Goto([u EXCEPT !.op.cancel = FALSE], "retire_failed")
           y == With(x, w)
<1> HIDE DEF w
<1>1. y = Lane(w, x.a) /\ y.v = w /\ y.a = x.a
  BY DEF Inv, InvBut, Ready, Lane, With
<1> USE DEF w
<1>2. /\ Keeps(v, w, Fields, {"gate", "op", "rec"})
      /\ Keeps(v.op, w.op, OpFields, {"pc", "late", "cancel"})
      /\ w.op.pc = "retire_failed"
      /\ w.op.late = FALSE
      /\ w.op.cancel = FALSE
      /\ Keeps(v.rec, w.rec, RecorderFields, {"reserved", "facts"})
      /\ w.rec.facts = FALSE
      /\ w.gate = "failed" \/ w.gate = v.gate
      /\ w.rec.reserved = v.rec.reserved \/ w.rec.reserved = 0
  <2>1. Shape(v)
    BY DEF Inv, InvBut, Ready
  <2> DEFINE c == Cancelled(v, v.op.gen)
  <2>2. /\ Keeps(v, c, Fields, {"rec"})
        /\ Keeps(v.rec, c.rec, RecorderFields, {"reserved", "facts"})
        /\ c.rec.facts = FALSE /\ Shape(c)
        /\ c.rec.reserved = v.rec.reserved \/ c.rec.reserved = 0
    BY <2>1, CancelledKeeps
  <2> HIDE DEF c
  <2>4. /\ Keeps(v, u, Fields, {"rec", "gate"}) /\ u.rec = c.rec /\ Shape(u)
        /\ u.gate = "failed" \/ u.gate = v.gate
        /\ Keeps(v.rec, u.rec, RecorderFields, {"reserved", "facts"})
        /\ u.rec.facts = FALSE
        /\ u.rec.reserved = v.rec.reserved \/ u.rec.reserved = 0
    <3>1. /\ Keeps(c, u, Fields, {"gate"}) /\ Shape(u)
          /\ u.gate = "failed" \/ u.gate = c.gate
      BY <2>2, RecordingFailedKeeps DEF c
    <3> HIDE DEF u
    <3> QED
      BY <2>2, <3>1 DEF Keeps, Fields
  <2> HIDE DEF u
  <2>5. /\ Keeps(u, w, Fields, {"op"})
        /\ Keeps(u.op, w.op, OpFields, {"pc", "late", "cancel"})
        /\ w.op.pc = "retire_failed" /\ w.op.late = FALSE /\ w.op.cancel = FALSE
    BY <2>4 DEF Shape, Keeps, Fields, OpFields, RecorderFields, Goto
  <2> HIDE DEF w
  <2>6. w.rec = u.rec /\ w.gate = u.gate /\ u.op = v.op /\ u.quiesced = v.quiesced
    BY <2>4, <2>5 DEF Keeps, Fields
  <2>7. Keeps(v, w, Fields, {"gate", "op", "rec"})
    BY <2>4, <2>5 DEF Keeps, Fields
  <2> QED
    BY <2>1, <2>4, <2>5, <2>6, <2>7
<1>3. /\ Shape(v) /\ Jobs(v) /\ ExecutorsClose(v, x.a) /\ AdaptersInv(x.a)
      /\ Lanes(v) /\ Fence(v) /\ Owned(v, x.a, NoAdapter) /\ Retired(v) /\ Sealed(v)
      /\ Clean(v) /\ Released(v) /\ Hidden(v) /\ Credits(v) /\ Quiet(v)
  BY DEF Inv, InvBut, Ready
<1>4. v.op.pc = "commit" /\ v.op.kind = "reconnect" /\ ~CanCommit(v, v.op.gen)
  OBVIOUS
<1> HIDE DEF v, w, y, u
<1>5. Shape(w)
  BY <1>2, <1>3, <1>4, <1>0 DEF Keeps, Fields, OpFields, RecorderFields, Shape
<1>6. ExecutorsClose(w, x.a) /\ AdaptersInv(x.a)
  BY <1>2, <1>3, <1>4 DEF Keeps, Fields, ExecutorsClose
<1>7. /\ Jobs(w) /\ Hidden(w)
  BY <1>2, <1>3 DEF Keeps, Fields, Jobs, InFlight, Hidden
<1>8. Lanes(w)
  BY <1>2, <1>3, <1>4, <1>0 DEF Keeps, Fields, OpFields, RecorderFields, Lanes, Placed, NoOp
<1>9. Fence(w)
  BY <1>2, <1>3, <1>4 DEF Keeps, Fields, OpFields, RecorderFields, Fence, NoOp, Lanes,
     Placed
<1>10. Owned(w, x.a, NoAdapter)
  BY <1>2, <1>3, <1>4 DEF Keeps, Fields, OpFields, RecorderFields, Owned, HasCandidate,
     NoOp, Lanes, Placed
<1>11. Retired(w)
  BY <1>2, <1>3, <1>4 DEF Keeps, Fields, OpFields, RecorderFields, Retired
<1>12. Sealed(w)
  BY <1>2, <1>3, <1>4 DEF Keeps, Fields, OpFields, RecorderFields, Sealed
<1>13. Clean(w)
  BY <1>2, <1>3, <1>4 DEF Keeps, Fields, OpFields, RecorderFields, Clean, OutputsSafe,
     NoOp, Lanes, Placed
<1>14. Released(w)
  BY <1>2, <1>3, <1>4 DEF Keeps, Fields, OpFields, RecorderFields, Released, OutputsSafe,
     NoOp, Lanes, Placed
<1>15. Credits(w)
  BY <1>2, <1>3, <1>4 DEF Keeps, Fields, OpFields, RecorderFields, Credits, CanCommit,
     NoOp, Lanes, Placed, NoApply
<1>16. Quiet(w)
  BY <1>2, <1>3, <1>4 DEF Keeps, Fields, OpFields, RecorderFields, Quiet, NoOp, Lanes,
     Placed
<1>17. Inv(y)
  BY <1>1, <1>5, <1>6, <1>7, <1>8, <1>9, <1>10, <1>11, <1>12, <1>13, <1>14, <1>15, <1>16
     DEF Inv, InvBut, Ready
<1> QED
  BY <1>17 DEF v, w, y, u

\* A restart or a reconciliation that cannot be recorded ends.
LEMMA CommitEnds ==
    ASSUME NEW x, Inv(x),
           x.v.op.pc = "commit" /\ x.v.op.kind # "file" /\ ~CanCommit(x.v, x.v.op.gen)
    PROVE  Inv(With(x,
               Ended([RecordingFailed(Cancelled(x.v, x.v.op.gen)) EXCEPT !.op.cancel = FALSE])))
<1>0. Candidate \in Resources
  BY LifecycleAssumption
<1> DEFINE v == x.v
           u == RecordingFailed(Cancelled(v, v.op.gen))
           w == Ended([u EXCEPT !.op.cancel = FALSE])
           y == With(x, w)
<1> HIDE DEF w
<1>1. y = Lane(w, x.a) /\ y.v = w /\ y.a = x.a
  BY DEF Inv, InvBut, Ready, Lane, With
<1> USE DEF w
<1>2. /\ Keeps(v, w, Fields, {"gate", "op", "quiesced", "rec"})
      /\ Keeps(v.rec, w.rec, RecorderFields, {"reserved", "facts"})
      /\ w.rec.facts = FALSE
      /\ w.quiesced = IF v.op.kind \in {"restart", "file"} THEN FALSE ELSE v.quiesced
      /\ w.op = NoOp
      /\ w.gate = "failed" \/ w.gate = v.gate
      /\ w.rec.reserved = v.rec.reserved \/ w.rec.reserved = 0
  <2>1. Shape(v)
    BY DEF Inv, InvBut, Ready
  <2> DEFINE c == Cancelled(v, v.op.gen)
  <2>2. /\ Keeps(v, c, Fields, {"rec"})
        /\ Keeps(v.rec, c.rec, RecorderFields, {"reserved", "facts"})
        /\ c.rec.facts = FALSE /\ Shape(c)
        /\ c.rec.reserved = v.rec.reserved \/ c.rec.reserved = 0
    BY <2>1, CancelledKeeps
  <2> HIDE DEF c
  <2>4. /\ Keeps(v, u, Fields, {"rec", "gate"}) /\ u.rec = c.rec /\ Shape(u)
        /\ u.gate = "failed" \/ u.gate = v.gate
        /\ Keeps(v.rec, u.rec, RecorderFields, {"reserved", "facts"})
        /\ u.rec.facts = FALSE
        /\ u.rec.reserved = v.rec.reserved \/ u.rec.reserved = 0
    <3>1. /\ Keeps(c, u, Fields, {"gate"}) /\ Shape(u)
          /\ u.gate = "failed" \/ u.gate = c.gate
      BY <2>2, RecordingFailedKeeps DEF c
    <3> HIDE DEF u
    <3> QED
      BY <2>2, <3>1 DEF Keeps, Fields
  <2> HIDE DEF u
  <2>5. /\ Keeps(u, w, Fields, {"op", "quiesced"})
        /\ w.op = NoOp
        /\ w.quiesced = IF u.op.kind \in {"restart", "file"} THEN FALSE ELSE u.quiesced
    BY <2>4 DEF Shape, Keeps, Fields, OpFields, RecorderFields, Ended
  <2> HIDE DEF w
  <2>6. w.rec = u.rec /\ w.gate = u.gate /\ u.op = v.op /\ u.quiesced = v.quiesced
    BY <2>4, <2>5 DEF Keeps, Fields
  <2>7. Keeps(v, w, Fields, {"gate", "op", "quiesced", "rec"})
    BY <2>4, <2>5 DEF Keeps, Fields
  <2> QED
    BY <2>1, <2>4, <2>5, <2>6, <2>7
<1>3. /\ Shape(v) /\ Jobs(v) /\ ExecutorsClose(v, x.a) /\ AdaptersInv(x.a)
      /\ Lanes(v) /\ Fence(v) /\ Owned(v, x.a, NoAdapter) /\ Retired(v) /\ Sealed(v)
      /\ Clean(v) /\ Released(v) /\ Hidden(v) /\ Credits(v) /\ Quiet(v)
  BY DEF Inv, InvBut, Ready
<1>4. v.op.pc = "commit" /\ v.op.kind # "file" /\ ~CanCommit(v, v.op.gen)
  OBVIOUS
<1> HIDE DEF v, w, y, u
<1>5. Shape(w)
  BY <1>2, <1>3, <1>4, <1>0, <1>0 DEF Keeps, Fields, RecorderFields, Shape, NoOp, OpFields
<1>6. ExecutorsClose(w, x.a) /\ AdaptersInv(x.a)
  BY <1>2, <1>3, <1>4 DEF Keeps, Fields, ExecutorsClose
<1>7. /\ Jobs(w) /\ Hidden(w)
  BY <1>2, <1>3 DEF Keeps, Fields, Jobs, InFlight, Hidden
<1>8. Lanes(w)
  BY <1>2, <1>3, <1>4, <1>0 DEF Keeps, Fields, RecorderFields, Lanes, Placed, NoOp, NoOp,
     Placed
<1>9. Fence(w)
  BY <1>2, <1>3, <1>4 DEF Keeps, Fields, RecorderFields, Fence, NoOp
<1>10. Owned(w, x.a, NoAdapter)
  BY <1>2, <1>3, <1>4 DEF Keeps, Fields, RecorderFields, Owned, HasCandidate, HasCandidate,
     NoOp, Lanes, Placed
<1>11. Retired(w)
  BY <1>2, <1>3, <1>4 DEF Keeps, Fields, RecorderFields, Retired, NoOp
<1>12. Sealed(w)
  BY <1>2, <1>3, <1>4 DEF Keeps, Fields, RecorderFields, Sealed
<1>13. Clean(w)
  BY <1>2, <1>3, <1>4 DEF Keeps, Fields, RecorderFields, Clean, OutputsSafe, NoOp
<1>14. Released(w)
  BY <1>2, <1>3, <1>4 DEF Keeps, Fields, RecorderFields, Released, OutputsSafe, NoOp
<1>15. Credits(w)
  BY <1>2, <1>3, <1>4 DEF Keeps, Fields, RecorderFields, Credits, NoOp, Quiet, Lanes,
     Placed, CanCommit
<1>16. Quiet(w)
  BY <1>2, <1>3, <1>4 DEF Keeps, Fields, RecorderFields, Quiet, NoOp, Placed, Lanes
<1>17. Inv(y)
  BY <1>1, <1>5, <1>6, <1>7, <1>8, <1>9, <1>10, <1>11, <1>12, <1>13, <1>14, <1>15, <1>16
     DEF Inv, InvBut, Ready
<1> QED
  BY <1>17 DEF v, w, y, u

\* That of a file candidate whose lifecycle cannot be.
FileLost(v) ==
    Ended([[RecordingFailed(v) EXCEPT !.rev = @ + 1] EXCEPT !.op.cancel = FALSE])

\* A file that cannot be recorded ends too, and its revision stands.
LEMMA FileEnds ==
    ASSUME NEW x, Inv(x),
           x.v.op.pc = "commit" /\ x.v.op.kind = "file" /\ ~CanCommit(x.v, x.v.op.gen)
    PROVE  Inv(With(x, FileLost(x.v)))
<1>0. Candidate \in Resources
  BY LifecycleAssumption
<1> DEFINE v == x.v
           u == RecordingFailed(v)
           w == Ended([[u EXCEPT !.rev = @ + 1] EXCEPT !.op.cancel = FALSE])
           y == With(x, w)
<1> HIDE DEF w
<1>1. y = Lane(w, x.a) /\ y.v = w /\ y.a = x.a
  BY DEF Inv, InvBut, Ready, Lane, With
<1> USE DEF w
<1>2. /\ Keeps(v, w, Fields, {"gate", "op", "quiesced", "rev"})
      /\ w.quiesced = IF v.op.kind \in {"restart", "file"} THEN FALSE ELSE v.quiesced
      /\ w.op = NoOp
      /\ w.gate = "failed" \/ w.gate = v.gate
  <2>1. Shape(v)
    BY DEF Inv, InvBut, Ready
  <2>2. /\ Keeps(v, u, Fields, {"gate"}) /\ Shape(u)
        /\ u.gate = "failed" \/ u.gate = v.gate
    BY <2>1, RecordingFailedKeeps
  <2> HIDE DEF u
  <2>3. /\ Keeps(u, w, Fields, {"op", "quiesced", "rev"}) /\ w.op = NoOp
        /\ w.quiesced = IF u.op.kind \in {"restart", "file"} THEN FALSE ELSE u.quiesced
    BY <2>2 DEF Shape, Keeps, Fields, OpFields, Ended
  <2> HIDE DEF w
  <2> QED
    BY <2>2, <2>3 DEF Keeps, Fields
<1>3. /\ Shape(v) /\ Jobs(v) /\ ExecutorsClose(v, x.a) /\ AdaptersInv(x.a)
      /\ Lanes(v) /\ Fence(v) /\ Owned(v, x.a, NoAdapter) /\ Retired(v) /\ Sealed(v)
      /\ Clean(v) /\ Released(v) /\ Hidden(v) /\ Credits(v) /\ Quiet(v)
  BY DEF Inv, InvBut, Ready
<1>4. v.op.pc = "commit" /\ v.op.kind = "file" /\ ~CanCommit(v, v.op.gen)
  OBVIOUS
<1> HIDE DEF v, w, y, u
<1>5. Shape(w)
  BY <1>2, <1>3, <1>4, <1>0, <1>0 DEF Keeps, Fields, Shape, NoOp, OpFields
<1>6. ExecutorsClose(w, x.a) /\ AdaptersInv(x.a)
  BY <1>2, <1>3, <1>4 DEF Keeps, Fields, ExecutorsClose
<1>7. /\ Jobs(w) /\ Sealed(w) /\ Hidden(w)
  BY <1>2, <1>3 DEF Keeps, Fields, Jobs, InFlight, Sealed, Hidden
<1>8. Lanes(w)
  BY <1>2, <1>3, <1>4, <1>0 DEF Keeps, Fields, Lanes, Placed, NoOp, NoOp, Placed
<1>9. Fence(w)
  BY <1>2, <1>3, <1>4 DEF Keeps, Fields, Fence, NoOp
<1>10. Owned(w, x.a, NoAdapter)
  BY <1>2, <1>3, <1>4 DEF Keeps, Fields, Owned, HasCandidate, HasCandidate, NoOp, Lanes,
     Placed
<1>11. Retired(w)
  BY <1>2, <1>3, <1>4 DEF Keeps, Fields, Retired, NoOp
<1>12. Clean(w)
  BY <1>2, <1>3, <1>4 DEF Keeps, Fields, Clean, OutputsSafe, NoOp
<1>13. Released(w)
  BY <1>2, <1>3, <1>4 DEF Keeps, Fields, Released, OutputsSafe, NoOp
<1>14. Credits(w)
  BY <1>2, <1>3, <1>4 DEF Keeps, Fields, Credits, NoOp, Quiet, Lanes, Placed, CanCommit
<1>15. Quiet(w)
  BY <1>2, <1>3, <1>4 DEF Keeps, Fields, Quiet, NoOp, Placed, Lanes
<1>16. Inv(y)
  BY <1>1, <1>5, <1>6, <1>7, <1>8, <1>9, <1>10, <1>11, <1>12, <1>13, <1>14, <1>15 DEF Inv,
     InvBut, Ready
<1> QED
  BY <1>16 DEF v, w, y, u, FileLost

\* The receipt ends the operation, and reopens the gate its fence closed.
LEMMA ConfirmEnds ==
    ASSUME NEW x, Inv(x),
           NEW g,
           x.v.op.pc = "confirm"
    PROVE  Inv(With(x, [Ended(Reopened(x.v, x.v.op.gen, x.v.op.reopen)) EXCEPT !.gated = g]))
<1>0. Candidate \in Resources
  BY LifecycleAssumption
<1> DEFINE v == x.v
           u == Reopened(v, v.op.gen, v.op.reopen)
           w == [Ended(u) EXCEPT !.gated = g]
           y == With(x, w)
<1> HIDE DEF w
<1>1. y = Lane(w, x.a) /\ y.v = w /\ y.a = x.a
  BY DEF Inv, InvBut, Ready, Lane, With
<1> USE DEF w
<1>2. /\ Keeps(v, w, Fields, {"gate", "gated", "op", "quiesced"})
      /\ w.quiesced = IF v.op.kind \in {"restart", "file"} THEN FALSE ELSE v.quiesced
      /\ w.op = NoOp
      /\ w.gate = v.gate \/ v.op.reopen
  <2>1. Shape(v)
    BY DEF Inv, InvBut, Ready
  <2>2. Keeps(v, u, Fields, {"gate"}) /\ (u.gate = v.gate \/ v.op.reopen)
    BY <2>1, ReopenedKeeps
  <2> HIDE DEF u
  <2>3. /\ Keeps(u, w, Fields, {"op", "quiesced", "gated"}) /\ w.op = NoOp
        /\ w.quiesced = IF u.op.kind \in {"restart", "file"} THEN FALSE ELSE u.quiesced
    BY <2>1, <2>2 DEF Shape, Keeps, Fields, Ended
  <2> HIDE DEF w
  <2> QED
    BY <2>2, <2>3 DEF Keeps, Fields
<1>3. /\ Shape(v) /\ Jobs(v) /\ ExecutorsClose(v, x.a) /\ AdaptersInv(x.a)
      /\ Lanes(v) /\ Fence(v) /\ Owned(v, x.a, NoAdapter) /\ Retired(v) /\ Sealed(v)
      /\ Clean(v) /\ Released(v) /\ Hidden(v) /\ Credits(v) /\ Quiet(v)
  BY DEF Inv, InvBut, Ready
<1>4. v.op.pc = "confirm"
  OBVIOUS
<1> HIDE DEF v, w, y, u
<1>5. Shape(w)
  BY <1>2, <1>3, <1>4, <1>0, <1>0 DEF Keeps, Fields, Shape, NoOp, OpFields
<1>6. ExecutorsClose(w, x.a) /\ AdaptersInv(x.a)
  BY <1>2, <1>3, <1>4 DEF Keeps, Fields, ExecutorsClose
<1>7. /\ Jobs(w) /\ Sealed(w) /\ Hidden(w)
  BY <1>2, <1>3 DEF Keeps, Fields, Jobs, InFlight, Sealed, Hidden
<1>8. Lanes(w)
  BY <1>2, <1>3, <1>4, <1>0 DEF Keeps, Fields, Lanes, Placed, NoOp, NoOp, Placed
<1>9. Fence(w)
  BY <1>2, <1>3, <1>4 DEF Keeps, Fields, Fence, NoOp
<1>10. Owned(w, x.a, NoAdapter)
  BY <1>2, <1>3, <1>4 DEF Keeps, Fields, Owned, HasCandidate, HasCandidate, NoOp, Lanes,
     Placed
<1>11. Retired(w)
  BY <1>2, <1>3, <1>4 DEF Keeps, Fields, Retired, NoOp
<1>12. Clean(w)
  BY <1>2, <1>3, <1>4 DEF Keeps, Fields, Clean, OutputsSafe, NoOp
<1>13. Released(w)
  BY <1>2, <1>3, <1>4 DEF Keeps, Fields, Released, OutputsSafe, NoOp
<1>14. Credits(w)
  BY <1>2, <1>3, <1>4 DEF Keeps, Fields, Credits, NoOp, Quiet, Lanes, Placed, CanCommit
<1>15. Quiet(w)
  BY <1>2, <1>3, <1>4 DEF Keeps, Fields, Quiet, NoOp, Placed, Lanes
<1>16. Inv(y)
  BY <1>1, <1>5, <1>6, <1>7, <1>8, <1>9, <1>10, <1>11, <1>12, <1>13, <1>14, <1>15 DEF Inv,
     InvBut, Ready
<1> QED
  BY <1>16 DEF v, w, y, u

\* The loss of the recorder is like a turn.
LEMMA RecordingFailedTurned ==
    ASSUME NEW x, Ready(x)
    PROVE  Turned(x, With(x, RecordingFailed(x.v)))
<1> DEFINE v == x.v
           w == RecordingFailed(v)
           y == With(x, w)
<1>1. /\ Keeps(v, w, Fields, {"gate"}) /\ Shape(w)
      /\ w.gate = "failed" \/ w.gate = v.gate
  BY RecordingFailedKeeps DEF Ready
<1> HIDE DEF w
<1>2. y = Lane(w, x.a) /\ y.v = w /\ y.a = x.a
  BY DEF Ready, Lane, With
<1> HIDE DEF y
<1>3. /\ w.exe = v.exe /\ w.out = v.out /\ w.hid = v.hid /\ w.closed = v.closed
      /\ SameRest(v, w)
  BY <1>1 DEF Keeps, Fields, SameRest
<1>4. Ready(y)
  BY <1>1, <1>2, <1>3 DEF Ready, Jobs, ExecutorsClose
<1>5. Turned(x, y)
  BY <1>1, <1>2, <1>3, <1>4 DEF Turned, Moved, SameOutputs, SameAdapters, Gated
<1> QED
  BY <1>5 DEF y, w

-----------------------------------------------------------------------------
(* The steps of the operations.                                            *)

LEMMA SetInv ==
    ASSUME NEW x, Inv(x), Set(x)
    PROVE  Inv(Lane(svc', ad'))
  BY DEF Set, Inv, InvBut, Ready

LEMMA HereLaws == Here.v = svc /\ Here.a = ad /\ Here = Lane(svc, ad)
  BY DEF Here, Lane

\* An operation that is under way.
Working(o) == o.kind # "none" /\ Placed(o)

LEMMA AtWork ==
    ASSUME NEW x, Inv(x), x.v.op.pc # "none"
    PROVE  Working(x.v.op)
  BY DEF Inv, InvBut, Lanes, NoOp, Working

LEMMA TurnsWork ==
    ASSUME NEW x, Inv(x), NEW y \in Turns(x)
    PROVE  Inv(y) /\ y.v.op = x.v.op
  BY TurnsInv DEF SameRest

LEMMA RefusedDrops ==
    ASSUME NEW x, Inv(x), x.v.op.kind # "none"
    PROVE  Inv(DropAdapter(Refused(x), x.v.op.cand))
<1>1. InvBut(Refused(x), x.v.op.cand)
  BY RefusedInv
<1> QED
  BY <1>1, DropAdapterInv

LEMMA RefusedEnds ==
    ASSUME NEW x, Inv(x), x.v.op.kind # "none", x.v.op.cand = NoAdapter
    PROVE  Inv(Refused(x))
  BY RefusedInv DEF Inv

\* Without a new adapter there is none to drop.
LEMMA NoCandidate ==
    ASSUME NEW x, Inv(x), ~HasCandidate(x.v.op)
    PROVE  x.v.op.cand = NoAdapter
  BY DEF Inv, InvBut, Owned

LEMMA ReserveStepInv ==
    ASSUME Inv(Here), ReserveStep
    PROVE  Inv(Lane(svc', ad'))
<1>1. svc.op.pc = "reserve" /\ Working(svc.op)
  BY HereLaws, AtWork DEF ReserveStep, At
<1>2. ASSUME NEW x, Inv(x), x.v.op = svc.op
      PROVE  Inv(ReserveError(x)) /\ Inv(ReserveTimeout(x))
  <2>1. x.v.op.kind # "none"
    BY <1>1, <1>2 DEF Working
  <2>2. Inv(ReserveTimeout(x))
    BY <1>2, <2>1, RefusedDrops DEF ReserveTimeout
  <2>3. CASE x.v.op.kind = "file"
    BY <1>2, <2>1, <2>2, <2>3, CutInv DEF ReserveError
  <2>4. CASE x.v.op.kind # "file"
    <3>1. x.v.op.cand = NoAdapter
      BY <1>1, <1>2, <2>4, NoCandidate DEF HasCandidate
    <3> QED
      BY <1>2, <2>1, <2>2, <2>4, <3>1, RefusedEnds DEF ReserveError
  <2> QED
    BY <2>3, <2>4
<1>3. CASE Set(ReserveError(Here))
  BY <1>2, <1>3, HereLaws, SetInv
<1>4. CASE ~CannotReserve(svc) /\ Set(ReserveGranted(Here))
  <2> DEFINE v == Granted(svc)
             w == CASE v.op.kind = "reconnect" -> Goto(v, "facts")
                    [] v.op.kind = "reconcile" ->
                           [Goto(v, "retire") EXCEPT !.gated = @ \cup {v.op.res}]
                    [] OTHER -> Goto(v, "change")
  <2>1. Shape(svc)
    BY HereLaws DEF Inv, InvBut, Ready
  <2>2. v.op.kind = svc.op.kind
    <3>1. Keeps(svc.op, v.op, OpFields, {"gen", "cancel"})
      BY <2>1, GrantedKeeps
    <3> HIDE DEF v
    <3> QED
      BY <3>1 DEF Keeps, OpFields
  <2>3. ReserveGranted(Here) = With(Here, w)
    BY HereLaws, Zenon DEF ReserveGranted, Granted
  <2> HIDE DEF v
  <2>4. CASE svc.op.kind = "reconnect"
    <3>1. w = Goto(v, "facts")
      BY <2>2, <2>4
    <3>2. Inv(With(Here, Goto(v, "facts")))
      BY <1>1, <1>4, <2>4, HereLaws, ReconnectReserves DEF v
    <3> HIDE DEF w
    <3> QED
      BY <1>4, <2>3, <3>1, <3>2, SetInv
  <2>5. CASE svc.op.kind = "reconcile"
    <3>1. w = [Goto(v, "retire") EXCEPT !.gated = @ \cup {v.op.res}]
      BY <2>2, <2>5
    <3> DEFINE g == Goto(v, "retire").gated \cup {v.op.res}
    <3>2. Inv(With(Here, [Goto(v, "retire") EXCEPT !.gated = g]))
      <4> HIDE DEF g
      <4> QED
        BY <1>1, <1>4, <2>5, HereLaws, ReconcileReserves DEF v
    <3> HIDE DEF w
    <3> QED
      BY <1>4, <2>3, <3>1, <3>2, SetInv
  <2>6. CASE svc.op.kind \in {"restart", "file"}
    <3>1. w = Goto(v, "change")
      BY <2>2, <2>6
    <3>2. Inv(With(Here, Goto(v, "change")))
      BY <1>1, <1>4, <2>6, HereLaws, ChangeReserves DEF v
    <3> HIDE DEF w
    <3> QED
      BY <1>4, <2>3, <3>1, <3>2, SetInv
  <2> QED
    BY <1>1, <2>4, <2>5, <2>6 DEF Working, Placed
<1>5. CASE \/ Set(ReserveTimeout(Here))
           \/ \E y \in Turns(Here) : Set(y) \/ Set(ReserveError(y))
  BY <1>2, <1>5, HereLaws, TurnsWork, SetInv
<1> QED
  BY <1>3, <1>4, <1>5 DEF ReserveStep, Await

LEMMA FactsStepInv ==
    ASSUME Inv(Here), FactsStep
    PROVE  Inv(Lane(svc', ad'))
<1>1. svc.op.pc = "facts" /\ Working(svc.op)
  BY HereLaws, AtWork DEF FactsStep, At
<1>2. ASSUME NEW x, Inv(x), x.v.op = svc.op
      PROVE  Inv(Refused(x))
  <2>1. x.v.op.cand = NoAdapter
    BY <1>1, <1>2, NoCandidate DEF HasCandidate
  <2> QED
    BY <1>1, <1>2, <2>1, RefusedEnds DEF Working
<1>3. CASE Set(Refused(Here))
  BY <1>2, <1>3, HereLaws, SetInv
<1>4. CASE /\ svc' = [Goto(svc, "retire") EXCEPT !.rec.facts = Recorded(svc),
                                                 !.gated = @ \cup {svc.op.res}]
           /\ ad' = ad
  <2> DEFINE g == [Goto(svc, "retire") EXCEPT !.rec.facts = Recorded(svc)].gated
                     \cup {svc.op.res}
             w == [Goto(svc, "retire") EXCEPT !.rec.facts = Recorded(svc), !.gated = g]
  <2>1. Inv(With(Here, w))
    <3> HIDE DEF g
    <3> QED
      BY <1>1, HereLaws, FactsReserved, Zenon
  <2>2. svc' = w /\ ad' = ad
    BY <1>4, Zenon
  <2> HIDE DEF w
  <2>3. With(Here, w) = Lane(w, ad)
    BY HereLaws, WithLaws
  <2> QED
    BY <2>1, <2>2, <2>3
<1>5. CASE \/ Set(Refused(Here))
           \/ \E y \in Turns(Here) : Set(y) \/ Set(Refused(y))
  BY <1>2, <1>5, HereLaws, TurnsWork, SetInv
<1> QED
  BY <1>3, <1>4, <1>5 DEF FactsStep, Await

\* The executor of the resource an operation is about.
LEMMA ResourceShut ==
    ASSUME NEW x, Inv(x), x.v.op.pc \in {"retire", "retire_failed"}
    PROVE  LET y == ShutdownTransport(x, x.v.op.res) IN
           Inv(y) /\ y.v.op = x.v.op /\ Shut(x, y, x.v.op.res)
<1>1. x.v.op.res \in Resources /\ Ready(x)
  BY DEF Inv, InvBut, Lanes
<1> DEFINE y == ShutdownTransport(x, x.v.op.res)
<1>2. Shut(x, y, x.v.op.res)
  BY <1>1, ShutdownShut
<1> HIDE DEF y
<1>3. Inv(y) /\ y.v.op = x.v.op
  BY <1>2, MovedInv DEF Shut, Moved, SameRest
<1> QED
  BY <1>2, <1>3 DEF y

LEMMA RetireStepInv ==
    ASSUME Inv(Here), RetireStep
    PROVE  Inv(Lane(svc', ad'))
<1> DEFINE x == ShutdownTransport(Here, svc.op.res)
<1>1. svc.op.pc = "retire" /\ Working(svc.op)
  BY HereLaws, AtWork DEF RetireStep, At
<1>2. Inv(x) /\ x.v.op = svc.op
  BY <1>1, HereLaws, ResourceShut
<1>3. ASSUME NEW y, Inv(y), y.v.op = svc.op
      PROVE  Inv(Refused(y)) /\ Inv(Cut(y))
  <2>1. y.v.op.cand = NoAdapter
    BY <1>1, <1>3, NoCandidate DEF HasCandidate
  <2> QED
    BY <1>1, <1>3, <2>1, RefusedEnds, CutInv DEF Working
<1>4. CASE IsRetired(x, svc.op.res) /\ Set(With(x, Goto(x.v, "open")))
  <2>1. Inv(With(x, Goto(x.v, "open")))
    BY <1>1, <1>2, <1>4, RetireOpens DEF IsRetired
  <2> QED
    BY <1>4, <2>1, SetInv
<1>5. CASE \/ Set(Refused(x))
           \/ \E y \in Turns(x) : Set(y) \/ Set(Refused(y)) \/ Set(Cut(y))
  BY <1>2, <1>3, <1>5, TurnsWork, SetInv
<1> QED
  BY <1>4, <1>5 DEF RetireStep, Await

LEMMA OpenStepInv ==
    ASSUME Inv(Here), OpenStep
    PROVE  Inv(Lane(svc', ad'))
<1>1. svc.op.pc = "open" /\ Working(svc.op)
  BY HereLaws, AtWork DEF OpenStep, At
<1>2. CASE Set(Refused(Here))
  <2>1. svc.op.cand = NoAdapter
    BY <1>1, HereLaws, NoCandidate DEF HasCandidate
  <2> QED
    BY <1>1, <1>2, <2>1, HereLaws, RefusedEnds, SetInv DEF Working
<1>3. CASE /\ \E i \in Adapters : ad[i] = Gone
           /\ ad' = [ad EXCEPT ![NewAdapter] = Spawned(svc.op.res)]
           /\ svc' = [Goto(svc, IF Op("file") THEN "reserve" ELSE "opening")
                        EXCEPT !.op.cand = NewAdapter]
  <2>1. NewAdapter \in Adapters /\ ad[NewAdapter] = Gone
    BY <1>3 DEF NewAdapter
  <2> HIDE DEF NewAdapter
  <2>2. Inv(Lane([Goto(svc, IF svc.op.kind = "file" THEN "reserve" ELSE "opening")
                    EXCEPT !.op.cand = NewAdapter],
                 [ad EXCEPT ![NewAdapter] = Spawned(svc.op.res)]))
    BY <1>1, <2>1, HereLaws, Launches
  <2> QED
    BY <1>3, <2>2 DEF Op
<1> QED
  BY <1>2, <1>3 DEF OpenStep

\* The owner looks at an adapter: its own record does not change.
LEMMA AdapterInvKept ==
    ASSUME NEW x, Inv(x), NEW i \in Adapters, NEW b,
           Handled(x.a[i], b), b.dropped = x.a[i].dropped
    PROVE  Inv(Lane(x.v, [x.a EXCEPT ![i] = b]))
<1> DEFINE y == Lane(x.v, [x.a EXCEPT ![i] = b])
<1>1. Turned(x, y)
  BY AdapterTurned DEF Inv, InvBut
<1> HIDE DEF y
<1>2. Inv(y)
  BY <1>1, TurnedInv
<1> QED
  BY <1>2 DEF y

\* Where the candidate of an operation is.
LEMMA CandidateIs ==
    ASSUME NEW x, Inv(x), HasCandidate(x.v.op)
    PROVE  x.v.op.cand \in Adapters /\ AdapterInv(x.a[x.v.op.cand])
  BY DEF Inv, InvBut, Owned, Ready, AdaptersInv

LEMMA OpeningStepInv ==
    ASSUME Inv(Here), OpeningStep
    PROVE  Inv(Lane(svc', ad'))
<1> DEFINE i == svc.op.cand
           x == Lane(svc, [ad EXCEPT ![i] = Drain(@)])
<1>1. svc.op.pc = "opening" /\ Working(svc.op) /\ HasCandidate(svc.op)
  BY HereLaws, AtWork DEF OpeningStep, At, HasCandidate
<1>2. Inv(x)
  <2>1. i \in Adapters /\ AdapterInv(ad[i])
    BY <1>1, HereLaws, CandidateIs
  <2>2. Handled(ad[i], Drain(ad[i])) /\ Drain(ad[i]).dropped = ad[i].dropped
    BY <2>1, DrainHandled
  <2>3. x = Lane(svc, [ad EXCEPT ![i] = Drain(ad[i])])
    BY Zenon
  <2> HIDE DEF i, x
  <2> QED
    BY <2>1, <2>2, <2>3, HereLaws, AdapterInvKept
<1>3. x.v = svc /\ x = Lane(x.v, x.a) /\ Shape(svc) /\ svc.op.res \in Resources
  BY <1>2, HereLaws DEF Lane, Inv, InvBut, Ready, Lanes
<1>4. svc.op.kind \in {"reconnect", "reconcile"}
  BY <1>1 DEF Working, Placed
<1> HIDE DEF x
<1>5. ASSUME NEW y, Inv(y), y.v.op = svc.op
      PROVE  Inv(Disposing(y)) /\ Inv(Cut(y))
  BY <1>1, <1>5, Disposes, CutInv DEF Disposing, Working
<1>6. CASE svc.op.kind = "reconcile" /\ Set(With(x, Goto(x.v, "discard")))
  <2>1. Inv(With(x, Goto(x.v, "discard")))
    BY <1>1, <1>2, <1>3, <1>6, OpeningDiscards
  <2> QED
    BY <1>6, <2>1, SetInv
<1>7. CASE /\ svc.op.kind # "reconcile" /\ svc.rec.state # "up"
           /\ Set(Retiring(DropAdapter(With(x, [x.v EXCEPT !.op.cand = NoAdapter]), i)))
  <2> DEFINE u == [x.v EXCEPT !.op.cand = NoAdapter]
             z == With(x, u)
             w == Goto(u, "retire_failed")
  <2>1. z = Lane(z.v, z.a) /\ z.v = u /\ With(z, w) = With(x, w)
    BY <1>3, WithLaws DEF Lane
  <2>2. InvBut(With(x, w), i)
    <3>1. x.v.op.pc = "opening" /\ x.v.op.kind = "reconnect" /\ x.v.rec.state # "up"
      BY <1>1, <1>3, <1>4, <1>7
    <3> QED
      BY <1>2, <1>3, <3>1, OpeningIsLost
  <2> HIDE DEF u, z
  <2>3. Retiring(DropAdapter(z, i)) = With(DropAdapter(z, i), w)
    BY <2>1, DropCommutes DEF Retiring
  <2> HIDE DEF w
  <2>4. Retiring(DropAdapter(z, i)) = DropAdapter(With(x, w), i)
    BY <2>1, <2>3, DropCommutes
  <2>5. Inv(Retiring(DropAdapter(z, i)))
    BY <2>2, <2>4, DropAdapterInv
  <2>6. Set(Retiring(DropAdapter(z, i)))
    BY <1>7 DEF z, u
  <2> QED
    BY <2>5, <2>6, SetInv
<1>8. CASE svc.op.kind # "reconcile" /\ Set(With(Rebound(x), Goto(Rebound(x).v, "probe")))
  <2> DEFINE u == BoundAgain(x.v)
             old == x.v.exe[x.v.op.res].adapter
             y == ReboundFromConfiguration(x)
             w == [u EXCEPT !.rec.facts = FALSE]
             g == Goto(w, "probe")
             z == With(x, u)
  <2>1. y = DropAdapter(z, old)
    BY <1>3, ReboundIs
  <2>2. z = Lane(z.v, z.a) /\ z.v = u /\ With(z, w) = With(x, w)
    BY <1>3, WithLaws DEF Lane
  <2>3. InvBut(With(x, g), old)
    <3>1. x.v.op.pc = "opening" /\ x.v.op.kind = "reconnect" /\ x.v.op.res \in Resources
      BY <1>1, <1>3, <1>4, <1>8
    <3> QED
      BY <1>2, <3>1, ReconnectBinds
  <2> HIDE DEF z, y, u
  <2>4. y.v = u
    BY <2>1, <2>2, DropCommutes
  <2>5. Rebound(x) = With(y, w)
    BY <2>4, Zenon DEF Rebound, y
  <2> HIDE DEF w
  <2>6. Rebound(x) = DropAdapter(With(x, w), old)
    BY <2>1, <2>2, <2>5, DropCommutes
  <2>7. /\ With(x, w) = Lane(With(x, w).v, With(x, w).a) /\ With(x, w).v = w
        /\ With(With(x, w), g) = With(x, g)
    BY <1>3, WithLaws DEF Lane
  <2>8. Rebound(x).v = w /\ With(Rebound(x), g) = DropAdapter(With(x, g), old)
    BY <2>6, <2>7, DropCommutes
  <2> HIDE DEF g
  <2>9. Inv(With(Rebound(x), g))
    BY <2>3, <2>8, DropAdapterInv
  <2>10. Set(With(Rebound(x), g))
    BY <1>8, <2>8 DEF g
  <2> QED
    BY <2>9, <2>10, SetInv
<1>9. CASE \/ Set(Disposing(x))
           \/ \E y \in Turns(x) : Set(y) \/ Set(Disposing(y)) \/ Set(Cut(y))
  BY <1>2, <1>3, <1>5, <1>9, TurnsWork, SetInv
<1> QED
  BY <1>3, <1>6, <1>7, <1>8, <1>9 DEF OpeningStep, Await, Op, x

LEMMA DisposeStepInv ==
    ASSUME Inv(Here), DisposeStep
    PROVE  Inv(Lane(svc', ad'))
<1> DEFINE i == svc.op.cand
           x == Lane(svc, [ad EXCEPT ![i] = TryShutdown(@)])
<1>1. svc.op.pc = "dispose" /\ Working(svc.op) /\ HasCandidate(svc.op)
  BY HereLaws, AtWork DEF DisposeStep, At, HasCandidate
<1>2. Inv(x)
  <2>1. i \in Adapters /\ AdapterInv(ad[i])
    BY <1>1, HereLaws, CandidateIs
  <2>2. Handled(ad[i], TryShutdown(ad[i])) /\ TryShutdown(ad[i]).dropped = ad[i].dropped
    BY <2>1, ShutdownHandled
  <2>3. x = Lane(svc, [ad EXCEPT ![i] = TryShutdown(ad[i])])
    BY Zenon
  <2> HIDE DEF i, x
  <2> QED
    BY <2>1, <2>2, <2>3, HereLaws, AdapterInvKept
<1>3. x.v = svc /\ x = Lane(x.v, x.a)
  BY DEF Lane
<1> HIDE DEF x
<1>4. x.v.op.kind # "none" /\ ~x.v.op.cancel
  BY <1>1, <1>2, <1>3 DEF Working, Inv, InvBut, Quiet
<1>5. CASE Set(DropAdapter(With(x, Ended(x.v)), i))
  <2>1. InvBut(With(x, Ended(x.v)), i)
    BY <1>2, <1>3, <1>4, EndedBut
  <2> QED
    BY <1>5, <2>1, DropAdapterInv, SetInv
<1>6. CASE Set(DropAdapter(With(x, [Ended(x.v) EXCEPT !.held = i]), svc.held))
  <2> DEFINE y == With(x, [Ended(x.v) EXCEPT !.held = i])
  <2>1. InvBut(y, svc.held)
    BY <1>1, <1>2, <1>3, Retained
  <2> HIDE DEF y
  <2>2. Inv(DropAdapter(y, svc.held))
    BY <2>1, DropAdapterInv
  <2>3. Set(DropAdapter(y, svc.held))
    BY <1>6 DEF y
  <2> QED
    BY <2>2, <2>3, SetInv
<1>7. CASE \E y \in Turns(x) : Set(y)
  BY <1>2, <1>7, TurnsWork, SetInv
<1> QED
  BY <1>5, <1>6, <1>7 DEF DisposeStep, x

LEMMA DiscardStepInv ==
    ASSUME Inv(Here), DiscardStep
    PROVE  Inv(Lane(svc', ad'))
<1>1. svc.op.pc = "discard" /\ Working(svc.op)
  BY HereLaws, AtWork DEF DiscardStep, At
<1>2. Shape(svc) /\ svc.op.res \in Resources
  BY HereLaws DEF Inv, InvBut, Ready, Lanes
<1>3. ASSUME NEW y, Inv(y), y.v.op = svc.op
      PROVE  Inv(Disposing(y)) /\ Inv(Cut(y))
  BY <1>1, <1>3, Disposes, CutInv DEF Disposing, Working
<1> DEFINE x == Installed(With(Here, Discarded(svc)))
           w == [Goto(x.v, "commit") EXCEPT !.quar = FALSE]
<1>4. CASE Set(With(x, w))
  <2> DEFINE u == InstalledAgain(svc)
             old == svc.exe[svc.op.res].adapter
             z == With(Here, u)
             g == [Goto(u, "commit") EXCEPT !.quar = FALSE]
  <2>1. x = DropAdapter(z, old)
    BY <1>2, HereLaws, InstalledIs
  <2>2. z = Lane(z.v, z.a) /\ z.v = u /\ With(z, g) = With(Here, g)
    BY HereLaws, WithLaws DEF Lane
  <2>3. InvBut(With(Here, g), old)
    BY <1>1, <1>2, HereLaws, Installs
  <2> HIDE DEF z, u
  <2>4. x.v = u
    BY <2>1, <2>2, DropCommutes
  <2>5. w = g
    BY <2>4, Zenon
  <2> HIDE DEF g
  <2>6. With(x, g) = DropAdapter(With(Here, g), old)
    BY <2>1, <2>2, DropCommutes
  <2> HIDE DEF x
  <2>7. Inv(With(x, w))
    BY <2>3, <2>5, <2>6, DropAdapterInv
  <2> HIDE DEF w
  <2> QED
    BY <1>4, <2>7, SetInv
<1>5. CASE \/ Set(Disposing(Here))
           \/ \E y \in Turns(Here) : Set(y) \/ Set(Cut(y))
  BY <1>3, <1>5, HereLaws, TurnsWork, SetInv
<1> QED
  BY <1>4, <1>5 DEF DiscardStep, Await

\* A probe, an output or a receipt that a reconnect waits for.
LEMMA RetiringInv ==
    ASSUME NEW x, Inv(x), x.v.op.pc \in {"probe", "safing", "confirm"},
           x.v.op.kind = "reconnect"
    PROVE  Inv(Retiring(x))
  BY Retires DEF Retiring

LEMMA ProbeStepInv ==
    ASSUME Inv(Here), ProbeStep
    PROVE  Inv(Lane(svc', ad'))
<1> DEFINE x == With(Here, ProbesBegun(svc, {svc.op.res}))
<1>1. svc.op.pc = "probe" /\ svc.op.kind = "reconnect"
  BY HereLaws, AtWork DEF ProbeStep, At, Working, Placed
<1>2. Shape(svc)
  BY HereLaws DEF Inv, InvBut, Ready
<1>3. Inv(x)
  BY HereLaws, Probes
<1>4. x.v.op = svc.op
  <2> DEFINE w == ProbesBegun(svc, {svc.op.res})
  <2>1. Keeps(svc, w, Fields, {"probe"})
    BY <1>2, ProbesKeeps
  <2> HIDE DEF w
  <2>2. x.v = w
    BY HereLaws, WithLaws DEF w
  <2> QED
    BY <2>1, <2>2 DEF Keeps, Fields
<1> HIDE DEF x
<1>5. ASSUME NEW y, Inv(y), y.v.op = svc.op
      PROVE  Inv(Retiring(y))
  BY <1>1, <1>5, RetiringInv
<1>6. CASE Set(Retiring(Here))
  BY <1>5, <1>6, HereLaws, SetInv
<1>7. CASE Set(With(Here, UnverifiedAsked(Goto(svc, "safing"))))
  <2> DEFINE u == Goto(svc, "safing")
             z == With(Here, u)
             w == UnverifiedAsked(u)
  <2>1. Inv(z)
    BY <1>1, HereLaws, ProbeSafes
  <2>2. z.v = u /\ With(z, w) = With(Here, w)
    BY HereLaws, WithLaws
  <2> HIDE DEF z
  <2>3. Asked(u, w)
    BY <1>2, GotoKeeps, AskedKeeps
  <2> HIDE DEF u, w
  <2>4. Inv(With(Here, w))
    BY <2>1, <2>2, <2>3, AskedInv
  <2> QED
    BY <1>7, <2>4, SetInv DEF w, u
<1>8. CASE \/ Set(Retiring(x))
           \/ \E y \in Turns(x) : Set(y) \/ Set(Retiring(y))
  BY <1>3, <1>4, <1>5, <1>8, TurnsWork, SetInv
<1>9. CASE \/ Set(Retiring(Here))
           \/ \E y \in Turns(Here) : Set(y) \/ Set(Retiring(y))
  BY <1>5, <1>9, HereLaws, TurnsWork, SetInv
<1> QED
  BY <1>6, <1>7, <1>8, <1>9 DEF ProbeStep, Await, x

LEMMA SafingStepInv ==
    ASSUME Inv(Here), SafingStep
    PROVE  Inv(Lane(svc', ad'))
<1>1. svc.op.pc = "safing" /\ svc.op.kind = "reconnect"
  BY HereLaws, AtWork DEF SafingStep, At, Working, Placed
<1>2. ASSUME NEW y, Inv(y), y.v.op = svc.op
      PROVE  Inv(Retiring(y))
  BY <1>1, <1>2, RetiringInv
<1>3. CASE OutputsSafe(svc) /\ Set(With(Here, Goto(svc, "commit")))
  <2>1. Inv(With(Here, Goto(svc, "commit")))
    BY <1>1, <1>3, HereLaws, SafingCommits
  <2> QED
    BY <1>3, <2>1, SetInv
<1>4. CASE \/ Set(Retiring(Here))
           \/ \E y \in Turns(Here) : Set(y) \/ Set(Retiring(y))
  BY <1>2, <1>4, HereLaws, TurnsWork, SetInv
<1> QED
  BY <1>3, <1>4 DEF SafingStep, Await

LEMMA ChangeStepInv ==
    ASSUME Inv(Here), ChangeStep
    PROVE  Inv(Lane(svc', ad'))
<1> DEFINE x == IF svc.op.cand # NoAdapter THEN ReboundFromConfiguration(Here) ELSE Here
           probing == IF Op("file") THEN Native ELSE {}
<1>1. svc.op.pc = "change" /\ svc.op.kind \in {"restart", "file"}
  BY HereLaws, AtWork DEF ChangeStep, At, Working, Placed
<1>2. Shape(svc) /\ svc.op.res \in Resources
  BY HereLaws DEF Inv, InvBut, Ready, Lanes
<1>3. Inv(x) /\ x.v.op.pc = "change" /\ x.v.op.kind # "none" /\ x.v.op.cand = NoAdapter
  <2>1. CASE svc.op.cand = NoAdapter
    BY <1>1, <2>1, HereLaws
  <2>2. CASE svc.op.cand # NoAdapter
    <3> DEFINE u == BoundAgain(svc)
               old == svc.exe[svc.op.res].adapter
               z == With(Here, u)
    <3>1. svc.op.kind = "file"
      BY <1>1, <2>2, HereLaws, NoCandidate DEF HasCandidate
    <3>2. InvBut(z, old)
      BY <1>1, <1>2, <2>2, <3>1, HereLaws, FileBinds
    <3>3. x = DropAdapter(z, old)
      BY <2>2, HereLaws, ReboundIs
    <3>4. z = Lane(z.v, z.a) /\ z.v = u
      BY HereLaws, WithLaws DEF Lane
    <3>5. Keeps(svc.op, u.op, OpFields, {"cand"}) /\ u.op.cand = NoAdapter
      BY <1>2, BoundKeeps
    <3> HIDE DEF z, u, x
    <3>6. Inv(x) /\ x.v = u
      BY <3>2, <3>3, <3>4, DropAdapterInv
    <3> QED
      BY <1>1, <3>5, <3>6 DEF Keeps, OpFields
  <2> QED
    BY <2>1, <2>2
<1> HIDE DEF x, probing
<1>4. CASE Set(Refused(x))
  BY <1>3, <1>4, RefusedEnds, SetInv
<1>5. CASE Set(With(x, Goto(ProbesBegun(x.v, probing), "commit")))
  <2> DEFINE u == ProbesBegun(x.v, probing)
             z == With(x, u)
             w == Goto(u, "commit")
  <2>1. Inv(z)
    BY <1>3, Probes
  <2>2. Shape(x.v) /\ x = Lane(x.v, x.a)
    BY <1>3 DEF Inv, InvBut, Ready
  <2>3. z.v = u /\ With(z, w) = With(x, w)
    BY <2>2, WithLaws
  <2>4. Keeps(x.v, u, Fields, {"probe"})
    BY <2>2, ProbesKeeps
  <2> HIDE DEF z, u
  <2>5. z.v.op.pc = "change" /\ z.v.op.cand = NoAdapter
    BY <1>3, <2>3, <2>4 DEF Keeps, Fields
  <2>6. Inv(With(z, w))
    BY <2>1, <2>3, <2>5, ChangeCommits
  <2> HIDE DEF w
  <2> QED
    BY <1>5, <2>3, <2>6, SetInv DEF w, u
<1> QED
  BY <1>4, <1>5 DEF ChangeStep, x, probing

LEMMA CommitStepInv ==
    ASSUME Inv(Here), CommitStep
    PROVE  Inv(Lane(svc', ad'))
<1> DEFINE gen == svc.op.gen
           q == Op("file") /\ gen = 0
<1>1. svc.op.pc = "commit" /\ Working(svc.op)
  BY HereLaws, AtWork DEF CommitStep, At
<1>2. ASSUME NEW v, Inv(With(Here, v)), svc' = v
      PROVE  Inv(Lane(svc', ad'))
  <2>1. ad' = ad
    BY DEF CommitStep
  <2> QED
    BY <1>2, <2>1, HereLaws, WithLaws
<1>3. CASE CanCommit(svc, gen)
  <2> DEFINE w == Submitted(svc, q)
  <2>1. svc' = w
    BY <1>3, Zenon DEF CommitStep, Op, Submitted
  <2>2. Inv(With(Here, w))
    BY <1>1, <1>3, HereLaws, Commits
  <2> HIDE DEF w
  <2> QED
    BY <1>2, <2>1, <2>2
<1>4. CASE ~CanCommit(svc, gen) /\ svc.op.kind = "reconnect"
  <2> DEFINE v == Goto([RecordingFailed(Cancelled(svc, gen)) EXCEPT !.op.cancel = FALSE],
                       "retire_failed")
  <2>1. svc' = v
    BY <1>4 DEF CommitStep, Op
  <2>2. Inv(With(Here, v))
    BY <1>1, <1>4, HereLaws, CommitRetires
  <2> HIDE DEF v
  <2> QED
    BY <1>2, <2>1, <2>2
<1>5. CASE ~CanCommit(svc, gen) /\ svc.op.kind = "file"
  <2> DEFINE v == FileLost(svc)
  <2>1. svc' = v
    BY <1>5, Zenon DEF CommitStep, Op, FileLost
  <2>2. Inv(With(Here, v))
    BY <1>1, <1>5, HereLaws, FileEnds
  <2> HIDE DEF v
  <2> QED
    BY <1>2, <2>1, <2>2
<1>6. CASE ~CanCommit(svc, gen) /\ svc.op.kind \notin {"reconnect", "file"}
  <2> DEFINE v == Ended([RecordingFailed(Cancelled(svc, gen)) EXCEPT !.op.cancel = FALSE])
  <2>1. svc' = v
    BY <1>6 DEF CommitStep, Op
  <2>2. Inv(With(Here, v))
    BY <1>1, <1>6, HereLaws, CommitEnds
  <2> HIDE DEF v
  <2> QED
    BY <1>2, <2>1, <2>2
<1> QED
  BY <1>3, <1>4, <1>5, <1>6

LEMMA ConfirmStepInv ==
    ASSUME Inv(Here), ConfirmStep
    PROVE  Inv(Lane(svc', ad'))
<1> DEFINE lost(x) == LET v == RecordingFailed(x.v) IN
                      IF Op("reconnect") THEN Retiring(With(x, v)) ELSE With(x, Ended(v))
           turned(x) == IF Op("file") THEN x ELSE lost(x)
           v == Reopened(svc, svc.op.gen, svc.op.reopen)
<1>1. svc.op.pc = "confirm" /\ Working(svc.op)
  BY HereLaws, AtWork DEF ConfirmStep, At
<1>2. ASSUME NEW x, Inv(x), x.v.op = svc.op
      PROVE  Inv(lost(x)) /\ Inv(turned(x))
  <2> DEFINE u == RecordingFailed(x.v)
             y == With(x, u)
  <2>1. x = Lane(x.v, x.a) /\ Ready(x)
    BY <1>2 DEF Inv, InvBut, Ready
  <2>2. Turned(x, y)
    BY <2>1, RecordingFailedTurned
  <2>3. y.v = u /\ With(y, Ended(u)) = With(x, Ended(u))
    BY <2>1, WithLaws
  <2>4. lost(x) = IF svc.op.kind = "reconnect" THEN Retiring(y) ELSE With(x, Ended(u))
    BY DEF Op
  <2> HIDE DEF y, u, lost
  <2>5. Inv(y) /\ y.v.op = svc.op
    BY <1>2, <2>2, TurnedInv DEF Turned, Moved, SameRest
  <2>6. Inv(lost(x))
    <3>1. CASE svc.op.kind = "reconnect"
      BY <1>1, <2>4, <2>5, <3>1, RetiringInv
    <3>2. CASE svc.op.kind # "reconnect"
      <4>1. InvBut(With(y, Ended(y.v)), y.v.op.cand)
        <5>1. ~y.v.op.cancel
          BY <1>1, <2>5 DEF Inv, InvBut, Quiet
        <5> QED
          BY <1>1, <2>5, <5>1, EndedBut DEF Working
      <4>2. y.v.op.cand = NoAdapter
        BY <1>1, <2>5, NoCandidate DEF HasCandidate
      <4> QED
        BY <2>3, <2>4, <3>2, <4>1, <4>2 DEF Inv
    <3> QED
      BY <3>1, <3>2
  <2> QED
    BY <1>2, <2>6
<1>3. CASE Set(lost(Here))
  <2>1. Inv(lost(Here))
    BY <1>2, HereLaws
  <2> HIDE DEF lost
  <2> QED
    BY <1>3, <2>1, SetInv
<1>4. CASE \/ Set(lost(Here))
           \/ \E y \in Turns(Here) : Set(y) \/ Set(turned(y))
  <2>1. \A y : Inv(y) /\ y.v.op = svc.op => Inv(turned(y)) /\ Inv(lost(y))
    BY <1>2
  <2> HIDE DEF lost, turned
  <2> QED
    BY <1>4, <2>1, HereLaws, TurnsWork, SetInv
<1>5. CASE svc.op.kind # "reconnect" /\ Set(With(Here, Ended(v)))
  <2> DEFINE w == [Ended(v) EXCEPT !.gated = Ended(v).gated]
  <2>1. Inv(With(Here, w))
    <3> DEFINE g == Ended(v).gated
    <3> HIDE DEF g
    <3>1. Inv(With(Here, [Ended(v) EXCEPT !.gated = g]))
      BY <1>1, HereLaws, ConfirmEnds
    <3> QED
      BY <3>1 DEF g
  <2> HIDE DEF v
  <2>2. w = Ended(v)
    <3> DEFINE d == [v EXCEPT !.op = NoOp]
               q == IF v.op.kind \in {"restart", "file"} THEN FALSE ELSE v.quiesced
               e == [d EXCEPT !.quiesced = q]
    <3>1. Ended(v) = e
      BY Zenon DEF Ended
    <3> HIDE DEF d, q
    <3>2. [e EXCEPT !.gated = e.gated] = e
      OBVIOUS
    <3> HIDE DEF e
    <3> QED
      BY <3>1, <3>2, Zenon
  <2> HIDE DEF w
  <2> QED
    BY <1>5, <2>1, <2>2, SetInv
<1>6. CASE Set(With(Here, [Ended(v) EXCEPT !.gated = @ \ {svc.op.res}]))
  <2> DEFINE g == Ended(v).gated \ {svc.op.res}
  <2>1. Set(With(Here, [Ended(v) EXCEPT !.gated = g]))
    BY <1>6, Zenon
  <2> HIDE DEF g
  <2>2. Inv(With(Here, [Ended(v) EXCEPT !.gated = g]))
    BY <1>1, HereLaws, ConfirmEnds
  <2> HIDE DEF v
  <2> QED
    BY <2>1, <2>2, SetInv, Zenon
<1>7. CASE svc.op.kind = "reconnect" /\ Set(Retiring(With(Here, v)))
  <2>1. ~svc.op.reopen
    BY <1>7, HereLaws DEF Inv, InvBut, Fence
  <2>2. v = svc
    BY <2>1 DEF Reopened
  <2>3. With(Here, svc) = Here
    BY HereLaws DEF With, Lane
  <2> HIDE DEF v
  <2> QED
    BY <1>1, <1>7, <2>2, <2>3, HereLaws, RetiringInv, SetInv
<1> QED
  BY <1>3, <1>4, <1>5, <1>6, <1>7 DEF ConfirmStep, Await, Op

LEMMA RetireFailedStepInv ==
    ASSUME Inv(Here), RetireFailedStep
    PROVE  Inv(Lane(svc', ad'))
<1> DEFINE r == svc.op.res
           y == ShutdownTransport(Here, r)
           x == FailedRetired(Here, r)
<1>1. svc.op.pc = "retire_failed" /\ Working(svc.op)
  BY HereLaws, AtWork DEF RetireFailedStep, At
<1>2. Inv(y) /\ y.v.op = svc.op /\ r \in Resources
  BY <1>1, HereLaws, ResourceShut DEF Inv, InvBut, Lanes
<1>3. x = IF IsRetired(y, r) THEN With(y, [y.v EXCEPT !.closed = @ \cup {r}]) ELSE y
  BY Zenon DEF FailedRetired
<1> HIDE DEF y, x
<1>4. Inv(x) /\ x.v.op = svc.op
  <2>1. CASE ~IsRetired(y, r)
    BY <1>2, <1>3, <2>1
  <2>2. CASE IsRetired(y, r)
    <3> DEFINE z == With(y, [y.v EXCEPT !.closed = @ \cup {r}])
    <3>1. Moved(y, z)
      BY <1>2, <2>2, ClosedMoves DEF IsRetired, Inv, InvBut
    <3> HIDE DEF z
    <3>2. Inv(z) /\ z.v.op = y.v.op
      BY <1>1, <1>2, <3>1, MovedInv DEF Moved, SameRest
    <3> QED
      BY <1>2, <1>3, <2>2, <3>2 DEF z
  <2> QED
    BY <2>1, <2>2
<1>5. ASSUME NEW z, Inv(z), z.v.op = svc.op
      PROVE  Inv(Refused(z))
  <2>1. z.v.op.cand = NoAdapter
    BY <1>1, <1>5, NoCandidate DEF HasCandidate
  <2> QED
    BY <1>1, <1>5, <2>1, RefusedEnds DEF Working
<1>6. CASE \/ Set(Refused(x))
           \/ \E z \in Turns(x) : Set(z) \/ Set(Refused(z))
  BY <1>4, <1>5, <1>6, TurnsWork, SetInv
<1> QED
  BY <1>6 DEF RetireFailedStep, Await, x

LEMMA OperationInv ==
    ASSUME Inv(Here), OperationStep
    PROVE  Inv(Lane(svc', ad'))
<1>1. CASE ReserveStep \/ FactsStep \/ RetireStep \/ OpenStep \/ OpeningStep
  BY <1>1, ReserveStepInv, FactsStepInv, RetireStepInv, OpenStepInv, OpeningStepInv
<1>2. CASE DisposeStep \/ DiscardStep \/ ProbeStep \/ SafingStep \/ ChangeStep
  BY <1>2, DisposeStepInv, DiscardStepInv, ProbeStepInv, SafingStepInv, ChangeStepInv
<1>3. CASE CommitStep \/ ConfirmStep \/ RetireFailedStep
  BY <1>3, CommitStepInv, ConfirmStepInv, RetireFailedStepInv
<1> QED
  BY <1>1, <1>2, <1>3 DEF OperationStep

-----------------------------------------------------------------------------
(* The phased application.                                                 *)

LEMMA BarrierInv ==
    ASSUME NEW x, Inv(x), NEW y \in Barrier(x)
    PROVE  Inv(y) /\ SameRest(x.v, y.v) /\ Gated(x.v, y.v)
<1> DEFINE w == BarrierAsked(x.v)
           z == With(x, w)
<1>1. x = Lane(x.v, x.a) /\ Shape(x.v)
  BY DEF Inv, InvBut, Ready
<1>2. Asked(x.v, w)
  BY <1>1, AskedKeeps
<1>3. Inv(z) /\ y \in PollExecutors(z) /\ z.v = w
  <2>1. y \in PollExecutors(z)
    BY Zenon DEF Barrier
  <2> HIDE DEF w
  <2> QED
    BY <1>1, <1>2, <2>1, AskedInv, WithLaws
<1> HIDE DEF z, w
<1>4. Turned(z, y)
  BY <1>3, PollTurned DEF Inv, InvBut
<1>5. Inv(y) /\ SameRest(w, y.v) /\ Gated(w, y.v)
  BY <1>3, <1>4, TurnedInv DEF Turned, Moved
<1>6. SameRest(x.v, w) /\ w.gate = x.v.gate
  BY <1>2 DEF Asked, Keeps, Fields, SameRest
<1> QED
  BY <1>5, <1>6 DEF SameRest, Gated

\* An application without an output passes its barrier at once.
LEMMA Prepares ==
    ASSUME NEW x, Inv(x),
           x.v.op.kind = "none" /\ x.v.terminal = "none" /\ ~x.v.panicked
             /\ x.v.apply.phase = "prepare"
    PROVE  Inv(With(x, Phase(x.v, "reserve")))
<1>0. Candidate \in Resources
  BY LifecycleAssumption
<1> DEFINE v == x.v
           w == Phase(v, "reserve")
           y == With(x, w)
<1> HIDE DEF w
<1>1. y = Lane(w, x.a) /\ y.v = w /\ y.a = x.a
  BY DEF Inv, InvBut, Ready, Lane, With
<1> USE DEF w
<1>2. /\ Keeps(v, w, Fields, {"apply"})
      /\ Keeps(v.apply, w.apply, ApplyFields, {"phase"})
      /\ w.apply.phase = "reserve"
  BY DEF Inv, InvBut, Ready, Shape, Keeps, Fields, ApplyFields, Phase
<1>3. /\ Shape(v) /\ Jobs(v) /\ ExecutorsClose(v, x.a) /\ AdaptersInv(x.a)
      /\ Lanes(v) /\ Fence(v) /\ Owned(v, x.a, NoAdapter) /\ Retired(v) /\ Sealed(v)
      /\ Clean(v) /\ Released(v) /\ Hidden(v) /\ Credits(v) /\ Quiet(v)
  BY DEF Inv, InvBut, Ready
<1>4. v.op.kind = "none" /\ v.terminal = "none" /\ ~v.panicked
             /\ v.apply.phase = "prepare"
  OBVIOUS
<1> HIDE DEF v, w, y
<1>5. Shape(w)
  BY <1>2, <1>3, <1>4, <1>0 DEF Keeps, Fields, ApplyFields, Shape
<1>6. ExecutorsClose(w, x.a) /\ AdaptersInv(x.a)
  BY <1>2, <1>3, <1>4 DEF Keeps, Fields, ExecutorsClose
<1>7. /\ Jobs(w) /\ Owned(w, x.a, NoAdapter) /\ Retired(w) /\ Sealed(w) /\ Clean(w)
      /\ Released(w)
  BY <1>2, <1>3 DEF Keeps, Fields, Jobs, InFlight, Owned, Retired, Sealed, Clean,
     OutputsSafe, Released, OutputsSafe
<1>8. Lanes(w)
  BY <1>2, <1>3, <1>4, <1>0 DEF Keeps, Fields, ApplyFields, Lanes, Placed, NoOp, NoOp,
     NoApply
<1>9. Fence(w)
  BY <1>2, <1>3, <1>4 DEF Keeps, Fields, ApplyFields, Fence, Lanes, NoOp
<1>10. Hidden(w)
  BY <1>2, <1>3, <1>4, <1>0 DEF Keeps, Fields, ApplyFields, Hidden, NoApply, NoHidden
<1>11. Credits(w)
  BY <1>2, <1>3, <1>4 DEF Keeps, Fields, ApplyFields, Credits, Lanes, NoOp
<1>12. Quiet(w)
  BY <1>2, <1>3, <1>4 DEF Keeps, Fields, ApplyFields, Quiet, Lanes, NoOp
<1>13. Inv(y)
  BY <1>1, <1>5, <1>6, <1>7, <1>8, <1>9, <1>10, <1>11, <1>12 DEF Inv, InvBut, Ready
<1> QED
  BY <1>13 DEF v, w, y

\* Another one quiesces acquisition.
LEMMA PreparesQuiesced ==
    ASSUME NEW x, Inv(x),
           x.v.op.kind = "none" /\ x.v.terminal = "none" /\ ~x.v.panicked
             /\ x.v.apply.phase = "prepare"
    PROVE  Inv(With(x,
               [Phase(x.v, "reserve") EXCEPT !.quiesced = TRUE, !.apply.quiesced = TRUE]))
<1>0. Candidate \in Resources
  BY LifecycleAssumption
<1> DEFINE v == x.v
           w == [Phase(v, "reserve") EXCEPT !.quiesced = TRUE, !.apply.quiesced = TRUE]
           y == With(x, w)
<1> HIDE DEF w
<1>1. y = Lane(w, x.a) /\ y.v = w /\ y.a = x.a
  BY DEF Inv, InvBut, Ready, Lane, With
<1> USE DEF w
<1>2. /\ Keeps(v, w, Fields, {"apply", "quiesced"})
      /\ Keeps(v.apply, w.apply, ApplyFields, {"phase", "quiesced"})
      /\ w.apply.phase = "reserve"
      /\ w.apply.quiesced = TRUE
      /\ w.quiesced = TRUE
  BY DEF Inv, InvBut, Ready, Shape, Keeps, Fields, ApplyFields, Phase
<1>3. /\ Shape(v) /\ Jobs(v) /\ ExecutorsClose(v, x.a) /\ AdaptersInv(x.a)
      /\ Lanes(v) /\ Fence(v) /\ Owned(v, x.a, NoAdapter) /\ Retired(v) /\ Sealed(v)
      /\ Clean(v) /\ Released(v) /\ Hidden(v) /\ Credits(v) /\ Quiet(v)
  BY DEF Inv, InvBut, Ready
<1>4. v.op.kind = "none" /\ v.terminal = "none" /\ ~v.panicked
             /\ v.apply.phase = "prepare"
  OBVIOUS
<1> HIDE DEF v, w, y
<1>5. Shape(w)
  BY <1>2, <1>3, <1>4, <1>0 DEF Keeps, Fields, ApplyFields, Shape
<1>6. ExecutorsClose(w, x.a) /\ AdaptersInv(x.a)
  BY <1>2, <1>3, <1>4 DEF Keeps, Fields, ExecutorsClose
<1>7. /\ Jobs(w) /\ Owned(w, x.a, NoAdapter) /\ Retired(w) /\ Sealed(w) /\ Clean(w)
      /\ Released(w)
  BY <1>2, <1>3 DEF Keeps, Fields, Jobs, InFlight, Owned, Retired, Sealed, Clean,
     OutputsSafe, Released, OutputsSafe
<1>8. Lanes(w)
  BY <1>2, <1>3, <1>4, <1>0 DEF Keeps, Fields, ApplyFields, Lanes, Placed, NoOp, NoOp,
     NoApply
<1>9. Fence(w)
  BY <1>2, <1>3, <1>4 DEF Keeps, Fields, ApplyFields, Fence, Lanes, NoOp
<1>10. Hidden(w)
  BY <1>2, <1>3, <1>4, <1>0 DEF Keeps, Fields, ApplyFields, Hidden, NoApply, NoHidden
<1>11. Credits(w)
  BY <1>2, <1>3, <1>4 DEF Keeps, Fields, ApplyFields, Credits, Lanes, NoOp
<1>12. Quiet(w)
  BY <1>2, <1>3, <1>4 DEF Keeps, Fields, ApplyFields, Quiet, Lanes, NoOp
<1>13. Inv(y)
  BY <1>1, <1>5, <1>6, <1>7, <1>8, <1>9, <1>10, <1>11, <1>12 DEF Inv, InvBut, Ready
<1> QED
  BY <1>13 DEF v, w, y

\* The gate is fenced once.
LEMMA FencesApply ==
    ASSUME NEW x, Inv(x),
           x.v.op.kind = "none" /\ x.v.terminal = "none" /\ ~x.v.panicked
             /\ x.v.apply.phase = "reserve" /\ ~x.v.apply.begun
    PROVE  Inv(With(x,
               [Fenced(x.v) EXCEPT !.apply.begun = TRUE, !.apply.reopen = Fences(x.v)]))
<1>0. Candidate \in Resources
  BY LifecycleAssumption
<1> DEFINE v == x.v
           u == Fenced(v)
           w == [u EXCEPT !.apply.begun = TRUE, !.apply.reopen = Fences(v)]
           y == With(x, w)
<1> HIDE DEF w
<1>1. y = Lane(w, x.a) /\ y.v = w /\ y.a = x.a
  BY DEF Inv, InvBut, Ready, Lane, With
<1> USE DEF w
<1>2. /\ Keeps(v, w, Fields, {"apply", "gate"})
      /\ Keeps(v.apply, w.apply, ApplyFields, {"begun", "reopen"})
      /\ w.apply.begun = TRUE
      /\ w.apply.reopen = Fences(v)
      /\ w.gate = IF Fences(v) THEN "closed" ELSE v.gate
  <2>1. Shape(v)
    BY DEF Inv, InvBut, Ready
  <2>2. /\ Keeps(v, u, Fields, {"gate"})
        /\ u.gate = IF Fences(v) THEN "closed" ELSE v.gate
    BY <2>1, FencedKeeps
  <2> HIDE DEF u
  <2> QED
    BY <2>1, <2>2 DEF Shape, Keeps, Fields, ApplyFields
<1>3. /\ Shape(v) /\ Jobs(v) /\ ExecutorsClose(v, x.a) /\ AdaptersInv(x.a)
      /\ Lanes(v) /\ Fence(v) /\ Owned(v, x.a, NoAdapter) /\ Retired(v) /\ Sealed(v)
      /\ Clean(v) /\ Released(v) /\ Hidden(v) /\ Credits(v) /\ Quiet(v)
  BY DEF Inv, InvBut, Ready
<1>4. v.op.kind = "none" /\ v.terminal = "none" /\ ~v.panicked
             /\ v.apply.phase = "reserve" /\ ~v.apply.begun
  OBVIOUS
<1> HIDE DEF v, w, y, u
<1>5. Shape(w)
  BY <1>2, <1>3, <1>4, <1>0 DEF Keeps, Fields, ApplyFields, Shape
<1>6. ExecutorsClose(w, x.a) /\ AdaptersInv(x.a)
  BY <1>2, <1>3, <1>4 DEF Keeps, Fields, ExecutorsClose
<1>7. /\ Jobs(w) /\ Owned(w, x.a, NoAdapter) /\ Retired(w) /\ Sealed(w) /\ Clean(w)
      /\ Released(w)
  BY <1>2, <1>3 DEF Keeps, Fields, Jobs, InFlight, Owned, Retired, Sealed, Clean,
     OutputsSafe, Released, OutputsSafe
<1>8. Lanes(w)
  BY <1>2, <1>3, <1>4, <1>0 DEF Keeps, Fields, ApplyFields, Lanes, Placed, NoOp, NoOp,
     NoApply
<1>9. Fence(w)
  BY <1>2, <1>3, <1>4 DEF Keeps, Fields, ApplyFields, Fence, Lanes, NoOp, Fences
<1>10. Hidden(w)
  BY <1>2, <1>3, <1>4, <1>0 DEF Keeps, Fields, ApplyFields, Hidden, NoApply, NoHidden
<1>11. Credits(w)
  BY <1>2, <1>3, <1>4 DEF Keeps, Fields, ApplyFields, Credits, Lanes, NoOp
<1>12. Quiet(w)
  BY <1>2, <1>3, <1>4 DEF Keeps, Fields, ApplyFields, Quiet, Lanes, NoOp
<1>13. Inv(y)
  BY <1>1, <1>5, <1>6, <1>7, <1>8, <1>9, <1>10, <1>11, <1>12 DEF Inv, InvBut, Ready
<1> QED
  BY <1>13 DEF v, w, y, u

\* The activation of an application is reserved.
LEMMA ReservesApply ==
    ASSUME NEW x, Inv(x),
           x.v.op.kind = "none" /\ x.v.terminal = "none" /\ ~x.v.panicked
             /\ x.v.apply.phase = "reserve" /\ x.v.apply.begun /\ ~CannotReserve(x.v)
    PROVE  Inv(With(x,
               [Phase(Reserved(x.v), "topology") EXCEPT !.apply.gen = Generation(x.v)]))
<1>0. Candidate \in Resources
  BY LifecycleAssumption
<1> DEFINE v == x.v
           u == Reserved(v)
           w == [Phase(u, "topology") EXCEPT !.apply.gen = Generation(v)]
           y == With(x, w)
<1> HIDE DEF w
<1>1. y = Lane(w, x.a) /\ y.v = w /\ y.a = x.a
  BY DEF Inv, InvBut, Ready, Lane, With
<1> USE DEF w
<1>2. /\ Keeps(v, w, Fields, {"apply", "rec"})
      /\ Keeps(v.apply, w.apply, ApplyFields, {"phase", "gen"})
      /\ w.apply.phase = "topology"
      /\ w.apply.gen = Generation(v)
      /\ Keeps(v.rec, w.rec, RecorderFields, {"reserved", "next"})
      /\ w.rec.reserved = IF Recorded(v) THEN v.rec.next ELSE v.rec.reserved
  <2>1. Shape(v)
    BY DEF Inv, InvBut, Ready
  <2>2. /\ Keeps(v, u, Fields, {"rec"})
        /\ Keeps(v.rec, u.rec, RecorderFields, {"reserved", "next"})
        /\ u.rec.reserved = IF Recorded(v) THEN v.rec.next ELSE v.rec.reserved
    BY <2>1, ReservedKeeps
  <2> HIDE DEF u
  <2> QED
    BY <2>1, <2>2 DEF Shape, Keeps, Fields, ApplyFields, RecorderFields, Phase
<1>3. /\ Shape(v) /\ Jobs(v) /\ ExecutorsClose(v, x.a) /\ AdaptersInv(x.a)
      /\ Lanes(v) /\ Fence(v) /\ Owned(v, x.a, NoAdapter) /\ Retired(v) /\ Sealed(v)
      /\ Clean(v) /\ Released(v) /\ Hidden(v) /\ Credits(v) /\ Quiet(v)
  BY DEF Inv, InvBut, Ready
<1>4. v.op.kind = "none" /\ v.terminal = "none" /\ ~v.panicked
             /\ v.apply.phase = "reserve" /\ v.apply.begun /\ ~CannotReserve(v)
  OBVIOUS
<1> HIDE DEF v, w, y, u
<1>5. Shape(w)
  BY <1>2, <1>3, <1>4, <1>0 DEF Keeps, Fields, ApplyFields, RecorderFields, Shape
<1>6. ExecutorsClose(w, x.a) /\ AdaptersInv(x.a)
  BY <1>2, <1>3, <1>4 DEF Keeps, Fields, ExecutorsClose
<1>7. /\ Jobs(w) /\ Owned(w, x.a, NoAdapter) /\ Retired(w) /\ Released(w)
  BY <1>2, <1>3 DEF Keeps, Fields, Jobs, InFlight, Owned, Retired, Released, OutputsSafe
<1>8. Lanes(w)
  BY <1>2, <1>3, <1>4, <1>0 DEF Keeps, Fields, ApplyFields, RecorderFields, Lanes, Placed,
     NoOp, NoOp, NoApply
<1>9. Fence(w)
  BY <1>2, <1>3, <1>4 DEF Keeps, Fields, ApplyFields, RecorderFields, Fence, Lanes, NoOp
<1>10. Sealed(w)
  BY <1>2, <1>3, <1>4 DEF Keeps, Fields, ApplyFields, RecorderFields, Sealed
<1>11. Clean(w)
  BY <1>2, <1>3, <1>4 DEF Keeps, Fields, ApplyFields, RecorderFields, Clean, OutputsSafe
<1>12. Hidden(w)
  BY <1>2, <1>3, <1>4, <1>0 DEF Keeps, Fields, ApplyFields, RecorderFields, Hidden,
     NoApply, NoHidden
<1>13. Credits(w)
  BY <1>2, <1>3, <1>4 DEF Keeps, Fields, ApplyFields, RecorderFields, Credits, Lanes, NoOp,
     Generation, Recorded
<1>14. Quiet(w)
  BY <1>2, <1>3, <1>4 DEF Keeps, Fields, ApplyFields, RecorderFields, Quiet, Lanes, NoOp
<1>15. Inv(y)
  BY <1>1, <1>5, <1>6, <1>7, <1>8, <1>9, <1>10, <1>11, <1>12, <1>13, <1>14 DEF Inv, InvBut,
     Ready
<1> QED
  BY <1>15 DEF v, w, y, u

\* The hidden output is registered, and asked to be safe.
LEMMA RegistersOutput ==
    ASSUME NEW x, Inv(x),
           x.v.op.kind = "none" /\ x.v.terminal = "none" /\ ~x.v.panicked
             /\ x.v.apply.phase = "topology" /\ HasOutput(x.v.apply.kind)
    PROVE  Inv(With(x,
               [Phase(x.v, "safing") EXCEPT !.hid.state = "pending", !.apply.actuator = TRUE]))
<1>0. Candidate \in Resources
  BY LifecycleAssumption
<1> DEFINE v == x.v
           w == [Phase(v, "safing") EXCEPT !.hid.state = "pending", !.apply.actuator = TRUE]
           y == With(x, w)
<1> HIDE DEF w
<1>1. y = Lane(w, x.a) /\ y.v = w /\ y.a = x.a
  BY DEF Inv, InvBut, Ready, Lane, With
<1> USE DEF w
<1>2. /\ Keeps(v, w, Fields, {"apply", "hid"})
      /\ Keeps(v.apply, w.apply, ApplyFields, {"phase", "actuator"})
      /\ w.apply.phase = "safing"
      /\ w.apply.actuator = TRUE
      /\ Keeps(v.hid, w.hid, HiddenFields, {"state"})
      /\ w.hid.state = "pending"
  BY DEF Inv, InvBut, Ready, Shape, Keeps, Fields, ApplyFields, HiddenFields, Phase
<1>3. /\ Shape(v) /\ Jobs(v) /\ ExecutorsClose(v, x.a) /\ AdaptersInv(x.a)
      /\ Lanes(v) /\ Fence(v) /\ Owned(v, x.a, NoAdapter) /\ Retired(v) /\ Sealed(v)
      /\ Clean(v) /\ Released(v) /\ Hidden(v) /\ Credits(v) /\ Quiet(v)
  BY DEF Inv, InvBut, Ready
<1>4. v.op.kind = "none" /\ v.terminal = "none" /\ ~v.panicked
             /\ v.apply.phase = "topology" /\ HasOutput(v.apply.kind)
  OBVIOUS
<1> HIDE DEF v, w, y
<1>5. Shape(w)
  BY <1>2, <1>3, <1>4, <1>0 DEF Keeps, Fields, ApplyFields, HiddenFields, Shape
<1>6. ExecutorsClose(w, x.a) /\ AdaptersInv(x.a)
  BY <1>2, <1>3, <1>4 DEF Keeps, Fields, ExecutorsClose
<1>7. /\ Owned(w, x.a, NoAdapter) /\ Retired(w) /\ Sealed(w) /\ Clean(w) /\ Released(w)
  BY <1>2, <1>3 DEF Keeps, Fields, Owned, Retired, Sealed, Clean, OutputsSafe, Released,
     OutputsSafe
<1>8. Jobs(w)
  BY <1>2, <1>3, <1>4, <1>4 DEF Keeps, Fields, ApplyFields, HiddenFields, Jobs, InFlight,
     Hidden
<1>9. Lanes(w)
  BY <1>2, <1>3, <1>4, <1>0 DEF Keeps, Fields, ApplyFields, HiddenFields, Lanes, Placed,
     NoOp, NoOp, NoApply
<1>10. Fence(w)
  BY <1>2, <1>3, <1>4 DEF Keeps, Fields, ApplyFields, HiddenFields, Fence, Lanes, NoOp
<1>11. Hidden(w)
  BY <1>2, <1>3, <1>4, <1>0 DEF Keeps, Fields, ApplyFields, HiddenFields, Hidden, NoApply,
     NoHidden
<1>12. Credits(w)
  BY <1>2, <1>3, <1>4 DEF Keeps, Fields, ApplyFields, HiddenFields, Credits, Lanes, NoOp
<1>13. Quiet(w)
  BY <1>2, <1>3, <1>4 DEF Keeps, Fields, ApplyFields, HiddenFields, Quiet, Lanes, NoOp
<1>14. Inv(y)
  BY <1>1, <1>5, <1>6, <1>7, <1>8, <1>9, <1>10, <1>11, <1>12, <1>13 DEF Inv, InvBut, Ready
<1> QED
  BY <1>14 DEF v, w, y

\* A sensor has none.
LEMMA RegistersSensor ==
    ASSUME NEW x, Inv(x),
           x.v.op.kind = "none" /\ x.v.terminal = "none" /\ ~x.v.panicked
             /\ x.v.apply.phase = "topology" /\ ~HasOutput(x.v.apply.kind)
    PROVE  Inv(With(x, Phase(x.v, "commit")))
<1>0. Candidate \in Resources
  BY LifecycleAssumption
<1> DEFINE v == x.v
           w == Phase(v, "commit")
           y == With(x, w)
<1> HIDE DEF w
<1>1. y = Lane(w, x.a) /\ y.v = w /\ y.a = x.a
  BY DEF Inv, InvBut, Ready, Lane, With
<1> USE DEF w
<1>2. /\ Keeps(v, w, Fields, {"apply"})
      /\ Keeps(v.apply, w.apply, ApplyFields, {"phase"})
      /\ w.apply.phase = "commit"
  BY DEF Inv, InvBut, Ready, Shape, Keeps, Fields, ApplyFields, Phase
<1>3. /\ Shape(v) /\ Jobs(v) /\ ExecutorsClose(v, x.a) /\ AdaptersInv(x.a)
      /\ Lanes(v) /\ Fence(v) /\ Owned(v, x.a, NoAdapter) /\ Retired(v) /\ Sealed(v)
      /\ Clean(v) /\ Released(v) /\ Hidden(v) /\ Credits(v) /\ Quiet(v)
  BY DEF Inv, InvBut, Ready
<1>4. v.op.kind = "none" /\ v.terminal = "none" /\ ~v.panicked
             /\ v.apply.phase = "topology" /\ ~HasOutput(v.apply.kind)
  OBVIOUS
<1> HIDE DEF v, w, y
<1>5. Shape(w)
  BY <1>2, <1>3, <1>4, <1>0 DEF Keeps, Fields, ApplyFields, Shape
<1>6. ExecutorsClose(w, x.a) /\ AdaptersInv(x.a)
  BY <1>2, <1>3, <1>4 DEF Keeps, Fields, ExecutorsClose
<1>7. /\ Jobs(w) /\ Owned(w, x.a, NoAdapter) /\ Retired(w) /\ Sealed(w) /\ Clean(w)
      /\ Released(w)
  BY <1>2, <1>3 DEF Keeps, Fields, Jobs, InFlight, Owned, Retired, Sealed, Clean,
     OutputsSafe, Released, OutputsSafe
<1>8. Lanes(w)
  BY <1>2, <1>3, <1>4, <1>0 DEF Keeps, Fields, ApplyFields, Lanes, Placed, NoOp, NoOp,
     NoApply
<1>9. Fence(w)
  BY <1>2, <1>3, <1>4 DEF Keeps, Fields, ApplyFields, Fence, Lanes, NoOp
<1>10. Hidden(w)
  BY <1>2, <1>3, <1>4, <1>0 DEF Keeps, Fields, ApplyFields, Hidden, NoApply, NoHidden
<1>11. Credits(w)
  BY <1>2, <1>3, <1>4 DEF Keeps, Fields, ApplyFields, Credits, Lanes, NoOp
<1>12. Quiet(w)
  BY <1>2, <1>3, <1>4 DEF Keeps, Fields, ApplyFields, Quiet, Lanes, NoOp
<1>13. Inv(y)
  BY <1>1, <1>5, <1>6, <1>7, <1>8, <1>9, <1>10, <1>11, <1>12 DEF Inv, InvBut, Ready
<1> QED
  BY <1>13 DEF v, w, y

\* The hidden output is proved safe.
LEMMA EstablishesSafe ==
    ASSUME NEW x, Inv(x),
           x.v.op.kind = "none" /\ x.v.terminal = "none" /\ ~x.v.panicked
             /\ x.v.apply.phase = "safing" /\ x.v.hid.state = "safe"
    PROVE  Inv(With(x, Phase(x.v, "commit")))
<1>0. Candidate \in Resources
  BY LifecycleAssumption
<1> DEFINE v == x.v
           w == Phase(v, "commit")
           y == With(x, w)
<1> HIDE DEF w
<1>1. y = Lane(w, x.a) /\ y.v = w /\ y.a = x.a
  BY DEF Inv, InvBut, Ready, Lane, With
<1> USE DEF w
<1>2. /\ Keeps(v, w, Fields, {"apply"})
      /\ Keeps(v.apply, w.apply, ApplyFields, {"phase"})
      /\ w.apply.phase = "commit"
  BY DEF Inv, InvBut, Ready, Shape, Keeps, Fields, ApplyFields, Phase
<1>3. /\ Shape(v) /\ Jobs(v) /\ ExecutorsClose(v, x.a) /\ AdaptersInv(x.a)
      /\ Lanes(v) /\ Fence(v) /\ Owned(v, x.a, NoAdapter) /\ Retired(v) /\ Sealed(v)
      /\ Clean(v) /\ Released(v) /\ Hidden(v) /\ Credits(v) /\ Quiet(v)
  BY DEF Inv, InvBut, Ready
<1>4. v.op.kind = "none" /\ v.terminal = "none" /\ ~v.panicked
             /\ v.apply.phase = "safing" /\ v.hid.state = "safe"
  OBVIOUS
<1> HIDE DEF v, w, y
<1>5. Shape(w)
  BY <1>2, <1>3, <1>4, <1>0 DEF Keeps, Fields, ApplyFields, Shape
<1>6. ExecutorsClose(w, x.a) /\ AdaptersInv(x.a)
  BY <1>2, <1>3, <1>4 DEF Keeps, Fields, ExecutorsClose
<1>7. /\ Jobs(w) /\ Owned(w, x.a, NoAdapter) /\ Retired(w) /\ Sealed(w) /\ Clean(w)
      /\ Released(w)
  BY <1>2, <1>3 DEF Keeps, Fields, Jobs, InFlight, Owned, Retired, Sealed, Clean,
     OutputsSafe, Released, OutputsSafe
<1>8. Lanes(w)
  BY <1>2, <1>3, <1>4, <1>0 DEF Keeps, Fields, ApplyFields, Lanes, Placed, NoOp, NoOp,
     NoApply
<1>9. Fence(w)
  BY <1>2, <1>3, <1>4 DEF Keeps, Fields, ApplyFields, Fence, Lanes, NoOp
<1>10. Hidden(w)
  BY <1>2, <1>3, <1>4, <1>0 DEF Keeps, Fields, ApplyFields, Hidden, NoApply, NoHidden
<1>11. Credits(w)
  BY <1>2, <1>3, <1>4 DEF Keeps, Fields, ApplyFields, Credits, Lanes, NoOp
<1>12. Quiet(w)
  BY <1>2, <1>3, <1>4 DEF Keeps, Fields, ApplyFields, Quiet, Lanes, NoOp
<1>13. Inv(y)
  BY <1>1, <1>5, <1>6, <1>7, <1>8, <1>9, <1>10, <1>11, <1>12 DEF Inv, InvBut, Ready
<1> QED
  BY <1>13 DEF v, w, y

\* The candidate is listed, and its lifecycle record submitted.
LEMMA Lists ==
    ASSUME NEW x, Inv(x),
           x.v.op.kind = "none" /\ x.v.terminal = "none" /\ ~x.v.panicked
             /\ x.v.apply.phase = "commit" /\ CanCommit(x.v, x.v.apply.gen)
    PROVE  Inv(With(x,
               Phase(Committed([x.v EXCEPT !.hid.listed = TRUE, !.apply.published = TRUE], x.v.apply.gen), "confirm")))
<1>0. Candidate \in Resources
  BY LifecycleAssumption
<1> DEFINE v == x.v
           l == [v EXCEPT !.hid.listed = TRUE, !.apply.published = TRUE]
           u == Committed(l, v.apply.gen)
           w == Phase(u, "confirm")
           y == With(x, w)
<1> HIDE DEF w
<1>1. y = Lane(w, x.a) /\ y.v = w /\ y.a = x.a
  BY DEF Inv, InvBut, Ready, Lane, With
<1> USE DEF w
<1>2. /\ Keeps(v, w, Fields, {"apply", "hid", "rec"})
      /\ Keeps(v.apply, w.apply, ApplyFields, {"phase", "published"})
      /\ w.apply.phase = "confirm"
      /\ w.apply.published = TRUE
      /\ Keeps(v.hid, w.hid, HiddenFields, {"listed"})
      /\ w.hid.listed = TRUE
      /\ Keeps(v.rec, w.rec, RecorderFields, {"reserved", "pending"})
      /\ v.apply.gen = 0 => w.rec = v.rec
      /\ v.apply.gen # 0 => w.rec.reserved = 0 /\ w.rec.pending = v.apply.gen
  <2>1. Shape(v)
    BY DEF Inv, InvBut, Ready
  <2>2. /\ Keeps(v, l, Fields, {"hid", "apply"}) /\ Shape(l)
        /\ Keeps(v.hid, l.hid, HiddenFields, {"listed"}) /\ l.hid.listed = TRUE
        /\ Keeps(v.apply, l.apply, ApplyFields, {"published"}) /\ l.apply.published = TRUE
    BY <2>1 DEF Shape, Keeps, Fields, HiddenFields, ApplyFields
  <2> HIDE DEF l
  <2>3. /\ Keeps(l, u, Fields, {"rec"})
        /\ Keeps(l.rec, u.rec, RecorderFields, {"reserved", "pending"})
        /\ v.apply.gen = 0 => u.rec = l.rec
        /\ v.apply.gen # 0 => u.rec.reserved = 0 /\ u.rec.pending = v.apply.gen
    BY <2>2, CommittedKeeps
  <2> HIDE DEF u
  <2>4. /\ Keeps(u, w, Fields, {"apply"}) /\ Keeps(u.apply, w.apply, ApplyFields, {"phase"})
        /\ w.apply.phase = "confirm"
    BY <2>2, <2>3 DEF Shape, Keeps, Fields, ApplyFields, Phase
  <2> HIDE DEF w
  <2>5. /\ w.rec = u.rec /\ l.rec = v.rec /\ w.hid = l.hid /\ u.apply = l.apply
        /\ Keeps(v, w, Fields, {"apply", "hid", "rec"})
    BY <2>2, <2>3, <2>4 DEF Keeps, Fields
  <2>6. Keeps(v.apply, w.apply, ApplyFields, {"phase", "published"}) /\ w.apply.published = TRUE
    BY <2>2, <2>4, <2>5 DEF Keeps, ApplyFields
  <2> QED
    BY <2>2, <2>3, <2>4, <2>5, <2>6
<1>3. /\ Shape(v) /\ Jobs(v) /\ ExecutorsClose(v, x.a) /\ AdaptersInv(x.a)
      /\ Lanes(v) /\ Fence(v) /\ Owned(v, x.a, NoAdapter) /\ Retired(v) /\ Sealed(v)
      /\ Clean(v) /\ Released(v) /\ Hidden(v) /\ Credits(v) /\ Quiet(v)
  BY DEF Inv, InvBut, Ready
<1>4. v.op.kind = "none" /\ v.terminal = "none" /\ ~v.panicked
             /\ v.apply.phase = "commit" /\ CanCommit(v, v.apply.gen)
  OBVIOUS
<1> HIDE DEF v, w, y, l, u
<1>5. Shape(w)
  BY <1>2, <1>3, <1>4, <1>0 DEF Keeps, Fields, ApplyFields, HiddenFields, RecorderFields,
     Shape
<1>6. ExecutorsClose(w, x.a) /\ AdaptersInv(x.a)
  BY <1>2, <1>3, <1>4 DEF Keeps, Fields, ExecutorsClose
<1>7. /\ Owned(w, x.a, NoAdapter) /\ Retired(w) /\ Released(w)
  BY <1>2, <1>3 DEF Keeps, Fields, Owned, Retired, Released, OutputsSafe
<1>8. Jobs(w)
  BY <1>2, <1>3, <1>4 DEF Keeps, Fields, ApplyFields, HiddenFields, RecorderFields, Jobs,
     InFlight
<1>9. Lanes(w)
  BY <1>2, <1>3, <1>4, <1>0 DEF Keeps, Fields, ApplyFields, HiddenFields, RecorderFields,
     Lanes, Placed, NoOp, NoOp, NoApply
<1>10. Fence(w)
  BY <1>2, <1>3, <1>4 DEF Keeps, Fields, ApplyFields, HiddenFields, RecorderFields, Fence,
     Lanes, NoOp
<1>11. Sealed(w)
  BY <1>2, <1>3, <1>4 DEF Keeps, Fields, ApplyFields, HiddenFields, RecorderFields, Sealed,
     CanCommit
<1>12. Clean(w)
  BY <1>2, <1>3, <1>4 DEF Keeps, Fields, ApplyFields, HiddenFields, RecorderFields, Clean,
     OutputsSafe
<1>13. Hidden(w)
  BY <1>2, <1>3, <1>4, <1>0 DEF Keeps, Fields, ApplyFields, HiddenFields, RecorderFields,
     Hidden, NoApply, NoHidden
<1>14. Credits(w)
  BY <1>2, <1>3, <1>4 DEF Keeps, Fields, ApplyFields, HiddenFields, RecorderFields,
     Credits, Lanes, NoOp, CanCommit
<1>15. Quiet(w)
  BY <1>2, <1>3, <1>4 DEF Keeps, Fields, ApplyFields, HiddenFields, RecorderFields, Quiet,
     Lanes, NoOp
<1>16. Inv(y)
  BY <1>1, <1>5, <1>6, <1>7, <1>8, <1>9, <1>10, <1>11, <1>12, <1>13, <1>14, <1>15 DEF Inv,
     InvBut, Ready
<1> QED
  BY <1>16 DEF v, w, y, l, u

\* The service record a published application leaves.
Published(v) ==
    LET a == v.apply
        u == Reopened(v, a.gen, a.reopen) IN
    [u EXCEPT !.overlay = TRUE, !.rev = @ + 1, !.apply = NoApply, !.hid = NoHidden,
              !.out[Candidate] = IF HasOutput(a.kind) THEN u.hid.state ELSE @,
              !.exe[Candidate].job = IF @ = "hidden" THEN "safe" ELSE @,
              !.quiesced = IF a.quiesced THEN FALSE ELSE @]

LEMMA PublishedKeeps ==
    ASSUME NEW v, Shape(v)
    PROVE  LET w == Published(v) IN
           /\ Keeps(v, w, Fields, {"gate", "overlay", "rev", "apply", "hid", "out", "exe",
                                   "quiesced"})
           /\ w.gate = v.gate \/ v.apply.reopen
           /\ w.overlay = TRUE /\ w.apply = NoApply /\ w.hid = NoHidden
           /\ w.quiesced = IF v.apply.quiesced THEN FALSE ELSE v.quiesced
           /\ DOMAIN w.out = Resources
           /\ w.out[Candidate] = IF HasOutput(v.apply.kind) THEN v.hid.state
                                 ELSE v.out[Candidate]
           /\ \A r \in Resources : r # Candidate => w.out[r] = v.out[r]
           /\ DOMAIN w.exe = Resources
           /\ \A r \in Resources :
                 /\ Keeps(v.exe[r], w.exe[r], ExecutorFields, {"job"})
                 /\ w.exe[r].job = IF r = Candidate /\ v.exe[r].job = "hidden" THEN "safe"
                                   ELSE v.exe[r].job
           /\ Shape(w)
<1> DEFINE u == Reopened(v, v.apply.gen, v.apply.reopen)
           w == Published(v)
<1>0. Candidate \in Resources
  BY LifecycleAssumption
<1>1. Keeps(v, u, Fields, {"gate"}) /\ (u.gate = v.gate \/ v.apply.reopen)
  BY ReopenedKeeps
<1>2. Shape(u) /\ u.hid = v.hid /\ u.out = v.out /\ u.exe = v.exe /\ u.apply = v.apply
      /\ u.quiesced = v.quiesced
  <2> HIDE DEF u
  <2> QED
    BY <1>1 DEF Shape, Keeps, Fields
<1>3. w = [u EXCEPT !.overlay = TRUE, !.rev = @ + 1, !.apply = NoApply, !.hid = NoHidden,
                    !.out[Candidate] = IF HasOutput(v.apply.kind) THEN u.hid.state ELSE @,
                    !.exe[Candidate].job = IF @ = "hidden" THEN "safe" ELSE @,
                    !.quiesced = IF v.apply.quiesced THEN FALSE ELSE @]
  BY Zenon DEF Published
<1> HIDE DEF u, w
<1>4. /\ Keeps(u, w, Fields, {"overlay", "rev", "apply", "hid", "out", "exe", "quiesced"})
      /\ w.overlay = TRUE /\ w.apply = NoApply /\ w.hid = NoHidden
      /\ w.quiesced = IF v.apply.quiesced THEN FALSE ELSE u.quiesced
      /\ w.out = [u.out EXCEPT ![Candidate] = IF HasOutput(v.apply.kind) THEN u.hid.state
                                              ELSE @]
      /\ w.exe = [u.exe EXCEPT ![Candidate] =
                    [u.exe[Candidate] EXCEPT !.job = IF @ = "hidden" THEN "safe" ELSE @]]
  BY <1>2, <1>3 DEF Shape, Keeps, Fields
<1>5. /\ DOMAIN w.out = Resources
      /\ w.out[Candidate] = IF HasOutput(v.apply.kind) THEN v.hid.state ELSE v.out[Candidate]
      /\ \A r \in Resources : r # Candidate => w.out[r] = v.out[r]
  BY <1>0, <1>2, <1>4 DEF Shape
<1>6. /\ DOMAIN w.exe = Resources
      /\ \A r \in Resources : r # Candidate => w.exe[r] = v.exe[r]
      /\ w.exe[Candidate] =
           [v.exe[Candidate] EXCEPT !.job = IF @ = "hidden" THEN "safe" ELSE @]
  BY <1>0, <1>2, <1>4 DEF Shape, ExecutorShape
<1>7. \A r \in Resources : /\ Keeps(v.exe[r], w.exe[r], ExecutorFields, {"job"})
                           /\ w.exe[r].job = IF r = Candidate /\ v.exe[r].job = "hidden"
                                             THEN "safe" ELSE v.exe[r].job
  BY <1>2, <1>6 DEF Shape, ExecutorShape, ExecutorFields, Keeps
<1>8. /\ Keeps(v, w, Fields, {"gate", "overlay", "rev", "apply", "hid", "out", "exe",
                              "quiesced"})
      /\ w.gate = u.gate
  BY <1>1, <1>4 DEF Keeps, Fields
<1>9. /\ Shape(w)
  BY <1>2, <1>4, <1>5, <1>6, <1>7, <1>8 DEF Shape, ExecutorShape, Keeps, Fields, NoHidden,
     HiddenFields, NoApply, ApplyFields
<1> QED
  BY <1>1, <1>2, <1>4, <1>5, <1>6, <1>7, <1>8, <1>9 DEF w

\* The durable receipt publishes the candidate, and its output with it.
LEMMA Publishes ==
    ASSUME NEW x, Inv(x),
           x.v.op.kind = "none" /\ x.v.terminal = "none" /\ ~x.v.panicked
             /\ x.v.apply.phase = "confirm"
    PROVE  Inv(With(x, Published(x.v)))
<1>0. Candidate \in Resources
  BY LifecycleAssumption
<1> DEFINE v == x.v
           w == Published(v)
           y == With(x, w)
<1> HIDE DEF w
<1>1. y = Lane(w, x.a) /\ y.v = w /\ y.a = x.a
  BY DEF Inv, InvBut, Ready, Lane, With
<1> USE DEF w
<1>2. /\ Keeps(v, w, Fields, {"gate", "overlay", "rev", "apply", "hid", "out", "exe",
                              "quiesced"})
      /\ w.gate = v.gate \/ v.apply.reopen
      /\ w.overlay = TRUE /\ w.apply = NoApply /\ w.hid = NoHidden
      /\ w.quiesced = IF v.apply.quiesced THEN FALSE ELSE v.quiesced
      /\ DOMAIN w.out = Resources
      /\ w.out[Candidate] = IF HasOutput(v.apply.kind) THEN v.hid.state ELSE v.out[Candidate]
      /\ \A r \in Resources : r # Candidate => w.out[r] = v.out[r]
      /\ DOMAIN w.exe = Resources
      /\ \A r \in Resources :
            /\ Keeps(v.exe[r], w.exe[r], ExecutorFields, {"job"})
            /\ w.exe[r].job = IF r = Candidate /\ v.exe[r].job = "hidden" THEN "safe"
                              ELSE v.exe[r].job
  <2>1. Shape(v)
    BY DEF Inv, InvBut, Ready
  <2>2. /\ Keeps(v, w, Fields, {"gate", "overlay", "rev", "apply", "hid", "out", "exe",
                                "quiesced"})
        /\ w.gate = v.gate \/ v.apply.reopen
        /\ w.overlay = TRUE /\ w.apply = NoApply /\ w.hid = NoHidden
        /\ w.quiesced = IF v.apply.quiesced THEN FALSE ELSE v.quiesced
        /\ DOMAIN w.out = Resources
        /\ w.out[Candidate] = IF HasOutput(v.apply.kind) THEN v.hid.state ELSE v.out[Candidate]
        /\ \A r \in Resources : r # Candidate => w.out[r] = v.out[r]
        /\ DOMAIN w.exe = Resources
        /\ \A r \in Resources :
              /\ Keeps(v.exe[r], w.exe[r], ExecutorFields, {"job"})
              /\ w.exe[r].job = IF r = Candidate /\ v.exe[r].job = "hidden" THEN "safe"
                                ELSE v.exe[r].job
    BY <2>1, PublishedKeeps, Zenon
  <2> QED
    BY <2>2
<1>3. /\ Shape(v) /\ Jobs(v) /\ ExecutorsClose(v, x.a) /\ AdaptersInv(x.a)
      /\ Lanes(v) /\ Fence(v) /\ Owned(v, x.a, NoAdapter) /\ Retired(v) /\ Sealed(v)
      /\ Clean(v) /\ Released(v) /\ Hidden(v) /\ Credits(v) /\ Quiet(v)
  BY DEF Inv, InvBut, Ready
<1>4. v.op.kind = "none" /\ v.terminal = "none" /\ ~v.panicked
             /\ v.apply.phase = "confirm"
  OBVIOUS
<1> HIDE DEF v, w, y
<1>5. Shape(w)
  BY <1>3, PublishedKeeps DEF w
<1>6. ExecutorsClose(w, x.a) /\ AdaptersInv(x.a)
  BY <1>2, <1>3, <1>4 DEF Keeps, Fields, ExecutorsClose, ExecutorFields
<1>7. /\ Sealed(w)
  BY <1>2, <1>3 DEF Keeps, Fields, Sealed
<1>8. Jobs(w)
  BY <1>2, <1>3, <1>4, <1>0 DEF Keeps, Fields, Jobs, InFlight, ExecutorFields, NoHidden,
     Hidden, HasOutput
<1>9. Lanes(w)
  BY <1>2, <1>3, <1>4, <1>0 DEF Keeps, Fields, Lanes, Placed, NoOp, NoOp, NoApply
<1>10. Fence(w)
  BY <1>2, <1>3, <1>4 DEF Keeps, Fields, Fence, Lanes, NoOp, NoApply
<1>11. Owned(w, x.a, NoAdapter)
  BY <1>2, <1>3, <1>4 DEF Keeps, Fields, Owned, HasCandidate, HasCandidate, ExecutorFields,
     NoOp, Lanes
<1>12. Retired(w)
  BY <1>2, <1>3, <1>4 DEF Keeps, Fields, Retired, NoOp, Lanes
<1>13. Clean(w)
  BY <1>2, <1>3, <1>4 DEF Keeps, Fields, Clean, OutputsSafe
<1>14. Released(w)
  BY <1>2, <1>3, <1>4 DEF Keeps, Fields, Released, OutputsSafe, NoOp, Lanes
<1>15. Hidden(w)
  BY <1>2, <1>3, <1>4, <1>0 DEF Keeps, Fields, Hidden, NoApply, NoHidden, Lanes, Simple
<1>16. Credits(w)
  BY <1>2, <1>3, <1>4 DEF Keeps, Fields, Credits, Lanes, NoOp, NoApply
<1>17. Quiet(w)
  BY <1>2, <1>3, <1>4 DEF Keeps, Fields, Quiet, Lanes, NoOp, NoApply
<1>18. Inv(y)
  BY <1>1, <1>5, <1>6, <1>7, <1>8, <1>9, <1>10, <1>11, <1>12, <1>13, <1>14, <1>15, <1>16,
     <1>17 DEF Inv, InvBut, Ready
<1> QED
  BY <1>18 DEF v, w, y

\* What a failed application leaves: its credit returned and its quiesce ended; and its
\* hidden output discarded, or kept as evidence, or the process ended.
FailedTo(v, w) ==
    /\ Keeps(v, w, Fields, {"hid", "exe", "rec", "gate", "apply", "quiesced", "quar",
                            "panicked"})
    /\ Shape(w) /\ Gated(v, w)
    /\ w.apply = NoApply
    /\ w.quiesced = IF v.apply.quiesced THEN FALSE ELSE v.quiesced
    /\ Keeps(v.rec, w.rec, RecorderFields, {"reserved", "facts"})
    /\ ~v.apply.begun => w.rec = v.rec
    /\ v.apply.begun =>
          /\ w.rec.facts = FALSE
          /\ w.rec.reserved = IF v.apply.gen # 0 /\ v.rec.reserved = v.apply.gen THEN 0
                              ELSE v.rec.reserved
    /\ \A r \in Resources : Keeps(v.exe[r], w.exe[r], ExecutorFields, {"job"})
    /\ \/ /\ ~InFlight(v.hid.state) /\ w.hid = NoHidden
          /\ w.quar = v.quar /\ w.panicked = v.panicked
          /\ \A r \in Resources :
                w.exe[r].job = IF r = Candidate /\ v.exe[r].job = "hidden" THEN "none"
                               ELSE v.exe[r].job
       \/ /\ ~v.apply.published /\ Ambiguous(v)
          /\ w.hid = v.hid /\ w.exe = v.exe /\ w.quar = TRUE /\ w.panicked = v.panicked
       \/ /\ InFlight(v.hid.state)
          /\ w.hid = v.hid /\ w.exe = v.exe /\ w.quar = v.quar /\ w.panicked = TRUE

LEMMA FailedKeeps ==
    ASSUME NEW v, Shape(v), NEW u, Shape(u), Keeps(v, u, Fields, {"hid", "apply", "gate"}),
           Keeps(v.hid, u.hid, HiddenFields, {"listed"}),
           Keeps(v.apply, u.apply, ApplyFields, {"published"}), Gated(v, u),
           u = v \/ (u.apply.published /\ CanDiscard(v))
    PROVE  FailedTo(v, ApplyFailed(u))
<1> DEFINE c == IF u.apply.begun THEN Cancelled(u, u.apply.gen) ELSE u
           cl == IF u.apply.published THEN RolledBack(c)
                 ELSE IF Ambiguous(u) THEN [c EXCEPT !.quar = TRUE]
                 ELSE RolledBack(c)
           w == ApplyFailed(u)
<1>1. w = [cl EXCEPT !.apply = NoApply,
                     !.quiesced = IF u.apply.quiesced THEN FALSE ELSE @]
  BY Zenon DEF ApplyFailed
<1>2. /\ Keeps(u, c, Fields, {"rec"}) /\ Shape(c)
      /\ Keeps(u.rec, c.rec, RecorderFields, {"reserved", "facts"})
      /\ ~u.apply.begun => c.rec = u.rec
      /\ u.apply.begun =>
            /\ c.rec.facts = FALSE
            /\ c.rec.reserved = IF u.apply.gen # 0 /\ u.rec.reserved = u.apply.gen THEN 0
                                ELSE u.rec.reserved
  <2>1. CASE u.apply.begun
    BY <2>1, CancelledKeeps
  <2>2. CASE ~u.apply.begun
    BY <2>2 DEF Keeps, Shape
  <2> QED
    BY <2>1, <2>2
<1>3. \/ CanDiscard(c) /\ cl = Discarded(c)
      \/ ~u.apply.published /\ Ambiguous(u) /\ cl = [c EXCEPT !.quar = TRUE]
      \/ ~CanDiscard(c) /\ cl = [c EXCEPT !.panicked = TRUE]
  <2> HIDE DEF c
  <2> QED
    BY DEF RolledBack
<1> HIDE DEF c, cl, w
<1>4. /\ Keeps(c, cl, Fields, {"hid", "exe", "quar", "panicked"}) /\ Shape(cl)
      /\ \A r \in Resources : Keeps(c.exe[r], cl.exe[r], ExecutorFields, {"job"})
      /\ \/ /\ CanDiscard(c) /\ cl.hid = NoHidden
            /\ cl.quar = c.quar /\ cl.panicked = c.panicked
            /\ \A r \in Resources :
                  cl.exe[r].job = IF r = Candidate /\ c.exe[r].job = "hidden" THEN "none"
                                  ELSE c.exe[r].job
         \/ /\ ~u.apply.published /\ Ambiguous(u)
            /\ cl.hid = c.hid /\ cl.exe = c.exe /\ cl.quar = TRUE /\ cl.panicked = c.panicked
         \/ /\ ~CanDiscard(c)
            /\ cl.hid = c.hid /\ cl.exe = c.exe /\ cl.quar = c.quar /\ cl.panicked = TRUE
  <2>1. CASE CanDiscard(c) /\ cl = Discarded(c)
    <3>1. /\ Keeps(c, cl, Fields, {"hid", "exe"}) /\ cl.hid = NoHidden /\ Shape(cl)
          /\ \A r \in Resources :
                /\ Keeps(c.exe[r], cl.exe[r], ExecutorFields, {"job"})
                /\ cl.exe[r].job = IF r = Candidate /\ c.exe[r].job = "hidden" THEN "none"
                                   ELSE c.exe[r].job
      BY <1>2, <2>1, DiscardedKeeps
    <3>2. /\ Keeps(c, cl, Fields, {"hid", "exe", "quar", "panicked"})
          /\ cl.quar = c.quar /\ cl.panicked = c.panicked
      BY <3>1 DEF Keeps, Fields
    <3> QED
      BY <2>1, <3>1, <3>2
  <2>2. ASSUME NEW k \in {"quar", "panicked"}, cl = [c EXCEPT ![k] = TRUE]
        PROVE  /\ Keeps(c, cl, Fields, {"hid", "exe", "quar", "panicked"}) /\ Shape(cl)
               /\ \A r \in Resources : Keeps(c.exe[r], cl.exe[r], ExecutorFields, {"job"})
               /\ cl.hid = c.hid /\ cl.exe = c.exe /\ cl[k] = TRUE
               /\ \A j \in {"quar", "panicked"} : j # k => cl[j] = c[j]
    <3>1. /\ Keeps(c, cl, Fields, {"hid", "exe", "quar", "panicked"})
          /\ cl.hid = c.hid /\ cl.exe = c.exe /\ cl[k] = TRUE
          /\ \A j \in {"quar", "panicked"} : j # k => cl[j] = c[j]
      BY <1>2, <2>2 DEF Keeps, Fields, Shape
    <3>2. Shape(cl)
      BY <1>2, <3>1 DEF Keeps, Fields, Shape
    <3>3. \A r \in Resources : Keeps(c.exe[r], cl.exe[r], ExecutorFields, {"job"})
      BY <1>2, <3>1 DEF Keeps, Shape, ExecutorShape
    <3> QED
      BY <3>1, <3>2, <3>3
  <2>3. CASE ~u.apply.published /\ Ambiguous(u) /\ cl = [c EXCEPT !.quar = TRUE]
    BY <2>2, <2>3
  <2>4. CASE ~CanDiscard(c) /\ cl = [c EXCEPT !.panicked = TRUE]
    BY <2>2, <2>4
  <2> QED
    BY <1>3, <2>1, <2>3, <2>4
<1>5. /\ Keeps(cl, w, Fields, {"apply", "quiesced"})
      /\ w.apply = NoApply
      /\ w.quiesced = IF u.apply.quiesced THEN FALSE ELSE cl.quiesced
  BY <1>1, <1>4 DEF Keeps, Fields, Shape
<1>6. Shape(w)
  BY <1>4, <1>5 DEF Keeps, Fields, Shape, NoApply, ApplyFields
<1>7. /\ u.rec = v.rec /\ u.exe = v.exe /\ u.quar = v.quar /\ u.panicked = v.panicked
      /\ u.quiesced = v.quiesced
      /\ u.hid.state = v.hid.state /\ u.hid.sent = v.hid.sent
      /\ u.apply.begun = v.apply.begun /\ u.apply.gen = v.apply.gen
      /\ u.apply.quiesced = v.apply.quiesced /\ u.apply.actuator = v.apply.actuator
  BY DEF Keeps, Fields, HiddenFields, ApplyFields
<1>8. /\ c.exe = u.exe /\ c.hid = u.hid /\ c.quar = u.quar /\ c.panicked = u.panicked
      /\ c.quiesced = u.quiesced /\ c.gate = u.gate
      /\ cl.rec = c.rec /\ cl.quiesced = c.quiesced /\ cl.gate = c.gate
      /\ w.rec = cl.rec /\ w.exe = cl.exe /\ w.hid = cl.hid /\ w.quar = cl.quar
      /\ w.panicked = cl.panicked /\ w.gate = cl.gate
  BY <1>2, <1>4, <1>5 DEF Keeps, Fields
<1>9. /\ w.quiesced = IF v.apply.quiesced THEN FALSE ELSE v.quiesced
      /\ Gated(v, w)
  BY <1>5, <1>7, <1>8 DEF Gated
<1>10. Keeps(v, w, Fields, {"hid", "exe", "rec", "gate", "apply", "quiesced", "quar",
                            "panicked"})
  BY <1>2, <1>4, <1>5 DEF Keeps, Fields
<1>11. /\ Keeps(v.rec, w.rec, RecorderFields, {"reserved", "facts"})
       /\ ~v.apply.begun => w.rec = v.rec
       /\ v.apply.begun =>
             /\ w.rec.facts = FALSE
             /\ w.rec.reserved = IF v.apply.gen # 0 /\ v.rec.reserved = v.apply.gen THEN 0
                                 ELSE v.rec.reserved
  BY <1>2, <1>7, <1>8
<1>12. \A r \in Resources : Keeps(v.exe[r], w.exe[r], ExecutorFields, {"job"})
  BY <1>4, <1>7, <1>8
<1>13. \/ /\ ~InFlight(v.hid.state) /\ w.hid = NoHidden
          /\ w.quar = v.quar /\ w.panicked = v.panicked
          /\ \A r \in Resources :
                w.exe[r].job = IF r = Candidate /\ v.exe[r].job = "hidden" THEN "none"
                               ELSE v.exe[r].job
       \/ /\ ~u.apply.published /\ Ambiguous(u)
          /\ w.hid = u.hid /\ w.exe = v.exe /\ w.quar = TRUE /\ w.panicked = v.panicked
       \/ /\ InFlight(v.hid.state)
          /\ w.hid = u.hid /\ w.exe = v.exe /\ w.quar = v.quar /\ w.panicked = TRUE
  BY <1>4, <1>7, <1>8 DEF CanDiscard
<1>14. \/ /\ ~InFlight(v.hid.state) /\ w.hid = NoHidden
          /\ w.quar = v.quar /\ w.panicked = v.panicked
          /\ \A r \in Resources :
                w.exe[r].job = IF r = Candidate /\ v.exe[r].job = "hidden" THEN "none"
                               ELSE v.exe[r].job
       \/ /\ ~v.apply.published /\ Ambiguous(v)
          /\ w.hid = v.hid /\ w.exe = v.exe /\ w.quar = TRUE /\ w.panicked = v.panicked
       \/ /\ InFlight(v.hid.state)
          /\ w.hid = v.hid /\ w.exe = v.exe /\ w.quar = v.quar /\ w.panicked = TRUE
  <2>1. CASE u = v
    BY <1>13, <2>1
  <2>2. CASE u.apply.published /\ CanDiscard(v)
    BY <1>13, <2>2 DEF CanDiscard
  <2> QED
    BY <2>1, <2>2
<1>15. FailedTo(v, w)
  BY <1>5, <1>6, <1>9, <1>10, <1>11, <1>12, <1>14 DEF FailedTo
<1> QED
  BY <1>15 DEF w

LEMMA FailsInv ==
    ASSUME NEW x, Inv(x), x.v.op.kind = "none", x.v.terminal = "none", ~x.v.panicked,
           x.v.apply.phase # "none", NEW w, FailedTo(x.v, w)
    PROVE  Inv(With(x, w))
<1>0. Candidate \in Resources
  BY LifecycleAssumption
<1> DEFINE v == x.v
           y == With(x, w)
<1>1. y = Lane(w, x.a) /\ y.v = w /\ y.a = x.a
  BY DEF Inv, InvBut, Ready, Lane, With
<1>2. /\ Keeps(v, w, Fields, {"hid", "exe", "rec", "gate", "apply", "quiesced", "quar",
                              "panicked"})
      /\ Shape(w) /\ Gated(v, w)
      /\ w.apply = NoApply
      /\ w.quiesced = IF v.apply.quiesced THEN FALSE ELSE v.quiesced
      /\ Keeps(v.rec, w.rec, RecorderFields, {"reserved", "facts"})
      /\ ~v.apply.begun => w.rec = v.rec
      /\ v.apply.begun =>
            /\ w.rec.facts = FALSE
            /\ w.rec.reserved = IF v.apply.gen # 0 /\ v.rec.reserved = v.apply.gen THEN 0
                                ELSE v.rec.reserved
  BY DEF FailedTo
<1>3. /\ Shape(v) /\ Jobs(v) /\ ExecutorsClose(v, x.a) /\ AdaptersInv(x.a)
      /\ Lanes(v) /\ Fence(v) /\ Owned(v, x.a, NoAdapter) /\ Retired(v) /\ Sealed(v)
      /\ Clean(v) /\ Released(v) /\ Hidden(v) /\ Credits(v) /\ Quiet(v)
  BY DEF Inv, InvBut, Ready
<1>4. v.op.kind = "none" /\ v.terminal = "none" /\ ~v.panicked /\ v.apply.phase # "none"
  OBVIOUS
<1>5. \A r \in Resources : Keeps(v.exe[r], w.exe[r], ExecutorFields, {"job"})
  BY DEF FailedTo
<1>6. \/ /\ ~InFlight(v.hid.state) /\ w.hid = NoHidden
         /\ w.quar = v.quar /\ w.panicked = v.panicked
         /\ \A r \in Resources :
               w.exe[r].job = IF r = Candidate /\ v.exe[r].job = "hidden" THEN "none"
                              ELSE v.exe[r].job
      \/ /\ ~v.apply.published /\ Ambiguous(v)
         /\ w.hid = v.hid /\ w.exe = v.exe /\ w.quar = TRUE /\ w.panicked = v.panicked
      \/ /\ InFlight(v.hid.state)
         /\ w.hid = v.hid /\ w.exe = v.exe /\ w.quar = v.quar /\ w.panicked = TRUE
  BY DEF FailedTo
<1> HIDE DEF v, y
<1>7. /\ w.op = v.op /\ w.out = v.out /\ w.staged = v.staged /\ w.overlay = v.overlay
      /\ w.stopping = v.stopping /\ w.held = v.held /\ w.terminal = v.terminal
      /\ w.closed = v.closed /\ w.bind = v.bind /\ w.cut = v.cut
  BY <1>2 DEF Keeps, Fields
<1>8. /\ \A r \in Resources : /\ w.exe[r].adapter = v.exe[r].adapter
                              /\ w.exe[r].closed = v.exe[r].closed
                              /\ w.exe[r].offline = v.exe[r].offline
      /\ w.rec.pending = v.rec.pending /\ w.rec.state = v.rec.state
  BY <1>2, <1>5 DEF Keeps, ExecutorFields, RecorderFields
<1>9. ExecutorsClose(w, x.a)
  BY <1>3, <1>7, <1>8 DEF ExecutorsClose
<1>10. Jobs(w)
  BY <1>0, <1>3, <1>6, <1>7 DEF Jobs
<1>11. Lanes(w) /\ Retired(w) /\ Sealed(w) /\ Clean(w) /\ Released(w)
  <2>1. Lanes(w)
    BY <1>2, <1>3, <1>4, <1>7 DEF Lanes
  <2>2. w.op = NoOp
    BY <1>3, <1>4, <1>7 DEF Lanes
  <2> QED
    BY <1>3, <1>4, <1>7, <1>8, <2>1, <2>2 DEF NoOp, Retired, Sealed, Clean, Released
<1>12. Fence(w)
  BY <1>2, <1>3, <1>7 DEF Fence, Gated, NoApply
<1>13. Owned(w, x.a, NoAdapter)
  BY <1>3, <1>7, <1>8 DEF Owned
<1>14. Hidden(w)
  <2>1. /\ v.hid.sent => v.hid.state # "none"
        /\ ~v.quar /\ v.staged = "none" /\ ~v.overlay /\ v.out[Candidate] = "none"
        /\ ~v.apply.published => ~v.hid.listed
    BY <1>3, <1>4 DEF Hidden, Simple
  <2>2. CASE w.hid = NoHidden /\ w.quar = v.quar
    BY <1>2, <1>7, <2>1, <2>2 DEF Hidden, NoHidden, NoApply, Simple
  <2>3. CASE ~v.apply.published /\ Ambiguous(v) /\ w.hid = v.hid
             /\ w.quar = TRUE
    BY <1>2, <1>7, <2>1, <2>3 DEF Hidden, NoApply, Simple, Ambiguous
  <2>4. CASE w.hid = v.hid /\ w.quar = v.quar /\ w.panicked = TRUE
    BY <1>2, <1>7, <2>1, <2>4 DEF Hidden, NoApply, Simple
  <2> QED
    BY <1>6, <2>2, <2>3, <2>4
<1>15. Credits(w)
  <2>1. v.op = NoOp
    BY <1>3, <1>4 DEF Lanes
  <2> QED
    BY <1>2, <1>3, <1>7, <1>8, <2>1 DEF Credits, NoOp
<1>16. Quiet(w)
  BY <1>2, <1>3, <1>7 DEF Quiet, NoApply
<1>17. Inv(y)
  BY <1>1, <1>2, <1>3, <1>9, <1>10, <1>11, <1>12, <1>13, <1>14, <1>15, <1>16 DEF Inv, InvBut,
     Ready
<1> QED
  BY <1>17 DEF y

\* A failed application, of the state itself or of one that the owner has just listed.
LEMMA ApplyFails ==
    ASSUME NEW x, Inv(x), x.v.op.kind = "none", x.v.terminal = "none", ~x.v.panicked,
           x.v.apply.phase # "none"
    PROVE  Inv(With(x, ApplyFailed(x.v)))
<1>1. Shape(x.v)
  BY DEF Inv, InvBut, Ready
<1>2. /\ Keeps(x.v, x.v, Fields, {"hid", "apply", "gate"})
      /\ Keeps(x.v.hid, x.v.hid, HiddenFields, {"listed"})
      /\ Keeps(x.v.apply, x.v.apply, ApplyFields, {"published"}) /\ Gated(x.v, x.v)
  BY <1>1 DEF Keeps, Shape, Gated
<1>3. FailedTo(x.v, ApplyFailed(x.v))
  BY <1>1, <1>2, FailedKeeps
<1> QED
  BY <1>3, FailsInv

LEMMA CommitFails ==
    ASSUME NEW x, Inv(x), x.v.op.kind = "none", x.v.terminal = "none", ~x.v.panicked,
           x.v.apply.phase = "commit"
    PROVE  Inv(With(x, ApplyFailed(RecordingFailed(
               [x.v EXCEPT !.hid.listed = TRUE, !.apply.published = TRUE]))))
<1> DEFINE v == x.v
           l == [v EXCEPT !.hid.listed = TRUE, !.apply.published = TRUE]
           u == RecordingFailed(l)
<1>1. Shape(v) /\ CanDiscard(v)
  BY DEF Inv, InvBut, Ready, Hidden, CanDiscard, InFlight
<1>2. /\ Keeps(v, l, Fields, {"hid", "apply"}) /\ Shape(l)
      /\ Keeps(v.hid, l.hid, HiddenFields, {"listed"})
      /\ Keeps(v.apply, l.apply, ApplyFields, {"published"}) /\ l.apply.published
  BY <1>1 DEF Shape, Keeps, Fields, HiddenFields, ApplyFields
<1> HIDE DEF l
<1>3. Keeps(l, u, Fields, {"gate"}) /\ Gated(l, u) /\ Shape(u)
  BY <1>2, RecordingFailedKeeps DEF Gated
<1> HIDE DEF u
<1>4. u.hid = l.hid /\ u.apply = l.apply /\ l.gate = v.gate
  BY <1>2, <1>3 DEF Keeps, Fields
<1>5. /\ Keeps(v, u, Fields, {"hid", "apply", "gate"}) /\ Gated(v, u)
      /\ Keeps(v.hid, u.hid, HiddenFields, {"listed"})
      /\ Keeps(v.apply, u.apply, ApplyFields, {"published"}) /\ u.apply.published
  BY <1>2, <1>3, <1>4 DEF Keeps, Fields, Gated
<1> HIDE DEF v
<1>6. FailedTo(v, ApplyFailed(u))
  BY <1>1, <1>3, <1>5, FailedKeeps
<1> QED
  BY <1>6, FailsInv DEF v, u, l

\* The owner's step of the service record alone.
LEMMA OwnerInv ==
    ASSUME Inv(Here), NEW w, Inv(With(Here, w)), svc' = w, ad' = ad
    PROVE  Inv(Lane(svc', ad'))
<1>1. With(Here, w) = Lane(w, ad)
  BY HereLaws, WithLaws
<1> QED
  BY <1>1

LEMMA ApplyPreparesInv ==
    ASSUME Inv(Here), ApplyPrepares
    PROVE  Inv(Lane(svc', ad'))
<1>1. OwnerIdle /\ svc.apply.phase = "prepare"
  BY Zenon DEF ApplyPrepares, ApplyAt
<1>2. CASE Set(With(Here, Phase(svc, "reserve")))
  <2>1. Inv(With(Here, Phase(svc, "reserve")))
    BY <1>1, HereLaws, Prepares DEF OwnerIdle
  <2> QED
    BY <1>2, <2>1, SetInv
<1>3. ASSUME NEW y \in Barrier(Here),
             IF ~OutputsSafe(y.v) THEN Set(y)
             ELSE Set(With(y, [Phase(y.v, "reserve") EXCEPT
                                 !.quiesced = TRUE, !.apply.quiesced = TRUE]))
      PROVE  Inv(Lane(svc', ad'))
  <2>1. Inv(y) /\ SameRest(svc, y.v)
    BY <1>3, HereLaws, BarrierInv
  <2>2. y.v.op.kind = "none" /\ y.v.terminal = "none" /\ ~y.v.panicked
          /\ y.v.apply.phase = "prepare"
    BY <1>1, <2>1 DEF SameRest, OwnerIdle
  <2>3. Inv(With(y, [Phase(y.v, "reserve") EXCEPT !.quiesced = TRUE, !.apply.quiesced = TRUE]))
    BY <2>1, <2>2, PreparesQuiesced, Zenon
  <2> QED
    BY <1>3, <2>1, <2>3, SetInv
<1> QED
  BY <1>2, <1>3, Zenon DEF ApplyPrepares

LEMMA ApplyReservesInv ==
    ASSUME Inv(Here), ApplyReserves
    PROVE  Inv(Lane(svc', ad'))
<1> DEFINE v == IF svc.apply.begun THEN svc
                ELSE [Fenced(svc) EXCEPT !.apply.begun = TRUE, !.apply.reopen = Fences(svc)]
           w == [Phase(Reserved(v), "topology") EXCEPT !.apply.gen = Generation(v)]
           x == With(Here, v)
<1>1. OwnerIdle /\ svc.apply.phase = "reserve" /\ ad' = ad
  BY DEF ApplyReserves, ApplyAt
<1>2. \/ CannotReserve(v) /\ svc' = ApplyFailed(v)
      \/ ~CannotReserve(v) /\ svc' = w
      \/ svc' = v
  BY Zenon DEF ApplyReserves
<1>3. Inv(x)
  <2>1. CASE svc.apply.begun
    BY <2>1, HereLaws DEF With, Lane
  <2>2. CASE ~svc.apply.begun
    <3>1. svc.op.kind = "none" /\ svc.terminal = "none" /\ ~svc.panicked
            /\ svc.apply.phase = "reserve" /\ ~svc.apply.begun
      BY <1>1, <2>2 DEF OwnerIdle
    <3>2. Inv(With(Here, [Fenced(svc) EXCEPT !.apply.begun = TRUE,
                                             !.apply.reopen = Fences(svc)]))
      BY <3>1, HereLaws, FencesApply, Zenon
    <3> QED
      BY <2>2, <3>2
  <2> QED
    BY <2>1, <2>2
<1>4. v.op.kind = "none" /\ v.terminal = "none" /\ ~v.panicked
        /\ v.apply.phase = "reserve" /\ v.apply.begun
  <2>1. Shape(svc)
    BY HereLaws DEF Inv, InvBut, Ready
  <2>2. CASE svc.apply.begun
    BY <1>1, <2>2 DEF OwnerIdle
  <2>3. CASE ~svc.apply.begun
    <3>1. Keeps(svc, Fenced(svc), Fields, {"gate"})
      BY <2>1, FencedKeeps
    <3> DEFINE f == Fenced(svc)
    <3> HIDE DEF f
    <3>2. v = [f EXCEPT !.apply.begun = TRUE, !.apply.reopen = Fences(svc)]
      BY <2>3 DEF f
    <3> HIDE DEF v
    <3> QED
      BY <1>1, <2>1, <3>1, <3>2 DEF OwnerIdle, Keeps, Fields, Shape, ApplyFields, f
  <2> QED
    BY <2>2, <2>3
<1> HIDE DEF v
<1>5. x.v = v /\ x.a = ad /\ \A u : With(x, u) = With(Here, u)
  BY HereLaws, WithLaws
<1> HIDE DEF x
<1>6. CASE CannotReserve(v) /\ svc' = ApplyFailed(v)
  <2>1. Inv(With(x, ApplyFailed(v)))
    BY <1>3, <1>4, <1>5, ApplyFails
  <2> QED
    BY <1>1, <1>5, <1>6, <2>1, OwnerInv
<1>7. CASE ~CannotReserve(v) /\ svc' = w
  <2>1. Inv(With(x, w))
    BY <1>3, <1>4, <1>5, <1>7, ReservesApply
  <2> HIDE DEF w
  <2> QED
    BY <1>1, <1>5, <1>7, <2>1, OwnerInv
<1>8. CASE svc' = v
  BY <1>1, <1>3, <1>8, OwnerInv DEF x
<1> QED
  BY <1>2, <1>6, <1>7, <1>8

LEMMA ApplyRegistersInv ==
    ASSUME Inv(Here), ApplyRegisters
    PROVE  Inv(Lane(svc', ad'))
<1>1. OwnerIdle /\ svc.apply.phase = "topology" /\ ad' = ad
  BY DEF ApplyRegisters, ApplyAt
<1> DEFINE w == [Phase(svc, "safing") EXCEPT !.hid.state = "pending", !.apply.actuator = TRUE]
<1>2. \/ HasOutput(svc.apply.kind) /\ svc' = w
      \/ ~HasOutput(svc.apply.kind) /\ svc' = Phase(svc, "commit")
      \/ svc' = ApplyFailed(svc)
  BY Zenon DEF ApplyRegisters
<1>3. CASE HasOutput(svc.apply.kind) /\ svc' = w
  <2>1. Inv(With(Here, w))
    BY <1>1, <1>3, HereLaws, RegistersOutput, Zenon DEF OwnerIdle
  <2> HIDE DEF w
  <2> QED
    BY <1>1, <1>3, <2>1, OwnerInv
<1>4. CASE ~HasOutput(svc.apply.kind) /\ svc' = Phase(svc, "commit")
  <2>1. Inv(With(Here, Phase(svc, "commit")))
    BY <1>1, <1>4, HereLaws, RegistersSensor DEF OwnerIdle
  <2> QED
    BY <1>1, <1>4, <2>1, OwnerInv
<1>5. CASE svc' = ApplyFailed(svc)
  <2>1. Inv(With(Here, ApplyFailed(svc)))
    BY <1>1, HereLaws, ApplyFails DEF OwnerIdle
  <2> QED
    BY <1>1, <1>5, <2>1, OwnerInv
<1> QED
  BY <1>2, <1>3, <1>4, <1>5

LEMMA ApplyEstablishesSafeInv ==
    ASSUME Inv(Here), ApplyEstablishesSafe
    PROVE  Inv(Lane(svc', ad'))
<1>1. OwnerIdle /\ svc.apply.phase = "safing" /\ ad' = ad
  BY DEF ApplyEstablishesSafe, ApplyAt
<1>2. CASE svc.hid.state = "safe" /\ svc' = Phase(svc, "commit")
  <2>1. Inv(With(Here, Phase(svc, "commit")))
    BY <1>1, <1>2, HereLaws, EstablishesSafe DEF OwnerIdle
  <2> QED
    BY <1>1, <1>2, <2>1, OwnerInv
<1>3. CASE svc' = ApplyFailed(svc)
  <2>1. Inv(With(Here, ApplyFailed(svc)))
    BY <1>1, HereLaws, ApplyFails DEF OwnerIdle
  <2> QED
    BY <1>1, <1>3, <2>1, OwnerInv
<1> QED
  BY <1>2, <1>3 DEF ApplyEstablishesSafe

LEMMA ApplyCommitsInv ==
    ASSUME Inv(Here), ApplyCommits
    PROVE  Inv(Lane(svc', ad'))
<1>1. OwnerIdle /\ svc.apply.phase = "commit" /\ ad' = ad
  BY DEF ApplyCommits, ApplyAt
<1> DEFINE l == [svc EXCEPT !.hid.listed = TRUE, !.apply.published = TRUE]
           w == Phase(Committed(l, svc.apply.gen), "confirm")
<1>2. \/ CanCommit(svc, svc.apply.gen) /\ svc' = w
      \/ svc' = ApplyFailed(RecordingFailed(l))
  BY Zenon DEF ApplyCommits
<1>3. CASE CanCommit(svc, svc.apply.gen) /\ svc' = w
  <2>1. Inv(With(Here, w))
    BY <1>1, <1>3, HereLaws, Lists, Zenon DEF OwnerIdle
  <2> HIDE DEF w
  <2> QED
    BY <1>1, <1>3, <2>1, OwnerInv
<1>4. CASE svc' = ApplyFailed(RecordingFailed(l))
  <2>1. Inv(With(Here, ApplyFailed(RecordingFailed(l))))
    BY <1>1, HereLaws, CommitFails, Zenon DEF OwnerIdle
  <2> HIDE DEF l
  <2> QED
    BY <1>1, <1>4, <2>1, OwnerInv
<1> QED
  BY <1>2, <1>3, <1>4

LEMMA ApplyConfirmsInv ==
    ASSUME Inv(Here), ApplyConfirms
    PROVE  Inv(Lane(svc', ad'))
<1>1. OwnerIdle /\ svc.apply.phase = "confirm" /\ ad' = ad
  BY DEF ApplyConfirms, ApplyAt
<1> DEFINE x == With(Here, RecordingFailed(svc))
<1>2. svc' = ApplyFailed(RecordingFailed(svc)) \/ svc' = Published(svc)
  BY Zenon DEF ApplyConfirms, Published
<1>3. CASE svc' = ApplyFailed(RecordingFailed(svc))
  <2>1. Turned(Here, x)
    BY HereLaws, RecordingFailedTurned DEF Inv, InvBut
  <2>2. x.v = RecordingFailed(svc) /\ \A u : With(x, u) = With(Here, u)
    BY HereLaws, WithLaws
  <2> HIDE DEF x
  <2>3. Inv(x) /\ SameRest(svc, x.v)
    BY <2>1, HereLaws, TurnedInv DEF Turned, Moved
  <2>4. Inv(With(x, ApplyFailed(x.v)))
    BY <1>1, <2>3, ApplyFails DEF OwnerIdle, SameRest
  <2> QED
    BY <1>1, <1>3, <2>2, <2>4, OwnerInv
<1>4. CASE svc' = Published(svc)
  <2>1. Inv(With(Here, Published(svc)))
    BY <1>1, HereLaws, Publishes DEF OwnerIdle
  <2> QED
    BY <1>1, <1>4, <2>1, OwnerInv
<1> QED
  BY <1>2, <1>3, <1>4

LEMMA PollApplyInv ==
    ASSUME Inv(Here), PollApply
    PROVE  Inv(Lane(svc', ad'))
<1>1. CASE ApplyTimesOut
  <2>1. OwnerIdle /\ svc.apply.late /\ svc' = ApplyFailed(svc) /\ ad' = ad
    BY <1>1 DEF ApplyTimesOut
  <2>2. svc.apply.phase # "none"
    BY <2>1, HereLaws DEF Inv, InvBut, Lanes, NoApply
  <2>3. Inv(With(Here, ApplyFailed(svc)))
    BY <2>1, <2>2, HereLaws, ApplyFails DEF OwnerIdle
  <2> QED
    BY <2>1, <2>3, OwnerInv
<1> QED
  BY <1>1, ApplyPreparesInv, ApplyReservesInv, ApplyRegistersInv, ApplyEstablishesSafeInv,
     ApplyCommitsInv, ApplyConfirmsInv DEF PollApply

-----------------------------------------------------------------------------
(* Requests, deadlines and the storage thread, as changes of the record.   *)

\* The candidate is taken out of its slot.
LEMMA BeginsApply ==
    ASSUME NEW x, Inv(x),
           x.v.op.kind = "none" /\ x.v.terminal = "none" /\ ~x.v.panicked
             /\ x.v.apply.phase = "none" /\ x.v.staged \in Simple
    PROVE  Inv(With(x,
               [Consumed(x.v) EXCEPT !.apply = [NoApply EXCEPT !.phase = "prepare", !.kind = x.v.staged]]))
<1>0. Candidate \in Resources
  BY LifecycleAssumption
<1> DEFINE v == x.v
           w == [Consumed(v) EXCEPT !.apply = [NoApply EXCEPT !.phase = "prepare", !.kind = v.staged]]
           y == With(x, w)
<1> HIDE DEF w
<1>1. y = Lane(w, x.a) /\ y.v = w /\ y.a = x.a
  BY DEF Inv, InvBut, Ready, Lane, With
<1> USE DEF w
<1>2. /\ Keeps(v, w, Fields, {"apply", "staged"})
      /\ w.staged = "none"
      /\ DOMAIN w.apply = ApplyFields
      /\ w.apply.phase = "prepare" /\ ~w.apply.reopen /\ ~w.apply.actuator
      /\ ~w.apply.published /\ ~w.apply.quiesced
  BY DEF Inv, InvBut, Ready, Shape, Keeps, Fields, Consumed,
     NoApply, ApplyFields
<1>3. /\ Shape(v) /\ Jobs(v) /\ ExecutorsClose(v, x.a) /\ AdaptersInv(x.a)
      /\ Lanes(v) /\ Fence(v) /\ Owned(v, x.a, NoAdapter) /\ Retired(v) /\ Sealed(v)
      /\ Clean(v) /\ Released(v) /\ Hidden(v) /\ Credits(v) /\ Quiet(v)
  BY DEF Inv, InvBut, Ready
<1>4. v.op.kind = "none" /\ v.terminal = "none" /\ ~v.panicked
             /\ v.apply.phase = "none" /\ v.staged \in Simple
  OBVIOUS
<1> HIDE DEF v, w, y
<1>5. Shape(w)
  BY <1>2, <1>3, <1>4, <1>0 DEF Keeps, Fields, Shape
<1>6. ExecutorsClose(w, x.a) /\ AdaptersInv(x.a)
  BY <1>2, <1>3, <1>4 DEF Keeps, Fields, ExecutorsClose
<1>7. /\ Jobs(w) /\ Owned(w, x.a, NoAdapter) /\ Retired(w) /\ Sealed(w) /\ Clean(w)
      /\ Released(w)
  BY <1>2, <1>3 DEF Keeps, Fields, Jobs, InFlight, Owned, Retired, Sealed, Clean,
     OutputsSafe, Released, OutputsSafe
<1>8. Lanes(w)
  BY <1>2, <1>3, <1>4, <1>0 DEF Keeps, Fields, Lanes, Placed, NoOp, NoOp, NoApply
<1>9. Fence(w)
  BY <1>2, <1>3, <1>4 DEF Keeps, Fields, Fence, Lanes, NoOp
<1>10. Hidden(w)
  BY <1>2, <1>3, <1>4, <1>0 DEF Keeps, Fields, Hidden, NoApply, NoHidden, Simple
<1>11. Credits(w)
  BY <1>2, <1>3, <1>4 DEF Keeps, Fields, Credits, Lanes, NoOp
<1>12. Quiet(w)
  BY <1>2, <1>3, <1>4 DEF Keeps, Fields, Quiet, Lanes, NoOp, NoApply
<1>13. Inv(y)
  BY <1>1, <1>5, <1>6, <1>7, <1>8, <1>9, <1>10, <1>11, <1>12 DEF Inv, InvBut, Ready
<1> QED
  BY <1>13 DEF v, w, y

\* A candidate leaves its slot.
LEMMA Consumes ==
    ASSUME NEW x, Inv(x),
           x.v.op.kind = "none" /\ x.v.terminal = "none" /\ ~x.v.panicked
    PROVE  Inv(With(x, Consumed(x.v)))
<1>0. Candidate \in Resources
  BY LifecycleAssumption
<1> DEFINE v == x.v
           w == Consumed(v)
           y == With(x, w)
<1> HIDE DEF w
<1>1. y = Lane(w, x.a) /\ y.v = w /\ y.a = x.a
  BY DEF Inv, InvBut, Ready, Lane, With
<1> USE DEF w
<1>2. /\ Keeps(v, w, Fields, {"staged"})
      /\ w.staged = "none"
  BY DEF Inv, InvBut, Ready, Shape, Keeps, Fields, Consumed
<1>3. /\ Shape(v) /\ Jobs(v) /\ ExecutorsClose(v, x.a) /\ AdaptersInv(x.a)
      /\ Lanes(v) /\ Fence(v) /\ Owned(v, x.a, NoAdapter) /\ Retired(v) /\ Sealed(v)
      /\ Clean(v) /\ Released(v) /\ Hidden(v) /\ Credits(v) /\ Quiet(v)
  BY DEF Inv, InvBut, Ready
<1>4. v.op.kind = "none" /\ v.terminal = "none" /\ ~v.panicked
  OBVIOUS
<1> HIDE DEF v, w, y
<1>5. Shape(w)
  BY <1>2, <1>3, <1>4, <1>0 DEF Keeps, Fields, Shape
<1>6. ExecutorsClose(w, x.a) /\ AdaptersInv(x.a)
  BY <1>2, <1>3, <1>4 DEF Keeps, Fields, ExecutorsClose
<1>7. /\ Jobs(w) /\ Lanes(w) /\ Fence(w) /\ Owned(w, x.a, NoAdapter) /\ Retired(w)
      /\ Sealed(w) /\ Clean(w) /\ Released(w) /\ Credits(w) /\ Quiet(w)
  BY <1>2, <1>3 DEF Keeps, Fields, Jobs, InFlight, Lanes, Fence, Owned, Retired, Sealed,
     Clean, OutputsSafe, Released, OutputsSafe, Credits, Quiet
<1>8. Hidden(w)
  BY <1>2, <1>3, <1>4, <1>0 DEF Keeps, Fields, Hidden, NoApply, NoHidden, Simple
<1>9. Inv(y)
  BY <1>1, <1>5, <1>6, <1>7, <1>8 DEF Inv, InvBut, Ready
<1> QED
  BY <1>9 DEF v, w, y

\* A file candidate is staged.
LEMMA StagesFile ==
    ASSUME NEW x, Inv(x),
           NEW kind,
           x.v.op.kind = "none" /\ x.v.terminal = "none" /\ ~x.v.panicked
             /\ kind \in {"live", "barrier", "rebind"} /\ x.v.apply.phase = "none"
    PROVE  Inv(With(x, SlotTakes(x.v, kind)))
<1>0. Candidate \in Resources
  BY LifecycleAssumption
<1> DEFINE v == x.v
           w == SlotTakes(v, kind)
           y == With(x, w)
<1> HIDE DEF w
<1>1. y = Lane(w, x.a) /\ y.v = w /\ y.a = x.a
  BY DEF Inv, InvBut, Ready, Lane, With
<1> USE DEF w
<1>2. /\ Keeps(v, w, Fields, {"staged"})
      /\ w.staged = kind
  BY DEF Inv, InvBut, Ready, Shape, Keeps, Fields, SlotTakes
<1>3. /\ Shape(v) /\ Jobs(v) /\ ExecutorsClose(v, x.a) /\ AdaptersInv(x.a)
      /\ Lanes(v) /\ Fence(v) /\ Owned(v, x.a, NoAdapter) /\ Retired(v) /\ Sealed(v)
      /\ Clean(v) /\ Released(v) /\ Hidden(v) /\ Credits(v) /\ Quiet(v)
  BY DEF Inv, InvBut, Ready
<1>4. v.op.kind = "none" /\ v.terminal = "none" /\ ~v.panicked
             /\ kind \in {"live", "barrier", "rebind"} /\ v.apply.phase = "none"
  OBVIOUS
<1> HIDE DEF v, w, y
<1>5. Shape(w)
  BY <1>2, <1>3, <1>4, <1>0 DEF Keeps, Fields, Shape
<1>6. ExecutorsClose(w, x.a) /\ AdaptersInv(x.a)
  BY <1>2, <1>3, <1>4 DEF Keeps, Fields, ExecutorsClose
<1>7. /\ Jobs(w) /\ Lanes(w) /\ Fence(w) /\ Owned(w, x.a, NoAdapter) /\ Retired(w)
      /\ Sealed(w) /\ Clean(w) /\ Released(w) /\ Credits(w) /\ Quiet(w)
  BY <1>2, <1>3 DEF Keeps, Fields, Jobs, InFlight, Lanes, Fence, Owned, Retired, Sealed,
     Clean, OutputsSafe, Released, OutputsSafe, Credits, Quiet
<1>8. Hidden(w)
  BY <1>2, <1>3, <1>4, <1>0 DEF Keeps, Fields, Hidden, NoApply, NoHidden, Simple
<1>9. Inv(y)
  BY <1>1, <1>5, <1>6, <1>7, <1>8 DEF Inv, InvBut, Ready
<1> QED
  BY <1>9 DEF v, w, y

\* So is one of a simple device.
LEMMA StagesSimple ==
    ASSUME NEW x, Inv(x),
           NEW kind,
           x.v.op.kind = "none" /\ x.v.terminal = "none" /\ ~x.v.panicked
             /\ kind \in Simple /\ x.v.apply.phase = "none" /\ ~x.v.quar /\ ~x.v.overlay
    PROVE  Inv(With(x, SlotTakes(x.v, kind)))
<1>0. Candidate \in Resources
  BY LifecycleAssumption
<1> DEFINE v == x.v
           w == SlotTakes(v, kind)
           y == With(x, w)
<1> HIDE DEF w
<1>1. y = Lane(w, x.a) /\ y.v = w /\ y.a = x.a
  BY DEF Inv, InvBut, Ready, Lane, With
<1> USE DEF w
<1>2. /\ Keeps(v, w, Fields, {"staged"})
      /\ w.staged = kind
  BY DEF Inv, InvBut, Ready, Shape, Keeps, Fields, SlotTakes
<1>3. /\ Shape(v) /\ Jobs(v) /\ ExecutorsClose(v, x.a) /\ AdaptersInv(x.a)
      /\ Lanes(v) /\ Fence(v) /\ Owned(v, x.a, NoAdapter) /\ Retired(v) /\ Sealed(v)
      /\ Clean(v) /\ Released(v) /\ Hidden(v) /\ Credits(v) /\ Quiet(v)
  BY DEF Inv, InvBut, Ready
<1>4. v.op.kind = "none" /\ v.terminal = "none" /\ ~v.panicked
             /\ kind \in Simple /\ v.apply.phase = "none" /\ ~v.quar /\ ~v.overlay
  OBVIOUS
<1> HIDE DEF v, w, y
<1>5. Shape(w)
  BY <1>2, <1>3, <1>4, <1>0 DEF Keeps, Fields, Shape
<1>6. ExecutorsClose(w, x.a) /\ AdaptersInv(x.a)
  BY <1>2, <1>3, <1>4 DEF Keeps, Fields, ExecutorsClose
<1>7. /\ Jobs(w) /\ Lanes(w) /\ Fence(w) /\ Owned(w, x.a, NoAdapter) /\ Retired(w)
      /\ Sealed(w) /\ Clean(w) /\ Released(w) /\ Credits(w) /\ Quiet(w)
  BY <1>2, <1>3 DEF Keeps, Fields, Jobs, InFlight, Lanes, Fence, Owned, Retired, Sealed,
     Clean, OutputsSafe, Released, OutputsSafe, Credits, Quiet
<1>8. Hidden(w)
  BY <1>2, <1>3, <1>4, <1>0 DEF Keeps, Fields, Hidden, NoApply, NoHidden, Simple
<1>9. Inv(y)
  BY <1>1, <1>5, <1>6, <1>7, <1>8 DEF Inv, InvBut, Ready
<1> QED
  BY <1>9 DEF v, w, y

\* A failed turn is remembered.
LEMMA FailsFatally ==
    ASSUME NEW x, Inv(x)
    PROVE  Inv(With(x, [x.v EXCEPT !.fatal = TRUE]))
<1>0. Candidate \in Resources
  BY LifecycleAssumption
<1> DEFINE v == x.v
           w == [v EXCEPT !.fatal = TRUE]
           y == With(x, w)
<1> HIDE DEF w
<1>1. y = Lane(w, x.a) /\ y.v = w /\ y.a = x.a
  BY DEF Inv, InvBut, Ready, Lane, With
<1> USE DEF w
<1>2. Keeps(v, w, Fields, {"fatal"})
  BY DEF Inv, InvBut, Ready, Shape, Keeps, Fields
<1>3. /\ Shape(v) /\ Jobs(v) /\ ExecutorsClose(v, x.a) /\ AdaptersInv(x.a)
      /\ Lanes(v) /\ Fence(v) /\ Owned(v, x.a, NoAdapter) /\ Retired(v) /\ Sealed(v)
      /\ Clean(v) /\ Released(v) /\ Hidden(v) /\ Credits(v) /\ Quiet(v)
  BY DEF Inv, InvBut, Ready
<1> HIDE DEF v, w, y
<1>4. Shape(w)
  BY <1>2, <1>3, <1>0 DEF Keeps, Fields, Shape
<1>5. ExecutorsClose(w, x.a) /\ AdaptersInv(x.a)
  BY <1>2, <1>3 DEF Keeps, Fields, ExecutorsClose
<1>6. /\ Jobs(w) /\ Lanes(w) /\ Fence(w) /\ Owned(w, x.a, NoAdapter) /\ Retired(w)
      /\ Sealed(w) /\ Clean(w) /\ Released(w) /\ Hidden(w) /\ Credits(w) /\ Quiet(w)
  BY <1>2, <1>3 DEF Keeps, Fields, Jobs, InFlight, Lanes, Fence, Owned, Retired, Sealed,
     Clean, OutputsSafe, Released, OutputsSafe, Hidden, Credits, Quiet
<1>7. Inv(y)
  BY <1>1, <1>4, <1>5, <1>6 DEF Inv, InvBut, Ready
<1> QED
  BY <1>7 DEF v, w, y

\* A retained adapter that stopped is let go.
LEMMA LetsGo ==
    ASSUME NEW x, Inv(x),
           x.v.held # NoAdapter
    PROVE  InvBut(With(x, [x.v EXCEPT !.held = NoAdapter]), x.v.held)
<1>0. Candidate \in Resources
  BY LifecycleAssumption
<1> DEFINE v == x.v
           w == [v EXCEPT !.held = NoAdapter]
           y == With(x, w)
<1> HIDE DEF w
<1>1. y = Lane(w, x.a) /\ y.v = w /\ y.a = x.a
  BY DEF Inv, InvBut, Ready, Lane, With
<1> USE DEF w
<1>2. /\ Keeps(v, w, Fields, {"held"})
      /\ w.held = NoAdapter
  BY DEF Inv, InvBut, Ready, Shape, Keeps, Fields
<1>3. /\ Shape(v) /\ Jobs(v) /\ ExecutorsClose(v, x.a) /\ AdaptersInv(x.a)
      /\ Lanes(v) /\ Fence(v) /\ Owned(v, x.a, NoAdapter) /\ Retired(v) /\ Sealed(v)
      /\ Clean(v) /\ Released(v) /\ Hidden(v) /\ Credits(v) /\ Quiet(v)
  BY DEF Inv, InvBut, Ready
<1>4. v.held # NoAdapter
  OBVIOUS
<1> HIDE DEF v, w, y
<1>5. Shape(w)
  BY <1>2, <1>3, <1>4, <1>0 DEF Keeps, Fields, Shape
<1>6. ExecutorsClose(w, x.a) /\ AdaptersInv(x.a)
  BY <1>2, <1>3, <1>4 DEF Keeps, Fields, ExecutorsClose
<1>7. /\ Jobs(w) /\ Lanes(w) /\ Fence(w) /\ Retired(w) /\ Sealed(w) /\ Released(w)
      /\ Hidden(w) /\ Credits(w) /\ Quiet(w)
  BY <1>2, <1>3 DEF Keeps, Fields, Jobs, InFlight, Lanes, Fence, Retired, Sealed, Released,
     OutputsSafe, Hidden, Credits, Quiet
<1>8. Owned(w, x.a, v.held)
  BY <1>2, <1>3, <1>4 DEF Keeps, Fields, Owned, HasCandidate, HasCandidate
<1>9. Clean(w)
  BY <1>2, <1>3, <1>4 DEF Keeps, Fields, Clean, OutputsSafe
<1>10. InvBut(y, v.held)
  BY <1>1, <1>5, <1>6, <1>7, <1>8, <1>9 DEF Inv, InvBut, Ready
<1> QED
  BY <1>10 DEF v, w, y

\* The verdict of a shutdown that is clean rests on what it says.
LEMMA Judges ==
    ASSUME NEW x, Inv(x),
           x.v.op.kind = "none" /\ x.v.terminal = "none" /\ ~x.v.panicked
    PROVE  /\ Inv(With(x, Verdict(x.v)))
           /\ Keeps(x.v, Verdict(x.v), Fields, {"flushing", "rec", "terminal"})
<1>0. Candidate \in Resources
  BY LifecycleAssumption
<1> DEFINE v == x.v
           w == Verdict(v)
           y == With(x, w)
<1> HIDE DEF w
<1>1. y = Lane(w, x.a) /\ y.v = w /\ y.a = x.a
  BY DEF Inv, InvBut, Ready, Lane, With
<1> USE DEF w
<1>2. /\ Keeps(v, w, Fields, {"flushing", "rec", "terminal"})
      /\ Keeps(v.rec, w.rec, RecorderFields, {"state"})
      /\ w.rec.state = v.rec.state \/ (v.rec.state = "up" /\ w.rec.state = "closing")
      /\ w.terminal = "clean" =>
            /\ OutputsSafe(v) /\ v.closed = Resources /\ v.held = NoAdapter
            /\ v.rec.state \in {"absent", "closed"}
  <2>1. Shape(v)
    BY DEF Inv, InvBut, Ready
  <2> DEFINE safe == PublishedSafe(v)
             flushed == v.rec.state \in {"absent", "closed"}
             retired == v.closed = Resources /\ v.held = NoAdapter
             clean == safe /\ flushed /\ retired /\ ~v.fatal
             terminal == IF (flushed /\ (retired \/ ~safe)) \/ v.flushLate
                         THEN IF clean THEN "clean" ELSE "incomplete" ELSE v.terminal
             state == IF v.rec.state = "up" THEN "closing" ELSE v.rec.state
  <2>2. \/ w = v
        \/ w = [v EXCEPT !.flushing = TRUE, !.rec.state = state, !.terminal = terminal]
    <3> HIDE DEF v
    <3> QED
      BY DEF Verdict
  <2>3. /\ terminal = "clean" => clean \/ v.terminal = "clean"
        /\ state = v.rec.state \/ (v.rec.state = "up" /\ state = "closing")
    OBVIOUS
  <2>4. v.terminal # "clean" /\ (safe => OutputsSafe(v))
    BY DEF PublishedSafe
  <2>5. clean => /\ OutputsSafe(v) /\ v.closed = Resources /\ v.held = NoAdapter
                 /\ v.rec.state \in {"absent", "closed"}
    BY <2>4
  <2> HIDE DEF safe, flushed, retired, clean, terminal, state, w
  <2>6. CASE w = v
    BY <2>1, <2>4, <2>6 DEF Keeps, Shape
  <2>7. CASE w = [v EXCEPT !.flushing = TRUE, !.rec.state = state, !.terminal = terminal]
    <3>1. /\ Keeps(v, w, Fields, {"flushing", "rec", "terminal"})
          /\ Keeps(v.rec, w.rec, RecorderFields, {"state"})
          /\ w.rec.state = state /\ w.terminal = terminal
      BY <2>1, <2>7 DEF Keeps, Fields, RecorderFields, Shape
    <3> QED
      BY <2>3, <2>4, <2>5, <3>1
  <2> QED
    BY <2>2, <2>6, <2>7
<1>3. /\ Shape(v) /\ Jobs(v) /\ ExecutorsClose(v, x.a) /\ AdaptersInv(x.a)
      /\ Lanes(v) /\ Fence(v) /\ Owned(v, x.a, NoAdapter) /\ Retired(v) /\ Sealed(v)
      /\ Clean(v) /\ Released(v) /\ Hidden(v) /\ Credits(v) /\ Quiet(v)
  BY DEF Inv, InvBut, Ready
<1>4. v.op.kind = "none" /\ v.terminal = "none" /\ ~v.panicked
  OBVIOUS
<1> HIDE DEF v, w, y
<1>5. Shape(w)
  BY <1>2, <1>3, <1>4, <1>0 DEF Keeps, Fields, RecorderFields, Shape
<1>6. ExecutorsClose(w, x.a) /\ AdaptersInv(x.a)
  BY <1>2, <1>3, <1>4 DEF Keeps, Fields, ExecutorsClose
<1>7. /\ Jobs(w) /\ Lanes(w) /\ Fence(w) /\ Owned(w, x.a, NoAdapter) /\ Retired(w)
      /\ Released(w) /\ Hidden(w) /\ Quiet(w)
  BY <1>2, <1>3 DEF Keeps, Fields, Jobs, InFlight, Lanes, Fence, Owned, Retired, Released,
     OutputsSafe, Hidden, Quiet
<1>8. Sealed(w)
  BY <1>2, <1>3, <1>4 DEF Keeps, Fields, RecorderFields, Sealed
<1>9. Clean(w)
  BY <1>2, <1>3, <1>4 DEF Keeps, Fields, RecorderFields, Clean, OutputsSafe
<1>10. Credits(w)
  BY <1>2, <1>3, <1>4 DEF Keeps, Fields, RecorderFields, Credits, Lanes, NoOp
<1>11. Inv(y)
  BY <1>1, <1>5, <1>6, <1>7, <1>8, <1>9, <1>10 DEF Inv, InvBut, Ready
<1> QED
  BY <1>2, <1>11 DEF v, w, y

\* A manual write takes the lease of a safe output.
LEMMA Arms ==
    ASSUME NEW x, Inv(x),
           NEW r,
           r \in Resources /\ x.v.out[r] = "safe" /\ x.v.op.kind = "none" /\ x.v.terminal = "none"
    PROVE  Inv(With(x, [x.v EXCEPT !.out[r] = "armed"]))
<1>0. Candidate \in Resources
  BY LifecycleAssumption
<1> DEFINE v == x.v
           w == [v EXCEPT !.out[r] = "armed"]
           y == With(x, w)
<1> HIDE DEF w
<1>1. y = Lane(w, x.a) /\ y.v = w /\ y.a = x.a
  BY DEF Inv, InvBut, Ready, Lane, With
<1> USE DEF w
<1>2. /\ Keeps(v, w, Fields, {"out"})
      /\ w.out = [v.out EXCEPT ![r] = "armed"]
  BY DEF Inv, InvBut, Ready, Shape, Keeps, Fields
<1>3. /\ Shape(v) /\ Jobs(v) /\ ExecutorsClose(v, x.a) /\ AdaptersInv(x.a)
      /\ Lanes(v) /\ Fence(v) /\ Owned(v, x.a, NoAdapter) /\ Retired(v) /\ Sealed(v)
      /\ Clean(v) /\ Released(v) /\ Hidden(v) /\ Credits(v) /\ Quiet(v)
  BY DEF Inv, InvBut, Ready
<1>4. r \in Resources /\ v.out[r] = "safe" /\ v.op.kind = "none" /\ v.terminal = "none"
  OBVIOUS
<1> HIDE DEF v, w, y
<1>5. Shape(w)
  BY <1>2, <1>3, <1>4, <1>0 DEF Keeps, Fields, Shape
<1>6. ExecutorsClose(w, x.a) /\ AdaptersInv(x.a)
  BY <1>2, <1>3, <1>4 DEF Keeps, Fields, ExecutorsClose
<1>7. /\ Lanes(w) /\ Fence(w) /\ Owned(w, x.a, NoAdapter) /\ Retired(w) /\ Sealed(w)
      /\ Credits(w) /\ Quiet(w)
  BY <1>2, <1>3 DEF Keeps, Fields, Lanes, Fence, Owned, Retired, Sealed, Credits, Quiet
<1>8. Jobs(w)
  BY <1>2, <1>3, <1>4 DEF Keeps, Fields, Jobs, InFlight
<1>9. Clean(w)
  BY <1>2, <1>3, <1>4 DEF Keeps, Fields, Clean, OutputsSafe
<1>10. Released(w)
  BY <1>2, <1>3, <1>4 DEF Keeps, Fields, Released, OutputsSafe
<1>11. Hidden(w)
  BY <1>2, <1>3, <1>4, <1>0 DEF Keeps, Fields, Hidden, NoApply, NoHidden, Shape
<1>12. Inv(y)
  BY <1>1, <1>5, <1>6, <1>7, <1>8, <1>9, <1>10, <1>11 DEF Inv, InvBut, Ready
<1> QED
  BY <1>12 DEF v, w, y

\* Its end asks for the safe state.
LEMMA Leases ==
    ASSUME NEW x, Inv(x),
           NEW r,
           r \in Resources /\ x.v.out[r] = "armed"
    PROVE  Inv(With(x, [x.v EXCEPT !.out[r] = "pending"]))
<1>0. Candidate \in Resources
  BY LifecycleAssumption
<1> DEFINE v == x.v
           w == [v EXCEPT !.out[r] = "pending"]
           y == With(x, w)
<1> HIDE DEF w
<1>1. y = Lane(w, x.a) /\ y.v = w /\ y.a = x.a
  BY DEF Inv, InvBut, Ready, Lane, With
<1> USE DEF w
<1>2. /\ Keeps(v, w, Fields, {"out"})
      /\ w.out = [v.out EXCEPT ![r] = "pending"]
  BY DEF Inv, InvBut, Ready, Shape, Keeps, Fields
<1>3. /\ Shape(v) /\ Jobs(v) /\ ExecutorsClose(v, x.a) /\ AdaptersInv(x.a)
      /\ Lanes(v) /\ Fence(v) /\ Owned(v, x.a, NoAdapter) /\ Retired(v) /\ Sealed(v)
      /\ Clean(v) /\ Released(v) /\ Hidden(v) /\ Credits(v) /\ Quiet(v)
  BY DEF Inv, InvBut, Ready
<1>4. r \in Resources /\ v.out[r] = "armed"
  OBVIOUS
<1> HIDE DEF v, w, y
<1>5. Shape(w)
  BY <1>2, <1>3, <1>4, <1>0 DEF Keeps, Fields, Shape
<1>6. ExecutorsClose(w, x.a) /\ AdaptersInv(x.a)
  BY <1>2, <1>3, <1>4 DEF Keeps, Fields, ExecutorsClose
<1>7. /\ Lanes(w) /\ Fence(w) /\ Owned(w, x.a, NoAdapter) /\ Retired(w) /\ Sealed(w)
      /\ Credits(w) /\ Quiet(w)
  BY <1>2, <1>3 DEF Keeps, Fields, Lanes, Fence, Owned, Retired, Sealed, Credits, Quiet
<1>8. Jobs(w)
  BY <1>2, <1>3, <1>4 DEF Keeps, Fields, Jobs, InFlight
<1>9. Clean(w)
  BY <1>2, <1>3, <1>4 DEF Keeps, Fields, Clean, OutputsSafe
<1>10. Released(w)
  BY <1>2, <1>3, <1>4 DEF Keeps, Fields, Released, OutputsSafe
<1>11. Hidden(w)
  BY <1>2, <1>3, <1>4, <1>0 DEF Keeps, Fields, Hidden, NoApply, NoHidden, Shape
<1>12. Inv(y)
  BY <1>1, <1>5, <1>6, <1>7, <1>8, <1>9, <1>10, <1>11 DEF Inv, InvBut, Ready
<1> QED
  BY <1>12 DEF v, w, y

\* A deadline of an operation passes.
LEMMA OperationIsLate ==
    ASSUME NEW x, Inv(x),
           x.v.op.pc \in Waits
    PROVE  Inv(With(x, [x.v EXCEPT !.op.late = TRUE]))
<1>0. Candidate \in Resources
  BY LifecycleAssumption
<1> DEFINE v == x.v
           w == [v EXCEPT !.op.late = TRUE]
           y == With(x, w)
<1> HIDE DEF w
<1>1. y = Lane(w, x.a) /\ y.v = w /\ y.a = x.a
  BY DEF Inv, InvBut, Ready, Lane, With
<1> USE DEF w
<1>2. /\ Keeps(v, w, Fields, {"op"})
      /\ Keeps(v.op, w.op, OpFields, {"late"})
      /\ w.op.late = TRUE
  BY DEF Inv, InvBut, Ready, Shape, Keeps, Fields, OpFields
<1>3. /\ Shape(v) /\ Jobs(v) /\ ExecutorsClose(v, x.a) /\ AdaptersInv(x.a)
      /\ Lanes(v) /\ Fence(v) /\ Owned(v, x.a, NoAdapter) /\ Retired(v) /\ Sealed(v)
      /\ Clean(v) /\ Released(v) /\ Hidden(v) /\ Credits(v) /\ Quiet(v)
  BY DEF Inv, InvBut, Ready
<1>4. v.op.pc \in Waits
  OBVIOUS
<1> HIDE DEF v, w, y
<1>5. Shape(w)
  BY <1>2, <1>3, <1>4, <1>0 DEF Keeps, Fields, OpFields, Shape
<1>6. ExecutorsClose(w, x.a) /\ AdaptersInv(x.a)
  BY <1>2, <1>3, <1>4 DEF Keeps, Fields, ExecutorsClose
<1>7. /\ Jobs(w) /\ Sealed(w) /\ Hidden(w)
  BY <1>2, <1>3 DEF Keeps, Fields, Jobs, InFlight, Sealed, Hidden
<1>8. Lanes(w)
  BY <1>2, <1>3, <1>4, <1>0 DEF Keeps, Fields, OpFields, Lanes, Placed, NoOp, NoOp,
     NoApply, Waits
<1>9. Fence(w)
  BY <1>2, <1>3, <1>4 DEF Keeps, Fields, OpFields, Fence, Lanes, NoOp
<1>10. Owned(w, x.a, NoAdapter)
  BY <1>2, <1>3, <1>4 DEF Keeps, Fields, OpFields, Owned, HasCandidate, HasCandidate
<1>11. Retired(w)
  BY <1>2, <1>3, <1>4 DEF Keeps, Fields, OpFields, Retired
<1>12. Clean(w)
  BY <1>2, <1>3, <1>4 DEF Keeps, Fields, OpFields, Clean, OutputsSafe
<1>13. Released(w)
  BY <1>2, <1>3, <1>4 DEF Keeps, Fields, OpFields, Released, OutputsSafe
<1>14. Credits(w)
  BY <1>2, <1>3, <1>4 DEF Keeps, Fields, OpFields, Credits, Lanes, NoOp
<1>15. Quiet(w)
  BY <1>2, <1>3, <1>4 DEF Keeps, Fields, OpFields, Quiet, Lanes, NoOp
<1>16. Inv(y)
  BY <1>1, <1>5, <1>6, <1>7, <1>8, <1>9, <1>10, <1>11, <1>12, <1>13, <1>14, <1>15 DEF Inv,
     InvBut, Ready
<1> QED
  BY <1>16 DEF v, w, y

\* The deadline of the application passes.
LEMMA ApplicationIsLate ==
    ASSUME NEW x, Inv(x),
           x.v.apply.phase # "none"
    PROVE  Inv(With(x, [x.v EXCEPT !.apply.late = TRUE]))
<1>0. Candidate \in Resources
  BY LifecycleAssumption
<1> DEFINE v == x.v
           w == [v EXCEPT !.apply.late = TRUE]
           y == With(x, w)
<1> HIDE DEF w
<1>1. y = Lane(w, x.a) /\ y.v = w /\ y.a = x.a
  BY DEF Inv, InvBut, Ready, Lane, With
<1> USE DEF w
<1>2. /\ Keeps(v, w, Fields, {"apply"})
      /\ Keeps(v.apply, w.apply, ApplyFields, {"late"})
      /\ w.apply.late = TRUE
  BY DEF Inv, InvBut, Ready, Shape, Keeps, Fields, ApplyFields
<1>3. /\ Shape(v) /\ Jobs(v) /\ ExecutorsClose(v, x.a) /\ AdaptersInv(x.a)
      /\ Lanes(v) /\ Fence(v) /\ Owned(v, x.a, NoAdapter) /\ Retired(v) /\ Sealed(v)
      /\ Clean(v) /\ Released(v) /\ Hidden(v) /\ Credits(v) /\ Quiet(v)
  BY DEF Inv, InvBut, Ready
<1>4. v.apply.phase # "none"
  OBVIOUS
<1> HIDE DEF v, w, y
<1>5. Shape(w)
  BY <1>2, <1>3, <1>4, <1>0 DEF Keeps, Fields, ApplyFields, Shape
<1>6. ExecutorsClose(w, x.a) /\ AdaptersInv(x.a)
  BY <1>2, <1>3, <1>4 DEF Keeps, Fields, ExecutorsClose
<1>7. /\ Jobs(w) /\ Owned(w, x.a, NoAdapter) /\ Retired(w) /\ Sealed(w) /\ Clean(w)
      /\ Released(w)
  BY <1>2, <1>3 DEF Keeps, Fields, Jobs, InFlight, Owned, Retired, Sealed, Clean,
     OutputsSafe, Released, OutputsSafe
<1>8. Lanes(w)
  BY <1>2, <1>3, <1>4, <1>0 DEF Keeps, Fields, ApplyFields, Lanes, Placed, NoOp, NoOp,
     NoApply
<1>9. Fence(w)
  BY <1>2, <1>3, <1>4 DEF Keeps, Fields, ApplyFields, Fence, Lanes, NoOp
<1>10. Hidden(w)
  BY <1>2, <1>3, <1>4, <1>0 DEF Keeps, Fields, ApplyFields, Hidden, NoApply, NoHidden
<1>11. Credits(w)
  BY <1>2, <1>3, <1>4 DEF Keeps, Fields, ApplyFields, Credits, Lanes, NoOp
<1>12. Quiet(w)
  BY <1>2, <1>3, <1>4 DEF Keeps, Fields, ApplyFields, Quiet, Lanes, NoOp
<1>13. Inv(y)
  BY <1>1, <1>5, <1>6, <1>7, <1>8, <1>9, <1>10, <1>11, <1>12 DEF Inv, InvBut, Ready
<1> QED
  BY <1>13 DEF v, w, y

\* The deadline of the safety phase passes.
LEMMA SafetyIsLate ==
    ASSUME NEW x, Inv(x)
    PROVE  Inv(With(x, [x.v EXCEPT !.safeLate = TRUE]))
<1>0. Candidate \in Resources
  BY LifecycleAssumption
<1> DEFINE v == x.v
           w == [v EXCEPT !.safeLate = TRUE]
           y == With(x, w)
<1> HIDE DEF w
<1>1. y = Lane(w, x.a) /\ y.v = w /\ y.a = x.a
  BY DEF Inv, InvBut, Ready, Lane, With
<1> USE DEF w
<1>2. Keeps(v, w, Fields, {"safeLate"})
  BY DEF Inv, InvBut, Ready, Shape, Keeps, Fields
<1>3. /\ Shape(v) /\ Jobs(v) /\ ExecutorsClose(v, x.a) /\ AdaptersInv(x.a)
      /\ Lanes(v) /\ Fence(v) /\ Owned(v, x.a, NoAdapter) /\ Retired(v) /\ Sealed(v)
      /\ Clean(v) /\ Released(v) /\ Hidden(v) /\ Credits(v) /\ Quiet(v)
  BY DEF Inv, InvBut, Ready
<1> HIDE DEF v, w, y
<1>4. Shape(w)
  BY <1>2, <1>3, <1>0 DEF Keeps, Fields, Shape
<1>5. ExecutorsClose(w, x.a) /\ AdaptersInv(x.a)
  BY <1>2, <1>3 DEF Keeps, Fields, ExecutorsClose
<1>6. /\ Jobs(w) /\ Lanes(w) /\ Fence(w) /\ Owned(w, x.a, NoAdapter) /\ Retired(w)
      /\ Sealed(w) /\ Clean(w) /\ Released(w) /\ Hidden(w) /\ Credits(w) /\ Quiet(w)
  BY <1>2, <1>3 DEF Keeps, Fields, Jobs, InFlight, Lanes, Fence, Owned, Retired, Sealed,
     Clean, OutputsSafe, Released, OutputsSafe, Hidden, Credits, Quiet
<1>7. Inv(y)
  BY <1>1, <1>4, <1>5, <1>6 DEF Inv, InvBut, Ready
<1> QED
  BY <1>7 DEF v, w, y

\* The deadline of the flush passes.
LEMMA FlushIsLate ==
    ASSUME NEW x, Inv(x)
    PROVE  Inv(With(x, [x.v EXCEPT !.flushLate = TRUE]))
<1>0. Candidate \in Resources
  BY LifecycleAssumption
<1> DEFINE v == x.v
           w == [v EXCEPT !.flushLate = TRUE]
           y == With(x, w)
<1> HIDE DEF w
<1>1. y = Lane(w, x.a) /\ y.v = w /\ y.a = x.a
  BY DEF Inv, InvBut, Ready, Lane, With
<1> USE DEF w
<1>2. Keeps(v, w, Fields, {"flushLate"})
  BY DEF Inv, InvBut, Ready, Shape, Keeps, Fields
<1>3. /\ Shape(v) /\ Jobs(v) /\ ExecutorsClose(v, x.a) /\ AdaptersInv(x.a)
      /\ Lanes(v) /\ Fence(v) /\ Owned(v, x.a, NoAdapter) /\ Retired(v) /\ Sealed(v)
      /\ Clean(v) /\ Released(v) /\ Hidden(v) /\ Credits(v) /\ Quiet(v)
  BY DEF Inv, InvBut, Ready
<1> HIDE DEF v, w, y
<1>4. Shape(w)
  BY <1>2, <1>3, <1>0 DEF Keeps, Fields, Shape
<1>5. ExecutorsClose(w, x.a) /\ AdaptersInv(x.a)
  BY <1>2, <1>3 DEF Keeps, Fields, ExecutorsClose
<1>6. /\ Jobs(w) /\ Lanes(w) /\ Fence(w) /\ Owned(w, x.a, NoAdapter) /\ Retired(w)
      /\ Sealed(w) /\ Clean(w) /\ Released(w) /\ Hidden(w) /\ Credits(w) /\ Quiet(w)
  BY <1>2, <1>3 DEF Keeps, Fields, Jobs, InFlight, Lanes, Fence, Owned, Retired, Sealed,
     Clean, OutputsSafe, Released, OutputsSafe, Hidden, Credits, Quiet
<1>7. Inv(y)
  BY <1>1, <1>4, <1>5, <1>6 DEF Inv, InvBut, Ready
<1> QED
  BY <1>7 DEF v, w, y

\* The storage thread writes a lifecycle record.
LEMMA RecordCommits ==
    ASSUME NEW x, Inv(x),
           x.v.rec.pending # 0
    PROVE  Inv(With(x, [x.v EXCEPT !.rec.committed = x.v.rec.pending, !.rec.pending = 0]))
<1>0. Candidate \in Resources
  BY LifecycleAssumption
<1> DEFINE v == x.v
           w == [v EXCEPT !.rec.committed = v.rec.pending, !.rec.pending = 0]
           y == With(x, w)
<1> HIDE DEF w
<1>1. y = Lane(w, x.a) /\ y.v = w /\ y.a = x.a
  BY DEF Inv, InvBut, Ready, Lane, With
<1> USE DEF w
<1>2. /\ Keeps(v, w, Fields, {"rec"})
      /\ Keeps(v.rec, w.rec, RecorderFields, {"committed", "pending"})
      /\ w.rec.pending = 0
  BY DEF Inv, InvBut, Ready, Shape, Keeps, Fields, RecorderFields
<1>3. /\ Shape(v) /\ Jobs(v) /\ ExecutorsClose(v, x.a) /\ AdaptersInv(x.a)
      /\ Lanes(v) /\ Fence(v) /\ Owned(v, x.a, NoAdapter) /\ Retired(v) /\ Sealed(v)
      /\ Clean(v) /\ Released(v) /\ Hidden(v) /\ Credits(v) /\ Quiet(v)
  BY DEF Inv, InvBut, Ready
<1>4. v.rec.pending # 0
  OBVIOUS
<1> HIDE DEF v, w, y
<1>5. Shape(w)
  BY <1>2, <1>3, <1>4, <1>0 DEF Keeps, Fields, RecorderFields, Shape
<1>6. ExecutorsClose(w, x.a) /\ AdaptersInv(x.a)
  BY <1>2, <1>3, <1>4 DEF Keeps, Fields, ExecutorsClose
<1>7. /\ Jobs(w) /\ Lanes(w) /\ Fence(w) /\ Owned(w, x.a, NoAdapter) /\ Retired(w)
      /\ Released(w) /\ Hidden(w) /\ Quiet(w)
  BY <1>2, <1>3 DEF Keeps, Fields, Jobs, InFlight, Lanes, Fence, Owned, Retired, Released,
     OutputsSafe, Hidden, Quiet
<1>8. Sealed(w)
  BY <1>2, <1>3, <1>4 DEF Keeps, Fields, RecorderFields, Sealed
<1>9. Clean(w)
  BY <1>2, <1>3, <1>4 DEF Keeps, Fields, RecorderFields, Clean, OutputsSafe
<1>10. Credits(w)
  BY <1>2, <1>3, <1>4 DEF Keeps, Fields, RecorderFields, Credits, Lanes, NoOp
<1>11. Inv(y)
  BY <1>1, <1>5, <1>6, <1>7, <1>8, <1>9, <1>10 DEF Inv, InvBut, Ready
<1> QED
  BY <1>11 DEF v, w, y

\* It seals the file when nothing is pending.
LEMMA RecordCloses ==
    ASSUME NEW x, Inv(x),
           x.v.rec.state = "closing" /\ x.v.rec.pending = 0
    PROVE  Inv(With(x, [x.v EXCEPT !.rec.state = "closed"]))
<1>0. Candidate \in Resources
  BY LifecycleAssumption
<1> DEFINE v == x.v
           w == [v EXCEPT !.rec.state = "closed"]
           y == With(x, w)
<1> HIDE DEF w
<1>1. y = Lane(w, x.a) /\ y.v = w /\ y.a = x.a
  BY DEF Inv, InvBut, Ready, Lane, With
<1> USE DEF w
<1>2. /\ Keeps(v, w, Fields, {"rec"})
      /\ Keeps(v.rec, w.rec, RecorderFields, {"state"})
      /\ w.rec.state = "closed"
  BY DEF Inv, InvBut, Ready, Shape, Keeps, Fields, RecorderFields
<1>3. /\ Shape(v) /\ Jobs(v) /\ ExecutorsClose(v, x.a) /\ AdaptersInv(x.a)
      /\ Lanes(v) /\ Fence(v) /\ Owned(v, x.a, NoAdapter) /\ Retired(v) /\ Sealed(v)
      /\ Clean(v) /\ Released(v) /\ Hidden(v) /\ Credits(v) /\ Quiet(v)
  BY DEF Inv, InvBut, Ready
<1>4. v.rec.state = "closing" /\ v.rec.pending = 0
  OBVIOUS
<1> HIDE DEF v, w, y
<1>5. Shape(w)
  BY <1>2, <1>3, <1>4, <1>0 DEF Keeps, Fields, RecorderFields, Shape
<1>6. ExecutorsClose(w, x.a) /\ AdaptersInv(x.a)
  BY <1>2, <1>3, <1>4 DEF Keeps, Fields, ExecutorsClose
<1>7. /\ Jobs(w) /\ Lanes(w) /\ Fence(w) /\ Owned(w, x.a, NoAdapter) /\ Retired(w)
      /\ Released(w) /\ Hidden(w) /\ Quiet(w)
  BY <1>2, <1>3 DEF Keeps, Fields, Jobs, InFlight, Lanes, Fence, Owned, Retired, Released,
     OutputsSafe, Hidden, Quiet
<1>8. Sealed(w)
  BY <1>2, <1>3, <1>4 DEF Keeps, Fields, RecorderFields, Sealed
<1>9. Clean(w)
  BY <1>2, <1>3, <1>4 DEF Keeps, Fields, RecorderFields, Clean, OutputsSafe
<1>10. Credits(w)
  BY <1>2, <1>3, <1>4 DEF Keeps, Fields, RecorderFields, Credits, Lanes, NoOp
<1>11. Inv(y)
  BY <1>1, <1>5, <1>6, <1>7, <1>8, <1>9, <1>10 DEF Inv, InvBut, Ready
<1> QED
  BY <1>11 DEF v, w, y

\* Or it fails.
LEMMA RecordFails ==
    ASSUME NEW x, Inv(x),
           x.v.rec.state \in {"up", "closing"}
    PROVE  Inv(With(x, [x.v EXCEPT !.rec.state = "failed"]))
<1>0. Candidate \in Resources
  BY LifecycleAssumption
<1> DEFINE v == x.v
           w == [v EXCEPT !.rec.state = "failed"]
           y == With(x, w)
<1> HIDE DEF w
<1>1. y = Lane(w, x.a) /\ y.v = w /\ y.a = x.a
  BY DEF Inv, InvBut, Ready, Lane, With
<1> USE DEF w
<1>2. /\ Keeps(v, w, Fields, {"rec"})
      /\ Keeps(v.rec, w.rec, RecorderFields, {"state"})
      /\ w.rec.state = "failed"
  BY DEF Inv, InvBut, Ready, Shape, Keeps, Fields, RecorderFields
<1>3. /\ Shape(v) /\ Jobs(v) /\ ExecutorsClose(v, x.a) /\ AdaptersInv(x.a)
      /\ Lanes(v) /\ Fence(v) /\ Owned(v, x.a, NoAdapter) /\ Retired(v) /\ Sealed(v)
      /\ Clean(v) /\ Released(v) /\ Hidden(v) /\ Credits(v) /\ Quiet(v)
  BY DEF Inv, InvBut, Ready
<1>4. v.rec.state \in {"up", "closing"}
  OBVIOUS
<1> HIDE DEF v, w, y
<1>5. Shape(w)
  BY <1>2, <1>3, <1>4, <1>0 DEF Keeps, Fields, RecorderFields, Shape
<1>6. ExecutorsClose(w, x.a) /\ AdaptersInv(x.a)
  BY <1>2, <1>3, <1>4 DEF Keeps, Fields, ExecutorsClose
<1>7. /\ Jobs(w) /\ Lanes(w) /\ Fence(w) /\ Owned(w, x.a, NoAdapter) /\ Retired(w)
      /\ Released(w) /\ Hidden(w) /\ Quiet(w)
  BY <1>2, <1>3 DEF Keeps, Fields, Jobs, InFlight, Lanes, Fence, Owned, Retired, Released,
     OutputsSafe, Hidden, Quiet
<1>8. Sealed(w)
  BY <1>2, <1>3, <1>4 DEF Keeps, Fields, RecorderFields, Sealed
<1>9. Clean(w)
  BY <1>2, <1>3, <1>4 DEF Keeps, Fields, RecorderFields, Clean, OutputsSafe
<1>10. Credits(w)
  BY <1>2, <1>3, <1>4 DEF Keeps, Fields, RecorderFields, Credits, Lanes, NoOp
<1>11. Inv(y)
  BY <1>1, <1>5, <1>6, <1>7, <1>8, <1>9, <1>10 DEF Inv, InvBut, Ready
<1> QED
  BY <1>11 DEF v, w, y

-----------------------------------------------------------------------------
(* Operations begin, and the stop is requested.                            *)

\* The gate is fenced.
LEMMA FencesGate ==
    ASSUME NEW x, Inv(x)
    PROVE  Inv(With(x, Fenced(x.v)))
<1>0. Candidate \in Resources
  BY LifecycleAssumption
<1> DEFINE v == x.v
           w == Fenced(v)
           y == With(x, w)
<1> HIDE DEF w
<1>1. y = Lane(w, x.a) /\ y.v = w /\ y.a = x.a
  BY DEF Inv, InvBut, Ready, Lane, With
<1> USE DEF w
<1>2. /\ Keeps(v, w, Fields, {"gate"})
      /\ w.gate = IF Fences(v) THEN "closed" ELSE v.gate
  BY DEF Inv, InvBut, Ready, Shape, Keeps, Fields, Fenced
<1>3. /\ Shape(v) /\ Jobs(v) /\ ExecutorsClose(v, x.a) /\ AdaptersInv(x.a)
      /\ Lanes(v) /\ Fence(v) /\ Owned(v, x.a, NoAdapter) /\ Retired(v) /\ Sealed(v)
      /\ Clean(v) /\ Released(v) /\ Hidden(v) /\ Credits(v) /\ Quiet(v)
  BY DEF Inv, InvBut, Ready
<1> HIDE DEF v, w, y
<1>4. Shape(w)
  BY <1>2, <1>3, <1>0 DEF Keeps, Fields, Shape
<1>5. ExecutorsClose(w, x.a) /\ AdaptersInv(x.a)
  BY <1>2, <1>3 DEF Keeps, Fields, ExecutorsClose
<1>6. /\ Jobs(w) /\ Lanes(w) /\ Owned(w, x.a, NoAdapter) /\ Retired(w) /\ Sealed(w)
      /\ Clean(w) /\ Released(w) /\ Hidden(w) /\ Credits(w) /\ Quiet(w)
  BY <1>2, <1>3 DEF Keeps, Fields, Jobs, InFlight, Lanes, Owned, Retired, Sealed, Clean,
     OutputsSafe, Released, OutputsSafe, Hidden, Credits, Quiet
<1>7. Fence(w)
  BY <1>2, <1>3 DEF Keeps, Fields, Fence, Lanes, NoOp
<1>8. Inv(y)
  BY <1>1, <1>4, <1>5, <1>6, <1>7 DEF Inv, InvBut, Ready
<1> QED
  BY <1>8 DEF v, w, y

\* A restart quiesces acquisition behind its fence.
LEMMA RestartBegins ==
    ASSUME NEW x, Inv(x),
           x.v.op.kind = "none" /\ x.v.terminal = "none" /\ ~x.v.panicked
             /\ ~x.v.stopping
    PROVE  Inv(With(x,
               [Begins(Fenced(x.v), "restart", Candidate, "reserve") EXCEPT
                   !.op.reopen = Fences(x.v), !.quiesced = TRUE]))
<1>0. Candidate \in Resources
  BY LifecycleAssumption
<1> DEFINE v == x.v
           u == Fenced(v)
           w == [Begins(u, "restart", Candidate, "reserve") EXCEPT
                   !.op.reopen = Fences(v), !.quiesced = TRUE]
           y == With(x, w)
<1> HIDE DEF w
<1>1. y = Lane(w, x.a) /\ y.v = w /\ y.a = x.a
  BY DEF Inv, InvBut, Ready, Lane, With
<1> USE DEF w
<1>2. /\ Keeps(v, w, Fields, {"gate", "op", "quiesced"})
      /\ w.gate = IF Fences(v) THEN "closed" ELSE v.gate
      /\ w.quiesced = TRUE
      /\ DOMAIN w.op = OpFields /\ w.op.kind = "restart" /\ w.op.res = Candidate
      /\ w.op.pc = "reserve" /\ w.op.cand = NoAdapter /\ w.op.gen = 0 /\ ~w.op.cancel
      /\ w.op.reopen = Fences(v)
  <2>1. Shape(v)
    BY DEF Inv, InvBut, Ready
  <2>2. /\ Keeps(v, u, Fields, {"gate"})
        /\ u.gate = IF Fences(v) THEN "closed" ELSE v.gate
    BY <2>1, FencedKeeps
  <2> HIDE DEF u
  <2> QED
    BY <2>1, <2>2 DEF Shape, Keeps, Fields, Begins, NoOp, OpFields
<1>3. /\ Shape(v) /\ Jobs(v) /\ ExecutorsClose(v, x.a) /\ AdaptersInv(x.a)
      /\ Lanes(v) /\ Fence(v) /\ Owned(v, x.a, NoAdapter) /\ Retired(v) /\ Sealed(v)
      /\ Clean(v) /\ Released(v) /\ Hidden(v) /\ Credits(v) /\ Quiet(v)
  BY DEF Inv, InvBut, Ready
<1>4. v.op.kind = "none" /\ v.terminal = "none" /\ ~v.panicked
             /\ ~v.stopping
  OBVIOUS
<1> HIDE DEF v, w, y, u
<1>5. Shape(w)
  BY <1>2, <1>3, <1>4, <1>0 DEF Keeps, Fields, Shape, NoOp
<1>6. ExecutorsClose(w, x.a) /\ AdaptersInv(x.a)
  BY <1>2, <1>3, <1>4 DEF Keeps, Fields, ExecutorsClose
<1>7. /\ Jobs(w) /\ Sealed(w) /\ Hidden(w)
  BY <1>2, <1>3 DEF Keeps, Fields, Jobs, InFlight, Sealed, Hidden
<1>8. Lanes(w)
  BY <1>2, <1>3, <1>4, <1>0 DEF Keeps, Fields, Lanes, Placed, NoOp, NoOp, NoApply
<1>9. Fence(w)
  BY <1>2, <1>3, <1>4 DEF Keeps, Fields, Fence, Lanes, NoOp, Fences
<1>10. Owned(w, x.a, NoAdapter)
  BY <1>2, <1>3, <1>4 DEF Keeps, Fields, Owned, HasCandidate, HasCandidate, NoOp, Lanes
<1>11. Retired(w)
  BY <1>2, <1>3, <1>4 DEF Keeps, Fields, Retired, NoOp
<1>12. Clean(w)
  BY <1>2, <1>3, <1>4 DEF Keeps, Fields, Clean, OutputsSafe
<1>13. Released(w)
  BY <1>2, <1>3, <1>4 DEF Keeps, Fields, Released, OutputsSafe, NoOp
<1>14. Credits(w)
  BY <1>2, <1>3, <1>4 DEF Keeps, Fields, Credits, Lanes, NoOp
<1>15. Quiet(w)
  BY <1>2, <1>3, <1>4 DEF Keeps, Fields, Quiet, Lanes, NoOp
<1>16. Inv(y)
  BY <1>1, <1>5, <1>6, <1>7, <1>8, <1>9, <1>10, <1>11, <1>12, <1>13, <1>14, <1>15 DEF Inv,
     InvBut, Ready
<1> QED
  BY <1>16 DEF v, w, y, u

\* So does a file application, whose fence the caller placed.
LEMMA FileBegins ==
    ASSUME NEW x, Inv(x),
           NEW r, NEW pc, NEW reopen,
           x.v.op.kind = "none" /\ x.v.terminal = "none" /\ ~x.v.panicked
             /\ ~x.v.stopping /\ r \in Resources /\ pc \in {"reserve", "retire"}
             /\ reopen \in BOOLEAN /\ (reopen => x.v.gate # "open" /\ ~x.v.apply.reopen)
    PROVE  Inv(With(x,
               [Begins(x.v, "file", r, pc) EXCEPT !.op.reopen = reopen, !.quiesced = TRUE]))
<1>0. Candidate \in Resources
  BY LifecycleAssumption
<1> DEFINE v == x.v
           w == [Begins(v, "file", r, pc) EXCEPT !.op.reopen = reopen, !.quiesced = TRUE]
           y == With(x, w)
<1> HIDE DEF w
<1>1. y = Lane(w, x.a) /\ y.v = w /\ y.a = x.a
  BY DEF Inv, InvBut, Ready, Lane, With
<1> USE DEF w
<1>2. /\ Keeps(v, w, Fields, {"op", "quiesced"})
      /\ w.quiesced = TRUE
      /\ DOMAIN w.op = OpFields /\ w.op.kind = "file" /\ w.op.res = r
      /\ w.op.pc = pc /\ w.op.cand = NoAdapter /\ w.op.gen = 0 /\ ~w.op.cancel
      /\ w.op.reopen = reopen
  BY DEF Inv, InvBut, Ready, Shape, Keeps, Fields, Begins, NoOp, OpFields
<1>3. /\ Shape(v) /\ Jobs(v) /\ ExecutorsClose(v, x.a) /\ AdaptersInv(x.a)
      /\ Lanes(v) /\ Fence(v) /\ Owned(v, x.a, NoAdapter) /\ Retired(v) /\ Sealed(v)
      /\ Clean(v) /\ Released(v) /\ Hidden(v) /\ Credits(v) /\ Quiet(v)
  BY DEF Inv, InvBut, Ready
<1>4. v.op.kind = "none" /\ v.terminal = "none" /\ ~v.panicked
             /\ ~v.stopping /\ r \in Resources /\ pc \in {"reserve", "retire"}
             /\ reopen \in BOOLEAN /\ (reopen => v.gate # "open" /\ ~v.apply.reopen)
  OBVIOUS
<1> HIDE DEF v, w, y
<1>5. Shape(w)
  BY <1>2, <1>3, <1>4, <1>0 DEF Keeps, Fields, Shape, NoOp
<1>6. ExecutorsClose(w, x.a) /\ AdaptersInv(x.a)
  BY <1>2, <1>3, <1>4 DEF Keeps, Fields, ExecutorsClose
<1>7. /\ Jobs(w) /\ Sealed(w) /\ Hidden(w)
  BY <1>2, <1>3 DEF Keeps, Fields, Jobs, InFlight, Sealed, Hidden
<1>8. Lanes(w)
  BY <1>2, <1>3, <1>4, <1>0 DEF Keeps, Fields, Lanes, Placed, NoOp, NoOp, NoApply
<1>9. Fence(w)
  BY <1>2, <1>3, <1>4 DEF Keeps, Fields, Fence, Lanes, NoOp
<1>10. Owned(w, x.a, NoAdapter)
  BY <1>2, <1>3, <1>4 DEF Keeps, Fields, Owned, HasCandidate, HasCandidate, NoOp, Lanes
<1>11. Retired(w)
  BY <1>2, <1>3, <1>4 DEF Keeps, Fields, Retired, NoOp
<1>12. Clean(w)
  BY <1>2, <1>3, <1>4 DEF Keeps, Fields, Clean, OutputsSafe
<1>13. Released(w)
  BY <1>2, <1>3, <1>4 DEF Keeps, Fields, Released, OutputsSafe, NoOp
<1>14. Credits(w)
  BY <1>2, <1>3, <1>4 DEF Keeps, Fields, Credits, Lanes, NoOp
<1>15. Quiet(w)
  BY <1>2, <1>3, <1>4 DEF Keeps, Fields, Quiet, Lanes, NoOp
<1>16. Inv(y)
  BY <1>1, <1>5, <1>6, <1>7, <1>8, <1>9, <1>10, <1>11, <1>12, <1>13, <1>14, <1>15 DEF Inv,
     InvBut, Ready
<1> QED
  BY <1>16 DEF v, w, y

\* A reconnect, or a reconciliation, begins.
LEMMA ReconnectBegins ==
    ASSUME NEW x, Inv(x),
           NEW r, NEW kind,
           x.v.op.kind = "none" /\ x.v.terminal = "none" /\ ~x.v.panicked
             /\ ~x.v.stopping /\ r \in Resources /\ kind \in {"reconnect", "reconcile"}
             /\ x.v.apply.phase = "none" /\ (kind = "reconcile" => r = Candidate)
             /\ (kind = "reconnect" => x.v.held = NoAdapter)
    PROVE  Inv(With(x, Begins(x.v, kind, r, "reserve")))
<1>0. Candidate \in Resources
  BY LifecycleAssumption
<1> DEFINE v == x.v
           w == Begins(v, kind, r, "reserve")
           y == With(x, w)
<1> HIDE DEF w
<1>1. y = Lane(w, x.a) /\ y.v = w /\ y.a = x.a
  BY DEF Inv, InvBut, Ready, Lane, With
<1> USE DEF w
<1>2. /\ Keeps(v, w, Fields, {"op"})
      /\ DOMAIN w.op = OpFields /\ w.op.kind = kind /\ w.op.res = r
      /\ w.op.pc = "reserve" /\ w.op.cand = NoAdapter /\ w.op.gen = 0 /\ ~w.op.cancel
      /\ w.op.reopen = FALSE
  BY DEF Inv, InvBut, Ready, Shape, Keeps, Fields, Begins, NoOp, OpFields
<1>3. /\ Shape(v) /\ Jobs(v) /\ ExecutorsClose(v, x.a) /\ AdaptersInv(x.a)
      /\ Lanes(v) /\ Fence(v) /\ Owned(v, x.a, NoAdapter) /\ Retired(v) /\ Sealed(v)
      /\ Clean(v) /\ Released(v) /\ Hidden(v) /\ Credits(v) /\ Quiet(v)
  BY DEF Inv, InvBut, Ready
<1>4. v.op.kind = "none" /\ v.terminal = "none" /\ ~v.panicked
             /\ ~v.stopping /\ r \in Resources /\ kind \in {"reconnect", "reconcile"}
             /\ v.apply.phase = "none" /\ (kind = "reconcile" => r = Candidate)
             /\ (kind = "reconnect" => v.held = NoAdapter)
  OBVIOUS
<1> HIDE DEF v, w, y
<1>5. Shape(w)
  BY <1>2, <1>3, <1>4, <1>0 DEF Keeps, Fields, Shape, NoOp
<1>6. ExecutorsClose(w, x.a) /\ AdaptersInv(x.a)
  BY <1>2, <1>3, <1>4 DEF Keeps, Fields, ExecutorsClose
<1>7. /\ Jobs(w) /\ Sealed(w) /\ Hidden(w)
  BY <1>2, <1>3 DEF Keeps, Fields, Jobs, InFlight, Sealed, Hidden
<1>8. Lanes(w)
  BY <1>2, <1>3, <1>4, <1>0 DEF Keeps, Fields, Lanes, Placed, NoOp, NoOp, NoApply
<1>9. Fence(w)
  BY <1>2, <1>3, <1>4 DEF Keeps, Fields, Fence, Lanes, NoOp
<1>10. Owned(w, x.a, NoAdapter)
  BY <1>2, <1>3, <1>4 DEF Keeps, Fields, Owned, HasCandidate, HasCandidate, NoOp, Lanes
<1>11. Retired(w)
  BY <1>2, <1>3, <1>4 DEF Keeps, Fields, Retired, NoOp
<1>12. Clean(w)
  BY <1>2, <1>3, <1>4 DEF Keeps, Fields, Clean, OutputsSafe
<1>13. Released(w)
  BY <1>2, <1>3, <1>4 DEF Keeps, Fields, Released, OutputsSafe, NoOp
<1>14. Credits(w)
  BY <1>2, <1>3, <1>4 DEF Keeps, Fields, Credits, Lanes, NoOp
<1>15. Quiet(w)
  BY <1>2, <1>3, <1>4 DEF Keeps, Fields, Quiet, Lanes, NoOp
<1>16. Inv(y)
  BY <1>1, <1>5, <1>6, <1>7, <1>8, <1>9, <1>10, <1>11, <1>12, <1>13, <1>14, <1>15 DEF Inv,
     InvBut, Ready
<1> QED
  BY <1>16 DEF v, w, y

\* The stop: every output is asked to be safe, but for a listed hidden controller's.
StopAsked(v, w) ==
    /\ Keeps(v, w, Fields, {"stopping", "fatal", "out", "hid"})
    /\ w.stopping = TRUE
    /\ DOMAIN w.out = Resources
    /\ \A r \in Resources : w.out[r] \in {v.out[r], SafeRequested(v.out[r])}
    /\ Keeps(v.hid, w.hid, HiddenFields, {"state"})
    /\ w.hid.state = v.hid.state \/ (v.hid.listed /\ w.hid.state = SafeRequested(v.hid.state))

LEMMA StopInv ==
    ASSUME NEW x, Inv(x), x.v.op.kind = "none", x.v.terminal = "none", ~x.v.panicked,
           NEW w, StopAsked(x.v, w)
    PROVE  Inv(With(x, w))
<1>0. Candidate \in Resources
  BY LifecycleAssumption
<1> DEFINE v == x.v
           y == With(x, w)
<1>1. y = Lane(w, x.a) /\ y.v = w /\ y.a = x.a
  BY DEF Inv, InvBut, Ready, Lane, With
<1>2. /\ Keeps(v, w, Fields, {"stopping", "fatal", "out", "hid"})
      /\ w.stopping = TRUE
      /\ DOMAIN w.out = Resources
      /\ \A r \in Resources : w.out[r] \in {v.out[r], SafeRequested(v.out[r])}
      /\ Keeps(v.hid, w.hid, HiddenFields, {"state"})
      /\ w.hid.state = v.hid.state
            \/ (v.hid.listed /\ w.hid.state = SafeRequested(v.hid.state))
  BY DEF StopAsked
<1>3. /\ Shape(v) /\ Jobs(v) /\ ExecutorsClose(v, x.a) /\ AdaptersInv(x.a)
      /\ Lanes(v) /\ Fence(v) /\ Owned(v, x.a, NoAdapter) /\ Retired(v) /\ Sealed(v)
      /\ Clean(v) /\ Released(v) /\ Hidden(v) /\ Credits(v) /\ Quiet(v)
  BY DEF Inv, InvBut, Ready
<1>4. v.op.kind = "none" /\ v.terminal = "none" /\ ~v.panicked
  OBVIOUS
<1> HIDE DEF v, y
<1>5. /\ w.exe = v.exe /\ w.op = v.op /\ w.apply = v.apply /\ w.gate = v.gate
      /\ w.held = v.held /\ w.rec = v.rec /\ w.terminal = v.terminal /\ w.closed = v.closed
      /\ w.bind = v.bind /\ w.quar = v.quar /\ w.staged = v.staged /\ w.overlay = v.overlay
      /\ w.panicked = v.panicked /\ w.cut = v.cut /\ w.quiesced = v.quiesced
      /\ w.hid.sent = v.hid.sent /\ w.hid.listed = v.hid.listed
  BY <1>2 DEF Keeps, Fields, HiddenFields
<1>6. Shape(w)
  BY <1>2, <1>3 DEF Shape, Keeps, Fields, HiddenFields
<1>7. Jobs(w)
  BY <1>2, <1>3, <1>5 DEF Jobs, InFlight, SafeRequested
<1>8. ExecutorsClose(w, x.a)
  BY <1>3, <1>5 DEF ExecutorsClose
<1>9. Lanes(w) /\ Fence(w) /\ Retired(w) /\ Sealed(w)
  BY <1>3, <1>4, <1>5 DEF Lanes, Fence, Retired, Sealed
<1>10. Owned(w, x.a, NoAdapter)
  BY <1>3, <1>5 DEF Owned
<1>11. Clean(w) /\ Released(w) /\ Credits(w) /\ Quiet(w)
  BY <1>3, <1>4, <1>5 DEF Clean, Released, Credits, Quiet
<1>12. Hidden(w)
  <2>1. v.out[Candidate] = "none" => w.out[Candidate] = "none"
    BY <1>0, <1>2 DEF SafeRequested
  <2>2. /\ v.hid.state = "none" <=> w.hid.state = "none"
        /\ w.hid.state # v.hid.state => v.apply.phase = "confirm"
    BY <1>2, <1>3, <1>4 DEF Hidden, SafeRequested
  <2> QED
    BY <1>2, <1>3, <1>5, <2>1, <2>2 DEF Hidden
<1>13. Inv(y)
  BY <1>1, <1>3, <1>6, <1>7, <1>8, <1>9, <1>10, <1>11, <1>12 DEF Inv, InvBut, Ready
<1> QED
  BY <1>13 DEF y

\* The owner's call of the retained adapter.
LEMMA HeldIs ==
    ASSUME NEW x, Inv(x), x.v.held # NoAdapter
    PROVE  x.v.held \in Adapters /\ AdapterInv(x.a[x.v.held])
  BY DEF Inv, InvBut, Owned, Ready, AdaptersInv

LEMMA ShutdownRequestedInv ==
    ASSUME NEW x, Inv(x), x.v.op.kind = "none", x.v.terminal = "none", ~x.v.panicked
    PROVE  /\ Inv(ShutdownRequested(x))
           /\ ShutdownRequested(x) = x \/ StopAsked(x.v, ShutdownRequested(x).v)
<1> DEFINE a == IF x.v.held = NoAdapter THEN x.a
                ELSE [x.a EXCEPT ![x.v.held] = Retire(x.a[x.v.held])]
           z == Lane(x.v, a)
           v == [x.v EXCEPT !.stopping = TRUE]
           out == [r \in Resources |-> SafeRequested(v.out[r])]
           state == IF HiddenOutput(v) THEN SafeRequested(v.hid.state) ELSE v.hid.state
           failed == [v EXCEPT !.fatal = TRUE]
           safe == [v EXCEPT !.out = out, !.hid.state = state]
<1>1. \/ ShutdownRequested(x) = x
      \/ ShutdownRequested(x) = Lane(failed, a)
      \/ ShutdownRequested(x) = Lane(safe, a)
  <2>1. DOMAIN v.out = Resources /\ DOMAIN v.hid = HiddenFields
    BY DEF Inv, InvBut, Ready, Shape, Fields
  <2>2. safe = [v EXCEPT !.out = [r \in Resources |-> SafeRequested(@[r])],
                         !.hid.state = IF HiddenOutput(v) THEN SafeRequested(@) ELSE @]
    BY <2>1
  <2>3. a = IF x.v.held = NoAdapter THEN x.a ELSE [x.a EXCEPT ![x.v.held] = Retire(@)]
    OBVIOUS
  <2> DEFINE aa == IF x.v.held = NoAdapter THEN x.a ELSE [x.a EXCEPT ![x.v.held] = Retire(@)]
             asked == [v EXCEPT !.out = [r \in Resources |-> SafeRequested(@[r])],
                                !.hid.state = IF HiddenOutput(v) THEN SafeRequested(@) ELSE @]
  <2>4. ShutdownRequested(x) = IF x.v.stopping THEN x
                               ELSE IF HiddenController(v) THEN Lane(failed, aa)
                               ELSE Lane(asked, aa)
    BY Zenon DEF ShutdownRequested
  <2>5. aa = a /\ asked = safe
    BY <2>2, <2>3
  <2> HIDE DEF failed, safe, asked, a, aa, v
  <2> QED
    BY <2>4, <2>5
<1>2. Inv(z)
  <2>1. CASE x.v.held = NoAdapter
    BY <2>1 DEF Inv, InvBut, Ready
  <2>2. CASE x.v.held # NoAdapter
    <3>1. x.v.held \in Adapters /\ AdapterInv(x.a[x.v.held])
      BY <2>2, HeldIs
    <3>2. /\ Handled(x.a[x.v.held], Retire(x.a[x.v.held]))
          /\ Retire(x.a[x.v.held]).dropped = x.a[x.v.held].dropped
      BY <3>1, RetireHandled
    <3>3. Inv(Lane(x.v, [x.a EXCEPT ![x.v.held] = Retire(x.a[x.v.held])]))
      BY <3>1, <3>2, AdapterInvKept
    <3> QED
      BY <2>2, <3>3
  <2> QED
    BY <2>1, <2>2
<1> HIDE DEF a
<1>3. z.v = x.v /\ z.a = a /\ z = Lane(z.v, z.a)
  BY DEF Lane
<1>4. Shape(x.v)
  BY DEF Inv, InvBut, Ready
<1>5. StopAsked(x.v, failed)
  BY <1>4 DEF StopAsked, Keeps, Fields, Shape
<1>6. StopAsked(x.v, safe)
  <2>1. /\ v.out = x.v.out /\ v.hid = x.v.hid
        /\ Keeps(x.v, v, Fields, {"stopping"}) /\ v.stopping = TRUE
    BY <1>4 DEF Keeps, Fields, Shape
  <2>2. /\ DOMAIN out = Resources
        /\ \A r \in Resources : out[r] = SafeRequested(x.v.out[r])
        /\ state = x.v.hid.state \/ (x.v.hid.listed /\ state = SafeRequested(x.v.hid.state))
    BY <2>1 DEF HiddenOutput
  <2> HIDE DEF v, out, state
  <2>3. /\ Keeps(v, safe, Fields, {"out", "hid"}) /\ safe.out = out
        /\ Keeps(v.hid, safe.hid, HiddenFields, {"state"}) /\ safe.hid.state = state
    BY <1>4, <2>1 DEF Keeps, Fields, Shape, HiddenFields
  <2> HIDE DEF safe
  <2>4. Keeps(x.v, safe, Fields, {"stopping", "fatal", "out", "hid"}) /\ safe.stopping = TRUE
    BY <2>1, <2>3 DEF Keeps, Fields
  <2> QED
    BY <2>1, <2>2, <2>3, <2>4 DEF StopAsked
<1> HIDE DEF z, failed, safe
<1>7. Inv(With(z, failed)) /\ Inv(With(z, safe))
  BY <1>2, <1>3, <1>5, <1>6, StopInv
<1>8. With(z, failed) = Lane(failed, a) /\ With(z, safe) = Lane(safe, a)
  BY <1>3, WithLaws
<1> QED
  BY <1>1, <1>5, <1>6, <1>7, <1>8, LaneLaws

-----------------------------------------------------------------------------
(* The owner's other steps.                                                *)

\* A turn leaves an idle owner idle.
LEMMA TurnIdles ==
    ASSUME Inv(Here), OwnerIdle, NEW y \in Turns(Here)
    PROVE  /\ Inv(y) /\ y.v.op.kind = "none" /\ y.v.terminal = "none" /\ ~y.v.panicked
           /\ y.v.stopping = svc.stopping
  BY HereLaws, TurnsInv DEF OwnerIdle, SameRest

LEMMA MainTurnInv ==
    ASSUME Inv(Here), MainTurn
    PROVE  Inv(Lane(svc', ad'))
<1> DEFINE fatal(x) == LET y == ShutdownRequested(x) IN With(y, [y.v EXCEPT !.fatal = TRUE])
<1>1. OwnerIdle /\ \E y \in Turns(Here) : Set(y) \/ Set(fatal(y))
  BY Zenon DEF MainTurn
<1>2. ASSUME NEW y \in Turns(Here), Set(fatal(y))
      PROVE  Inv(Lane(svc', ad'))
  <2> DEFINE z == ShutdownRequested(y)
  <2>1. Inv(z)
    BY <1>1, TurnIdles, ShutdownRequestedInv
  <2>2. fatal(y) = With(z, [z.v EXCEPT !.fatal = TRUE])
    OBVIOUS
  <2> HIDE DEF z
  <2>3. Inv(With(z, [z.v EXCEPT !.fatal = TRUE]))
    BY <2>1, FailsFatally
  <2> HIDE DEF fatal
  <2> QED
    BY <1>2, <2>2, <2>3, SetInv
<1> HIDE DEF fatal
<1> QED
  BY <1>1, <1>2, TurnIdles, SetInv

LEMMA RequestShutdownInv ==
    ASSUME Inv(Here), RequestShutdown
    PROVE  Inv(Lane(svc', ad'))
<1>1. OwnerIdle /\ Set(ShutdownRequested(Here))
  BY DEF RequestShutdown, Requested
<1>2. Inv(ShutdownRequested(Here))
  BY <1>1, HereLaws, ShutdownRequestedInv DEF OwnerIdle
<1> QED
  BY <1>1, <1>2, SetInv

\* The retained adapter is retired again.
LEMMA HeldShut ==
    ASSUME NEW x, Inv(x), x.v.held # NoAdapter
    PROVE  LET y == Lane(x.v, [x.a EXCEPT ![x.v.held] = TryShutdown(@)]) IN
           Inv(y) /\ y.v = x.v
<1> DEFINE y == Lane(x.v, [x.a EXCEPT ![x.v.held] = TryShutdown(@)])
<1>1. x.v.held \in Adapters /\ AdapterInv(x.a[x.v.held])
  BY HeldIs
<1>2. /\ Handled(x.a[x.v.held], TryShutdown(x.a[x.v.held]))
      /\ TryShutdown(x.a[x.v.held]).dropped = x.a[x.v.held].dropped
  BY <1>1, ShutdownHandled
<1>3. Inv(y)
  BY <1>1, <1>2, AdapterInvKept
<1>4. y.v = x.v
  BY DEF Lane
<1> QED
  BY <1>3, <1>4

LEMMA HeldDropped ==
    ASSUME NEW x, Inv(x), x.v.held # NoAdapter
    PROVE  LET w == [x.v EXCEPT !.held = NoAdapter]
               y == DropAdapter(With(x, w), x.v.held) IN
           Inv(y) /\ y.v = w
<1> DEFINE w == [x.v EXCEPT !.held = NoAdapter]
           z == With(x, w)
           y == DropAdapter(z, x.v.held)
<1>1. InvBut(z, x.v.held)
  BY LetsGo
<1>2. z.v = w
  BY WithLaws DEF Inv, InvBut, Ready
<1> HIDE DEF w, z
<1>3. Inv(y) /\ y.v = z.v
  BY <1>1, DropAdapterInv
<1> QED
  BY <1>2, <1>3 DEF w, z

LEMMA HeldProgressedInv ==
    ASSUME NEW x, Inv(x)
    PROVE  LET y == HeldProgressed(x) IN
           /\ Inv(y)
           /\ Keeps(x.v, y.v, Fields, {"held"})
<1> DEFINE i == x.v.held
           z == Lane(x.v, [x.a EXCEPT ![i] = TryShutdown(@)])
           d == DropAdapter(With(z, [z.v EXCEPT !.held = NoAdapter]), i)
<1>1. x = Lane(x.v, x.a) /\ Shape(x.v)
  BY DEF Inv, InvBut, Ready
<1>2. z = [x EXCEPT !.a[i] = TryShutdown(@)]
  BY <1>1 DEF Lane
<1>3. HeldProgressed(x) = IF i = NoAdapter THEN x ELSE IF IsClosed(z.a[i]) THEN d ELSE z
  <2> DEFINE zz == [x EXCEPT !.a[i] = TryShutdown(@)]
             dd == DropAdapter(With(zz, [zz.v EXCEPT !.held = NoAdapter]), i)
  <2>1. HeldProgressed(x) = IF i = NoAdapter THEN x
                            ELSE IF IsClosed(zz.a[i]) THEN dd ELSE zz
    BY Zenon DEF HeldProgressed
  <2>2. zz = z
    BY <1>2
  <2> HIDE DEF z, zz
  <2> QED
    BY <2>1, <2>2
<1>4. CASE i = NoAdapter
  BY <1>1, <1>3, <1>4 DEF Keeps, Shape
<1>5. CASE i # NoAdapter
  <2>1. Inv(z) /\ z.v = x.v
    BY <1>5, HeldShut
  <2> HIDE DEF z
  <2>2. Inv(d) /\ d.v = [x.v EXCEPT !.held = NoAdapter]
    BY <1>5, <2>1, HeldDropped
  <2> HIDE DEF d
  <2>3. Keeps(x.v, x.v, Fields, {"held"}) /\ Keeps(x.v, d.v, Fields, {"held"})
    BY <1>1, <2>2 DEF Keeps, Shape, Fields
  <2> QED
    BY <1>3, <1>5, <2>1, <2>2, <2>3
<1> QED
  BY <1>4, <1>5

LEMMA ShutdownStepInv ==
    ASSUME Inv(Here), ShutdownStep
    PROVE  Inv(Lane(svc', ad'))
<1>1. OwnerIdle
  BY Zenon DEF ShutdownStep
<1>2. PICK y \in Turns(Here) : Set(With(HeldProgressed(y), Verdict(HeldProgressed(y).v)))
  BY Zenon DEF ShutdownStep
<1> DEFINE x == HeldProgressed(y)
<1>3. Inv(x) /\ x.v.op.kind = "none" /\ x.v.terminal = "none" /\ ~x.v.panicked
  BY <1>1, TurnIdles, HeldProgressedInv DEF Keeps, Fields
<1> HIDE DEF x
<1>4. Inv(With(x, Verdict(x.v)))
  BY <1>3, Judges
<1> QED
  BY <1>2, <1>4, SetInv DEF x

LEMMA RequestRestartInv ==
    ASSUME Inv(Here), RequestRestart
    PROVE  Inv(Lane(svc', ad'))
<1>1. OwnerIdle /\ ~svc.stopping
  BY Zenon DEF RequestRestart, Requested
<1>2. CASE Set(Here)
  BY <1>2, SetInv
<1>3. CASE Set(With(Here, BarrierAsked(svc)))
  <2>1. Asked(Here.v, BarrierAsked(svc))
    BY HereLaws, AskedKeeps DEF Inv, InvBut, Ready
  <2>2. Inv(With(Here, BarrierAsked(svc)))
    BY <2>1, AskedInv
  <2> QED
    BY <1>3, <2>2, SetInv
<1>4. ASSUME NEW y \in Barrier(Here),
             IF ~OutputsSafe(y.v) THEN Set(y)
             ELSE Set(With(y, [Begins(Fenced(y.v), "restart", Candidate, "reserve")
                                 EXCEPT !.op.reopen = Fences(y.v), !.quiesced = TRUE]))
      PROVE  Inv(Lane(svc', ad'))
  <2>1. Inv(y) /\ SameRest(svc, y.v)
    BY <1>4, HereLaws, BarrierInv
  <2>2. y.v.op.kind = "none" /\ y.v.terminal = "none" /\ ~y.v.panicked /\ ~y.v.stopping
    BY <1>1, <2>1 DEF SameRest, OwnerIdle
  <2>3. Inv(With(y, [Begins(Fenced(y.v), "restart", Candidate, "reserve")
                       EXCEPT !.op.reopen = Fences(y.v), !.quiesced = TRUE]))
    BY <2>1, <2>2, RestartBegins, Zenon
  <2> QED
    BY <1>4, <2>1, <2>3, SetInv
<1> QED
  BY <1>2, <1>3, <1>4, Zenon DEF RequestRestart

LEMMA BeginApplyInv ==
    ASSUME Inv(Here), BeginApply
    PROVE  Inv(Lane(svc', ad'))
<1>1. OwnerIdle /\ svc.apply.phase = "none" /\ svc.staged \in Simple
  BY Zenon DEF BeginApply, Simple
<1> DEFINE w == [Consumed(svc) EXCEPT
                   !.apply = [NoApply EXCEPT !.phase = "prepare", !.kind = svc.staged]]
<1>2. Set(With(Here, w))
  BY Zenon DEF BeginApply
<1>3. Inv(With(Here, w))
  BY <1>1, HereLaws, BeginsApply, Zenon DEF OwnerIdle
<1> HIDE DEF w
<1> QED
  BY <1>2, <1>3, SetInv

LEMMA StageInv ==
    ASSUME Inv(Here),
           \/ StageExpires
           \/ \E kind \in {"live", "barrier", "rebind"} : StageFile(kind)
           \/ \E kind \in {"sensor", "output", "controller"} : StageSimple(kind)
    PROVE  Inv(Lane(svc', ad'))
<1>1. CASE StageExpires
  <2>1. OwnerIdle /\ svc' = Consumed(svc) /\ ad' = ad
    BY <1>1 DEF StageExpires
  <2>2. Inv(With(Here, Consumed(svc)))
    BY <2>1, HereLaws, Consumes DEF OwnerIdle
  <2> QED
    BY <2>1, <2>2, OwnerInv
<1>2. ASSUME NEW kind \in {"live", "barrier", "rebind"}, StageFile(kind)
      PROVE  Inv(Lane(svc', ad'))
  <2>1. OwnerIdle /\ svc.apply.phase = "none" /\ Set(With(Here, SlotTakes(svc, kind)))
    BY <1>2 DEF StageFile, Requested
  <2>2. Inv(With(Here, SlotTakes(svc, kind)))
    BY <2>1, HereLaws, StagesFile DEF OwnerIdle
  <2> QED
    BY <2>1, <2>2, SetInv
<1>3. ASSUME NEW kind \in {"sensor", "output", "controller"}, StageSimple(kind)
      PROVE  Inv(Lane(svc', ad'))
  <2>1. /\ OwnerIdle /\ svc.apply.phase = "none" /\ ~svc.quar /\ ~svc.overlay
        /\ Set(With(Here, SlotTakes(svc, kind)))
    BY <1>3 DEF StageSimple, Requested
  <2>2. Inv(With(Here, SlotTakes(svc, kind)))
    BY <2>1, HereLaws, StagesSimple DEF OwnerIdle, Simple
  <2> QED
    BY <2>1, <2>2, SetInv
<1> QED
  BY <1>1, <1>2, <1>3

LEMMA RequestReconnectInv ==
    ASSUME Inv(Here), NEW r \in Resources, RequestReconnect(r)
    PROVE  Inv(Lane(svc', ad'))
<1> DEFINE i == svc.held
           kind == IF svc.quar /\ r = Candidate THEN "reconcile" ELSE "reconnect"
           watched == ~(svc.quar /\ r = Candidate) /\ i # NoAdapter
           z == Lane(svc, [ad EXCEPT ![i] = TryShutdown(@)])
           w == [svc EXCEPT !.held = NoAdapter]
           d == DropAdapter(With(z, w), i)
<1>1. /\ OwnerIdle /\ ~svc.stopping /\ svc.apply.phase = "none"
      /\ \/ watched /\ Set(z)
         \/ watched /\ Set(With(d, Begins(d.v, kind, r, "reserve")))
         \/ ~watched /\ Set(With(Here, Begins(Here.v, kind, r, "reserve")))
  <2> DEFINE x == IF watched THEN z ELSE Here
             y == IF watched THEN DropAdapter(With(x, w), i) ELSE x
  <2>1. /\ OwnerIdle /\ ~svc.stopping /\ svc.apply.phase = "none"
        /\ Set(IF watched /\ ~IsClosed(x.a[i]) THEN x
               ELSE With(y, Begins(y.v, kind, r, "reserve")))
    BY Zenon DEF RequestReconnect, Requested
  <2> HIDE DEF z, w, kind
  <2>2. watched => x = z /\ y = d
    OBVIOUS
  <2>3. ~watched => x = Here /\ y = Here
    OBVIOUS
  <2> HIDE DEF watched, x, y, d
  <2> QED
    BY <2>1, <2>2, <2>3
<1>2. /\ kind \in {"reconnect", "reconcile"} /\ (kind = "reconcile" => r = Candidate)
      /\ ~watched => (kind = "reconnect" => svc.held = NoAdapter)
  OBVIOUS
<1>3. Shape(svc)
  BY HereLaws DEF Inv, InvBut, Ready
<1> HIDE DEF kind
<1>4. CASE watched
  <2>1. Inv(z) /\ z.v = svc
    BY <1>4, HereLaws, HeldShut
  <2> HIDE DEF z
  <2>2. Inv(d) /\ d.v = w
    BY <1>4, <2>1, HeldDropped
  <2> HIDE DEF d
  <2>3. /\ d.v.op.kind = "none" /\ d.v.terminal = "none" /\ ~d.v.panicked
        /\ ~d.v.stopping /\ d.v.apply.phase = "none" /\ d.v.held = NoAdapter
    BY <1>1, <1>3, <2>2 DEF OwnerIdle, Shape, Fields
  <2>4. Inv(With(d, Begins(d.v, kind, r, "reserve")))
    BY <1>2, <2>2, <2>3, ReconnectBegins
  <2> QED
    BY <1>1, <1>4, <2>1, <2>4, SetInv
<1>5. CASE ~watched
  <2>1. Inv(With(Here, Begins(Here.v, kind, r, "reserve")))
    BY <1>1, <1>2, <1>5, HereLaws, ReconnectBegins DEF OwnerIdle
  <2> HIDE DEF watched
  <2> QED
    BY <1>1, <1>5, <2>1, SetInv
<1> QED
  BY <1>4, <1>5

LEMMA ArmInv ==
    ASSUME Inv(Here), NEW r \in Resources, Arm(r)
    PROVE  Inv(Lane(svc', ad'))
<1> DEFINE w == [svc EXCEPT !.out[r] = "armed"]
<1>1. OwnerIdle /\ svc.out[r] = "safe" /\ Set(With(Here, w))
  BY DEF Arm, Requested
<1>2. Inv(With(Here, w))
  BY <1>1, HereLaws, Arms, Zenon DEF OwnerIdle
<1> HIDE DEF w
<1> QED
  BY <1>1, <1>2, SetInv

\* A file application that begins on a state whose gate its fence has closed.
LEMMA FileBegun ==
    ASSUME NEW x, Inv(x), x.v.op.kind = "none", x.v.terminal = "none", ~x.v.panicked,
           ~x.v.stopping, NEW r \in Resources, NEW pc \in {"reserve", "retire"},
           NEW reopen \in BOOLEAN, reopen => x.v.gate # "open" /\ ~x.v.apply.reopen
    PROVE  LET y == With(x, [Begins(x.v, "file", r, pc) EXCEPT !.quiesced = TRUE]) IN
           Inv(With(y, [y.v EXCEPT !.op.reopen = (y.v.op.kind = "file") /\ reopen]))
<1> DEFINE b == [Begins(x.v, "file", r, pc) EXCEPT !.quiesced = TRUE]
           y == With(x, b)
           w == [Begins(x.v, "file", r, pc) EXCEPT !.op.reopen = reopen, !.quiesced = TRUE]
           g == [b EXCEPT !.op.reopen = (b.op.kind = "file") /\ reopen]
<1>1. Inv(With(x, w))
  BY FileBegins, Zenon
<1>2. g = w
  <2> DEFINE o == [NoOp EXCEPT !.kind = "file", !.res = r, !.pc = pc]
  <2>1. DOMAIN x.v = Fields /\ o.kind = "file" /\ DOMAIN o = OpFields
    BY DEF Inv, InvBut, Ready, Shape, NoOp, OpFields
  <2>2. Begins(x.v, "file", r, pc) = [x.v EXCEPT !.op = o]
    BY DEF Begins
  <2> HIDE DEF o
  <2>3. g = [x.v EXCEPT !.quiesced = TRUE, !.op = [o EXCEPT !.reopen = reopen]]
    BY <2>1, <2>2 DEF Fields
  <2>4. w = [x.v EXCEPT !.quiesced = TRUE, !.op = [o EXCEPT !.reopen = reopen]]
    BY <2>1, <2>2 DEF Fields
  <2> QED
    BY <2>3, <2>4
<1>3. x = Lane(x.v, x.a)
  BY DEF Inv, InvBut, Ready
<1> HIDE DEF b
<1>4. y.v = b /\ \A u : With(y, u) = With(x, u)
  BY <1>3, WithLaws
<1>5. With(y, [y.v EXCEPT !.op.reopen = (y.v.op.kind = "file") /\ reopen]) = With(x, g)
  <2> HIDE DEF y
  <2> QED
    BY <1>4
<1> HIDE DEF g, w
<1> QED
  BY <1>1, <1>2, <1>5 DEF y, b

\* A file application whose barrier does not hold leaves its fence closed.
LEMMA FileRefused ==
    ASSUME NEW x, Inv(x),
           x.v.op.kind = "none" /\ x.v.terminal = "none" /\ ~x.v.panicked
    PROVE  Inv(With(x, [x.v EXCEPT !.quiesced = FALSE, !.op.reopen = FALSE]))
<1>0. Candidate \in Resources
  BY LifecycleAssumption
<1> DEFINE v == x.v
           w == [v EXCEPT !.quiesced = FALSE, !.op.reopen = FALSE]
           y == With(x, w)
<1> HIDE DEF w
<1>1. y = Lane(w, x.a) /\ y.v = w /\ y.a = x.a
  BY DEF Inv, InvBut, Ready, Lane, With
<1> USE DEF w
<1>2. /\ Keeps(v, w, Fields, {"quiesced"})
      /\ w.quiesced = FALSE
  <2>1. v.op = NoOp /\ Shape(v)
    BY DEF Inv, InvBut, Ready, Lanes
  <2>2. [NoOp EXCEPT !.reopen = FALSE] = NoOp
    <3> DEFINE f == NoOp
    <3>1. f = [k \in OpFields |-> f[k]]
      BY Zenon DEF NoOp, OpFields
    <3>2. f.reopen = FALSE /\ "reopen" \in OpFields
      BY DEF NoOp, OpFields
    <3> HIDE DEF f
    <3>3. [f EXCEPT !.reopen = FALSE] = f
      BY <3>1, <3>2
    <3> QED
      BY <3>3 DEF f
  <2>3. w = [v EXCEPT !.quiesced = FALSE, !.op = NoOp]
    BY <2>1, <2>2, Zenon
  <2>4. w = [v EXCEPT !.quiesced = FALSE]
    BY <2>1, <2>3 DEF Shape, Fields
  <2> QED
    BY <2>1, <2>4 DEF Keeps, Fields, Shape
<1>3. /\ Shape(v) /\ Jobs(v) /\ ExecutorsClose(v, x.a) /\ AdaptersInv(x.a)
      /\ Lanes(v) /\ Fence(v) /\ Owned(v, x.a, NoAdapter) /\ Retired(v) /\ Sealed(v)
      /\ Clean(v) /\ Released(v) /\ Hidden(v) /\ Credits(v) /\ Quiet(v)
  BY DEF Inv, InvBut, Ready
<1>4. v.op.kind = "none" /\ v.terminal = "none" /\ ~v.panicked
  OBVIOUS
<1> HIDE DEF v, w, y
<1>5. Shape(w)
  BY <1>2, <1>3, <1>4, <1>0 DEF Keeps, Fields, Shape
<1>6. ExecutorsClose(w, x.a) /\ AdaptersInv(x.a)
  BY <1>2, <1>3, <1>4 DEF Keeps, Fields, ExecutorsClose
<1>7. /\ Jobs(w) /\ Lanes(w) /\ Fence(w) /\ Owned(w, x.a, NoAdapter) /\ Retired(w)
      /\ Sealed(w) /\ Clean(w) /\ Released(w) /\ Hidden(w) /\ Credits(w)
  BY <1>2, <1>3 DEF Keeps, Fields, Jobs, InFlight, Lanes, Fence, Owned, Retired, Sealed,
     Clean, OutputsSafe, Released, OutputsSafe, Hidden, Credits
<1>8. Quiet(w)
  BY <1>2, <1>3, <1>4 DEF Keeps, Fields, Quiet, Lanes, NoOp
<1>9. Inv(y)
  BY <1>1, <1>5, <1>6, <1>7, <1>8 DEF Inv, InvBut, Ready
<1> QED
  BY <1>9 DEF v, w, y

LEMMA RequestFileInv ==
    ASSUME Inv(Here), NEW r \in Resources, RequestFile(r)
    PROVE  Inv(Lane(svc', ad'))
<1> DEFINE x == With(Here, Fenced(svc))
           taken == With(x, Consumed(x.v))
           reopen == Fences(svc)
           begun(y, pc) == With(y, [Begins(y.v, "file", r, pc) EXCEPT !.quiesced = TRUE])
           refused(y) == With(y, [y.v EXCEPT !.quiesced = FALSE])
           ended(y) == With(y, [y.v EXCEPT !.op.reopen = (y.v.op.kind = "file") /\ reopen])
<1>1. OwnerIdle /\ ~svc.stopping
  BY Zenon DEF RequestFile
<1>2. PICK y \in FileApplied(x, r, svc.staged) : Set(ended(y))
  BY Zenon DEF RequestFile
<1>3. \/ y = begun(taken, "reserve")
      \/ \E q \in Barrier(taken) :
            \/ ~OutputsSafe(q.v) /\ y = refused(q)
            \/ \E pc \in {"reserve", "retire"} : y = begun(q, pc)
  <2>1. y \in IF svc.staged = "live" THEN {begun(taken, "reserve")}
              ELSE {IF ~OutputsSafe(q.v) THEN refused(q)
                    ELSE begun(q, IF svc.staged = "rebind" THEN "retire" ELSE "reserve") :
                    q \in Barrier(taken)}
    BY Zenon DEF FileApplied
  <2> HIDE DEF begun, refused, taken
  <2> QED
    BY <2>1
<1>4. /\ Inv(x) /\ x.v.op.kind = "none" /\ x.v.terminal = "none" /\ ~x.v.panicked
      /\ ~x.v.stopping /\ (reopen => x.v.gate # "open") /\ x.v.apply = svc.apply
  <2>1. Inv(With(Here, Fenced(svc)))
    BY HereLaws, FencesGate
  <2>2. Keeps(svc, Fenced(svc), Fields, {"gate"})
        /\ Fenced(svc).gate = IF reopen THEN "closed" ELSE svc.gate
    BY HereLaws, FencedKeeps DEF Inv, InvBut, Ready
  <2>3. x.v = Fenced(svc)
    BY HereLaws, WithLaws
  <2> HIDE DEF reopen
  <2> QED
    BY <1>1, <2>1, <2>2, <2>3 DEF Keeps, Fields, OwnerIdle
<1>5. reopen => ~svc.apply.reopen
  BY HereLaws DEF Inv, InvBut, Fence, Fences
<1> HIDE DEF x
<1>6. /\ Inv(taken) /\ taken.v.op.kind = "none" /\ taken.v.terminal = "none"
      /\ ~taken.v.panicked /\ ~taken.v.stopping /\ (reopen => taken.v.gate # "open")
      /\ taken.v.apply = svc.apply
  <2>1. Inv(taken)
    BY <1>4, Consumes
  <2>2. taken.v = Consumed(x.v)
    BY <1>4, WithLaws DEF Inv, InvBut, Ready
  <2>3. Keeps(x.v, Consumed(x.v), Fields, {"staged"})
    BY <1>4 DEF Inv, InvBut, Ready, Shape, Keeps, Fields, Consumed
  <2> QED
    BY <1>4, <2>1, <2>2, <2>3 DEF Keeps, Fields
<1> HIDE DEF taken
<1>7. ASSUME NEW q \in Barrier(taken)
      PROVE  /\ Inv(q) /\ q.v.op.kind = "none" /\ q.v.terminal = "none" /\ ~q.v.panicked
             /\ ~q.v.stopping /\ (reopen => q.v.gate # "open") /\ q.v.apply = svc.apply
  <2>1. Inv(q) /\ SameRest(taken.v, q.v) /\ Gated(taken.v, q.v)
    BY <1>6, <1>7, BarrierInv
  <2> QED
    BY <1>6, <2>1 DEF SameRest, Gated
<1>8. reopen \in BOOLEAN
  BY DEF Fences
<1> HIDE DEF reopen
<1>9. ASSUME NEW q, NEW pc \in {"reserve", "retire"}, y = begun(q, pc),
             Inv(q) /\ q.v.op.kind = "none" /\ q.v.terminal = "none" /\ ~q.v.panicked
               /\ ~q.v.stopping /\ (reopen => q.v.gate # "open") /\ q.v.apply = svc.apply
      PROVE  Inv(ended(y))
  <2>1. Inv(ended(begun(q, pc)))
    BY <1>5, <1>8, <1>9, FileBegun, Zenon
  <2> HIDE DEF begun, ended
  <2> QED
    BY <1>9, <2>1
<1>10. ASSUME NEW q \in Barrier(taken), y = refused(q)
       PROVE  Inv(ended(y))
  <2> DEFINE b == [q.v EXCEPT !.quiesced = FALSE]
             g == [b EXCEPT !.op.reopen = (b.op.kind = "file") /\ reopen]
  <2>1. Inv(With(q, [q.v EXCEPT !.quiesced = FALSE, !.op.reopen = FALSE]))
    BY <1>7, <1>10, FileRefused, Zenon
  <2>2. DOMAIN q.v = Fields /\ q.v.op.kind = "none" /\ q = Lane(q.v, q.a)
    BY <1>7, <1>10 DEF Inv, InvBut, Ready, Shape
  <2>3. g = [q.v EXCEPT !.quiesced = FALSE, !.op.reopen = FALSE]
    BY <2>2 DEF Fields
  <2>4. refused(q) = With(q, b)
    OBVIOUS
  <2> HIDE DEF b
  <2>5. y.v = b /\ \A u : With(y, u) = With(q, u)
    BY <1>10, <2>2, <2>4, WithLaws
  <2>6. ended(y) = With(q, g)
    BY <2>5
  <2> HIDE DEF g, ended
  <2> QED
    BY <2>1, <2>3, <2>6
<1>11. Inv(ended(y))
  <2> HIDE DEF begun, refused, ended
  <2> QED
    BY <1>3, <1>6, <1>7, <1>9, <1>10
<1> HIDE DEF ended
<1> QED
  BY <1>2, <1>11, SetInv

-----------------------------------------------------------------------------
(* Deadlines, leases, the storage thread and the workers.                  *)

LEMMA ElapsesInv ==
    ASSUME Inv(Here), Elapses
    PROVE  Inv(Lane(svc', ad'))
<1>1. CASE DeadlinePasses
  <2> DEFINE w == [svc EXCEPT !.op.late = TRUE]
  <2>1. svc.op.pc \in Waits /\ svc' = w /\ ad' = ad
    BY <1>1 DEF DeadlinePasses
  <2>2. Inv(With(Here, w))
    BY <2>1, HereLaws, OperationIsLate, Zenon
  <2> HIDE DEF w
  <2> QED
    BY <2>1, <2>2, OwnerInv
<1>2. CASE ApplyDeadlinePasses
  <2> DEFINE w == [svc EXCEPT !.apply.late = TRUE]
  <2>1. svc.apply.phase # "none" /\ svc' = w /\ ad' = ad
    BY <1>2 DEF ApplyDeadlinePasses
  <2>2. Inv(With(Here, w))
    BY <2>1, HereLaws, ApplicationIsLate, Zenon
  <2> HIDE DEF w
  <2> QED
    BY <2>1, <2>2, OwnerInv
<1>3. CASE SafetyDeadline
  <2> DEFINE w == [svc EXCEPT !.safeLate = TRUE]
  <2>1. svc' = w /\ ad' = ad
    BY <1>3 DEF SafetyDeadline
  <2>2. Inv(With(Here, w))
    BY <2>1, HereLaws, SafetyIsLate, Zenon
  <2> HIDE DEF w
  <2> QED
    BY <2>1, <2>2, OwnerInv
<1>4. CASE FlushDeadline
  <2> DEFINE w == [svc EXCEPT !.flushLate = TRUE]
  <2>1. svc' = w /\ ad' = ad
    BY <1>4 DEF FlushDeadline
  <2>2. Inv(With(Here, w))
    BY <2>1, HereLaws, FlushIsLate, Zenon
  <2> HIDE DEF w
  <2> QED
    BY <2>1, <2>2, OwnerInv
<1>5. ASSUME NEW r \in Resources, LeaseEnds(r)
      PROVE  Inv(Lane(svc', ad'))
  <2> DEFINE w == [svc EXCEPT !.out[r] = "pending"]
  <2>1. svc.out[r] = "armed" /\ svc' = w /\ ad' = ad
    BY <1>5 DEF LeaseEnds
  <2>2. Inv(With(Here, w))
    BY <2>1, HereLaws, Leases, Zenon
  <2> HIDE DEF w
  <2> QED
    BY <2>1, <2>2, OwnerInv
<1>6. ASSUME NEW r \in Resources, TransactionExpires(r)
      PROVE  Inv(Lane(svc', ad'))
  <2> DEFINE off == [svc EXCEPT !.exe[r].offline = TRUE]
             lost == QueueFenced(JobLost(off, r), r)
             x == Lane(off, ad)
             y == Lane(lost, ad)
  <2>1. svc' = lost /\ ad' = ad
    BY <1>6 DEF TransactionExpires
  <2>2. Ready(Lane(svc, ad)) /\ Shape(svc) /\ Jobs(svc)
    BY HereLaws DEF Inv, InvBut, Ready
  <2>3. Executed(svc, off, r)
    BY <2>2, OfflineExecuted
  <2> HIDE DEF off
  <2>4. Turned(Lane(svc, ad), x) /\ Ready(x)
    BY <2>2, <2>3, ExecutedLane
  <2>5. Turned(x, y)
    BY <2>4, FencedTurned
  <2> HIDE DEF lost
  <2>6. Inv(y)
    BY <2>4, <2>5, HereLaws, TurnedTransitive, TurnedInv
  <2> QED
    BY <2>1, <2>6
<1> QED
  BY <1>1, <1>2, <1>3, <1>4, <1>5, <1>6 DEF Elapses

LEMMA StorageInv ==
    ASSUME Inv(Here), Storage
    PROVE  Inv(Lane(svc', ad'))
<1>1. CASE RecorderCommits
  <2> DEFINE w == [svc EXCEPT !.rec.committed = svc.rec.pending, !.rec.pending = 0]
  <2>1. svc.rec.pending # 0 /\ svc' = w /\ ad' = ad
    BY <1>1 DEF RecorderCommits
  <2>2. Inv(With(Here, w))
    BY <2>1, HereLaws, RecordCommits, Zenon
  <2> HIDE DEF w
  <2> QED
    BY <2>1, <2>2, OwnerInv
<1>2. CASE RecorderCloses
  <2> DEFINE w == [svc EXCEPT !.rec.state = "closed"]
  <2>1. svc.rec.state = "closing" /\ svc.rec.pending = 0 /\ svc' = w /\ ad' = ad
    BY <1>2 DEF RecorderCloses
  <2>2. Inv(With(Here, w))
    BY <2>1, HereLaws, RecordCloses, Zenon
  <2> HIDE DEF w
  <2> QED
    BY <2>1, <2>2, OwnerInv
<1>3. CASE RecorderFails
  <2> DEFINE w == [svc EXCEPT !.rec.state = "failed"]
  <2>1. svc.rec.state \in {"up", "closing"} /\ svc' = w /\ ad' = ad
    BY <1>3 DEF RecorderFails
  <2>2. Inv(With(Here, w))
    BY <2>1, HereLaws, RecordFails, Zenon
  <2> HIDE DEF w
  <2> QED
    BY <2>1, <2>2, OwnerInv
<1> QED
  BY <1>1, <1>2, <1>3 DEF Storage

LEMMA WorkerStepInv ==
    ASSUME Inv(Here), NEW i \in Adapters, WorkerStep(i)
    PROVE  Inv(Lane(svc', ad'))
<1>1. PICK b \in WorkerGood(ad[i]) \cup WorkerBad(ad[i]) : ad' = [ad EXCEPT ![i] = b]
  BY DEF WorkerStep
<1>2. svc' = svc
  BY DEF WorkerStep
<1>3. /\ Shape(svc) /\ Jobs(svc) /\ ExecutorsClose(svc, ad) /\ AdaptersInv(ad)
      /\ Lanes(svc) /\ Fence(svc) /\ Owned(svc, ad, NoAdapter) /\ Retired(svc) /\ Sealed(svc)
      /\ Clean(svc) /\ Released(svc) /\ Hidden(svc) /\ Credits(svc) /\ Quiet(svc)
  BY HereLaws DEF Inv, InvBut, Ready
<1>4. Worked(ad[i], b)
  BY <1>1, <1>3, WorkerWorks DEF AdaptersInv
<1>5. /\ DOMAIN ad' = Adapters
      /\ \A j \in Adapters : /\ AdapterInv(ad'[j]) /\ ad'[j].res = ad[j].res
                             /\ ad'[j].dropped = ad[j].dropped
                             /\ IsClosed(ad'[j]) = IsClosed(ad[j])
  BY <1>1, <1>3, <1>4 DEF AdaptersInv, Worked, IsClosed
<1> DEFINE a == ad'
           y == Lane(svc, a)
<1>6. AdaptersInv(a)
  BY <1>5 DEF AdaptersInv
<1> HIDE DEF a
<1>7. ExecutorsClose(svc, a)
  BY <1>3, <1>5 DEF ExecutorsClose, a
<1>8. Owned(svc, a, NoAdapter)
  BY <1>3, <1>5 DEF Owned, ExecutorsClose, a
<1>9. y.v = svc /\ y.a = a /\ y = Lane(y.v, y.a)
  BY DEF Lane
<1> HIDE DEF y
<1>10. Inv(y)
  BY <1>3, <1>6, <1>7, <1>8, <1>9 DEF Inv, InvBut, Ready
<1> QED
  BY <1>2, <1>10 DEF y, a

-----------------------------------------------------------------------------
(* The scenario, and the whole system.                                     *)

\* A step spends a request or a fault of the scenario, and nothing else of it.
Kept == UNCHANGED left
Faulted == left' = [left EXCEPT !.faults = @ - 1]
Asking == left' = [left EXCEPT !.requests = @ - 1]

LEMMA OperationSpends ==
    ASSUME OperationStep
    PROVE  Kept \/ Faulted
<1>1. CASE ReserveStep
  BY <1>1, Zenon DEF ReserveStep, Await, Kept, Faulted
<1>2. CASE FactsStep
  BY <1>2, Zenon DEF FactsStep, Await, Kept, Faulted
<1>3. CASE RetireStep
  BY <1>3, Zenon DEF RetireStep, Await, Kept, Faulted
<1>4. CASE OpenStep
  BY <1>4, Zenon DEF OpenStep, Await, Kept, Faulted
<1>5. CASE OpeningStep
  BY <1>5, Zenon DEF OpeningStep, Await, Kept, Faulted
<1>6. CASE DisposeStep
  BY <1>6, Zenon DEF DisposeStep, Await, Kept, Faulted
<1>7. CASE DiscardStep
  BY <1>7, Zenon DEF DiscardStep, Await, Kept, Faulted
<1>8. CASE ProbeStep
  BY <1>8, Zenon DEF ProbeStep, Await, Kept, Faulted
<1>9. CASE SafingStep
  BY <1>9, Zenon DEF SafingStep, Await, Kept, Faulted
<1>10. CASE ChangeStep
  BY <1>10, Zenon DEF ChangeStep, Await, Kept, Faulted
<1>11. CASE CommitStep
  BY <1>11, Zenon DEF CommitStep, Await, Kept, Faulted
<1>12. CASE ConfirmStep
  BY <1>12, Zenon DEF ConfirmStep, Await, Kept, Faulted
<1>13. CASE RetireFailedStep
  BY <1>13, Zenon DEF RetireFailedStep, Await, Kept, Faulted
<1> QED
  BY <1>1, <1>2, <1>3, <1>4, <1>5, <1>6, <1>7, <1>8, <1>9, <1>10, <1>11, <1>12, <1>13 DEF OperationStep

LEMMA ApplicationSpends ==
    ASSUME PollApply
    PROVE  Kept \/ Faulted
<1>1. CASE ApplyPrepares
  BY <1>1, Zenon DEF ApplyPrepares, Kept, Faulted
<1>2. CASE ApplyReserves
  BY <1>2, Zenon DEF ApplyReserves, Kept, Faulted
<1>3. CASE ApplyRegisters
  BY <1>3, Zenon DEF ApplyRegisters, Kept, Faulted
<1>4. CASE ApplyEstablishesSafe
  BY <1>4, Zenon DEF ApplyEstablishesSafe, Kept, Faulted
<1>5. CASE ApplyCommits
  BY <1>5, Zenon DEF ApplyCommits, Kept, Faulted
<1>6. CASE ApplyConfirms
  BY <1>6, Zenon DEF ApplyConfirms, Kept, Faulted
<1>7. CASE ApplyTimesOut
  BY <1>7, Zenon DEF ApplyTimesOut, Kept, Faulted
<1> QED
  BY <1>1, <1>2, <1>3, <1>4, <1>5, <1>6, <1>7 DEF PollApply

LEMMA OwnerSpends ==
    ASSUME OwnerStep
    PROVE  Kept \/ Faulted \/ Asking
<1>1. CASE OperationStep \/ PollApply
  BY <1>1, OperationSpends, ApplicationSpends
<1>2. CASE MainTurn
  BY <1>2, Zenon DEF MainTurn, Requested, Kept, Faulted, Asking
<1>3. CASE ShutdownStep
  BY <1>3, Zenon DEF ShutdownStep, Requested, Kept, Faulted, Asking
<1>4. CASE RequestRestart
  BY <1>4, Zenon DEF RequestRestart, Requested, Kept, Faulted, Asking
<1>5. CASE RequestShutdown
  BY <1>5, Zenon DEF RequestShutdown, Requested, Kept, Faulted, Asking
<1>6. CASE BeginApply
  BY <1>6, Zenon DEF BeginApply, Requested, Kept, Faulted, Asking
<1>7. CASE StageExpires
  BY <1>7, Zenon DEF StageExpires, Requested, Kept, Faulted, Asking
<1>8. ASSUME NEW r \in left.targets, RequestReconnect(r)
      PROVE  Kept \/ Asking
  BY <1>8, Zenon DEF RequestReconnect, Requested, Kept, Asking
<1>9. ASSUME NEW r \in left.targets, Arm(r)
      PROVE  Kept \/ Asking
  BY <1>9, Zenon DEF Arm, Requested, Kept, Asking
<1>10. ASSUME NEW r \in left.targets \cap Native, RequestFile(r)
      PROVE  Kept \/ Asking
  BY <1>10, Zenon DEF RequestFile, Requested, Kept, Asking
<1>11. ASSUME NEW kind \in {"live", "barrier", "rebind"}, StageFile(kind)
      PROVE  Kept \/ Asking
  BY <1>11, Zenon DEF StageFile, Requested, Kept, Asking
<1>12. ASSUME NEW kind \in {"sensor", "output", "controller"}, StageSimple(kind)
      PROVE  Kept \/ Asking
  BY <1>12, Zenon DEF StageSimple, Requested, Kept, Asking
<1> QED
  BY <1>1, <1>2, <1>3, <1>4, <1>5, <1>6, <1>7, <1>8, <1>9, <1>10, <1>11, <1>12, Zenon DEF OwnerStep

LEMMA NextSpends ==
    ASSUME Next
    PROVE  Kept \/ Faulted \/ Asking
<1>1. CASE OwnerStep
  BY <1>1, OwnerSpends
<1>2. CASE Elapses
  BY <1>2, Zenon DEF Elapses, DeadlinePasses, ApplyDeadlinePasses, SafetyDeadline,
     FlushDeadline, LeaseEnds, TransactionExpires, Kept
<1>3. CASE Storage
  BY <1>3, Zenon DEF Storage, RecorderCommits, RecorderCloses, RecorderFails, Kept, Faulted
<1>4. ASSUME NEW i \in Adapters, WorkerStep(i)
      PROVE  Kept \/ Faulted
  BY <1>4, Zenon DEF WorkerStep, Kept, Faulted
<1>5. CASE Exited
  BY <1>5 DEF Exited, vars, Kept
<1> QED
  BY <1>1, <1>2, <1>3, <1>4, <1>5 DEF Next

\* The resources the scenario names are configured ones.
Bounded ==
    /\ DOMAIN left = {"requests", "faults", "kinds", "targets"}
    /\ left.targets \subseteq Resources

LifecycleInv == Inv(Here) /\ Bounded

LEMMA OwnerStepInv ==
    ASSUME LifecycleInv, OwnerStep
    PROVE  Inv(Lane(svc', ad'))
<1>1. Inv(Here) /\ left.targets \subseteq Resources
  BY DEF LifecycleInv, Bounded
<1>2. CASE OperationStep \/ PollApply \/ MainTurn \/ ShutdownStep
  BY <1>1, <1>2, OperationInv, PollApplyInv, MainTurnInv, ShutdownStepInv
<1>3. CASE RequestRestart \/ RequestShutdown \/ BeginApply
  BY <1>1, <1>3, RequestRestartInv, RequestShutdownInv, BeginApplyInv
<1>4. CASE StageExpires \/ (\E kind \in {"live", "barrier", "rebind"} : StageFile(kind))
             \/ (\E kind \in {"sensor", "output", "controller"} : StageSimple(kind))
  BY <1>1, <1>4, StageInv
<1>5. ASSUME NEW r \in left.targets, RequestReconnect(r) \/ Arm(r)
      PROVE  Inv(Lane(svc', ad'))
  BY <1>1, <1>5, RequestReconnectInv, ArmInv
<1>6. ASSUME NEW r \in left.targets \cap Native, RequestFile(r)
      PROVE  Inv(Lane(svc', ad'))
  BY <1>1, <1>6, RequestFileInv
<1> QED
  BY <1>2, <1>3, <1>4, <1>5, <1>6, Zenon DEF OwnerStep

LEMMA NextInv ==
    ASSUME LifecycleInv, [Next]_vars
    PROVE  LifecycleInv'
<1>1. Inv(Here) /\ Bounded
  BY DEF LifecycleInv
<1>2. Inv(Lane(svc', ad'))
  <2>1. CASE OwnerStep
    BY <2>1, OwnerStepInv
  <2>2. CASE Elapses \/ Storage
    BY <1>1, <2>2, ElapsesInv, StorageInv
  <2>3. ASSUME NEW i \in Adapters, WorkerStep(i)
        PROVE  Inv(Lane(svc', ad'))
    BY <1>1, <2>3, WorkerStepInv
  <2>4. CASE Exited \/ UNCHANGED vars
    BY <1>1, <2>4, HereLaws DEF Exited, vars
  <2> QED
    BY <2>1, <2>2, <2>3, <2>4 DEF Next
<1>3. Bounded'
  <2>1. Kept \/ Faulted \/ Asking
    BY NextSpends DEF vars, Kept
  <2> QED
    BY <1>1, <2>1 DEF Bounded, Kept, Faulted, Asking
<1>4. Here' = Lane(svc', ad')
  BY DEF Here
<1> QED
  BY <1>2, <1>3, <1>4 DEF LifecycleInv

\* Start-up numbers the resources: `first` exists, and is one to one.
Number(f) == \A q, r \in Resources : f[q] = f[r] => q = r

LEMMA FirstExists ==
    \E f \in [Resources -> 1..Cardinality(Resources)] : Number(f)
<1> DEFINE n == Cardinality(Resources)
<1>1. ExistsBijection(1..n, Resources)
  BY LifecycleAssumption, FS_CardinalityType
<1> HIDE DEF n
<1>2. PICK f \in [1..n -> Resources] : \A r \in Resources : \E i \in 1..n : f[i] = r
  BY <1>1 DEF ExistsBijection, Bijection, Surjection, Injection
<1> DEFINE g == [r \in Resources |-> CHOOSE i \in 1..n : f[i] = r]
<1>3. \A r \in Resources : g[r] \in 1..n /\ f[g[r]] = r
  BY <1>2
<1>4. g \in [Resources -> 1..n]
  BY <1>3
<1> HIDE DEF g
<1>5. Number(g)
  BY <1>3 DEF Number
<1> QED
  BY <1>4, <1>5 DEF n

LEMMA RunningLaws ==
    ASSUME NEW r
    PROVE  /\ AdapterInv(Running(r)) /\ Running(r).res = r /\ ~Running(r).dropped
           /\ ~IsClosed(Running(r))
  BY DEF AdapterInv, AdapterFields, Running, Spawned, Off, IsClosed

LEMMA InitInv == Init => LifecycleInv
<1> SUFFICES ASSUME Init PROVE LifecycleInv
  OBVIOUS
<1> DEFINE n == Cardinality(Resources)
           first == CHOOSE f \in [Resources -> 1..n] : \A q, r \in Resources : f[q] = f[r] => q = r
<1>1. PICK c \in Scenarios :
         /\ svc = InitService(first, c.recorded)
         /\ ad = [i \in Adapters |->
                     IF \E r \in Resources : first[r] = i
                     THEN Running(CHOOSE r \in Resources : first[r] = i) ELSE Gone]
         /\ left = [requests |-> c.requests, faults |-> c.faults,
                    kinds |-> c.kinds, targets |-> c.targets]
  BY Zenon DEF Init
<1>2. first \in [Resources -> 1..n] /\ \A q, r \in Resources : first[q] = first[r] => q = r
  BY FirstExists, Zenon DEF Number
<1>3. n \in Nat /\ n <= MaxAdapters /\ MaxAdapters \in Nat
  BY LifecycleAssumption, FS_CardinalityType
<1>4. Candidate \in Resources /\ Candidate \notin Writable /\ c.targets \subseteq Resources
  BY LifecycleAssumption
<1> HIDE DEF n, first
<1>5. Bounded
  BY <1>1, <1>4 DEF Bounded
<1>6. \A r \in Resources : first[r] \in Adapters /\ first[r] # NoAdapter
  BY <1>2, <1>3 DEF Adapters, NoAdapter
<1>7. \A r \in Resources : (CHOOSE q \in Resources : first[q] = first[r]) = r
  BY <1>2
<1>8. /\ DOMAIN ad = Adapters
      /\ \A r \in Resources : ad[first[r]] = Running(r)
      /\ \A i \in Adapters : i \notin {first[r] : r \in Resources} => ad[i] = Gone
  BY <1>1, <1>6, <1>7
<1>9. \A i \in Adapters : ad[i] = Gone \/ \E r \in Resources : ad[i] = Running(r) /\ first[r] = i
  BY <1>8
<1>10. AdaptersInv(ad)
  BY <1>8, <1>9, RunningLaws, GoneIsDropped DEF AdaptersInv
<1>11. /\ DOMAIN svc = Fields
       /\ svc.stopping = FALSE /\ svc.terminal = "none" /\ svc.panicked = FALSE
       /\ svc.quiesced = FALSE /\ svc.gate = "open" /\ svc.closed = {} /\ svc.gated = {}
       /\ svc.exe = [r \in Resources |-> InitExecutor(first[r])]
       /\ svc.bind = [r \in Resources |-> 1]
       /\ svc.probe = [r \in Resources |-> IF r \in Native THEN "good" ELSE "none"]
       /\ svc.out = [r \in Resources |-> IF r \in Writable THEN "safe" ELSE "none"]
       /\ svc.hid = NoHidden /\ svc.quar = FALSE /\ svc.held = NoAdapter
       /\ svc.staged = "none" /\ svc.overlay = FALSE /\ svc.apply = NoApply /\ svc.op = NoOp
  BY <1>1, Zenon DEF InitService, Fields
<1>12. /\ svc.rec.reserved = 0 /\ svc.rec.pending = 0 /\ ~svc.rec.facts
       /\ DOMAIN svc.rec = RecorderFields
  BY <1>1 DEF InitService, RecorderFields
<1>13. \A r \in Resources : /\ svc.exe[r].adapter = first[r] /\ ~svc.exe[r].closed
                            /\ svc.exe[r].job = "none" /\ DOMAIN svc.exe[r] = ExecutorFields
  BY <1>11 DEF InitExecutor, ExecutorFields
<1>14. Shape(svc)
  BY <1>11, <1>12, <1>13
     DEF Shape, ExecutorShape, NoHidden, HiddenFields, NoOp, OpFields, NoApply, ApplyFields
<1>15. Jobs(svc) /\ ExecutorsClose(svc, ad)
  BY <1>6, <1>11, <1>13 DEF Jobs, ExecutorsClose
<1>16. Lanes(svc) /\ Fence(svc) /\ Retired(svc) /\ Sealed(svc) /\ Clean(svc) /\ Released(svc)
  BY <1>4, <1>11, <1>12
     DEF Lanes, Fence, Retired, Sealed, Clean, Released, NoOp, NoApply
<1>17. Owned(svc, ad, NoAdapter)
  BY <1>6, <1>8, <1>9, <1>11, <1>13, RunningLaws, GoneIsDropped
     DEF Owned, HasCandidate, NoOp, NoAdapter
<1>18. Hidden(svc) /\ Credits(svc) /\ Quiet(svc)
  BY <1>4, <1>11, <1>12 DEF Hidden, Simple, Credits, Quiet, NoOp, NoApply, NoHidden
<1> QED
  BY <1>5, <1>10, <1>14, <1>15, <1>16, <1>17, <1>18, HereLaws
     DEF LifecycleInv, Inv, InvBut, Ready

\* Every reachable state of the service owner satisfies the inductive invariant: whose
\* each adapter, fence, credit, quiesce and hidden output is, at every step of
\* OperationStep, PollApply, the main loop and shutdown_step.
THEOREM LifecycleHolds == Spec => []LifecycleInv
<1>1. LifecycleInv /\ [Next]_vars => LifecycleInv'
  BY NextInv
<1> QED
  BY InitInv, <1>1, PTL DEF Spec

-----------------------------------------------------------------------------
(* What is promised of every state.                                        *)

\* A recording fence that closed the Required gate keeps it closed until its own
\* lifecycle is durable: no other operation reopens it in between, since one fence at
\* a time owes the gate its opening (begin_configuration_recording_fence).
THEOREM FenceIsHeld == Spec => []FenceHolds
<1>1. LifecycleInv => FenceHolds
  BY HereLaws DEF LifecycleInv, Inv, InvBut, Fence, FenceHolds
<1> QED
  BY <1>1, LifecycleHolds, PTL

\* An owner at rest holds nothing of an ended operation: no lifecycle or fact credit,
\* no quiesce, no listed candidate, and hidden output evidence only under quarantine
\* (reconnect_resource, restart_virtual_models, fail_pending_simple_apply_with).
THEOREM NothingStaysBehind == Spec => []NothingIsLeftBehind
<1>1. LifecycleInv => NothingIsLeftBehind
  <2> SUFFICES ASSUME LifecycleInv, OwnerIdle, svc.apply.phase = "none",
                      svc.rec.state = "up", ~svc.cut
               PROVE  /\ svc.rec.reserved = 0 /\ ~svc.rec.facts
                      /\ ~svc.quiesced /\ ~svc.hid.listed
                      /\ (svc.hid.state # "none") <=> svc.quar
    BY DEF NothingIsLeftBehind
  <2>1. Lanes(svc) /\ Hidden(svc) /\ Credits(svc) /\ Quiet(svc)
    BY HereLaws DEF LifecycleInv, Inv, InvBut
  <2>2. svc.op = NoOp /\ svc.apply = NoApply /\ ~svc.panicked
    BY <2>1 DEF OwnerIdle, Lanes
  <2>3. svc.rec.reserved = 0 /\ ~svc.rec.facts /\ ~svc.quiesced
    BY <2>1, <2>2 DEF Credits, Quiet, NoOp, NoApply
  <2>4. ~svc.hid.listed
    BY <2>1, <2>2 DEF Hidden
  <2>5. svc.hid.state # "none" => svc.quar
    BY <2>1, <2>2 DEF Hidden, NoApply
  <2>6. svc.quar => svc.hid.state # "none"
    BY <2>1 DEF Hidden
  <2> QED
    BY <2>3, <2>4, <2>5, <2>6
<1> QED
  BY <1>1, LifecycleHolds, PTL

\* The worker of a closed session is off its port.
LEMMA ClosedIsOff ==
    ASSUME NEW a, AdapterInv(a), IsClosed(a)
    PROVE  ~UsesPort(a)
  BY DEF AdapterInv, IsClosed, Off, UsesPort

\* The success exit says what it means of what it looks at: every configured output
\* proved safe, nothing unsealed in the recorder, and every worker the owner still
\* keeps off its port (shutdown_status).
THEOREM SuccessIsHonest == Spec => []CleanExitIsHonest
<1>1. LifecycleInv => CleanExitIsHonest
  <2> SUFFICES ASSUME LifecycleInv, svc.terminal = "clean"
               PROVE  /\ OutputsSafe(svc) /\ svc.rec.pending = 0
                      /\ \A i \in Adapters : ~ad[i].dropped => ~UsesPort(ad[i])
    BY DEF CleanExitIsHonest
  <2>1. /\ Lanes(svc) /\ Sealed(svc) /\ Clean(svc) /\ Owned(svc, ad, NoAdapter)
        /\ ExecutorsClose(svc, ad) /\ AdaptersInv(ad)
    BY HereLaws DEF LifecycleInv, Inv, InvBut, Ready
  <2>2. /\ OutputsSafe(svc) /\ svc.rec.pending = 0
        /\ svc.closed = Resources /\ svc.held = NoAdapter /\ svc.op.cand = NoAdapter
    BY <2>1 DEF Clean, Sealed, Lanes, NoOp
  <2>3. ASSUME NEW i \in Adapters, ~ad[i].dropped
        PROVE  ~UsesPort(ad[i])
    <3>1. PICK r \in Resources : svc.exe[r].adapter = i
      BY <2>1, <2>2, <2>3 DEF Owned, Adapters, NoAdapter
    <3>2. IsClosed(ad[i])
      BY <2>1, <2>2, <3>1 DEF ExecutorsClose
    <3> QED
      BY <2>1, <3>2, ClosedIsOff DEF AdaptersInv
  <2> QED
    BY <2>2, <2>3
<1> QED
  BY <1>1, LifecycleHolds, PTL

-----------------------------------------------------------------------------
(* What the owner's calls keep from one state to the next.                 *)

\* A service record keeps its evidence, its overlay and the gates of its resources.
Steady(v, w) ==
    /\ v.hid.sent => w.hid.sent
    /\ v.quar => w.quar
    /\ w.overlay = v.overlay
    /\ v.gated \subseteq w.gated

\* No adapter is opened, and none is dropped whose worker may use the port.
Ports(a, b) ==
    \A i \in Adapters :
       /\ b[i].at = a[i].at
       /\ a[i] = Gone => b[i] = Gone
       /\ ~a[i].dropped /\ b[i].dropped => Off(a[i].at)

\* Both, of the owner's lane.
Calm(x, y) == Steady(x.v, y.v) /\ Ports(x.a, y.a)

LEMMA SteadyTransitive ==
    ASSUME NEW u, NEW v, NEW w, Steady(u, v), Steady(v, w)
    PROVE  Steady(u, w)
  BY DEF Steady

LEMMA PortsTransitive ==
    ASSUME NEW a, NEW b, NEW c, Ports(a, b), Ports(b, c)
    PROVE  Ports(a, c)
  BY DEF Ports

LEMMA CalmTransitive ==
    ASSUME NEW x, NEW y, NEW z, Calm(x, y), Calm(y, z)
    PROVE  Calm(x, z)
  BY SteadyTransitive, PortsTransitive DEF Calm

LEMMA PortsKept ==
    ASSUME NEW a
    PROVE  Ports(a, a)
  BY DEF Ports

\* A change of other fields.
LEMMA FrameSteady ==
    ASSUME NEW v, NEW w, NEW F, Keeps(v, w, Fields, F),
           "hid" \notin F, "quar" \notin F, "overlay" \notin F, "gated" \notin F
    PROVE  Steady(v, w)
  BY DEF Keeps, Fields, Steady

LEMMA MovedCalm ==
    ASSUME NEW x, Inv(x), NEW y, Moved(x, y), Elsewhere(x, y)
    PROVE  Calm(x, y)
<1>1. Owned(x.v, x.a, NoAdapter)
  BY DEF Inv, InvBut
<1>2. Steady(x.v, y.v)
  BY DEF Moved, SameRest, SameOutputs, Steady
<1>3. ASSUME NEW i \in Adapters, x.a[i] = Gone
      PROVE  y.a[i] = Gone
  <2>1. \A r \in Resources : x.v.exe[r].adapter # i
    BY <1>1, <1>3, GoneIsDropped DEF Owned
  <2> QED
    BY <1>3, <2>1 DEF Elsewhere
<1>4. \A i \in Adapters : y.a[i].at = x.a[i].at /\ y.a[i].dropped = x.a[i].dropped
  BY DEF Moved, SameAdapters
<1> QED
  BY <1>2, <1>3, <1>4 DEF Calm, Ports

\* A turn of the owner.
LEMMA TurnsCalm ==
    ASSUME NEW x, Inv(x), NEW y \in Turns(x)
    PROVE  Inv(y) /\ y.v.op = x.v.op /\ y.v.rec = x.v.rec /\ Calm(x, y)
<1>1. Turned(x, y) /\ Elsewhere(x, y)
  BY TurnsTurned DEF Inv, InvBut
<1>2. Inv(y) /\ SameRest(x.v, y.v)
  BY TurnsInv
<1> QED
  BY <1>1, <1>2, MovedCalm DEF Turned, SameRest

\* An adapter that is dropped.
LEMMA DropPorts ==
    ASSUME NEW x, x = Lane(x.v, x.a), AdaptersInv(x.a),
           NEW i, i = NoAdapter \/ (i \in Adapters /\ Off(x.a[i].at))
    PROVE  Ports(x.a, DropAdapter(x, i).a)
<1>1. CASE i = NoAdapter
  BY <1>1, PortsKept DEF DropAdapter
<1>2. CASE i # NoAdapter
  <2> DEFINE b == IF Dropped(x.a[i]).at = "finished" THEN Gone ELSE Dropped(x.a[i])
             aa == [x.a EXCEPT ![i] = b]
             y == DropAdapter(x, i)
  <2>1. y.a = aa
    BY <1>2 DEF DropAdapter, Lane
  <2>2. i \in Adapters /\ Off(x.a[i].at) /\ Dropped(x.a[i]).at = x.a[i].at
    BY <1>2, DroppedHandled DEF AdaptersInv, Handled
  <2>3. b.at = x.a[i].at
    BY <2>2, GoneIsDropped
  <2>4. x.a[i] = Gone => b = Gone
    BY <2>2, GoneIsDropped
  <2> HIDE DEF b, y
  <2>5. /\ aa[i] = b
        /\ \A j \in Adapters : j # i => aa[j] = x.a[j]
    BY <2>2 DEF AdaptersInv
  <2> HIDE DEF aa
  <2>6. Ports(x.a, aa)
    BY <2>2, <2>3, <2>4, <2>5 DEF Ports
  <2> QED
    BY <2>1, <2>6 DEF y
<1> QED
  BY <1>1, <1>2

\* A failed operation that has no adapter of its own.
LEMMA RefusedCalm ==
    ASSUME NEW x, Inv(x)
    PROVE  Calm(x, Refused(x)) /\ Refused(x) = Lane(Refused(x).v, x.a)
<1> DEFINE c == Cancelled(x.v, x.v.op.gen)
           u == IF x.v.op.cancel THEN c ELSE x.v
           w == Ended(u)
<1>1. Shape(x.v) /\ x = Lane(x.v, x.a)
  BY DEF Inv, InvBut, Ready
<1>2. Keeps(x.v, c, Fields, {"rec"}) /\ Shape(c)
  BY <1>1, CancelledKeeps
<1>3. Refused(x) = With(x, w)
  BY Zenon DEF Refused
<1> HIDE DEF c
<1>4. Steady(x.v, u) /\ Shape(u)
  BY <1>1, <1>2, FrameSteady DEF Steady
<1> HIDE DEF u
<1>5. Keeps(u, w, Fields, {"op", "quiesced"})
  BY <1>4, EndedKeeps
<1> HIDE DEF w
<1>6. Steady(x.v, w)
  BY <1>4, <1>5, FrameSteady, SteadyTransitive
<1>7. With(x, w) = Lane(w, x.a) /\ With(x, w).v = w /\ With(x, w).a = x.a
  BY <1>1, WithLaws
<1> QED
  BY <1>3, <1>6, <1>7, PortsKept DEF Calm

LEMMA RefusedDropsCalm ==
    ASSUME NEW x, Inv(x)
    PROVE  /\ Steady(x.v, DropAdapter(Refused(x), x.v.op.cand).v)
           /\ x.v.op.cand = NoAdapter => Calm(x, DropAdapter(Refused(x), x.v.op.cand))
<1> DEFINE y == Refused(x)
<1>1. Calm(x, y) /\ y = Lane(y.v, x.a)
  BY RefusedCalm
<1> HIDE DEF y
<1>2. DropAdapter(y, x.v.op.cand).v = y.v
  BY <1>1, DropCommutes, LaneLaws
<1>3. x.v.op.cand = NoAdapter => DropAdapter(y, x.v.op.cand) = y
  BY DEF DropAdapter
<1> QED
  BY <1>1, <1>2, <1>3 DEF Calm, y

LEMMA CutSteady ==
    ASSUME NEW x, Inv(x)
    PROVE  Steady(x.v, Cut(x).v)
<1> DEFINE e == Ended(x.v)
           w == [e EXCEPT !.quiesced = x.v.quiesced, !.cut = TRUE]
           y == With(x, w)
<1>1. Shape(x.v) /\ x = Lane(x.v, x.a)
  BY DEF Inv, InvBut, Ready
<1>2. Keeps(x.v, e, Fields, {"op", "quiesced"})
  BY <1>1, EndedKeeps
<1>3. Cut(x) = DropAdapter(y, x.v.op.cand)
  BY Zenon DEF Cut
<1>4. y = Lane(y.v, y.a) /\ y.v = w
  BY <1>1, WithLaws DEF Lane
<1> HIDE DEF y, e
<1>5. Cut(x).v = w
  BY <1>3, <1>4, DropCommutes
<1>6. Keeps(e, w, Fields, {"quiesced", "cut"})
  BY <1>2 DEF Keeps, Fields
<1> HIDE DEF w
<1> QED
  BY <1>2, <1>5, <1>6, FrameSteady, SteadyTransitive

\* What every step of an operation keeps, but for those named below.
Passes == Steady(svc, svc') /\ (Op("reconnect") => Ports(ad, ad'))

LEMMA SetPasses ==
    ASSUME NEW x, Set(x), Steady(svc, x.v), Op("reconnect") => Ports(ad, x.a)
    PROVE  Passes
  BY DEF Set, Passes

LEMMA CalmPasses ==
    ASSUME NEW x, Set(x), Calm(Here, x)
    PROVE  Passes
  BY HereLaws, SetPasses DEF Calm

\* The owner's record moves on, and the adapters stay.
LEMMA WithCalm ==
    ASSUME NEW x, x = Lane(x.v, x.a), NEW w, Steady(x.v, w)
    PROVE  Calm(x, With(x, w))
  BY WithLaws, PortsKept DEF Calm

LEMMA GotoSteady ==
    ASSUME NEW v, Shape(v), NEW pc
    PROVE  Steady(v, Goto(v, pc))
<1>1. Keeps(v, Goto(v, pc), Fields, {"op"})
  BY GotoKeeps
<1> QED
  BY <1>1, FrameSteady

\* A resource is gated on the way.
LEMMA GatedSteady ==
    ASSUME NEW v, NEW w, NEW F, Keeps(v, w, Fields, F),
           "hid" \notin F, "quar" \notin F, "overlay" \notin F, v.gated \subseteq w.gated
    PROVE  Steady(v, w)
  BY DEF Keeps, Fields, Steady

LEMMA ReservePasses ==
    ASSUME Inv(Here), ReserveStep
    PROVE  Passes
<1>1. svc.op.pc = "reserve" /\ Working(svc.op) /\ Shape(svc)
  BY HereLaws, AtWork DEF ReserveStep, At, Inv, InvBut, Ready
<1>2. ASSUME NEW x, Inv(x), x.v.op = svc.op, Calm(Here, x),
             Set(ReserveError(x)) \/ Set(ReserveTimeout(x))
      PROVE  Passes
  <2>1. Op("reconnect") => x.v.op.cand = NoAdapter
    BY <1>1, <1>2, NoCandidate DEF HasCandidate, Op
  <2>2. Steady(svc, x.v) /\ Ports(ad, x.a)
    BY <1>2, HereLaws DEF Calm
  <2>3. CASE Set(ReserveTimeout(x))
    <3> DEFINE y == DropAdapter(Refused(x), x.v.op.cand)
    <3>1. Steady(x.v, y.v) /\ (x.v.op.cand = NoAdapter => Calm(x, y))
      BY <1>2, RefusedDropsCalm
    <3>2. Set(y)
      BY <2>3 DEF ReserveTimeout
    <3> HIDE DEF y
    <3> QED
      BY <2>1, <2>2, <3>1, <3>2, SetPasses, SteadyTransitive, PortsTransitive DEF Calm
  <2>4. CASE Set(ReserveError(x)) /\ svc.op.kind = "file"
    <3>1. Set(Cut(x))
      BY <1>2, <2>4 DEF ReserveError
    <3>2. Steady(svc, Cut(x).v)
      BY <1>2, <2>2, CutSteady, SteadyTransitive
    <3> QED
      BY <2>4, <3>1, <3>2, SetPasses DEF Op
  <2>5. CASE Set(ReserveError(x)) /\ svc.op.kind # "file"
    <3>1. Set(Refused(x))
      BY <1>2, <2>5 DEF ReserveError
    <3> QED
      BY <1>2, <3>1, RefusedCalm, CalmTransitive, CalmPasses
  <2> QED
    BY <1>2, <2>3, <2>4, <2>5
<1>3. Calm(Here, Here)
  BY PortsKept DEF Calm, Steady
<1>4. CASE Set(ReserveError(Here)) \/ Set(ReserveTimeout(Here))
  BY <1>2, <1>3, <1>4, HereLaws
<1>5. CASE \E y \in Turns(Here) : Set(y) \/ Set(ReserveError(y))
  BY <1>2, <1>5, HereLaws, TurnsCalm, CalmPasses
<1>6. CASE Set(ReserveGranted(Here))
  <2> DEFINE v == Granted(svc)
             w == CASE v.op.kind = "reconnect" -> Goto(v, "facts")
                    [] v.op.kind = "reconcile" ->
                           [Goto(v, "retire") EXCEPT !.gated = @ \cup {v.op.res}]
                    [] OTHER -> Goto(v, "change")
  <2>1. Keeps(svc, v, Fields, {"op", "rec"}) /\ Shape(v)
    BY <1>1, GrantedKeeps
  <2>2. ReserveGranted(Here) = With(Here, w)
    BY HereLaws, Zenon DEF ReserveGranted, Granted
  <2> HIDE DEF v
  <2>3. Steady(svc, v)
    BY <2>1, FrameSteady
  <2>4. Steady(v, Goto(v, "facts")) /\ Steady(v, Goto(v, "change"))
    BY <2>1, GotoSteady
  <2> DEFINE g == Goto(v, "retire")
  <2>5. Steady(v, [g EXCEPT !.gated = @ \cup {v.op.res}])
    <3>1. Keeps(v, g, Fields, {"op"})
      BY <2>1, GotoKeeps
    <3> HIDE DEF g
    <3>2. /\ Keeps(v, [g EXCEPT !.gated = @ \cup {v.op.res}], Fields, {"op", "gated"})
          /\ v.gated \subseteq [g EXCEPT !.gated = @ \cup {v.op.res}].gated
      BY <3>1 DEF Keeps, Fields
    <3> QED
      BY <3>2, GatedSteady
  <2>6. \/ w = Goto(v, "facts") \/ w = Goto(v, "change")
        \/ w = [g EXCEPT !.gated = @ \cup {v.op.res}]
    OBVIOUS
  <2> HIDE DEF w, g
  <2>7. Steady(svc, w)
    <3>1. Steady(v, w)
      BY <2>4, <2>5, <2>6, Zenon
    <3> QED
      BY <2>3, <3>1, SteadyTransitive
  <2> QED
    BY <1>6, <2>2, <2>7, HereLaws, WithCalm, CalmPasses
<1> QED
  BY <1>4, <1>5, <1>6 DEF ReserveStep, Await

LEMMA HereCalm == Calm(Here, Here)
  BY PortsKept DEF Calm, Steady

LEMMA FactsPasses ==
    ASSUME Inv(Here), FactsStep
    PROVE  Passes
<1>1. CASE Set(Refused(Here))
  BY <1>1, RefusedCalm, CalmPasses
<1>2. CASE /\ svc' = [Goto(svc, "retire") EXCEPT !.rec.facts = Recorded(svc),
                                                 !.gated = @ \cup {svc.op.res}]
           /\ ad' = ad
  <2> DEFINE g == Goto(svc, "retire")
             w == [g EXCEPT !.rec.facts = Recorded(svc), !.gated = @ \cup {svc.op.res}]
  <2>1. Keeps(svc, g, Fields, {"op"})
    BY HereLaws, GotoKeeps DEF Inv, InvBut, Ready
  <2>2. svc' = w /\ ad' = ad
    BY <1>2, Zenon
  <2> HIDE DEF g
  <2>3. Keeps(svc, w, Fields, {"op", "rec", "gated"}) /\ svc.gated \subseteq w.gated
    BY <2>1 DEF Keeps, Fields
  <2> HIDE DEF w
  <2> QED
    BY <2>2, <2>3, GatedSteady, PortsKept DEF Passes
<1>3. CASE \E y \in Turns(Here) : Set(y) \/ Set(Refused(y))
  BY <1>3, TurnsCalm, RefusedCalm, CalmTransitive, CalmPasses
<1> QED
  BY <1>1, <1>2, <1>3 DEF FactsStep, Await

\* The executor of the resource is told to retire.
LEMMA ResourceShutCalm ==
    ASSUME NEW x, Inv(x), x.v.op.pc \in {"retire", "retire_failed"}
    PROVE  Calm(x, ShutdownTransport(x, x.v.op.res))
<1>1. x.v.op.res \in Resources /\ Ready(x)
  BY DEF Inv, InvBut, Lanes
<1> QED
  BY <1>1, ResourceShut, ShutdownElsewhere, MovedCalm DEF Shut

LEMMA RetirePasses ==
    ASSUME Inv(Here), RetireStep
    PROVE  Passes
<1> DEFINE x == ShutdownTransport(Here, svc.op.res)
<1>1. svc.op.pc = "retire"
  BY DEF RetireStep, At
<1>2. Inv(x) /\ x.v.op = svc.op /\ Calm(Here, x)
  BY <1>1, HereLaws, ResourceShut, ResourceShutCalm
<1>3. CASE Set(With(x, Goto(x.v, "open")))
  <2> HIDE DEF x
  <2>1. Shape(x.v) /\ x = Lane(x.v, x.a)
    BY <1>2 DEF Inv, InvBut, Ready
  <2> QED
    BY <1>2, <1>3, <2>1, GotoSteady, WithCalm, CalmTransitive, CalmPasses
<1>4. CASE \/ Set(Refused(x))
           \/ \E y \in Turns(x) : Set(y) \/ Set(Refused(y))
  <2> HIDE DEF x
  <2> QED
    BY <1>2, <1>4, TurnsCalm, RefusedCalm, CalmTransitive, CalmPasses
<1>5. CASE Op("reconcile") /\ \E y \in Turns(x) : Set(Cut(y))
  <2>1. PICK y \in Turns(x) : Set(Cut(y))
    BY <1>5
  <2>2. Inv(y) /\ Calm(Here, y)
    BY <1>2, <2>1, TurnsCalm, CalmTransitive
  <2> HIDE DEF x
  <2>3. Steady(svc, Cut(y).v)
    BY <2>2, HereLaws, CutSteady, SteadyTransitive DEF Calm
  <2> QED
    BY <1>5, <2>1, <2>3, SetPasses DEF Op
<1> QED
  BY <1>3, <1>4, <1>5 DEF RetireStep, Await

\* An adapter is opened, or dropped, as PortsAreWatched has it.
Watched ==
    Op("reconnect") =>
      \A i \in Adapters :
         /\ ad[i] = Gone /\ ad'[i] # Gone =>
               \A j \in Adapters : ad[j].res = svc.op.res /\ UsesPort(ad[j]) => ad[j].dropped
         /\ svc.rec.state \in {"up", "absent"} /\ ~ad[i].dropped /\ ad'[i].dropped =>
               ~UsesPort(ad[i])

LEMMA PassesWatched ==
    ASSUME Passes
    PROVE  Steady(svc, svc') /\ Watched
  BY DEF Passes, Ports, Watched, Off, UsesPort

LEMMA OpenWatched ==
    ASSUME Inv(Here), OpenStep
    PROVE  Steady(svc, svc') /\ Watched
<1>1. svc.op.pc = "open" /\ Shape(svc)
  BY HereLaws DEF OpenStep, At, Inv, InvBut, Ready
<1>2. CASE Set(Refused(Here))
  BY <1>2, RefusedCalm, CalmPasses, PassesWatched
<1>3. CASE /\ \E i \in Adapters : ad[i] = Gone
           /\ ad' = [ad EXCEPT ![NewAdapter] = Spawned(svc.op.res)]
           /\ svc' = [Goto(svc, IF Op("file") THEN "reserve" ELSE "opening")
                        EXCEPT !.op.cand = NewAdapter]
  <2>1. NewAdapter \in Adapters
    BY <1>3 DEF NewAdapter
  <2> DEFINE g == Goto(svc, IF Op("file") THEN "reserve" ELSE "opening")
  <2>2. Keeps(svc, g, Fields, {"op"})
    BY <1>1, GotoKeeps
  <2> HIDE DEF g
  <2>3. Keeps(svc, svc', Fields, {"op"})
    BY <1>3, <2>2 DEF Keeps, Fields, g
  <2>4. Steady(svc, svc')
    BY <2>3, FrameSteady
  <2>5. /\ Owned(svc, ad, NoAdapter) /\ Retired(svc) /\ ExecutorsClose(svc, ad)
        /\ AdaptersInv(ad) /\ svc.op.res \in Resources
    BY HereLaws DEF Inv, InvBut, Ready, Lanes
  <2>6. ASSUME Op("reconnect"), NEW j \in Adapters, ad[j].res = svc.op.res, UsesPort(ad[j]),
               ~ad[j].dropped
        PROVE  FALSE
    <3>1. svc.held = NoAdapter /\ svc.op.cand = NoAdapter
      BY <1>1, <2>5, <2>6 DEF Owned, HasCandidate, Op
    <3>2. PICK r \in Resources : svc.exe[r].adapter = j
      BY <2>5, <2>6, <3>1 DEF Owned, Adapters, NoAdapter
    <3>3. r = svc.op.res
      BY <2>5, <2>6, <3>2 DEF Owned
    <3>4. IsClosed(ad[j])
      BY <1>1, <2>5, <3>2, <3>3 DEF Retired, ExecutorsClose
    <3> QED
      BY <2>5, <2>6, <3>4, ClosedIsOff DEF AdaptersInv
  <2>7. \A i \in Adapters : i # NewAdapter => ad'[i] = ad[i]
    BY <1>3, <2>5 DEF AdaptersInv
  <2>8. ~ad'[NewAdapter].dropped
    BY <1>3, <2>1, <2>5 DEF AdaptersInv, Spawned
  <2> QED
    BY <2>4, <2>6, <2>7, <2>8 DEF Watched
<1> QED
  BY <1>2, <1>3 DEF OpenStep

\* The owner looks at its own new adapter.
LEMMA HandledPorts ==
    ASSUME NEW a, AdaptersInv(a), NEW i \in Adapters, ~a[i].dropped, NEW b,
           Handled(a[i], b), b.dropped = a[i].dropped
    PROVE  Ports(a, [a EXCEPT ![i] = b])
<1> DEFINE aa == [a EXCEPT ![i] = b]
<1>1. aa[i] = b /\ \A j \in Adapters : j # i => aa[j] = a[j]
  BY DEF AdaptersInv
<1> HIDE DEF aa
<1>2. Ports(a, aa)
  BY <1>1, GoneIsDropped DEF Ports, Handled
<1> QED
  BY <1>2 DEF aa

LEMMA DisposingCalm ==
    ASSUME NEW x, Inv(x)
    PROVE  Calm(x, Disposing(x))
<1> DEFINE c == Cancelled(x.v, x.v.op.gen)
           g == Goto(c, "dispose")
           w == [g EXCEPT !.op.cancel = FALSE]
<1>1. Shape(x.v) /\ x = Lane(x.v, x.a)
  BY DEF Inv, InvBut, Ready
<1>2. Keeps(x.v, c, Fields, {"rec"}) /\ Shape(c)
  BY <1>1, CancelledKeeps
<1>3. Disposing(x) = With(x, w)
  BY Zenon DEF Disposing
<1> HIDE DEF c
<1>4. Keeps(c, g, Fields, {"op"})
  BY <1>2, GotoKeeps
<1> HIDE DEF g
<1>5. Keeps(g, w, Fields, {"op"})
  BY <1>4 DEF Keeps, Fields
<1> HIDE DEF w
<1>6. Steady(x.v, w)
  BY <1>2, <1>4, <1>5, FrameSteady, SteadyTransitive
<1> QED
  BY <1>1, <1>3, <1>6, WithCalm

LEMMA RetiringCalm ==
    ASSUME NEW x, x = Lane(x.v, x.a), Shape(x.v)
    PROVE  Calm(x, Retiring(x))
  BY GotoSteady, WithCalm DEF Retiring

LEMMA OpeningWatched ==
    ASSUME Inv(Here), OpeningStep
    PROVE  Steady(svc, svc') /\ Watched
<1> DEFINE i == svc.op.cand
           x == Lane(svc, [ad EXCEPT ![i] = Drain(@)])
<1>1. svc.op.pc = "opening" /\ Working(svc.op) /\ HasCandidate(svc.op)
  BY HereLaws, AtWork DEF OpeningStep, At, HasCandidate
<1>2. Inv(x) /\ Ports(ad, x.a) /\ i \in Adapters
  <2>1. i \in Adapters /\ AdapterInv(ad[i])
    BY <1>1, HereLaws, CandidateIs
  <2>2. Handled(ad[i], Drain(ad[i])) /\ Drain(ad[i]).dropped = ad[i].dropped
    BY <2>1, DrainHandled
  <2>3. x = Lane(svc, [ad EXCEPT ![i] = Drain(ad[i])]) /\ x.a = [ad EXCEPT ![i] = Drain(ad[i])]
    BY Zenon DEF Lane
  <2>4. ~ad[i].dropped /\ AdaptersInv(ad)
    BY <2>1, HereLaws DEF Inv, InvBut, Ready, Owned, Adapters, NoAdapter
  <2> HIDE DEF i, x
  <2> QED
    BY <2>1, <2>2, <2>3, <2>4, HereLaws, AdapterInvKept, HandledPorts
<1>3. x.v = svc /\ x = Lane(x.v, x.a) /\ Shape(svc) /\ svc.op.res \in Resources
  BY <1>2, HereLaws DEF Lane, Inv, InvBut, Ready, Lanes
<1>4. svc.op.kind \in {"reconnect", "reconcile"}
  BY <1>1 DEF Working, Placed
<1> HIDE DEF x
<1>5. Calm(Here, x)
  BY <1>2, <1>3, HereLaws DEF Calm, Steady
<1>6. CASE \/ Set(Disposing(x)) \/ Set(With(x, Goto(x.v, "discard")))
           \/ \E y \in Turns(x) : Set(y) \/ Set(Disposing(y))
  <2>1. Calm(x, With(x, Goto(x.v, "discard")))
    BY <1>3, GotoSteady, WithCalm
  <2>2. Passes
    BY <1>2, <1>5, <1>6, <2>1, TurnsCalm, DisposingCalm, CalmTransitive, CalmPasses
  <2> QED
    BY <2>2, PassesWatched
<1>7. CASE Op("reconcile") /\ \E y \in Turns(x) : Set(Cut(y))
  <2>1. PICK y \in Turns(x) : Set(Cut(y))
    BY <1>7
  <2>2. Inv(y) /\ Calm(Here, y)
    BY <1>2, <1>5, <2>1, TurnsCalm, CalmTransitive
  <2>3. Steady(svc, Cut(y).v)
    BY <2>2, HereLaws, CutSteady, SteadyTransitive DEF Calm
  <2> QED
    BY <1>7, <2>1, <2>3, SetPasses, PassesWatched DEF Op
<1>8. CASE /\ Recorded(svc) /\ svc.rec.state # "up"
           /\ Set(Retiring(DropAdapter(With(x, [x.v EXCEPT !.op.cand = NoAdapter]), i)))
  <2> DEFINE u == [x.v EXCEPT !.op.cand = NoAdapter]
             z == With(x, u)
             d == DropAdapter(z, i)
  <2>1. z = Lane(z.v, z.a) /\ z.v = u /\ z.a = x.a
    BY <1>3, WithLaws DEF Lane
  <2>2. Keeps(svc, u, Fields, {"op"})
    BY <1>3 DEF Keeps, Fields, Shape
  <2> HIDE DEF u, z
  <2>3. d.v = u
    BY <2>1, DropCommutes
  <2>4. \A j \in Adapters : x.a[j] = Gone => d.a[j] = Gone
    <3> DEFINE b == IF Dropped(x.a[i]).at = "finished" THEN Gone ELSE Dropped(x.a[i])
    <3>1. d.a = [x.a EXCEPT ![i] = b]
      BY <1>2, <2>1 DEF DropAdapter, Lane, Adapters, NoAdapter
    <3>2. ~x.a[i].dropped
      BY <1>1, <1>2, <1>3 DEF Inv, InvBut, Owned, Adapters, NoAdapter
    <3> HIDE DEF b, d
    <3> QED
      BY <3>1, <3>2, <1>2, GoneIsDropped DEF Inv, InvBut, Ready, AdaptersInv
  <2> DEFINE w == Goto(u, "retire_failed")
             y == With(d, w)
  <2>5. Shape(u)
    BY <1>3, <2>2 DEF Keeps, Fields, Shape, u, OpFields
  <2>6. Keeps(u, w, Fields, {"op"})
    BY <2>5, GotoKeeps
  <2>7. y = Retiring(d) /\ y.v = w /\ y.a = d.a
    <3>1. d = Lane(d.v, d.a)
      BY <2>1 DEF DropAdapter, Lane
    <3>2. Retiring(d) = y
      BY <2>3 DEF Retiring
    <3> HIDE DEF d, w
    <3> QED
      BY <3>1, <3>2, WithLaws
  <2>8. Set(y)
    BY <1>8, <2>7 DEF z, u
  <2> HIDE DEF w, y, d
  <2>9. svc' = w /\ ad' = d.a
    BY <2>7, <2>8 DEF Set
  <2>10. Steady(svc, svc')
    BY <2>2, <2>6, <2>9, FrameSteady, SteadyTransitive
  <2>11. \A j \in Adapters : ad[j] = Gone => ad'[j] = Gone
    BY <1>2, <2>4, <2>9 DEF Ports
  <2>12. svc.rec.state \notin {"up", "absent"}
    BY <1>8 DEF Recorded
  <2> QED
    BY <2>10, <2>11, <2>12 DEF Watched
<1>9. CASE svc.op.kind # "reconcile" /\ Set(With(Rebound(x), Goto(Rebound(x).v, "probe")))
  <2> DEFINE u == BoundAgain(x.v)
             old == x.v.exe[x.v.op.res].adapter
             y == ReboundFromConfiguration(x)
             w == [u EXCEPT !.rec.facts = FALSE]
             g == Goto(w, "probe")
             z == With(x, u)
  <2>1. y = DropAdapter(z, old)
    BY <1>3, ReboundIs
  <2>2. z = Lane(z.v, z.a) /\ z.v = u /\ z.a = x.a
    BY <1>3, WithLaws DEF Lane
  <2>3. Keeps(svc, u, Fields, {"exe", "closed", "bind", "op", "probe", "out"}) /\ Shape(u)
    BY <1>3, BoundKeeps
  <2>4. old \in Adapters /\ Off(x.a[old].at)
    <3>1. Retired(x.v) /\ ExecutorsClose(x.v, x.a) /\ AdaptersInv(x.a)
      BY <1>2 DEF Inv, InvBut, Ready
    <3>2. IsClosed(x.a[old])
      BY <1>1, <1>3, <3>1 DEF Retired, ExecutorsClose
    <3> QED
      BY <1>3, <3>1, <3>2 DEF ExecutorsClose, AdaptersInv, AdapterInv, IsClosed
  <2>5. AdaptersInv(z.a)
    BY <1>2, <2>2 DEF Inv, InvBut, Ready
  <2> HIDE DEF z, y, u, old
  <2>6. y.v = u /\ Ports(x.a, y.a) /\ y = Lane(y.v, y.a)
    <3>1. y.v = u
      BY <2>1, <2>2, DropCommutes
    <3>2. Ports(z.a, DropAdapter(z, old).a)
      BY <2>2, <2>4, <2>5, DropPorts
    <3>3. y = Lane(y.v, y.a)
      BY <2>1, <2>2 DEF DropAdapter, Lane
    <3> QED
      BY <2>1, <2>2, <3>1, <3>2, <3>3
  <2>7. Rebound(x) = With(y, w)
    BY <2>6, Zenon DEF Rebound, y
  <2>8. Keeps(u, w, Fields, {"rec"}) /\ Shape(w)
    BY <2>3 DEF Keeps, Fields, Shape, RecorderFields
  <2> HIDE DEF w
  <2>9. Keeps(w, g, Fields, {"op"})
    BY <2>8, GotoKeeps
  <2> HIDE DEF g
  <2>10. Rebound(x).v = w /\ With(Rebound(x), g) = Lane(g, y.a)
    BY <2>6, <2>7, WithLaws
  <2>11. svc' = g /\ ad' = y.a
    BY <1>9, <2>10, LaneLaws DEF Set, g
  <2>12. Steady(svc, svc')
    BY <2>3, <2>8, <2>9, <2>11, FrameSteady, SteadyTransitive
  <2>13. Ports(ad, ad')
    BY <1>2, <2>6, <2>11, PortsTransitive
  <2> QED
    BY <2>12, <2>13, PassesWatched DEF Passes
<1> QED
  BY <1>3, <1>6, <1>7, <1>8, <1>9 DEF OpeningStep, Await, Op, x

LEMMA DisposePasses ==
    ASSUME Inv(Here), DisposeStep
    PROVE  Passes
<1> DEFINE i == svc.op.cand
           x == Lane(svc, [ad EXCEPT ![i] = TryShutdown(@)])
<1>1. svc.op.pc = "dispose" /\ HasCandidate(svc.op)
  BY DEF DisposeStep, At, HasCandidate
<1>2. Inv(x) /\ Ports(ad, x.a) /\ i \in Adapters
  <2>1. i \in Adapters /\ AdapterInv(ad[i])
    BY <1>1, HereLaws, CandidateIs
  <2>2. Handled(ad[i], TryShutdown(ad[i])) /\ TryShutdown(ad[i]).dropped = ad[i].dropped
    BY <2>1, ShutdownHandled
  <2>3. /\ x = Lane(svc, [ad EXCEPT ![i] = TryShutdown(ad[i])])
        /\ x.a = [ad EXCEPT ![i] = TryShutdown(ad[i])]
    BY Zenon DEF Lane
  <2>4. ~ad[i].dropped /\ AdaptersInv(ad)
    BY <2>1, HereLaws DEF Inv, InvBut, Ready, Owned, Adapters, NoAdapter
  <2> HIDE DEF i, x
  <2> QED
    BY <2>1, <2>2, <2>3, <2>4, HereLaws, AdapterInvKept, HandledPorts
<1>3. x.v = svc /\ x = Lane(x.v, x.a) /\ Shape(svc)
  BY HereLaws DEF Lane, Inv, InvBut, Ready
<1> HIDE DEF x
<1>4. Calm(Here, x) /\ AdaptersInv(x.a)
  BY <1>2, <1>3, HereLaws DEF Calm, Steady, Inv, InvBut, Ready
<1> DEFINE e == Ended(x.v)
<1>5. Keeps(svc, e, Fields, {"op", "quiesced"})
  BY <1>3, EndedKeeps
<1>6. CASE IsClosed(x.a[i]) /\ Set(DropAdapter(With(x, e), i))
  <2> DEFINE z == With(x, e)
  <2>1. z = Lane(z.v, z.a) /\ z.v = e /\ z.a = x.a
    BY <1>3, WithLaws DEF Lane
  <2> HIDE DEF z, e
  <2>2. Off(x.a[i].at)
    BY <1>2, <1>4, <1>6 DEF AdaptersInv, AdapterInv, IsClosed
  <2>3. Ports(z.a, DropAdapter(z, i).a) /\ DropAdapter(z, i).v = e
    BY <1>2, <1>4, <2>1, <2>2, DropPorts, DropCommutes
  <2>4. Steady(svc, e)
    BY <1>5, FrameSteady
  <2> QED
    BY <1>2, <1>6, <2>1, <2>3, <2>4, SetPasses, PortsTransitive DEF z
<1>7. CASE Set(DropAdapter(With(x, [e EXCEPT !.held = i]), svc.held))
  <2> DEFINE h == [e EXCEPT !.held = i]
             z == With(x, h)
  <2>1. z = Lane(z.v, z.a) /\ z.v = h /\ z.a = x.a
    BY <1>3, WithLaws DEF Lane
  <2>2. Keeps(e, h, Fields, {"held"})
    <3> HIDE DEF e
    <3> QED
      BY <1>5 DEF Keeps, Fields
  <2> HIDE DEF e, h, z
  <2>3. Steady(svc, h)
    BY <1>5, <2>2, FrameSteady, SteadyTransitive
  <2>4. DropAdapter(z, svc.held).v = h
    BY <2>1, DropCommutes
  <2>5. Op("reconnect") => svc.held = NoAdapter
    BY HereLaws DEF Inv, InvBut, Owned, Op
  <2>6. svc.held = NoAdapter => DropAdapter(z, svc.held) = z
    BY DEF DropAdapter
  <2>7. Set(DropAdapter(z, svc.held))
    BY <1>7 DEF z, h
  <2> QED
    BY <1>2, <2>1, <2>3, <2>4, <2>5, <2>6, <2>7, SetPasses
<1>8. CASE \E y \in Turns(x) : Set(y)
  BY <1>2, <1>4, <1>8, TurnsCalm, CalmTransitive, CalmPasses
<1> QED
  BY <1>6, <1>7, <1>8 DEF DisposeStep, x

\* Reconciliation discards the evidence of a worker that is off its port.
Reconciles ==
    /\ Op("reconcile") /\ ~UsesPort(ad[svc.exe[Candidate].adapter])
    /\ svc'.hid = NoHidden /\ svc'.overlay = svc.overlay

LEMMA DiscardPasses ==
    ASSUME Inv(Here), DiscardStep
    PROVE  Passes \/ Reconciles
<1>1. svc.op.pc = "discard" /\ Working(svc.op)
  BY HereLaws, AtWork DEF DiscardStep, At
<1>2. /\ Shape(svc) /\ svc.op.res \in Resources /\ Op("reconcile") /\ svc.op.res = Candidate
      /\ Retired(svc) /\ ExecutorsClose(svc, ad) /\ AdaptersInv(ad)
  BY <1>1, HereLaws DEF Inv, InvBut, Ready, Lanes, Working, Placed, Op
<1> DEFINE x == Installed(With(Here, Discarded(svc)))
           w == [Goto(x.v, "commit") EXCEPT !.quar = FALSE]
<1>3. CASE Set(With(x, w))
  <2> DEFINE u == InstalledAgain(svc)
             old == svc.exe[svc.op.res].adapter
             z == With(Here, u)
             f == Goto(u, "commit")
             g == [f EXCEPT !.quar = FALSE]
  <2>1. x = DropAdapter(z, old)
    BY <1>2, HereLaws, InstalledIs
  <2>2. z = Lane(z.v, z.a) /\ z.v = u
    BY HereLaws, WithLaws DEF Lane
  <2>3. /\ Keeps(svc, u, Fields, {"exe", "closed", "gated", "op", "hid"})
        /\ u.hid = NoHidden /\ Shape(u)
    BY <1>2, InstalledKeeps
  <2> HIDE DEF z, u, old
  <2> HIDE DEF x
  <2>4. x.v = u /\ x = Lane(x.v, x.a)
    <3>1. x.v = u
      BY <2>1, <2>2, DropCommutes
    <3>2. x = Lane(x.v, x.a)
      BY <2>1, <2>2 DEF DropAdapter, Lane
    <3> QED
      BY <3>1, <3>2
  <2>5. w = g
    BY <2>4, Zenon
  <2> HIDE DEF w
  <2>6. Keeps(u, f, Fields, {"op"})
    BY <2>3, GotoKeeps
  <2> HIDE DEF f
  <2>7. svc' = g
    BY <1>3, <2>4, <2>5, WithLaws DEF Set
  <2>8. svc'.hid = NoHidden /\ svc'.overlay = svc.overlay
    BY <2>3, <2>6, <2>7 DEF Keeps, Fields
  <2>9. IsClosed(ad[old]) /\ old \in Adapters
    BY <1>1, <1>2 DEF Retired, ExecutorsClose, old
  <2>10. ~UsesPort(ad[old])
    BY <1>2, <2>9, ClosedIsOff DEF AdaptersInv
  <2> QED
    BY <1>2, <2>8, <2>10 DEF Reconciles, old
<1>4. CASE \/ Set(Disposing(Here))
           \/ \E y \in Turns(Here) : Set(y)
  BY <1>4, TurnsCalm, DisposingCalm, CalmTransitive, CalmPasses
<1>5. CASE \E y \in Turns(Here) : Set(Cut(y))
  <2>1. PICK y \in Turns(Here) : Set(Cut(y))
    BY <1>5
  <2>2. Inv(y) /\ Calm(Here, y)
    BY <2>1, TurnsCalm
  <2>3. Steady(svc, Cut(y).v)
    BY <2>2, HereLaws, CutSteady, SteadyTransitive DEF Calm
  <2> QED
    BY <1>2, <2>1, <2>3, SetPasses DEF Op
<1> QED
  BY <1>3, <1>4, <1>5 DEF DiscardStep, Await

LEMMA ProbePasses ==
    ASSUME Inv(Here), ProbeStep
    PROVE  Passes
<1> DEFINE w == ProbesBegun(svc, {svc.op.res})
           x == With(Here, w)
<1>1. Shape(svc)
  BY HereLaws DEF Inv, InvBut, Ready
<1>2. Keeps(svc, w, Fields, {"probe"}) /\ Shape(w)
  BY <1>1, ProbesKeeps
<1>3. Inv(x)
  BY HereLaws, Probes
<1> HIDE DEF w
<1>4. Calm(Here, x)
  BY <1>2, HereLaws, FrameSteady, WithCalm
<1> HIDE DEF x
<1>5. ASSUME NEW y, Inv(y), Calm(Here, y)
      PROVE  Calm(Here, Retiring(y))
  BY <1>5, RetiringCalm, CalmTransitive DEF Inv, InvBut, Ready
<1>6. CASE Set(With(Here, UnverifiedAsked(Goto(svc, "safing"))))
  <2> DEFINE u == Goto(svc, "safing")
             v == UnverifiedAsked(u)
  <2>1. Keeps(svc, u, Fields, {"op"}) /\ Shape(u)
    BY <1>1, GotoKeeps
  <2> HIDE DEF u
  <2>2. Asked(u, v)
    BY <2>1, AskedKeeps
  <2> HIDE DEF v
  <2>3. Steady(svc, v)
    BY <2>1, <2>2, FrameSteady, SteadyTransitive DEF Asked
  <2>4. Set(With(Here, v))
    BY <1>6 DEF v, u
  <2> QED
    BY <2>3, <2>4, HereLaws, WithCalm, CalmPasses
<1>7. CASE \/ Set(Retiring(x)) \/ Set(Retiring(Here))
           \/ \E y \in Turns(x) : Set(y) \/ Set(Retiring(y))
           \/ \E y \in Turns(Here) : Set(y) \/ Set(Retiring(y))
  BY <1>3, <1>4, <1>5, <1>7, HereCalm, TurnsCalm, CalmTransitive, CalmPasses
<1> QED
  BY <1>6, <1>7 DEF ProbeStep, Await, x, w

LEMMA SafingPasses ==
    ASSUME Inv(Here), SafingStep
    PROVE  Passes
<1>1. Shape(svc)
  BY HereLaws DEF Inv, InvBut, Ready
<1>2. ASSUME NEW y, Inv(y), Calm(Here, y)
      PROVE  Calm(Here, Retiring(y))
  BY <1>2, RetiringCalm, CalmTransitive DEF Inv, InvBut, Ready
<1>3. CASE Set(With(Here, Goto(svc, "commit")))
  BY <1>1, <1>3, HereLaws, GotoSteady, WithCalm, CalmPasses
<1>4. CASE \/ Set(Retiring(Here))
           \/ \E y \in Turns(Here) : Set(y) \/ Set(Retiring(y))
  BY <1>2, <1>4, HereCalm, TurnsCalm, CalmPasses
<1> QED
  BY <1>3, <1>4 DEF SafingStep, Await

\* The owner's record moves on, of a lane that did.
LEMMA WithPasses ==
    ASSUME NEW x, x = Lane(x.v, x.a), Calm(Here, x), NEW w, Steady(x.v, w), Set(With(x, w))
    PROVE  Passes
  BY WithCalm, CalmTransitive, CalmPasses

LEMMA ChangePasses ==
    ASSUME Inv(Here), ChangeStep
    PROVE  Passes
<1> DEFINE x == IF svc.op.cand # NoAdapter THEN ReboundFromConfiguration(Here) ELSE Here
           probing == IF Op("file") THEN Native ELSE {}
<1>1. svc.op.kind \in {"restart", "file"}
  BY HereLaws, AtWork DEF ChangeStep, At, Working, Placed
<1>2. Shape(svc) /\ svc.op.res \in Resources
  BY HereLaws DEF Inv, InvBut, Ready, Lanes
<1>3. x = Lane(x.v, x.a) /\ Shape(x.v) /\ Steady(svc, x.v)
  <2>1. CASE svc.op.cand = NoAdapter
    BY <1>2, <2>1, HereLaws DEF Steady
  <2>2. CASE svc.op.cand # NoAdapter
    <3> DEFINE u == BoundAgain(svc)
               old == svc.exe[svc.op.res].adapter
               z == With(Here, u)
    <3>1. x = DropAdapter(z, old)
      BY <1>2, <2>2, HereLaws, ReboundIs
    <3>2. z = Lane(z.v, z.a) /\ z.v = u
      BY HereLaws, WithLaws DEF Lane
    <3>3. Shape(u) /\ Keeps(svc, u, Fields, {"exe", "closed", "bind", "op", "probe", "out"})
      BY <1>2, BoundKeeps
    <3> HIDE DEF z, u, x, old
    <3>4. x.v = u
      BY <3>1, <3>2, DropCommutes
    <3>5. x = Lane(x.v, x.a)
      BY <3>1, <3>2 DEF DropAdapter, Lane
    <3> QED
      BY <3>3, <3>4, <3>5, FrameSteady
  <2> QED
    BY <2>1, <2>2
<1> HIDE DEF x, probing
<1>4. CASE Set(Refused(x))
  <2> DEFINE c == Cancelled(x.v, x.v.op.gen)
             u == IF x.v.op.cancel THEN c ELSE x.v
             w == Ended(u)
  <2>1. Keeps(x.v, c, Fields, {"rec"}) /\ Shape(c)
    BY <1>3, CancelledKeeps
  <2>2. Refused(x) = With(x, w)
    BY Zenon DEF Refused
  <2> HIDE DEF c
  <2>3. Steady(x.v, u) /\ Shape(u)
    BY <1>3, <2>1, FrameSteady DEF Steady
  <2> HIDE DEF u
  <2>4. Keeps(u, w, Fields, {"op", "quiesced"})
    BY <2>3, EndedKeeps
  <2> HIDE DEF w
  <2>5. Steady(svc, w)
    BY <1>3, <2>3, <2>4, FrameSteady, SteadyTransitive
  <2>6. svc' = w
    BY <1>3, <1>4, <2>2, WithLaws DEF Set
  <2> QED
    BY <1>1, <2>5, <2>6 DEF Passes, Op
<1>5. CASE Set(With(x, Goto(ProbesBegun(x.v, probing), "commit")))
  <2> DEFINE u == ProbesBegun(x.v, probing)
             w == Goto(u, "commit")
  <2>1. Keeps(x.v, u, Fields, {"probe"}) /\ Shape(u)
    BY <1>3, ProbesKeeps
  <2> HIDE DEF u
  <2>2. Steady(svc, w)
    BY <1>3, <2>1, FrameSteady, GotoSteady, SteadyTransitive
  <2>3. svc' = w
    BY <1>3, <1>5, WithLaws DEF Set, u
  <2> QED
    BY <1>1, <2>2, <2>3 DEF Passes, Op
<1> QED
  BY <1>4, <1>5 DEF ChangeStep, x, probing

\* The lifecycle is submitted, or lost.
LEMMA CommitPasses ==
    ASSUME Inv(Here), CommitStep
    PROVE  Passes
<1> DEFINE gen == svc.op.gen
           k == Committed(svc, gen)
           c == Cancelled(svc, gen)
           f == RecordingFailed(IF Op("file") THEN svc ELSE c)
           revised(v) == IF Op("file") THEN [v EXCEPT !.rev = @ + 1] ELSE v
           kept == [revised(k) EXCEPT !.op.cancel = FALSE]
           lost == [revised(f) EXCEPT !.op.cancel = FALSE]
           sent == [Goto(kept, "confirm") EXCEPT
                      !.quiesced = IF Op("file") /\ gen = 0 THEN FALSE ELSE @]
<1>1. Shape(svc) /\ ad' = ad
  BY HereLaws DEF CommitStep, Inv, InvBut, Ready
<1>2. svc' = sent \/ svc' = Goto(lost, "retire_failed") \/ svc' = Ended(lost)
  BY Zenon DEF CommitStep
<1>3. Keeps(svc, k, Fields, {"rec"}) /\ DOMAIN k.op = OpFields
  BY <1>1, CommittedKeeps DEF Keeps, Fields, Shape
<1>4. Keeps(svc, f, Fields, {"rec", "gate"}) /\ DOMAIN f.op = OpFields
  <2>1. Keeps(svc, c, Fields, {"rec"}) /\ Shape(c)
    BY <1>1, CancelledKeeps
  <2> DEFINE g == IF Op("file") THEN svc ELSE c
  <2>2. Shape(g) /\ Keeps(svc, g, Fields, {"rec"})
    BY <1>1, <2>1 DEF Keeps, Shape
  <2> HIDE DEF c, g
  <2>3. Keeps(g, RecordingFailed(g), Fields, {"gate"})
    BY <2>2, RecordingFailedKeeps
  <2>4. f = RecordingFailed(g)
    BY DEF g
  <2> HIDE DEF f
  <2>5. Keeps(svc, f, Fields, {"rec", "gate"})
    BY <2>2, <2>3, <2>4 DEF Keeps, Fields
  <2> QED
    BY <1>1, <2>5 DEF Keeps, Fields, Shape
<1> HIDE DEF k, f
<1>5. ASSUME NEW v, Keeps(svc, v, Fields, {"rec", "gate"}), DOMAIN v.op = OpFields
      PROVE  Keeps(svc, [revised(v) EXCEPT !.op.cancel = FALSE], Fields,
                   {"rec", "gate", "rev", "op"})
  BY <1>5 DEF Keeps, Fields
<1>6. /\ Keeps(svc, kept, Fields, {"rec", "gate", "rev", "op"})
      /\ Keeps(svc, lost, Fields, {"rec", "gate", "rev", "op"})
  <2>1. Keeps(svc, k, Fields, {"rec", "gate"})
    BY <1>3 DEF Keeps
  <2> QED
    BY <1>3, <1>4, <1>5, <2>1
<1> HIDE DEF kept, lost
<1>7. CASE svc' = sent
  <2>1. Keeps(svc, svc', Fields, {"rec", "gate", "rev", "op", "quiesced"})
    BY <1>6, <1>7 DEF Keeps, Fields, Goto
  <2> QED
    BY <1>1, <2>1, FrameSteady, PortsKept DEF Passes
<1>8. CASE svc' = Goto(lost, "retire_failed") \/ svc' = Ended(lost)
  <2>1. Keeps(svc, svc', Fields, {"rec", "gate", "rev", "op", "quiesced"})
    BY <1>6, <1>8 DEF Keeps, Fields, Goto, Ended
  <2> QED
    BY <1>1, <2>1, FrameSteady, PortsKept DEF Passes
<1> QED
  BY <1>2, <1>7, <1>8

LEMMA RetireFailedPasses ==
    ASSUME Inv(Here), RetireFailedStep
    PROVE  Passes
<1> DEFINE r == svc.op.res
           y == ShutdownTransport(Here, r)
           x == FailedRetired(Here, r)
<1>1. svc.op.pc = "retire_failed"
  BY DEF RetireFailedStep, At
<1>2. Inv(y) /\ y.v.op = svc.op /\ Calm(Here, y)
  BY <1>1, HereLaws, ResourceShut, ResourceShutCalm
<1>3. r \in Resources
  BY HereLaws DEF Inv, InvBut, Lanes
<1>4. x = IF IsRetired(y, r) THEN With(y, [y.v EXCEPT !.closed = @ \cup {r}]) ELSE y
  BY Zenon DEF FailedRetired
<1> HIDE DEF y, x
<1>5. Inv(x) /\ Calm(Here, x)
  <2>1. CASE ~IsRetired(y, r)
    BY <1>2, <1>4, <2>1
  <2>2. CASE IsRetired(y, r)
    <3> DEFINE w == [y.v EXCEPT !.closed = @ \cup {r}]
               z == With(y, w)
    <3>1. Moved(y, z)
      BY <1>2, <1>3, <2>2, ClosedMoves DEF IsRetired, Inv, InvBut
    <3>2. y = Lane(y.v, y.a) /\ Shape(y.v)
      BY <1>2 DEF Inv, InvBut, Ready
    <3>3. Keeps(y.v, w, Fields, {"closed"})
      BY <3>2 DEF Keeps, Fields, Shape
    <3>4. Calm(y, z)
      BY <3>2, <3>3, FrameSteady, WithCalm
    <3> HIDE DEF z
    <3>5. Inv(z)
      BY <1>1, <1>2, <3>1, MovedInv DEF Moved, SameRest
    <3> QED
      BY <1>2, <1>4, <2>2, <3>4, <3>5, CalmTransitive DEF z
  <2> QED
    BY <2>1, <2>2
<1> QED
  BY <1>5, TurnsCalm, RefusedCalm, CalmTransitive, CalmPasses DEF RetireFailedStep, Await, x

\* The durable lifecycle of a reconnect releases its resource.
Releases ==
    /\ Op("reconnect") /\ ad' = ad
    /\ svc'.hid = svc.hid /\ svc'.quar = svc.quar /\ svc'.overlay = svc.overlay
    /\ svc'.gated = svc.gated \ {svc.op.res}
    /\ IsDurable(svc, svc.op.gen) /\ ProbeReady(svc, svc.op.res) /\ OutputsSafe(svc)
    /\ svc.bind[svc.op.res] > 1 /\ ~svc.exe[svc.op.res].closed

LEMMA ConfirmPasses ==
    ASSUME Inv(Here), ConfirmStep
    PROVE  Passes \/ Releases
<1> DEFINE lost(x) == LET v == RecordingFailed(x.v) IN
                      IF Op("reconnect") THEN Retiring(With(x, v)) ELSE With(x, Ended(v))
           turned(x) == IF Op("file") THEN x ELSE lost(x)
           v == Reopened(svc, svc.op.gen, svc.op.reopen)
<1>1. svc.op.pc = "confirm" /\ Shape(svc) /\ svc.op.res \in Resources
  BY HereLaws DEF ConfirmStep, At, Inv, InvBut, Ready, Lanes
<1>2. ASSUME NEW x, Inv(x), Calm(Here, x)
      PROVE  Calm(Here, lost(x)) /\ Calm(Here, turned(x))
  <2> DEFINE u == RecordingFailed(x.v)
             y == With(x, u)
  <2>1. x = Lane(x.v, x.a) /\ Shape(x.v)
    BY <1>2 DEF Inv, InvBut, Ready
  <2>2. Keeps(x.v, u, Fields, {"gate"}) /\ Shape(u)
    BY <2>1, RecordingFailedKeeps
  <2>3. lost(x) = IF Op("reconnect") THEN Retiring(y) ELSE With(x, Ended(u))
    OBVIOUS
  <2> HIDE DEF u, lost
  <2>4. y = Lane(y.v, y.a) /\ y.v = u /\ Calm(x, y)
    BY <2>1, <2>2, FrameSteady, WithCalm, WithLaws DEF Lane
  <2>5. Keeps(u, Ended(u), Fields, {"op", "quiesced"})
    BY <2>2, EndedKeeps
  <2>6. Calm(x, With(x, Ended(u)))
    BY <2>1, <2>2, <2>5, FrameSteady, SteadyTransitive, WithCalm
  <2> HIDE DEF y
  <2>7. Calm(y, Retiring(y))
    BY <2>2, <2>4, RetiringCalm
  <2> QED
    BY <1>2, <2>3, <2>4, <2>6, <2>7, CalmTransitive
<1>3. CASE \/ Set(lost(Here))
           \/ \E y \in Turns(Here) : Set(y) \/ Set(turned(y)) \/ Set(lost(y))
  <2>1. \A y : Inv(y) /\ Calm(Here, y) => Calm(Here, lost(y)) /\ Calm(Here, turned(y))
    BY <1>2
  <2> HIDE DEF lost, turned
  <2> QED
    BY <1>3, <2>1, HereCalm, TurnsCalm, CalmPasses
<1>4. Keeps(svc, v, Fields, {"gate"}) /\ Shape(v)
  <2>1. Keeps(svc, v, Fields, {"gate"})
    BY <1>1, ReopenedKeeps
  <2> HIDE DEF v
  <2> QED
    BY <1>1, <2>1 DEF Keeps, Fields, Shape
<1>5. Keeps(v, Ended(v), Fields, {"op", "quiesced"})
  BY <1>4, EndedKeeps
<1>6. CASE Set(With(Here, Ended(v))) \/ Set(Retiring(With(Here, v)))
  <2> DEFINE y == With(Here, v)
  <2> HIDE DEF v
  <2>1. Steady(svc, v) /\ Steady(svc, Ended(v))
    BY <1>4, <1>5, FrameSteady, SteadyTransitive
  <2>2. y = Lane(y.v, y.a) /\ y.v = v /\ Calm(Here, y)
    BY <2>1, HereLaws, WithCalm, WithLaws DEF Lane
  <2>3. Calm(Here, With(Here, Ended(v)))
    BY <2>1, HereLaws, WithCalm
  <2> HIDE DEF y
  <2>4. Calm(Here, Retiring(y))
    BY <1>4, <2>2, RetiringCalm, CalmTransitive
  <2> QED
    BY <1>6, <2>3, <2>4, CalmPasses DEF y
<1>7. CASE /\ IsDurable(svc, svc.op.gen) /\ Op("reconnect") /\ Activates(v)
           /\ Set(With(Here, [Ended(v) EXCEPT !.gated = @ \ {svc.op.res}]))
  <2> DEFINE e == Ended(v)
             w == [e EXCEPT !.gated = @ \ {svc.op.res}]
  <2> HIDE DEF v
  <2>1. svc' = w /\ ad' = ad
    BY <1>7, HereLaws, WithLaws, Zenon DEF Set
  <2>2. Keeps(svc, e, Fields, {"gate", "op", "quiesced"})
    BY <1>4, <1>5 DEF Keeps, Fields
  <2> HIDE DEF e
  <2>3. /\ svc'.hid = svc.hid /\ svc'.quar = svc.quar /\ svc'.overlay = svc.overlay
        /\ svc'.gated = svc.gated \ {svc.op.res}
    BY <2>1, <2>2 DEF Keeps, Fields
  <2>4. v.probe = svc.probe /\ v.op = svc.op
    BY <1>4 DEF Keeps, Fields
  <2>5. ProbeReady(svc, svc.op.res)
    BY <1>7, <2>4 DEF Activates, ProbeReady
  <2>6. OutputsSafe(svc) /\ svc.bind[svc.op.res] > 1 /\ ~svc.exe[svc.op.res].closed
    BY <1>1, <1>7, HereLaws DEF Inv, InvBut, Released, Op
  <2> QED
    BY <1>7, <2>1, <2>3, <2>5, <2>6 DEF Releases
<1>8. \/ Set(lost(Here))
      \/ \E y \in Turns(Here) : Set(y) \/ Set(turned(y)) \/ Set(lost(y))
      \/ Set(With(Here, Ended(v))) \/ Set(Retiring(With(Here, v)))
      \/ /\ IsDurable(svc, svc.op.gen) /\ Op("reconnect") /\ Activates(v)
         /\ Set(With(Here, [Ended(v) EXCEPT !.gated = @ \ {svc.op.res}]))
  BY Zenon DEF ConfirmStep, Await
<1> QED
  BY <1>3, <1>6, <1>7, <1>8

-----------------------------------------------------------------------------
(* What a step keeps of the ports, of what is released, and of evidence.   *)

Earned ==
    /\ Op("reconnect") =>
          \A r \in svc.gated \ svc'.gated :
             /\ IsDurable(svc, svc.op.gen) /\ svc.bind[r] > 1 /\ ~svc.exe[r].closed
             /\ r \in Native => svc.probe[r] = "good"
             /\ svc.out[r] \in {"none", "safe"}
    /\ svc'.overlay /\ ~svc.overlay =>
          /\ IsDurable(svc, svc.apply.gen)
          /\ HasOutput(svc.apply.kind) /\ ~svc.stopping => svc.hid.state = "safe"

Evident ==
    /\ svc.hid.sent /\ svc.hid.state # "safe" /\ ~svc.hid.listed /\ ~svc'.hid.sent =>
          Op("reconcile") /\ ~UsesPort(ad[svc.exe[Candidate].adapter])
    /\ svc.quar /\ ~svc'.quar => svc'.hid = NoHidden

Careful == Watched /\ Earned /\ Evident

LEMMA SteadyCareful ==
    ASSUME Steady(svc, svc'), Watched
    PROVE  Careful
  BY DEF Careful, Steady, Earned, Evident

LEMMA OperationCareful ==
    ASSUME Inv(Here), OperationStep
    PROVE  Careful
<1>1. CASE Passes
  BY <1>1, PassesWatched, SteadyCareful
<1>2. CASE OpenStep \/ OpeningStep
  BY <1>2, OpenWatched, OpeningWatched, SteadyCareful
<1>3. CASE Reconciles
  BY <1>3 DEF Reconciles, Careful, Watched, Earned, Evident, Op
<1>4. CASE Releases
  <2>1. svc.op.res \in Resources /\ svc.gated \ svc'.gated \subseteq {svc.op.res}
    BY <1>4, HereLaws DEF Releases, Inv, InvBut, Lanes
  <2>2. Earned /\ Evident
    BY <1>4, <2>1 DEF Releases, Earned, Evident, ProbeReady, OutputsSafe
  <2> QED
    BY <1>4, <2>2 DEF Releases, Careful, Watched
<1>5. CASE ReserveStep \/ FactsStep \/ RetireStep \/ DisposeStep \/ ProbeStep \/ SafingStep
  BY <1>1, <1>5, ReservePasses, FactsPasses, RetirePasses, DisposePasses, ProbePasses,
     SafingPasses
<1>6. CASE DiscardStep \/ ChangeStep \/ CommitStep \/ ConfirmStep \/ RetireFailedStep
  BY <1>1, <1>3, <1>4, <1>6, DiscardPasses, ChangePasses, CommitPasses, ConfirmPasses,
     RetireFailedPasses
<1> QED
  BY <1>2, <1>5, <1>6 DEF OperationStep

\* What a step of an owner without an operation keeps.
Idles ==
    /\ svc.hid.sent /\ svc.hid.state # "safe" /\ ~svc.hid.listed => svc'.hid.sent
    /\ svc.quar => svc'.quar
    /\ svc'.overlay /\ ~svc.overlay =>
          /\ IsDurable(svc, svc.apply.gen)
          /\ HasOutput(svc.apply.kind) /\ ~svc.stopping => svc.hid.state = "safe"

LEMMA IdlesCareful ==
    ASSUME OwnerIdle, Idles
    PROVE  Careful
  BY DEF OwnerIdle, Op, Careful, Watched, Earned, Evident, Idles

LEMMA SteadyIdles ==
    ASSUME Steady(svc, svc')
    PROVE  Idles
  BY DEF Steady, Idles

\* A hidden output that may have been written outlives the failure.
LEMMA AmbiguousKept ==
    ASSUME NEW v, Shape(v), ~v.apply.published, Ambiguous(v)
    PROVE  ApplyFailed(v).hid = v.hid
<1> DEFINE c == IF v.apply.begun THEN Cancelled(v, v.apply.gen) ELSE v
           q == [c EXCEPT !.quar = TRUE]
           w == [q EXCEPT !.apply = NoApply,
                          !.quiesced = IF v.apply.quiesced THEN FALSE ELSE @]
<1>1. ApplyFailed(v) = w
  BY Zenon DEF ApplyFailed
<1>2. Keeps(v, c, Fields, {"rec"})
  <2>1. Keeps(v, Cancelled(v, v.apply.gen), Fields, {"rec"})
    BY CancelledKeeps
  <2>2. Keeps(v, v, Fields, {"rec"})
    BY DEF Keeps, Shape
  <2> QED
    BY <2>1, <2>2
<1> HIDE DEF c
<1>3. w.hid = v.hid
  BY <1>2 DEF Keeps, Fields
<1> HIDE DEF w
<1> QED
  BY <1>1, <1>3

\* An application that fails, in a phase whose hidden output is what it was.
LEMMA FailedIdles ==
    ASSUME Inv(Here), OwnerIdle, svc.apply.phase # "none", FailedTo(svc, svc'),
           ~svc.apply.published /\ Ambiguous(svc) => svc'.hid = svc.hid
    PROVE  Idles
<1>1. Hidden(svc)
  BY HereLaws DEF Inv, InvBut
<1>2. svc'.overlay = svc.overlay
  BY DEF FailedTo, Keeps, Fields
<1>3. ~svc.quar
  BY <1>1 DEF Hidden
<1>4. ASSUME svc.hid.sent, svc.hid.state # "safe", ~svc.hid.listed
      PROVE  svc'.hid.sent
  <2>1. svc.apply.actuator /\ ~svc.apply.published
    BY <1>1, <1>3, <1>4 DEF Hidden, OwnerIdle
  <2> QED
    BY <1>4, <2>1 DEF Ambiguous
<1> QED
  BY <1>2, <1>3, <1>4 DEF Idles

LEMMA FailedHereIdles ==
    ASSUME Inv(Here), OwnerIdle, svc.apply.phase # "none", svc' = ApplyFailed(svc)
    PROVE  Idles
<1>1. Shape(svc)
  BY HereLaws DEF Inv, InvBut, Ready
<1>2. /\ Keeps(svc, svc, Fields, {"hid", "apply", "gate"})
      /\ Keeps(svc.hid, svc.hid, HiddenFields, {"listed"})
      /\ Keeps(svc.apply, svc.apply, ApplyFields, {"published"}) /\ Gated(svc, svc)
  BY <1>1 DEF Keeps, Shape, Gated
<1>3. FailedTo(svc, ApplyFailed(svc))
  BY <1>1, <1>2, FailedKeeps
<1> QED
  BY <1>1, <1>3, AmbiguousKept, FailedIdles

LEMMA BarrierSteady ==
    ASSUME NEW x, Inv(x), NEW y \in Barrier(x)
    PROVE  Steady(x.v, y.v)
<1> DEFINE w == BarrierAsked(x.v)
           z == With(x, w)
<1>1. x = Lane(x.v, x.a) /\ Shape(x.v)
  BY DEF Inv, InvBut, Ready
<1>2. Asked(x.v, w)
  BY <1>1, AskedKeeps
<1>3. y \in PollExecutors(z)
  BY Zenon DEF Barrier
<1> HIDE DEF w
<1>4. Inv(z) /\ z.v = w
  BY <1>1, <1>2, AskedInv, WithLaws
<1> HIDE DEF z
<1>5. Turned(z, y)
  BY <1>3, <1>4, PollTurned DEF Inv, InvBut
<1>6. Steady(z.v, y.v)
  BY <1>5 DEF Turned, Moved, SameRest, SameOutputs, Steady
<1> QED
  BY <1>2, <1>4, <1>6, FrameSteady, SteadyTransitive DEF Asked

LEMMA ApplyPreparesIdles ==
    ASSUME Inv(Here), ApplyPrepares
    PROVE  Idles
<1>1. ASSUME NEW v, Shape(v), NEW p, p = Phase(v, "reserve"),
             NEW g, g = [p EXCEPT !.quiesced = TRUE, !.apply.quiesced = TRUE]
      PROVE  Steady(v, g)
  <2>1. Keeps(v, p, Fields, {"apply"}) /\ DOMAIN p.apply = ApplyFields
    BY <1>1 DEF Keeps, Fields, Shape, Phase
  <2>2. Keeps(v, g, Fields, {"apply", "quiesced"})
    BY <1>1, <2>1 DEF Keeps, Fields
  <2> QED
    BY <2>1, <2>2, FrameSteady
<1>2. CASE Set(With(Here, Phase(svc, "reserve")))
  <2>1. Keeps(svc, Phase(svc, "reserve"), Fields, {"apply"})
    BY HereLaws DEF Inv, InvBut, Ready, Keeps, Fields, Shape, Phase
  <2>2. svc' = Phase(svc, "reserve")
    BY <1>2, HereLaws, WithLaws DEF Set
  <2> QED
    BY <2>1, <2>2, FrameSteady, SteadyIdles
<1>3. ASSUME NEW y \in Barrier(Here),
             IF ~OutputsSafe(y.v) THEN Set(y)
             ELSE Set(With(y, [Phase(y.v, "reserve") EXCEPT
                                 !.quiesced = TRUE, !.apply.quiesced = TRUE]))
      PROVE  Idles
  <2> DEFINE p == Phase(y.v, "reserve")
             w == [p EXCEPT !.quiesced = TRUE, !.apply.quiesced = TRUE]
  <2>1. Inv(y) /\ Steady(svc, y.v) /\ Shape(y.v)
    BY <1>3, HereLaws, BarrierInv, BarrierSteady DEF Inv, InvBut, Ready
  <2>2. Set(y) \/ Set(With(y, w))
    BY <1>3, Zenon
  <2>3. p = Phase(y.v, "reserve") /\ w = [p EXCEPT !.quiesced = TRUE, !.apply.quiesced = TRUE]
    OBVIOUS
  <2> HIDE DEF p, w
  <2>4. Steady(y.v, w)
    BY <1>1, <2>1, <2>3, Zenon
  <2>5. svc' = y.v \/ svc' = w
    BY <2>1, <2>2, WithLaws DEF Set, Inv, InvBut, Ready
  <2> QED
    BY <2>1, <2>4, <2>5, SteadyTransitive, SteadyIdles
<1> QED
  BY <1>2, <1>3, Zenon DEF ApplyPrepares

LEMMA ApplyReservesIdles ==
    ASSUME Inv(Here), ApplyReserves
    PROVE  Idles
<1> DEFINE f == Fenced(svc)
           n == [f EXCEPT !.apply.begun = TRUE, !.apply.reopen = Fences(svc)]
           v == IF svc.apply.begun THEN svc ELSE n
           r == Reserved(v)
           p == Phase(r, "topology")
           w == [p EXCEPT !.apply.gen = Generation(v)]
<1>1. /\ OwnerIdle /\ svc.apply.phase = "reserve" /\ Shape(svc) /\ Hidden(svc)
  BY HereLaws DEF ApplyReserves, ApplyAt, Inv, InvBut, Ready
<1>2. svc' = ApplyFailed(v) \/ svc' = w \/ svc' = v
  BY Zenon DEF ApplyReserves
<1>3. ~svc.hid.sent /\ ~svc.quar /\ ~svc.apply.actuator
  BY <1>1 DEF Hidden, OwnerIdle
<1>4. Keeps(svc, v, Fields, {"gate", "apply"}) /\ Shape(v) /\ ~v.apply.actuator
  <2>1. Keeps(svc, f, Fields, {"gate"})
    BY <1>1, FencedKeeps
  <2> HIDE DEF f
  <2>2. /\ Keeps(svc, n, Fields, {"gate", "apply"}) /\ DOMAIN n.apply = ApplyFields
        /\ n.apply.actuator = svc.apply.actuator
    BY <1>1, <2>1 DEF Keeps, Fields, Shape, ApplyFields
  <2> HIDE DEF n
  <2>3. Shape(n)
    BY <1>1, <2>2 DEF Keeps, Fields, Shape
  <2> QED
    BY <1>1, <1>3, <2>2, <2>3 DEF Keeps, Shape
<1> HIDE DEF v
<1>5. CASE svc' = v
  BY <1>4, <1>5, FrameSteady, SteadyIdles
<1>6. CASE svc' = w
  <2>1. Keeps(v, r, Fields, {"rec"})
    BY <1>4, ReservedKeeps
  <2> HIDE DEF r
  <2>2. Keeps(r, p, Fields, {"apply"})
    BY <2>1 DEF Keeps, Fields, Phase
  <2> HIDE DEF p
  <2>3. Keeps(p, svc', Fields, {"apply"})
    BY <1>6, <2>2 DEF Keeps, Fields
  <2> QED
    BY <1>4, <2>1, <2>2, <2>3, FrameSteady, SteadyTransitive, SteadyIdles
<1>7. CASE svc' = ApplyFailed(v)
  <2>1. /\ Keeps(v, v, Fields, {"hid", "apply", "gate"})
        /\ Keeps(v.hid, v.hid, HiddenFields, {"listed"})
        /\ Keeps(v.apply, v.apply, ApplyFields, {"published"}) /\ Gated(v, v)
    BY <1>4 DEF Keeps, Shape, Gated
  <2>2. FailedTo(v, svc')
    BY <1>4, <1>7, <2>1, FailedKeeps
  <2>3. svc'.overlay = v.overlay /\ v.overlay = svc.overlay
    BY <1>4, <2>2 DEF FailedTo, Keeps, Fields
  <2> QED
    BY <1>3, <2>3 DEF Idles
<1> QED
  BY <1>2, <1>5, <1>6, <1>7

LEMMA ApplyRegistersIdles ==
    ASSUME Inv(Here), ApplyRegisters
    PROVE  Idles
<1> DEFINE p == Phase(svc, "safing")
           w == [p EXCEPT !.hid.state = "pending", !.apply.actuator = TRUE]
<1>1. OwnerIdle /\ svc.apply.phase = "topology" /\ Shape(svc)
  BY HereLaws DEF ApplyRegisters, ApplyAt, Inv, InvBut, Ready
<1>2. svc' = w \/ svc' = Phase(svc, "commit") \/ svc' = ApplyFailed(svc)
  BY Zenon DEF ApplyRegisters
<1>3. CASE svc' = w
  <2>1. Keeps(svc, p, Fields, {"apply"})
    BY <1>1 DEF Keeps, Fields, Shape, Phase
  <2> HIDE DEF p
  <2>2. Keeps(svc, w, Fields, {"apply", "hid"}) /\ w.hid.sent = svc.hid.sent
    BY <1>1, <2>1 DEF Keeps, Fields, Shape, HiddenFields
  <2> HIDE DEF w
  <2>3. Steady(svc, w)
    BY <2>2 DEF Keeps, Fields, Steady
  <2> QED
    BY <1>3, <2>3, SteadyIdles
<1>4. CASE svc' = Phase(svc, "commit")
  <2>1. Keeps(svc, svc', Fields, {"apply"})
    BY <1>1, <1>4 DEF Keeps, Fields, Shape, Phase
  <2> QED
    BY <2>1, FrameSteady, SteadyIdles
<1>5. CASE svc' = ApplyFailed(svc)
  BY <1>1, <1>5, FailedHereIdles
<1> QED
  BY <1>2, <1>3, <1>4, <1>5

LEMMA ApplyEstablishesSafeIdles ==
    ASSUME Inv(Here), ApplyEstablishesSafe
    PROVE  Idles
<1>1. OwnerIdle /\ svc.apply.phase = "safing" /\ Shape(svc)
  BY HereLaws DEF ApplyEstablishesSafe, ApplyAt, Inv, InvBut, Ready
<1>2. CASE svc' = Phase(svc, "commit")
  <2>1. Keeps(svc, svc', Fields, {"apply"})
    BY <1>1, <1>2 DEF Keeps, Fields, Shape, Phase
  <2> QED
    BY <2>1, FrameSteady, SteadyIdles
<1>3. CASE svc' = ApplyFailed(svc)
  BY <1>1, <1>3, FailedHereIdles
<1> QED
  BY <1>2, <1>3 DEF ApplyEstablishesSafe

LEMMA ApplyCommitsIdles ==
    ASSUME Inv(Here), ApplyCommits
    PROVE  Idles
<1> DEFINE v == svc
           l == [v EXCEPT !.hid.listed = TRUE, !.apply.published = TRUE]
           c == Committed(l, v.apply.gen)
           u == RecordingFailed(l)
<1>1. /\ OwnerIdle /\ v.apply.phase = "commit" /\ Shape(v) /\ Hidden(v)
      /\ CanDiscard(v)
  BY HereLaws DEF ApplyCommits, ApplyAt, OwnerIdle, Inv, InvBut, Ready, Hidden, CanDiscard,
     InFlight
<1>2. svc' = Phase(c, "confirm") \/ svc' = ApplyFailed(u)
  BY Zenon DEF ApplyCommits
<1>3. /\ Keeps(v, l, Fields, {"hid", "apply"}) /\ Shape(l)
      /\ Keeps(v.hid, l.hid, HiddenFields, {"listed"})
      /\ Keeps(v.apply, l.apply, ApplyFields, {"published"}) /\ l.apply.published
  BY <1>1 DEF Shape, Keeps, Fields, HiddenFields, ApplyFields
<1> HIDE DEF l
<1>4. CASE svc' = Phase(c, "confirm")
  <2>1. Keeps(l, c, Fields, {"rec"})
    BY <1>3, CommittedKeeps
  <2> HIDE DEF c
  <2>2. Keeps(c, svc', Fields, {"apply"})
    BY <1>4, <2>1 DEF Keeps, Fields, Phase
  <2>3. Steady(v, l)
    BY <1>3 DEF Keeps, Fields, HiddenFields, Steady
  <2> QED
    BY <2>1, <2>2, <2>3, FrameSteady, SteadyTransitive, SteadyIdles
<1>5. CASE svc' = ApplyFailed(u)
  <2>1. Keeps(l, u, Fields, {"gate"}) /\ Gated(l, u) /\ Shape(u)
    BY <1>3, RecordingFailedKeeps DEF Gated
  <2> HIDE DEF u
  <2>2. u.hid = l.hid /\ u.apply = l.apply /\ l.gate = v.gate
    BY <1>3, <2>1 DEF Keeps, Fields
  <2>3. /\ Keeps(v, u, Fields, {"hid", "apply", "gate"}) /\ Gated(v, u)
        /\ Keeps(v.hid, u.hid, HiddenFields, {"listed"})
        /\ Keeps(v.apply, u.apply, ApplyFields, {"published"}) /\ u.apply.published
    BY <1>3, <2>1, <2>2 DEF Keeps, Fields, Gated
  <2> HIDE DEF v
  <2>4. FailedTo(v, ApplyFailed(u))
    BY <1>1, <2>1, <2>3, FailedKeeps
  <2>5. ~Ambiguous(v)
    BY <1>1 DEF Hidden, Ambiguous
  <2> QED
    BY <1>1, <1>5, <2>4, <2>5, FailedIdles DEF v
<1> QED
  BY <1>2, <1>4, <1>5

LEMMA ApplyConfirmsIdles ==
    ASSUME Inv(Here), ApplyConfirms
    PROVE  Idles
<1> DEFINE u == RecordingFailed(svc)
<1>1. OwnerIdle /\ svc.apply.phase = "confirm" /\ Shape(svc) /\ Hidden(svc)
  BY HereLaws DEF ApplyConfirms, ApplyAt, Inv, InvBut, Ready
<1>2. \/ svc' = ApplyFailed(u)
      \/ IsDurable(svc, svc.apply.gen) /\ svc' = Published(svc)
  BY Zenon DEF ApplyConfirms, Published
<1>3. svc.hid.listed /\ ~svc.quar
  BY <1>1 DEF Hidden
<1>4. CASE svc' = ApplyFailed(u)
  <2>1. Keeps(svc, u, Fields, {"gate"}) /\ Shape(u)
    BY <1>1, RecordingFailedKeeps
  <2> HIDE DEF u
  <2>2. /\ Keeps(u, u, Fields, {"hid", "apply", "gate"})
        /\ Keeps(u.hid, u.hid, HiddenFields, {"listed"})
        /\ Keeps(u.apply, u.apply, ApplyFields, {"published"}) /\ Gated(u, u)
    BY <2>1 DEF Keeps, Shape, Gated
  <2>3. FailedTo(u, svc')
    BY <1>4, <2>1, <2>2, FailedKeeps
  <2>4. svc'.overlay = u.overlay /\ u.overlay = svc.overlay
    BY <2>1, <2>3 DEF FailedTo, Keeps, Fields
  <2> QED
    BY <1>3, <2>4 DEF Idles
<1>5. CASE IsDurable(svc, svc.apply.gen) /\ svc' = Published(svc)
  <2>1. HasOutput(svc.apply.kind) /\ ~svc.stopping => svc.hid.state = "safe"
    BY <1>1 DEF Hidden
  <2> QED
    BY <1>3, <1>5, <2>1 DEF Idles
<1> QED
  BY <1>2, <1>4, <1>5

LEMMA PollApplyIdles ==
    ASSUME Inv(Here), PollApply
    PROVE  OwnerIdle /\ Idles
<1>1. CASE ApplyTimesOut
  <2>1. OwnerIdle /\ svc.apply.late /\ svc' = ApplyFailed(svc)
    BY <1>1 DEF ApplyTimesOut
  <2>2. svc.apply.phase # "none"
    BY <2>1, HereLaws DEF Inv, InvBut, Lanes, NoApply
  <2> QED
    BY <2>1, <2>2, FailedHereIdles
<1>2. CASE ~ApplyTimesOut
  <2>1. OwnerIdle
    BY <1>2, Zenon DEF PollApply, ApplyPrepares, ApplyReserves, ApplyRegisters,
       ApplyEstablishesSafe, ApplyCommits, ApplyConfirms, ApplyAt
  <2> QED
    BY <1>2, <2>1, ApplyPreparesIdles, ApplyReservesIdles, ApplyRegistersIdles,
       ApplyEstablishesSafeIdles, ApplyCommitsIdles, ApplyConfirmsIdles DEF PollApply
<1> QED
  BY <1>1, <1>2

LEMMA StopSteady ==
    ASSUME NEW x, Inv(x), x.v.op.kind = "none", x.v.terminal = "none", ~x.v.panicked
    PROVE  Steady(x.v, ShutdownRequested(x).v)
<1> DEFINE y == ShutdownRequested(x)
<1>1. y = x \/ StopAsked(x.v, y.v)
  BY ShutdownRequestedInv
<1> HIDE DEF y
<1>2. Steady(x.v, y.v)
  BY <1>1 DEF StopAsked, Keeps, Fields, HiddenFields, Steady
<1> QED
  BY <1>2 DEF y

LEMMA MainTurnIdles ==
    ASSUME Inv(Here), MainTurn
    PROVE  OwnerIdle /\ Idles
<1> DEFINE fatal(x) == LET y == ShutdownRequested(x) IN With(y, [y.v EXCEPT !.fatal = TRUE])
<1>1. OwnerIdle /\ \E y \in Turns(Here) : Set(y) \/ Set(fatal(y))
  BY Zenon DEF MainTurn
<1>2. ASSUME NEW y \in Turns(Here), Set(y)
      PROVE  Idles
  BY <1>2, HereLaws, TurnsCalm, SteadyIdles DEF Calm, Set
<1>3. ASSUME NEW y \in Turns(Here), Set(fatal(y))
      PROVE  Idles
  <2> DEFINE z == ShutdownRequested(y)
             w == [z.v EXCEPT !.fatal = TRUE]
  <2>1. Inv(z) /\ Steady(y.v, z.v) /\ Steady(svc, y.v)
    BY <1>1, <1>3, HereLaws, TurnIdles, TurnsCalm, ShutdownRequestedInv, StopSteady DEF Calm
  <2>2. fatal(y) = With(z, w)
    OBVIOUS
  <2> HIDE DEF z, fatal
  <2>3. Keeps(z.v, w, Fields, {"fatal"}) /\ z = Lane(z.v, z.a)
    BY <2>1 DEF Inv, InvBut, Ready, Shape, Keeps, Fields
  <2> HIDE DEF w
  <2>4. svc' = w
    BY <1>3, <2>2, <2>3, WithLaws DEF Set
  <2> QED
    BY <2>1, <2>3, <2>4, FrameSteady, SteadyTransitive, SteadyIdles
<1> HIDE DEF fatal
<1> QED
  BY <1>1, <1>2, <1>3

LEMMA RequestShutdownIdles ==
    ASSUME Inv(Here), RequestShutdown
    PROVE  OwnerIdle /\ Idles
<1>1. OwnerIdle /\ svc' = ShutdownRequested(Here).v
  BY DEF RequestShutdown, Requested, Set
<1> QED
  BY <1>1, HereLaws, StopSteady, SteadyIdles DEF OwnerIdle

LEMMA ShutdownStepIdles ==
    ASSUME Inv(Here), ShutdownStep
    PROVE  OwnerIdle /\ Idles
<1>1. OwnerIdle
  BY Zenon DEF ShutdownStep
<1>2. PICK y \in Turns(Here) : Set(With(HeldProgressed(y), Verdict(HeldProgressed(y).v)))
  BY Zenon DEF ShutdownStep
<1> DEFINE x == HeldProgressed(y)
           w == Verdict(x.v)
<1>3. Inv(x) /\ Keeps(y.v, x.v, Fields, {"held"}) /\ Steady(svc, y.v)
  BY HereLaws, TurnsCalm, HeldProgressedInv DEF Calm
<1>4. x.v.op.kind = "none" /\ x.v.terminal = "none" /\ ~x.v.panicked
  BY <1>1, <1>3, TurnIdles DEF Keeps, Fields
<1>5. x = Lane(x.v, x.a)
  BY <1>3 DEF Inv, InvBut, Ready
<1>6. Set(With(x, w))
  BY <1>2
<1> HIDE DEF x
<1>7. Keeps(x.v, w, Fields, {"flushing", "rec", "terminal"})
  BY <1>3, <1>4, Judges
<1> HIDE DEF w
<1>8. svc' = w
  BY <1>5, <1>6, WithLaws DEF Set
<1> QED
  BY <1>1, <1>3, <1>7, <1>8, FrameSteady, SteadyTransitive, SteadyIdles

LEMMA RequestRestartIdles ==
    ASSUME Inv(Here), RequestRestart
    PROVE  OwnerIdle /\ Idles
<1>1. OwnerIdle
  BY Zenon DEF RequestRestart, Requested
<1>2. CASE Set(Here)
  <2>1. svc' = svc
    BY <1>2, HereLaws DEF Set
  <2>2. Steady(svc, svc')
    BY <2>1 DEF Steady
  <2> QED
    BY <1>1, <2>2, SteadyIdles
<1>3. CASE Set(With(Here, BarrierAsked(svc)))
  <2>1. Asked(svc, BarrierAsked(svc))
    BY HereLaws, AskedKeeps DEF Inv, InvBut, Ready
  <2>2. svc' = BarrierAsked(svc)
    BY <1>3, HereLaws, WithLaws DEF Set
  <2>3. Keeps(svc, svc', Fields, {"out"})
    BY <2>1, <2>2 DEF Asked
  <2>4. Steady(svc, svc')
    BY <2>3, FrameSteady
  <2> QED
    BY <1>1, <2>4, SteadyIdles
<1>4. ASSUME NEW y \in Barrier(Here),
             IF ~OutputsSafe(y.v) THEN Set(y)
             ELSE Set(With(y, [Begins(Fenced(y.v), "restart", Candidate, "reserve")
                                 EXCEPT !.op.reopen = Fences(y.v), !.quiesced = TRUE]))
      PROVE  Idles
  <2> DEFINE f == Fenced(y.v)
             b == Begins(f, "restart", Candidate, "reserve")
             w == [b EXCEPT !.op.reopen = Fences(y.v), !.quiesced = TRUE]
  <2>1. Inv(y) /\ Steady(svc, y.v) /\ Shape(y.v) /\ y = Lane(y.v, y.a)
    BY <1>4, HereLaws, BarrierInv, BarrierSteady DEF Inv, InvBut, Ready
  <2>2. Set(y) \/ Set(With(y, w))
    BY <1>4, Zenon
  <2>3. Keeps(y.v, f, Fields, {"gate"})
    BY <2>1, FencedKeeps
  <2> HIDE DEF f
  <2>4. Keeps(y.v, b, Fields, {"gate", "op"})
    BY <2>3 DEF Keeps, Fields, Begins
  <2> HIDE DEF b
  <2>5. Keeps(y.v, w, Fields, {"gate", "op", "quiesced"})
    BY <2>4 DEF Keeps, Fields
  <2> HIDE DEF w
  <2>6. svc' = y.v \/ svc' = w
    BY <2>1, <2>2, WithLaws DEF Set
  <2> QED
    BY <2>1, <2>5, <2>6, FrameSteady, SteadyTransitive, SteadyIdles
<1> QED
  BY <1>1, <1>2, <1>3, <1>4, Zenon DEF RequestRestart

LEMMA RequestFileIdles ==
    ASSUME Inv(Here), NEW r \in Resources, RequestFile(r)
    PROVE  OwnerIdle /\ Idles
<1> DEFINE x == With(Here, Fenced(svc))
           taken == With(x, Consumed(x.v))
           begun(v, pc) == [Begins(v, "file", r, pc) EXCEPT !.quiesced = TRUE]
           refused(v) == [v EXCEPT !.quiesced = FALSE]
           begins(y, pc) == With(y, begun(y.v, pc))
           refuses(y) == With(y, refused(y.v))
           ended(y) == With(y, [y.v EXCEPT !.op.reopen = (y.v.op.kind = "file") /\ Fences(svc)])
<1>1. OwnerIdle /\ Shape(svc)
  BY HereLaws, Zenon DEF RequestFile, Inv, InvBut, Ready
<1>2. PICK y \in FileApplied(x, r, svc.staged) : Set(ended(y))
  BY Zenon DEF RequestFile
<1>3. \E q \in {taken} \cup Barrier(taken) :
         \/ y = refuses(q) \/ y = begins(q, "reserve") \/ y = begins(q, "retire")
  <2>1. y \in IF svc.staged = "live" THEN {begins(taken, "reserve")}
              ELSE {IF ~OutputsSafe(q.v) THEN refuses(q)
                    ELSE begins(q, IF svc.staged = "rebind" THEN "retire" ELSE "reserve") :
                    q \in Barrier(taken)}
    BY Zenon DEF FileApplied
  <2> HIDE DEF begins, refuses, taken
  <2> QED
    BY <2>1
<1>4. Inv(taken) /\ Steady(svc, taken.v)
  <2>1. Inv(x) /\ x.v = Fenced(svc)
    BY HereLaws, FencesGate, WithLaws
  <2>2. Keeps(svc, Fenced(svc), Fields, {"gate"})
    BY <1>1, FencedKeeps
  <2> HIDE DEF x
  <2>3. x.v.op.kind = "none" /\ x.v.terminal = "none" /\ ~x.v.panicked
    BY <1>1, <2>1, <2>2 DEF Keeps, Fields, OwnerIdle
  <2>4. Inv(taken)
    BY <2>1, <2>3, Consumes
  <2>5. taken.v = Consumed(x.v)
    BY <2>1, WithLaws DEF Inv, InvBut, Ready
  <2>6. Keeps(x.v, Consumed(x.v), Fields, {"staged"})
    BY <2>1 DEF Inv, InvBut, Ready, Shape, Keeps, Fields, Consumed
  <2> QED
    BY <2>1, <2>2, <2>4, <2>5, <2>6, FrameSteady, SteadyTransitive
<1> HIDE DEF x, taken
<1>5. PICK q \in {taken} \cup Barrier(taken) :
         \/ y = refuses(q) \/ y = begins(q, "reserve") \/ y = begins(q, "retire")
  BY <1>3
<1>6. Inv(q) /\ Steady(svc, q.v) /\ q = Lane(q.v, q.a) /\ Shape(q.v)
  BY <1>4, BarrierInv, BarrierSteady, SteadyTransitive DEF Inv, InvBut, Ready
<1>7. ASSUME NEW pc PROVE Keeps(q.v, begun(q.v, pc), Fields, {"op", "quiesced"})
  BY <1>6 DEF Keeps, Fields, Shape, Begins
<1>8. Keeps(q.v, refused(q.v), Fields, {"op", "quiesced"})
  BY <1>6 DEF Keeps, Fields, Shape
<1> HIDE DEF begun, refused
<1>9. y = Lane(y.v, q.a) /\ Keeps(q.v, y.v, Fields, {"op", "quiesced"})
  BY <1>5, <1>6, <1>7, <1>8, WithLaws, LaneLaws
<1> DEFINE w == [y.v EXCEPT !.op.reopen = (y.v.op.kind = "file") /\ Fences(svc)]
<1>10. Keeps(q.v, w, Fields, {"op", "quiesced"})
  BY <1>9 DEF Keeps, Fields
<1>11. ended(y) = With(y, w)
  OBVIOUS
<1> HIDE DEF w, ended
<1>12. svc' = w
  BY <1>2, <1>9, <1>11, WithLaws, LaneLaws DEF Set
<1> QED
  BY <1>1, <1>6, <1>10, <1>12, FrameSteady, SteadyTransitive, SteadyIdles

LEMMA FrameIdles ==
    ASSUME OwnerIdle, NEW F, Keeps(svc, svc', Fields, F),
           "hid" \notin F, "quar" \notin F, "overlay" \notin F, "gated" \notin F
    PROVE  OwnerIdle /\ Idles
<1>1. Steady(svc, svc')
  BY FrameSteady
<1> QED
  BY <1>1, SteadyIdles

LEMMA BeginApplyIdles ==
    ASSUME Inv(Here), BeginApply
    PROVE  OwnerIdle /\ Idles
<1> DEFINE w == [Consumed(svc) EXCEPT
                   !.apply = [NoApply EXCEPT !.phase = "prepare", !.kind = svc.staged]]
<1>1. OwnerIdle /\ Set(With(Here, w))
  BY Zenon DEF BeginApply
<1>2. Keeps(svc, w, Fields, {"staged", "apply"})
  BY HereLaws DEF Inv, InvBut, Ready, Shape, Keeps, Fields, Consumed
<1> HIDE DEF w
<1>3. svc' = w
  BY <1>1, HereLaws, WithLaws DEF Set
<1> QED
  BY <1>1, <1>2, <1>3, FrameIdles

LEMMA StageIdles ==
    ASSUME Inv(Here),
           \/ StageExpires
           \/ \E kind \in {"live", "barrier", "rebind"} : StageFile(kind)
           \/ \E kind \in {"sensor", "output", "controller"} : StageSimple(kind)
    PROVE  OwnerIdle /\ Idles
<1>1. Shape(svc)
  BY HereLaws DEF Inv, InvBut, Ready
<1>2. OwnerIdle /\ \E kind \in {"none"} \cup Simple \cup {"live", "barrier", "rebind"} :
                      svc' = SlotTakes(svc, kind)
  <2>1. CASE StageExpires
    BY <2>1 DEF StageExpires, Consumed, SlotTakes
  <2>2. ASSUME NEW kind \in {"live", "barrier", "rebind"}, StageFile(kind)
        PROVE  OwnerIdle /\ svc' = SlotTakes(svc, kind)
    <3>1. OwnerIdle /\ Set(With(Here, SlotTakes(svc, kind)))
      BY <2>2 DEF StageFile, Requested
    <3> QED
      BY <3>1, HereLaws, WithLaws DEF Set
  <2>3. ASSUME NEW kind \in {"sensor", "output", "controller"}, StageSimple(kind)
        PROVE  OwnerIdle /\ svc' = SlotTakes(svc, kind)
    <3>1. OwnerIdle /\ Set(With(Here, SlotTakes(svc, kind)))
      BY <2>3 DEF StageSimple, Requested
    <3> QED
      BY <3>1, HereLaws, WithLaws DEF Set
  <2> QED
    BY <2>1, <2>2, <2>3 DEF Simple
<1>3. Keeps(svc, svc', Fields, {"staged"})
  BY <1>1, <1>2 DEF Shape, Keeps, Fields, SlotTakes
<1> QED
  BY <1>2, <1>3, FrameIdles

LEMMA RequestReconnectIdles ==
    ASSUME Inv(Here), NEW r \in Resources, RequestReconnect(r)
    PROVE  OwnerIdle /\ Idles
<1> DEFINE i == svc.held
           kind == IF svc.quar /\ r = Candidate THEN "reconcile" ELSE "reconnect"
           watched == ~(svc.quar /\ r = Candidate) /\ i # NoAdapter
           z == Lane(svc, [ad EXCEPT ![i] = TryShutdown(@)])
           w == [svc EXCEPT !.held = NoAdapter]
           d == DropAdapter(With(z, w), i)
<1>1. /\ OwnerIdle
      /\ \/ watched /\ Set(z)
         \/ watched /\ Set(With(d, Begins(d.v, kind, r, "reserve")))
         \/ Set(With(Here, Begins(Here.v, kind, r, "reserve")))
  <2> DEFINE x == IF watched THEN z ELSE Here
             y == IF watched THEN DropAdapter(With(x, w), i) ELSE x
  <2>1. /\ OwnerIdle
        /\ Set(IF watched /\ ~IsClosed(x.a[i]) THEN x
               ELSE With(y, Begins(y.v, kind, r, "reserve")))
    BY Zenon DEF RequestReconnect, Requested
  <2> HIDE DEF z, w, kind
  <2>2. watched => x = z /\ y = d
    OBVIOUS
  <2>3. ~watched => x = Here /\ y = Here
    OBVIOUS
  <2> HIDE DEF watched, x, y, d
  <2> QED
    BY <2>1, <2>2, <2>3
<1>2. Shape(svc) /\ Shape(w) /\ Keeps(svc, w, Fields, {"held", "op"})
  BY HereLaws DEF Inv, InvBut, Ready, Shape, Keeps, Fields
<1>3. z.v = svc
  BY LaneLaws
<1>4. watched => Inv(z) /\ Inv(d) /\ d.v = w
  BY HereLaws, HeldShut, HeldDropped
<1> HIDE DEF z, w, d, kind, watched
<1>5. \A v \in {svc, w} : Keeps(svc, Begins(v, kind, r, "reserve"), Fields, {"held", "op"})
  BY <1>2 DEF Shape, Keeps, Fields, Begins
<1>6. \E v \in {svc, w} : svc' = v \/ svc' = Begins(v, kind, r, "reserve")
  <2>1. watched => d = Lane(d.v, d.a)
    BY <1>4 DEF Inv, InvBut, Ready
  <2> QED
    BY <1>1, <1>3, <1>4, <2>1, HereLaws, WithLaws DEF Set
<1>7. Keeps(svc, svc', Fields, {"held", "op"})
  BY <1>2, <1>5, <1>6 DEF Shape, Keeps
<1> QED
  BY <1>1, <1>7, FrameIdles

LEMMA ArmIdles ==
    ASSUME Inv(Here), NEW r \in Resources, Arm(r)
    PROVE  OwnerIdle /\ Idles
<1> DEFINE w == [svc EXCEPT !.out[r] = "armed"]
<1>1. OwnerIdle /\ Set(With(Here, w))
  BY DEF Arm, Requested
<1>2. Keeps(svc, w, Fields, {"out"})
  BY HereLaws DEF Inv, InvBut, Ready, Shape, Keeps, Fields
<1> HIDE DEF w
<1>3. svc' = w
  BY <1>1, HereLaws, WithLaws DEF Set
<1> QED
  BY <1>1, <1>2, <1>3, FrameIdles

LEMMA OwnerCareful ==
    ASSUME LifecycleInv, OwnerStep
    PROVE  Careful
<1>1. Inv(Here) /\ left.targets \subseteq Resources
  BY DEF LifecycleInv, Bounded
<1>2. CASE OperationStep
  BY <1>1, <1>2, OperationCareful
<1>3. CASE PollApply \/ MainTurn \/ ShutdownStep
  BY <1>1, <1>3, PollApplyIdles, MainTurnIdles, ShutdownStepIdles, IdlesCareful
<1>4. CASE RequestRestart \/ RequestShutdown \/ BeginApply
  BY <1>1, <1>4, RequestRestartIdles, RequestShutdownIdles, BeginApplyIdles, IdlesCareful
<1>5. CASE StageExpires \/ (\E kind \in {"live", "barrier", "rebind"} : StageFile(kind))
             \/ (\E kind \in {"sensor", "output", "controller"} : StageSimple(kind))
  BY <1>1, <1>5, StageIdles, IdlesCareful
<1>6. ASSUME NEW r \in left.targets, RequestReconnect(r) \/ Arm(r)
      PROVE  Careful
  BY <1>1, <1>6, RequestReconnectIdles, ArmIdles, IdlesCareful
<1>7. ASSUME NEW r \in left.targets \cap Native, RequestFile(r)
      PROVE  Careful
  BY <1>1, <1>7, RequestFileIdles, IdlesCareful
<1> QED
  BY <1>2, <1>3, <1>4, <1>5, <1>6, <1>7 DEF OwnerStep

\* A deadline, or the storage thread.
LEMMA ElapsesCareful ==
    ASSUME Inv(Here), Elapses \/ Storage
    PROVE  Careful
<1>1. Shape(svc)
  BY HereLaws DEF Inv, InvBut, Ready
<1>2. ad' = ad /\ Steady(svc, svc')
  <2>1. CASE DeadlinePasses \/ ApplyDeadlinePasses
    <3>1. ad' = ad /\ Keeps(svc, svc', Fields, {"op", "apply"})
      BY <1>1, <2>1 DEF DeadlinePasses, ApplyDeadlinePasses, Shape, Keeps, Fields
    <3> QED
      BY <3>1, FrameSteady
  <2>2. CASE SafetyDeadline \/ FlushDeadline
    <3>1. ad' = ad /\ Keeps(svc, svc', Fields, {"safeLate", "flushLate"})
      BY <1>1, <2>2 DEF SafetyDeadline, FlushDeadline, Shape, Keeps, Fields
    <3> QED
      BY <3>1, FrameSteady
  <2>3. ASSUME NEW r \in Resources, LeaseEnds(r)
        PROVE  ad' = ad /\ Steady(svc, svc')
    <3>1. ad' = ad /\ Keeps(svc, svc', Fields, {"out"})
      BY <1>1, <2>3 DEF LeaseEnds, Shape, Keeps, Fields
    <3> QED
      BY <3>1, FrameSteady
  <2>4. ASSUME NEW r \in Resources, TransactionExpires(r)
        PROVE  ad' = ad /\ Steady(svc, svc')
    <3> DEFINE off == [svc EXCEPT !.exe[r].offline = TRUE]
               lost == QueueFenced(JobLost(off, r), r)
    <3>1. svc' = lost /\ ad' = ad
      BY <2>4 DEF TransactionExpires
    <3>2. Ready(Lane(svc, ad)) /\ Jobs(svc)
      BY HereLaws DEF Inv, InvBut, Ready
    <3>3. Executed(svc, off, r)
      BY <1>1, <3>2, OfflineExecuted
    <3> HIDE DEF off
    <3>4. Turned(Lane(svc, ad), Lane(off, ad)) /\ Ready(Lane(off, ad))
      BY <3>2, <3>3, ExecutedLane
    <3>5. Turned(Lane(off, ad), Lane(lost, ad))
      BY <3>4, FencedTurned
    <3> HIDE DEF lost
    <3>6. Turned(Lane(svc, ad), Lane(lost, ad))
      BY <3>4, <3>5, TurnedTransitive
    <3>7. Steady(svc, lost)
      BY <3>6, LaneLaws DEF Turned, Moved, SameRest, SameOutputs, Steady
    <3> QED
      BY <3>1, <3>7
  <2>5. CASE Storage
    <3>1. ad' = ad /\ Keeps(svc, svc', Fields, {"rec"})
      BY <1>1, <2>5
         DEF Storage, RecorderCommits, RecorderCloses, RecorderFails, Shape, Keeps, Fields
    <3> QED
      BY <3>1, FrameSteady
  <2> QED
    BY <2>1, <2>2, <2>3, <2>4, <2>5 DEF Elapses
<1>3. Passes
  BY <1>2, PortsKept DEF Passes
<1> QED
  BY <1>3, PassesWatched, SteadyCareful

\* A worker never revives the adapter of an owner that is gone.
LEMMA WorkerCareful ==
    ASSUME Inv(Here), NEW i \in Adapters, WorkerStep(i)
    PROVE  Careful
<1>1. PICK b \in WorkerGood(ad[i]) \cup WorkerBad(ad[i]) : ad' = [ad EXCEPT ![i] = b]
  BY DEF WorkerStep
<1>2. svc' = svc
  BY DEF WorkerStep
<1>3. AdaptersInv(ad)
  BY HereLaws DEF Inv, InvBut, Ready
<1>4. Worked(ad[i], b) /\ ad[i].at # "finished"
  BY <1>1, <1>3, WorkerWorks DEF AdaptersInv
<1>5. ad[i] # Gone /\ b.dropped = ad[i].dropped
  BY <1>4, GoneIsDropped DEF Worked
<1>6. \A j \in Adapters : (ad[j] = Gone => ad'[j] = Gone) /\ ad'[j].dropped = ad[j].dropped
  BY <1>1, <1>3, <1>5 DEF AdaptersInv
<1>7. Watched
  BY <1>6 DEF Watched
<1>8. Steady(svc, svc')
  BY <1>2 DEF Steady
<1> QED
  BY <1>7, <1>8, SteadyCareful

LEMMA NextCareful ==
    ASSUME LifecycleInv, [Next]_vars
    PROVE  Careful
<1>1. Inv(Here)
  BY DEF LifecycleInv
<1>2. CASE OwnerStep
  BY <1>2, OwnerCareful
<1>3. CASE Elapses \/ Storage
  BY <1>1, <1>3, ElapsesCareful
<1>4. ASSUME NEW i \in Adapters, WorkerStep(i)
      PROVE  Careful
  BY <1>1, <1>4, WorkerCareful
<1>5. CASE Exited \/ UNCHANGED vars
  <2>1. svc' = svc /\ ad' = ad
    BY <1>5 DEF Exited, vars
  <2>2. Passes
    BY <2>1, PortsKept DEF Passes, Steady
  <2> QED
    BY <2>2, PassesWatched, SteadyCareful
<1> QED
  BY <1>2, <1>3, <1>4, <1>5 DEF Next

\* A reconnect never opens a port beside a worker the owner still keeps for it, and
\* while recording works it lets go of no worker that may still use the port
\* (reconnect_resource and its cleanup in service.rs).
THEOREM PortsStayWatched == Spec => PortsAreWatched
<1>1. LifecycleInv /\ [Next]_vars =>
        [Op("reconnect") =>
           \A i \in Adapters :
              /\ ad[i] = Gone /\ ad'[i] # Gone =>
                    \A j \in Adapters :
                       ad[j].res = svc.op.res /\ UsesPort(ad[j]) => ad[j].dropped
              /\ svc.rec.state \in {"up", "absent"} /\ ~ad[i].dropped /\ ad'[i].dropped =>
                    ~UsesPort(ad[i])]_vars
  BY NextCareful DEF Careful, Watched
<1> QED
  BY <1>1, LifecycleHolds, PTL DEF Spec, PortsAreWatched

\* What a reconnect or an application releases has been earned first: the resource its
\* durable lifecycle, its live binding, its probe and its safe output; the overlay its
\* durable lifecycle and its safe output (commit of reconnect, ConfirmRecording).
THEOREM ReleasesAreEarned == Spec => ReleaseIsEarned
<1>1. LifecycleInv /\ [Next]_vars =>
        [/\ Op("reconnect") =>
              \A r \in svc.gated \ svc'.gated :
                 /\ IsDurable(svc, svc.op.gen) /\ svc.bind[r] > 1 /\ ~svc.exe[r].closed
                 /\ r \in Native => svc.probe[r] = "good"
                 /\ svc.out[r] \in {"none", "safe"}
         /\ svc'.overlay /\ ~svc.overlay =>
              /\ IsDurable(svc, svc.apply.gen)
              /\ HasOutput(svc.apply.kind) /\ ~svc.stopping => svc.hid.state = "safe"]_vars
  BY NextCareful DEF Careful, Earned
<1> QED
  BY <1>1, LifecycleHolds, PTL DEF Spec, ReleaseIsEarned

\* A hidden output that may have been written is forgotten before the commit that lists
\* it by one step only, the reconciliation that retired the worker that wrote it, and a
\* quarantine ends only with the evidence gone.
THEOREM EvidenceStays == Spec => EvidenceIsKept
<1>1. LifecycleInv /\ [Next]_vars =>
        [/\ svc.hid.sent /\ svc.hid.state # "safe" /\ ~svc.hid.listed /\ ~svc'.hid.sent =>
              /\ Op("reconcile")
              /\ ~UsesPort(ad[svc.exe[Candidate].adapter])
         /\ svc.quar /\ ~svc'.quar => svc'.hid = NoHidden]_vars
  BY NextCareful DEF Careful, Evident
<1> QED
  BY <1>1, LifecycleHolds, PTL DEF Spec, EvidenceIsKept

=============================================================================
