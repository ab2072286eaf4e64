------------------------ MODULE RecordingHostProofs -------------------------
(***************************************************************************)
(* RecordingHost keeps Tracked for every value of the constants; with it   *)
(* the archive of the past is honest, a stop that was answered is durable, *)
(* and the archive implements DurableLog.                                  *)
(*                                                                         *)
(* Durable is about identities.  The owner knows no more than the receipt  *)
(* confirms, and the receipt no more than the archive has.                 *)
(*                                                                         *)
(* InStep is about the lifecycle: at most one barrier is unanswered, it is *)
(* in the channel or with the thread, and the states of owner, receipt and *)
(* archive are those of its progress (Flow).  A stop whose run is not      *)
(* sealed yet cannot look done to the owner (Doomed).                      *)
(*                                                                         *)
(* Each operation of the owner lane, and then each handler, Goes from a    *)
(* world to one that keeps both.  The storage thread either leaves the     *)
(* archive alone or makes one transaction durable, which rewrites the      *)
(* current boot only.  The next process begins with neither a barrier nor  *)
(* a request.                                                              *)
(***************************************************************************)
EXTENDS RecordingHost, FiniteSetTheorems, SequenceTheorems, WellFoundedInduction, TLAPS

-----------------------------------------------------------------------------
(* Sequences.                                                              *)

\* A sequence, of what does not matter here.
IsSequence(q) == \E S : q \in Seq(S)

\* A message carries a sequence of rows, and a channel a sequence of messages.
IsMessage(m) == IsSequence(m.rows)

IsChannel(q) == \E S : q \in Seq(S) /\ \A m \in S : IsMessage(m)

LEMMA ChannelLaws ==
    ASSUME NEW q, IsChannel(q)
    PROVE  /\ \A m : IsMessage(m) => IsChannel(Append(q, m))
           /\ q # <<>> => IsChannel(Tail(q)) /\ IsMessage(Head(q))
           /\ IsSequence(q)
           /\ Len(q) \in Nat
           /\ \A i \in DOMAIN q : IsMessage(q[i])
<1>1. PICK S : q \in Seq(S) /\ \A m \in S : IsMessage(m)
  BY DEF IsChannel
<1>2. ASSUME NEW m, IsMessage(m) PROVE IsChannel(Append(q, m))
  <2>1. Append(q, m) \in Seq(S \cup {m})
    BY <1>1
  <2>2. \A x \in S \cup {m} : IsMessage(x)
    BY <1>1, <1>2
  <2> QED
    BY <2>1, <2>2 DEF IsChannel
<1>3. q # <<>> => Tail(q) \in Seq(S) /\ Head(q) \in S
  BY <1>1
<1>4. q # <<>> => IsChannel(Tail(q)) /\ IsMessage(Head(q))
  BY <1>1, <1>3 DEF IsChannel
<1>5. IsSequence(q)
  BY <1>1 DEF IsSequence
<1>6. Len(q) \in Nat /\ \A i \in DOMAIN q : q[i] \in S
  BY <1>1
<1> QED
  BY <1>1, <1>2, <1>4, <1>5, <1>6

LEMMA SmallChannels ==
    /\ IsChannel(<<>>)
    /\ \A m : IsMessage(m) => IsChannel(<<m>>)
<1>1. ASSUME NEW q, NEW S, q \in Seq(S), \A m \in S : IsMessage(m)
      PROVE  IsChannel(q)
  BY <1>1 DEF IsChannel
<1>2. IsChannel(<<>>)
  <2> DEFINE q == <<>>
  <2>1. q \in Seq({})
    OBVIOUS
  <2> HIDE DEF q
  <2>2. IsChannel(q)
    BY <1>1, <2>1
  <2> QED
    BY <2>2 DEF q
<1>3. ASSUME NEW m, IsMessage(m) PROVE IsChannel(<<m>>)
  <2> DEFINE q == <<m>>
  <2>1. q \in Seq({m}) /\ \A x \in {m} : IsMessage(x)
    BY <1>3
  <2> HIDE DEF q
  <2>2. IsChannel(q)
    BY <1>1, <2>1
  <2> QED
    BY <2>2 DEF q
<1> QED
  BY <1>2, <1>3

LEMMA SequenceLaws ==
    ASSUME NEW q, IsSequence(q)
    PROVE  /\ \A e : IsSequence(Append(q, e))
           /\ \A t : IsSequence(t) =>
                 /\ IsSequence(q \o t)
                 /\ Len(q \o t) = Len(q) + Len(t)
                 /\ \A i \in 1..Len(q) : (q \o t)[i] = q[i]
           /\ Len(q) \in Nat /\ DOMAIN q = 1..Len(q)
           /\ \A m : IsSequence([i \in DOMAIN q |-> m[i]])
           /\ \A m : Len([i \in DOMAIN q |-> m[i]]) = Len(q)
<1>1. PICK S : q \in Seq(S)
  BY DEF IsSequence
<1>2. ASSUME NEW s, NEW A, NEW B, s \in Seq(A) PROVE s \in Seq(A \cup B) /\ s \in Seq(B \cup A)
  BY <1>2
<1>3. ASSUME NEW e PROVE IsSequence(Append(q, e))
  <2>1. Append(q, e) \in Seq(S \cup {e})
    BY <1>1, <1>2
  <2> QED BY <2>1 DEF IsSequence
<1>4. ASSUME NEW t, IsSequence(t)
      PROVE  /\ IsSequence(q \o t)
             /\ Len(q \o t) = Len(q) + Len(t)
             /\ \A i \in 1..Len(q) : (q \o t)[i] = q[i]
  <2>1. PICK T : t \in Seq(T)
    BY <1>4 DEF IsSequence
  <2>2. q \in Seq(S \cup T) /\ t \in Seq(S \cup T)
    BY <1>1, <1>2, <2>1
  <2>3. /\ q \o t \in Seq(S \cup T)
        /\ Len(q \o t) = Len(q) + Len(t)
        /\ \A i \in 1..Len(q) : (q \o t)[i] = q[i]
    BY <2>2
  <2> QED BY <2>3 DEF IsSequence
<1>5. Len(q) \in Nat /\ DOMAIN q = 1..Len(q)
  BY <1>1
<1>6. ASSUME NEW m
      PROVE  IsSequence([i \in DOMAIN q |-> m[i]]) /\ Len([i \in DOMAIN q |-> m[i]]) = Len(q)
  <2> DEFINE f == [i \in 1..Len(q) |-> m[i]]
             V == {m[i] : i \in 1..Len(q)}
  <2>1. f \in [1..Len(q) -> V]
    OBVIOUS
  <2>2. f \in Seq(V) /\ Len(f) = Len(q)
    <3> HIDE DEF f, V
    <3> QED BY <1>5, <2>1
  <2>3. f = [i \in DOMAIN q |-> m[i]]
    BY <1>5
  <2> HIDE DEF f, V
  <2>4. IsSequence(f)
    BY <2>2, Zenon DEF IsSequence
  <2> QED BY <2>2, <2>3, <2>4
<1> QED
  BY <1>3, <1>4, <1>5, <1>6

-----------------------------------------------------------------------------
(* The owner's operations on its world.                                    *)

\* The commands that move the lifecycle of the recorder.
Barriers == {"start", "stop", "gap"}

\* No barrier is in q, or exactly one, of the given kind.
None(q) == \A i \in DOMAIN q : q[i].kind \notin Barriers
One(q, kind) ==
    \E i \in DOMAIN q :
        /\ q[i].kind = kind
        /\ \A j \in DOMAIN q : j # i => q[j].kind \notin Barriers

\* The same of all that thread t holds and channel q carries.
Clear(t, q) == None(t.batch) /\ None(t.deferred) /\ None(q)
Awaits(t, q, kind) ==
    \/ One(t.batch, kind) /\ None(t.deferred) /\ None(q)
    \/ None(t.batch) /\ One(t.deferred, kind) /\ None(q)
    \/ None(t.batch) /\ None(t.deferred) /\ One(q, kind)

\* Where the lifecycle is while the thread lives: an unanswered barrier is in the
\* channel or with the thread, and nothing else can move the recorder.
Flow(y, t, s) ==
    y.link = "up" =>
        \/ y.own.state = "failed"
        \/ y.own.state = "idle" /\ y.receipt.state = "idle" /\ Clear(t, y.queue)
        \/ y.own.state = "starting" /\ y.receipt.state = "idle" /\ Awaits(t, y.queue, "start")
        \/ /\ y.own.state = "starting" /\ y.receipt.state = "recording"
           /\ y.receipt.run = s.run /\ Clear(t, y.queue)
        \/ /\ y.own.state = "recording" /\ y.receipt.state = "recording"
           /\ y.own.run = s.run /\ y.receipt.run = s.run /\ Clear(t, y.queue)
        \/ y.own.state = "stopping" /\ y.receipt.state = "recording" /\ Awaits(t, y.queue, "stop")
        \/ y.own.state = "stopping" /\ y.receipt.state = "idle" /\ Clear(t, y.queue)

\* A stop that was asked for and whose run is not sealed yet.
SealedRun(s, run) ==
    run \in DOMAIN CurrentBoot(s).runs /\ CurrentBoot(s).runs[run].state = "sealed"
OpenStop(l, s) == l.op # 0 /\ ~l.start /\ ~SealedRun(s, l.run)

\* Such a stop either fails or is still ahead of the commit that seals its run: the
\* owner cannot see the recorder idle before.
Doomed(y, t, s, run) ==
    /\ y.own.state # "idle"
    /\ y.receipt.state = "idle" => y.own.state = "failed"
    /\ y.link = "up" /\ y.own.state # "failed" =>
          /\ y.own.state = "stopping" /\ s.run = run
          /\ ~(t.at = "committed" /\ One(t.batch, "stop"))

\* As much of a world's shape as matters here.
IsWorld(x) ==
    /\ {"own", "queue", "receipt", "link", "jobs", "locked"} \subseteq DOMAIN x
    /\ {"persisted", "state", "run"} \subseteq DOMAIN x.own
    /\ {"persisted", "state", "run"} \subseteq DOMAIN x.receipt
    /\ IsChannel(x.queue)

\* Where a handler begins: the world, the thread and the archive it finds, the
\* lifecycle request that is open, and whether the owner has polled since.
From(world, thread, archive, lifecycle, told) ==
    [w |-> world, t |-> thread, s |-> archive, l |-> lifecycle, told |-> told]

\* What the owner does from a to y: the receipt confirms what it did, and the owner
\* knows what it knew or what the receipt confirms.
Confirms(a, y) ==
    /\ IsWorld(a.w)
    /\ IsWorld(y)
    /\ y.link = a.w.link
    /\ y.receipt.persisted = a.w.receipt.persisted
    /\ y.own.persisted \in {a.w.own.persisted, a.w.receipt.persisted}

\* And what a handler leaves between its calls.
Goes(a, y) ==
    /\ Confirms(a, y)
    /\ Flow(y, a.t, a.s)
    /\ OpenStop(a.l, a.s) => Doomed(y, a.t, a.s, a.l.run)

LEMMA GoesStays ==
    ASSUME NEW a, IsWorld(a.w), Flow(a.w, a.t, a.s),
           OpenStop(a.l, a.s) => Doomed(a.w, a.t, a.s, a.l.run)
    PROVE  Goes(a, a.w)
BY DEF Goes, Confirms

\* The rest of a world does not matter.
LEMMA Alike ==
    ASSUME NEW a, NEW y, Goes(a, y), NEW z, IsWorld(z), z.link = y.link, z.queue = y.queue,
           z.own.state = y.own.state, z.own.run = y.own.run,
           z.own.persisted \in {a.w.own.persisted, a.w.receipt.persisted},
           z.receipt.state = y.receipt.state, z.receipt.run = y.receipt.run,
           z.receipt.persisted = y.receipt.persisted
    PROVE  Goes(a, z)
BY DEF Goes, Confirms, Flow, Doomed

LEMMA SetOwn ==
    ASSUME NEW a, NEW y, Goes(a, y), NEW f, NEW v, f \notin {"state", "run"},
           f = "persisted" => v \in {a.w.own.persisted, a.w.receipt.persisted}
    PROVE  Goes(a, [y EXCEPT !.own[f] = v])
<1> DEFINE z == [y EXCEPT !.own[f] = v]
<1>1. IsWorld(y) /\ y.own.persisted \in {a.w.own.persisted, a.w.receipt.persisted}
  BY DEF Goes, Confirms
<1>2. /\ IsWorld(z) /\ z.link = y.link /\ z.queue = y.queue /\ z.receipt = y.receipt
      /\ z.own.state = y.own.state /\ z.own.run = y.own.run
      /\ z.own.persisted \in {a.w.own.persisted, a.w.receipt.persisted}
  BY <1>1 DEF IsWorld
<1> HIDE DEF z
<1>3. Goes(a, z)
  BY <1>2, Alike
<1> QED
  BY <1>3 DEF z

LEMMA SetReceipt ==
    ASSUME NEW a, NEW y, Goes(a, y), NEW f, NEW v, f \notin {"persisted", "state", "run"}
    PROVE  Goes(a, [y EXCEPT !.receipt[f] = v])
<1> DEFINE z == [y EXCEPT !.receipt[f] = v]
<1>1. IsWorld(y) /\ y.own.persisted \in {a.w.own.persisted, a.w.receipt.persisted}
  BY DEF Goes, Confirms
<1>2. /\ IsWorld(z) /\ z.link = y.link /\ z.queue = y.queue /\ z.own = y.own
      /\ z.receipt.state = y.receipt.state /\ z.receipt.run = y.receipt.run
      /\ z.receipt.persisted = y.receipt.persisted
  BY <1>1 DEF IsWorld
<1> HIDE DEF z
<1>3. Goes(a, z)
  BY <1>1, <1>2, Alike
<1> QED
  BY <1>3 DEF z

LEMMA SetJobs ==
    ASSUME NEW a, NEW y, Goes(a, y), NEW f, NEW v
    PROVE  Goes(a, [y EXCEPT !.jobs[f] = v])
<1> DEFINE z == [y EXCEPT !.jobs[f] = v]
<1>1. IsWorld(y) /\ y.own.persisted \in {a.w.own.persisted, a.w.receipt.persisted}
  BY DEF Goes, Confirms
<1>2. /\ IsWorld(z) /\ z.link = y.link /\ z.queue = y.queue /\ z.own = y.own
      /\ z.receipt = y.receipt
  BY <1>1 DEF IsWorld
<1> HIDE DEF z
<1>3. Goes(a, z)
  BY <1>1, <1>2, Alike
<1> QED
  BY <1>3 DEF z

\* A failed recorder stays so, whatever else its world holds.
LEMMA FailedGoes ==
    ASSUME NEW a, NEW y, Confirms(a, y), y.own.state = "failed"
    PROVE  Goes(a, y)
BY DEF Goes, Flow, Doomed

LEMMA FailGoes ==
    ASSUME NEW a, NEW y, Confirms(a, y)
    PROVE  Goes(a, Fail(y)) /\ Fail(y).own.state = "failed"
<1> DEFINE v == IF y.own.coverage = "complete" /\ y.own.run # 0 THEN "unknown_tail"
                ELSE y.own.coverage
           b == [y EXCEPT !.own.coverage = v]
           c == [b EXCEPT !.own.state = "failed"]
           d == [c EXCEPT !.receipt.state = "failed"]
<1>1. Fail(y) = d
  BY Zenon DEF Fail
<1> HIDE DEF v
<1>2. IsWorld(y)
  BY DEF Confirms
<1>3. /\ IsWorld(b) /\ b.link = y.link /\ b.receipt = y.receipt
      /\ b.own.persisted = y.own.persisted
  BY <1>2 DEF IsWorld
<1> HIDE DEF b
<1>4. /\ IsWorld(c) /\ c.link = y.link /\ c.receipt = y.receipt
      /\ c.own.persisted = y.own.persisted /\ c.own.state = "failed"
  BY <1>3 DEF IsWorld
<1> HIDE DEF c
<1>5. /\ IsWorld(d) /\ d.link = y.link /\ d.receipt.persisted = y.receipt.persisted
      /\ d.own.persisted = y.own.persisted /\ d.own.state = "failed"
  BY <1>4 DEF IsWorld
<1> HIDE DEF d
<1>6. Confirms(a, d)
  BY <1>5 DEF Confirms
<1> QED
  BY <1>1, <1>5, <1>6, FailedGoes

LEMMA GoesConfirms == ASSUME NEW a, NEW y, Goes(a, y) PROVE Confirms(a, y)
BY DEF Goes

\* The messages of the owner.
LEMMA Messages ==
    /\ \A kind, first, rows : IsSequence(rows) =>
          IsMessage(Message(kind, first, rows)) /\ Message(kind, first, rows).kind = kind
    /\ \A kind, first, rows, credit : IsSequence(rows) =>
          /\ IsMessage(Charged(Message(kind, first, rows), credit))
          /\ Charged(Message(kind, first, rows), credit).kind = kind
    /\ \A kind, first, rows, job : IsSequence(rows) =>
          /\ IsMessage([Message(kind, first, rows) EXCEPT !.job = job])
          /\ [Message(kind, first, rows) EXCEPT !.job = job].kind = kind
    /\ \A kind, first, rows, credit, gen : IsSequence(rows) =>
          /\ IsMessage([Charged(Message(kind, first, rows), credit) EXCEPT !.gen = gen])
          /\ [Charged(Message(kind, first, rows), credit) EXCEPT !.gen = gen].kind = kind
BY DEF Message, Charged, IsMessage

LEMMA SmallSequences ==
    /\ IsSequence(<<>>)
    /\ \A e : IsSequence(<<e>>)
    /\ \A e, f : IsSequence(<<e, f>>)
<1>1. ASSUME NEW q, NEW S, q \in Seq(S)
      PROVE  IsSequence(q)
  BY <1>1 DEF IsSequence
<1>2. IsSequence(<<>>)
  <2> DEFINE q == <<>>
  <2>1. q \in Seq({})
    OBVIOUS
  <2> HIDE DEF q
  <2> QED
    BY <1>1, <2>1
<1>3. ASSUME NEW e PROVE IsSequence(<<e>>)
  <2> DEFINE q == <<e>>
  <2>1. q \in Seq({e})
    OBVIOUS
  <2> HIDE DEF q
  <2>2. IsSequence(q)
    BY <1>1, <2>1
  <2> QED
    BY <2>2 DEF q
<1>4. ASSUME NEW e, NEW f PROVE IsSequence(<<e, f>>)
  <2> DEFINE q == <<e, f>>
  <2>1. q \in Seq({e, f})
    OBVIOUS
  <2> HIDE DEF q
  <2>2. IsSequence(q)
    BY <1>1, <2>1
  <2> QED
    BY <2>2 DEF q
<1> QED
  BY <1>2, <1>3, <1>4

\* The channel with one more message.
LEMMA ChannelGrows ==
    ASSUME NEW q, IsSequence(q), NEW m
    PROVE  LET more == Append(q, m)
           IN  /\ None(q) /\ m.kind \notin Barriers => None(more)
               /\ \A kind : One(q, kind) /\ m.kind \notin Barriers => One(more, kind)
               /\ None(q) => One(more, m.kind)
<1> DEFINE more == Append(q, m)
<1>1. /\ Len(q) \in Nat /\ DOMAIN q = 1..Len(q) /\ DOMAIN more = 1..(Len(q) + 1)
      /\ more[Len(q) + 1] = m
      /\ \A i \in 1..Len(q) : more[i] = q[i]
  BY DEF IsSequence
<1> HIDE DEF more
<1>2. \A i \in DOMAIN more : i \in DOMAIN q \/ i = Len(q) + 1
  BY <1>1
<1>3. \A i \in DOMAIN q : i \in DOMAIN more /\ i # Len(q) + 1 /\ more[i] = q[i]
  BY <1>1
<1>4. Len(q) + 1 \in DOMAIN more
  BY <1>1
<1>5. None(q) /\ m.kind \notin Barriers => None(more)
  BY <1>1, <1>2, <1>3 DEF None
<1>6. ASSUME NEW kind, One(q, kind), m.kind \notin Barriers PROVE One(more, kind)
  <2>1. PICK i \in DOMAIN q : /\ q[i].kind = kind
                              /\ \A j \in DOMAIN q : j # i => q[j].kind \notin Barriers
    BY <1>6 DEF One
  <2>2. i \in DOMAIN more /\ more[i].kind = kind
    BY <1>3, <2>1
  <2>3. \A j \in DOMAIN more : j # i => more[j].kind \notin Barriers
    BY <1>1, <1>2, <1>3, <1>6, <2>1
  <2> QED
    BY <2>2, <2>3 DEF One
<1>7. None(q) => One(more, m.kind)
  BY <1>1, <1>2, <1>3, <1>4 DEF None, One
<1> QED
  BY <1>5, <1>6, <1>7 DEF more

LEMMA SentConfirms ==
    ASSUME NEW a, NEW y, Confirms(a, y), NEW m, IsMessage(m)
    PROVE  LET z == Sent(y, m)
           IN  /\ Confirms(a, z) /\ z.queue = Append(y.queue, m)
               /\ z.own.state = y.own.state /\ z.own.run = y.own.run
               /\ z.receipt = y.receipt /\ z.link = y.link
<1> DEFINE q == Append(y.queue, m)
           b == [y EXCEPT !.queue = q]
           n == y.own.reserved + Len(m.rows)
           c == [b EXCEPT !.own.reserved = n]
<1>1. IsWorld(y) /\ IsChannel(q)
  BY ChannelLaws DEF Confirms, IsWorld
<1>2. Sent(y, m) = [y EXCEPT !.queue = q, !.own.reserved = n]
  BY Zenon DEF Sent
<1> HIDE DEF q, n
<1>3. IsWorld(b) /\ b.queue = q /\ b.own = y.own /\ b.receipt = y.receipt /\ b.link = y.link
  BY <1>1 DEF IsWorld
<1>4. Sent(y, m) = c
  BY <1>2, Zenon
<1> HIDE DEF b
<1>5. /\ IsWorld(c) /\ c.queue = b.queue /\ c.receipt = b.receipt /\ c.link = b.link
      /\ c.own.state = b.own.state /\ c.own.run = b.own.run
      /\ c.own.persisted = b.own.persisted
  BY <1>3 DEF IsWorld
<1> HIDE DEF c
<1>6. Confirms(a, c)
  BY <1>3, <1>5 DEF Confirms
<1> QED
  BY <1>3, <1>4, <1>5, <1>6 DEF q

LEMMA SentGoes ==
    ASSUME NEW a, NEW y, Goes(a, y), NEW m, IsMessage(m),
           m.kind \notin Barriers \/ y.own.state = "failed"
    PROVE  Goes(a, Sent(y, m)) /\ Sent(y, m).own.state = y.own.state
<1> DEFINE z == Sent(y, m)
<1>1. /\ Confirms(a, z) /\ z.queue = Append(y.queue, m)
      /\ z.own.state = y.own.state /\ z.own.run = y.own.run
      /\ z.receipt = y.receipt /\ z.link = y.link
  BY GoesConfirms, SentConfirms
<1> HIDE DEF z
<1>2. CASE y.own.state = "failed"
  BY <1>1, <1>2, FailedGoes DEF z
<1>3. CASE m.kind \notin Barriers
  <2>1. IsSequence(y.queue)
    BY ChannelLaws DEF Goes, Confirms, IsWorld
  <2>2. /\ None(y.queue) => None(z.queue)
        /\ \A kind : One(y.queue, kind) => One(z.queue, kind)
    BY <1>1, <1>3, <2>1, ChannelGrows
  <2>3. /\ Clear(a.t, y.queue) => Clear(a.t, z.queue)
        /\ \A kind : Awaits(a.t, y.queue, kind) => Awaits(a.t, z.queue, kind)
    BY <2>2 DEF Clear, Awaits
  <2>4. Flow(z, a.t, a.s)
    BY <1>1, <2>3 DEF Goes, Flow
  <2>5. OpenStop(a.l, a.s) => Doomed(z, a.t, a.s, a.l.run)
    BY <1>1 DEF Goes, Doomed
  <2> QED
    BY <1>1, <2>4, <2>5 DEF Goes, z
<1> QED
  BY <1>2, <1>3

LEMMA FailWithGapGoes ==
    ASSUME NEW a, NEW y, Goes(a, y), NEW missing
    PROVE  Goes(a, FailWithGap(y, missing))
<1> DEFINE gap == [y EXCEPT !.own.coverage = "gap"]
           failed == Fail(gap)
           seal == Message("gap", y.own.reserved + 1,
                           <<Row("recorder_gap", GapPayload(y.own, missing))>>)
           s == [Sent(failed, seal) EXCEPT !.own.gapScheduled = TRUE]
<1>1. Goes(a, gap)
  BY SetOwn, Zenon
<1> HIDE DEF gap
<1>2. Goes(a, failed) /\ failed.own.state = "failed"
  BY <1>1, GoesConfirms, FailGoes
<1>3. IsMessage(seal)
  BY Messages, SmallSequences, Zenon
<1> HIDE DEF failed, seal
<1>4. Goes(a, Sent(failed, seal))
  BY <1>2, <1>3, SentGoes
<1>5. Goes(a, s)
  BY <1>4, SetOwn, Zenon
<1> QED
  BY <1>2, <1>5, Zenon DEF FailWithGap, failed, seal, gap

LEMMA DrainedGoes ==
    ASSUME NEW a, NEW y, Goes(a, y)
    PROVE  Goes(a, Drained(y))
BY SetJobs, Zenon DEF Drained

\* The successor of a state: what a barrier waits for is not passed over.
LEMMA NextStates ==
    ASSUME NEW own, NEW receipt
    PROVE  /\ NextState(own, receipt) \in {own.state, receipt.state}
           /\ own.state = "failed" => NextState(own, receipt) = "failed"
           /\ own.state = "starting" /\ receipt.state = "idle" =>
                 NextState(own, receipt) = "starting"
           /\ own.state = "stopping" /\ receipt.state = "recording" =>
                 NextState(own, receipt) = "stopping"
           /\ ~ (\/ own.state = "failed"
                 \/ own.state = "starting" /\ receipt.state = "idle"
                 \/ own.state = "stopping" /\ receipt.state = "recording") =>
                 NextState(own, receipt) = receipt.state
BY DEF NextState

LEMMA AppliedGoes ==
    ASSUME NEW a, NEW y, Goes(a, y)
    PROVE  Goes(a, Applied(y))
<1> DEFINE own == Informed(y.own, y.receipt)
           z == [y EXCEPT !.own = own]
           Three == {"persisted", "state", "run"}
<1>1. /\ y.receipt.persisted \in {a.w.own.persisted, a.w.receipt.persisted}
      /\ IsWorld(y) /\ Confirms(a, y)
  BY DEF Goes, Confirms
<1>2. Three \subseteq DOMAIN y.own
  BY <1>1 DEF IsWorld
<1>3. /\ own.persisted = y.receipt.persisted /\ own.run = y.receipt.run
      /\ own.state = NextState(y.own, y.receipt)
      /\ Three \subseteq DOMAIN own
  <2>2. \A o, v1, v2, v3, v4, v5 : Three \subseteq DOMAIN o =>
           LET x == [o EXCEPT !.charged = v1, !.reference = v2, !.seen = v3,
                              !.seenReference = v4, !.persisted = v5]
           IN  x.persisted = v5 /\ Three \subseteq DOMAIN x
    OBVIOUS
  <2>3. \A o, v1, v2, v3, v4, v5 : Three \subseteq DOMAIN o =>
           LET x == [o EXCEPT !.run = v1, !.sealed = v2, !.generation = v3,
                              !.pendingGen = v4, !.failurePersisted = v5]
           IN  x.persisted = o.persisted /\ x.run = v1 /\ Three \subseteq DOMAIN x
    OBVIOUS
  <2>4. \A o, v1, v2, v3, v4 : Three \subseteq DOMAIN o =>
           LET x == [o EXCEPT !.periodic = v1, !.probePending = v2, !.state = v3,
                              !.coverage = v4]
           IN  /\ x.persisted = o.persisted /\ x.run = o.run /\ x.state = v3
               /\ Three \subseteq DOMAIN x
    OBVIOUS
  <2> DEFINE r == y.receipt
             next == NextState(y.own, r)
             o1 == [y.own EXCEPT
                      !.charged = Minus(@, Minus(r.released, y.own.seen)),
                      !.reference = Minus(@, Minus(r.reference, y.own.seenReference)),
                      !.seen = r.released, !.seenReference = r.reference,
                      !.persisted = r.persisted]
             o2 == [o1 EXCEPT
                      !.run = r.run, !.sealed = r.sealed, !.generation = r.generation,
                      !.pendingGen = IF @ # 0 /\ r.generation >= @ THEN 0 ELSE @,
                      !.failurePersisted = r.failurePersisted]
             o3 == [o2 EXCEPT
                      !.periodic = IF r.persisted >= @ THEN 0 ELSE @,
                      !.probePending = @ /\ ~r.probed,
                      !.state = next,
                      !.coverage = IF r.state = "failed" /\ @ = "complete" /\ r.run # 0
                                   THEN "unknown_tail" ELSE @]
  <2>5. own = o3
    BY DEF Informed
  <2> HIDE DEF own, Three, next
  <2>6. o1.persisted = r.persisted /\ Three \subseteq DOMAIN o1
    BY <1>2, <2>2
  <2> HIDE DEF o1
  <2>7. o2.persisted = o1.persisted /\ o2.run = r.run /\ Three \subseteq DOMAIN o2
    BY <2>3, <2>6
  <2> HIDE DEF o2
  <2>8. /\ o3.persisted = o2.persisted /\ o3.run = o2.run /\ o3.state = next
        /\ Three \subseteq DOMAIN o3
    BY <2>4, <2>7
  <2> QED
    BY <2>5, <2>6, <2>7, <2>8 DEF next
<1> HIDE DEF own
<1>4. /\ Confirms(a, z) /\ z.link = y.link /\ z.queue = y.queue /\ z.receipt = y.receipt
      /\ z.own.state = NextState(y.own, y.receipt) /\ z.own.run = y.receipt.run
  BY <1>1, <1>3 DEF Confirms, IsWorld
<1> HIDE DEF z
<1>5. Flow(z, a.t, a.s)
  <2>1. Flow(y, a.t, a.s)
    BY DEF Goes
  <2> QED
    BY <1>4, <2>1, NextStates DEF Flow
<1>6. OpenStop(a.l, a.s) => Doomed(z, a.t, a.s, a.l.run)
  <2> SUFFICES ASSUME OpenStop(a.l, a.s) PROVE Doomed(z, a.t, a.s, a.l.run)
    OBVIOUS
  <2>1. Flow(y, a.t, a.s) /\ Doomed(y, a.t, a.s, a.l.run)
    BY DEF Goes
  <2> QED
    BY <1>4, <2>1, NextStates DEF Flow, Doomed
<1>7. Goes(a, z)
  BY <1>4, <1>5, <1>6 DEF Goes
<1>8. Goes(a, [z EXCEPT !.receipt.probed = FALSE])
  BY <1>7, SetReceipt, Zenon
<1>9. Goes(a, Fail(y))
  BY <1>1, FailGoes
<1> QED
  BY <1>8, <1>9, Zenon DEF Applied, z, own

LEMMA PollGoes ==
    ASSUME NEW a, NEW y, Goes(a, y)
    PROVE  Goes(a, Poll(y))
<1>1. ASSUME NEW t, Goes(a, t) PROVE Goes(a, EndFailed(t))
  BY <1>1, FailGoes, GoesConfirms DEF EndFailed
<1>2. ASSUME NEW t, Goes(a, t) PROVE Goes(a, Reconciled(t))
  BY <1>1, <1>2, AppliedGoes, SetOwn, Zenon DEF Reconciled
<1>3. ASSUME NEW t, Goes(a, t) PROVE Goes(a, Scheduled(t))
  <2> DEFINE m == Message("clock", t.own.reserved + 1, <<Row("clock", 0)>>)
             s == Sent(t, m)
             v == [s EXCEPT !.own.periodic = t.own.reserved + 1]
             x == [v EXCEPT !.own.due = @ \ {"clock"}]
  <2>1. IsMessage(m) /\ m.kind \notin Barriers
    BY Messages, SmallSequences DEF Barriers
  <2> HIDE DEF m
  <2>2. Goes(a, s)
    BY <1>3, <2>1, SentGoes
  <2> HIDE DEF s
  <2>3. Goes(a, v)
    BY <2>2, SetOwn, Zenon
  <2> HIDE DEF v
  <2>4. Goes(a, x)
    BY <2>3, SetOwn, Zenon
  <2> QED
    BY <1>3, <2>4, Zenon DEF Scheduled, x, v, s, m
<1> QED
  BY <1>2, <1>3, DrainedGoes DEF Poll

LEMMA AdmitGoes ==
    ASSUME NEW a, NEW y, Goes(a, y), NEW kind, NEW rows, IsSequence(rows), kind \notin Barriers
    PROVE  Goes(a, Admit(y, kind, rows))
<1> DEFINE m == Charged(Message(kind, y.own.reserved + 1, rows), Credit(1, Len(rows)))
           s == Sent(y, m)
<1>1. IsMessage(m) /\ m.kind = kind
  BY Messages
<1> HIDE DEF m
<1>2. Goes(a, s)
  BY <1>1, SentGoes
<1> HIDE DEF s
<1> QED
  BY <1>2, SetOwn, Zenon DEF Admit, s, m

\* The rows of a fact group.
LEMMA FactRows ==
    ASSUME NEW facts, IsSequence(facts)
    PROVE  IsSequence([i \in DOMAIN facts |-> Row("fact", facts[i])])
<1> DEFINE m == [i \in DOMAIN facts |-> Row("fact", facts[i])]
<1>1. IsSequence([i \in DOMAIN facts |-> m[i]])
  BY SequenceLaws
<1>2. m = [i \in DOMAIN facts |-> m[i]]
  OBVIOUS
<1> HIDE DEF m
<1> QED
  BY <1>1, <1>2 DEF m

LEMMA AdmitFactsGoes ==
    ASSUME NEW a, NEW y, Goes(a, y), NEW facts, IsSequence(facts)
    PROVE  Goes(a, AdmitFacts(y, facts).w)
<1> DEFINE p == Poll(y)
           rows == [i \in DOMAIN facts |-> Row("fact", facts[i])]
           g == FailWithGap(p, facts[1])
           s == Admit(p, "facts", rows)
           z == [s EXCEPT !.own.lastFact = facts[Len(facts)]]
<1>1. Goes(a, p)
  BY PollGoes
<1>2. IsSequence(rows)
  BY FactRows
<1> HIDE DEF p, rows
<1>3. Goes(a, g) /\ Goes(a, Fail(p))
  BY <1>1, FailGoes, GoesConfirms, FailWithGapGoes
<1>4. Goes(a, s)
  BY <1>1, <1>2, AdmitGoes DEF Barriers
<1> HIDE DEF s
<1>5. Goes(a, z)
  BY <1>4, SetOwn, Zenon
<1> HIDE DEF g, z
<1>6. AdmitFacts(y, facts).w \in {p, g, Fail(p), z}
  BY DEF AdmitFacts, Polled, With, p, rows, g, s, z
<1> QED
  BY <1>1, <1>3, <1>5, <1>6

LEMMA OperationCreditGoes ==
    ASSUME NEW a, NEW y, Goes(a, y), NEW operation
    PROVE  Goes(a, OperationCredit(y, operation).w)
BY PollGoes DEF OperationCredit, Polled, With

LEMMA AdmitOperationGoes ==
    ASSUME NEW a, NEW y, Goes(a, y), NEW operation
    PROVE  Goes(a, AdmitOperation(y, operation).w)
<1> DEFINE p == Poll(y)
           g == FailWithGap(p, 0)
           rows == <<Row("operation", operation)>>
           s == Admit(p, "operation", rows)
<1>1. Goes(a, p)
  BY PollGoes
<1>2. IsSequence(rows)
  BY SmallSequences
<1> HIDE DEF p, rows
<1>3. Goes(a, g) /\ Goes(a, s)
  BY <1>1, <1>2, AdmitGoes, FailWithGapGoes DEF Barriers
<1> HIDE DEF g, s
<1>4. AdmitOperation(y, operation).w \in {p, g, s}
  BY DEF AdmitOperation, Polled, With, p, rows, g, s
<1> QED
  BY <1>1, <1>3, <1>4

LEMMA AdmitAnnotationGoes ==
    ASSUME NEW a, NEW y, Goes(a, y)
    PROVE  Goes(a, AdmitAnnotation(y).w)
<1> DEFINE p == Poll(y)
           g == FailWithGap(p, 0)
           rows == <<Row("annotation", 0)>>
           s == Admit(p, "annotation", rows)
<1>1. Goes(a, p)
  BY PollGoes
<1>2. IsSequence(rows)
  BY SmallSequences
<1> HIDE DEF p, rows
<1>3. Goes(a, g) /\ Goes(a, s)
  BY <1>1, <1>2, AdmitGoes, FailWithGapGoes DEF Barriers
<1> HIDE DEF g, s
<1>4. AdmitAnnotation(y).w \in {p, g, s}
  BY DEF AdmitAnnotation, Polled, With, p, rows, g, s
<1> QED
  BY <1>1, <1>3, <1>4

LEMMA ReserveFactsGoes ==
    ASSUME NEW a, NEW y, Goes(a, y)
    PROVE  Goes(a, ReserveFacts(y).w)
<1> DEFINE p == Poll(y)
           b == [p EXCEPT !.own.charged = Plus(@, EnvelopeCredit)]
           c == [b EXCEPT !.own.tokens = @ \cup {p.own.nextToken}]
           d == [c EXCEPT !.own.nextToken = @ + 1]
<1>1. Goes(a, p)
  BY PollGoes
<1> HIDE DEF p
<1>2. Goes(a, b)
  BY <1>1, SetOwn, Zenon
<1>3. Goes(a, c)
  BY <1>2, SetOwn, Zenon
<1>4. Goes(a, d)
  BY <1>3, SetOwn, Zenon
<1>5. ReserveFacts(y).w \in {p, d}
  BY DEF ReserveFacts, Polled, With, p
<1> QED
  BY <1>1, <1>4, <1>5

LEMMA CancelFactsGoes ==
    ASSUME NEW a, NEW y, Goes(a, y), NEW token
    PROVE  Goes(a, CancelFacts(y, token))
BY SetOwn, Zenon DEF CancelFacts

LEMMA AdmitReservedGoes ==
    ASSUME NEW a, NEW y, Goes(a, y), NEW token, NEW facts, IsSequence(facts)
    PROVE  Goes(a, AdmitReserved(y, token, facts).w)
BY CancelFactsGoes, AdmitFactsGoes DEF AdmitReserved

LEMMA ReserveReferenceGoes ==
    ASSUME NEW a, NEW y, Goes(a, y), NEW op
    PROVE  /\ Goes(a, ReserveReference(y, op).w)
           /\ ReserveReference(y, op).answer \in {"error", "no", "yes"}
<1> DEFINE p == Poll(y)
           b == [p EXCEPT !.own.charged = Plus(@, PairCredit)]
           c == [b EXCEPT !.own.reference = Plus(@, PairCredit)]
           d == [c EXCEPT !.own.reservation =
                    [held |-> TRUE, accepted |-> FALSE, op |-> op, fact |-> 0,
                     gen |-> p.own.generation, run |-> p.own.run]]
<1>1. Goes(a, p)
  BY PollGoes
<1> HIDE DEF p
<1>2. Goes(a, b)
  BY <1>1, SetOwn, Zenon
<1>3. Goes(a, c)
  BY <1>2, SetOwn, Zenon
<1>4. Goes(a, d)
  BY <1>3, SetOwn, Zenon
<1>5. ReserveReference(y, op).answer \in {"error", "no", "yes"}
  BY DEF ReserveReference, Polled, With
<1>6. \/ ReserveReference(y, op) = [answer |-> "error", w |-> p]
      \/ ReserveReference(y, op) = [answer |-> "no", w |-> p]
      \/ ReserveReference(y, op) = [answer |-> "yes", w |-> d]
  BY Zenon DEF ReserveReference, Polled, With, p
<1> HIDE DEF d
<1>7. ReserveReference(y, op).w \in {p, d}
  BY <1>6
<1> QED
  BY <1>1, <1>4, <1>5, <1>7

LEMMA ReleaseUnusedGoes ==
    ASSUME NEW a, NEW y, Goes(a, y), NEW credit
    PROVE  Goes(a, ReleaseUnused(y, credit))
BY SetOwn, Zenon DEF ReleaseUnused

LEMMA CancelReferenceGoes ==
    ASSUME NEW a, NEW y, Goes(a, y)
    PROVE  Goes(a, CancelReference(y))
BY ReleaseUnusedGoes, SetOwn, Zenon DEF CancelReference

LEMMA CommitAcceptanceGoes ==
    ASSUME NEW a, NEW y, Goes(a, y), NEW operation
    PROVE  Goes(a, CommitAcceptance(y, operation).w)
<1> DEFINE p == Poll(y)
           m == Charged(Message("accepted", p.own.reserved + 1,
                                <<Row("operation", operation)>>), AcceptedCredit)
           f == Fail(CancelReference(p))
           s == Sent(p, m)
           z == [s EXCEPT !.own.reservation.accepted = TRUE]
<1>1. Goes(a, p)
  BY PollGoes
<1> HIDE DEF p
<1>2. IsMessage(m) /\ m.kind \notin Barriers
  BY Messages, SmallSequences DEF Barriers
<1> HIDE DEF m
<1>3. Goes(a, f) /\ Goes(a, s)
  BY <1>1, <1>2, CancelReferenceGoes, FailGoes, GoesConfirms, SentGoes
<1> HIDE DEF f, s
<1>4. Goes(a, z)
  BY <1>3, SetOwn, Zenon
<1> HIDE DEF z
<1>5. CommitAcceptance(y, operation).w \in {f, z}
  BY DEF CommitAcceptance, Polled, With, p, m, f, s, z
<1> QED
  BY <1>3, <1>4, <1>5

LEMMA CompletionReadyGoes ==
    ASSUME NEW a, NEW y, Goes(a, y), NEW op
    PROVE  Goes(a, CompletionReady(y, op).w)
BY PollGoes DEF CompletionReady, Polled, With

LEMMA CaptureCompletionGoes ==
    ASSUME NEW a, NEW y, Goes(a, y), NEW facts
    PROVE  Goes(a, CaptureCompletion(y, facts))
<1> DEFINE z == [y EXCEPT !.own.reservation.fact = facts[1]]
<1>1. Goes(a, z)
  BY SetOwn, Zenon
<1> HIDE DEF z
<1> QED
  BY <1>1, FailWithGapGoes DEF CaptureCompletion, z

\* The rows of a completion: the Reference fact, if there is one, and the terminal.
LEMMA CompletionRows ==
    ASSUME NEW fact, NEW operation
    PROVE  IsSequence((IF fact = 0 THEN <<>> ELSE <<Row("fact", fact)>>)
                          \o <<Row("operation", operation)>>)
<1> DEFINE head == IF fact = 0 THEN <<>> ELSE <<Row("fact", fact)>>
           tail == <<Row("operation", operation)>>
<1>1. IsSequence(head) /\ IsSequence(tail)
  BY SmallSequences
<1> HIDE DEF head, tail
<1>2. IsSequence(head \o tail)
  BY <1>1, SequenceLaws
<1> QED
  BY <1>2 DEF head, tail

LEMMA CommitCompletionGoes ==
    ASSUME NEW a, NEW y, Goes(a, y), NEW operation
    PROVE  Goes(a, CommitCompletion(y, operation).w)
<1> DEFINE p == Poll(y)
           fact == p.own.reservation.fact
           rows == (IF fact = 0 THEN <<>> ELSE <<Row("fact", fact)>>)
                       \o <<Row("operation", operation)>>
           m == Charged(Message("completion", p.own.reserved + 1, rows), Credit(1, Len(rows)))
           f == Fail(CancelReference(p))
           taken == [p EXCEPT !.own.reservation = NoReservation]
           g == FailWithGap(ReleaseUnused(taken, CompletionCredit), fact)
           s == ReturnUnusedRecord(Sent(taken, m), Len(rows))
           z == [s EXCEPT !.own.lastFact = IF fact = 0 THEN @ ELSE fact]
<1>1. Goes(a, p)
  BY PollGoes
<1>2. IsSequence(rows)
  BY CompletionRows, Zenon
<1> HIDE DEF p, rows
<1>3. IsMessage(m) /\ m.kind \notin Barriers
  BY <1>2, Messages DEF Barriers
<1> HIDE DEF m
<1>4. Goes(a, taken)
  BY <1>1, SetOwn, Zenon
<1> HIDE DEF taken
<1>5. Goes(a, f) /\ Goes(a, g)
  BY <1>1, <1>4, CancelReferenceGoes, FailGoes, GoesConfirms, ReleaseUnusedGoes, FailWithGapGoes
<1>6. Goes(a, s)
  BY <1>3, <1>4, SentGoes, ReleaseUnusedGoes DEF ReturnUnusedRecord
<1> HIDE DEF f, g, s
<1>7. Goes(a, z)
  BY <1>6, SetOwn, Zenon
<1> HIDE DEF z
<1>8. CommitCompletion(y, operation).w \in {f, g, z}
  BY DEF CommitCompletion, Polled, With, p, rows, m, f, taken, g, s, z
<1> QED
  BY <1>5, <1>7, <1>8

LEMMA SendControlGoes ==
    ASSUME NEW a, NEW y, Goes(a, y), NEW m, IsMessage(m), m.kind \notin Barriers
    PROVE  Goes(a, SendControl(y, m).w)
BY SentGoes, FailGoes, GoesConfirms DEF SendControl

LEMMA RequestActivationGoes ==
    ASSUME NEW a, NEW y, Goes(a, y)
    PROVE  Goes(a, RequestActivation(y).w)
<1> DEFINE p == Poll(y)
           m == Message("activation", 0, <<>>)
           sent == SendControl(p, m)
           s == sent.w
           z == [s EXCEPT !.own.pendingGen = 1]
<1>1. Goes(a, p)
  BY PollGoes
<1>2. IsMessage(m) /\ m.kind \notin Barriers
  BY Messages, SmallSequences DEF Barriers
<1> HIDE DEF p, m
<1>3. Goes(a, s)
  BY <1>1, <1>2, SendControlGoes
<1> HIDE DEF sent
<1>4. Goes(a, z)
  BY <1>3, SetOwn, Zenon
<1> HIDE DEF z
<1>5. RequestActivation(y).w \in {p, s, z}
  BY DEF RequestActivation, Polled, With, p, m, sent, z
<1> QED
  BY <1>1, <1>3, <1>4, <1>5

LEMMA ReserveLiveGoes ==
    ASSUME NEW a, NEW y, Goes(a, y)
    PROVE  /\ Goes(a, ReserveLive(y).w)
           /\ ReserveLive(y).answer \in {"error", "no", "yes"}
<1> DEFINE p == Poll(y)
           b == [p EXCEPT !.own.charged = Plus(@, Credit(1, 1))]
           c == [b EXCEPT !.own.pendingGen = p.own.generation + 1]
           d == [c EXCEPT !.own.liveGen = p.own.generation + 1]
<1>1. Goes(a, p)
  BY PollGoes
<1> HIDE DEF p
<1>2. Goes(a, b)
  BY <1>1, SetOwn, Zenon
<1>3. Goes(a, c)
  BY <1>2, SetOwn, Zenon
<1>4. Goes(a, d)
  BY <1>3, SetOwn, Zenon
<1>5. /\ ReserveLive(y).w \in {p, d}
      /\ ReserveLive(y).answer \in {"error", "no", "yes"}
  BY DEF ReserveLive, Polled, With, p
<1> QED
  BY <1>1, <1>4, <1>5

LEMMA CommitLiveGoes ==
    ASSUME NEW a, NEW y, Goes(a, y)
    PROVE  Goes(a, CommitLive(y).w)
<1> DEFINE m == [Charged(Message("activation", LiveIdentity(y.own),
                                 <<Row("activation", y.own.liveGen)>>), Credit(1, 1))
                   EXCEPT !.gen = y.own.liveGen]
           s == Sent(y, m)
           z == [s EXCEPT !.own.liveGen = 0]
<1>1. IsMessage(m) /\ m.kind \notin Barriers
  <2>1. IsMessage(m)
    BY Messages, SmallSequences, Zenon
  <2>2. m.kind = "activation"
    BY DEF Message, Charged
  <2> HIDE DEF m
  <2> QED
    BY <2>1, <2>2 DEF Barriers
<1> HIDE DEF m
<1>2. Goes(a, s)
  BY <1>1, SentGoes
<1> HIDE DEF s
<1>3. Goes(a, z)
  BY <1>2, SetOwn, Zenon
<1> HIDE DEF z
<1> QED
  BY <1>3, FailGoes, GoesConfirms DEF CommitLive, z, s, m

LEMMA CancelLiveGoes ==
    ASSUME NEW a, NEW y, Goes(a, y)
    PROVE  Goes(a, CancelLive(y))
BY SetOwn, Zenon DEF CancelLive

\* A barrier goes in from the state the last one left: the channel is clear then.
LEMMA RequestStartGoes ==
    ASSUME NEW a, NEW y, Goes(a, y)
    PROVE  Goes(a, RequestStart(y).w)
<1> DEFINE p == Poll(y)
           m == Message("start", p.own.reserved + 1, <<Row("boundary", 0), Row("clock", 0)>>)
           starting == [p EXCEPT !.own.state = "starting"]
           z == Sent(starting, m)
<1>1. Goes(a, p) /\ Confirms(a, p)
  BY PollGoes, GoesConfirms
<1>2. IsMessage(m) /\ m.kind = "start"
  BY Messages, SmallSequences
<1>3. \/ RequestStart(y) = [ok |-> FALSE, w |-> p]
      \/ RequestStart(y) = [ok |-> FALSE, w |-> Fail(starting)]
      \/ /\ RequestStart(y) = [ok |-> TRUE, w |-> z]
         /\ p.own.state = "idle" /\ CanSend(starting)
  BY Zenon DEF RequestStart, SendControl, Polled, With, p, m, starting, z
<1> HIDE DEF p, m
<1>4. /\ Confirms(a, starting) /\ starting.own.state = "starting" /\ starting.link = p.link
      /\ starting.queue = p.queue /\ starting.receipt = p.receipt
  BY <1>1 DEF Confirms, IsWorld
<1> HIDE DEF starting
<1>5. Goes(a, Fail(starting))
  BY <1>4, FailGoes
<1>6. ASSUME p.own.state = "idle", CanSend(starting) PROVE Goes(a, z)
  <2>1. /\ Confirms(a, z) /\ z.queue = Append(p.queue, m) /\ z.own.state = "starting"
        /\ z.receipt = p.receipt /\ z.link = p.link
    BY <1>2, <1>4, SentConfirms
  <2> HIDE DEF z
  <2>2. p.link = "up"
    BY <1>4, <1>6 DEF CanSend
  <2>3. p.receipt.state = "idle" /\ Clear(a.t, p.queue) /\ ~OpenStop(a.l, a.s)
    BY <1>1, <1>6, <2>2 DEF Goes, Flow, Doomed
  <2>4. IsSequence(p.queue)
    BY <1>1, ChannelLaws DEF Confirms, IsWorld
  <2>5. Awaits(a.t, z.queue, "start")
    BY <1>2, <2>1, <2>3, <2>4, ChannelGrows DEF Clear, Awaits
  <2> QED
    BY <2>1, <2>3, <2>5 DEF Goes, Flow
<1> HIDE DEF z
<1> QED
  BY <1>1, <1>3, <1>5, <1>6

LEMMA RequestStopGoes ==
    ASSUME NEW a, NEW y, Goes(a, y), NEW pending
    PROVE  LET r == RequestStop(y, pending)
           IN  /\ Goes(a, r.w)
               /\ r.ok => /\ r.w.link = "up" /\ r.w.own.state = "stopping"
                          /\ r.w.receipt.state = "recording" /\ None(a.t.batch)
<1> DEFINE p == Poll(y)
           m == Message("stop", p.own.reserved + 1,
                        <<Row("clock", 0), Row("interval_seal", pending)>>)
           stopping == [p EXCEPT !.own.state = "stopping"]
           z == Sent(stopping, m)
           r == RequestStop(y, pending)
<1>1. Goes(a, p) /\ Confirms(a, p)
  BY PollGoes, GoesConfirms
<1>2. IsMessage(m) /\ m.kind = "stop"
  BY Messages, SmallSequences
<1>3. \/ r = [ok |-> FALSE, w |-> p]
      \/ r = [ok |-> FALSE, w |-> Fail(stopping)]
      \/ /\ r = [ok |-> TRUE, w |-> z]
         /\ p.own.state = "recording" /\ CanSend(stopping)
  BY Zenon DEF RequestStop, SendControl, Polled, With, p, m, stopping, z, r
<1> HIDE DEF p, m, r
<1>4. /\ Confirms(a, stopping) /\ stopping.own.state = "stopping" /\ stopping.link = p.link
      /\ stopping.queue = p.queue /\ stopping.receipt = p.receipt
  BY <1>1 DEF Confirms, IsWorld
<1> HIDE DEF stopping
<1>5. Goes(a, Fail(stopping))
  BY <1>4, FailGoes
<1>6. ASSUME p.own.state = "recording", CanSend(stopping)
      PROVE  /\ Goes(a, z)
             /\ z.link = "up" /\ z.own.state = "stopping" /\ z.receipt.state = "recording"
             /\ None(a.t.batch)
  <2>1. /\ Confirms(a, z) /\ z.queue = Append(p.queue, m) /\ z.own.state = "stopping"
        /\ z.receipt = p.receipt /\ z.link = p.link
    BY <1>2, <1>4, SentConfirms
  <2> HIDE DEF z
  <2>2. p.link = "up"
    BY <1>4, <1>6 DEF CanSend
  <2>3. p.receipt.state = "recording" /\ Clear(a.t, p.queue) /\ ~OpenStop(a.l, a.s)
    BY <1>1, <1>6, <2>2 DEF Goes, Flow, Doomed
  <2>4. IsSequence(p.queue)
    BY <1>1, ChannelLaws DEF Confirms, IsWorld
  <2>5. Awaits(a.t, z.queue, "stop")
    BY <1>2, <2>1, <2>3, <2>4, ChannelGrows DEF Clear, Awaits
  <2>6. None(a.t.batch)
    BY <2>3 DEF Clear
  <2> QED
    BY <2>1, <2>2, <2>3, <2>5, <2>6 DEF Goes, Flow
<1> HIDE DEF z
<1>7. /\ Goes(a, r.w)
      /\ r.ok => /\ r.w.link = "up" /\ r.w.own.state = "stopping"
                 /\ r.w.receipt.state = "recording" /\ None(a.t.batch)
  BY <1>1, <1>3, <1>5, <1>6
<1> QED
  BY <1>7 DEF r

LEMMA RequestFinishGoes ==
    ASSUME NEW a, NEW y, Goes(a, y), NEW summary
    PROVE  Goes(a, RequestFinish(y, summary).w)
<1> DEFINE p == Poll(y)
           m == Message("finish", p.own.reserved + 1,
                        <<Row("clock", 0), Row("shutdown", summary)>>)
           sent == SendControl(p, m)
           s == sent.w
           z == [s EXCEPT !.own.finish = TRUE]
<1>1. Goes(a, p)
  BY PollGoes
<1> HIDE DEF p
<1>2. IsMessage(m) /\ m.kind \notin Barriers
  BY Messages, SmallSequences DEF Barriers
<1> HIDE DEF m
<1>3. Goes(a, s)
  BY <1>1, <1>2, SendControlGoes
<1> HIDE DEF sent
<1>4. Goes(a, z)
  BY <1>3, SetOwn, Zenon
<1> HIDE DEF z
<1>5. RequestFinish(y, summary).w \in {y, p, s, z}
  BY DEF RequestFinish, Polled, With, p, m, sent, z
<1> QED
  BY <1>1, <1>3, <1>4, <1>5

LEMMA RequestProbeGoes ==
    ASSUME NEW a, NEW y, Goes(a, y)
    PROVE  Goes(a, RequestProbe(y).w)
<1> DEFINE p == Poll(y)
           m == Message("probe", 0, <<>>)
           sent == SendControl(p, m)
           s == sent.w
           v == [s EXCEPT !.own.probePending = TRUE]
           z == [v EXCEPT !.own.due = @ \ {"probe"}]
<1>1. Goes(a, p)
  BY PollGoes
<1> HIDE DEF p
<1>2. IsMessage(m) /\ m.kind \notin Barriers
  BY Messages, SmallSequences DEF Barriers
<1> HIDE DEF m
<1>3. Goes(a, s)
  BY <1>1, <1>2, SendControlGoes
<1> HIDE DEF sent
<1>4. Goes(a, v)
  BY <1>3, SetOwn, Zenon
<1>5. Goes(a, z)
  BY <1>4, SetOwn, Zenon
<1>6. RequestProbe(y).w \in {p, s, z}
  BY DEF RequestProbe, Polled, With, p, m, sent
<1> HIDE DEF z
<1> QED
  BY <1>1, <1>3, <1>5, <1>6

LEMMA RequestHistoryGoes ==
    ASSUME NEW a, NEW y, Goes(a, y)
    PROVE  Goes(a, RequestHistory(y).w)
<1> DEFINE d == Drained(y)
           job == d.jobs.next
           m == [Message("history", 0, <<>>) EXCEPT !.job = job]
           s == Sent(d, m)
           b == [s EXCEPT !.jobs.next = @ + 1]
           c == [b EXCEPT !.jobs.active = @ \cup {job}]
           z == [c EXCEPT !.jobs.live = @ \cup {job}]
<1>1. Goes(a, d)
  BY DrainedGoes
<1> HIDE DEF d
<1>2. IsMessage(m) /\ m.kind \notin Barriers
  <2>1. IsMessage(m)
    BY Messages, SmallSequences, Zenon
  <2>2. m.kind = "history"
    BY DEF Message, Charged
  <2> HIDE DEF m
  <2> QED
    BY <2>1, <2>2 DEF Barriers
<1> HIDE DEF m
<1>3. Goes(a, s)
  BY <1>1, <1>2, SentGoes
<1> HIDE DEF s
<1>4. Goes(a, b)
  BY <1>3, SetJobs, Zenon
<1>5. Goes(a, c)
  BY <1>4, SetJobs, Zenon
<1>6. Goes(a, z)
  BY <1>5, SetJobs, Zenon
<1>7. \/ RequestHistory(y) = [ok |-> FALSE, w |-> d, job |-> 0]
      \/ RequestHistory(y) = [ok |-> TRUE, job |-> job, w |-> z]
  BY Zenon DEF RequestHistory, d, m, s
<1> HIDE DEF z
<1>8. RequestHistory(y).w \in {d, z}
  BY <1>7
<1> QED
  BY <1>1, <1>6, <1>8

LEMMA TakeHistoryGoes ==
    ASSUME NEW a, NEW y, Goes(a, y), NEW job
    PROVE  Goes(a, TakeHistory(y, job).w)
<1> DEFINE d == Drained(y)
           b == [d EXCEPT !.jobs.mail = @ \ {job}]
           c == [b EXCEPT !.jobs.active = @ \ {job}]
           z == [c EXCEPT !.jobs.live = @ \ {job}]
<1>1. Goes(a, d)
  BY DrainedGoes
<1> HIDE DEF d
<1>2. Goes(a, b)
  BY <1>1, SetJobs, Zenon
<1>3. Goes(a, c)
  BY <1>2, SetJobs, Zenon
<1>4. Goes(a, z)
  BY <1>3, SetJobs, Zenon
<1>5. TakeHistory(y, job).w \in {d, z}
  BY DEF TakeHistory, d
<1> HIDE DEF z
<1> QED
  BY <1>1, <1>4, <1>5

LEMMA CancelHistoryGoes ==
    ASSUME NEW a, NEW y, Goes(a, y), NEW job
    PROVE  Goes(a, CancelHistory(y, job))
<1> DEFINE b == [y EXCEPT !.jobs.live = @ \ {job}]
           z == [b EXCEPT !.jobs.cancelled = @ \cup {job}]
<1>1. Goes(a, b)
  BY SetJobs, Zenon
<1>2. Goes(a, z)
  BY <1>1, SetJobs, Zenon
<1>3. CancelHistory(y, job) \in {y, Drained(z)}
  BY DEF CancelHistory
<1> HIDE DEF z
<1> QED
  BY <1>2, <1>3, DrainedGoes

-----------------------------------------------------------------------------
(* The host's handlers.                                                    *)

\* As much of the host's shape as matters here: what it hands to the recorder, and
\* what it heard of it.
IsHost(h) ==
    /\ {"outbox", "lifecycle", "status"} \subseteq DOMAIN h
    /\ IsSequence(h.outbox)

\* A host that has polled knows the run that is open.
Told(a, status) == a.w.link = "up" /\ status.state = "recording" => status.run = a.s.run

\* The host in a handler that began at a: no open stop looks done to it.
Acts(a, h) ==
    /\ IsHost(h) /\ h.lifecycle = a.l
    /\ OpenStop(a.l, a.s) => h.status.state # "idle"
    /\ a.told => Told(a, h.status)

LaneGoes(a, g) == {"w", "h"} \subseteq DOMAIN g /\ Goes(a, g.w) /\ Acts(a, g.h)

LEMMA SetHost ==
    ASSUME NEW a, NEW h, Acts(a, h), NEW f, NEW v, f \notin {"status", "lifecycle"},
           f = "outbox" => IsSequence(v)
    PROVE  Acts(a, [h EXCEPT ![f] = v])
<1> DEFINE z == [h EXCEPT ![f] = v]
<1>1. IsHost(h)
  BY DEF Acts
<1>2. IsHost(z) /\ z.lifecycle = h.lifecycle /\ z.status = h.status
  BY <1>1 DEF IsHost
<1> HIDE DEF z
<1>3. Acts(a, z)
  BY <1>2 DEF Acts
<1> QED
  BY <1>3 DEF z

LEMMA LaneMade ==
    ASSUME NEW a, NEW y, Goes(a, y), NEW h, Acts(a, h)
    PROVE  LaneGoes(a, Lane(y, h)) /\ Lane(y, h).w = y /\ Lane(y, h).h = h
BY DEF LaneGoes, Lane

LEMMA SetLane ==
    ASSUME NEW a, NEW g, LaneGoes(a, g)
    PROVE  /\ \A y : Goes(a, y) => LaneGoes(a, [g EXCEPT !.w = y])
           /\ \A h : Acts(a, h) => LaneGoes(a, [g EXCEPT !.h = h])
           /\ \A h : [g EXCEPT !.h = h].h = h /\ [g EXCEPT !.h = h].w = g.w
           /\ \A f, v : f \notin {"outbox", "status", "lifecycle"} =>
                 LaneGoes(a, [g EXCEPT !.h[f] = v])
           /\ Goes(a, g.w) /\ Acts(a, g.h)
<1>1. ASSUME NEW y, Goes(a, y) PROVE LaneGoes(a, [g EXCEPT !.w = y])
  BY <1>1 DEF LaneGoes
<1>2. ASSUME NEW h, Acts(a, h) PROVE LaneGoes(a, [g EXCEPT !.h = h])
  BY <1>2 DEF LaneGoes
<1>3. ASSUME NEW h PROVE [g EXCEPT !.h = h].h = h /\ [g EXCEPT !.h = h].w = g.w
  BY DEF LaneGoes
<1>4. ASSUME NEW f, NEW v, f \notin {"outbox", "status", "lifecycle"}
      PROVE  LaneGoes(a, [g EXCEPT !.h[f] = v])
  <2>1. Acts(a, [g.h EXCEPT ![f] = v])
    BY <1>4, SetHost DEF LaneGoes
  <2> QED
    BY <1>2, <2>1, Zenon
<1> QED
  BY <1>1, <1>2, <1>3, <1>4 DEF LaneGoes

\* A handler that has polled.
Heard(a) == From(a.w, a.t, a.s, a.l, TRUE)

LEMMA HeardLaws ==
    ASSUME NEW a
    PROVE  /\ \A y : Goes(Heard(a), y) <=> Goes(a, y)
           /\ \A g : LaneGoes(Heard(a), g) => LaneGoes(a, g)
<1>1. /\ Heard(a).w = a.w /\ Heard(a).t = a.t /\ Heard(a).s = a.s /\ Heard(a).l = a.l
      /\ Heard(a).told = TRUE
  BY DEF Heard, From
<1>2. \A y : Goes(Heard(a), y) <=> Goes(a, y)
  BY <1>1 DEF Goes, Confirms
<1>3. \A h : Acts(Heard(a), h) => Acts(a, h)
  BY <1>1 DEF Acts, Told
<1> QED
  BY <1>2, <1>3 DEF LaneGoes

\* What the owner shows of the recorder.
LEMMA SetStatus ==
    ASSUME NEW a, NEW y, Goes(a, y), NEW h, Acts(a, h)
    PROVE  LET z == [h EXCEPT !.status = Snapshot(y.own)]
           IN  Acts(a, z) /\ Acts(Heard(a), z) /\ z.status = Snapshot(y.own)
<1> DEFINE z == [h EXCEPT !.status = Snapshot(y.own)]
<1>1. IsHost(z) /\ z.lifecycle = a.l /\ z.status = Snapshot(y.own)
  BY DEF Acts, IsHost
<1>2. z.status.state = y.own.state /\ z.status.run = y.own.run
  BY <1>1 DEF Snapshot
<1> HIDE DEF z
<1>3. OpenStop(a.l, a.s) => z.status.state # "idle"
  BY <1>2 DEF Goes, Doomed
<1>4. Told(a, z.status)
  <2> SUFFICES ASSUME a.w.link = "up", y.own.state = "recording" PROVE y.own.run = a.s.run
    BY <1>2 DEF Told
  <2> QED
    BY DEF Goes, Confirms, Flow
<1>5. /\ Heard(a).w = a.w /\ Heard(a).s = a.s /\ Heard(a).l = a.l
  BY DEF Heard, From
<1>6. Acts(a, z) /\ Acts(Heard(a), z)
  BY <1>1, <1>3, <1>4, <1>5 DEF Acts, Told
<1> QED
  BY <1>1, <1>6 DEF z

\* The same handler with another lifecycle request in the host.
LEMMA SetLifecycle ==
    ASSUME NEW a, NEW g, LaneGoes(a, g), NEW l
    PROVE  LET b == From(a.w, a.t, a.s, l, FALSE)
               z == [g EXCEPT !.h.lifecycle = l]
           IN  /\ ~OpenStop(l, a.s) => LaneGoes(b, z)
               /\ Goes(b, g.w) /\ g.h.status.state # "idle" => LaneGoes(b, z)
               /\ z.w = g.w
<1> DEFINE b == From(a.w, a.t, a.s, l, FALSE)
           h == [g.h EXCEPT !.lifecycle = l]
           z == [g EXCEPT !.h = h]
<1>1. b.w = a.w /\ b.t = a.t /\ b.s = a.s /\ b.l = l /\ b.told = FALSE
  BY DEF From
<1>2. IsHost(h) /\ h.lifecycle = l /\ h.status = g.h.status
  BY DEF LaneGoes, Acts, IsHost
<1>3. {"w", "h"} \subseteq DOMAIN z /\ z.w = g.w /\ z.h = h
  BY DEF LaneGoes
<1>4. [g EXCEPT !.h.lifecycle = l] = z
  BY Zenon
<1> HIDE DEF b, h, z
<1>5. ~OpenStop(l, a.s) => Goes(b, g.w) /\ Acts(b, h)
  BY <1>1, <1>2 DEF LaneGoes, Goes, Confirms, Acts
<1>6. g.h.status.state # "idle" => Acts(b, h)
  BY <1>1, <1>2 DEF Acts
<1> QED
  BY <1>3, <1>4, <1>5, <1>6 DEF LaneGoes, b

\* The gate, the fact outbox and the tracker.
LEMMA HostLaws ==
    ASSUME NEW a, NEW h, Acts(a, h)
    PROVE  /\ Acts(a, GateRequired(h)) /\ Acts(a, GateConfirmed(h))
           /\ Acts(a, GateFailed(h)) /\ Acts(a, GateClosed(h))
           /\ Acts(a, Enabled(h)) /\ Acts(a, Disabled(h)) /\ Acts(a, Pushed(h))
           /\ \A op, entry : Acts(a, WithPending(h, op, entry))
           /\ \A op : Acts(a, WithoutPending(h, op))
           /\ \A state : Acts(a, Gated(h, state))
           /\ Acts(a, [h EXCEPT !.outbox = <<>>])
<1>1. \A t, f, v :
         Acts(a, t) /\ f \notin {"status", "lifecycle"} /\ (f = "outbox" => IsSequence(v)) =>
            Acts(a, [t EXCEPT ![f] = v])
  BY SetHost
<1>2. \A t, f, v : Acts(a, t) /\ f \notin {"outbox", "status", "lifecycle"} =>
         Acts(a, [t EXCEPT ![f] = v])
  BY <1>1
<1>3. ASSUME NEW t, Acts(a, t)
      PROVE  /\ Acts(a, GateRequired(t)) /\ Acts(a, GateConfirmed(t))
             /\ Acts(a, GateFailed(t)) /\ Acts(a, GateClosed(t))
  <2>1. \A v : Acts(a, [t EXCEPT !.gate = v])
    BY <1>2, <1>3, Zenon
  <2> QED
    BY <1>3, <2>1, Zenon DEF GateRequired, GateConfirmed, GateFailed, GateClosed
<1>4. \A t : Acts(a, t) => Acts(a, [t EXCEPT !.outbox = <<>>])
  BY <1>1, SmallSequences
<1>5. \A t : Acts(a, t) => Acts(a, Enabled(t)) /\ Acts(a, Disabled(t))
  BY <1>2, <1>4, Zenon DEF Enabled, Disabled
<1>6. Acts(a, Pushed(h))
  <2> DEFINE b == [h EXCEPT !.nextFact = @ + 1]
             c == [b EXCEPT !.overflow = TRUE]
             d == [c EXCEPT !.lost = IF @ = 0 THEN h.nextFact ELSE @]
             e == [b EXCEPT !.outbox = Append(@, h.nextFact)]
  <2>1. Acts(a, b) /\ b.outbox = h.outbox /\ IsSequence(b.outbox)
    <3>1. Acts(a, b)
      BY <1>2, Zenon
    <3>2. IsHost(h)
      BY DEF Acts
    <3> QED
      BY <3>1, <3>2 DEF IsHost
  <2>2. Acts(a, c)
    BY <1>2, <2>1, Zenon
  <2>3. Acts(a, d)
    BY <1>2, <2>2, Zenon
  <2>4. IsSequence(Append(b.outbox, h.nextFact))
    BY <2>1, SequenceLaws
  <2> HIDE DEF b
  <2>5. Acts(a, e)
    BY <1>1, <2>1, <2>4, Zenon
  <2> HIDE DEF d, e
  <2> QED
    BY <2>3, <2>5, Zenon DEF Pushed, b, c, d, e
<1>7. /\ \A op, entry : Acts(a, WithPending(h, op, entry))
      /\ \A op : Acts(a, WithoutPending(h, op))
  BY <1>2, Zenon DEF WithPending, WithoutPending
<1>8. \A state : Acts(a, Gated(h, state))
  BY <1>3, <1>5 DEF Gated
<1> QED
  BY <1>3, <1>4, <1>5, <1>6, <1>7, <1>8

LEMMA FlushSafeTerminalGoes ==
    ASSUME NEW a, NEW g, LaneGoes(a, g)
    PROVE  LaneGoes(a, FlushSafeTerminal(g))
<1> DEFINE waiting == {op \in DOMAIN g.h.pending : g.h.pending[op].terminal # NoOperation}
           op == CHOOSE o \in waiting : \A other \in waiting : o <= other
           terminal == g.h.pending[op].terminal
           credit == OperationCredit(g.w, terminal)
           sent == AdmitOperation(credit.w, terminal)
           z == [g EXCEPT !.w = credit.w]
           h == IF sent.ok THEN WithoutPending(g.h, op) ELSE GateFailed(g.h)
<1> HIDE DEF op, terminal
<1>1. Goes(a, credit.w)
  BY OperationCreditGoes DEF LaneGoes
<1> HIDE DEF credit
<1>2. LaneGoes(a, z)
  BY <1>1, SetLane
<1>3. Goes(a, sent.w)
  BY <1>1, AdmitOperationGoes
<1> HIDE DEF sent
<1>4. Acts(a, h)
  BY HostLaws DEF LaneGoes
<1> HIDE DEF h, z
<1>5. LaneGoes(a, Lane(sent.w, h))
  BY <1>3, <1>4, LaneMade
<1>6. FlushSafeTerminal(g) \in {g, z, Lane(sent.w, h)}
  BY Zenon DEF FlushSafeTerminal, With, op, terminal, credit, sent, z, h
<1> QED
  BY <1>2, <1>5, <1>6

LEMMA FlushStartGoes ==
    ASSUME NEW a, NEW g, LaneGoes(a, g)
    PROVE  LaneGoes(a, FlushStart(g))
<1> DEFINE waiting == {op \in DOMAIN g.h.pending : g.h.pending[op].start}
           op == CHOOSE o \in waiting : TRUE
           operation == Operation(op, "recording_start", "accepted")
           sent == AdmitOperation(g.w, operation)
           b == [g.h EXCEPT !.pending[op].start = FALSE]
           c == [b EXCEPT !.pending[op].recorded = TRUE]
           h == IF sent.ok THEN c ELSE GateFailed(g.h)
<1> HIDE DEF op
<1>1. Goes(a, sent.w)
  BY AdmitOperationGoes DEF LaneGoes
<1>2. Acts(a, b)
  BY SetHost, Zenon DEF LaneGoes
<1>3. Acts(a, c)
  BY <1>2, SetHost, Zenon
<1> HIDE DEF sent, c
<1>4. Acts(a, h)
  BY <1>3, HostLaws DEF LaneGoes
<1> HIDE DEF h
<1>5. LaneGoes(a, Lane(sent.w, h))
  BY <1>1, <1>4, LaneMade
<1>6. FlushStart(g) \in {g, Lane(sent.w, h)}
  BY Zenon DEF FlushStart, With, op, sent, c, h
<1> QED
  BY <1>5, <1>6

LEMMA PollRecorderGoes ==
    ASSUME NEW a, NEW g, LaneGoes(a, g)
    PROVE  LaneGoes(a, PollRecorder(g)) /\ LaneGoes(Heard(a), PollRecorder(g))
<1>1. ASSUME NEW k, LaneGoes(a, k) PROVE LaneGoes(a, ReturnEnvelope(k))
  <2> DEFINE h == [k.h EXCEPT !.rebind = 0]
             x == Poll(CancelFacts(k.w, k.h.rebind))
  <2>1. Goes(a, Poll(k.w)) /\ Goes(a, x)
    BY <1>1, PollGoes, CancelFactsGoes DEF LaneGoes
  <2>2. Acts(a, h)
    BY <1>1, SetHost, Zenon DEF LaneGoes
  <2> HIDE DEF h, x
  <2> QED
    BY <1>1, <2>1, <2>2, LaneMade DEF ReturnEnvelope, LaneGoes, h, x
<1>2. ASSUME NEW k, LaneGoes(a, k) PROVE LaneGoes(a, Settled(k))
  BY <1>1, <1>2 DEF Settled
<1>3. ASSUME NEW k, LaneGoes(a, k) PROVE LaneGoes(Heard(a), Seen(k))
  <2> DEFINE h == [k.h EXCEPT !.status = Snapshot(k.w.own)]
  <2>1. Acts(Heard(a), h)
    BY <1>3, SetStatus DEF LaneGoes
  <2>2. Goes(Heard(a), k.w) /\ {"w", "h"} \subseteq DOMAIN k
    BY <1>3, HeardLaws DEF LaneGoes
  <2>3. Seen(k) = [k EXCEPT !.h = h]
    BY Zenon DEF Seen
  <2> HIDE DEF h
  <2> QED
    BY <2>1, <2>2, <2>3 DEF LaneGoes
<1>4. ASSUME NEW b, NEW k, LaneGoes(b, k) PROVE LaneGoes(b, Probed(k))
  <2>1. Goes(b, RequestProbe(k.w).w)
    BY <1>4, RequestProbeGoes DEF LaneGoes
  <2> QED
    BY <1>4, <2>1, SetLane, Zenon DEF Probed
<1>5. ASSUME NEW b, NEW k, LaneGoes(b, k) PROVE LaneGoes(b, Flushed(k))
  BY <1>4, <1>5, FlushSafeTerminalGoes DEF Flushed
<1> DEFINE p == Poll(g.w)
           k == Lane(p, Gated(g.h, p.own.state))
           flushed == Flushed(Seen(Settled(k)))
<1>6. Goes(a, p) /\ Acts(a, Gated(g.h, p.own.state))
  <2>1. Goes(a, p)
    BY PollGoes DEF LaneGoes
  <2> QED
    BY <2>1, HostLaws DEF LaneGoes
<1> HIDE DEF p
<1>7. LaneGoes(a, k)
  BY <1>6, LaneMade
<1> HIDE DEF k
<1>8. LaneGoes(Heard(a), flushed)
  BY <1>2, <1>3, <1>5, <1>7
<1> HIDE DEF flushed
<1>9. PollRecorder(g) \in {FlushStart(flushed), flushed}
  BY Zenon DEF PollRecorder, Polled, With, flushed, k, p
<1>10. LaneGoes(Heard(a), PollRecorder(g))
  BY <1>8, <1>9, FlushStartGoes
<1> QED
  BY <1>10, HeardLaws

LEMMA AdmitOutboxGoes ==
    ASSUME NEW a, NEW g, LaneGoes(a, g), NEW captureReference
    PROVE  LaneGoes(a, AdmitOutbox(g, captureReference))
<1> DEFINE facts == g.h.outbox
           drained == [g.h EXCEPT !.outbox = <<>>]
           admitted == IF captureReference /\ g.w.own.reservation.held
                       THEN [ok |-> Len(facts) <= 1, w |-> CaptureCompletion(g.w, facts)]
                       ELSE IF facts = <<>> THEN [ok |-> TRUE, w |-> g.w]
                       ELSE AdmitFacts(g.w, facts)
           x == FailWithGap(admitted.w, g.h.lost)
           h == IF admitted.ok THEN drained ELSE GateFailed(drained)
<1>1. Goes(a, g.w) /\ IsSequence(facts) /\ Acts(a, drained)
  BY HostLaws DEF LaneGoes, Acts, IsHost
<1> HIDE DEF facts, drained
<1>2. /\ Goes(a, CaptureCompletion(g.w, facts))
      /\ Goes(a, AdmitFacts(g.w, facts).w)
  BY <1>1, CaptureCompletionGoes, AdmitFactsGoes
<1>3. Goes(a, admitted.w)
  BY <1>1, <1>2
<1> HIDE DEF admitted
<1>4. Goes(a, x)
  BY <1>3, FailWithGapGoes
<1>5. Acts(a, h) /\ Acts(a, GateFailed(Disabled(drained)))
  BY <1>1, HostLaws
<1> HIDE DEF x, h
<1>6. LaneGoes(a, Lane(x, GateFailed(Disabled(drained)))) /\ LaneGoes(a, Lane(admitted.w, h))
  BY <1>3, <1>4, <1>5, LaneMade
<1>7. AdmitOutbox(g, captureReference)
        \in {Lane(x, GateFailed(Disabled(drained))), Lane(admitted.w, h)}
  BY Zenon DEF AdmitOutbox, With, facts, drained, admitted, x, h
<1> QED
  BY <1>6, <1>7

LEMMA AdmitRecordingFactsGoes ==
    ASSUME NEW a, NEW g, LaneGoes(a, g)
    PROVE  LaneGoes(a, AdmitRecordingFacts(g))
<1> DEFINE captureReference == TRUE
           z == AdmitOutbox(g, captureReference)
<1> HIDE DEF captureReference
<1>1. LaneGoes(a, z)
  BY AdmitOutboxGoes
<1> HIDE DEF z
<1>2. LaneGoes(a, PollRecorder(z))
  BY <1>1, PollRecorderGoes
<1>3. AdmitRecordingFacts(g) = PollRecorder(z)
  BY Zenon DEF AdmitRecordingFacts, z, captureReference
<1> QED
  BY <1>2, <1>3

LEMMA TransferOperationGoes ==
    ASSUME NEW a, NEW g, LaneGoes(a, g), NEW operation
    PROVE  LaneGoes(a, TransferOperation(g, operation))
<1> DEFINE accepted == operation.phase = "accepted"
           sent == IF operation.command = "reference_retune" /\ g.w.own.reservation.held
                   THEN IF accepted THEN CommitAcceptance(g.w, operation)
                        ELSE CommitCompletion(g.w, operation)
                   ELSE AdmitOperation(g.w, operation)
           b == [g.h EXCEPT !.pending[operation.op].recorded = TRUE]
           h == IF ~sent.ok THEN GateFailed(g.h) ELSE IF accepted THEN b ELSE g.h
<1>1. /\ Goes(a, CommitAcceptance(g.w, operation).w)
      /\ Goes(a, CommitCompletion(g.w, operation).w)
      /\ Goes(a, AdmitOperation(g.w, operation).w)
  BY CommitAcceptanceGoes, CommitCompletionGoes, AdmitOperationGoes DEF LaneGoes
<1>2. Goes(a, sent.w)
  BY <1>1
<1>3. Acts(a, b)
  BY SetHost, Zenon DEF LaneGoes
<1> HIDE DEF sent, b
<1>4. Acts(a, h)
  BY <1>3, HostLaws DEF LaneGoes
<1> HIDE DEF h
<1>5. LaneGoes(a, Lane(sent.w, h))
  BY <1>2, <1>4, LaneMade
<1>6. TransferOperation(g, operation) = Lane(sent.w, h)
  BY Zenon DEF TransferOperation, With, sent, b, h
<1> QED
  BY <1>5, <1>6

LEMMA RecordAcceptedGoes ==
    ASSUME NEW a, NEW g, LaneGoes(a, g), NEW operation
    PROVE  LaneGoes(a, RecordAccepted(g, operation)) /\ LaneGoes(Heard(a), RecordAccepted(g, operation))
<1> DEFINE defer == g.h.status.state = "idle" /\ operation.command = "recording_start"
           entered == [g EXCEPT !.h = WithPending(@, operation.op,
                                                  Entry(operation.command, defer, NoOperation))]
           refused == Lane(FailWithGap(g.w, 0), GateFailed(g.h))
<1>1. Acts(a, WithPending(g.h, operation.op, Entry(operation.command, defer, NoOperation)))
  BY HostLaws DEF LaneGoes
<1>2. LaneGoes(a, entered)
  BY <1>1, SetLane, Zenon
<1> HIDE DEF entered
<1>3. LaneGoes(a, TransferOperation(entered, operation))
  BY <1>2, TransferOperationGoes
<1>4. Goes(a, FailWithGap(g.w, 0)) /\ Acts(a, GateFailed(g.h))
  BY FailWithGapGoes, HostLaws DEF LaneGoes
<1>5. LaneGoes(a, refused)
  BY <1>4, LaneMade
<1> HIDE DEF refused
<1>6. RecordAccepted(g, operation)
        \in {PollRecorder(refused), PollRecorder(TransferOperation(entered, operation)),
             PollRecorder(entered)}
  BY Zenon DEF RecordAccepted, entered, refused
<1> QED
  BY <1>2, <1>3, <1>5, <1>6, PollRecorderGoes

LEMMA RecordTerminalGoes ==
    ASSUME NEW a, NEW g, LaneGoes(a, g), NEW operation
    PROVE  LaneGoes(a, RecordTerminal(g, operation))
<1> DEFINE b == [g EXCEPT !.h = WithoutPending(@, operation.op)]
           c == Lane(Poll(g.w), DeferredTerminal(g.h, operation))
           t == TransferOperation(g, operation)
           d == [t EXCEPT !.h = WithoutPending(@, operation.op)]
<1>1. Acts(a, WithoutPending(g.h, operation.op))
  BY HostLaws DEF LaneGoes
<1>2. LaneGoes(a, b)
  BY <1>1, SetLane, Zenon
<1>3. Goes(a, Poll(g.w)) /\ Acts(a, DeferredTerminal(g.h, operation))
  <2>1. Acts(a, DeferredTerminal(g.h, operation))
    BY SetHost, Zenon DEF LaneGoes, DeferredTerminal
  <2> QED
    BY <2>1, PollGoes DEF LaneGoes
<1>4. LaneGoes(a, c)
  BY <1>3, LaneMade
<1>5. LaneGoes(a, t)
  BY TransferOperationGoes
<1> HIDE DEF t
<1>6. Acts(a, WithoutPending(t.h, operation.op))
  BY <1>5, HostLaws DEF LaneGoes
<1>7. LaneGoes(a, d)
  BY <1>5, <1>6, SetLane, Zenon
<1> HIDE DEF b, c, d
<1>8. RecordTerminal(g, operation) \in {PollRecorder(b), PollRecorder(c), PollRecorder(d)}
  BY Zenon DEF RecordTerminal, b, c, d, t
<1> QED
  BY <1>2, <1>4, <1>7, <1>8, PollRecorderGoes

-----------------------------------------------------------------------------
(* The actions of the owner lane.                                          *)

\* What an action does whose handler ends in the lane g.
LEMMA LaneGoesOn ==
    ASSUME NEW a, NEW g, LaneGoes(a, g)
    PROVE  /\ LaneGoes(a, PollRecorder(g))
           /\ LaneGoes(a, AdmitRecordingFacts(g))
           /\ \A operation : LaneGoes(a, RecordAccepted(g, operation))
           /\ \A operation : LaneGoes(a, RecordTerminal(g, operation))
           /\ LaneGoes(a, Seen(g))
           /\ LaneGoes(a, Serviced(g))
           /\ \A op : LaneGoes(a, Use(g, op))
<1>1. LaneGoes(a, Seen(g))
  <2> DEFINE h == [g.h EXCEPT !.status = Snapshot(g.w.own)]
  <2>1. Acts(a, h)
    BY SetStatus DEF LaneGoes
  <2>2. Seen(g) = [g EXCEPT !.h = h]
    BY Zenon DEF Seen
  <2> HIDE DEF h
  <2> QED
    BY <2>1, <2>2, SetLane
<1>2. ASSUME NEW op PROVE LaneGoes(a, Use(g, op))
  BY SetLane, Zenon DEF Use
<1>3. LaneGoes(a, Serviced(g))
  BY PollRecorderGoes, AdmitRecordingFactsGoes DEF Serviced
<1> QED
  BY <1>1, <1>2, <1>3, PollRecorderGoes, AdmitRecordingFactsGoes, RecordAcceptedGoes,
     RecordTerminalGoes

LEMMA AttachedGoes ==
    ASSUME NEW a, NEW g, LaneGoes(a, g)
    PROVE  LaneGoes(a, Attached(g))
<1> DEFINE p == Poll(g.w)
           b == [g.h EXCEPT !.status = Snapshot(p.own)]
           c == [b EXCEPT !.attached = p.own.generation # 0 /\ p.own.state # "failed"]
<1>1. Goes(a, p)
  BY PollGoes DEF LaneGoes
<1> HIDE DEF p
<1>2. Acts(a, b)
  BY <1>1, SetStatus DEF LaneGoes
<1>3. Acts(a, c)
  BY <1>2, SetHost, Zenon
<1>4. Attached(g) = Lane(p, c)
  BY Zenon DEF Attached, Polled, With, p
<1> HIDE DEF c
<1> QED
  BY <1>1, <1>3, <1>4, LaneMade

LEMMA StartingGoes ==
    ASSUME NEW a, NEW accepted, LaneGoes(a, accepted)
    PROVE  LaneGoes(a, Starting(accepted).g)
<1> DEFINE started == RequestStart(accepted.w)
           s == [ok |-> started.ok, g |-> Lane(started.w, accepted.h)]
<1>1. Goes(a, started.w)
  BY RequestStartGoes DEF LaneGoes
<1> HIDE DEF started
<1>2. LaneGoes(a, Lane(started.w, accepted.h))
  BY <1>1, LaneMade DEF LaneGoes
<1>3. LaneGoes(a, s.g)
  BY <1>2
<1>4. Starting(accepted) \in {s, [ok |-> FALSE, g |-> accepted]}
  BY Zenon DEF Starting, With, started
<1> HIDE DEF s
<1> QED
  BY <1>3, <1>4

\* A stop that was queued is the stop of the open run, and still ahead of its commit.
LEMMA QueuedGoes ==
    ASSUME NEW a, NEW y, Goes(a, y), y.link = "up", y.own.state = "stopping",
           y.receipt.state = "recording", None(a.t.batch), NEW l, l.run = a.s.run
    PROVE  Goes(From(a.w, a.t, a.s, l, FALSE), y)
<1> DEFINE b == From(a.w, a.t, a.s, l, FALSE)
<1>1. b.w = a.w /\ b.t = a.t /\ b.s = a.s /\ b.l = l
  BY DEF From
<1>2. ~One(a.t.batch, "stop")
  BY DEF None, One, Barriers
<1>3. Doomed(y, a.t, a.s, l.run)
  BY <1>2 DEF Doomed
<1> HIDE DEF b
<1>4. Goes(b, y)
  BY <1>1, <1>3 DEF Goes, Confirms
<1> QED
  BY <1>4 DEF b

LEMMA StoppingGoes ==
    ASSUME NEW a, NEW accepted, LaneGoes(Heard(a), accepted), NEW safe
    PROVE  LET r == Stopping(accepted, safe)
           IN  /\ LaneGoes(a, r.g)
               /\ \A l : r.ok /\ l.run = accepted.h.status.run =>
                     LaneGoes(From(a.w, a.t, a.s, l, FALSE), [r.g EXCEPT !.h.lifecycle = l])
<1> DEFINE drained == DrainForStop(accepted)
           stopped == RequestStop(drained.w, DOMAIN drained.h.pending)
           b == Lane(stopped.w, drained.h)
           c == Lane(Poll(stopped.w), Disabled(GateClosed(drained.h)))
           k == IF ~stopped.ok THEN b ELSE Seen(c)
           s == [ok |-> stopped.ok, g |-> k]
           r == Stopping(accepted, safe)
<1>1. LaneGoes(a, accepted) /\ LaneGoes(a, drained)
  BY HeardLaws, PollRecorderGoes, AdmitRecordingFactsGoes DEF DrainForStop
<1> HIDE DEF drained
<1>2. /\ Goes(a, stopped.w)
      /\ stopped.ok => /\ stopped.w.link = "up" /\ stopped.w.own.state = "stopping"
                       /\ stopped.w.receipt.state = "recording" /\ None(a.t.batch)
  BY <1>1, RequestStopGoes DEF LaneGoes
<1> HIDE DEF stopped
<1>3. Goes(a, Poll(stopped.w)) /\ Acts(a, drained.h) /\ Acts(a, Disabled(GateClosed(drained.h)))
  BY <1>1, <1>2, PollGoes, HostLaws DEF LaneGoes
<1>4. /\ LaneGoes(a, b) /\ LaneGoes(a, c)
      /\ c.w = Poll(stopped.w)
  BY <1>2, <1>3, LaneMade
<1> HIDE DEF b, c
<1>5. LaneGoes(a, k) /\ s.g = k /\ s.ok = stopped.ok
  BY <1>4, LaneGoesOn
<1>6. /\ r \in {[ok |-> FALSE, g |-> accepted], [ok |-> FALSE, g |-> drained], s}
      /\ ~StopRefused(accepted.h) \/ r = [ok |-> FALSE, g |-> accepted]
  BY Zenon DEF Stopping, StopRecording, With, drained, stopped, b, c, k
<1>7. ASSUME NEW l, r.ok, l.run = accepted.h.status.run
      PROVE  LaneGoes(From(a.w, a.t, a.s, l, FALSE), [r.g EXCEPT !.h.lifecycle = l])
  <2> DEFINE e == From(a.w, a.t, a.s, l, FALSE)
  <2>1. r = s /\ stopped.ok /\ ~StopRefused(accepted.h)
    <3> HIDE DEF r, s
    <3> QED
      BY <1>5, <1>6, <1>7
  <2>2. r.g = Seen(c)
    BY <2>1, <1>5
  <2>3. a.w.link = "up"
    BY <1>2, <2>1 DEF Goes, Confirms
  <2>4. accepted.h.status.run = a.s.run
    BY <2>1, <2>3 DEF LaneGoes, Acts, Told, Heard, From, StopRefused
  <2>5. Goes(e, stopped.w)
    BY <1>2, <1>7, <2>1, <2>4, QueuedGoes
  <2>6. Goes(e, c.w)
    BY <1>4, <2>5, PollGoes
  <2>7. e.l = l /\ e.s = a.s
    BY DEF From
  <2> HIDE DEF e, r
  <2>8. Seen(c).w = c.w /\ Seen(c).h.status.state = c.w.own.state
    BY <1>4 DEF Seen, LaneGoes, Acts, IsHost, Snapshot
  <2>9. OpenStop(l, a.s) => r.g.h.status.state # "idle"
    BY <2>2, <2>6, <2>7, <2>8 DEF Goes, Doomed
  <2>10. LaneGoes(a, r.g) /\ Goes(e, r.g.w)
    BY <1>5, <2>1, <2>2, <2>6, <2>8
  <2> QED
    BY <2>9, <2>10, SetLifecycle DEF e
<1>8. LaneGoes(a, r.g)
  <2> HIDE DEF r, k, s
  <2> QED
    BY <1>1, <1>5, <1>6
<1> QED
  BY <1>7, <1>8

LEMMA AnswerStopGoes ==
    ASSUME NEW a, NEW stopping, LaneGoes(a, stopping.g), NEW op, NEW run,
           \A l : stopping.ok /\ l.run = run =>
              LaneGoes(From(a.w, a.t, a.s, l, FALSE), [stopping.g EXCEPT !.h.lifecycle = l])
    PROVE  \/ LaneGoes(a, AnswerStop(op, run, stopping))
           \/ \E l : LaneGoes(From(a.w, a.t, a.s, l, FALSE), AnswerStop(op, run, stopping))
<1> DEFINE l == [op |-> op, start |-> FALSE, run |-> run]
           b == [stopping.g EXCEPT !.h.lifecycle = l]
           c == RecordTerminal(stopping.g, Operation(op, "recording_stop", "failed"))
<1>1. l.run = run
  OBVIOUS
<1>2. AnswerStop(op, run, stopping) = IF ~stopping.ok THEN c ELSE b
  BY Zenon DEF AnswerStop
<1>3. LaneGoes(a, c)
  BY LaneGoesOn
<1> HIDE DEF l, c
<1>4. stopping.ok => LaneGoes(From(a.w, a.t, a.s, l, FALSE), b)
  BY <1>1
<1> HIDE DEF b
<1> QED
  BY <1>2, <1>3, <1>4

LEMMA ReservedGoes ==
    ASSUME NEW a, NEW g, LaneGoes(a, g), NEW op
    PROVE  LaneGoes(a, Reserved(g, op))
<1> DEFINE b == [g EXCEPT !.h.used = @ \cup {op}]
           c == [b EXCEPT !.h.pc = "reserved"]
           goesOn == [c EXCEPT !.h.op = op]
           reserved == ReserveReference(g.w, op)
           h == IF reserved.answer = "yes" THEN goesOn.h ELSE g.h
<1>1. LaneGoes(a, b)
  BY SetLane, Zenon
<1>2. LaneGoes(a, c)
  BY <1>1, SetLane, Zenon
<1>3. LaneGoes(a, goesOn)
  BY <1>2, SetLane, Zenon
<1> HIDE DEF c
<1>4. Goes(a, reserved.w)
  BY ReserveReferenceGoes DEF LaneGoes
<1> HIDE DEF reserved, goesOn
<1>5. Acts(a, h)
  BY <1>3 DEF LaneGoes
<1> HIDE DEF h
<1>6. LaneGoes(a, Lane(reserved.w, h))
  BY <1>4, <1>5, LaneMade
<1>7. Reserved(g, op) \in {g, goesOn, Lane(reserved.w, h)}
  BY Zenon DEF Reserved, With, c, goesOn, reserved, h
<1> QED
  BY <1>3, <1>6, <1>7

LEMMA PrepareRecordingGoes ==
    ASSUME NEW a, NEW g, LaneGoes(a, g)
    PROVE  /\ LaneGoes(a, PrepareRecording(g).g)
           /\ {"ok", "g"} \subseteq DOMAIN PrepareRecording(g)
<1> DEFINE captureReference == FALSE
           k == PollRecorder(g)
           drained == AdmitOutbox(k, captureReference)
           state == drained.h.status.state
           refused == /\ Required
                      /\ \/ state \in {"failed", "closed"}
                         \/ state \in {"starting", "recording"} /\ drained.h.gate # "open"
           z == IF refused THEN PollRecorder(drained) ELSE drained
           s == [ok |-> ~refused, g |-> z]
<1> HIDE DEF captureReference, k
<1>1. LaneGoes(a, k)
  BY PollRecorderGoes DEF k
<1>2. LaneGoes(a, drained)
  BY <1>1, AdmitOutboxGoes
<1> HIDE DEF drained
<1>3. LaneGoes(a, PollRecorder(drained))
  BY <1>2, PollRecorderGoes
<1>4. LaneGoes(a, z)
  BY <1>2, <1>3
<1>5. PrepareRecording(g) = s
  BY Zenon DEF PrepareRecording, With, drained, captureReference, k
<1> HIDE DEF z
<1>6. s.g = z /\ {"ok", "g"} \subseteq DOMAIN s
  OBVIOUS
<1> HIDE DEF s
<1> QED
  BY <1>4, <1>5, <1>6

LEMMA PreparedGoes ==
    ASSUME NEW a, NEW g, LaneGoes(a, g), NEW op
    PROVE  LaneGoes(a, Prepared(g, op).g)
<1> DEFINE Fine(s) == LaneGoes(a, s.g) /\ {"ok", "g"} \subseteq DOMAIN s
           first == PrepareRecording(g)
           ready == CompletionReady(first.g.w, op)
           h == IF ready.answer THEN first.g.h ELSE GateFailed(first.g.h)
           second == PrepareRecording(Lane(ready.w, h))
           ended == [second EXCEPT !.ok = @ /\ ready.answer]
           prepared == PrepareCompletion(g, op)
           again == PrepareRecording(prepared.g)
           last == [again EXCEPT !.ok = @ /\ ~host.stopping]
<1>1. Fine(first)
  BY PrepareRecordingGoes
<1> HIDE DEF first
<1>2. Goes(a, ready.w) /\ Acts(a, h)
  <2>1. Goes(a, ready.w)
    BY <1>1, CompletionReadyGoes DEF LaneGoes
  <2>2. Acts(a, h)
    BY <1>1, HostLaws DEF LaneGoes
  <2> QED
    BY <2>1, <2>2
<1> HIDE DEF ready, h
<1>3. LaneGoes(a, Lane(ready.w, h))
  BY <1>2, LaneMade
<1>4. Fine(second)
  BY <1>3, PrepareRecordingGoes
<1> HIDE DEF second
<1>5. Fine(ended)
  BY <1>4
<1> HIDE DEF ended
<1>6. prepared \in {first, ended}
  BY Zenon DEF PrepareCompletion, With, first, ready, h, second, ended
<1> HIDE DEF prepared
<1>7. Fine(prepared)
  BY <1>1, <1>5, <1>6
<1>8. Fine(again)
  BY <1>7, PrepareRecordingGoes
<1> HIDE DEF again
<1>9. Fine(last)
  BY <1>8
<1> HIDE DEF last
<1>10. Prepared(g, op) \in {prepared, last}
  BY Zenon DEF Prepared, With, prepared, again, last
<1> QED
  BY <1>7, <1>9, <1>10

LEMMA ActivationReservedGoes ==
    ASSUME NEW a, NEW g, LaneGoes(a, g)
    PROVE  LaneGoes(a, ActivationReserved(g))
<1> DEFINE reserved == ReserveLive(g.w)
           b == [g.h EXCEPT !.apply.phase = "reserved"]
           c == [b EXCEPT !.apply.gen = reserved.w.own.liveGen]
           d == [g.h EXCEPT !.apply = NoApply]
           z == AdmitRecordingFacts(Lane(reserved.w, d))
<1>1. Goes(a, reserved.w) /\ reserved.answer \in {"error", "no", "yes"}
  BY ReserveLiveGoes DEF LaneGoes
<1> HIDE DEF reserved
<1>2. Acts(a, g.h) /\ Acts(a, b) /\ Acts(a, d)
  <2>1. Acts(a, g.h)
    BY DEF LaneGoes
  <2>2. Acts(a, b)
    BY <2>1, SetHost, Zenon
  <2>3. Acts(a, d)
    BY <2>1, SetHost, Zenon
  <2> QED
    BY <2>1, <2>2, <2>3
<1>3. Acts(a, c)
  BY <1>2, SetHost, Zenon
<1> HIDE DEF c, d
<1>4. /\ LaneGoes(a, Lane(reserved.w, c))
      /\ LaneGoes(a, Lane(reserved.w, g.h))
      /\ LaneGoes(a, Lane(reserved.w, d))
  BY <1>1, <1>2, <1>3, LaneMade
<1>5. LaneGoes(a, z)
  BY <1>4, AdmitRecordingFactsGoes
<1> HIDE DEF z
<1>6. ActivationReserved(g) \in {Lane(reserved.w, c), Lane(reserved.w, g.h), z}
  <2>1. ActivationReserved(g) =
          CASE reserved.answer = "yes" -> Lane(reserved.w, c)
            [] reserved.answer = "no" -> Lane(reserved.w, g.h)
            [] reserved.answer = "error" -> z
    BY Zenon DEF ActivationReserved, With, reserved, c, d, z
  <2> QED
    BY <1>1, <2>1
<1> QED
  BY <1>4, <1>5, <1>6

LEMMA CancelledGoes ==
    ASSUME NEW a, NEW g, LaneGoes(a, g)
    PROVE  LaneGoes(a, Cancelled(g))
<1> DEFINE drained == AdmitRecordingFacts(g)
           returned == IF drained.h.rebind = 0 THEN drained.w
                       ELSE CancelFacts(drained.w, drained.h.rebind)
           x == IF returned.own.liveGen # 0 THEN CancelLive(returned) ELSE returned
           b == [drained.h EXCEPT !.rebind = 0]
           c == [b EXCEPT !.apply = NoApply]
<1>1. LaneGoes(a, drained)
  BY AdmitRecordingFactsGoes
<1> HIDE DEF drained
<1>2. Goes(a, returned)
  BY <1>1, CancelFactsGoes DEF LaneGoes
<1> HIDE DEF returned
<1>3. Goes(a, x)
  BY <1>2, CancelLiveGoes
<1>4. Acts(a, b)
  BY <1>1, SetHost, Zenon DEF LaneGoes
<1>5. Acts(a, c)
  BY <1>4, SetHost, Zenon
<1>6. Cancelled(g) = Lane(x, c)
  BY Zenon DEF Cancelled, With, drained, returned
<1> HIDE DEF x, c
<1> QED
  BY <1>3, <1>5, <1>6, LaneMade

LEMMA ConfirmedGoes ==
    ASSUME NEW a, NEW polled, LaneGoes(a, polled)
    PROVE  LaneGoes(a, Confirmed(polled))
<1> DEFINE g == PollRecorder(polled)
           b == Cancelled(Lane(g.w, GateFailed(g.h)))
           c == IF g.h.apply.reopen THEN GateConfirmed(g.h) ELSE g.h
           d == [c EXCEPT !.apply = NoApply]
           e == [g EXCEPT !.h = d]
<1>1. LaneGoes(a, g)
  BY PollRecorderGoes
<1> HIDE DEF g
<1>2. Acts(a, GateFailed(g.h)) /\ Acts(a, c) /\ Goes(a, g.w)
  BY <1>1, HostLaws DEF LaneGoes
<1>3. LaneGoes(a, b)
  BY <1>2, LaneMade, CancelledGoes
<1> HIDE DEF b, c
<1>4. Acts(a, d)
  BY <1>2, SetHost, Zenon
<1> HIDE DEF d
<1>5. LaneGoes(a, e)
  BY <1>1, <1>4, SetLane
<1> HIDE DEF e
<1>6. Confirmed(polled) \in {b, g, e}
  BY Zenon DEF Confirmed, With, g, b, c, d, e
<1> QED
  BY <1>1, <1>3, <1>5, <1>6

LEMMA ShutDownGoes ==
    ASSUME NEW a, NEW g, LaneGoes(a, g)
    PROVE  LaneGoes(a, ShutDown(g))
<1>1. ASSUME NEW k, LaneGoes(a, k) PROVE LaneGoes(a, SealRecorder(k))
  <2> DEFINE stopped == RequestStop(k.w, DOMAIN k.h.pending)
             h == IF stopped.ok THEN Disabled(GateClosed(k.h)) ELSE k.h
             finished == RequestFinish(k.w, k.h.gate)
             d == [k.h EXCEPT !.finish = finished.ok]
  <2>1. Goes(a, stopped.w) /\ Goes(a, finished.w)
    BY <1>1, RequestStopGoes, RequestFinishGoes DEF LaneGoes
  <2> HIDE DEF stopped, finished
  <2>2. Acts(a, d)
    BY <1>1, SetHost, Zenon DEF LaneGoes
  <2>3. Acts(a, h)
    BY <1>1, HostLaws DEF LaneGoes
  <2> HIDE DEF h, d
  <2>4. LaneGoes(a, Lane(stopped.w, h)) /\ LaneGoes(a, Lane(finished.w, d))
    BY <2>1, <2>2, <2>3, LaneMade
  <2>5. SealRecorder(k) \in {Lane(stopped.w, h), k, Lane(finished.w, d)}
    BY Zenon DEF SealRecorder, With, stopped, finished, h, d
  <2> QED
    BY <1>1, <2>4, <2>5
<1> QED
  BY <1>1, LaneGoesOn DEF ShutDown

\* Where a step of the owner lane begins, and what it leaves behind: the lane of a
\* handler that began there, with the lifecycle request it ended with.
Hence == From(w, worker, store, host.lifecycle, FALSE)

LaneStep ==
    /\ \E l : LaneGoes(From(w, worker, store, l, FALSE), Lane(w', host'))
    /\ UNCHANGED <<worker, store>>

LEMMA HereGoes == Goes(Hence, w) /\ Acts(Hence, host) => LaneGoes(Hence, Here)
BY LaneMade DEF Here

LEMMA MadeGoes ==
    ASSUME NEW l, NEW g, LaneGoes(From(w, worker, store, l, FALSE), g), Becomes(g), ThreadStays
    PROVE  LaneStep
<1> DEFINE a == From(w, worker, store, l, FALSE)
<1> HIDE DEF a
<1>1. LaneGoes(a, g)
  BY DEF a
<1>2. LaneGoes(a, Lane(w', host'))
  BY <1>1, LaneMade DEF LaneGoes, Becomes
<1>3. LaneGoes(From(w, worker, store, l, FALSE), Lane(w', host'))
  BY <1>2 DEF a
<1> QED
  BY <1>3 DEF LaneStep, ThreadStays

LEMMA BecomesGoes ==
    ASSUME NEW g, LaneGoes(Hence, g), Becomes(g), ThreadStays
    PROVE  LaneStep
BY MadeGoes DEF Hence

LEMMA StepMade ==
    ASSUME Goes(Hence, w'), Acts(Hence, host'), ThreadStays
    PROVE  LaneStep
<1>1. LaneGoes(Hence, Lane(w', host'))
  BY LaneMade
<1> QED
  BY <1>1 DEF LaneStep, Hence, ThreadStays

\* The handlers of recording_start and recording_stop, and the turns of the loop.
LEMMA LifecycleStep ==
    ASSUME Goes(Hence, w), Acts(Hence, host),
           \/ Ready \/ ServiceTurn \/ Produce \/ Tick
           \/ \E op \in Ops : ClientStart(op) \/ ClientStop(op)
           \/ FinishStart \/ PollRecording
    PROVE  LaneStep
<1>1. LaneGoes(Hence, Here)
  BY HereGoes
<1>2. CASE Ready
  BY <1>1, <1>2, AttachedGoes, BecomesGoes DEF Ready
<1>3. CASE ServiceTurn
  BY <1>1, <1>3, LaneGoesOn, BecomesGoes DEF ServiceTurn
<1>4. CASE Produce
  <2>1. Acts(Hence, Pushed(host))
    BY HostLaws
  <2> QED
    BY <1>4, <2>1, StepMade DEF Produce
<1>5. CASE Tick
  <2>1. Goes(Hence, [w EXCEPT !.own.due = {"clock", "probe"}])
    BY SetOwn, Zenon
  <2> QED
    BY <1>5, <2>1, StepMade DEF Tick
<1>6. ASSUME NEW op \in Ops, ClientStart(op) PROVE LaneStep
  <2> DEFINE operation == Operation(op, "recording_start", "accepted")
             used == Use(RecordAccepted(Here, operation), op)
             s == Starting(used)
             k == s.g
             l == [op |-> op, start |-> TRUE, run |-> k.h.status.run]
             b == [k EXCEPT !.h.pc = "starting"]
             c == [b EXCEPT !.h.lifecycle = l]
             d == EnabledAtBoundary(c)
             e == RecordTerminal(k, Operation(op, "recording_start", "failed"))
             begun == From(w, worker, store, l, FALSE)
  <2>1. LaneGoes(Hence, used)
    BY <1>1, LaneGoesOn
  <2> HIDE DEF used
  <2>2. LaneGoes(Hence, k)
    BY <2>1, StartingGoes
  <2>3. AnswerStart(op, s) /\ ThreadStays
    BY <1>6 DEF ClientStart, used
  <2> HIDE DEF s
  <2>4. LaneGoes(Hence, b)
    BY <2>2, SetLane, Zenon
  <2>5. Becomes(d) \/ Becomes(e)
    BY <2>3, Zenon DEF AnswerStart
  <2>6. ~OpenStop(l, store) /\ begun = From(Hence.w, Hence.t, Hence.s, l, FALSE) /\ Hence.s = store
    BY DEF OpenStop, Hence, From
  <2> HIDE DEF b, l
  <2>7. LaneGoes(begun, c)
    <3> HIDE DEF begun
    <3> QED
      BY <2>4, <2>6, SetLifecycle
  <2> HIDE DEF c
  <2>8. LaneGoes(begun, d)
    <3> HIDE DEF begun
    <3>1. Acts(begun, Enabled(c.h))
      BY <2>7, HostLaws DEF LaneGoes
    <3> QED
      BY <2>7, <3>1, SetLane, Zenon DEF EnabledAtBoundary
  <2>9. LaneGoes(Hence, e)
    BY <2>2, LaneGoesOn
  <2> HIDE DEF d, e
  <2> QED
    BY <2>3, <2>5, <2>8, <2>9, BecomesGoes, MadeGoes
<1>7. ASSUME NEW op \in Ops, ClientStop(op) PROVE LaneStep
  <2> DEFINE operation == Operation(op, "recording_stop", "accepted")
             accepted == Use(RecordAccepted(Here, operation), op)
  <2>1. LaneGoes(Heard(Hence), accepted)
    <3> HIDE DEF operation
    <3>1. LaneGoes(Heard(Hence), RecordAccepted(Here, operation))
      BY <1>1, RecordAcceptedGoes
    <3> QED
      BY <3>1, SetLane, Zenon DEF Use
  <2> HIDE DEF accepted
  <2>2. PICK safe \in BOOLEAN :
           Becomes(AnswerStop(op, accepted.h.status.run, Stopping(accepted, safe)))
    BY <1>7, Zenon DEF ClientStop, With, accepted
  <2> DEFINE s == Stopping(accepted, safe)
             z == AnswerStop(op, accepted.h.status.run, s)
  <2>3. /\ LaneGoes(Hence, s.g)
        /\ \A l : s.ok /\ l.run = accepted.h.status.run =>
              LaneGoes(From(Hence.w, Hence.t, Hence.s, l, FALSE), [s.g EXCEPT !.h.lifecycle = l])
    BY <2>1, StoppingGoes
  <2> HIDE DEF s
  <2>4. \/ LaneGoes(Hence, z)
        \/ \E l : LaneGoes(From(Hence.w, Hence.t, Hence.s, l, FALSE), z)
    BY <2>3, AnswerStopGoes
  <2>5. Becomes(z) /\ ThreadStays
    BY <1>7, <2>2 DEF s, ClientStop
  <2>6. Hence.w = w /\ Hence.t = worker /\ Hence.s = store
    BY DEF Hence, From
  <2> HIDE DEF z
  <2> QED
    BY <2>4, <2>5, <2>6, BecomesGoes, MadeGoes
<1>8. CASE FinishStart
  <2> DEFINE p == PollRecorder(Here)
             z == [p EXCEPT !.h.pc = "free"]
  <2>1. LaneGoes(Hence, p)
    BY <1>1, LaneGoesOn
  <2>2. Becomes(z) /\ ThreadStays
    BY <1>8 DEF FinishStart
  <2> HIDE DEF p
  <2>3. LaneGoes(Hence, z)
    BY <2>1, SetLane, Zenon
  <2> HIDE DEF z
  <2> QED
    BY <2>2, <2>3, BecomesGoes
<1>9. CASE PollRecording
  <2> DEFINE completed == host.status.state # "failed"
             command == IF host.lifecycle.start THEN "recording_start" ELSE "recording_stop"
             terminal == Operation(host.lifecycle.op, command,
                                   IF completed THEN "completed" ELSE "failed")
             p == RecordTerminal(Here, terminal)
             z == [p EXCEPT !.h.lifecycle = NoLifecycle]
  <2>1. Becomes(z) /\ ThreadStays
    BY <1>9, Zenon DEF PollRecording
  <2> HIDE DEF terminal
  <2>2. LaneGoes(Hence, p)
    BY <1>1, LaneGoesOn
  <2> HIDE DEF p
  <2>3. /\ ~OpenStop(NoLifecycle, store) /\ Hence.s = store
        /\ Hence.w = w /\ Hence.t = worker
    BY DEF OpenStop, NoLifecycle, Hence, From
  <2>4. LaneGoes(From(w, worker, store, NoLifecycle, FALSE), z)
    BY <2>2, <2>3, SetLifecycle
  <2> HIDE DEF z
  <2> QED
    BY <2>1, <2>4, MadeGoes
<1> QED
  BY <1>2, <1>3, <1>4, <1>5, <1>6, <1>7, <1>8, <1>9

\* Audited operations, annotations, archived reads and the Reference mutation.
LEMMA ClientStep ==
    ASSUME Goes(Hence, w), Acts(Hence, host),
           \/ \E op \in Ops : ClientFinish(op) \/ ReferenceReserve(op)
           \/ \E op \in Ops, command \in {"controller_pause", "write"} : ClientAccept(op, command)
           \/ Annotate \/ ReferenceStep
           \/ \E c \in Connections :
                ReadHistory(c) \/ TakePage(c) \/ ExpirePage(c) \/ Disconnect(c)
           \/ CancelOrphan
    PROVE  LaneStep
<1>1. LaneGoes(Hence, Here) /\ Goes(Hence, w)
  BY HereGoes
<1>2. ASSUME NEW op \in Ops, ClientFinish(op) PROVE LaneStep
  <2>1. PICK operation : Becomes(RecordTerminal(Here, operation))
    BY <1>2 DEF ClientFinish
  <2> QED
    BY <1>1, <1>2, <2>1, LaneGoesOn, BecomesGoes DEF ClientFinish
<1>3. ASSUME NEW op \in Ops, ReferenceReserve(op) PROVE LaneStep
  BY <1>1, <1>3, LaneGoesOn, ReservedGoes, BecomesGoes DEF ReferenceReserve
<1>4. ASSUME NEW op \in Ops, NEW command, ClientAccept(op, command) PROVE LaneStep
  BY <1>1, <1>4, LaneGoesOn, BecomesGoes DEF ClientAccept
<1>5. CASE Annotate
  <2> DEFINE sent == AdmitAnnotation(w)
             h == IF sent.ok THEN host ELSE GateFailed(host)
             z == PollRecorder(Lane(sent.w, h))
  <2>1. Becomes(z) /\ ThreadStays
    BY <1>5, Zenon DEF Annotate, With
  <2>2. Goes(Hence, sent.w)
    BY <1>1, AdmitAnnotationGoes
  <2> HIDE DEF sent
  <2>3. Acts(Hence, h)
    BY HostLaws
  <2> HIDE DEF h
  <2>4. LaneGoes(Hence, z)
    BY <2>2, <2>3, LaneMade, LaneGoesOn
  <2> HIDE DEF z
  <2> QED
    BY <2>1, <2>4, BecomesGoes
<1>6. CASE ReferenceAccept
  <2> DEFINE p == RecordAccepted(Here, Operation(host.op, "reference_retune", "accepted"))
             z == [p EXCEPT !.h.pc = "accepted"]
  <2>1. Becomes(z) /\ ThreadStays
    BY <1>6 DEF ReferenceAccept
  <2>2. LaneGoes(Hence, p)
    BY <1>1, LaneGoesOn
  <2> HIDE DEF p
  <2>3. LaneGoes(Hence, z)
    BY <2>2, SetLane, Zenon
  <2> HIDE DEF z
  <2> QED
    BY <2>1, <2>3, BecomesGoes
<1>7. CASE ReferenceDispatch
  <2> DEFINE prepared == Prepared(Here, host.op)
             g == prepared.g
  <2>1. PICK effect \in BOOLEAN : Dispatched(prepared, effect) /\ ThreadStays
    BY <1>7 DEF ReferenceDispatch
  <2>2. LaneGoes(Hence, g)
    BY <1>1, PreparedGoes
  <2> HIDE DEF prepared
  <2> DEFINE b == [g EXCEPT !.h = Pushed(@)]
             published == IF effect /\ Publishes(g.h) THEN b ELSE g
             k == IF prepared.ok THEN PollRecorder(AdmitRecordingFacts(published)) ELSE g
             z == [k EXCEPT !.h.pc = "dispatched"]
  <2>3. Becomes(z)
    BY <2>1, Zenon DEF Dispatched
  <2> HIDE DEF g
  <2>4. LaneGoes(Hence, b)
    <3>1. Acts(Hence, Pushed(g.h))
      BY <2>2, HostLaws DEF LaneGoes
    <3> QED
      BY <2>2, <3>1, SetLane, Zenon
  <2> HIDE DEF b
  <2>5. LaneGoes(Hence, published)
    BY <2>2, <2>4
  <2> HIDE DEF published
  <2>6. LaneGoes(Hence, k)
    BY <2>2, <2>5, LaneGoesOn
  <2> HIDE DEF k
  <2>7. LaneGoes(Hence, z)
    BY <2>6, SetLane, Zenon
  <2> HIDE DEF z
  <2> QED
    BY <2>1, <2>3, <2>7, BecomesGoes
<1>8. CASE ReferenceTerminal
  <2>1. PICK phase : /\ ThreadStays
                     /\ Becomes([RecordTerminal(Here, Operation(host.op, "reference_retune", phase))
                                  EXCEPT !.h.pc = "free", !.h.op = 0])
    BY <1>8, Zenon DEF ReferenceTerminal
  <2> DEFINE p == RecordTerminal(Here, Operation(host.op, "reference_retune", phase))
             b == [p EXCEPT !.h.pc = "free"]
             z == [b EXCEPT !.h.op = 0]
  <2>2. LaneGoes(Hence, p)
    BY <1>1, LaneGoesOn
  <2>3. Becomes(z)
    BY <2>1, Zenon
  <2> HIDE DEF p
  <2>4. LaneGoes(Hence, b)
    BY <2>2, SetLane, Zenon
  <2>5. LaneGoes(Hence, z)
    BY <2>4, SetLane, Zenon
  <2> HIDE DEF z
  <2> QED
    BY <2>1, <2>3, <2>5, BecomesGoes
<1>9. ASSUME NEW c \in Connections, ReadHistory(c) PROVE LaneStep
  <2> DEFINE asked == RequestHistory(w)
             h == [host EXCEPT !.history[c] = asked.job]
  <2>1. Becomes(Lane(asked.w, h)) /\ ThreadStays
    BY <1>9, Zenon DEF ReadHistory
  <2>2. Goes(Hence, asked.w) /\ Acts(Hence, h)
    <3>1. Acts(Hence, h)
      BY SetHost, Zenon
    <3> HIDE DEF h
    <3> QED
      BY <1>1, <3>1, RequestHistoryGoes
  <2> HIDE DEF asked, h
  <2> QED
    BY <2>1, <2>2, LaneMade, BecomesGoes
<1>10. ASSUME NEW c \in Connections, TakePage(c) PROVE LaneStep
  <2> DEFINE taken == TakeHistory(w, host.history[c])
             h == [host EXCEPT !.history[c] = 0]
  <2>1. Becomes(Lane(taken.w, h)) /\ ThreadStays
    BY <1>10, Zenon DEF TakePage
  <2>2. Goes(Hence, taken.w) /\ Acts(Hence, h)
    <3>1. Acts(Hence, h)
      BY SetHost, Zenon
    <3> HIDE DEF h
    <3> QED
      BY <1>1, <3>1, TakeHistoryGoes
  <2> HIDE DEF taken, h
  <2> QED
    BY <2>1, <2>2, LaneMade, BecomesGoes
<1>11. ASSUME NEW c \in Connections, ExpirePage(c) PROVE LaneStep
  <2> DEFINE x == CancelHistory(w, host.history[c])
             h == [host EXCEPT !.history[c] = 0]
  <2>1. Becomes(Lane(x, h)) /\ ThreadStays
    BY <1>11, Zenon DEF ExpirePage
  <2>2. Goes(Hence, x) /\ Acts(Hence, h)
    <3>1. Acts(Hence, h)
      BY SetHost, Zenon
    <3> HIDE DEF h
    <3> QED
      BY <1>1, <3>1, CancelHistoryGoes
  <2> HIDE DEF x, h
  <2> QED
    BY <2>1, <2>2, LaneMade, BecomesGoes
<1>12. ASSUME NEW c \in Connections, Disconnect(c) PROVE LaneStep
  <2> DEFINE b == [host EXCEPT !.orphans = @ \cup {host.history[c]}]
             d == [b EXCEPT !.history[c] = 0]
  <2>1. host' = d /\ w' = w /\ ThreadStays
    BY <1>12, Zenon DEF Disconnect
  <2>2. Acts(Hence, b)
    BY SetHost, Zenon
  <2>3. Acts(Hence, d)
    BY <2>2, SetHost, Zenon
  <2> HIDE DEF d
  <2> QED
    BY <1>1, <2>1, <2>3, StepMade
<1>13. CASE CancelOrphan
  <2>1. PICK job : Becomes(Lane(CancelHistory(w, job), [host EXCEPT !.orphans = @ \ {job}]))
    BY <1>13, Zenon DEF CancelOrphan
  <2>2. Acts(Hence, [host EXCEPT !.orphans = @ \ {job}])
    BY SetHost, Zenon
  <2>3. Goes(Hence, CancelHistory(w, job))
    BY <1>1, CancelHistoryGoes
  <2>4. LaneGoes(Hence, Lane(CancelHistory(w, job), [host EXCEPT !.orphans = @ \ {job}]))
    BY <2>2, <2>3, LaneMade
  <2> QED
    BY <1>13, <2>1, <2>4, BecomesGoes DEF CancelOrphan
<1> QED
  BY <1>2, <1>3, <1>4, <1>5, <1>6, <1>7, <1>8, <1>9, <1>10, <1>11, <1>12, <1>13
  DEF ReferenceStep

\* A live activation, a rebind envelope and shutdown.
LEMMA ServiceStep ==
    ASSUME Goes(Hence, w), Acts(Hence, host),
           \/ ApplyReserve \/ ApplyCommit \/ ApplyAbort \/ ApplyConfirm
           \/ RebindReserve \/ RebindAdmit
           \/ RequestShutdown \/ ShutdownStep
    PROVE  LaneStep
<1>1. LaneGoes(Hence, Here) /\ Goes(Hence, w)
  BY HereGoes
<1>2. CASE ApplyReserve
  <2> DEFINE c == IF host.gate = "open" THEN GateRequired(host) ELSE host
             d == [c EXCEPT !.apply = [phase |-> "fenced", gen |-> 0, reopen |-> host.gate = "open"]]
             fenced == Fenced(host)
             z == ActivationReserved(PollRecorder(AdmitRecordingFacts(Lane(w, fenced))))
  <2>1. Becomes(z) /\ ThreadStays
    BY <1>2, Zenon DEF ApplyReserve
  <2>2. Acts(Hence, c)
    BY HostLaws
  <2> HIDE DEF c
  <2>3. Acts(Hence, d)
    BY <2>2, SetHost, Zenon
  <2>4. fenced \in {host, d}
    BY Zenon DEF Fenced, c
  <2> HIDE DEF d, fenced
  <2>5. LaneGoes(Hence, Lane(w, fenced))
    BY <1>1, <2>3, <2>4, LaneMade
  <2>6. LaneGoes(Hence, z)
    BY <2>5, LaneGoesOn, ActivationReservedGoes
  <2> HIDE DEF z
  <2> QED
    BY <2>1, <2>6, BecomesGoes
<1>3. CASE ApplyCommit
  <2> DEFINE sent == CommitLive(w)
             h == [host EXCEPT !.apply.phase = "committed"]
             z == IF sent.ok THEN Lane(sent.w, h) ELSE Cancelled(Lane(sent.w, GateFailed(host)))
  <2>1. Becomes(z) /\ ThreadStays
    BY <1>3, Zenon DEF ApplyCommit, With
  <2>2. Goes(Hence, sent.w)
    BY <1>1, CommitLiveGoes
  <2> HIDE DEF sent
  <2>3. Acts(Hence, h) /\ Acts(Hence, GateFailed(host))
    <3>1. Acts(Hence, h)
      BY SetHost, Zenon
    <3> HIDE DEF h
    <3> QED
      BY <3>1, HostLaws
  <2> HIDE DEF h
  <2>4. LaneGoes(Hence, Lane(sent.w, h)) /\ LaneGoes(Hence, Cancelled(Lane(sent.w, GateFailed(host))))
    BY <2>2, <2>3, LaneMade, CancelledGoes
  <2>5. LaneGoes(Hence, z)
    BY <2>4
  <2> HIDE DEF z
  <2> QED
    BY <2>1, <2>5, BecomesGoes
<1>4. CASE ApplyAbort
  BY <1>1, <1>4, CancelledGoes, BecomesGoes DEF ApplyAbort
<1>5. CASE ApplyConfirm
  BY <1>1, <1>5, ConfirmedGoes, BecomesGoes DEF ApplyConfirm
<1>6. CASE RebindReserve
  <2> DEFINE g == PollRecorder(Here)
             reserved == ReserveFacts(g.w)
             h == [g.h EXCEPT !.rebind = reserved.token]
             z == IF g.h.status.state # "recording" THEN g ELSE Lane(reserved.w, h)
  <2>1. Becomes(z) /\ ThreadStays
    BY <1>6, Zenon DEF RebindReserve, With
  <2>2. LaneGoes(Hence, g)
    BY <1>1, LaneGoesOn
  <2> HIDE DEF g
  <2>3. Goes(Hence, reserved.w)
    BY <2>2, ReserveFactsGoes DEF LaneGoes
  <2> HIDE DEF reserved
  <2>4. Acts(Hence, h)
    BY <2>2, SetHost, Zenon DEF LaneGoes
  <2> HIDE DEF h
  <2>5. LaneGoes(Hence, Lane(reserved.w, h))
    BY <2>3, <2>4, LaneMade
  <2>6. LaneGoes(Hence, z)
    BY <2>2, <2>5
  <2> HIDE DEF z
  <2> QED
    BY <2>1, <2>6, BecomesGoes
<1>7. CASE RebindAdmit
  <2>1. PICK baseline \in BOOLEAN :
           LET publishes == baseline /\ Publishes(host)
               h == IF publishes THEN Pushed(host) ELSE host
           IN  Becomes(With(AdmitReserved(w, h.rebind, h.outbox), LAMBDA sent :
                   With(Lane(sent.w, [h EXCEPT !.outbox = <<>>, !.rebind = 0]), LAMBDA after :
                        IF sent.ok THEN AdmitRecordingFacts(after) ELSE after)))
    BY <1>7, Zenon DEF RebindAdmit
  <2> DEFINE publishes == baseline /\ Publishes(host)
             h == IF publishes THEN Pushed(host) ELSE host
             sent == AdmitReserved(w, h.rebind, h.outbox)
             b == [h EXCEPT !.outbox = <<>>]
             c == [b EXCEPT !.rebind = 0]
             after == Lane(sent.w, c)
             z == IF sent.ok THEN AdmitRecordingFacts(after) ELSE after
  <2>2. Becomes(z)
    BY <2>1, Zenon DEF With
  <2>3. Acts(Hence, h)
    BY HostLaws
  <2> HIDE DEF h
  <2>4. Acts(Hence, b) /\ Goes(Hence, sent.w)
    BY <1>1, <2>3, HostLaws, AdmitReservedGoes DEF Acts, IsHost
  <2> HIDE DEF sent
  <2>5. Acts(Hence, c)
    BY <2>4, SetHost, Zenon
  <2> HIDE DEF c
  <2>6. LaneGoes(Hence, after)
    BY <2>4, <2>5, LaneMade
  <2> HIDE DEF after
  <2>7. LaneGoes(Hence, AdmitRecordingFacts(after))
    BY <2>6, LaneGoesOn
  <2>8. LaneGoes(Hence, z)
    BY <2>6, <2>7
  <2>9. ThreadStays
    BY <1>7, Zenon DEF RebindAdmit
  <2> HIDE DEF z
  <2> QED
    BY <2>2, <2>8, <2>9, BecomesGoes
<1>8. CASE RequestShutdown
  <2>1. Acts(Hence, [host EXCEPT !.stopping = TRUE])
    BY SetHost, Zenon
  <2> QED
    BY <1>1, <1>8, <2>1, StepMade DEF RequestShutdown
<1>9. CASE ShutdownStep
  BY <1>1, <1>9, ShutDownGoes, BecomesGoes DEF ShutdownStep
<1> QED
  BY <1>2, <1>3, <1>4, <1>5, <1>6, <1>7, <1>8, <1>9

-----------------------------------------------------------------------------
(* The archive.                                                            *)

\* As much of the archive's shape as matters here.
IsRuns(runs) ==
    /\ IsSequence(runs)
    /\ \A r \in DOMAIN runs : {"state", "coverage"} \subseteq DOMAIN runs[r]

IsBoot(boot) ==
    /\ {"state", "records", "runs"} \subseteq DOMAIN boot
    /\ IsSequence(boot.records)
    /\ IsRuns(boot.runs)

IsFile(file) == IsSequence(file) /\ \A b \in DOMAIN file : IsBoot(file[b])

IsStore(s) ==
    /\ {"file", "run", "gap"} \subseteq DOMAIN s
    /\ IsFile(s.file) /\ s.file # <<>>
    /\ s.run = 0 \/ s.run \in DOMAIN CurrentBoot(s).runs

\* One place of a sequence, or one more.
LEMMA SequenceSet ==
    ASSUME NEW q, IsSequence(q)
    PROVE  /\ \A i, v : /\ IsSequence([q EXCEPT ![i] = v])
                        /\ Len([q EXCEPT ![i] = v]) = Len(q)
           /\ \A v : /\ Len(Append(q, v)) = Len(q) + 1
                     /\ Append(q, v)[Len(q) + 1] = v
                     /\ \A i \in 1..Len(q) : Append(q, v)[i] = q[i]
           /\ q # <<>> <=> Len(q) > 0
<1>1. PICK S : q \in Seq(S)
  BY DEF IsSequence
<1>2. ASSUME NEW i, NEW v
      PROVE  IsSequence([q EXCEPT ![i] = v]) /\ Len([q EXCEPT ![i] = v]) = Len(q)
  <2> DEFINE z == [q EXCEPT ![i] = v]
             T == S \cup {v}
  <2>1. Len(q) \in Nat /\ q \in [1..Len(q) -> S]
    BY <1>1
  <2>2. z \in [1..Len(q) -> T]
    BY <2>1
  <2> HIDE DEF z, T
  <2>3. z \in Seq(T) /\ Len(z) = Len(q)
    BY <2>1, <2>2
  <2>4. IsSequence(z)
    BY <2>3 DEF IsSequence
  <2> QED
    BY <2>3, <2>4 DEF z
<1>3. ASSUME NEW v
      PROVE  /\ Len(Append(q, v)) = Len(q) + 1
             /\ Append(q, v)[Len(q) + 1] = v
             /\ \A i \in 1..Len(q) : Append(q, v)[i] = q[i]
  BY <1>1
<1>4. q # <<>> <=> Len(q) > 0
  BY <1>1
<1> QED
  BY <1>2, <1>3, <1>4

\* The rows of a command.
LEMMA RowsAre ==
    ASSUME NEW m, IsMessage(m), NEW run
    PROVE  IsSequence(RowsOf(m, run)) /\ Len(RowsOf(m, run)) = Len(m.rows)
<1> DEFINE f == [i \in DOMAIN m.rows |->
                    [kind |-> m.rows[i].kind, item |-> m.rows[i].item, run |-> run]]
<1>1. IsSequence([i \in DOMAIN m.rows |-> f[i]]) /\ Len([i \in DOMAIN m.rows |-> f[i]]) = Len(m.rows)
  BY SequenceLaws DEF IsMessage
<1>2. f = [i \in DOMAIN m.rows |-> f[i]]
  OBVIOUS
<1> HIDE DEF f
<1> QED
  BY <1>1, <1>2 DEF f, RowsOf

\* A boot to which a transaction was applied, of which `runs` and `state` are new.
Rewritten(s, z, rows, runs, state, run) ==
    LET last == Len(s.file)
        boot == z.file[last]
    IN  /\ {"file", "run", "gap"} \subseteq DOMAIN z
        /\ z.file = [s.file EXCEPT ![last] = boot]
        /\ {"state", "records", "runs"} \subseteq DOMAIN boot
        /\ boot.records = CurrentBoot(s).records \o rows
        /\ boot.runs = runs
        /\ boot.state = state
        /\ z.run = run

\* One field of a boot, or of the connection, after the rows.
LEMMA RewrittenSets ==
    ASSUME NEW s, NEW z, NEW rows, NEW runs, NEW state, NEW run,
           Rewritten(s, z, rows, runs, state, run), Len(s.file) \in DOMAIN s.file
    PROVE  /\ \A v : Rewritten(s, [z EXCEPT !.run = v], rows, runs, state, v)
           /\ \A v : Rewritten(s, [z EXCEPT !.gap = v], rows, runs, state, run)
           /\ \A v : Rewritten(s, [z EXCEPT !.file[Len(s.file)].runs = v], rows, v, state, run)
           /\ \A v : Rewritten(s, [z EXCEPT !.file[Len(s.file)].state = v], rows, runs, v, run)
<1> DEFINE last == Len(s.file)
           boot == z.file[last]
<1>1. last \in DOMAIN s.file /\ DOMAIN z.file = DOMAIN s.file
  BY DEF Rewritten
<1>2. \A v : Rewritten(s, [z EXCEPT !.run = v], rows, runs, state, v)
  BY DEF Rewritten
<1>3. \A v : Rewritten(s, [z EXCEPT !.gap = v], rows, runs, state, run)
  BY DEF Rewritten
<1>4. ASSUME NEW f \in {"runs", "state"}, NEW v
      PROVE  LET t == [z EXCEPT !.file[last][f] = v]
             IN  Rewritten(s, t, rows, IF f = "runs" THEN v ELSE runs,
                           IF f = "state" THEN v ELSE state, run)
  <2> DEFINE new == [boot EXCEPT ![f] = v]
             file == [z.file EXCEPT ![last] = new]
             t == [z EXCEPT !.file = file]
  <2>1. /\ {"state", "records", "runs"} \subseteq DOMAIN new
        /\ new.records = boot.records
        /\ new.runs = (IF f = "runs" THEN v ELSE boot.runs)
        /\ new.state = (IF f = "state" THEN v ELSE boot.state)
    BY DEF Rewritten
  <2> HIDE DEF new
  <2>2. file[last] = new /\ file = [s.file EXCEPT ![last] = new]
    BY <1>1 DEF Rewritten
  <2> HIDE DEF file
  <2>3. t.file = file /\ t.run = z.run /\ {"file", "run", "gap"} \subseteq DOMAIN t
    BY DEF Rewritten
  <2>4. t = [z EXCEPT !.file[last][f] = v]
    BY Zenon DEF file, new
  <2> HIDE DEF t
  <2>5. Rewritten(s, t, rows, IF f = "runs" THEN v ELSE runs,
                  IF f = "state" THEN v ELSE state, run)
    BY <2>1, <2>2, <2>3 DEF Rewritten
  <2> QED
    BY <2>4, <2>5
<1>5. ASSUME NEW v
      PROVE  Rewritten(s, [z EXCEPT !.file[last].runs = v], rows, v, state, run)
  <2> DEFINE f == "runs"
  <2>1. f \in {"runs", "state"} /\ f = "runs" /\ f # "state"
    OBVIOUS
  <2> HIDE DEF f
  <2>2. Rewritten(s, [z EXCEPT !.file[last][f] = v], rows, v, state, run)
    BY <1>4, <2>1
  <2> QED
    BY <2>2, Zenon DEF f
<1>6. ASSUME NEW v
      PROVE  Rewritten(s, [z EXCEPT !.file[last].state = v], rows, runs, v, run)
  <2> DEFINE f == "state"
  <2>1. f \in {"runs", "state"} /\ f = "state" /\ f # "runs"
    OBVIOUS
  <2> HIDE DEF f
  <2>2. Rewritten(s, [z EXCEPT !.file[last][f] = v], rows, runs, v, run)
    BY <1>4, <2>1
  <2> QED
    BY <2>2, Zenon DEF f
<1> QED
  BY <1>2, <1>3, <1>5, <1>6

\* What each transaction does to the boot and to the connection.
LEMMA CommittedRewrites ==
    ASSUME NEW s, IsStore(s), NEW m
    PROVE  \E rows, run :
             LET old == CurrentBoot(s)
                 end == Len(old.records) + Len(m.rows)
                 Z(runs, state, open) == Rewritten(s, Committed(s, m), rows, runs, state, open)
             IN  /\ rows = RowsOf(m, run)
                 /\ \/ m.kind = "start" /\ Z(Append(old.runs, OpenRun), old.state, Len(old.runs) + 1)
                    \/ m.kind = "stop"
                       /\ Z([old.runs EXCEPT ![s.run] =
                               [state |-> "sealed", coverage |-> old.runs[s.run].coverage,
                                end |-> end]], old.state, 0)
                    \/ m.kind = "gap"
                       /\ Z([old.runs EXCEPT ![s.run] =
                               [state |-> "failed", coverage |-> "gap", end |-> end]], old.state, 0)
                    \/ m.kind = "finish" /\ Z(old.runs, "sealed", s.run)
                    \/ /\ m.kind \notin {"start", "stop", "gap", "finish"}
                       /\ Z(old.runs, old.state, s.run)
<1> DEFINE last == Len(s.file)
           old == s.file[last]
           end == Len(old.records) + Len(m.rows)
<1>1. last \in DOMAIN s.file /\ IsBoot(old)
  <2>1. last \in Nat /\ DOMAIN s.file = 1..last /\ last > 0
    BY SequenceLaws, SequenceSet DEF IsStore, IsFile
  <2> QED
    BY <2>1 DEF IsStore, IsFile
<1>2. CurrentBoot(s) = old
  BY DEF CurrentBoot
<1>3. {"file", "run", "gap"} \subseteq DOMAIN s
  BY DEF IsStore
<1>4. {"state", "records", "runs"} \subseteq DOMAIN old
  BY <1>1 DEF IsBoot
<1> HIDE DEF old
<1>5. ASSUME NEW run
      PROVE  LET z == WithRows(s, m, run)
             IN  /\ Rewritten(s, z, RowsOf(m, run), old.runs, old.state, s.run)
                 /\ z.file[last].runs = old.runs
                 /\ z.gap = s.gap
                 /\ last \in DOMAIN z.file
  <2> DEFINE rows == RowsOf(m, run)
             boot == [old EXCEPT !.records = @ \o rows]
             z == [s EXCEPT !.file = [s.file EXCEPT ![last] = boot]]
  <2>1. WithRows(s, m, run) = z
    BY Zenon DEF WithRows, old
  <2> HIDE DEF rows
  <2>2. /\ {"state", "records", "runs"} \subseteq DOMAIN boot
        /\ boot.records = old.records \o rows
        /\ boot.runs = old.runs /\ boot.state = old.state
    BY <1>4
  <2> HIDE DEF boot
  <2>3. /\ z.file = [s.file EXCEPT ![last] = boot]
        /\ z.file[last] = boot
        /\ z.run = s.run /\ z.gap = s.gap
        /\ {"file", "run", "gap"} \subseteq DOMAIN z
        /\ last \in DOMAIN z.file
    BY <1>1, <1>3
  <2> HIDE DEF z
  <2> QED
    BY <1>2, <2>1, <2>2, <2>3 DEF Rewritten, rows
<1>6. CASE m.kind = "start"
  <2> DEFINE run == Len(old.runs) + 1
             z == WithRows(s, m, run)
             t == [z EXCEPT !.run = run]
             v == Append(t.file[last].runs, OpenRun)
             x == [t EXCEPT !.file[last].runs = v]
  <2> HIDE DEF run
  <2>1. Rewritten(s, z, RowsOf(m, run), old.runs, old.state, s.run)
    BY <1>5
  <2> HIDE DEF z
  <2>2. Rewritten(s, t, RowsOf(m, run), old.runs, old.state, run)
    BY <1>1, <2>1, RewrittenSets
  <2> HIDE DEF t
  <2>3. v = Append(old.runs, OpenRun)
    BY <2>2 DEF Rewritten
  <2> HIDE DEF v
  <2>4. Rewritten(s, x, RowsOf(m, run), v, old.state, run)
    BY <1>1, <2>2, RewrittenSets
  <2>5. Committed(s, m) = x
    BY <1>2, <1>6, Zenon DEF Committed, StartRun, z, t, v, run
  <2> HIDE DEF x
  <2> QED
    BY <1>2, <1>6, <2>3, <2>4, <2>5 DEF run
<1> DEFINE EndedRun(state, coverage) == [state |-> state, coverage |-> coverage, end |-> end]
<1>7. ASSUME NEW state, NEW coverage
      PROVE  Rewritten(s, RunEnded(s, m, state, coverage), RowsOf(m, s.run),
                       [old.runs EXCEPT ![s.run] = EndedRun(state, coverage)], old.state, 0)
  <2> DEFINE z == WithRows(s, m, s.run)
             t == [z EXCEPT !.run = 0]
             v == [t.file[last].runs EXCEPT ![s.run] = EndedRun(state, coverage)]
             x == [t EXCEPT !.file[last].runs = v]
  <2>1. Rewritten(s, z, RowsOf(m, s.run), old.runs, old.state, s.run)
    BY <1>5
  <2> HIDE DEF z
  <2>2. Rewritten(s, t, RowsOf(m, s.run), old.runs, old.state, 0)
    BY <1>1, <2>1, RewrittenSets
  <2> HIDE DEF t
  <2>3. v = [old.runs EXCEPT ![s.run] = EndedRun(state, coverage)]
    BY <2>2 DEF Rewritten
  <2>4. RunEnded(s, m, state, coverage) = x
    BY <1>2, Zenon DEF RunEnded, z, t
  <2> HIDE DEF v
  <2>5. Rewritten(s, x, RowsOf(m, s.run), v, old.state, 0)
    BY <1>1, <2>2, RewrittenSets
  <2> HIDE DEF x
  <2> QED
    BY <2>3, <2>4, <2>5
<1>8. CASE m.kind = "stop"
  <2>1. Committed(s, m) = RunEnded(s, m, "sealed", old.runs[s.run].coverage)
    BY <1>2, <1>8, Zenon DEF Committed, StopRun
  <2> QED
    BY <1>2, <1>7, <1>8, <2>1
<1>9. CASE m.kind = "gap"
  <2> DEFINE z == RunEnded(s, m, "failed", "gap")
  <2>1. Rewritten(s, z, RowsOf(m, s.run), [old.runs EXCEPT ![s.run] = EndedRun("failed", "gap")],
                  old.state, 0)
    BY <1>7
  <2>2. Committed(s, m) = [z EXCEPT !.gap = TRUE]
    BY <1>9, Zenon DEF Committed, FailRun
  <2> HIDE DEF z
  <2>3. Rewritten(s, Committed(s, m), RowsOf(m, s.run),
                  [old.runs EXCEPT ![s.run] = EndedRun("failed", "gap")], old.state, 0)
    BY <1>1, <2>1, <2>2, RewrittenSets
  <2> QED
    BY <1>2, <1>9, <2>3
<1>10. CASE m.kind = "finish"
  <2> DEFINE z == WithRows(s, m, 0)
  <2>1. Rewritten(s, z, RowsOf(m, 0), old.runs, old.state, s.run)
    BY <1>5
  <2>2. Committed(s, m) = [z EXCEPT !.file[last].state = "sealed"]
    BY <1>10, Zenon DEF Committed, FinishBoot
  <2> HIDE DEF z
  <2>3. Rewritten(s, Committed(s, m), RowsOf(m, 0), old.runs, "sealed", s.run)
    BY <1>1, <2>1, <2>2, RewrittenSets
  <2> QED
    BY <1>2, <1>10, <2>3
<1>11. CASE m.kind \notin {"start", "stop", "gap", "finish"}
  <2>1. Committed(s, m) = WithRows(s, m, s.run)
    BY <1>11, Zenon DEF Committed, AppendRows
  <2>2. Rewritten(s, Committed(s, m), RowsOf(m, s.run), old.runs, old.state, s.run)
    BY <1>5, <2>1
  <2> QED
    BY <1>2, <1>11, <2>2
<1> QED
  BY <1>6, <1>8, <1>9, <1>10, <1>11

-----------------------------------------------------------------------------
(* The rows of a batch.                                                    *)

\* A set of naturals has a least element.
LEMMA LeastNatural ==
    ASSUME NEW T, T \subseteq Nat, T # {}
    PROVE  \E m \in T : \A k \in T : m <= k
<1> DEFINE R == OpToRel(<, Nat)
<1>1. IsWellFoundedOn(R, Nat)
  BY NatLessThanWellFounded DEF OpToRel
<1>2. \A x, y \in Nat : x < y => <<x, y>> \in R
  BY DEF OpToRel
<1> HIDE DEF R
<1>3. \E m \in T : \A k \in T : ~(<<k, m>> \in R)
  BY <1>1, WFMin
<1>4. ASSUME NEW m \in T, NEW k \in T, ~(<<k, m>> \in R)
      PROVE  m <= k
  <2>1. m \in Nat /\ k \in Nat
    OBVIOUS
  <2>2. ~(k < m)
    BY <1>2, <1>4, <2>1
  <2> QED
    BY <2>1, <2>2
<1> QED
  BY <1>3, <1>4

\* The first n places of `seqs`, one behind the other.
Flattens(f, seqs, n) ==
    f = [i \in 1..n |-> IF i = 1 THEN seqs[i] ELSE f[i - 1] \o seqs[i]]

\* Take the least n for which there were no such function.
LEMMA FlattensExists ==
    ASSUME NEW seqs, NEW n \in Nat
    PROVE  \E f : Flattens(f, seqs, n)
<1> DEFINE T == {k \in Nat : ~ \E f : Flattens(f, seqs, k)}
<1>1. SUFFICES ASSUME T # {} PROVE FALSE
  OBVIOUS
<1>2. PICK m \in T : \A k \in T : m <= k
  <2> HIDE DEF T
  <2>1. T \subseteq Nat
    BY DEF T
  <2> QED
    BY <1>1, <2>1, LeastNatural
<1>3. CASE m = 0
  <2> DEFINE f == [i \in 1..0 |-> seqs[i]]
  <2>1. Flattens(f, seqs, 0)
    <3>1. 1..0 = {}
      OBVIOUS
    <3> QED
      BY <3>1 DEF Flattens
  <2> QED
    BY <1>2, <1>3, <2>1
<1>4. CASE m # 0
  <2>1. m - 1 \in Nat /\ m \in Nat
    BY <1>4
  <2>2. m - 1 \notin T
    <3> HIDE DEF T
    <3> QED
      BY <1>2, <2>1
  <2>3. PICK f : Flattens(f, seqs, m - 1)
    BY <2>1, <2>2
  <2> DEFINE last == IF m = 1 THEN seqs[m] ELSE f[m - 1] \o seqs[m]
             g == [i \in 1..m |-> IF i = m THEN last ELSE f[i]]
  <2>4. ASSUME NEW i \in 1..m
        PROVE  g[i] = IF i = 1 THEN seqs[i] ELSE g[i - 1] \o seqs[i]
    <3>1. CASE i = m
      <4>1. m # 1 => g[m - 1] = f[m - 1]
        BY <2>1
      <4> QED
        BY <2>1, <3>1, <4>1
    <3>2. CASE i # m
      <4>1. i \in 1..(m - 1)
        BY <2>1, <3>2
      <4>2. f[i] = IF i = 1 THEN seqs[i] ELSE f[i - 1] \o seqs[i]
        BY <2>3, <4>1 DEF Flattens
      <4>3. g[i] = f[i] /\ (i # 1 => g[i - 1] = f[i - 1])
        BY <2>1, <3>2, <4>1
      <4> QED
        BY <4>2, <4>3
    <3> QED
      BY <3>1, <3>2
  <2>5. Flattens(g, seqs, m)
    <3> DEFINE h == [i \in 1..m |-> IF i = 1 THEN seqs[i] ELSE g[i - 1] \o seqs[i]]
    <3>1. g = h
      BY <2>4
    <3> QED
      BY <3>1 DEF Flattens
  <2> QED
    BY <1>2, <2>5
<1> QED
  BY <1>3, <1>4

\* Sequences one behind the other are a sequence.
LEMMA FlattenIsSequence ==
    ASSUME NEW seqs, IsSequence(seqs), \A i \in DOMAIN seqs : IsSequence(seqs[i])
    PROVE  IsSequence(FlattenSeq(seqs))
<1> DEFINE n == Len(seqs)
           f == CHOOSE f : Flattens(f, seqs, n)
<1>1. n \in Nat /\ DOMAIN seqs = 1..n
  BY SequenceLaws
<1>2. CASE n = 0
  BY <1>2 DEF FlattenSeq
<1>3. CASE n # 0
  <2>1. FlattenSeq(seqs) = f[n]
    BY <1>3 DEF FlattenSeq, Flattens
  <2>2. Flattens(f, seqs, n)
    BY <1>1, FlattensExists
  <2> HIDE DEF f, n
  <2>3. \A i \in 1..n : f[i] = IF i = 1 THEN seqs[i] ELSE f[i - 1] \o seqs[i]
    BY <2>2 DEF Flattens
  <2> DEFINE T == {k \in 1..n : ~IsSequence(f[k])}
  <2>4. CASE T = {}
    <3>1. n \in 1..n
      BY <1>1, <1>3
    <3> QED
      BY <2>1, <2>4, <3>1
  <2>5. CASE T # {}
    <3>1. PICK m \in T : \A k \in T : m <= k
      <4>1. T \subseteq Nat
        OBVIOUS
      <4> HIDE DEF T
      <4> QED
        BY <2>5, <4>1, LeastNatural
    <3>2. m \in 1..n /\ ~IsSequence(f[m]) /\ IsSequence(seqs[m])
      BY <1>1, <3>1
    <3>3. m # 1
      BY <2>3, <3>2
    <3>4. m - 1 \in 1..n /\ m - 1 \notin T
      <4>1. m - 1 \in 1..n /\ ~(m <= m - 1)
        BY <1>1, <3>2, <3>3
      <4> HIDE DEF T
      <4> QED
        BY <3>1, <4>1
    <3>5. IsSequence(f[m - 1])
      BY <3>4
    <3>6. IsSequence(f[m - 1] \o seqs[m])
      BY <3>2, <3>5, SequenceLaws
    <3> QED
      BY <2>3, <3>2, <3>3, <3>6
  <2> QED
    BY <2>4, <2>5
<1> QED
  BY <1>2, <1>3

\* So a batch of groups is a command like any other.
LEMMA BatchIsMessage ==
    ASSUME NEW batch, IsChannel(batch)
    PROVE  IsMessage([kind |-> "facts", first |-> batch[1].first,
                      rows |-> FlattenSeq([i \in DOMAIN batch |-> batch[i].rows])])
<1> DEFINE f == [i \in DOMAIN batch |-> batch[i].rows]
<1>1. IsSequence([i \in DOMAIN batch |-> f[i]])
  BY ChannelLaws, SequenceLaws
<1>2. f = [i \in DOMAIN batch |-> f[i]]
  OBVIOUS
<1>3. \A i \in DOMAIN f : IsSequence(f[i])
  BY ChannelLaws DEF IsMessage
<1> HIDE DEF f
<1>4. IsSequence(FlattenSeq(f))
  BY <1>1, <1>2, <1>3, FlattenIsSequence
<1> DEFINE rows == FlattenSeq(f)
<1> HIDE DEF rows
<1>5. IsSequence(rows)
  BY <1>4 DEF rows
<1>6. IsMessage([kind |-> "facts", first |-> batch[1].first, rows |-> rows])
  BY <1>5 DEF IsMessage
<1> QED
  BY <1>6 DEF rows, f

-----------------------------------------------------------------------------
(* What is kept of the archive.                                            *)

\* Of the runs of this boot one at most is open, the one the connection names.
RunsHonest(s) ==
    LET boot == CurrentBoot(s)
    IN  /\ \A r \in DOMAIN boot.runs :
              /\ boot.runs[r].state \in {"recording", "sealed", "failed"}
              /\ boot.runs[r].state = "recording" => r = s.run
              /\ boot.runs[r].coverage = "complete" <=> boot.runs[r].state # "failed"
        /\ s.run # 0 => boot.runs[s.run].state = "recording" /\ boot.state = "active"

\* Earlier boots are over, and so are their runs.
PastOver(s) ==
    \A b \in DOMAIN s.file : b # Len(s.file) =>
        /\ s.file[b].state # "active"
        /\ \A r \in DOMAIN s.file[b].runs :
              /\ s.file[b].runs[r].state # "recording"
              /\ s.file[b].runs[r].coverage = "complete" <=> s.file[b].runs[r].state = "sealed"

\* One transaction: the current boot grows, its decided runs stay.
Transacted(s, z) ==
    LET old == CurrentBoot(s)
        new == CurrentBoot(z)
    IN  /\ DOMAIN z.file = DOMAIN s.file /\ Len(z.file) = Len(s.file)
        /\ \A b \in DOMAIN s.file : b # Len(s.file) => z.file[b] = s.file[b]
        /\ Len(old.records) <= Len(new.records)
        /\ \A i \in 1..Len(old.records) : new.records[i] = old.records[i]
        /\ DOMAIN old.runs \subseteq DOMAIN new.runs
        /\ \A r \in DOMAIN old.runs : old.runs[r].state # "recording" =>
              new.runs[r].state = old.runs[r].state

LEMMA StoreBasics ==
    ASSUME NEW s, IsStore(s)
    PROVE  /\ Len(s.file) \in DOMAIN s.file
           /\ Len(s.file) \in Nat /\ Len(s.file) > 0 /\ DOMAIN s.file = 1..Len(s.file)
           /\ CurrentBoot(s) = s.file[Len(s.file)]
           /\ IsBoot(CurrentBoot(s))
           /\ Len(CurrentBoot(s).records) \in Nat
           /\ Len(CurrentBoot(s).runs) \in Nat
           /\ DOMAIN CurrentBoot(s).runs = 1..Len(CurrentBoot(s).runs)
<1>1. Len(s.file) \in Nat /\ DOMAIN s.file = 1..Len(s.file) /\ Len(s.file) > 0
  BY SequenceLaws, SequenceSet DEF IsStore, IsFile
<1>2. CurrentBoot(s) = s.file[Len(s.file)] /\ IsBoot(CurrentBoot(s))
  BY <1>1 DEF IsStore, IsFile, CurrentBoot
<1>3. /\ Len(CurrentBoot(s).records) \in Nat
      /\ Len(CurrentBoot(s).runs) \in Nat
      /\ DOMAIN CurrentBoot(s).runs = 1..Len(CurrentBoot(s).runs)
  BY <1>2, SequenceLaws DEF IsBoot, IsRuns
<1> QED
  BY <1>1, <1>2, <1>3

\* A new sequence of runs, in which what was decided stays.
RunsFollow(old, new, run, nextRun) ==
    /\ IsRuns(new)
    /\ DOMAIN old \subseteq DOMAIN new
    /\ \A r \in DOMAIN old : old[r].state # "recording" => new[r].state = old[r].state
    /\ nextRun # 0 => nextRun \in DOMAIN new /\ new[nextRun].state = "recording"
    /\ \A r \in DOMAIN new :
          /\ new[r].state \in {"recording", "sealed", "failed"}
          /\ new[r].state = "recording" => r = nextRun
          /\ new[r].coverage = "complete" <=> new[r].state # "failed"

LEMMA RunsFollowed ==
    ASSUME NEW s, IsStore(s), RunsHonest(s)
    PROVE  LET old == CurrentBoot(s).runs
           IN  /\ RunsFollow(old, old, s.run, s.run)
               /\ s.run = 0 => RunsFollow(old, Append(old, OpenRun), s.run, Len(old) + 1)
               /\ s.run # 0 =>
                     \A end :
                        /\ RunsFollow(old, [old EXCEPT ![s.run] =
                                              [state |-> "sealed",
                                               coverage |-> old[s.run].coverage, end |-> end]],
                                      s.run, 0)
                        /\ RunsFollow(old, [old EXCEPT ![s.run] =
                                              [state |-> "failed", coverage |-> "gap", end |-> end]],
                                      s.run, 0)
<1> DEFINE old == CurrentBoot(s).runs
           n == Len(old)
<1>1. n \in Nat /\ DOMAIN old = 1..n /\ IsRuns(old) /\ IsSequence(old)
  BY StoreBasics DEF IsBoot, IsRuns
<1>2. s.run # 0 => s.run \in DOMAIN old /\ old[s.run].state = "recording"
  BY DEF IsStore, RunsHonest
<1>3. \A r \in DOMAIN old :
         /\ {"state", "coverage"} \subseteq DOMAIN old[r]
         /\ old[r].state \in {"recording", "sealed", "failed"}
         /\ old[r].state = "recording" => r = s.run
         /\ old[r].coverage = "complete" <=> old[r].state # "failed"
  BY <1>1 DEF RunsHonest, IsRuns
<1> HIDE DEF old
<1>4. RunsFollow(old, old, s.run, s.run)
  BY <1>1, <1>2, <1>3 DEF RunsFollow
<1>5. ASSUME s.run = 0
      PROVE  RunsFollow(old, Append(old, OpenRun), s.run, n + 1)
  <2> DEFINE new == Append(old, OpenRun)
  <2>1. /\ IsSequence(new) /\ Len(new) = n + 1 /\ new[n + 1] = OpenRun
        /\ \A i \in 1..n : new[i] = old[i]
    BY <1>1, SequenceLaws, SequenceSet
  <2> HIDE DEF new
  <2>2. DOMAIN new = 1..(n + 1)
    BY <2>1, SequenceLaws
  <2>3. \A r \in DOMAIN new : r = n + 1 \/ r \in DOMAIN old
    BY <1>1, <2>2
  <2>4. /\ {"state", "coverage"} \subseteq DOMAIN OpenRun
        /\ OpenRun.state = "recording" /\ OpenRun.coverage = "complete"
    BY DEF OpenRun
  <2>5. IsRuns(new)
    BY <1>1, <1>3, <2>1, <2>2, <2>3, <2>4 DEF IsRuns
  <2> QED
    BY <1>1, <1>3, <1>5, <2>1, <2>2, <2>3, <2>4, <2>5 DEF RunsFollow, new
<1>6. ASSUME NEW row, s.run # 0, {"state", "coverage"} \subseteq DOMAIN row,
             row.state \in {"sealed", "failed"},
             row.coverage = "complete" <=> row.state # "failed"
      PROVE  RunsFollow(old, [old EXCEPT ![s.run] = row], s.run, 0)
  <2> DEFINE new == [old EXCEPT ![s.run] = row]
  <2>1. IsSequence(new) /\ DOMAIN new = DOMAIN old
    BY <1>1, SequenceSet
  <2>2. \A r \in DOMAIN old : new[r] = IF r = s.run THEN row ELSE old[r]
    OBVIOUS
  <2> HIDE DEF new
  <2>3. IsRuns(new)
    BY <1>3, <1>6, <2>1, <2>2 DEF IsRuns
  <2>4. RunsFollow(old, new, s.run, 0)
    BY <1>2, <1>3, <1>6, <2>1, <2>2, <2>3 DEF RunsFollow
  <2> QED
    BY <2>4 DEF new
<1>7. ASSUME NEW end, s.run # 0
      PROVE  /\ RunsFollow(old, [old EXCEPT ![s.run] =
                                   [state |-> "sealed", coverage |-> old[s.run].coverage,
                                    end |-> end]], s.run, 0)
             /\ RunsFollow(old, [old EXCEPT ![s.run] =
                                   [state |-> "failed", coverage |-> "gap", end |-> end]],
                           s.run, 0)
  <2> DEFINE a == [state |-> "sealed", coverage |-> old[s.run].coverage, end |-> end]
             b == [state |-> "failed", coverage |-> "gap", end |-> end]
  <2>1. /\ {"state", "coverage"} \subseteq DOMAIN a /\ a.state = "sealed"
        /\ a.coverage = old[s.run].coverage /\ old[s.run].coverage = "complete"
    BY <1>2, <1>3, <1>7
  <2>2. {"state", "coverage"} \subseteq DOMAIN b /\ b.state = "failed" /\ b.coverage = "gap"
    OBVIOUS
  <2> HIDE DEF a, b
  <2>3. RunsFollow(old, [old EXCEPT ![s.run] = a], s.run, 0)
    BY <1>6, <1>7, <2>1
  <2>4. RunsFollow(old, [old EXCEPT ![s.run] = b], s.run, 0)
    BY <1>6, <1>7, <2>2
  <2> QED
    BY <2>3, <2>4 DEF a, b
<1> QED
  BY <1>4, <1>5, <1>7 DEF old

\* A rewritten boot keeps what is promised of the archive.
LEMMA RewrittenHonest ==
    ASSUME NEW s, IsStore(s), PastOver(s), NEW z, NEW rows, NEW runs, NEW state, NEW run,
           Rewritten(s, z, rows, runs, state, run), IsSequence(rows),
           RunsFollow(CurrentBoot(s).runs, runs, s.run, run),
           run # 0 => state = "active"
    PROVE  /\ IsStore(z) /\ RunsHonest(z) /\ PastOver(z) /\ Transacted(s, z)
           /\ CurrentBoot(z).state = state /\ z.run = run
<1> DEFINE last == Len(s.file)
           old == s.file[last]
           boot == z.file[last]
<1>1. /\ last \in DOMAIN s.file /\ DOMAIN s.file = 1..last /\ last \in Nat /\ last > 0
      /\ CurrentBoot(s) = old /\ IsBoot(old) /\ IsSequence(s.file)
  BY StoreBasics DEF IsStore, IsFile
<1>2. /\ {"file", "run", "gap"} \subseteq DOMAIN z
      /\ z.file = [s.file EXCEPT ![last] = boot]
      /\ {"state", "records", "runs"} \subseteq DOMAIN boot
      /\ boot.records = old.records \o rows
      /\ boot.runs = runs /\ boot.state = state /\ z.run = run
  BY <1>1 DEF Rewritten
<1>3. /\ IsSequence(z.file) /\ Len(z.file) = last /\ DOMAIN z.file = DOMAIN s.file
      /\ \A b \in DOMAIN s.file : b # last => z.file[b] = s.file[b]
  <2>1. IsSequence([s.file EXCEPT ![last] = boot]) /\ Len([s.file EXCEPT ![last] = boot]) = last
    <3> DEFINE q == s.file
               v == boot
    <3>1. IsSequence(q)
      BY <1>1
    <3> HIDE DEF q, v
    <3>2. \A i, x : IsSequence([q EXCEPT ![i] = x]) /\ Len([q EXCEPT ![i] = x]) = Len(q)
      BY <3>1, SequenceSet
    <3> QED
      BY <3>2, Zenon DEF q, v
  <2> HIDE DEF boot
  <2> QED
    BY <1>2, <2>1
<1>4. CurrentBoot(z) = boot
  BY <1>3 DEF CurrentBoot
<1>5. IsSequence(old.records) /\ IsRuns(runs)
  BY <1>1 DEF IsBoot, RunsFollow
<1>6. /\ IsSequence(boot.records)
      /\ Len(old.records) <= Len(boot.records)
      /\ \A i \in 1..Len(old.records) : boot.records[i] = old.records[i]
  <2>1. /\ Len(old.records) \in Nat /\ Len(rows) \in Nat
        /\ IsSequence(old.records \o rows)
        /\ Len(old.records \o rows) = Len(old.records) + Len(rows)
        /\ \A i \in 1..Len(old.records) : (old.records \o rows)[i] = old.records[i]
    BY <1>5, SequenceLaws
  <2> HIDE DEF old, boot
  <2> QED
    BY <1>2, <2>1
<1>7. IsBoot(boot)
  BY <1>2, <1>5, <1>6 DEF IsBoot
<1> HIDE DEF old, boot, last
<1>8. IsFile(z.file)
  <2>1. \A b \in DOMAIN s.file : IsBoot(s.file[b])
    BY DEF IsStore, IsFile
  <2> QED
    BY <1>1, <1>3, <1>7, <2>1 DEF IsFile, boot
<1>9. z.file # <<>>
  BY <1>1, <1>3, SequenceSet
<1>10. run # 0 => run \in DOMAIN runs /\ runs[run].state = "recording"
  BY <1>1 DEF RunsFollow
<1>11. IsStore(z)
  BY <1>2, <1>4, <1>8, <1>9, <1>10 DEF IsStore
<1>12. RunsHonest(z)
  <2>1. \A r \in DOMAIN runs :
          /\ runs[r].state \in {"recording", "sealed", "failed"}
          /\ runs[r].state = "recording" => r = run
          /\ runs[r].coverage = "complete" <=> runs[r].state # "failed"
    BY DEF RunsFollow
  <2> QED
    BY <1>2, <1>4, <1>10, <2>1 DEF RunsHonest
<1>13. PastOver(z)
  BY <1>3 DEF PastOver, last
<1>14. Transacted(s, z)
  <2>1. /\ DOMAIN old.runs \subseteq DOMAIN runs
        /\ \A r \in DOMAIN old.runs : old.runs[r].state # "recording" =>
              runs[r].state = old.runs[r].state
    BY <1>1 DEF RunsFollow
  <2> QED
    BY <1>1, <1>2, <1>3, <1>4, <1>6, <2>1 DEF Transacted, last
<1> QED
  BY <1>2, <1>4, <1>11, <1>12, <1>13, <1>14

\* A command the connection accepts.
LEMMA CommittedHonest ==
    ASSUME NEW s, IsStore(s), RunsHonest(s), PastOver(s), CurrentBoot(s).state = "active",
           NEW m, IsMessage(m),
           m.kind \in {"start", "finish"} => s.run = 0,
           m.kind \in {"stop", "gap"} => s.run # 0
    PROVE  LET z == Committed(s, m)
           IN  /\ IsStore(z) /\ RunsHonest(z) /\ PastOver(z) /\ Transacted(s, z)
               /\ CurrentBoot(z).state = "active" \/ m.kind = "finish"
<1> DEFINE z == Committed(s, m)
           old == CurrentBoot(s)
<1>1. PICK rows, run :
             LET end == Len(old.records) + Len(m.rows)
                 Z(runs, state, open) == Rewritten(s, z, rows, runs, state, open)
             IN  /\ rows = RowsOf(m, run)
                 /\ \/ m.kind = "start" /\ Z(Append(old.runs, OpenRun), old.state, Len(old.runs) + 1)
                    \/ m.kind = "stop"
                       /\ Z([old.runs EXCEPT ![s.run] =
                               [state |-> "sealed", coverage |-> old.runs[s.run].coverage,
                                end |-> end]], old.state, 0)
                    \/ m.kind = "gap"
                       /\ Z([old.runs EXCEPT ![s.run] =
                               [state |-> "failed", coverage |-> "gap", end |-> end]], old.state, 0)
                    \/ m.kind = "finish" /\ Z(old.runs, "sealed", s.run)
                    \/ /\ m.kind \notin {"start", "stop", "gap", "finish"}
                       /\ Z(old.runs, old.state, s.run)
  BY CommittedRewrites
<1>2. IsSequence(rows)
  BY <1>1, RowsAre
<1> HIDE DEF z
<1>3. \E runs, state, open :
         /\ Rewritten(s, z, rows, runs, state, open)
         /\ RunsFollow(old.runs, runs, s.run, open)
         /\ open # 0 => state = "active"
         /\ state = "active" \/ m.kind = "finish"
  <2> DEFINE end == Len(old.records) + Len(m.rows)
             sealed == [state |-> "sealed", coverage |-> old.runs[s.run].coverage, end |-> end]
             failed == [state |-> "failed", coverage |-> "gap", end |-> end]
  <2>1. /\ RunsFollow(old.runs, old.runs, s.run, s.run)
        /\ s.run = 0 => RunsFollow(old.runs, Append(old.runs, OpenRun), s.run, Len(old.runs) + 1)
        /\ s.run # 0 => /\ RunsFollow(old.runs, [old.runs EXCEPT ![s.run] = sealed], s.run, 0)
                        /\ RunsFollow(old.runs, [old.runs EXCEPT ![s.run] = failed], s.run, 0)
    BY RunsFollowed
  <2>2. \/ m.kind = "start" /\ Rewritten(s, z, rows, Append(old.runs, OpenRun), old.state, Len(old.runs) + 1)
        \/ m.kind = "stop" /\ Rewritten(s, z, rows, [old.runs EXCEPT ![s.run] = sealed], old.state, 0)
        \/ m.kind = "gap" /\ Rewritten(s, z, rows, [old.runs EXCEPT ![s.run] = failed], old.state, 0)
        \/ m.kind = "finish" /\ Rewritten(s, z, rows, old.runs, "sealed", s.run)
        \/ /\ m.kind \notin {"start", "stop", "gap", "finish"}
           /\ Rewritten(s, z, rows, old.runs, old.state, s.run)
    BY <1>1
  <2>3. old.state = "active"
    OBVIOUS
  <2> HIDE DEF sealed, failed, old
  <2>4. CASE m.kind = "start"
    BY <2>1, <2>2, <2>3, <2>4
  <2>5. CASE m.kind = "stop"
    BY <2>1, <2>2, <2>3, <2>5
  <2>6. CASE m.kind = "gap"
    BY <2>1, <2>2, <2>3, <2>6
  <2>7. CASE m.kind = "finish"
    BY <2>1, <2>2, <2>7
  <2>8. CASE m.kind \notin {"start", "stop", "gap", "finish"}
    BY <2>1, <2>2, <2>3, <2>8
  <2> QED
    BY <2>4, <2>5, <2>6, <2>7, <2>8
<1>4. PICK runs, state, open :
         /\ Rewritten(s, z, rows, runs, state, open)
         /\ RunsFollow(old.runs, runs, s.run, open)
         /\ open # 0 => state = "active"
         /\ state = "active" \/ m.kind = "finish"
  BY <1>3
<1>5. /\ IsStore(z) /\ RunsHonest(z) /\ PastOver(z) /\ Transacted(s, z)
      /\ CurrentBoot(z).state = state
  BY <1>2, <1>4, RewrittenHonest
<1> QED
  BY <1>4, <1>5 DEF z

-----------------------------------------------------------------------------
(* The inductive invariant.                                                *)

\* The storage thread holds something whenever it is not waiting.
IsWorker(t) ==
    /\ {"at", "batch", "deferred"} \subseteq DOMAIN t
    /\ IsChannel(t.batch) /\ IsChannel(t.deferred)
    /\ t.at # "idle" => t.batch # <<>>

\* The boot is open until its last command is committed; nothing follows that one.
OpenUntilFinished ==
    \/ CurrentBoot(store).state = "active"
    \/ w.link # "up"
    \/ worker.at = "committed" /\ worker.batch[1].kind = "finish"

\* What the owner knows was confirmed, and what was confirmed is in the archive.
ConfirmedInOrder ==
    /\ w.own.persisted \in Nat /\ w.receipt.persisted \in Nat
    /\ w.own.persisted <= w.receipt.persisted
    /\ w.receipt.persisted <= Len(CurrentBoot(store).records)

WellShaped == IsWorld(w) /\ IsHost(host) /\ IsWorker(worker) /\ IsStore(store)

Durable ==
    /\ WellShaped
    /\ RunsHonest(store) /\ PastOver(store) /\ OpenUntilFinished
    /\ ConfirmedInOrder

\* The owner lane leaves the archive and the thread alone.
LEMMA LaneTold ==
    ASSUME LaneStep
    PROVE  /\ IsWorld(w') /\ w'.link = w.link
           /\ w'.receipt.persisted = w.receipt.persisted
           /\ w'.own.persisted \in {w.own.persisted, w.receipt.persisted}
           /\ IsHost(host') /\ worker' = worker /\ store' = store
           /\ Flow(w', worker, store)
           /\ OpenStop(host'.lifecycle, store) =>
                 /\ Doomed(w', worker, store, host'.lifecycle.run)
                 /\ host'.status.state # "idle"
<1> DEFINE z == Lane(w', host')
<1>1. PICK l : LaneGoes(From(w, worker, store, l, FALSE), z) /\ worker' = worker /\ store' = store
  BY DEF LaneStep
<1> DEFINE a == From(w, worker, store, l, FALSE)
<1>2. a.w = w /\ a.t = worker /\ a.s = store /\ a.l = l /\ z.w = w' /\ z.h = host'
  BY DEF From, Lane
<1> HIDE DEF a, z
<1>3. Goes(a, w') /\ Acts(a, host')
  BY <1>1, <1>2 DEF LaneGoes, a
<1>4. Confirms(a, w') /\ host'.lifecycle = l
  BY <1>2, <1>3 DEF Goes, Acts
<1> QED
  BY <1>1, <1>2, <1>3, <1>4 DEF Goes, Confirms, Acts

\* The owner lane only learns what was confirmed.
LEMMA LaneDurable ==
    ASSUME Durable, LaneStep
    PROVE  Durable'
<1>1. /\ IsWorld(w') /\ w'.link = w.link
      /\ w'.receipt.persisted = w.receipt.persisted
      /\ w'.own.persisted \in {w.own.persisted, w.receipt.persisted}
      /\ IsHost(host') /\ worker' = worker /\ store' = store
  BY LaneTold
<1>2. WellShaped'
  BY <1>1 DEF Durable, WellShaped
<1>3. (RunsHonest(store) /\ PastOver(store) /\ OpenUntilFinished)'
  BY <1>1 DEF Durable, OpenUntilFinished
<1>4. ConfirmedInOrder'
  BY <1>1 DEF Durable, ConfirmedInOrder
<1> QED
  BY <1>2, <1>3, <1>4 DEF Durable

-----------------------------------------------------------------------------
(* The storage thread.                                                     *)

\* What the thread does to the owner's world: at most the receipt confirms more.
Serves(a, y, through) ==
    /\ IsWorld(y) /\ y.own = a.own
    /\ y.receipt.persisted \in {a.receipt.persisted, through}

LEMMA ThreadWorlds ==
    ASSUME NEW a, NEW y, NEW through, Serves(a, y, through)
    PROVE  /\ \A q : IsChannel(q) =>
                 /\ Serves(a, [y EXCEPT !.queue = q], through)
                 /\ [y EXCEPT !.queue = q].link = y.link
           /\ \A l : /\ Serves(a, [y EXCEPT !.link = l], through)
                     /\ [y EXCEPT !.link = l].link = l
           /\ \A l : /\ Serves(a, [y EXCEPT !.locked = l], through)
                     /\ [y EXCEPT !.locked = l].link = y.link
           /\ \A j : /\ Serves(a, [y EXCEPT !.jobs = j], through)
                     /\ [y EXCEPT !.jobs = j].link = y.link
           /\ \A v : /\ Serves(a, [y EXCEPT !.receipt.state = v], through)
                     /\ [y EXCEPT !.receipt.state = v].link = y.link
           /\ \A r : {"persisted", "state", "run"} \subseteq DOMAIN r
                        /\ r.persisted \in {y.receipt.persisted, through} =>
                 /\ Serves(a, [y EXCEPT !.receipt = r], through)
                 /\ [y EXCEPT !.receipt = r].link = y.link
<1>1. ASSUME NEW q, IsChannel(q)
      PROVE  /\ Serves(a, [y EXCEPT !.queue = q], through)
             /\ [y EXCEPT !.queue = q].link = y.link
  BY <1>1 DEF Serves, IsWorld
<1>2. ASSUME NEW l
      PROVE  /\ Serves(a, [y EXCEPT !.link = l], through)
             /\ [y EXCEPT !.link = l].link = l
  BY DEF Serves, IsWorld
<1>3. ASSUME NEW l
      PROVE  /\ Serves(a, [y EXCEPT !.locked = l], through)
             /\ [y EXCEPT !.locked = l].link = y.link
  BY DEF Serves, IsWorld
<1>4. ASSUME NEW j
      PROVE  /\ Serves(a, [y EXCEPT !.jobs = j], through)
             /\ [y EXCEPT !.jobs = j].link = y.link
  BY DEF Serves, IsWorld
<1>5. ASSUME NEW v
      PROVE  /\ Serves(a, [y EXCEPT !.receipt.state = v], through)
             /\ [y EXCEPT !.receipt.state = v].link = y.link
  BY DEF Serves, IsWorld
<1>6. ASSUME NEW r, {"persisted", "state", "run"} \subseteq DOMAIN r,
             r.persisted \in {y.receipt.persisted, through}
      PROVE  /\ Serves(a, [y EXCEPT !.receipt = r], through)
             /\ [y EXCEPT !.receipt = r].link = y.link
  BY <1>6 DEF Serves, IsWorld
<1> QED
  BY <1>1, <1>2, <1>3, <1>4, <1>5, <1>6

\* A thread that returned answers nothing any more.
LEMMA ReturnedServes ==
    ASSUME NEW a, NEW y, NEW through, Serves(a, y, through)
    PROVE  /\ Serves(a, Returned(y), through) /\ Returned(y).link = "returned"
           /\ Serves(a, ReturnedFailed(y), through) /\ ReturnedFailed(y).link = "returned"
<1>1. ASSUME NEW x, Serves(a, x, through)
      PROVE  Serves(a, Returned(x), through) /\ Returned(x).link = "returned"
  <2> DEFINE b == [x EXCEPT !.link = "returned"]
             q == <<>>
  <2>1. Serves(a, b, through) /\ b.link = "returned"
    BY <1>1, ThreadWorlds
  <2> HIDE DEF b
  <2>2. IsChannel(q)
    BY SmallChannels
  <2> HIDE DEF q
  <2>3. Serves(a, [b EXCEPT !.queue = q], through) /\ [b EXCEPT !.queue = q].link = "returned"
    BY <2>1, <2>2, ThreadWorlds
  <2>4. Returned(x) = [b EXCEPT !.queue = q]
    BY Zenon DEF Returned, b, q
  <2> QED
    BY <2>3, <2>4
<1> DEFINE x == [y EXCEPT !.receipt.state = "failed"]
<1>2. Serves(a, x, through)
  BY ThreadWorlds
<1>3. ReturnedFailed(y) = Returned(x)
  BY DEF ReturnedFailed
<1> HIDE DEF x
<1> QED
  BY <1>1, <1>2, <1>3

\* A receipt confirms what is in the archive, or what the last one confirmed.
LEMMA PublishedConfirms ==
    ASSUME {"persisted", "state", "run"} \subseteq DOMAIN w.receipt
    PROVE  /\ {"persisted", "state", "run"} \subseteq DOMAIN PublishedReceipt
           /\ PublishedReceipt.persisted \in {w.receipt.persisted, PersistedThrough}
<1> DEFINE Keeps(r) ==
              /\ {"persisted", "state", "run"} \subseteq DOMAIN r
              /\ r.persisted \in {w.receipt.persisted, PersistedThrough}
<1>1. ASSUME NEW r, Keeps(r), NEW f, NEW v,
             f = "persisted" => v \in {w.receipt.persisted, PersistedThrough}
      PROVE  Keeps([r EXCEPT ![f] = v])
  BY <1>1
<1> DEFINE receipt == Released(w.receipt, worker.batch)
           through == PersistedThrough
<1>2. Keeps(receipt)
  <2> DEFINE b == [w.receipt EXCEPT !.released = Plus(@, BatchCredit(worker.batch, Kinds))]
             c == [b EXCEPT !.reference =
                               Plus(@, BatchCredit(worker.batch, {"accepted", "completion"}))]
  <2>1. Keeps(w.receipt)
    OBVIOUS
  <2> HIDE DEF Keeps
  <2>2. Keeps(b)
    BY <1>1, <2>1, Zenon
  <2> HIDE DEF b
  <2>3. Keeps(c)
    BY <1>1, <2>2, Zenon
  <2>4. receipt = c
    BY Zenon DEF Released, b
  <2> QED
    BY <2>3, <2>4
<1>3. through \in {w.receipt.persisted, PersistedThrough}
  OBVIOUS
<1> HIDE DEF Keeps, receipt
<1>4. ASSUME NEW f, NEW v, f # "persisted" PROVE Keeps([receipt EXCEPT ![f] = v])
  BY <1>1, <1>2, <1>4
<1> DEFINE told == [receipt EXCEPT !.persisted = through]
<1>5. Keeps(told)
  BY <1>1, <1>2, Zenon
<1> HIDE DEF told
<1>6. CASE worker.batch[1].kind = "activation"
  <2> DEFINE b == [receipt EXCEPT !.generation = @ + 1]
             v == IF worker.batch[1].rows = <<>> THEN b.persisted ELSE through
  <2>1. Keeps(b)
    BY <1>4, Zenon
  <2>2. PublishedReceipt = [b EXCEPT !.persisted = v]
    BY <1>6, Zenon DEF PublishedReceipt, receipt
  <2> HIDE DEF b
  <2>3. v \in {w.receipt.persisted, PersistedThrough}
    BY <2>1 DEF Keeps
  <2> HIDE DEF v
  <2> QED
    BY <1>1, <2>1, <2>2, <2>3 DEF Keeps
<1>7. CASE worker.batch[1].kind = "start"
  <2> DEFINE b == [receipt EXCEPT !.state = "recording"]
             c == [b EXCEPT !.persisted = through]
             d == [c EXCEPT !.run = store.run]
  <2>1. Keeps(b)
    BY <1>4, Zenon
  <2>2. PublishedReceipt = d
    BY <1>7, Zenon DEF PublishedReceipt, receipt
  <2> HIDE DEF b
  <2>3. Keeps(c)
    BY <1>1, <2>1, Zenon
  <2> HIDE DEF c
  <2>4. Keeps(d)
    BY <1>1, <2>3, Zenon
  <2> QED
    BY <2>2, <2>4 DEF Keeps
<1>8. CASE worker.batch[1].kind = "stop"
  <2> DEFINE b == [receipt EXCEPT !.state = "idle"]
             c == [b EXCEPT !.persisted = through]
             d == [c EXCEPT !.run = 0]
  <2>1. Keeps(b)
    BY <1>4, Zenon
  <2>2. PublishedReceipt = d
    BY <1>8, Zenon DEF PublishedReceipt, receipt
  <2> HIDE DEF b
  <2>3. Keeps(c)
    BY <1>1, <2>1, Zenon
  <2> HIDE DEF c
  <2>4. Keeps(d)
    BY <1>1, <2>3, Zenon
  <2> QED
    BY <2>2, <2>4 DEF Keeps
<1>9. CASE worker.batch[1].kind = "gap"
  <2> DEFINE c == [told EXCEPT !.run = 0]
             d == [c EXCEPT !.failurePersisted = TRUE]
  <2>1. PublishedReceipt = d
    BY <1>9, Zenon DEF PublishedReceipt, receipt, told
  <2>2. Keeps(c)
    BY <1>1, <1>5, Zenon
  <2> HIDE DEF c
  <2>3. Keeps(d)
    BY <1>1, <2>2, Zenon
  <2> QED
    BY <2>1, <2>3 DEF Keeps
<1>10. CASE worker.batch[1].kind = "probe"
  <2>1. PublishedReceipt = [receipt EXCEPT !.probed = TRUE]
    BY <1>10, Zenon DEF PublishedReceipt, receipt
  <2>2. Keeps([receipt EXCEPT !.probed = TRUE])
    BY <1>4, Zenon
  <2> QED
    BY <2>1, <2>2 DEF Keeps
<1>11. CASE worker.batch[1].kind = "finish"
  <2>1. PublishedReceipt = [receipt EXCEPT !.sealed = TRUE]
    BY <1>11, Zenon DEF PublishedReceipt, receipt
  <2>2. Keeps([receipt EXCEPT !.sealed = TRUE])
    BY <1>4, Zenon
  <2> QED
    BY <2>1, <2>2 DEF Keeps
<1>12. CASE worker.batch[1].kind \notin {"activation", "start", "stop", "gap", "probe", "finish"}
  <2>1. PublishedReceipt = told
    BY <1>12, Zenon DEF PublishedReceipt, receipt, told
  <2> QED
    BY <1>5, <2>1 DEF Keeps
<1> QED
  BY <1>6, <1>7, <1>8, <1>9, <1>10, <1>11, <1>12

\* The steps of the thread beside a commit.
LEMMA ServesDurable ==
    ASSUME Durable, Serves(w, w', PersistedThrough), IsWorker(worker'), UNCHANGED <<host, store>>,
           CurrentBoot(store).state = "active" \/ w'.link # "up"
    PROVE  Durable' /\ w'.own = w.own
<1>1. WellShaped'
  BY DEF Durable, WellShaped, Serves
<1>2. (RunsHonest(store) /\ PastOver(store) /\ OpenUntilFinished)'
  BY DEF Durable, OpenUntilFinished
<1>3. ConfirmedInOrder'
  <2>1. PersistedThrough = Len(CurrentBoot(store).records) /\ Len(CurrentBoot(store).records) \in Nat
    <3>1. Len(CurrentBoot(store).records) \in Nat
      BY StoreBasics DEF Durable, WellShaped
    <3> QED
      BY <3>1 DEF PersistedThrough, NextRecord
  <2>2. /\ w.own.persisted \in Nat /\ w.receipt.persisted \in Nat
        /\ w.own.persisted <= w.receipt.persisted
        /\ w.receipt.persisted <= PersistedThrough
    BY <2>1 DEF Durable, ConfirmedInOrder
  <2>3. w'.receipt.persisted \in {w.receipt.persisted, PersistedThrough} /\ w'.own = w.own
    BY DEF Serves
  <2>4. /\ w'.own.persisted \in Nat /\ w'.receipt.persisted \in Nat
        /\ w'.own.persisted <= w'.receipt.persisted
        /\ w'.receipt.persisted <= PersistedThrough
    <3> DEFINE known == w.own.persisted
               old == w.receipt.persisted
               new == w'.receipt.persisted
               through == PersistedThrough
    <3>1. known \in Nat /\ old \in Nat /\ known <= old /\ old <= through /\ through \in Nat
      BY <2>1, <2>2
    <3>2. new \in {old, through} /\ w'.own.persisted = known
      BY <2>3
    <3> HIDE DEF known, old, new, through
    <3>3. new \in Nat /\ known <= new /\ new <= through
      BY <3>1, <3>2
    <3> QED
      BY <3>1, <3>2, <3>3 DEF new, through
  <2>5. CurrentBoot(store') = CurrentBoot(store)
    OBVIOUS
  <2> QED
    BY <2>1, <2>4, <2>5 DEF ConfirmedInOrder
<1> QED
  BY <1>1, <1>2, <1>3 DEF Durable, Serves

\* Where the thread can be after a step.
LEMMA Workers ==
    /\ IsWorker(InitWorker)
    /\ \A m, at : IsMessage(m) => IsWorker([at |-> at, batch |-> <<m>>, deferred |-> <<>>])
    /\ \A t : IsWorker(t) =>
         /\ \A m : IsMessage(m) =>
               /\ IsWorker([t EXCEPT !.batch = Append(@, m)])
               /\ IsWorker([t EXCEPT !.deferred = <<m>>])
         /\ \A at : t.at # "idle" => IsWorker([t EXCEPT !.at = at])
         /\ IsWorker([t EXCEPT !.at = "idle", !.batch = <<>>])
         /\ t.at # "idle" => IsMessage(t.batch[1])
<1> DEFINE Empty == <<>>
<1>1. IsChannel(Empty)
  BY SmallChannels
<1>2. InitWorker = [at |-> "idle", batch |-> Empty, deferred |-> Empty]
  BY DEF InitWorker
<1>3. ASSUME NEW m, NEW at, IsMessage(m)
      PROVE  IsWorker([at |-> at, batch |-> <<m>>, deferred |-> Empty])
  <2> DEFINE b == <<m>>
  <2>1. IsChannel(b) /\ b # <<>>
    BY <1>3, SmallChannels
  <2> HIDE DEF b, Empty
  <2>2. IsWorker([at |-> at, batch |-> b, deferred |-> Empty])
    BY <1>1, <2>1 DEF IsWorker
  <2> QED
    BY <2>2 DEF b
<1>4. ASSUME NEW t, IsWorker(t)
      PROVE  /\ \A m : IsMessage(m) =>
                   /\ IsWorker([t EXCEPT !.batch = Append(@, m)])
                   /\ IsWorker([t EXCEPT !.deferred = <<m>>])
             /\ \A at : t.at # "idle" => IsWorker([t EXCEPT !.at = at])
             /\ IsWorker([t EXCEPT !.at = "idle", !.batch = Empty])
             /\ t.at # "idle" => IsMessage(t.batch[1])
  <2>1. ASSUME NEW m, IsMessage(m)
        PROVE  IsWorker([t EXCEPT !.batch = Append(@, m)]) /\ IsWorker([t EXCEPT !.deferred = <<m>>])
    <3> DEFINE grown == Append(t.batch, m)
               d == <<m>>
    <3>1. IsChannel(grown) /\ IsChannel(d)
      BY <1>4, <2>1, ChannelLaws, SmallChannels DEF IsWorker
    <3>2. grown # <<>>
      <4>1. IsSequence(t.batch)
        BY <1>4, ChannelLaws DEF IsWorker
      <4> QED
        BY <4>1 DEF IsSequence
    <3>3. [t EXCEPT !.batch = Append(@, m)] = [t EXCEPT !.batch = grown]
      BY Zenon
    <3> HIDE DEF grown, d
    <3>4. IsWorker([t EXCEPT !.batch = grown]) /\ IsWorker([t EXCEPT !.deferred = d])
      BY <1>4, <3>1, <3>2 DEF IsWorker
    <3> QED
      BY <3>3, <3>4 DEF d
  <2>2. ASSUME NEW at, t.at # "idle" PROVE IsWorker([t EXCEPT !.at = at])
    BY <1>4, <2>2 DEF IsWorker
  <2>3. IsWorker([t EXCEPT !.at = "idle", !.batch = Empty])
    <3> DEFINE b == [t EXCEPT !.at = "idle"]
               c == [b EXCEPT !.batch = Empty]
    <3> HIDE DEF Empty
    <3>1. {"at", "batch", "deferred"} \subseteq DOMAIN b /\ b.at = "idle" /\ IsChannel(b.deferred)
      BY <1>4 DEF IsWorker
    <3> HIDE DEF b
    <3>2. IsWorker(c)
      BY <1>1, <3>1 DEF IsWorker
    <3>3. c = [t EXCEPT !.at = "idle", !.batch = Empty]
      BY Zenon DEF b
    <3> QED
      BY <3>2, <3>3
  <2>4. t.at # "idle" => IsMessage(t.batch[1])
    <3>1. ASSUME t.at # "idle" PROVE 1 \in DOMAIN t.batch
      <4>1. IsSequence(t.batch) /\ t.batch # <<>>
        BY <1>4, <3>1, ChannelLaws DEF IsWorker
      <4> QED
        BY <4>1, SequenceLaws, SequenceSet
    <3> QED
      BY <1>4, <3>1, ChannelLaws DEF IsWorker
  <2> QED
    BY <2>1, <2>2, <2>3, <2>4
<1>5. IsWorker(InitWorker)
  <2> HIDE DEF Empty
  <2> QED
    BY <1>1, <1>2 DEF IsWorker
<1> QED
  BY <1>3, <1>4, <1>5, Zenon

\* The transaction the thread has made durable.
LEMMA CommitDurable ==
    ASSUME Durable, Commit, UNCHANGED host
    PROVE  Durable' /\ w' = w /\ Transacted(store, store')
<1> DEFINE m == worker.batch[1]
           b == [kind |-> "facts", first |-> m.first,
                 rows |-> FlattenSeq([i \in DOMAIN worker.batch |-> worker.batch[i].rows])]
<1>1. /\ w.link = "up" /\ worker.at = "holding" /\ w' = w
      /\ RunGuard(store, m)
      /\ store' = IF m.kind = "facts" THEN Committed(store, b) ELSE Committed(store, m)
      /\ worker' = [worker EXCEPT !.at = "committed"]
  BY DEF Commit, Accepts, CommittedBatch
<1>2. IsWorker(worker) /\ IsStore(store) /\ RunsHonest(store) /\ PastOver(store)
  BY DEF Durable, WellShaped
<1>3. CurrentBoot(store).state = "active"
  BY <1>1 DEF Durable, OpenUntilFinished
<1>4. IsMessage(m) /\ IsMessage(b) /\ b.kind = "facts"
  BY <1>1, <1>2, Workers, BatchIsMessage DEF IsWorker
<1>5. /\ m.kind \in {"start", "finish"} => store.run = 0
      /\ m.kind \in {"stop", "gap"} => store.run # 0
  BY <1>1 DEF RunGuard
<1> HIDE DEF b, m
<1>6. /\ IsStore(store') /\ RunsHonest(store') /\ PastOver(store') /\ Transacted(store, store')
      /\ CurrentBoot(store').state = "active" \/ m.kind = "finish"
  <2>1. CASE m.kind = "facts"
    <3>1. LET z == Committed(store, b)
          IN  /\ IsStore(z) /\ RunsHonest(z) /\ PastOver(z) /\ Transacted(store, z)
              /\ CurrentBoot(z).state = "active" \/ b.kind = "finish"
      BY <1>2, <1>3, <1>4, CommittedHonest
    <3> QED
      BY <1>1, <1>4, <2>1, <3>1
  <2>2. CASE m.kind # "facts"
    <3>1. LET z == Committed(store, m)
          IN  /\ IsStore(z) /\ RunsHonest(z) /\ PastOver(z) /\ Transacted(store, z)
              /\ CurrentBoot(z).state = "active" \/ m.kind = "finish"
      BY <1>2, <1>3, <1>4, <1>5, CommittedHonest
    <3> QED
      BY <1>1, <2>2, <3>1
  <2> QED
    BY <2>1, <2>2
<1>7. IsWorker(worker') /\ worker'.at = "committed" /\ worker'.batch = worker.batch
  <2>1. worker.at # "idle"
    BY <1>1
  <2>2. IsWorker([worker EXCEPT !.at = "committed"])
    BY <1>2, <2>1, Workers, Zenon
  <2> QED
    BY <1>1, <1>2, <2>2 DEF IsWorker
<1>8. OpenUntilFinished'
  BY <1>6, <1>7 DEF OpenUntilFinished, m
<1>9. ConfirmedInOrder'
  <2>1. Len(CurrentBoot(store).records) <= Len(CurrentBoot(store').records)
    BY <1>6 DEF Transacted
  <2>2. Len(CurrentBoot(store).records) \in Nat /\ Len(CurrentBoot(store').records) \in Nat
    BY <1>2, <1>6, StoreBasics
  <2> QED
    BY <1>1, <2>1, <2>2 DEF Durable, ConfirmedInOrder
<1> QED
  BY <1>1, <1>6, <1>7, <1>8, <1>9 DEF Durable, WellShaped

\* What a step of the thread may be to the owner.
ThreadStepped ==
    \/ store' = store /\ w'.own = w.own
    \/ w' = w /\ Transacted(store, store')

LEMMA ThreadStep ==
    ASSUME Durable, StorageThread \/ StorageFault \/ PublishFault \/ Panic, UNCHANGED host
    PROVE  Durable' /\ ThreadStepped
<1> DEFINE through == PersistedThrough
           head == worker.batch[1]
<1>1. /\ IsWorld(w) /\ IsWorker(worker) /\ Serves(w, w, through)
      /\ {"persisted", "state", "run"} \subseteq DOMAIN w.receipt
  BY DEF Durable, WellShaped, Serves, IsWorld
<1>2. /\ w.link = "up" /\ worker.at # "committed" => CurrentBoot(store).state = "active"
      /\ w.link = "up" /\ worker.at = "committed" /\ head.kind # "finish" =>
            CurrentBoot(store).state = "active"
  BY DEF Durable, OpenUntilFinished
<1>3. SUFFICES ASSUME ~Commit
               PROVE  /\ Serves(w, w', through) /\ IsWorker(worker') /\ UNCHANGED store
                      /\ CurrentBoot(store).state = "active" \/ w'.link # "up"
  BY CommitDurable, ServesDurable DEF ThreadStepped
<1>4. /\ Serves(w, ReturnedFailed(w), through) /\ ReturnedFailed(w).link = "returned"
      /\ IsWorker(InitWorker)
  <2>1. Serves(w, ReturnedFailed(w), through) /\ ReturnedFailed(w).link = "returned"
    BY <1>1, ReturnedServes, Zenon
  <2> QED
    BY <2>1, Workers, Zenon
<1> HIDE DEF through
<1>5. CASE Take
  <2> DEFINE m == IF worker.deferred # <<>> THEN Head(worker.deferred) ELSE Head(w.queue)
             at == IF m.kind = "history" THEN "reading" ELSE "holding"
             tail == Tail(w.queue)
  <2>1. /\ w.link = "up" /\ worker.at = "idle" /\ store' = store
        /\ worker.deferred # <<>> \/ w.queue # <<>>
        /\ worker' = [at |-> at, batch |-> <<m>>, deferred |-> <<>>]
        /\ w' = IF worker.deferred # <<>> THEN w ELSE [w EXCEPT !.queue = tail]
    BY <1>5 DEF Take
  <2>2. IsMessage(m) /\ (worker.deferred = <<>> => IsChannel(tail))
    BY <1>1, <2>1, ChannelLaws DEF IsWorld, IsWorker
  <2> HIDE DEF m, at, tail
  <2>3. IsWorker(worker')
    <3>1. IsWorker([at |-> at, batch |-> <<m>>, deferred |-> <<>>])
      BY <2>2, Workers, Zenon
    <3> QED
      BY <2>1, <3>1, Zenon
  <2>4. Serves(w, w', through)
    BY <1>1, <2>1, <2>2, ThreadWorlds
  <2> QED
    BY <1>2, <2>1, <2>3, <2>4
<1>6. CASE Collect
  <2> DEFINE m == Head(w.queue)
             tail == Tail(w.queue)
  <2>1. /\ w.link = "up" /\ worker.at = "holding" /\ store' = store /\ w.queue # <<>>
        /\ worker' \in {[worker EXCEPT !.batch = Append(@, m)], [worker EXCEPT !.deferred = <<m>>]}
        /\ w' = [w EXCEPT !.queue = tail]
    BY <1>6 DEF Collect, CanCollect, BatchMayGrow, Defer
  <2>2. IsMessage(m) /\ IsChannel(tail)
    BY <1>1, <2>1, ChannelLaws DEF IsWorld
  <2> HIDE DEF m, tail
  <2>3. IsWorker(worker')
    <3>1. IsWorker([worker EXCEPT !.batch = Append(@, m)]) /\ IsWorker([worker EXCEPT !.deferred = <<m>>])
      BY <1>1, <2>2, Workers, Zenon
    <3> QED
      BY <2>1, <3>1, Zenon
  <2>4. Serves(w, w', through)
    BY <1>1, <2>1, <2>2, ThreadWorlds
  <2> QED
    BY <1>2, <2>1, <2>3, <2>4
<1>7. CASE Refuse \/ StorageFault
  BY <1>4, <1>7 DEF Refuse, StorageFault
<1> DEFINE told == [w EXCEPT !.receipt = PublishedReceipt]
<1>8. Serves(w, told, through) /\ told.link = w.link
  <2> DEFINE r == PublishedReceipt
  <2>1. {"persisted", "state", "run"} \subseteq DOMAIN r /\ r.persisted \in {w.receipt.persisted, through}
    BY <1>1, PublishedConfirms DEF through
  <2> HIDE DEF r
  <2> QED
    BY <1>1, <2>1, ThreadWorlds DEF r
<1> HIDE DEF told
<1>9. /\ Serves(w, ReturnedFailed(told), through) /\ ReturnedFailed(told).link = "returned"
      /\ Serves(w, Returned(told), through) /\ Returned(told).link = "returned"
  BY <1>8, ReturnedServes
<1>10. CASE Publish
  <2>1. /\ w.link = "up" /\ worker.at = "committed" /\ store' = store
        /\ \/ w' = ReturnedFailed(w)
           \/ head.kind = "finish" /\ w' = Returned(told)
           \/ head.kind # "finish" /\ w' = told
        /\ worker' = [worker EXCEPT !.at = "idle", !.batch = <<>>]
    BY <1>10 DEF Publish, told
  <2>2. IsWorker(worker')
    BY <1>1, <2>1, Workers, Zenon
  <2> QED
    BY <1>2, <1>4, <1>8, <1>9, <2>1, <2>2
<1>11. CASE PublishFault
  <2>1. /\ store' = store /\ worker' = InitWorker
        /\ w' \in {ReturnedFailed(w), ReturnedFailed(told)}
    BY <1>11 DEF PublishFault, told
  <2> QED
    BY <1>4, <1>9, <2>1
<1>12. CASE LockJobs
  <2>1. /\ w.link = "up" /\ worker.at = "reading" /\ store' = store
        /\ worker' = [worker EXCEPT !.at = "publishing"]
        /\ w' = [w EXCEPT !.locked = TRUE]
    BY <1>12 DEF LockJobs
  <2>2. worker.at # "idle"
    BY <2>1
  <2>3. IsWorker(worker')
    BY <1>1, <2>1, <2>2, Workers, Zenon
  <2>4. Serves(w, w', through)
    BY <1>1, <2>1, ThreadWorlds, Zenon
  <2> QED
    BY <1>2, <2>1, <2>3, <2>4
<1>13. CASE PublishPage
  <2> DEFINE j == InsertActive(w.jobs, head.job)
             a == [w EXCEPT !.jobs = j]
             b == [a EXCEPT !.locked = FALSE]
  <2>1. /\ w.link = "up" /\ worker.at = "publishing" /\ store' = store
        /\ worker' = [worker EXCEPT !.at = "idle", !.batch = <<>>]
    BY <1>13 DEF PublishPage
  <2>2. w' = b
    BY <1>13, Zenon DEF PublishPage
  <2>3. Serves(w, a, through)
    BY <1>1, ThreadWorlds, Zenon
  <2> HIDE DEF a
  <2>4. Serves(w, b, through)
    BY <2>3, ThreadWorlds, Zenon
  <2> HIDE DEF b
  <2>5. IsWorker(worker')
    BY <1>1, <2>1, Workers, Zenon
  <2> QED
    BY <1>2, <2>1, <2>2, <2>4, <2>5
<1>14. CASE ExitThread
  <2> DEFINE v == IF w.receipt.state = "failed" \/ ~w.receipt.sealed THEN "failed" ELSE "closed"
             a == [w EXCEPT !.link = "closed"]
             b == [a EXCEPT !.receipt.state = v]
  <2>1. store' = store /\ worker' = worker
    BY <1>14 DEF ExitThread
  <2>2. w' = b
    BY <1>14, Zenon DEF ExitThread
  <2>3. Serves(w, a, through) /\ a.link = "closed"
    BY <1>1, ThreadWorlds
  <2> HIDE DEF a, v
  <2>4. Serves(w, b, through) /\ b.link = a.link
    BY <2>3, ThreadWorlds, Zenon
  <2> HIDE DEF b
  <2> QED
    BY <1>1, <2>1, <2>2, <2>3, <2>4
<1>15. CASE Panic
  <2> DEFINE a == [w EXCEPT !.link = "panicked"]
             q == <<>>
             b == [a EXCEPT !.queue = q]
  <2>1. store' = store /\ worker' = InitWorker
    BY <1>15 DEF Panic
  <2>2. w' = b
    BY <1>15, Zenon DEF Panic
  <2>3. Serves(w, a, through) /\ a.link = "panicked" /\ IsChannel(q)
    BY <1>1, ThreadWorlds, SmallChannels
  <2> HIDE DEF a, q
  <2>4. Serves(w, b, through) /\ b.link = a.link
    BY <2>3, ThreadWorlds
  <2> HIDE DEF b
  <2> QED
    BY <1>4, <2>1, <2>2, <2>3, <2>4
<1> QED
  BY <1>3, <1>5, <1>6, <1>7, <1>10, <1>11, <1>12, <1>13, <1>14, <1>15 DEF StorageThread

-----------------------------------------------------------------------------
(* The lifecycle and the storage thread.                                   *)

\* What the thread may hold: a barrier comes alone, and is neither read nor collected.
Holding(t) ==
    /\ t.at = "idle" => t.batch = <<>>
    /\ t.deferred # <<>> => \E m : t.deferred = <<m>>
    /\ \A i \in DOMAIN t.batch :
          i # 1 \/ t.at \in {"reading", "publishing"} => t.batch[i].kind \notin Barriers

\* Owner, channel, thread and archive agree on where the lifecycle is, and a stop that
\* is not answered yet cannot look done before its run is sealed.
InStep ==
    /\ Holding(worker)
    /\ Flow(w, worker, store)
    /\ OpenStop(host.lifecycle, store) =>
          /\ Doomed(w, worker, store, host.lifecycle.run)
          /\ host.status.state # "idle"

Tracked == Durable /\ InStep

LEMMA HereTracked == Tracked => Goes(Hence, w) /\ Acts(Hence, host)
<1> SUFFICES ASSUME Tracked PROVE Goes(Hence, w) /\ Acts(Hence, host)
  OBVIOUS
<1>1. /\ Hence.w = w /\ Hence.t = worker /\ Hence.s = store /\ Hence.l = host.lifecycle
      /\ Hence.told = FALSE
  BY DEF Hence, From
<1>2. IsWorld(w) /\ IsHost(host)
  BY DEF Tracked, Durable, WellShaped
<1>3. Goes(Hence, w)
  BY <1>1, <1>2, GoesStays DEF Tracked, InStep
<1>4. Acts(Hence, host)
  BY <1>1, <1>2 DEF Tracked, InStep, Acts
<1> QED
  BY <1>3, <1>4

LEMMA LaneInStep == ASSUME InStep, LaneStep PROVE InStep'
BY LaneTold DEF InStep

\* Barriers in small channels, and in what is left of a channel.
LEMMA Singles ==
    /\ None(<<>>) /\ \A kind : ~One(<<>>, kind)
    /\ \A m : None(<<m>>) <=> m.kind \notin Barriers
    /\ \A m, kind : One(<<m>>, kind) <=> m.kind = kind
<1>1. None(<<>>) /\ \A kind : ~One(<<>>, kind)
  BY DEF None, One
<1>2. ASSUME NEW m PROVE DOMAIN <<m>> = {1} /\ <<m>>[1] = m
  OBVIOUS
<1> QED
  BY <1>1, <1>2 DEF None, One

LEMMA Partings ==
    ASSUME NEW q, IsChannel(q), q # <<>>
    PROVE  /\ None(q) => Head(q).kind \notin Barriers /\ None(Tail(q))
           /\ \A kind \in Barriers : One(q, kind) =>
                 \/ Head(q).kind = kind /\ None(Tail(q))
                 \/ Head(q).kind \notin Barriers /\ One(Tail(q), kind)
<1>1. PICK S : q \in Seq(S)
  BY DEF IsChannel
<1>2. /\ DOMAIN q = 1..Len(q) /\ Len(q) \in Nat /\ Len(q) > 0 /\ Head(q) = q[1]
      /\ DOMAIN Tail(q) = 1..(Len(q) - 1)
      /\ \A i \in 1..(Len(q) - 1) : Tail(q)[i] = q[i + 1]
  BY <1>1
<1>3. 1 \in DOMAIN q /\ \A i \in DOMAIN Tail(q) : i + 1 \in DOMAIN q /\ i + 1 # 1
  BY <1>2
<1>4. None(q) => Head(q).kind \notin Barriers /\ None(Tail(q))
  BY <1>2, <1>3 DEF None
<1>5. ASSUME NEW kind \in Barriers, One(q, kind)
      PROVE  \/ Head(q).kind = kind /\ None(Tail(q))
             \/ Head(q).kind \notin Barriers /\ One(Tail(q), kind)
  <2>1. PICK i \in DOMAIN q : /\ q[i].kind = kind
                              /\ \A j \in DOMAIN q : j # i => q[j].kind \notin Barriers
    BY <1>5 DEF One
  <2>2. CASE i = 1
    BY <1>2, <1>3, <2>1, <2>2 DEF None
  <2>3. CASE i # 1
    <3>1. i - 1 \in DOMAIN Tail(q) /\ Tail(q)[i - 1].kind = kind
      BY <1>2, <2>1, <2>3
    <3>2. \A j \in DOMAIN Tail(q) : j # i - 1 => j + 1 # i
      BY <1>2
    <3>3. \A j \in DOMAIN Tail(q) : j # i - 1 => Tail(q)[j].kind \notin Barriers
      BY <1>2, <1>3, <2>1, <3>2
    <3> QED
      BY <1>2, <1>3, <2>1, <2>3, <3>1, <3>3 DEF One
  <2> QED
    BY <2>2, <2>3
<1> QED
  BY <1>4, <1>5

\* A step of the thread that only moves messages on.
LEMMA MovedInStep ==
    ASSUME InStep, UNCHANGED <<host, store>>, Holding(worker'), worker'.at # "committed",
           w'.link = w.link, w'.own = w.own, w'.receipt = w.receipt,
           Clear(worker, w.queue) => Clear(worker', w'.queue),
           \A kind \in {"start", "stop"} :
              Awaits(worker, w.queue, kind) => Awaits(worker', w'.queue, kind)
    PROVE  InStep'
<1>1. Flow(w', worker', store')
  BY DEF InStep, Flow
<1>2. \A run : Doomed(w, worker, store, run) => Doomed(w', worker', store', run)
  BY DEF Doomed
<1> QED
  BY <1>1, <1>2 DEF InStep

\* One with which it leaves the owner.
LEMMA EndedInStep ==
    ASSUME InStep, UNCHANGED <<host, store>>, Holding(worker'),
           w'.own = w.own, w'.link # "up", w'.receipt.state = "idle" => w.receipt.state = "idle"
    PROVE  InStep'
<1>1. Flow(w', worker', store')
  BY DEF Flow
<1>2. \A run : Doomed(w, worker, store, run) => Doomed(w', worker', store', run)
  BY DEF Doomed
<1> QED
  BY <1>1, <1>2 DEF InStep

\* The first message of a batch is its only barrier.
LEMMA Leads ==
    ASSUME IsWorker(worker), Holding(worker), worker.at # "idle"
    PROVE  /\ worker.batch[1].kind \notin Barriers => None(worker.batch)
           /\ worker.batch[1].kind \in Barriers => One(worker.batch, worker.batch[1].kind)
           /\ \A kind \in Barriers :
                 worker.batch[1].kind # kind => ~One(worker.batch, kind)
           /\ worker.batch[1].kind \in Barriers => ~None(worker.batch)
<1>1. 1 \in DOMAIN worker.batch
  <2>1. IsSequence(worker.batch) /\ worker.batch # <<>>
    BY ChannelLaws DEF IsWorker
  <2> QED
    BY <2>1, SequenceLaws, SequenceSet
<1>2. \A i \in DOMAIN worker.batch : i # 1 => worker.batch[i].kind \notin Barriers
  BY DEF Holding
<1> QED
  BY <1>1, <1>2 DEF None, One

LEMMA InitHolding == Holding(InitWorker)
<1>1. InitWorker.at = "idle" /\ InitWorker.batch = <<>> /\ InitWorker.deferred = <<>>
  BY DEF InitWorker
<1> QED
  BY <1>1 DEF Holding

LEMMA TakeInStep ==
    ASSUME IsWorld(w), IsWorker(worker), InStep, Take, UNCHANGED host
    PROVE  InStep'
<1> DEFINE m == IF worker.deferred # <<>> THEN Head(worker.deferred) ELSE Head(w.queue)
           at == IF m.kind = "history" THEN "reading" ELSE "holding"
           tail == Tail(w.queue)
           d == <<>>
<1>1. /\ worker.at = "idle" /\ store' = store
      /\ worker.deferred # d \/ w.queue # d
      /\ worker' = [at |-> at, batch |-> <<m>>, deferred |-> d]
      /\ w' = IF worker.deferred # d THEN w ELSE [w EXCEPT !.queue = tail]
  BY DEF Take
<1>2. worker'.at = at /\ worker'.batch = <<m>> /\ worker'.deferred = d /\ worker.batch = d
  BY <1>1 DEF InStep, Holding
<1>3. at \in {"reading", "holding"} /\ (at = "reading" => m.kind \notin Barriers)
  BY DEF Barriers
<1>4. \A i \in DOMAIN <<m>> : i = 1 /\ <<m>>[i] = m
  OBVIOUS
<1>5. w'.link = w.link /\ w'.own = w.own /\ w'.receipt = w.receipt
  BY <1>1 DEF IsWorld
<1>6. \/ worker.deferred = <<m>> /\ w'.queue = w.queue
      \/ /\ worker.deferred = d /\ w.queue # d
         /\ m = Head(w.queue) /\ w'.queue = Tail(w.queue)
  <2>1. CASE worker.deferred # d
    <3>1. PICK x : worker.deferred = <<x>>
      BY <2>1 DEF InStep, Holding
    <3>2. m = x
      BY <2>1, <3>1
    <3> QED
      BY <1>1, <2>1, <3>1, <3>2
  <2>2. CASE worker.deferred = d
    BY <1>1, <2>2 DEF IsWorld
  <2> QED
    BY <2>1, <2>2
<1>7. IsChannel(w.queue)
  BY DEF IsWorld
<1> HIDE DEF m, at, tail
<1>8. /\ None(d) /\ \A kind : ~One(d, kind)
      /\ None(<<m>>) <=> m.kind \notin Barriers
      /\ \A kind : One(<<m>>, kind) <=> m.kind = kind
  BY Singles
<1> HIDE DEF d
<1>9. Holding(worker')
  BY <1>2, <1>3, <1>4 DEF Holding, d
<1>10. Clear(worker, w.queue) => Clear(worker', w'.queue)
  <2> SUFFICES ASSUME Clear(worker, w.queue) PROVE Clear(worker', w'.queue)
    OBVIOUS
  <2>1. None(worker.deferred) /\ None(w.queue)
    BY DEF Clear
  <2>2. m.kind \notin Barriers /\ None(w'.queue)
    BY <1>6, <1>7, <1>8, <2>1, Partings DEF d
  <2> QED
    BY <1>2, <1>8, <2>2 DEF Clear
<1>11. ASSUME NEW kind \in {"start", "stop"}, Awaits(worker, w.queue, kind)
       PROVE  Awaits(worker', w'.queue, kind)
  <2>1. kind \in Barriers
    BY DEF Barriers
  <2>2. \/ None(worker.deferred) /\ One(w.queue, kind)
        \/ One(worker.deferred, kind) /\ None(w.queue)
    BY <1>2, <1>8, <1>11 DEF Awaits
  <2>3. \/ m.kind = kind /\ None(w'.queue)
        \/ m.kind \notin Barriers /\ One(w'.queue, kind)
    BY <1>6, <1>7, <1>8, <2>1, <2>2, Partings DEF d
  <2> QED
    BY <1>2, <1>8, <2>3 DEF Awaits
<1> QED
  BY <1>1, <1>2, <1>3, <1>5, <1>9, <1>10, <1>11, MovedInStep

LEMMA CollectInStep ==
    ASSUME IsWorld(w), IsWorker(worker), InStep, Collect, UNCHANGED host
    PROVE  InStep'
<1> DEFINE m == Head(w.queue)
           tail == Tail(w.queue)
           grown == [worker EXCEPT !.batch = Append(@, m)]
           put == [worker EXCEPT !.deferred = <<m>>]
<1>1. /\ worker.at = "holding" /\ store' = store /\ w.queue # <<>>
      /\ worker.batch[1].kind = "facts" /\ worker.deferred = <<>>
      /\ (m.kind = "facts" /\ worker' = grown) \/ worker' = put
      /\ w' = [w EXCEPT !.queue = tail]
  BY DEF Collect, CanCollect, BatchMayGrow, Defer
<1>2. /\ w'.link = w.link /\ w'.own = w.own /\ w'.receipt = w.receipt
      /\ w'.queue = tail
  BY <1>1 DEF IsWorld
<1>3. {"at", "batch", "deferred"} \subseteq DOMAIN worker
  BY DEF IsWorker
<1>4. /\ grown.at = worker.at /\ grown.batch = Append(worker.batch, m)
      /\ grown.deferred = worker.deferred
      /\ put.at = worker.at /\ put.batch = worker.batch /\ put.deferred = <<m>>
  BY <1>3
<1> HIDE DEF grown, put
<1>5. None(worker.batch) /\ None(worker.deferred)
  <2>1. "facts" \notin Barriers /\ worker.at # "idle"
    BY <1>1 DEF Barriers
  <2>2. None(worker.batch)
    BY <1>1, <2>1, Leads DEF InStep
  <2> QED
    BY <1>1, <2>2, Singles
<1>6. IsSequence(worker.batch) /\ worker.batch # <<>>
  BY <1>1, ChannelLaws DEF IsWorker
<1>7. m.kind \notin Barriers => None(Append(worker.batch, m))
  <2> DEFINE q == worker.batch
             r == Append(q, m)
  <2>1. /\ DOMAIN r = 1..(Len(q) + 1) /\ r[Len(q) + 1] = m /\ DOMAIN q = 1..Len(q)
        /\ Len(q) \in Nat /\ \A i \in 1..Len(q) : r[i] = q[i]
    <3>1. IsSequence(r) /\ Len(r) = Len(q) + 1 /\ r[Len(q) + 1] = m /\ \A i \in 1..Len(q) : r[i] = q[i]
      BY <1>6, SequenceLaws, SequenceSet
    <3> HIDE DEF r
    <3> QED
      BY <1>6, <3>1, SequenceLaws
  <2>2. \A i \in DOMAIN r : i = Len(q) + 1 \/ i \in DOMAIN q
    BY <2>1
  <2> QED
    BY <1>5, <2>1, <2>2 DEF None
<1>8. /\ worker'.at = "holding"
      /\ \/ /\ None(worker'.batch) /\ None(worker'.deferred) /\ worker'.deferred = <<>>
            /\ m.kind \notin Barriers
         \/ None(worker'.batch) /\ worker'.deferred = <<m>>
  <2>1. CASE m.kind = "facts" /\ worker' = grown
    BY <1>1, <1>4, <1>5, <1>7, <2>1 DEF Barriers
  <2>2. CASE worker' = put
    BY <1>1, <1>4, <1>5, <2>2
  <2> QED
    BY <1>1, <2>1, <2>2
<1>9. Holding(worker')
  BY <1>8 DEF Holding, None
<1>10. /\ None(<<m>>) <=> m.kind \notin Barriers
       /\ \A kind : One(<<m>>, kind) <=> m.kind = kind
  BY Singles
<1>11. /\ None(w.queue) => m.kind \notin Barriers /\ None(tail)
       /\ \A kind \in Barriers : One(w.queue, kind) =>
             \/ m.kind = kind /\ None(tail)
             \/ m.kind \notin Barriers /\ One(tail, kind)
  BY <1>1, Partings DEF IsWorld
<1> HIDE DEF m, tail
<1>12. Clear(worker, w.queue) => Clear(worker', w'.queue)
  BY <1>2, <1>8, <1>10, <1>11 DEF Clear
<1>13. ASSUME NEW kind \in {"start", "stop"}, Awaits(worker, w.queue, kind)
       PROVE  Awaits(worker', w'.queue, kind)
  <2>1. kind \in Barriers
    BY DEF Barriers
  <2>2. One(w.queue, kind)
    BY <1>1, <1>5, <1>13, <2>1, Singles, Leads DEF Awaits, None, One
  <2>3. \/ m.kind = kind /\ None(tail)
        \/ m.kind \notin Barriers /\ One(tail, kind)
    BY <1>11, <2>1, <2>2
  <2> QED
    BY <1>2, <1>8, <1>10, <2>1, <2>3 DEF Awaits
<1> QED
  BY <1>1, <1>2, <1>8, <1>9, <1>12, <1>13, MovedInStep

\* The run of the connection changes with a barrier only, and a stop seals it.
LEMMA CommitRuns ==
    ASSUME Durable, Commit, UNCHANGED host
    PROVE  /\ worker.batch[1].kind \notin Barriers => store'.run = store.run
           /\ worker.batch[1].kind = "stop" => SealedRun(store', store.run)
           /\ \A r : SealedRun(store, r) => SealedRun(store', r)
<1> DEFINE m == worker.batch[1]
           b == [kind |-> "facts", first |-> m.first,
                 rows |-> FlattenSeq([i \in DOMAIN worker.batch |-> worker.batch[i].rows])]
           c == IF m.kind = "facts" THEN b ELSE m
           old == CurrentBoot(store)
<1>1. store' = Committed(store, c) /\ RunGuard(store, m)
  BY DEF Commit, Accepts, CommittedBatch
<1>2. c.kind = m.kind
  OBVIOUS
<1> HIDE DEF c, b
<1>3. IsStore(store) /\ IsStore(store') /\ Transacted(store, store')
  BY CommitDurable DEF Durable, WellShaped
<1>4. PICK rows, run :
         LET end == Len(old.records) + Len(c.rows)
             Z(runs, state, open) == Rewritten(store, Committed(store, c), rows, runs, state, open)
         IN  /\ rows = RowsOf(c, run)
             /\ \/ c.kind = "start" /\ Z(Append(old.runs, OpenRun), old.state, Len(old.runs) + 1)
                \/ c.kind = "stop"
                   /\ Z([old.runs EXCEPT ![store.run] =
                           [state |-> "sealed", coverage |-> old.runs[store.run].coverage,
                            end |-> end]], old.state, 0)
                \/ c.kind = "gap"
                   /\ Z([old.runs EXCEPT ![store.run] =
                           [state |-> "failed", coverage |-> "gap", end |-> end]], old.state, 0)
                \/ c.kind = "finish" /\ Z(old.runs, "sealed", store.run)
                \/ /\ c.kind \notin {"start", "stop", "gap", "finish"}
                   /\ Z(old.runs, old.state, store.run)
  BY <1>3, CommittedRewrites
<1>5. ASSUME NEW runs, NEW state, NEW open,
             Rewritten(store, Committed(store, c), rows, runs, state, open)
      PROVE  store'.run = open /\ CurrentBoot(store').runs = runs
  <2>1. Len(store'.file) = Len(store.file)
    BY <1>3 DEF Transacted
  <2> QED
    BY <1>1, <1>5, <2>1 DEF Rewritten, CurrentBoot
<1>6. m.kind \notin Barriers => store'.run = store.run
  BY <1>2, <1>4, <1>5 DEF Barriers
<1>7. ASSUME m.kind = "stop" PROVE SealedRun(store', store.run)
  <2> DEFINE end == Len(old.records) + Len(c.rows)
             row == [state |-> "sealed", coverage |-> old.runs[store.run].coverage, end |-> end]
  <2>1. CurrentBoot(store').runs = [old.runs EXCEPT ![store.run] = row]
    BY <1>2, <1>4, <1>5, <1>7
  <2>2. store.run \in DOMAIN old.runs
    BY <1>1, <1>3, <1>7 DEF RunGuard, IsStore
  <2>3. row.state = "sealed"
    OBVIOUS
  <2> HIDE DEF row, old
  <2> QED
    BY <2>1, <2>2, <2>3 DEF SealedRun
<1>8. \A r : SealedRun(store, r) => SealedRun(store', r)
  BY <1>3 DEF Transacted, SealedRun
<1> QED
  BY <1>6, <1>7, <1>8 DEF m

LEMMA CommitInStep ==
    ASSUME Durable, InStep, Commit, UNCHANGED host
    PROVE  InStep'
<1>1. /\ worker.at = "holding" /\ w' = w /\ worker' = [worker EXCEPT !.at = "committed"]
      /\ IsWorker(worker)
  BY DEF Commit, Durable, WellShaped
<1>2. /\ worker'.at = "committed" /\ worker'.batch = worker.batch
      /\ worker'.deferred = worker.deferred /\ worker.at # "idle"
  BY <1>1 DEF IsWorker
<1>3. /\ worker.batch[1].kind \notin Barriers => store'.run = store.run
      /\ worker.batch[1].kind = "stop" => SealedRun(store', store.run)
      /\ \A r : SealedRun(store, r) => SealedRun(store', r)
  BY CommitRuns
<1>4. /\ worker.batch[1].kind \in Barriers => ~None(worker.batch)
      /\ \A kind \in Barriers : worker.batch[1].kind # kind => ~One(worker.batch, kind)
  BY <1>1, <1>2, Leads DEF InStep
<1>5. Holding(worker')
  BY <1>2 DEF InStep, Holding
<1>6. Flow(w', worker', store')
  <2>1. /\ Clear(worker', w.queue) <=> Clear(worker, w.queue)
        /\ \A kind : Awaits(worker', w.queue, kind) <=> Awaits(worker, w.queue, kind)
    BY <1>2 DEF Clear, Awaits
  <2>2. Clear(worker, w.queue) => store'.run = store.run
    BY <1>3, <1>4 DEF Clear
  <2>3. Flow(w, worker, store)
    BY DEF InStep
  <2> QED
    BY <1>1, <2>1, <2>2, <2>3 DEF Flow
<1>7. ASSUME OpenStop(host.lifecycle, store')
      PROVE  /\ Doomed(w, worker', store', host.lifecycle.run)
             /\ host.status.state # "idle"
  <2>1. /\ Doomed(w, worker, store, host.lifecycle.run)
        /\ host.status.state # "idle"
    BY <1>3, <1>7 DEF OpenStop, InStep
  <2>2. ASSUME w.link = "up", w.own.state # "failed"
        PROVE  store'.run = host.lifecycle.run /\ ~One(worker.batch, "stop")
    <3>1. w.own.state = "stopping" /\ store.run = host.lifecycle.run /\ w.receipt.state # "idle"
      BY <2>1, <2>2 DEF Doomed
    <3>2. worker.batch[1].kind # "stop"
      BY <1>3, <1>7, <3>1 DEF OpenStop
    <3>3. ~One(worker.batch, "stop")
      BY <1>4, <3>2 DEF Barriers
    <3>4. Awaits(worker, w.queue, "stop")
      BY <2>2, <3>1 DEF InStep, Flow
    <3>5. None(worker.batch)
      BY <3>3, <3>4 DEF Awaits
    <3> QED
      BY <1>3, <1>4, <3>1, <3>3, <3>5
  <2> QED
    BY <1>2, <2>1, <2>2 DEF Doomed
<1> QED
  BY <1>1, <1>5, <1>6, <1>7 DEF InStep

\* A thread that returns for a failure says so.
LEMMA FailedEnds ==
    ASSUME NEW y, IsWorld(y)
    PROVE  LET z == ReturnedFailed(y)
           IN  z.own = y.own /\ z.link = "returned" /\ z.receipt.state = "failed"
<1> DEFINE a == [y EXCEPT !.receipt.state = "failed"]
           b == [a EXCEPT !.link = "returned"]
           d == <<>>
           c == [b EXCEPT !.queue = d]
<1>1. ReturnedFailed(y) = c
  BY Zenon DEF ReturnedFailed, Returned
<1> HIDE DEF d
<1>2. {"own", "link", "queue"} \subseteq DOMAIN a /\ a.own = y.own /\ a.receipt.state = "failed"
  BY DEF IsWorld
<1> HIDE DEF a
<1>3. {"own", "queue"} \subseteq DOMAIN b /\ b.own = a.own /\ b.receipt = a.receipt /\ b.link = "returned"
  BY <1>2
<1> HIDE DEF b
<1>4. c.own = b.own /\ c.receipt = b.receipt /\ c.link = b.link
  BY <1>3
<1> HIDE DEF c
<1> QED
  BY <1>1, <1>2, <1>3, <1>4

\* A barrier's receipt says where the recorder is; no other receipt moves it.
LEMMA PublishedMoves ==
    ASSUME {"persisted", "state", "run"} \subseteq DOMAIN w.receipt
    PROVE  LET kind == worker.batch[1].kind
           IN  /\ kind = "start" => /\ PublishedReceipt.state = "recording"
                                    /\ PublishedReceipt.run = store.run
               /\ kind = "stop" => PublishedReceipt.state = "idle"
               /\ kind \notin {"start", "stop"} => PublishedReceipt.state = w.receipt.state
               /\ kind \notin Barriers => PublishedReceipt.run = w.receipt.run
<1> DEFINE kind == worker.batch[1].kind
           receipt == Released(w.receipt, worker.batch)
           Like(r) == /\ {"persisted", "state", "run"} \subseteq DOMAIN r
                      /\ r.state = w.receipt.state /\ r.run = w.receipt.run
<1>1. ASSUME NEW r, Like(r), NEW f, NEW v, f \notin {"state", "run"}
      PROVE  Like([r EXCEPT ![f] = v])
  BY <1>1
<1>2. Like(receipt)
  <2> DEFINE b == [w.receipt EXCEPT !.released = Plus(@, BatchCredit(worker.batch, Kinds))]
             c == [b EXCEPT !.reference =
                               Plus(@, BatchCredit(worker.batch, {"accepted", "completion"}))]
  <2>1. Like(w.receipt)
    OBVIOUS
  <2> HIDE DEF Like
  <2>2. Like(b)
    BY <1>1, <2>1, Zenon
  <2> HIDE DEF b
  <2>3. Like(c)
    BY <1>1, <2>2, Zenon
  <2>4. receipt = c
    BY Zenon DEF Released, b
  <2> QED
    BY <2>3, <2>4
<1> HIDE DEF receipt
<1>3. CASE kind = "start"
  <2> DEFINE b == [receipt EXCEPT !.state = "recording"]
             c == [b EXCEPT !.persisted = PersistedThrough]
             d == [c EXCEPT !.run = store.run]
  <2>1. PublishedReceipt = d
    BY <1>3, Zenon DEF PublishedReceipt, receipt
  <2>2. b.state = "recording" /\ {"persisted", "state", "run"} \subseteq DOMAIN b
    BY <1>2
  <2> HIDE DEF b
  <2>3. c.state = "recording" /\ {"persisted", "state", "run"} \subseteq DOMAIN c
    BY <2>2
  <2> HIDE DEF c
  <2>4. d.state = "recording" /\ d.run = store.run
    BY <2>3
  <2> HIDE DEF d
  <2> QED
    BY <1>3, <2>1, <2>4 DEF Barriers
<1>4. CASE kind = "stop"
  <2> DEFINE b == [receipt EXCEPT !.state = "idle"]
             c == [b EXCEPT !.persisted = PersistedThrough]
             d == [c EXCEPT !.run = 0]
  <2>1. PublishedReceipt = d
    BY <1>4, Zenon DEF PublishedReceipt, receipt
  <2>2. b.state = "idle" /\ {"persisted", "state", "run"} \subseteq DOMAIN b
    BY <1>2
  <2> HIDE DEF b
  <2>3. c.state = "idle" /\ {"persisted", "state", "run"} \subseteq DOMAIN c
    BY <2>2
  <2> HIDE DEF c
  <2>4. d.state = "idle"
    BY <2>3
  <2> HIDE DEF d
  <2> QED
    BY <1>4, <2>1, <2>4 DEF Barriers
<1>5. CASE kind = "gap"
  <2> DEFINE b == [receipt EXCEPT !.persisted = PersistedThrough]
             c == [b EXCEPT !.run = 0]
             d == [c EXCEPT !.failurePersisted = TRUE]
  <2>1. PublishedReceipt = d
    BY <1>5, Zenon DEF PublishedReceipt, receipt
  <2>2. b.state = w.receipt.state
    BY <1>2
  <2> HIDE DEF b
  <2>3. d.state = w.receipt.state
    BY <2>2
  <2> HIDE DEF d
  <2> QED
    BY <1>5, <2>1, <2>3 DEF Barriers
<1>6. CASE kind \notin Barriers
  <2> DEFINE b == [receipt EXCEPT !.generation = @ + 1]
             v == IF worker.batch[1].rows = <<>> THEN b.persisted ELSE PersistedThrough
  <2>1. PublishedReceipt \in {[b EXCEPT !.persisted = v], [receipt EXCEPT !.probed = TRUE],
                              [receipt EXCEPT !.sealed = TRUE],
                              [receipt EXCEPT !.persisted = PersistedThrough]}
    <3>1. CASE kind = "activation"
      BY <3>1, Zenon DEF PublishedReceipt, receipt
    <3>2. CASE kind = "probe"
      BY <3>2, Zenon DEF PublishedReceipt, receipt
    <3>3. CASE kind = "finish"
      BY <3>3, Zenon DEF PublishedReceipt, receipt
    <3>4. CASE kind \notin {"activation", "start", "stop", "gap", "probe", "finish"}
      BY <3>4, Zenon DEF PublishedReceipt, receipt
    <3> QED
      BY <1>6, <3>1, <3>2, <3>3, <3>4 DEF Barriers
  <2> HIDE DEF Like, v
  <2>2. Like(b)
    BY <1>1, <1>2, Zenon
  <2> HIDE DEF b
  <2>3. /\ Like([b EXCEPT !.persisted = v]) /\ Like([receipt EXCEPT !.probed = TRUE])
        /\ Like([receipt EXCEPT !.sealed = TRUE])
        /\ Like([receipt EXCEPT !.persisted = PersistedThrough])
    BY <1>1, <1>2, <2>2, Zenon
  <2>4. Like(PublishedReceipt)
    BY <2>1, <2>3, Zenon
  <2> QED
    BY <1>6, <2>4 DEF Like, Barriers
<1> QED
  BY <1>3, <1>4, <1>5, <1>6 DEF Barriers

LEMMA PublishInStep ==
    ASSUME IsWorld(w), IsWorker(worker), InStep, Publish, UNCHANGED host
    PROVE  InStep'
<1> DEFINE told == [w EXCEPT !.receipt = PublishedReceipt]
           head == worker.batch[1]
           d == <<>>
<1>1. /\ w.link = "up" /\ worker.at = "committed" /\ store' = store
      /\ \/ w' = ReturnedFailed(w)
         \/ head.kind = "finish" /\ w' = Returned(told)
         \/ head.kind # "finish" /\ w' = told
      /\ worker' = [worker EXCEPT !.at = "idle", !.batch = d]
  BY DEF Publish
<1>2. worker'.at = "idle" /\ worker'.batch = d /\ worker'.deferred = worker.deferred
  BY <1>1 DEF IsWorker
<1>3. None(d) /\ \A kind : ~One(d, kind)
  BY Singles
<1>4. Holding(worker')
  BY <1>2 DEF Holding, InStep
<1> DEFINE r == PublishedReceipt
<1>5. /\ head.kind = "start" => r.state = "recording" /\ r.run = store.run
      /\ head.kind = "stop" => r.state = "idle"
      /\ head.kind \notin {"start", "stop"} => r.state = w.receipt.state
      /\ head.kind \notin Barriers => r.run = w.receipt.run
  BY PublishedMoves DEF IsWorld
<1> HIDE DEF d, r
<1>6. /\ told.link = w.link /\ told.own = w.own /\ told.queue = w.queue /\ told.receipt = r
  BY DEF IsWorld, r
<1>7. IsWorld(told)
  <2>1. {"persisted", "state", "run"} \subseteq DOMAIN r
    BY PublishedConfirms DEF IsWorld, r
  <2> QED
    BY <1>6, <2>1 DEF IsWorld
<1> HIDE DEF told
<1>8. CASE w' = told
  <2>1. /\ head.kind \notin Barriers => None(worker.batch)
        /\ head.kind \in Barriers => ~None(worker.batch)
        /\ \A kind \in Barriers : head.kind # kind => ~One(worker.batch, kind)
        /\ head.kind \in Barriers => One(worker.batch, head.kind)
    BY <1>1, Leads DEF InStep
  <2>2. CASE w.own.state = "failed"
    <3>1. Flow(w', worker', store')
      BY <1>6, <1>8, <2>2 DEF Flow
    <3>2. \A run : Doomed(w, worker, store, run) => Doomed(w', worker', store', run)
      BY <1>6, <1>8, <2>2 DEF Doomed
    <3> QED
      BY <1>1, <1>4, <3>1, <3>2 DEF InStep
  <2>3. CASE w.own.state # "failed" /\ head.kind \notin Barriers
    <3>1. Clear(worker, w.queue) => Clear(worker', w'.queue)
      BY <1>2, <1>3, <1>6, <1>8 DEF Clear
    <3>2. \A kind \in {"start", "stop"} :
             Awaits(worker, w.queue, kind) => Awaits(worker', w'.queue, kind)
      BY <1>2, <1>3, <1>6, <1>8, <2>1, <2>3 DEF Awaits, Barriers
    <3>3. w'.receipt.state = w.receipt.state /\ w'.receipt.run = w.receipt.run
      BY <1>5, <1>6, <1>8, <2>3 DEF Barriers
    <3>4. Flow(w', worker', store')
      BY <1>1, <1>6, <1>8, <3>1, <3>2, <3>3 DEF InStep, Flow
    <3>5. \A run : Doomed(w, worker, store, run) => Doomed(w', worker', store', run)
      BY <1>1, <1>2, <1>6, <1>8, <3>3 DEF Doomed
    <3> QED
      BY <1>1, <1>4, <3>4, <3>5 DEF InStep
  <2>4. CASE w.own.state # "failed" /\ head.kind \in Barriers
    <3>1. \/ /\ head.kind = "start" /\ w.own.state = "starting"
             /\ None(worker.deferred) /\ None(w.queue)
          \/ /\ head.kind = "stop" /\ w.own.state = "stopping"
             /\ None(worker.deferred) /\ None(w.queue)
      <4>1. ~None(worker.batch)
        BY <2>1, <2>4
      <4>2. \/ /\ w.own.state = "starting" /\ Awaits(worker, w.queue, "start")
            \/ /\ w.own.state = "stopping" /\ Awaits(worker, w.queue, "stop")
        BY <1>1, <2>4, <4>1 DEF InStep, Flow, Clear
      <4> QED
        BY <2>1, <4>1, <4>2 DEF Awaits, Barriers
    <3>2. Clear(worker', w'.queue)
      BY <1>2, <1>3, <1>6, <1>8, <3>1 DEF Clear
    <3>3. Flow(w', worker', store')
      BY <1>1, <1>5, <1>6, <1>8, <3>1, <3>2 DEF Flow
    <3>4. ASSUME NEW run, Doomed(w, worker, store, run) PROVE Doomed(w', worker', store', run)
      <4>1. w.own.state = "stopping" /\ ~One(worker.batch, "stop")
        BY <1>1, <2>4, <3>4 DEF Doomed
      <4>2. head.kind = "stop"
        BY <3>1, <4>1
      <4>3. One(worker.batch, "stop")
        BY <2>1, <2>4, <4>2
      <4> QED
        BY <4>1, <4>3
    <3> QED
      BY <1>1, <1>4, <3>3, <3>4 DEF InStep
  <2> QED
    BY <2>2, <2>3, <2>4
<1>9. ASSUME head.kind = "finish", w' = Returned(told) PROVE InStep'
  <2> DEFINE b == [told EXCEPT !.link = "returned"]
             c == [b EXCEPT !.queue = d]
  <2>1. b.own = told.own /\ b.receipt = told.receipt /\ b.link = "returned" /\ "queue" \in DOMAIN b
    BY <1>7 DEF IsWorld
  <2>2. Returned(told) = c
    BY Zenon DEF Returned, d
  <2> HIDE DEF b
  <2>3. c.own = b.own /\ c.receipt = b.receipt /\ c.link = b.link
    BY <2>1
  <2>4. w'.own = w.own /\ w'.link = "returned" /\ w'.receipt.state = w.receipt.state
    BY <1>5, <1>6, <1>9, <2>1, <2>2, <2>3
  <2> QED
    BY <1>1, <1>4, <2>4, EndedInStep
<1>10. CASE w' = ReturnedFailed(w)
  BY <1>1, <1>4, <1>10, FailedEnds, EndedInStep
<1> QED
  BY <1>1, <1>8, <1>9, <1>10

\* And so does every step of the thread.
LEMMA ThreadInStep ==
    ASSUME Tracked, StorageThread \/ StorageFault \/ PublishFault \/ Panic, UNCHANGED host
    PROVE  InStep'
<1> DEFINE told == [w EXCEPT !.receipt = PublishedReceipt]
<1>1. Durable /\ InStep /\ IsWorld(w) /\ IsWorker(worker) /\ Holding(InitWorker)
  BY InitHolding DEF Tracked, Durable, WellShaped
<1>2. /\ ReturnedFailed(w).own = w.own /\ ReturnedFailed(w).link = "returned"
      /\ ReturnedFailed(w).receipt.state = "failed"
  BY <1>1, FailedEnds
<1>3. CASE Take
  BY <1>1, <1>3, TakeInStep
<1>4. CASE Collect
  BY <1>1, <1>4, CollectInStep
<1>5. CASE Commit
  BY <1>1, <1>5, CommitInStep
<1>6. CASE Publish
  BY <1>1, <1>6, PublishInStep
<1>7. CASE Refuse \/ StorageFault
  BY <1>1, <1>2, <1>7, EndedInStep DEF Refuse, StorageFault
<1>8. CASE PublishFault
  <2>1. /\ store' = store /\ worker' = InitWorker
        /\ w' \in {ReturnedFailed(w), ReturnedFailed(told)}
    BY <1>8 DEF PublishFault
  <2>2. told.own = w.own /\ IsWorld(told)
    <3> DEFINE r == PublishedReceipt
    <3>1. {"persisted", "state", "run"} \subseteq DOMAIN r
      BY <1>1, PublishedConfirms DEF IsWorld
    <3> HIDE DEF r
    <3>2. [w EXCEPT !.receipt = r].own = w.own /\ IsWorld([w EXCEPT !.receipt = r])
      BY <1>1, <3>1 DEF IsWorld
    <3> QED
      BY <3>2 DEF r
  <2> HIDE DEF told
  <2>3. w'.own = w.own /\ w'.link = "returned" /\ w'.receipt.state = "failed"
    BY <1>2, <2>1, <2>2, FailedEnds
  <2> QED
    BY <1>1, <2>1, <2>3, EndedInStep
<1>9. CASE LockJobs
  <2>1. /\ worker.at = "reading" /\ store' = store
        /\ worker' = [worker EXCEPT !.at = "publishing"]
        /\ w' = [w EXCEPT !.locked = TRUE]
    BY <1>9 DEF LockJobs
  <2>2. /\ worker'.at = "publishing" /\ worker'.batch = worker.batch
        /\ worker'.deferred = worker.deferred
    BY <1>1, <2>1 DEF IsWorker
  <2>3. /\ w'.link = w.link /\ w'.own = w.own /\ w'.receipt = w.receipt
        /\ w'.queue = w.queue
    BY <1>1, <2>1 DEF IsWorld
  <2>4. Holding(worker')
    BY <1>1, <2>1, <2>2 DEF InStep, Holding
  <2> QED
    BY <1>1, <2>1, <2>2, <2>3, <2>4, MovedInStep DEF Clear, Awaits
<1>10. CASE PublishPage
  <2> DEFINE j == InsertActive(w.jobs, worker.batch[1].job)
             a == [w EXCEPT !.jobs = j]
             b == [a EXCEPT !.locked = FALSE]
             d == <<>>
  <2>1. /\ worker.at = "publishing" /\ store' = store
        /\ worker' = [worker EXCEPT !.at = "idle", !.batch = d]
    BY <1>10 DEF PublishPage
  <2>2. w' = b
    BY <1>10, Zenon DEF PublishPage
  <2> HIDE DEF j
  <2>3. /\ a.link = w.link /\ a.own = w.own /\ a.receipt = w.receipt /\ a.queue = w.queue
    BY <1>1 DEF IsWorld
  <2> HIDE DEF a
  <2>4. /\ w'.link = w.link /\ w'.own = w.own /\ w'.receipt = w.receipt
        /\ w'.queue = w.queue
    BY <2>2, <2>3
  <2> HIDE DEF b
  <2>5. /\ worker'.at = "idle" /\ worker'.batch = d /\ worker'.deferred = worker.deferred
    BY <1>1, <2>1 DEF IsWorker
  <2>6. None(d) /\ \A kind : ~One(d, kind)
    BY Singles
  <2>7. Holding(worker')
    BY <1>1, <2>5 DEF InStep, Holding
  <2>8. \A kind \in Barriers : ~One(worker.batch, kind)
    BY <1>1, <2>1 DEF InStep, Holding, One
  <2> HIDE DEF d
  <2>9. Clear(worker, w.queue) => Clear(worker', w'.queue)
    BY <2>4, <2>5, <2>6 DEF Clear
  <2>10. \A kind \in {"start", "stop"} :
            Awaits(worker, w.queue, kind) => Awaits(worker', w'.queue, kind)
    BY <2>4, <2>5, <2>6, <2>8 DEF Awaits, Barriers
  <2> QED
    BY <1>1, <2>1, <2>4, <2>5, <2>7, <2>9, <2>10, MovedInStep
<1>11. CASE ExitThread
  <2> DEFINE v == IF w.receipt.state = "failed" \/ ~w.receipt.sealed THEN "failed" ELSE "closed"
             a == [w EXCEPT !.link = "closed"]
             b == [a EXCEPT !.receipt.state = v]
  <2>1. store' = store /\ worker' = worker
    BY <1>11 DEF ExitThread
  <2>2. w' = b
    BY <1>11, Zenon DEF ExitThread
  <2>3. v # "idle"
    OBVIOUS
  <2> HIDE DEF v
  <2>4. /\ a.own = w.own /\ a.link = "closed" /\ a.receipt = w.receipt
        /\ {"own", "link", "receipt"} \subseteq DOMAIN a
    BY <1>1 DEF IsWorld
  <2>5. "state" \in DOMAIN a.receipt
    BY <1>1, <2>4 DEF IsWorld
  <2> HIDE DEF a
  <2>6. b.own = a.own /\ b.link = a.link /\ b.receipt.state = v
    BY <2>4, <2>5
  <2> HIDE DEF b
  <2>7. Holding(worker')
    BY <1>1, <2>1 DEF InStep
  <2> QED
    BY <1>1, <2>1, <2>2, <2>3, <2>4, <2>6, <2>7, EndedInStep
<1>12. CASE Panic
  <2> DEFINE a == [w EXCEPT !.link = "panicked"]
             q == <<>>
             b == [a EXCEPT !.queue = q]
  <2>1. store' = store /\ worker' = InitWorker
    BY <1>12 DEF Panic
  <2>2. w' = b
    BY <1>12, Zenon DEF Panic
  <2> HIDE DEF q
  <2>3. /\ a.own = w.own /\ a.link = "panicked" /\ a.receipt = w.receipt
        /\ {"own", "link", "receipt"} \subseteq DOMAIN a
    BY <1>1 DEF IsWorld
  <2> HIDE DEF a
  <2>4. b.own = a.own /\ b.link = a.link /\ b.receipt = a.receipt
    BY <2>3
  <2> HIDE DEF b
  <2> QED
    BY <1>1, <2>1, <2>2, <2>3, <2>4, EndedInStep
<1> QED
  BY <1>3, <1>4, <1>5, <1>6, <1>7, <1>8, <1>9, <1>10, <1>11, <1>12 DEF StorageThread

-----------------------------------------------------------------------------
(* A process opens the archive.                                            *)

\* A run that is decided says so in its coverage.
Decidedly(file) ==
    \A b \in DOMAIN file : \A r \in DOMAIN file[b].runs :
        \/ file[b].runs[r].state = "recording"
        \/ file[b].runs[r].coverage = "complete" <=> file[b].runs[r].state = "sealed"

LEMMA HonestIsDecided ==
    ASSUME NEW s, IsStore(s), RunsHonest(s), PastOver(s)
    PROVE  Decidedly(s.file)
BY StoreBasics DEF RunsHonest, PastOver, Decidedly

NewBoot == Boot("active", <<>>, <<>>)

LEMMA InterruptedBoots ==
    ASSUME NEW boot, IsBoot(boot),
           \A r \in DOMAIN boot.runs :
              \/ boot.runs[r].state = "recording"
              \/ boot.runs[r].coverage = "complete" <=> boot.runs[r].state = "sealed"
    PROVE  LET z == Interrupted(boot)
           IN  /\ IsBoot(z) /\ z.state # "active" /\ z.records = boot.records
               /\ DOMAIN z.runs = DOMAIN boot.runs
               /\ \A r \in DOMAIN z.runs :
                     /\ z.runs[r].state = IF boot.runs[r].state = "recording" THEN "interrupted"
                                          ELSE boot.runs[r].state
                     /\ z.runs[r].coverage = "complete" <=> z.runs[r].state = "sealed"
<1> DEFINE runs == [r \in DOMAIN boot.runs |-> InterruptedRun(boot.runs[r])]
           state == IF boot.state = "active" THEN "interrupted" ELSE boot.state
           b == [boot EXCEPT !.state = state]
           z == [b EXCEPT !.runs = runs]
<1>1. Interrupted(boot) = z
  BY Zenon DEF Interrupted
<1>2. state # "active"
  OBVIOUS
<1>3. ASSUME NEW r \in DOMAIN boot.runs
      PROVE  /\ {"state", "coverage"} \subseteq DOMAIN runs[r]
             /\ runs[r].state = IF boot.runs[r].state = "recording" THEN "interrupted"
                                ELSE boot.runs[r].state
             /\ runs[r].coverage = "complete" <=> runs[r].state = "sealed"
  <2> DEFINE run == boot.runs[r]
             a == [run EXCEPT !.state = "interrupted"]
             c == [a EXCEPT !.coverage = "unknown_tail"]
  <2>1. {"state", "coverage"} \subseteq DOMAIN run
    BY DEF IsBoot, IsRuns
  <2>2. run.state = "recording" \/ (run.coverage = "complete" <=> run.state = "sealed")
    OBVIOUS
  <2>3. runs[r] = InterruptedRun(run)
    OBVIOUS
  <2> HIDE DEF run, runs
  <2>4. /\ {"state", "coverage"} \subseteq DOMAIN c
        /\ c.state = "interrupted" /\ c.coverage = "unknown_tail"
    BY <2>1
  <2>5. InterruptedRun(run) = IF run.state = "recording" THEN c ELSE run
    BY Zenon DEF InterruptedRun
  <2> HIDE DEF c
  <2> QED
    BY <2>1, <2>2, <2>3, <2>4, <2>5 DEF run
<1>4. IsSequence(runs) /\ DOMAIN runs = DOMAIN boot.runs
  <2> DEFINE q == boot.runs
             m == [r \in DOMAIN q |-> InterruptedRun(q[r])]
  <2>1. IsSequence(q)
    BY DEF IsBoot, IsRuns
  <2>2. m = [r \in DOMAIN q |-> m[r]]
    OBVIOUS
  <2>3. \A f : IsSequence([r \in DOMAIN q |-> f[r]])
    BY <2>1, SequenceLaws
  <2>4. IsSequence([r \in DOMAIN q |-> m[r]])
    BY <2>3
  <2> QED
    BY <2>2, <2>4, Zenon
<1>5. IsRuns(runs)
  BY <1>3, <1>4 DEF IsRuns
<1> HIDE DEF runs, state
<1>6. /\ {"state", "records", "runs"} \subseteq DOMAIN b
      /\ b.state = state /\ b.records = boot.records
  BY DEF IsBoot
<1> HIDE DEF b
<1>7. /\ {"state", "records", "runs"} \subseteq DOMAIN z
      /\ z.state = state /\ z.records = boot.records /\ z.runs = runs
  BY <1>6
<1> HIDE DEF z
<1>8. IsBoot(z)
  BY <1>5, <1>7 DEF IsBoot
<1> QED
  BY <1>1, <1>2, <1>3, <1>4, <1>7, <1>8

LEMMA OpenedHonest ==
    ASSUME NEW file, IsFile(file), Decidedly(file)
    PROVE  LET z == Connection(OpenBoot(file))
           IN  /\ IsStore(z) /\ RunsHonest(z) /\ PastOver(z)
               /\ CurrentBoot(z) = NewBoot
               /\ Len(z.file) = Len(file) + 1 /\ DOMAIN z.file = 1..(Len(file) + 1)
               /\ \A b \in DOMAIN file : z.file[b] = Interrupted(file[b])
<1> DEFINE n == Len(file)
           past == [b \in DOMAIN file |-> Interrupted(file[b])]
           opened == Append(past, NewBoot)
           z == Connection(opened)
<1>1. n \in Nat /\ DOMAIN file = 1..n /\ \A b \in DOMAIN file : IsBoot(file[b])
  BY SequenceLaws DEF IsFile
<1>2. IsSequence(past) /\ Len(past) = n /\ \A b \in DOMAIN file : past[b] = Interrupted(file[b])
  <2>1. past = [b \in DOMAIN file |-> past[b]]
    OBVIOUS
  <2>2. \A f : /\ IsSequence([b \in DOMAIN file |-> f[b]])
               /\ Len([b \in DOMAIN file |-> f[b]]) = n
    BY SequenceLaws DEF IsFile
  <2>3. /\ IsSequence([b \in DOMAIN file |-> past[b]])
        /\ Len([b \in DOMAIN file |-> past[b]]) = n
    BY <2>2
  <2>4. IsSequence(past) /\ Len(past) = n
    BY <2>1, <2>3, Zenon
  <2> QED
    BY <2>4
<1> HIDE DEF past, n
<1>3. /\ IsSequence(opened) /\ Len(opened) = n + 1 /\ opened[n + 1] = NewBoot
      /\ \A b \in 1..n : opened[b] = past[b]
  BY <1>2, SequenceLaws, SequenceSet
<1>4. OpenBoot(file) = opened
  BY DEF OpenBoot, past, NewBoot
<1> HIDE DEF opened
<1>5. DOMAIN opened = 1..(n + 1)
  BY <1>3, SequenceLaws
<1>6. z.file = opened /\ z.run = 0 /\ {"file", "run", "gap"} \subseteq DOMAIN z
  BY DEF Connection
<1> HIDE DEF z
<1>7. CurrentBoot(z) = NewBoot
  BY <1>3, <1>6 DEF CurrentBoot
<1>8. NewBoot.state = "active" /\ NewBoot.runs = <<>> /\ IsBoot(NewBoot) /\ DOMAIN NewBoot.runs = {}
  <2> DEFINE Empty == <<>>
             boot == [state |-> "active", records |-> Empty, runs |-> Empty]
  <2>1. boot = NewBoot
    BY DEF NewBoot, Boot
  <2>2. IsSequence(Empty) /\ DOMAIN Empty = {}
    BY SmallSequences
  <2> HIDE DEF Empty
  <2>3. IsRuns(Empty)
    BY <2>2 DEF IsRuns
  <2>4. IsBoot(boot)
    BY <2>2, <2>3 DEF IsBoot
  <2>5. boot.state = "active" /\ boot.runs = Empty
    OBVIOUS
  <2> HIDE DEF boot
  <2> QED
    BY <2>1, <2>2, <2>4, <2>5 DEF Empty
<1>9. ASSUME NEW b \in DOMAIN file
      PROVE  /\ b \in 1..n /\ opened[b] = Interrupted(file[b])
             /\ IsBoot(opened[b]) /\ opened[b].state # "active"
             /\ \A r \in DOMAIN opened[b].runs :
                   /\ opened[b].runs[r].state # "recording"
                   /\ opened[b].runs[r].coverage = "complete" <=> opened[b].runs[r].state = "sealed"
  <2> DEFINE boot == file[b]
             y == Interrupted(boot)
  <2>1. /\ IsBoot(boot)
        /\ \A r \in DOMAIN boot.runs :
              \/ boot.runs[r].state = "recording"
              \/ boot.runs[r].coverage = "complete" <=> boot.runs[r].state = "sealed"
    BY <1>1 DEF Decidedly
  <2>2. opened[b] = y /\ b \in 1..n
    BY <1>1, <1>2, <1>3
  <2> HIDE DEF boot
  <2>3. /\ IsBoot(y) /\ y.state # "active" /\ DOMAIN y.runs = DOMAIN boot.runs
        /\ \A r \in DOMAIN y.runs :
              /\ y.runs[r].state = IF boot.runs[r].state = "recording" THEN "interrupted"
                                   ELSE boot.runs[r].state
              /\ y.runs[r].coverage = "complete" <=> y.runs[r].state = "sealed"
    BY <2>1, InterruptedBoots
  <2> HIDE DEF y
  <2>4. \A r \in DOMAIN y.runs : y.runs[r].state # "recording"
    BY <2>3
  <2> QED
    BY <2>2, <2>3, <2>4 DEF boot, y
<1>10. \A b \in DOMAIN opened : b = n + 1 \/ b \in DOMAIN file
  BY <1>1, <1>5
<1>11. IsFile(z.file)
  BY <1>3, <1>6, <1>8, <1>9, <1>10 DEF IsFile
<1>12. z.file # <<>>
  BY <1>1, <1>3, <1>6, SequenceSet
<1>13. IsStore(z)
  BY <1>6, <1>11, <1>12 DEF IsStore
<1>14. RunsHonest(z)
  BY <1>6, <1>7, <1>8 DEF RunsHonest
<1>15. PastOver(z)
  BY <1>3, <1>6, <1>9, <1>10 DEF PastOver
<1> QED
  BY <1>3, <1>4, <1>5, <1>6, <1>7, <1>9, <1>13, <1>14, <1>15 DEF z, n

\* The owner of a new process: no request is open, and nothing is queued for the thread.
LEMMA NewProcess ==
    LET y == RequestActivation(InitWorld).w
    IN  /\ IsWorld(y) /\ y.own.persisted = 0 /\ y.receipt.persisted = 0
        /\ IsHost(InitHost) /\ IsWorker(InitWorker)
        /\ InitHost.lifecycle = NoLifecycle
        /\ \A s : Flow(y, InitWorker, s) /\ ~OpenStop(NoLifecycle, s)
<1> DEFINE Empty == <<>>
           Resting == [state |-> "idle", persisted |-> 0, run |-> 0]
           world == [own |-> InitOwner, queue |-> Empty, receipt |-> InitReceipt,
                     jobs |-> InitJobs, locked |-> FALSE, link |-> "up"]
           y == RequestActivation(InitWorld).w
<1>1. /\ {"persisted", "state", "run"} \subseteq DOMAIN InitOwner
      /\ InitOwner.persisted = 0 /\ InitOwner.state = "idle"
  BY DEF InitOwner
<1>2. /\ {"persisted", "state", "run"} \subseteq DOMAIN InitReceipt
      /\ InitReceipt.persisted = 0 /\ InitReceipt.state = "idle"
  BY DEF InitReceipt
<1>3. world = InitWorld
  BY DEF InitWorld
<1>4. IsChannel(Empty) /\ IsSequence(Empty) /\ None(Empty)
  BY SmallChannels, ChannelLaws, Singles
<1>5. IsHost(InitHost) /\ InitHost.lifecycle = NoLifecycle
  <2>1. /\ {"outbox", "lifecycle", "status"} \subseteq DOMAIN InitHost
        /\ InitHost.outbox = Empty /\ InitHost.lifecycle = NoLifecycle
    BY DEF InitHost
  <2> HIDE DEF Empty
  <2> QED
    BY <1>4, <2>1 DEF IsHost
<1>6. Clear(InitWorker, Empty)
  <2>1. InitWorker.batch = Empty /\ InitWorker.deferred = Empty
    BY DEF InitWorker
  <2> HIDE DEF Empty
  <2> QED
    BY <1>4, <2>1 DEF Clear
<1> HIDE DEF Empty
<1>7. /\ IsWorld(world) /\ world.own.persisted = 0 /\ world.receipt.persisted = 0
      /\ \A s : Flow(world, InitWorker, s)
  BY <1>1, <1>2, <1>4, <1>6 DEF IsWorld, Flow
<1> HIDE DEF world
<1>8. NoLifecycle.op = 0
  BY DEF NoLifecycle
<1>9. ASSUME NEW s PROVE ~OpenStop(NoLifecycle, s)
  BY <1>8 DEF OpenStop
<1> HIDE DEF y
<1>10. ASSUME NEW s
       PROVE  IsWorld(y) /\ y.own.persisted = 0 /\ y.receipt.persisted = 0 /\ Flow(y, InitWorker, s)
  <2> DEFINE a == From(InitWorld, InitWorker, s, NoLifecycle, FALSE)
  <2>1. a.w = InitWorld /\ a.t = InitWorker /\ a.s = s /\ a.l = NoLifecycle
    BY DEF From
  <2> HIDE DEF a
  <2>2. Goes(a, InitWorld)
    BY <1>3, <1>7, <1>9, <2>1, GoesStays
  <2>3. Goes(a, y)
    BY <2>2, RequestActivationGoes DEF y
  <2> QED
    BY <1>3, <1>7, <2>1, <2>3 DEF Goes, Confirms
<1>11. IsWorker(InitWorker)
  BY Workers, Zenon
<1> QED
  BY <1>5, <1>9, <1>10, <1>11 DEF y

LEMMA TrackedOpened ==
    ASSUME NEW file, IsFile(file), Decidedly(file),
           Connection(OpenBoot(file)) = store, w = RequestActivation(InitWorld).w,
           worker = InitWorker, host = InitHost
    PROVE  Tracked
<1>1. WellShaped
  BY NewProcess, OpenedHonest DEF WellShaped
<1>2. RunsHonest(store) /\ PastOver(store) /\ CurrentBoot(store) = NewBoot
  BY OpenedHonest
<1>3. NewBoot.state = "active" /\ Len(NewBoot.records) = 0
  BY DEF NewBoot, Boot
<1>4. w.own.persisted = 0 /\ w.receipt.persisted = 0
  BY NewProcess
<1>5. Durable
  BY <1>1, <1>2, <1>3, <1>4 DEF Durable, OpenUntilFinished, ConfirmedInOrder
<1>6. InStep
  BY NewProcess, InitHolding DEF InStep
<1> QED
  BY <1>5, <1>6 DEF Tracked

LEMMA TrackedInit == Init => Tracked
<1> SUFFICES ASSUME Init PROVE Tracked
  OBVIOUS
<1> DEFINE Empty == <<>>
<1>1. IsSequence(Empty) /\ DOMAIN Empty = {}
  BY SmallSequences
<1>2. /\ Connection(OpenBoot(Empty)) = store /\ w = RequestActivation(InitWorld).w
      /\ worker = InitWorker /\ host = InitHost
  BY DEF Init
<1> HIDE DEF Empty
<1>3. IsFile(Empty) /\ Decidedly(Empty)
  BY <1>1 DEF IsFile, Decidedly
<1> QED
  BY <1>2, <1>3, TrackedOpened

LEMMA RebootTracked ==
    ASSUME Durable, Reboot
    PROVE  Tracked' /\ w'.own.persisted = 0
<1>1. /\ store' = Connection(OpenBoot(store.file))
      /\ w' = RequestActivation(InitWorld).w
      /\ worker' = InitWorker /\ host' = InitHost
  BY DEF Reboot
<1>2. IsFile(store.file) /\ Decidedly(store.file)
  BY HonestIsDecided DEF Durable, WellShaped, IsStore
<1>3. /\ IsStore(store') /\ RunsHonest(store') /\ PastOver(store')
      /\ CurrentBoot(store') = NewBoot
  BY <1>1, <1>2, OpenedHonest
<1>4. /\ IsWorld(w') /\ w'.own.persisted = 0 /\ w'.receipt.persisted = 0
      /\ IsHost(host') /\ IsWorker(worker') /\ host'.lifecycle = NoLifecycle
      /\ Flow(w', worker', store') /\ ~OpenStop(NoLifecycle, store')
  BY <1>1, NewProcess
<1>5. NewBoot.state = "active" /\ Len(NewBoot.records) = 0
  BY DEF NewBoot, Boot
<1>6. Durable'
  BY <1>3, <1>4, <1>5 DEF Durable, WellShaped, OpenUntilFinished, ConfirmedInOrder
<1>7. InStep'
  BY <1>1, <1>4, InitHolding DEF InStep
<1> QED
  BY <1>4, <1>6, <1>7 DEF Tracked

\* Every step is the owner's, the thread's, or the next process.
LEMMA StepKinds ==
    ASSUME Tracked, Next
    PROVE  Tracked' /\ (LaneStep \/ ThreadStepped \/ Reboot)
<1>1. Durable /\ InStep /\ Goes(Hence, w) /\ Acts(Hence, host)
  BY HereTracked DEF Tracked
<1>2. CASE \/ Ready \/ ServiceTurn \/ Produce \/ Tick
           \/ \E op \in Ops : ClientStart(op) \/ ClientStop(op)
           \/ FinishStart \/ PollRecording
  BY <1>1, <1>2, LifecycleStep, LaneDurable, LaneInStep DEF Tracked
<1>3. CASE \/ \E op \in Ops : ClientFinish(op) \/ ReferenceReserve(op)
           \/ \E op \in Ops, command \in {"controller_pause", "write"} : ClientAccept(op, command)
           \/ Annotate \/ ReferenceStep
           \/ \E c \in Connections :
                ReadHistory(c) \/ TakePage(c) \/ ExpirePage(c) \/ Disconnect(c)
           \/ CancelOrphan
  BY <1>1, <1>3, ClientStep, LaneDurable, LaneInStep DEF Tracked
<1>4. CASE \/ ApplyReserve \/ ApplyCommit \/ ApplyAbort \/ ApplyConfirm
           \/ RebindReserve \/ RebindAdmit
           \/ RequestShutdown \/ ShutdownStep
  BY <1>1, <1>4, ServiceStep, LaneDurable, LaneInStep DEF Tracked
<1>5. CASE StorageStep \/ Fault
  <2>1. StorageThread \/ StorageFault \/ PublishFault \/ Panic
    BY <1>5 DEF StorageStep, Fault
  <2>2. UNCHANGED host
    BY <1>5 DEF StorageStep, Fault, OwnerStays
  <2>3. Durable' /\ ThreadStepped
    BY <1>1, <2>1, <2>2, ThreadStep
  <2>4. InStep'
    BY <2>1, <2>2, ThreadInStep
  <2> QED
    BY <2>3, <2>4 DEF Tracked
<1>6. CASE Reboot
  BY <1>1, <1>6, RebootTracked
<1>7. \/ \/ Ready \/ ServiceTurn \/ Produce \/ Tick
         \/ \E op \in Ops : ClientStart(op) \/ ClientStop(op)
         \/ FinishStart \/ PollRecording
      \/ \/ \E op \in Ops : ClientFinish(op) \/ ReferenceReserve(op)
         \/ \E op \in Ops, command \in {"controller_pause", "write"} : ClientAccept(op, command)
         \/ Annotate \/ ReferenceStep
         \/ \E c \in Connections :
              ReadHistory(c) \/ TakePage(c) \/ ExpirePage(c) \/ Disconnect(c)
         \/ CancelOrphan
      \/ \/ ApplyReserve \/ ApplyCommit \/ ApplyAbort \/ ApplyConfirm
         \/ RebindReserve \/ RebindAdmit
         \/ RequestShutdown \/ ShutdownStep
      \/ StorageStep \/ Fault \/ Reboot
  BY Zenon DEF Next
<1> QED
  BY <1>2, <1>3, <1>4, <1>5, <1>6, <1>7

LEMMA TrackedNext == Tracked /\ [Next]_vars => Tracked'
<1> SUFFICES ASSUME Tracked, [Next]_vars PROVE Tracked'
  OBVIOUS
<1>1. CASE Next
  BY <1>1, StepKinds
<1>2. CASE UNCHANGED vars
  BY <1>2 DEF vars, Tracked, InStep, Durable, WellShaped, OpenUntilFinished, ConfirmedInOrder
<1> QED
  BY <1>1, <1>2

\* The archive is in order in every state, with the volatile state of the connection
\* and what receipt and owner hold of it, and a stop in flight is ahead of the commit
\* that seals its run: whichever way owner, storage thread, faults and reboots
\* interleave (RecordingStatus of worker.rs, request_stop, RecorderState of lib.rs).
THEOREM AlwaysTracked == Spec => []Tracked
<1>1. Init => Tracked
  BY TrackedInit
<1>2. Tracked /\ [Next]_vars => Tracked'
  BY TrackedNext
<1> QED
  BY <1>1, <1>2, PTL DEF Spec

\* In particular the archive and what is known of it stay in order.
THEOREM AlwaysDurable == Spec => []Durable
<1>1. Tracked => Durable
  BY DEF Tracked
<1> QED
  BY <1>1, AlwaysTracked, PTL

\* Runs of processes that are gone are never left looking complete, and of the
\* running process only the run its connection holds is open (open.rs recovery,
\* start_run, stop_run, fail_run, finish_boot of the archive).
THEOREM PastStaysHonest == Spec => []PastIsHonest
<1>1. Durable => PastIsHonest
  <2> SUFFICES ASSUME Durable, NEW b \in DOMAIN store.file
               PROVE  LET boot == store.file[b]
                      IN  /\ b < Boots => boot.state # "active"
                          /\ \A r \in DOMAIN boot.runs :
                                /\ boot.runs[r].state = "recording" =>
                                      b = Boots /\ boot.state = "active" /\ store.run = r
                                /\ boot.runs[r].state # "recording" =>
                                      (boot.runs[r].coverage = "complete" <=>
                                          boot.runs[r].state = "sealed")
    BY DEF PastIsHonest
  <2>1. IsStore(store) /\ RunsHonest(store) /\ PastOver(store)
    BY DEF Durable, WellShaped
  <2>2. /\ Boots = Len(store.file) /\ DOMAIN store.file = 1..Boots /\ Boots \in Nat
        /\ CurrentBoot(store) = store.file[Boots]
        /\ DOMAIN CurrentBoot(store).runs = 1..Len(CurrentBoot(store).runs)
        /\ Len(CurrentBoot(store).runs) \in Nat
    BY <2>1, StoreBasics DEF Boots
  <2>3. CASE b = Boots
    <3>1. \A r \in DOMAIN store.file[b].runs : r # 0
      BY <2>2, <2>3
    <3> QED
      BY <2>1, <2>2, <2>3, <3>1 DEF RunsHonest
  <2>4. CASE b # Boots
    BY <2>1, <2>2, <2>4 DEF PastOver
  <2> QED
    BY <2>3, <2>4
<1> QED
  BY <1>1, AlwaysDurable, PTL

-----------------------------------------------------------------------------
(* The answer to a stop.                                                   *)

SealedIn(boot, run) == run \in DOMAIN boot.runs /\ boot.runs[run].state = "sealed"

\* The runs whose stop was answered as completed are in the archive, sealed.
PromisesKept ==
    \A p \in promised : p.boot \in DOMAIN store.file /\ SealedIn(store.file[p.boot], p.run)

\* No step of the owner, of the thread or of the next process unseals a run.
LEMMA SealedStays ==
    ASSUME Tracked, Next, NEW b \in DOMAIN store.file, NEW r, SealedIn(store.file[b], r)
    PROVE  b \in DOMAIN store'.file /\ SealedIn(store'.file[b], r)
<1>1. IsStore(store) /\ RunsHonest(store) /\ PastOver(store)
  BY DEF Tracked, Durable, WellShaped
<1>2. LaneStep \/ ThreadStepped \/ Reboot
  BY StepKinds
<1>3. CASE store' = store
  BY <1>3
<1>4. CASE Transacted(store, store')
  <2>1. IsStore(store')
    BY StepKinds DEF Tracked, Durable, WellShaped
  <2>2. CASE b = Len(store.file)
    <3>1. store.file[b] = CurrentBoot(store) /\ store'.file[b] = CurrentBoot(store')
      BY <1>1, <1>4, <2>1, <2>2, StoreBasics DEF Transacted
    <3> QED
      BY <1>4, <3>1 DEF Transacted, SealedIn
  <2>3. CASE b # Len(store.file)
    BY <1>4, <2>3 DEF Transacted
  <2>4. b \in DOMAIN store'.file
    BY <1>4 DEF Transacted
  <2> QED
    BY <2>2, <2>3, <2>4
<1>5. CASE Reboot
  <2> DEFINE boot == store.file[b]
             y == Interrupted(boot)
  <2>1. IsFile(store.file) /\ Decidedly(store.file)
    BY <1>1, HonestIsDecided DEF IsStore
  <2>2. store' = Connection(OpenBoot(store.file))
    BY <1>5 DEF Reboot
  <2>3. /\ DOMAIN store'.file = 1..(Len(store.file) + 1)
        /\ store'.file[b] = y
    BY <2>1, <2>2, OpenedHonest
  <2>4. b \in DOMAIN store'.file
    BY <1>1, <2>3, StoreBasics
  <2>5. IsBoot(boot) /\ SealedIn(boot, r)
    BY <2>1 DEF IsFile
  <2>6. \A k \in DOMAIN boot.runs :
           \/ boot.runs[k].state = "recording"
           \/ boot.runs[k].coverage = "complete" <=> boot.runs[k].state = "sealed"
    BY <2>1 DEF Decidedly
  <2> HIDE DEF boot
  <2>7. /\ DOMAIN y.runs = DOMAIN boot.runs
        /\ \A k \in DOMAIN y.runs :
              y.runs[k].state = IF boot.runs[k].state = "recording" THEN "interrupted"
                                ELSE boot.runs[k].state
    BY <2>5, <2>6, InterruptedBoots
  <2> HIDE DEF y
  <2>8. SealedIn(y, r)
    BY <2>5, <2>7 DEF SealedIn
  <2> QED
    BY <2>3, <2>4, <2>8
<1> QED
  BY <1>2, <1>3, <1>4, <1>5, LaneTold DEF ThreadStepped

\* Only poll_recording answers, and it answers a stop that is done.
LEMMA PromiseMade ==
    ASSUME Tracked, Next, NEW p \in promised'
    PROVE  \/ p \in promised
           \/ /\ p = [boot |-> Boots, run |-> host.lifecycle.run]
              /\ SealedRun(store, host.lifecycle.run)
<1>1. CASE PollRecording
  <2>1. host.lifecycle.op # 0 /\ LifecycleDone(host)
    BY <1>1, Zenon DEF PollRecording
  <2>2. promised' = IF host.status.state # "failed" /\ ~host.lifecycle.start
                    THEN promised \cup {[boot |-> Boots, run |-> host.lifecycle.run]}
                    ELSE promised
    BY <1>1, Zenon DEF PollRecording
  <2>3. OpenStop(host.lifecycle, store) => host.status.state # "idle"
    BY DEF Tracked, InStep
  <2>4. CASE host.status.state # "failed" /\ ~host.lifecycle.start
    <3>1. host.status.state = "idle"
      BY <2>1, <2>4 DEF LifecycleDone
    <3>2. SealedRun(store, host.lifecycle.run)
      BY <2>1, <2>3, <2>4, <3>1 DEF OpenStop
    <3> QED
      BY <2>2, <2>4, <3>2
  <2>5. CASE ~(host.status.state # "failed" /\ ~host.lifecycle.start)
    BY <2>2, <2>5
  <2> QED
    BY <2>4, <2>5
<1>2. CASE Ready \/ ServiceTurn \/ Produce \/ Tick \/ FinishStart \/ Annotate \/ CancelOrphan
  BY <1>2, Zenon DEF Ready, ServiceTurn, Produce, Tick, FinishStart, Annotate, CancelOrphan,
                     HistoryStays
<1>3. CASE \/ \E op \in Ops : \/ ClientStart(op) \/ ClientStop(op) \/ ClientFinish(op)
                              \/ ReferenceReserve(op)
           \/ \E op \in Ops, command \in {"controller_pause", "write"} : ClientAccept(op, command)
           \/ \E c \in Connections :
                ReadHistory(c) \/ TakePage(c) \/ ExpirePage(c) \/ Disconnect(c)
  <2>1. promised' = promised
    BY <1>3, Zenon DEF ClientStart, ClientStop, ClientFinish, ReferenceReserve, ClientAccept,
                       ReadHistory, TakePage, ExpirePage, Disconnect, HistoryStays
  <2> QED
    BY <2>1
<1>4. CASE ReferenceStep
  BY <1>4, Zenon DEF ReferenceStep, ReferenceAccept, ReferenceDispatch, ReferenceTerminal,
                     HistoryStays
<1>5. CASE \/ ApplyReserve \/ ApplyCommit \/ ApplyAbort \/ ApplyConfirm
           \/ RebindReserve \/ RebindAdmit \/ RequestShutdown \/ ShutdownStep
  BY <1>5, Zenon DEF ApplyReserve, ApplyCommit, ApplyAbort, ApplyConfirm, RebindReserve,
                     RebindAdmit, RequestShutdown, ShutdownStep, HistoryStays
<1>6. CASE StorageStep \/ Fault \/ Reboot
  BY <1>6, Zenon DEF StorageStep, Fault, Reboot, OwnerStays
<1> QED
  BY <1>1, <1>2, <1>3, <1>4, <1>5, <1>6, Zenon DEF Next

LEMMA PromisesNext == Tracked /\ PromisesKept /\ [Next]_vars => PromisesKept'
<1> SUFFICES ASSUME Tracked, PromisesKept, [Next]_vars PROVE PromisesKept'
  OBVIOUS
<1>1. CASE Next
  <2> SUFFICES ASSUME NEW p \in promised'
               PROVE  p.boot \in DOMAIN store'.file /\ SealedIn(store'.file[p.boot], p.run)
    BY DEF PromisesKept
  <2>1. p.boot \in DOMAIN store.file /\ SealedIn(store.file[p.boot], p.run)
    <3>1. CASE p \in promised
      BY <3>1 DEF PromisesKept
    <3>2. CASE /\ p = [boot |-> Boots, run |-> host.lifecycle.run]
               /\ SealedRun(store, host.lifecycle.run)
      <4>1. p.boot = Len(store.file) /\ p.run = host.lifecycle.run
        BY <3>2 DEF Boots
      <4>2. Len(store.file) \in DOMAIN store.file /\ CurrentBoot(store) = store.file[Len(store.file)]
        BY StoreBasics DEF Tracked, Durable, WellShaped
      <4> QED
        BY <3>2, <4>1, <4>2 DEF SealedRun, SealedIn
    <3> QED
      BY <1>1, <3>1, <3>2, PromiseMade
  <2> QED
    BY <1>1, <2>1, SealedStays
<1>2. CASE UNCHANGED vars
  BY <1>2 DEF vars, PromisesKept
<1> QED
  BY <1>1, <1>2

\* A recording_stop that was answered as completed has its run sealed in the archive,
\* and it stays so whatever fails or restarts afterwards: poll_recording answers only
\* when it sees the recorder idle, the owner returns to idle only from a receipt, and
\* the receipt says idle only after the transaction of stop_run is committed.
THEOREM StopsStayDurable == Spec => []StopIsDurable
<1>1. Init => PromisesKept
  BY DEF Init, PromisesKept
<1>2. Tracked /\ PromisesKept /\ [Next]_vars => PromisesKept'
  BY PromisesNext
<1>3. PromisesKept => StopIsDurable
  BY DEF PromisesKept, SealedIn, StopIsDurable
<1> QED
  BY <1>1, <1>2, <1>3, AlwaysTracked, PTL DEF Spec

-----------------------------------------------------------------------------
(* The archive as a durable log.                                           *)

LogOf(file) == [b \in DOMAIN file |-> file[b].records]

Outcomes(runs) == [r \in DOMAIN runs |-> runs[r].state]
OutcomeOf(file) == [b \in DOMAIN file |-> Outcomes(file[b].runs)]

LEMMA LogLaws ==
    ASSUME NEW file, IsFile(file)
    PROVE  /\ IsSequence(LogOf(file)) /\ Len(LogOf(file)) = Len(file)
           /\ IsSequence(OutcomeOf(file)) /\ Len(OutcomeOf(file)) = Len(file)
           /\ \A b \in DOMAIN file : /\ LogOf(file)[b] = file[b].records
                                     /\ OutcomeOf(file)[b] = Outcomes(file[b].runs)
                                     /\ IsSequence(file[b].records)
                                     /\ IsSequence(Outcomes(file[b].runs))
                                     /\ Len(Outcomes(file[b].runs)) = Len(file[b].runs)
<1>1. IsSequence(file)
  BY DEF IsFile
<1>2. ASSUME NEW q, IsSequence(q), NEW f, f = [i \in DOMAIN q |-> f[i]]
      PROVE  IsSequence(f) /\ Len(f) = Len(q)
  <2>1. /\ IsSequence([i \in DOMAIN q |-> f[i]])
        /\ Len([i \in DOMAIN q |-> f[i]]) = Len(q)
    BY <1>2, SequenceLaws
  <2> QED
    BY <1>2, <2>1
<1>3. IsSequence(LogOf(file)) /\ Len(LogOf(file)) = Len(file)
  <2> DEFINE f == LogOf(file)
  <2>1. f = [i \in DOMAIN file |-> f[i]]
    BY DEF LogOf
  <2> HIDE DEF f
  <2> QED
    BY <1>1, <1>2, <2>1 DEF f
<1>4. IsSequence(OutcomeOf(file)) /\ Len(OutcomeOf(file)) = Len(file)
  <2> DEFINE f == OutcomeOf(file)
  <2>1. f = [i \in DOMAIN file |-> f[i]]
    BY DEF OutcomeOf
  <2> HIDE DEF f
  <2> QED
    BY <1>1, <1>2, <2>1 DEF f
<1>5. ASSUME NEW b \in DOMAIN file
      PROVE  /\ LogOf(file)[b] = file[b].records
             /\ OutcomeOf(file)[b] = Outcomes(file[b].runs)
             /\ IsSequence(file[b].records)
             /\ IsSequence(Outcomes(file[b].runs))
             /\ Len(Outcomes(file[b].runs)) = Len(file[b].runs)
  <2>1. IsSequence(file[b].records) /\ IsSequence(file[b].runs)
    BY DEF IsFile, IsBoot, IsRuns
  <2> DEFINE f == Outcomes(file[b].runs)
  <2>2. f = [i \in DOMAIN file[b].runs |-> f[i]]
    BY DEF Outcomes
  <2> HIDE DEF f
  <2>3. IsSequence(f) /\ Len(f) = Len(file[b].runs)
    BY <1>2, <2>1, <2>2
  <2> QED
    BY <2>1, <2>3 DEF f, LogOf, OutcomeOf
<1> QED
  BY <1>3, <1>4, <1>5

\* Sequences that agree up to n have the same first n elements.
LEMMA SameSubSeq ==
    ASSUME NEW s, NEW t, NEW n \in Int, \A i \in 1..n : s[i] = t[i]
    PROVE  SubSeq(s, 1, n) = SubSeq(t, 1, n)
<1> DEFINE S == {s[i] : i \in 1..n}
           a == SubSeq(s, 1, n)
           b == SubSeq(t, 1, n)
<1>1. (\A i \in 1..n : s[i] \in S) /\ (\A i \in 1..n : t[i] \in S)
  OBVIOUS
<1> HIDE DEF S
<1>2. /\ a \in Seq(S) /\ Len(a) = (IF 1 <= n THEN n ELSE 0)
      /\ \A i \in 1..n : a[i] = s[i]
  <2>1. /\ a \in Seq(S)
        /\ Len(a) = (IF 1 <= n THEN n - 1 + 1 ELSE 0)
        /\ \A i \in 1..n - 1 + 1 : a[i] = s[1 + i - 1]
    BY <1>1, SubSeqProperties
  <2> HIDE DEF a
  <2> QED
    BY <2>1
<1>3. /\ b \in Seq(S) /\ Len(b) = (IF 1 <= n THEN n ELSE 0)
      /\ \A i \in 1..n : b[i] = t[i]
  <2>1. /\ b \in Seq(S)
        /\ Len(b) = (IF 1 <= n THEN n - 1 + 1 ELSE 0)
        /\ \A i \in 1..n - 1 + 1 : b[i] = t[1 + i - 1]
    BY <1>1, SubSeqProperties
  <2> HIDE DEF b
  <2> QED
    BY <2>1
<1> HIDE DEF a, b
<1>4. Len(a) = Len(b) /\ \A i \in 1..Len(a) : a[i] = b[i]
  BY <1>2, <1>3
<1> QED
  BY <1>2, <1>3, <1>4 DEF a, b

\* So a commit is a write of the log ...
LEMMA WriteLaws ==
    ASSUME NEW s, NEW z, IsStore(s), IsStore(z), RunsHonest(z), Transacted(s, z)
    PROVE  /\ Front(LogOf(z.file)) = Front(LogOf(s.file))
           /\ Len(LogOf(z.file)) = Len(LogOf(s.file))
           /\ IsPrefix(Last(LogOf(s.file)), Last(LogOf(z.file)))
           /\ Front(OutcomeOf(z.file)) = Front(OutcomeOf(s.file))
           /\ Len(OutcomeOf(z.file)) = Len(OutcomeOf(s.file))
           /\ Archive!Decided(Last(OutcomeOf(s.file)), Last(OutcomeOf(z.file)))
<1> DEFINE n == Len(s.file)
           old == CurrentBoot(s)
           new == CurrentBoot(z)
<1>1. /\ n \in Nat /\ n > 0 /\ DOMAIN s.file = 1..n /\ n \in DOMAIN s.file
      /\ Len(z.file) = n /\ DOMAIN z.file = 1..n
      /\ old = s.file[n] /\ new = z.file[n]
      /\ \A b \in 1..(n - 1) : z.file[b] = s.file[b]
      /\ IsFile(s.file) /\ IsFile(z.file)
  BY StoreBasics DEF Transacted, IsStore
<1>2. /\ Len(LogOf(s.file)) = n /\ Len(LogOf(z.file)) = n
      /\ Len(OutcomeOf(s.file)) = n /\ Len(OutcomeOf(z.file)) = n
      /\ \A b \in 1..(n - 1) : LogOf(z.file)[b] = LogOf(s.file)[b]
      /\ \A b \in 1..(n - 1) : OutcomeOf(z.file)[b] = OutcomeOf(s.file)[b]
      /\ LogOf(s.file)[n] = old.records /\ LogOf(z.file)[n] = new.records
      /\ OutcomeOf(s.file)[n] = Outcomes(old.runs) /\ OutcomeOf(z.file)[n] = Outcomes(new.runs)
      /\ Len(Outcomes(old.runs)) = Len(old.runs) /\ Len(Outcomes(new.runs)) = Len(new.runs)
  <2> DEFINE Holds(file) ==
                /\ Len(LogOf(file)) = Len(file) /\ Len(OutcomeOf(file)) = Len(file)
                /\ \A b \in DOMAIN file : /\ LogOf(file)[b] = file[b].records
                                          /\ OutcomeOf(file)[b] = Outcomes(file[b].runs)
                                          /\ Len(Outcomes(file[b].runs)) = Len(file[b].runs)
  <2>1. ASSUME NEW file, IsFile(file) PROVE Holds(file)
    BY <2>1, LogLaws
  <2>2. Holds(s.file) /\ Holds(z.file)
    <3> HIDE DEF Holds
    <3> QED
      BY <1>1, <2>1
  <2>3. \A b \in 1..(n - 1) : b \in DOMAIN s.file /\ b \in DOMAIN z.file
    BY <1>1
  <2>4. n \in DOMAIN s.file /\ n \in DOMAIN z.file
    BY <1>1
  <2> HIDE DEF n, old, new
  <2>5. \A b \in 1..(n - 1) : LogOf(z.file)[b] = LogOf(s.file)[b]
    BY <1>1, <2>2, <2>3
  <2>6. \A b \in 1..(n - 1) : OutcomeOf(z.file)[b] = OutcomeOf(s.file)[b]
    BY <1>1, <2>2, <2>3
  <2> QED
    BY <1>1, <2>2, <2>4, <2>5, <2>6 DEF n
<1> HIDE DEF n, old, new
<1>3. /\ Front(LogOf(z.file)) = Front(LogOf(s.file))
      /\ Front(OutcomeOf(z.file)) = Front(OutcomeOf(s.file))
  <2>1. n - 1 \in Int
    BY <1>1
  <2>2. SubSeq(LogOf(z.file), 1, n - 1) = SubSeq(LogOf(s.file), 1, n - 1)
    BY <1>2, <2>1, SameSubSeq
  <2>3. SubSeq(OutcomeOf(z.file), 1, n - 1) = SubSeq(OutcomeOf(s.file), 1, n - 1)
    BY <1>2, <2>1, SameSubSeq
  <2> QED
    BY <1>2, <2>2, <2>3 DEF Front
<1>4. IsPrefix(Last(LogOf(s.file)), Last(LogOf(z.file)))
  <2>1. /\ Len(old.records) <= Len(new.records)
        /\ \A i \in 1..Len(old.records) : old.records[i] = new.records[i]
    BY DEF Transacted, old, new
  <2>2. Len(old.records) \in Int
    BY StoreBasics DEF old
  <2>3. SubSeq(old.records, 1, Len(old.records)) = SubSeq(new.records, 1, Len(old.records))
    BY <2>1, <2>2, SameSubSeq
  <2> QED
    BY <1>2, <2>1, <2>3 DEF Last, IsPrefix
<1>5. Archive!Decided(Last(OutcomeOf(s.file)), Last(OutcomeOf(z.file)))
  <2> DEFINE before == Outcomes(old.runs)
             after == Outcomes(new.runs)
  <2>1. /\ DOMAIN before = DOMAIN old.runs /\ DOMAIN after = DOMAIN new.runs
        /\ \A r \in DOMAIN old.runs : before[r] = old.runs[r].state
        /\ \A r \in DOMAIN new.runs : after[r] = new.runs[r].state
    BY DEF Outcomes
  <2>2. /\ DOMAIN old.runs \subseteq DOMAIN new.runs
        /\ \A r \in DOMAIN old.runs : old.runs[r].state # "recording" =>
              new.runs[r].state = old.runs[r].state
    BY DEF Transacted, old, new
  <2>3. \A r \in DOMAIN new.runs : new.runs[r].state \in {"recording", "sealed", "failed"}
    BY DEF RunsHonest, new
  <2>4. Len(old.runs) <= Len(new.runs)
    <3>1. /\ Len(old.runs) \in Nat /\ DOMAIN old.runs = 1..Len(old.runs)
          /\ Len(new.runs) \in Nat /\ DOMAIN new.runs = 1..Len(new.runs)
      BY StoreBasics DEF old, new
    <3> QED
      BY <2>2, <3>1
  <2>5. Last(OutcomeOf(s.file)) = before /\ Last(OutcomeOf(z.file)) = after
    BY <1>2 DEF Last
  <2>6. Len(before) = Len(old.runs) /\ Len(after) = Len(new.runs)
    BY <1>2
  <2> HIDE DEF before, after
  <2>7. Archive!Decided(before, after)
    BY <2>1, <2>2, <2>3, <2>4, <2>6 DEF Archive!Decided
  <2> QED
    BY <2>5, <2>7
<1> QED
  BY <1>2, <1>3, <1>4, <1>5

\* Sequences with the same elements are the same.
LEMMA SameSequence ==
    ASSUME NEW s, NEW t, IsSequence(s), IsSequence(t), Len(s) = Len(t),
           \A i \in 1..Len(s) : s[i] = t[i]
    PROVE  s = t
<1>1. PICK S : s \in Seq(S)
  BY DEF IsSequence
<1>2. PICK T : t \in Seq(T)
  BY DEF IsSequence
<1>3. s = [i \in 1..Len(s) |-> s[i]] /\ t = [i \in 1..Len(t) |-> t[i]]
  BY <1>1, <1>2
<1>4. [i \in 1..Len(s) |-> s[i]] = [i \in 1..Len(s) |-> t[i]]
  OBVIOUS
<1> QED
  BY <1>3, <1>4

\* ... and the next process reopens it.
Interrupts(outcome) ==
    [r \in DOMAIN outcome |->
        IF outcome[r] = "recording" THEN "interrupted" ELSE outcome[r]]

LEMMA ReopenLaws ==
    ASSUME NEW file, IsFile(file), Decidedly(file)
    PROVE  LET z == Connection(OpenBoot(file))
           IN  /\ LogOf(z.file) = Append(LogOf(file), <<>>)
               /\ OutcomeOf(z.file) =
                     Append([b \in DOMAIN OutcomeOf(file) |-> Interrupts(OutcomeOf(file)[b])], <<>>)
<1> DEFINE z == Connection(OpenBoot(file))
           n == Len(file)
           Empty == <<>>
           past == [b \in DOMAIN OutcomeOf(file) |-> Interrupts(OutcomeOf(file)[b])]
<1>1. /\ IsStore(z) /\ CurrentBoot(z) = NewBoot
      /\ Len(z.file) = n + 1 /\ DOMAIN z.file = 1..(n + 1)
      /\ \A b \in DOMAIN file : z.file[b] = Interrupted(file[b])
  BY OpenedHonest
<1>2. /\ n \in Nat /\ DOMAIN file = 1..n
      /\ \A b \in DOMAIN file : IsBoot(file[b])
      /\ IsFile(z.file)
  BY <1>1, SequenceLaws DEF IsFile, IsStore
<1> HIDE DEF z, n
<1>3. z.file[n + 1] = NewBoot
  BY <1>1, <1>2 DEF CurrentBoot
<1>4. NewBoot.records = Empty /\ NewBoot.runs = Empty /\ DOMAIN Empty = {} /\ IsSequence(Empty)
  BY SmallSequences DEF NewBoot, Boot
<1>5. Outcomes(Empty) = Empty
  BY <1>4 DEF Outcomes
<1> HIDE DEF Empty
<1>6. /\ IsSequence(LogOf(file)) /\ Len(LogOf(file)) = n
      /\ IsSequence(OutcomeOf(file)) /\ Len(OutcomeOf(file)) = n
      /\ \A b \in 1..n : /\ LogOf(file)[b] = file[b].records
                         /\ OutcomeOf(file)[b] = Outcomes(file[b].runs)
  BY <1>2, LogLaws DEF n
<1>7. /\ IsSequence(LogOf(z.file)) /\ Len(LogOf(z.file)) = n + 1
      /\ IsSequence(OutcomeOf(z.file)) /\ Len(OutcomeOf(z.file)) = n + 1
      /\ \A b \in 1..(n + 1) : /\ LogOf(z.file)[b] = z.file[b].records
                               /\ OutcomeOf(z.file)[b] = Outcomes(z.file[b].runs)
  BY <1>1, <1>2, LogLaws
<1>8. ASSUME NEW b \in 1..n
      PROVE  /\ z.file[b].records = file[b].records
             /\ Outcomes(z.file[b].runs) = Interrupts(Outcomes(file[b].runs))
  <2> DEFINE boot == file[b]
             y == Interrupted(boot)
  <2>1. /\ IsBoot(boot)
        /\ \A r \in DOMAIN boot.runs :
              \/ boot.runs[r].state = "recording"
              \/ boot.runs[r].coverage = "complete" <=> boot.runs[r].state = "sealed"
    BY <1>2 DEF Decidedly
  <2>2. z.file[b] = y
    BY <1>1, <1>2
  <2> HIDE DEF boot
  <2>3. /\ y.records = boot.records /\ DOMAIN y.runs = DOMAIN boot.runs
        /\ \A r \in DOMAIN y.runs :
              y.runs[r].state = IF boot.runs[r].state = "recording" THEN "interrupted"
                                ELSE boot.runs[r].state
    BY <2>1, InterruptedBoots
  <2> HIDE DEF y
  <2>4. Outcomes(y.runs) = Interrupts(Outcomes(boot.runs))
    BY <2>3 DEF Outcomes, Interrupts
  <2> QED
    BY <2>2, <2>3, <2>4 DEF boot
<1>9. /\ IsSequence(past) /\ Len(past) = n
      /\ \A b \in 1..n : past[b] = Interrupts(OutcomeOf(file)[b])
  <2> DEFINE q == OutcomeOf(file)
             f == [b \in DOMAIN q |-> Interrupts(q[b])]
  <2>1. f = [b \in DOMAIN q |-> f[b]] /\ f = past
    OBVIOUS
  <2>2. IsSequence(q) /\ Len(q) = n
    BY <1>6
  <2> HIDE DEF f, q
  <2>3. /\ IsSequence([b \in DOMAIN q |-> f[b]])
        /\ Len([b \in DOMAIN q |-> f[b]]) = n
        /\ DOMAIN q = 1..n
    BY <2>2, SequenceLaws
  <2>4. IsSequence(f) /\ Len(f) = n
    BY <2>1, <2>3
  <2> QED
    BY <2>1, <2>3, <2>4 DEF f, q
<1> HIDE DEF past
<1>10. ASSUME NEW q, IsSequence(q), Len(q) = n
       PROVE  /\ IsSequence(Append(q, Empty)) /\ Len(Append(q, Empty)) = n + 1
              /\ Append(q, Empty)[n + 1] = Empty
              /\ \A b \in 1..n : Append(q, Empty)[b] = q[b]
  BY <1>10, SequenceLaws, SequenceSet
<1>11. LogOf(z.file) = Append(LogOf(file), Empty)
  <2> DEFINE s == LogOf(z.file)
             q == LogOf(file)
             t == Append(q, Empty)
  <2>1. IsSequence(t) /\ Len(t) = n + 1 /\ t[n + 1] = Empty /\ \A b \in 1..n : t[b] = q[b]
    BY <1>6, <1>10
  <2>2. IsSequence(s) /\ Len(s) = n + 1
    BY <1>7
  <2>3. \A b \in 1..n : b \in 1..(n + 1) /\ s[b] = q[b]
    BY <1>2, <1>6, <1>7, <1>8
  <2>4. s[n + 1] = Empty
    BY <1>2, <1>3, <1>4, <1>7
  <2> HIDE DEF s, q, t
  <2>5. \A b \in 1..Len(s) : s[b] = t[b]
    BY <1>2, <2>1, <2>2, <2>3, <2>4
  <2>6. s = t
    BY <2>1, <2>2, <2>5, SameSequence
  <2> QED
    BY <2>6 DEF s, q, t
<1>12. OutcomeOf(z.file) = Append(past, Empty)
  <2> DEFINE s == OutcomeOf(z.file)
             t == Append(past, Empty)
  <2>1. IsSequence(t) /\ Len(t) = n + 1 /\ t[n + 1] = Empty /\ \A b \in 1..n : t[b] = past[b]
    BY <1>9, <1>10
  <2>2. IsSequence(s) /\ Len(s) = n + 1
    BY <1>7
  <2>3. \A b \in 1..n : b \in 1..(n + 1) /\ s[b] = past[b]
    BY <1>2, <1>6, <1>7, <1>8, <1>9
  <2>4. s[n + 1] = Empty
    BY <1>2, <1>3, <1>4, <1>5, <1>7
  <2> HIDE DEF s, t
  <2>5. \A b \in 1..Len(s) : s[b] = t[b]
    BY <1>2, <2>1, <2>2, <2>3, <2>4
  <2>6. s = t
    BY <2>1, <2>2, <2>5, SameSequence
  <2> QED
    BY <2>6 DEF s, t
<1> QED
  BY <1>11, <1>12 DEF z, past, Empty

LEMMA InitialLog == Init => Archive!LogInit
<1> SUFFICES ASSUME Init PROVE Archive!LogInit
  OBVIOUS
<1> DEFINE Empty == <<>>
           past == [b \in DOMAIN OutcomeOf(Empty) |-> Interrupts(OutcomeOf(Empty)[b])]
<1>1. IsSequence(Empty) /\ DOMAIN Empty = {}
  BY SmallSequences
<1>2. LogOf(Empty) = Empty /\ OutcomeOf(Empty) = Empty
  BY <1>1 DEF LogOf, OutcomeOf
<1>3. past = Empty
  BY <1>1, <1>2
<1>4. Append(Empty, Empty) = <<Empty>>
  OBVIOUS
<1>5. store = Connection(OpenBoot(Empty)) /\ w = RequestActivation(InitWorld).w
  BY DEF Init
<1> HIDE DEF Empty
<1>6. IsFile(Empty) /\ Decidedly(Empty)
  BY <1>1 DEF IsFile, Decidedly
<1> HIDE DEF past
<1>7. LogOf(store.file) = <<Empty>> /\ OutcomeOf(store.file) = <<Empty>>
  <2>1. LogOf(store.file) = Append(LogOf(Empty), <<>>) /\ OutcomeOf(store.file) = Append(past, <<>>)
    BY <1>5, <1>6, ReopenLaws DEF past
  <2> QED
    BY <1>2, <1>3, <1>4, <2>1 DEF Empty
<1>8. w.own.persisted = 0
  BY <1>5, NewProcess
<1> QED
  BY <1>7, <1>8 DEF Archive!LogInit, LogOf, OutcomeOf, Outcomes, Empty

\* What the owner lane confirms is a prefix of the log.
LEMMA LaneAcknowledges ==
    ASSUME Durable, LaneStep
    PROVE  Archive!Acknowledge \/ UNCHANGED Archive!logVars
<1> DEFINE known == w.own.persisted
           old == w.receipt.persisted
           new == w'.own.persisted
           length == Len(CurrentBoot(store).records)
<1>1. store' = store /\ new \in {known, old}
  BY LaneTold
<1>2. known \in Nat /\ old \in Nat /\ known <= old /\ old <= length
  BY DEF Durable, ConfirmedInOrder
<1>3. length \in Nat /\ Last(LogOf(store.file)) = CurrentBoot(store).records
  BY StoreBasics, LogLaws DEF Durable, WellShaped, IsStore, Last
<1>4. new = known \/ (known < new /\ new <= length)
  <2> HIDE DEF known, old, new, length
  <2> QED
    BY <1>1, <1>2, <1>3
<1>5. CASE new = known
  BY <1>1, <1>5 DEF Archive!logVars
<1>6. CASE known < new /\ new <= length
  BY <1>1, <1>3, <1>6 DEF Archive!Acknowledge, Archive!Last, Last, LogOf
<1> QED
  BY <1>4, <1>5, <1>6

\* What the thread commits is a write of the log.
LEMMA ThreadWrites ==
    ASSUME Durable, Durable', ThreadStepped
    PROVE  Archive!Write \/ UNCHANGED Archive!logVars
<1>1. CASE store' = store /\ w'.own = w.own
  BY <1>1 DEF Archive!logVars
<1>2. CASE w' = w /\ Transacted(store, store')
  <2>1. IsStore(store) /\ IsStore(store') /\ RunsHonest(store')
    BY DEF Durable, WellShaped
  <2>2. /\ Front(LogOf(store'.file)) = Front(LogOf(store.file))
        /\ Len(LogOf(store'.file)) = Len(LogOf(store.file))
        /\ IsPrefix(Last(LogOf(store.file)), Last(LogOf(store'.file)))
        /\ Front(OutcomeOf(store'.file)) = Front(OutcomeOf(store.file))
        /\ Len(OutcomeOf(store'.file)) = Len(OutcomeOf(store.file))
        /\ Archive!Decided(Last(OutcomeOf(store.file)), Last(OutcomeOf(store'.file)))
    BY <1>2, <2>1, WriteLaws
  <2> QED
    BY <1>2, <2>2, Zenon DEF Archive!Write, Archive!Front, Archive!Last, Archive!IsPrefix,
                              Front, Last, IsPrefix, LogOf, OutcomeOf, Outcomes
<1> QED
  BY <1>1, <1>2 DEF ThreadStepped

LEMMA RebootReopens ==
    ASSUME Durable, Reboot
    PROVE  Archive!Reopen
<1>1. store' = Connection(OpenBoot(store.file)) /\ w'.own.persisted = 0
  BY RebootTracked DEF Reboot
<1>2. IsFile(store.file) /\ Decidedly(store.file)
  BY HonestIsDecided DEF Durable, WellShaped, IsStore
<1>3. /\ LogOf(store'.file) = Append(LogOf(store.file), <<>>)
      /\ OutcomeOf(store'.file) =
            Append([b \in DOMAIN OutcomeOf(store.file) |-> Interrupts(OutcomeOf(store.file)[b])],
                   <<>>)
  BY <1>1, <1>2, ReopenLaws
<1> QED
  BY <1>1, <1>3, Zenon DEF Archive!Reopen, LogOf, OutcomeOf, Outcomes, Interrupts

\* The archive with the confirmed identity of the owner is a durable log: a commit
\* only appends and decides runs once, a receipt confirms no more than a crash
\* leaves, and a new process finds every record of the last one (worker.rs
\* RecordingStatus, open.rs recovery).
THEOREM RecorderImplementsDurableLog == Spec => ImplementsDurableLog
<1>1. Init => Archive!LogInit
  BY InitialLog
<1>2. Tracked /\ Tracked' /\ [Next]_vars => [Archive!LogNext]_(Archive!logVars)
  <2> SUFFICES ASSUME Tracked, Tracked', [Next]_vars
               PROVE  Archive!LogNext \/ UNCHANGED Archive!logVars
    OBVIOUS
  <2> USE DEF Tracked
  <2>1. CASE LaneStep
    BY <2>1, LaneAcknowledges DEF Archive!LogNext
  <2>2. CASE ThreadStepped
    BY <2>2, ThreadWrites DEF Archive!LogNext
  <2>3. CASE Reboot
    BY <2>3, RebootReopens DEF Archive!LogNext
  <2>4. CASE UNCHANGED vars
    <3>1. store' = store /\ w' = w
      BY <2>4 DEF vars
    <3> QED
      BY <3>1 DEF Archive!logVars
  <2> QED
    BY <2>1, <2>2, <2>3, <2>4, StepKinds
<1> QED
  BY <1>1, <1>2, AlwaysTracked, PTL DEF Spec, ImplementsDurableLog, Archive!LogSpec

=============================================================================
