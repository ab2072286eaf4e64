------------------------- MODULE SessionStoreProofs -------------------------
(***************************************************************************)
(* SessionStore keeps Inv for every value of the constants, and with it    *)
(* the properties about identities, pending records, scopes, outcomes and  *)
(* the provisioning credit.                                                *)
(*                                                                         *)
(* Expiry, the bound of a scope and the eviction from the whole store all  *)
(* only trim the store: they take away ended records and idle scopes.      *)
(* What a trim preserves is shown once.                                    *)
(***************************************************************************)
EXTENDS SessionStore, FiniteSetTheorems, WellFoundedInduction, TLAPS

\* The store `tt` is `ss` without some ended records and idle scopes.
Trimmed(ss, tt) ==
    /\ DOMAIN tt \subseteq DOMAIN ss
    /\ \A s \in DOMAIN ss :
          s \notin DOMAIN tt =>
              ss[s].attached = None /\ \A r \in ss[s].records : r.state # None
    /\ \A s \in DOMAIN tt :
          /\ tt[s] \in Scope
          /\ tt[s].attached = ss[s].attached
          /\ tt[s].high_water = ss[s].high_water
          /\ tt[s].records \subseteq ss[s].records
          /\ \A r \in ss[s].records : r.state = None => r \in tt[s].records

\* What the store owes to its clients and to the operations it accepted.
Sane(ss, ns, cl, ex, out) ==
    /\ WellFormed(ss, ns)
    /\ Attached(ss, cl)
    /\ Behind(ss, ns, ex)
    /\ Kept(ss, ex, DOMAIN out)
    /\ Recorded(ss, ex, out)

\* A trim preserves all of it.
LEMMA TrimmedSane ==
    ASSUME NEW ss, NEW tt, NEW ns, NEW cl, NEW ex, NEW out,
           Sane(ss, ns, cl, ex, out), Trimmed(ss, tt)
    PROVE  Sane(tt, ns, cl, ex, out)
<1>1. WellFormed(tt, ns)
  BY DEF Sane, WellFormed, Trimmed
<1>2. Attached(tt, cl)
  <2> SUFFICES ASSUME NEW c \in Connections, cl[c] # None
               PROVE  cl[c] \in DOMAIN tt /\ tt[cl[c]].attached = c
    BY DEF Attached
  <2>1. cl[c] \in DOMAIN ss /\ ss[cl[c]].attached = c
    BY DEF Sane, Attached
  <2>2. c # None
    BY StoreAssumption
  <2> QED
    BY <2>1, <2>2 DEF Trimmed
<1>3. Behind(tt, ns, ex)
  BY DEF Sane, Behind, Trimmed
<1>4. Kept(tt, ex, DOMAIN out)
  BY DEF Sane, Kept, Trimmed
<1>5. Recorded(tt, ex, out)
  BY DEF Sane, Recorded, Trimmed
<1> QED
  BY <1>1, <1>2, <1>3, <1>4, <1>5 DEF Sane

\* A scope with other records is a scope.
LEMMA ScopeRecords ==
    ASSUME NEW scope \in Scope, NEW records \in SUBSET Record
    PROVE  LET new == [scope EXCEPT !.records = records]
           IN  /\ new \in Scope
               /\ new.attached = scope.attached
               /\ new.high_water = scope.high_water
               /\ new.records = records
  BY DEF Scope

\* `expire` only trims.
LEMMA ExpireTrims ==
    ASSUME NEW ss, NEW ns, NEW t, WellFormed(ss, ns)
    PROVE  Trimmed(ss, Expire(ss, t))
<1> DEFINE tt == Expire(ss, t)
<1>1. DOMAIN tt = {s \in DOMAIN ss : Live(ss[s], t)}
  BY DEF Expire
<1>2. ASSUME NEW s \in DOMAIN ss, s \notin DOMAIN tt
      PROVE  ss[s].attached = None /\ \A r \in ss[s].records : r.state # None
  BY <1>1, <1>2 DEF Live, Pending, Terminal
<1>3. ASSUME NEW s \in DOMAIN tt
      PROVE  /\ tt[s] \in Scope
             /\ tt[s].attached = ss[s].attached
             /\ tt[s].high_water = ss[s].high_water
             /\ tt[s].records \subseteq ss[s].records
             /\ \A r \in ss[s].records : r.state = None => r \in tt[s].records
  <2> DEFINE records == {r \in ss[s].records : Fresh(r, t)}
  <2>1. s \in DOMAIN ss /\ ss[s] \in Scope
    BY <1>1, <1>3 DEF WellFormed
  <2>2. tt[s] = [ss[s] EXCEPT !.records = records]
    BY <1>1, <1>3 DEF Expire
  <2>3. records \in SUBSET Record
    BY <2>1 DEF Scope
  <2> HIDE DEF records, tt
  <2>4. /\ tt[s] \in Scope
        /\ tt[s].attached = ss[s].attached
        /\ tt[s].high_water = ss[s].high_water
        /\ tt[s].records = records
    BY <2>1, <2>2, <2>3, ScopeRecords
  <2> QED
    BY <2>4 DEF records, Fresh
<1> QED
  BY <1>1, <1>2, <1>3 DEF Trimmed

\* Enforcing the bound of a scope only trims.
LEMMA NewestTrims ==
    ASSUME NEW ss, NEW ns, WellFormed(ss, ns)
    PROVE  Trimmed(ss, [t \in DOMAIN ss |-> [ss[t] EXCEPT !.records = Newest(@)]])
<1> DEFINE tt == [t \in DOMAIN ss |-> [ss[t] EXCEPT !.records = Newest(@)]]
<1>1. DOMAIN tt = DOMAIN ss
  OBVIOUS
<1>2. ASSUME NEW s \in DOMAIN tt
      PROVE  /\ tt[s] \in Scope
             /\ tt[s].attached = ss[s].attached
             /\ tt[s].high_water = ss[s].high_water
             /\ tt[s].records \subseteq ss[s].records
             /\ \A r \in ss[s].records : r.state = None => r \in tt[s].records
  <2> DEFINE records == Newest(ss[s].records)
  <2>1. s \in DOMAIN ss /\ ss[s] \in Scope
    BY <1>2 DEF WellFormed
  <2>2. tt[s] = [ss[s] EXCEPT !.records = records]
    BY <1>2
  <2>3. records \subseteq ss[s].records
    BY DEF Newest
  <2>4. records \in SUBSET Record
    BY <2>1, <2>3 DEF Scope
  <2>5. \A r \in ss[s].records : r.state = None => r \in records
    BY DEF Newest
  <2> HIDE DEF records, tt
  <2>6. /\ tt[s] \in Scope
        /\ tt[s].attached = ss[s].attached
        /\ tt[s].high_water = ss[s].high_water
        /\ tt[s].records = records
    BY <2>1, <2>2, <2>4, ScopeRecords
  <2> QED
    BY <2>3, <2>5, <2>6
<1> HIDE DEF tt
<1>3. Trimmed(ss, tt)
  BY <1>1, <1>2 DEF Trimmed
<1> QED
  BY <1>3 DEF tt

\* Evicting the oldest outcome only trims.
LEMMA WithoutTrims ==
    ASSUME NEW ss, NEW ns, NEW p \in Oldest(ss), WellFormed(ss, ns)
    PROVE  Trimmed(ss, Without(ss, p))
<1> DEFINE s0 == p[1]
           r0 == p[2]
           tt == Without(ss, p)
<1>1. s0 \in DOMAIN ss /\ r0 \in ss[s0].records /\ r0.state # None
  BY DEF Oldest, AllRecords
<1>2. DOMAIN tt = DOMAIN ss
  BY DEF Without
<1>3. ASSUME NEW s \in DOMAIN ss, s # s0
      PROVE  tt[s] = ss[s]
  BY <1>3 DEF Without
<1>4. tt[s0] = [ss[s0] EXCEPT !.records = ss[s0].records \ {r0}]
  BY <1>1 DEF Without
<1>5. ss[s0] \in Scope /\ ss[s0].records \ {r0} \in SUBSET Record
  BY <1>1 DEF WellFormed, Scope
<1> HIDE DEF s0, r0, tt
<1>6. /\ tt[s0] \in Scope
      /\ tt[s0].attached = ss[s0].attached
      /\ tt[s0].high_water = ss[s0].high_water
      /\ tt[s0].records = ss[s0].records \ {r0}
  BY <1>4, <1>5, ScopeRecords
<1>7. ASSUME NEW s \in DOMAIN tt
      PROVE  /\ tt[s] \in Scope
             /\ tt[s].attached = ss[s].attached
             /\ tt[s].high_water = ss[s].high_water
             /\ tt[s].records \subseteq ss[s].records
             /\ \A r \in ss[s].records : r.state = None => r \in tt[s].records
  <2>1. CASE s = s0
    BY <1>1, <1>6, <2>1
  <2>2. CASE s # s0
    BY <1>2, <1>3, <1>7, <2>2 DEF WellFormed
  <2> QED
    BY <2>1, <2>2
<1>8. Trimmed(ss, tt)
  BY <1>2, <1>7 DEF Trimmed
<1> QED
  BY <1>8 DEF tt

\* The part of Inv that a step must restore.
Accounts ==
    /\ next_scope \in Nat /\ now \in Nat /\ executed \subseteq Identity
    /\ clients \in [Connections -> ScopeId \cup {None}]
    /\ DOMAIN outcome \subseteq executed
    /\ repeated = FALSE

\* Inv, split into the bookkeeping and what the store owes.
LEMMA InvIsSane ==
    Inv <=> Accounts /\ Sane(scopes, next_scope, clients, executed, outcome)
  BY DEF Inv, Accounts, Sane

\* The store after `expire`.
LEMMA ExpiredSane ==
    ASSUME Inv
    PROVE  /\ Sane(Expire(scopes, now), next_scope, clients, executed, outcome)
           /\ Trimmed(scopes, Expire(scopes, now))
<1>1. Sane(scopes, next_scope, clients, executed, outcome)
  BY InvIsSane
<1>2. Trimmed(scopes, Expire(scopes, now))
  BY <1>1, ExpireTrims DEF Sane
<1> QED
  BY <1>1, <1>2, TrimmedSane

-----------------------------------------------------------------------------
(* One lemma for each action.                                              *)

\* A new scope has an id no identity was ever given under.
LEMMA OpenNewInv ==
    ASSUME Inv, NEW c \in Connections, OpenNew(c)
    PROVE  Inv'
<1> DEFINE ss == Expire(scopes, now)
           new == [attached |-> c, high_water |-> 0, last_active |-> now, records |-> {}]
           tt == [s \in DOMAIN ss \cup {next_scope} |-> IF s = next_scope THEN new ELSE ss[s]]
<1>1. Sane(ss, next_scope, clients, executed, outcome)
  BY ExpiredSane
<1>2. Accounts
  BY InvIsSane
<1>3. CASE Cardinality(DOMAIN ss) < MaxScopes /\ next_scope \in ScopeId
  <2>1. /\ scopes' = tt
        /\ next_scope' = next_scope + 1
        /\ clients' = [clients EXCEPT ![c] = next_scope]
        /\ UNCHANGED <<now, executed, outcome, repeated>>
        /\ clients[c] = None
    BY <1>3 DEF OpenNew, Settle, Greet
  <2>2. new \in Scope /\ new.attached = c /\ new.records = {} /\ new.high_water = 0
    BY <1>2, StoreAssumption DEF Scope, Accounts
  <2>3. next_scope \notin DOMAIN ss
    BY <1>1, <1>2 DEF Sane, WellFormed, ScopeId, Accounts
  <2>4. /\ DOMAIN tt = DOMAIN ss \cup {next_scope}
        /\ tt[next_scope] = new
        /\ \A s \in DOMAIN ss : tt[s] = ss[s]
    BY <2>3
  <2> HIDE DEF ss, new, tt
  <2>5. WellFormed(tt, next_scope + 1)
    BY <1>1, <1>2, <1>3, <2>2, <2>4 DEF Sane, WellFormed, Accounts, ScopeId
  <2>6. Attached(tt, clients')
    BY <1>1, <1>2, <2>1, <2>2, <2>3, <2>4 DEF Sane, Attached, Accounts
  <2>7. Behind(tt, next_scope + 1, executed)
    BY <1>1, <1>2, <2>3, <2>4 DEF Sane, Behind, Accounts, Identity, ScopeId
  <2>8. Kept(tt, executed, DOMAIN outcome)
    BY <1>1, <2>4 DEF Sane, Kept
  <2>9. Recorded(tt, executed, outcome)
    BY <1>1, <2>2, <2>4 DEF Sane, Recorded
  <2>10. clients' \in [Connections -> ScopeId \cup {None}]
    BY <1>2, <1>3, <2>1 DEF Accounts
  <2> QED
    BY <1>2, <2>1, <2>5, <2>6, <2>7, <2>8, <2>9, <2>10 DEF Inv, Accounts
<1>4. CASE ~(Cardinality(DOMAIN ss) < MaxScopes /\ next_scope \in ScopeId)
  <2>1. /\ scopes' = ss
        /\ UNCHANGED <<next_scope, clients, now, executed, outcome, repeated>>
    BY <1>4 DEF OpenNew, Settle
  <2> QED
    BY <1>1, <1>2, <2>1 DEF Inv, Accounts, Sane
<1> QED
  BY <1>3, <1>4

\* Only a scope that nobody uses, or the connection itself, is taken over.
LEMMA ResumeInv ==
    ASSUME Inv, NEW s0 \in ScopeId, NEW c \in Connections, Resume(s0, c)
    PROVE  Inv'
<1> DEFINE ss == Expire(scopes, now)
           tt == [ss EXCEPT ![s0].attached = c, ![s0].last_active = now]
<1>1. Sane(ss, next_scope, clients, executed, outcome)
  BY ExpiredSane
<1>2. Accounts
  BY InvIsSane
<1>3. CASE ResumeOk(ss, s0, c)
  <2>1. /\ scopes' = tt
        /\ clients' = [clients EXCEPT ![c] = s0] \/ clients' = clients
        /\ UNCHANGED <<next_scope, now, executed, outcome, repeated>>
        /\ clients[c] = None
    BY <1>3 DEF Resume, Settle, Greet
  <2>2. s0 \in DOMAIN ss /\ ss[s0] \in Scope /\ (ss[s0].attached = None \/ ss[s0].attached = c)
    BY <1>1, <1>3 DEF ResumeOk, Sane, WellFormed
  <2>3. /\ DOMAIN tt = DOMAIN ss
        /\ tt[s0] = [ss[s0] EXCEPT !.attached = c, !.last_active = now]
        /\ \A s \in DOMAIN ss : s # s0 => tt[s] = ss[s]
    BY <2>2
  <2> HIDE DEF ss, tt
  <2>4. /\ tt[s0] \in Scope
        /\ tt[s0].attached = c
        /\ tt[s0].high_water = ss[s0].high_water
        /\ tt[s0].records = ss[s0].records
    BY <1>2, <2>2, <2>3 DEF Scope, Accounts
  <2>5. WellFormed(tt, next_scope)
    BY <1>1, <2>3, <2>4 DEF Sane, WellFormed
  <2>6. Attached(tt, clients')
    <3> SUFFICES ASSUME NEW d \in Connections, clients'[d] # None
                 PROVE  clients'[d] \in DOMAIN tt /\ tt[clients'[d]].attached = d
      BY DEF Attached
    <3>1. CASE d = c
      BY <1>2, <2>1, <2>2, <2>3, <2>4, <3>1 DEF Accounts
    <3>2. CASE d # c
      <4>1. clients'[d] = clients[d]
        BY <1>2, <2>1, <3>2 DEF Accounts
      <4>2. clients[d] \in DOMAIN ss /\ ss[clients[d]].attached = d
        BY <1>1, <4>1 DEF Sane, Attached
      <4>3. d # None
        BY StoreAssumption
      <4> QED
        BY <2>2, <2>3, <3>2, <4>1, <4>2, <4>3
    <3> QED
      BY <3>1, <3>2
  <2>7. Behind(tt, next_scope, executed)
    BY <1>1, <2>3, <2>4 DEF Sane, Behind
  <2>8. Kept(tt, executed, DOMAIN outcome)
    BY <1>1, <2>3, <2>4 DEF Sane, Kept
  <2>9. Recorded(tt, executed, outcome)
    <3>1. \A s \in DOMAIN tt : s \in DOMAIN ss /\ tt[s].records = ss[s].records
      BY <2>3, <2>4
    <3> QED
      BY <1>1, <3>1 DEF Sane, Recorded
  <2>10. clients' \in [Connections -> ScopeId \cup {None}]
    BY <1>2, <2>1 DEF Accounts
  <2> QED
    BY <1>2, <2>1, <2>5, <2>6, <2>7, <2>8, <2>9, <2>10 DEF Inv, Accounts
<1>4. CASE ~ResumeOk(ss, s0, c)
  <2>1. /\ scopes' = ss
        /\ UNCHANGED <<next_scope, clients, now, executed, outcome, repeated>>
    BY <1>4 DEF Resume, Settle
  <2> QED
    BY <1>1, <1>2, <2>1 DEF Inv, Accounts, Sane
<1> QED
  BY <1>3, <1>4

\* A connection gives up its own scopes only.
LEMMA DetachInv ==
    ASSUME Inv, NEW c \in Connections, Detach(c)
    PROVE  Inv'
<1> DEFINE tt == [s \in DOMAIN scopes |->
                     IF scopes[s].attached = c
                     THEN [scopes[s] EXCEPT !.attached = None, !.last_active = now]
                     ELSE scopes[s]]
<1>1. /\ Sane(scopes, next_scope, clients, executed, outcome)
      /\ Accounts
  BY InvIsSane
<1>2. /\ scopes' = tt
      /\ clients' = [clients EXCEPT ![c] = None]
      /\ UNCHANGED <<next_scope, now, executed, outcome, repeated>>
  BY DEF Detach, Greet
<1>3. DOMAIN tt = DOMAIN scopes
  OBVIOUS
<1>4. ASSUME NEW s \in DOMAIN scopes
      PROVE  /\ tt[s] \in Scope
             /\ scopes[s].attached # c => tt[s].attached = scopes[s].attached
             /\ tt[s].high_water = scopes[s].high_water
             /\ tt[s].records = scopes[s].records
  <2>1. scopes[s] \in Scope
    BY <1>1 DEF Sane, WellFormed
  <2>2. tt[s] = IF scopes[s].attached = c
                THEN [scopes[s] EXCEPT !.attached = None, !.last_active = now]
                ELSE scopes[s]
    OBVIOUS
  <2> HIDE DEF tt
  <2> QED
    BY <1>1, <2>1, <2>2 DEF Scope, Accounts
<1> HIDE DEF tt
<1>5. WellFormed(tt, next_scope)
  BY <1>1, <1>3, <1>4 DEF Sane, WellFormed
<1>6. Attached(tt, clients')
  BY <1>1, <1>2, <1>3, <1>4 DEF Sane, Attached, Accounts
<1>7. Behind(tt, next_scope, executed)
  BY <1>1, <1>3, <1>4 DEF Sane, Behind
<1>8. Kept(tt, executed, DOMAIN outcome)
  BY <1>1, <1>3, <1>4 DEF Sane, Kept
<1>9. Recorded(tt, executed, outcome)
  BY <1>1, <1>3, <1>4 DEF Sane, Recorded
<1>10. clients' \in [Connections -> ScopeId \cup {None}]
  BY <1>1, <1>2 DEF Accounts
<1> QED
  BY <1>1, <1>2, <1>5, <1>6, <1>7, <1>8, <1>9, <1>10 DEF Inv, Accounts

\* The identity accepted is the next of its scope, so it was not accepted before.
LEMMA AdmitInv ==
    ASSUME Inv, NEW c \in Connections, NEW seq \in Seq64, NEW payload \in Payloads,
           NEW gate \in BOOLEAN, Admit(c, seq, payload, gate)
    PROVE  Inv'
<1> DEFINE ss == Expire(scopes, now)
           s0 == clients[c]
           record == [seq |-> seq, payload |-> payload, state |-> None, terminal_at |-> 0]
           tt == [ss EXCEPT ![s0].high_water = seq, ![s0].last_active = now,
                            ![s0].records = @ \cup {record}]
           accepted == /\ s0 \in DOMAIN ss
                       /\ NewIdentity(ss[s0], seq)
                       /\ Capacity(ss, s0, payload)
                       /\ gate
<1>1. Sane(ss, next_scope, clients, executed, outcome)
  BY ExpiredSane
<1>2. Accounts
  BY InvIsSane
<1>3. CASE accepted
  <2>1. /\ scopes' = tt
        /\ executed' = executed \cup {<<s0, seq>>}
        /\ repeated' = (repeated \/ <<s0, seq>> \in executed)
        /\ UNCHANGED <<next_scope, clients, now, outcome>>
    BY <1>3 DEF Admit
  <2>2. s0 \in DOMAIN ss /\ ss[s0] \in Scope /\ s0 \in ScopeId
    BY <1>1, <1>3 DEF Sane, WellFormed
  <2>3. seq = ss[s0].high_water + 1 /\ ss[s0].high_water \in Nat /\ seq \in Nat
    BY <1>3, <2>2, StoreAssumption DEF NewIdentity, Scope, Seq64
  <2>4. record \in Record /\ record.seq = seq /\ record.state = None
    BY DEF Record
  <2>5. /\ DOMAIN tt = DOMAIN ss
        /\ tt[s0] = [ss[s0] EXCEPT !.high_water = seq, !.last_active = now,
                                   !.records = ss[s0].records \cup {record}]
        /\ \A s \in DOMAIN ss : s # s0 => tt[s] = ss[s]
    BY <2>2
  <2> HIDE DEF ss, tt, record, accepted, s0
  <2>6. /\ tt[s0] \in Scope
        /\ tt[s0].attached = ss[s0].attached
        /\ tt[s0].high_water = seq
        /\ tt[s0].records = ss[s0].records \cup {record}
    <3>1. seq \in 0..MaxSeq /\ now \in Nat
      BY <1>2, StoreAssumption DEF Accounts, Seq64
    <3>2. ss[s0].records \cup {record} \in SUBSET Record
      BY <2>2, <2>4 DEF Scope
    <3> QED
      BY <2>2, <2>5, <3>1, <3>2 DEF Scope
  <2>7. \A r \in ss[s0].records : r.seq \in Nat /\ r.seq <= ss[s0].high_water
    BY <1>1, <2>2, StoreAssumption DEF Sane, WellFormed, Scope, Record, Seq64
  <2>8. <<s0, seq>> \notin executed
    BY <1>1, <2>2, <2>3 DEF Sane, Behind
  <2>9. WellFormed(tt, next_scope)
    <3> SUFFICES ASSUME NEW s \in DOMAIN tt
                 PROVE  /\ tt[s] \in Scope
                        /\ s < next_scope
                        /\ \A r \in tt[s].records : r.seq <= tt[s].high_water
                        /\ \A r, t \in tt[s].records : r.seq = t.seq => r = t
      BY <1>1, <2>5 DEF Sane, WellFormed
    <3>1. CASE s = s0
      <4>1. \A r \in tt[s].records : r.seq <= tt[s].high_water
        BY <2>3, <2>4, <2>6, <2>7, <3>1
      <4>2. \A r \in ss[s0].records : r.seq # record.seq
        BY <2>3, <2>4, <2>7
      <4>3. \A r, t \in ss[s0].records : r.seq = t.seq => r = t
        BY <1>1, <2>2 DEF Sane, WellFormed
      <4>4. \A r, t \in tt[s].records : r.seq = t.seq => r = t
        BY <2>6, <3>1, <4>2, <4>3
      <4> QED
        BY <1>1, <2>2, <2>6, <3>1, <4>1, <4>4 DEF Sane, WellFormed
    <3>2. CASE s # s0
      BY <1>1, <2>5, <3>2 DEF Sane, WellFormed
    <3> QED
      BY <3>1, <3>2
  <2>10. Attached(tt, clients)
    BY <1>1, <2>5, <2>6 DEF Sane, Attached
  <2>11. Behind(tt, next_scope, executed')
    <3> SUFFICES ASSUME NEW id \in executed'
                 PROVE  /\ id[1] < next_scope
                        /\ id[1] \in DOMAIN tt => id[2] <= tt[id[1]].high_water
      BY DEF Behind
    <3>1. CASE id \in executed
      <4>1. id[2] \in Nat
        BY <1>2, <3>1, StoreAssumption DEF Accounts, Identity, Seq64
      <4>2. id[1] < next_scope /\ (id[1] \in DOMAIN ss => id[2] <= ss[id[1]].high_water)
        BY <1>1, <3>1 DEF Sane, Behind
      <4>3. CASE id[1] = s0
        BY <2>2, <2>3, <2>6, <4>1, <4>2, <4>3
      <4>4. CASE id[1] # s0
        BY <2>5, <4>2, <4>4
      <4> QED
        BY <4>3, <4>4
    <3>2. CASE id = <<s0, seq>>
      BY <1>1, <2>2, <2>3, <2>6, <3>2 DEF Sane, WellFormed
    <3> QED
      BY <2>1, <3>1, <3>2
  <2>12. Kept(tt, executed', DOMAIN outcome)
    <3> SUFFICES ASSUME NEW id \in executed', id \notin DOMAIN outcome
                 PROVE  /\ id[1] \in DOMAIN tt
                        /\ \E r \in tt[id[1]].records : r.state = None /\ r.seq = id[2]
      BY DEF Kept
    <3>1. CASE id \in executed
      <4>1. /\ id[1] \in DOMAIN ss
            /\ \E r \in ss[id[1]].records : r.state = None /\ r.seq = id[2]
        BY <1>1, <3>1 DEF Sane, Kept
      <4>2. ss[id[1]].records \subseteq tt[id[1]].records
        BY <2>5, <2>6, <4>1
      <4> QED
        BY <2>5, <4>1, <4>2
    <3>2. CASE id = <<s0, seq>>
      BY <2>2, <2>4, <2>5, <2>6, <3>2
    <3> QED
      BY <2>1, <3>1, <3>2
  <2>13. Recorded(tt, executed', outcome)
    <3>1. <<s0, seq>> \notin DOMAIN outcome
      BY <1>2, <2>8 DEF Accounts
    <3>2. ASSUME NEW s \in DOMAIN tt, NEW r \in tt[s].records
          PROVE  (s \in DOMAIN ss /\ r \in ss[s].records) \/ (s = s0 /\ r = record)
      BY <2>5, <2>6, <3>2
    <3> QED
      BY <1>1, <2>1, <2>4, <3>1, <3>2 DEF Sane, Recorded
  <2>14. executed' \subseteq Identity
    BY <1>2, <2>1, <2>2 DEF Accounts, Identity
  <2>15. repeated' = FALSE
    BY <1>2, <2>1, <2>8 DEF Accounts
  <2> QED
    BY <1>2, <2>1, <2>9, <2>10, <2>11, <2>12, <2>13, <2>14, <2>15 DEF Inv, Accounts
<1>4. CASE ~accepted
  <2>1. /\ scopes' = ss
        /\ UNCHANGED <<next_scope, clients, now, executed, outcome, repeated>>
    BY <1>4 DEF Admit, Settle
  <2> QED
    BY <1>1, <1>2, <2>1 DEF Inv, Accounts, Sane
<1> QED
  BY <1>3, <1>4

\* The record that ends is the pending one, and it had no outcome.
LEMMA CompleteInv ==
    ASSUME Inv, NEW s0 \in ScopeId, NEW seq \in Seq64, NEW o \in Outcomes,
           Complete(s0, seq, o)
    PROVE  Inv'
<1>1. PICK r0 \in Completable(s0, seq) :
        LET ss == Stored(s0, r0, o)
        IN  /\ IF CountTerminal(ss) > MaxTerminal
               THEN \E p \in Oldest(ss) : Settle(Without(ss, p))
               ELSE Settle(ss)
            /\ outcome' = IF <<s0, seq>> \in DOMAIN outcome THEN outcome
                          ELSE [id \in DOMAIN outcome \cup {<<s0, seq>>} |->
                                   IF id = <<s0, seq>> THEN o ELSE outcome[id]]
            /\ UNCHANGED <<next_scope, clients, now, executed, repeated>>
  BY DEF Complete
<1> DEFINE r1 == [r0 EXCEPT !.state = o, !.terminal_at = now]
           ended == [scopes EXCEPT ![s0].records = (@ \ {r0}) \cup {r1}]
           ss == Stored(s0, r0, o)
<1>2. /\ Sane(scopes, next_scope, clients, executed, outcome)
      /\ Accounts
  BY InvIsSane
<1>3. /\ s0 \in DOMAIN scopes
      /\ r0 \in scopes[s0].records
      /\ r0.seq = seq
      /\ r0.state = None
  BY DEF Completable, Pending, Terminal
<1>4. scopes[s0] \in Scope /\ r0 \in Record
  BY <1>2, <1>3 DEF Sane, WellFormed, Scope
<1>5. /\ r1 \in Record
      /\ r1.seq = seq
      /\ r1.state = o
      /\ o # None
  BY <1>2, <1>3, <1>4, StoreAssumption DEF Record, Accounts
<1>6. /\ DOMAIN ended = DOMAIN scopes
      /\ ended[s0] = [scopes[s0] EXCEPT !.records = (scopes[s0].records \ {r0}) \cup {r1}]
      /\ \A s \in DOMAIN scopes : s # s0 => ended[s] = scopes[s]
  BY <1>3
<1>7. <<s0, seq>> \in executed /\ <<s0, seq>> \notin DOMAIN outcome
  BY <1>2, <1>3 DEF Sane, Recorded
<1>8. /\ DOMAIN outcome' = DOMAIN outcome \cup {<<s0, seq>>}
      /\ outcome'[<<s0, seq>>] = o
      /\ \A id \in DOMAIN outcome : outcome'[id] = outcome[id]
  BY <1>1, <1>7
<1>9. UNCHANGED <<next_scope, clients, now, executed, repeated>>
  BY <1>1
<1> HIDE DEF r1, ended
<1>10. /\ ended[s0] \in Scope
       /\ ended[s0].attached = scopes[s0].attached
       /\ ended[s0].high_water = scopes[s0].high_water
       /\ ended[s0].records = (scopes[s0].records \ {r0}) \cup {r1}
  <2>1. (scopes[s0].records \ {r0}) \cup {r1} \in SUBSET Record
    BY <1>4, <1>5 DEF Scope
  <2> QED
    BY <1>4, <1>6, <2>1, ScopeRecords
<1>11. Sane(ended, next_scope, clients, executed, outcome')
  <2>1. WellFormed(ended, next_scope)
    <3> SUFFICES ASSUME NEW s \in DOMAIN ended
                 PROVE  /\ ended[s] \in Scope
                        /\ s < next_scope
                        /\ \A r \in ended[s].records : r.seq <= ended[s].high_water
                        /\ \A r, t \in ended[s].records : r.seq = t.seq => r = t
      BY <1>2, <1>6 DEF Sane, WellFormed
    <3>1. CASE s = s0
      <4>1. /\ s0 < next_scope
            /\ \A r \in scopes[s0].records : r.seq <= scopes[s0].high_water
            /\ \A r, t \in scopes[s0].records : r.seq = t.seq => r = t
        BY <1>2, <1>3 DEF Sane, WellFormed
      <4>2. \A r \in ended[s0].records :
               r = r1 \/ (r \in scopes[s0].records /\ r # r0)
        BY <1>10
      <4>3. \A r, t \in ended[s0].records : r.seq = t.seq => r = t
        BY <1>3, <1>5, <4>1, <4>2
      <4>4. \A r \in ended[s0].records : r.seq <= ended[s0].high_water
        BY <1>3, <1>5, <1>10, <4>1, <4>2
      <4> QED
        BY <1>10, <3>1, <4>1, <4>3, <4>4
    <3>2. CASE s # s0
      BY <1>2, <1>6, <3>2 DEF Sane, WellFormed
    <3> QED
      BY <3>1, <3>2
  <2>2. Attached(ended, clients)
    BY <1>2, <1>6, <1>10 DEF Sane, Attached
  <2>3. Behind(ended, next_scope, executed)
    <3>1. \A s \in DOMAIN ended :
             s \in DOMAIN scopes /\ ended[s].high_water = scopes[s].high_water
      BY <1>6, <1>10
    <3> QED
      BY <1>2, <1>6, <3>1 DEF Sane, Behind
  <2>4. Kept(ended, executed, DOMAIN outcome')
    <3> SUFFICES ASSUME NEW id \in executed, id \notin DOMAIN outcome'
                 PROVE  /\ id[1] \in DOMAIN ended
                        /\ \E r \in ended[id[1]].records : r.state = None /\ r.seq = id[2]
      BY DEF Kept
    <3>1. /\ id[1] \in DOMAIN scopes
          /\ \E r \in scopes[id[1]].records : r.state = None /\ r.seq = id[2]
      BY <1>2, <1>8 DEF Sane, Kept
    <3>2. id = <<id[1], id[2]>> /\ id # <<s0, seq>>
      BY <1>2, <1>8 DEF Accounts, Identity
    <3>3. CASE id[1] = s0
      BY <1>3, <1>6, <1>10, <3>1, <3>2, <3>3
    <3>4. CASE id[1] # s0
      BY <1>6, <3>1, <3>4
    <3> QED
      BY <3>3, <3>4
  <2>5. Recorded(ended, executed, outcome')
    <3> SUFFICES ASSUME NEW s \in DOMAIN ended, NEW r \in ended[s].records
                 PROVE  /\ <<s, r.seq>> \in executed
                        /\ r.state = None => <<s, r.seq>> \notin DOMAIN outcome'
                        /\ r.state # None =>
                             /\ <<s, r.seq>> \in DOMAIN outcome'
                             /\ outcome'[<<s, r.seq>>] = r.state
      BY DEF Recorded
    <3>1. CASE s = s0 /\ r = r1
      BY <1>5, <1>7, <1>8, <3>1
    <3>2. CASE ~(s = s0 /\ r = r1)
      <4>1. s \in DOMAIN scopes /\ r \in scopes[s].records /\ ~(s = s0 /\ r = r0)
        BY <1>6, <1>10, <3>2
      <4>2. <<s, r.seq>> # <<s0, seq>>
        <5>1. \A t, u \in scopes[s].records : t.seq = u.seq => t = u
          BY <1>2, <4>1 DEF Sane, WellFormed
        <5> QED
          BY <1>3, <4>1, <5>1
      <4>3. /\ <<s, r.seq>> \in executed
            /\ r.state = None => <<s, r.seq>> \notin DOMAIN outcome
            /\ r.state # None =>
                 /\ <<s, r.seq>> \in DOMAIN outcome
                 /\ outcome[<<s, r.seq>>] = r.state
        BY <1>2, <4>1 DEF Sane, Recorded
      <4> QED
        BY <1>8, <4>2, <4>3
    <3> QED
      BY <3>1, <3>2
  <2> QED
    BY <2>1, <2>2, <2>3, <2>4, <2>5 DEF Sane
<1>12. ss = [t \in DOMAIN ended |-> [ended[t] EXCEPT !.records = Newest(@)]]
  BY DEF Stored, ended, r1
<1> HIDE DEF ss
<1>13. Sane(ss, next_scope, clients, executed, outcome')
  <2>1. Trimmed(ended, ss)
    BY <1>11, <1>12, NewestTrims DEF Sane
  <2> QED
    BY <1>11, <2>1, TrimmedSane
<1>14. Sane(scopes', next_scope, clients, executed, outcome')
  <2>1. scopes' = ss \/ \E p \in Oldest(ss) : scopes' = Without(ss, p)
    BY <1>1 DEF Settle, ss
  <2>2. CASE scopes' = ss
    BY <1>13, <2>2
  <2>3. ASSUME NEW p \in Oldest(ss), scopes' = Without(ss, p)
        PROVE  Sane(scopes', next_scope, clients, executed, outcome')
    <3>1. Trimmed(ss, Without(ss, p))
      BY <1>13, WithoutTrims DEF Sane
    <3> QED
      BY <1>13, <2>3, <3>1, TrimmedSane
  <2> QED
    BY <2>1, <2>2, <2>3
<1> QED
  BY <1>2, <1>7, <1>8, <1>9, <1>14 DEF Inv, Accounts, Sane

-----------------------------------------------------------------------------
(* The theorems.                                                           *)

\* The empty store satisfies Inv.
LEMMA InitInv == Init => Inv
  BY StoreAssumption DEF Init, Inv, WellFormed, Attached, Behind, Kept, Recorded

\* Every call keeps it.
LEMMA NextInv ==
    ASSUME Inv, [Next]_vars
    PROVE  Inv'
<1>1. ASSUME NEW c \in Connections, OpenNew(c) PROVE Inv'
  BY <1>1, OpenNewInv
<1>2. ASSUME NEW s \in ScopeId, NEW c \in Connections, Resume(s, c) PROVE Inv'
  BY <1>2, ResumeInv
<1>3. ASSUME NEW c \in Connections, Detach(c) PROVE Inv'
  BY <1>3, DetachInv
<1>4. ASSUME NEW c \in Connections, NEW seq \in Seq64, NEW payload \in Payloads,
             NEW gate \in BOOLEAN, Admit(c, seq, payload, gate)
      PROVE  Inv'
  BY <1>4, AdmitInv
<1>5. ASSUME NEW s \in ScopeId, NEW seq \in Seq64, NEW o \in Outcomes, Complete(s, seq, o)
      PROVE  Inv'
  BY <1>5, CompleteInv
<1>6. CASE Advance
  BY <1>6 DEF Advance, Inv, WellFormed, Attached, Behind, Kept, Recorded
<1>7. CASE UNCHANGED vars
  BY <1>7 DEF vars, Inv, WellFormed, Attached, Behind, Kept, Recorded
<1> QED
  BY <1>1, <1>2, <1>3, <1>4, <1>5, <1>6, <1>7 DEF Next

\* Inv holds in every state the store reaches, whatever its bounds and lifetimes
\* (SessionStore in sessions.rs).
THEOREM AlwaysInv == Spec => []Inv
<1>1. Inv /\ [Next]_vars => Inv'
  BY NextInv
<1> QED
  BY InitInv, <1>1, PTL DEF Spec

\* The store is well-formed in every state: one record for each sequence number,
\* below the high-water mark of its scope (admit_with_gate and complete).
THEOREM TypeCorrect == Spec => []TypeOK
<1>1. Inv => TypeOK
  BY DEF Inv, TypeOK, WellFormed
<1> QED
  BY AlwaysInv, <1>1, PTL

\* An accepted identity is never run again, after any expiry or eviction
\* (admit_with_gate: the high-water mark, not the records, decides).
THEOREM RunsOnce == Spec => []ExecutedOnce
<1>1. Inv => ExecutedOnce
  BY DEF Inv, ExecutedOnce
<1> QED
  BY AlwaysInv, <1>1, PTL

\* The record of an operation under way is there when its outcome comes: the
\* expect() calls on `complete` in application.rs cannot panic for its absence.
THEOREM PendingStays == Spec => []PendingIsKept
<1>1. Inv => PendingIsKept
  <2> SUFFICES ASSUME Inv, NEW s \in ScopeId, NEW seq \in Seq64,
                      <<s, seq>> \in executed, <<s, seq>> \notin DOMAIN outcome
               PROVE  Completable(s, seq) # {}
    BY DEF PendingIsKept
  <2>1. /\ s \in DOMAIN scopes
        /\ \E r \in scopes[s].records : r.state = None /\ r.seq = seq
    BY DEF Inv, Kept
  <2> QED
    BY <2>1 DEF Completable, Pending, Terminal
<1> QED
  BY AlwaysInv, <1>1, PTL

\* A client keeps its scope to itself as long as it is connected (open, expire).
THEOREM ScopesExclusive == Spec => []ScopeIsExclusive
<1>1. Inv => ScopeIsExclusive
  BY DEF Inv, Attached, ScopeIsExclusive
<1> QED
  BY AlwaysInv, <1>1, PTL

\* The outcome that can be read is the first one reported (complete).
THEOREM FirstOutcome == Spec => []FirstOutcomeStands
<1>1. Inv => FirstOutcomeStands
  BY DEF Inv, Recorded, FirstOutcomeStands, Terminal
<1> QED
  BY AlwaysInv, <1>1, PTL

-----------------------------------------------------------------------------
(* Provisioning credit.  The sum over a set of records is counted: every   *)
(* record has as many slots as it costs, and no slot belongs to two.       *)

Cost(p) == Charge[p[2].payload]

Slots(S) == UNION {{p} \X (1..Cost(p)) : p \in S}

\* Records that can be paid for.
Priced(S) == IsFiniteSet(S) /\ \A p \in S : Cost(p) \in Nat

LEMMA SlotsOfOne ==
    ASSUME NEW p, Cost(p) \in Nat
    PROVE  IsFiniteSet({p} \X (1..Cost(p))) /\ Cardinality({p} \X (1..Cost(p))) = Cost(p)
<1> DEFINE n == Cost(p)
           f == [i \in 1..n |-> <<p, i>>]
           T == {p} \X (1..n)
<1>1. n \in Nat
  OBVIOUS
<1> HIDE DEF n
<1>2. IsFiniteSet(1..n) /\ Cardinality(1..n) = n
  <2>1. /\ IsFiniteSet(1..n)
        /\ Cardinality(1..n) = IF 1 > n THEN 0 ELSE n - 1 + 1
    <3>1. 1 \in Int /\ n \in Int
      BY <1>1
    <3> QED
      BY <3>1, FS_Interval, Zenon
  <2> QED
    BY <1>1, <2>1
<1>3. f \in Bijection(1..n, T)
  <2>1. f \in [1..n -> T]
    OBVIOUS
  <2>2. \A i, j \in 1..n : f[i] = f[j] => i = j
    OBVIOUS
  <2>3. \A t \in T : \E i \in 1..n : f[i] = t
    OBVIOUS
  <2> HIDE DEF f, T
  <2> QED
    BY <2>1, <2>2, <2>3 DEF Bijection, Injection, Surjection, IsInjective
<1>4. ExistsBijection(1..n, T)
  BY <1>3 DEF ExistsBijection
<1>5. IsFiniteSet(T) /\ Cardinality(T) = n
  <2> HIDE DEF T, f
  <2> QED
    BY <1>2, <1>4, FS_Bijection
<1> QED
  BY <1>5 DEF n

\* Taking one record away takes its slots away.
LEMMA SlotsWithout ==
    ASSUME NEW S, NEW p \in S
    PROVE  /\ Slots(S) = Slots(S \ {p}) \cup ({p} \X (1..Cost(p)))
           /\ Slots(S \ {p}) \cap ({p} \X (1..Cost(p))) = {}
BY DEF Slots

\* Every set of priced records has finitely many slots.
LEMMA SlotsFinite ==
    ASSUME NEW S, Priced(S)
    PROVE  IsFiniteSet(Slots(S))
<1> DEFINE T == {U \in FiniteSubsetsOf(S) : ~IsFiniteSet(Slots(U))}
<1>1. SUFFICES ASSUME T # {} PROVE FALSE
  <2>1. S \in FiniteSubsetsOf(S)
    BY DEF Priced, FiniteSubsetsOf
  <2> QED
    BY <2>1
<1>2. PICK U \in T : \A V \in T : ~(<<V, U>> \in StrictSubsetOrdering(S))
  <2> DEFINE F == FiniteSubsetsOf(S)
             R == StrictSubsetOrdering(S)
  <2>1. IsWellFoundedOn(R, F)
    BY FS_StrictSubsetOrderingWellFounded
  <2>2. T \subseteq F
    OBVIOUS
  <2> HIDE DEF F, R, T
  <2> QED
    BY <1>1, <2>1, <2>2, WFMin DEF R
<1>3. U \subseteq S /\ IsFiniteSet(U) /\ ~IsFiniteSet(Slots(U))
  BY DEF FiniteSubsetsOf
<1>4. CASE U = {}
  <2>1. Slots({}) = {}
    BY DEF Slots
  <2> QED
    BY <1>3, <1>4, <2>1, FS_EmptySet
<1>5. ASSUME NEW p \in U PROVE FALSE
  <2> DEFINE V == U \ {p}
  <2>1. V \in FiniteSubsetsOf(S) /\ <<V, U>> \in StrictSubsetOrdering(S)
    <3>1. IsFiniteSet(V)
      BY <1>3, FS_RemoveElement
    <3> QED
      BY <1>3, <3>1 DEF FiniteSubsetsOf, StrictSubsetOrdering
  <2>2. IsFiniteSet(Slots(V))
    <3> HIDE DEF V
    <3> QED
      BY <1>2, <2>1
  <2>3. IsFiniteSet({p} \X (1..Cost(p)))
    BY <1>3, SlotsOfOne DEF Priced
  <2>4. Slots(U) = Slots(V) \cup ({p} \X (1..Cost(p)))
    BY SlotsWithout
  <2>5. IsFiniteSet(Slots(U))
    <3> DEFINE A == Slots(V)
               B == {p} \X (1..Cost(p))
    <3> HIDE DEF A, B, T, V
    <3>1. IsFiniteSet(A) /\ IsFiniteSet(B)
      BY <2>2, <2>3 DEF A, B, V
    <3>2. IsFiniteSet(A \cup B)
      BY <3>1, FS_Union, Zenon
    <3> QED
      BY <2>4, <3>2 DEF A, B, V
  <2> QED
    BY <1>3, <2>5
<1> QED
  BY <1>4, <1>5

\* One record more costs its price.
LEMMA SlotsCounted ==
    ASSUME NEW S, Priced(S), NEW p \in S
    PROVE  /\ Priced(S \ {p})
           /\ Cardinality(Slots(S \ {p})) \in Nat
           /\ Cardinality(Slots(S)) = Cost(p) + Cardinality(Slots(S \ {p}))
<1>1. Priced(S \ {p})
  BY FS_RemoveElement DEF Priced
<1>2. IsFiniteSet(Slots(S \ {p})) /\ Cardinality(Slots(S \ {p})) \in Nat
  BY <1>1, SlotsFinite, FS_CardinalityType
<1>3. IsFiniteSet({p} \X (1..Cost(p))) /\ Cardinality({p} \X (1..Cost(p))) = Cost(p)
  BY SlotsOfOne DEF Priced
<1>4. Cost(p) \in Nat
  BY DEF Priced
<1> DEFINE A == Slots(S \ {p})
           B == {p} \X (1..Cost(p))
<1>5. Slots(S) = A \cup B /\ A \cap B = {}
  BY SlotsWithout
<1> HIDE DEF A, B
<1>6. Cardinality(A \cup B) = Cardinality(A) + Cardinality(B) - Cardinality(A \cap B)
  BY <1>2, <1>3, FS_Union DEF A, B
<1>7. Cardinality(A \cap B) = 0
  BY <1>5, FS_EmptySet
<1> QED
  BY <1>1, <1>2, <1>3, <1>4, <1>5, <1>6, <1>7 DEF A, B

\* What MapThenSumSet chooses: a function that adds up the sets of records.
Adds(f, S) ==
    f = [s \in SUBSET S |->
            IF s = {} THEN 0
            ELSE Cost(CHOOSE x \in s : TRUE) + f[s \ {CHOOSE x \in s : TRUE}]]

LEMMA SlotsAdd ==
    ASSUME NEW S, Priced(S)
    PROVE  Adds([s \in SUBSET S |-> Cardinality(Slots(s))], S)
<1> DEFINE f == [s \in SUBSET S |-> Cardinality(Slots(s))]
<1>1. ASSUME NEW s \in SUBSET S, s # {}
      PROVE  f[s] = Cost(CHOOSE x \in s : TRUE) + f[s \ {CHOOSE x \in s : TRUE}]
  <2> DEFINE x == CHOOSE x \in s : TRUE
  <2>1. x \in s
    BY <1>1
  <2>2. Priced(s)
    BY FS_Subset DEF Priced
  <2> HIDE DEF x
  <2>3. Cardinality(Slots(s)) = Cost(x) + Cardinality(Slots(s \ {x}))
    BY <2>1, <2>2, SlotsCounted
  <2>4. f[s] = Cost(x) + f[s \ {x}]
    BY <2>1, <2>3
  <2> QED
    BY <2>4 DEF x
<1>2. ASSUME NEW s \in SUBSET S, s = {}
      PROVE  f[s] = 0
  <2>1. Slots({}) = {}
    BY DEF Slots
  <2> QED
    BY <1>2, <2>1, FS_EmptySet
<1>3. f = [s \in SUBSET S |->
              IF s = {} THEN 0
              ELSE Cost(CHOOSE x \in s : TRUE) + f[s \ {CHOOSE x \in s : TRUE}]]
  <2> DEFINE g == [s \in SUBSET S |->
              IF s = {} THEN 0
              ELSE Cost(CHOOSE x \in s : TRUE) + f[s \ {CHOOSE x \in s : TRUE}]]
  <2>1. \A s \in SUBSET S : f[s] = g[s]
    <3> HIDE DEF f
    <3> QED
      BY <1>1, <1>2
  <2> QED
    BY <2>1
<1> HIDE DEF f
<1>4. Adds(f, S)
  BY <1>3 DEF Adds
<1> QED
  BY <1>4 DEF f

\* There is only one: take the least set on which another one differed.
LEMMA AddsOnce ==
    ASSUME NEW S, Priced(S), NEW f, Adds(f, S), NEW g, Adds(g, S)
    PROVE  f[S] = g[S]
<1> DEFINE T == {U \in FiniteSubsetsOf(S) : f[U] # g[U]}
<1>1. SUFFICES ASSUME T # {} PROVE FALSE
  <2>1. S \in FiniteSubsetsOf(S)
    BY DEF Priced, FiniteSubsetsOf
  <2> QED
    BY <2>1
<1>2. PICK U \in T : \A V \in T : ~(<<V, U>> \in StrictSubsetOrdering(S))
  <2> DEFINE F == FiniteSubsetsOf(S)
             R == StrictSubsetOrdering(S)
  <2>1. IsWellFoundedOn(R, F)
    BY FS_StrictSubsetOrderingWellFounded
  <2>2. T \subseteq F
    OBVIOUS
  <2> HIDE DEF F, R, T
  <2> QED
    BY <1>1, <2>1, <2>2, WFMin DEF R
<1>3. U \in SUBSET S /\ IsFiniteSet(U) /\ f[U] # g[U]
  BY DEF FiniteSubsetsOf
<1>4. ASSUME NEW h, Adds(h, S)
      PROVE  h[U] = IF U = {} THEN 0
                    ELSE Cost(CHOOSE x \in U : TRUE) + h[U \ {CHOOSE x \in U : TRUE}]
  <2> HIDE DEF T
  <2> QED
    BY <1>3, <1>4 DEF Adds
<1>5. U # {}
  BY <1>3, <1>4
<1> DEFINE x == CHOOSE x \in U : TRUE
           V == U \ {x}
<1>6. x \in U
  BY <1>5
<1>7. V \in FiniteSubsetsOf(S) /\ <<V, U>> \in StrictSubsetOrdering(S)
  <2>1. IsFiniteSet(V)
    BY <1>3, FS_RemoveElement
  <2> HIDE DEF x
  <2> QED
    BY <1>3, <1>6, <2>1 DEF FiniteSubsetsOf, StrictSubsetOrdering
<1>8. f[V] = g[V]
  <2> HIDE DEF V
  <2> QED
    BY <1>2, <1>7
<1> QED
  BY <1>3, <1>4, <1>5, <1>8

\* The recount of a store is the number of the slots of its records.
LEMMA RecountIsCount ==
    ASSUME NEW ss, Priced(AllRecords(ss))
    PROVE  Recount(ss) = Cardinality(Slots(AllRecords(ss)))
<1> DEFINE S == AllRecords(ss)
           f == CHOOSE f : Adds(f, S)
           g == [s \in SUBSET S |-> Cardinality(Slots(s))]
<1>1. Adds(g, S)
  BY SlotsAdd
<1>2. Adds(f, S)
  BY <1>1
<1>3. f[S] = g[S]
  <2> HIDE DEF f, g, S
  <2> QED
    BY <1>1, <1>2, AddsOnce DEF S
<1>4. Recount(ss) = f[S]
  BY DEF Recount, MapThenSumSet, MapThenFoldSet, Adds, Cost
<1> QED
  BY <1>3, <1>4

\* Fewer records cost no more.
LEMMA SubsetCosts ==
    ASSUME NEW S, Priced(S), NEW T \in SUBSET S
    PROVE  /\ Priced(T)
           /\ Cardinality(Slots(T)) \in Nat /\ Cardinality(Slots(S)) \in Nat
           /\ Cardinality(Slots(T)) <= Cardinality(Slots(S))
<1>1. Priced(T)
  BY FS_Subset DEF Priced
<1>2. IsFiniteSet(Slots(S)) /\ Cardinality(Slots(S)) \in Nat
  BY SlotsFinite, FS_CardinalityType
<1>3. IsFiniteSet(Slots(T)) /\ Cardinality(Slots(T)) \in Nat
  BY <1>1, SlotsFinite, FS_CardinalityType
<1>4. Slots(T) \in SUBSET Slots(S)
  BY DEF Slots
<1> QED
  BY <1>1, <1>2, <1>3, <1>4, FS_Subset

\* A record for which no other has its scope and sequence number is one of finitely
\* many, and every payload has its charge.
LEMMA StoreIsPriced ==
    ASSUME NEW ss, NEW ns, WellFormed(ss, ns)
    PROVE  Priced(AllRecords(ss))
<1> DEFINE S == AllRecords(ss)
           f == [p \in S |-> <<p[1], p[2].seq>>]
<1>1. ASSUME NEW p \in S
      PROVE  /\ p[1] \in DOMAIN ss
             /\ p[2] \in ss[p[1]].records
             /\ p = <<p[1], p[2]>>
  BY DEF AllRecords
<1>2. ASSUME NEW s \in DOMAIN ss
      PROVE  /\ s \in ScopeId /\ ss[s] \in Scope
             /\ \A r, t \in ss[s].records : r.seq = t.seq => r = t
  BY DEF WellFormed
<1> HIDE DEF S
<1>3. \A p \in S : p[1] \in ScopeId /\ p[2] \in Record
  BY <1>1, <1>2 DEF Scope
<1>4. f \in [S -> ScopeId \X Seq64]
  BY <1>3 DEF Record
<1>5. \A p, q \in S : f[p] = f[q] => p = q
  <2> SUFFICES ASSUME NEW p \in S, NEW q \in S, f[p] = f[q]
               PROVE  p = q
    OBVIOUS
  <2>1. p[1] = q[1] /\ p[2].seq = q[2].seq
    OBVIOUS
  <2>2. p[2] = q[2]
    BY <1>1, <1>2, <2>1
  <2> QED
    BY <1>1, <2>1, <2>2
<1>6. IsFiniteSet(ScopeId \X Seq64)
  <2>1. 1 \in Int /\ MaxScopeId \in Int /\ MaxSeq \in Int
    BY StoreAssumption
  <2>2. IsFiniteSet(1..MaxScopeId) /\ IsFiniteSet(1..MaxSeq)
    BY <2>1, FS_Interval, Zenon
  <2> QED
    BY <2>2, FS_Product DEF ScopeId, Seq64
<1>7. IsFiniteSet(S)
  <2>1. f \in Injection(S, ScopeId \X Seq64)
    <3> HIDE DEF f
    <3> QED
      BY <1>4, <1>5 DEF Injection, IsInjective
  <2> QED
    BY <1>6, <2>1, FS_Injection
<1>8. \A p \in S : Cost(p) \in Nat
  BY <1>3, StoreAssumption DEF Cost, Record
<1> QED
  BY <1>7, <1>8 DEF Priced, S

\* The credit of a store, and of one with no more records.
LEMMA CreditLaws ==
    ASSUME NEW ss, NEW tt, Priced(AllRecords(ss)), AllRecords(tt) \subseteq AllRecords(ss)
    PROVE  /\ Recount(ss) \in Nat /\ Recount(tt) \in Nat
           /\ Recount(tt) <= Recount(ss)
<1> DEFINE S == AllRecords(ss)
           T == AllRecords(tt)
<1>1. /\ Priced(T)
      /\ Cardinality(Slots(T)) \in Nat /\ Cardinality(Slots(S)) \in Nat
      /\ Cardinality(Slots(T)) <= Cardinality(Slots(S))
  <2> HIDE DEF S, T
  <2> QED
    BY SubsetCosts DEF S, T
<1> QED
  BY <1>1, RecountIsCount

\* A trim takes records away only.
LEMMA TrimmedRecords ==
    ASSUME NEW ss, NEW tt, Trimmed(ss, tt)
    PROVE  AllRecords(tt) \subseteq AllRecords(ss)
BY DEF Trimmed, AllRecords

\* One record more in one scope.
LEMMA CreditAdded ==
    ASSUME NEW ss, NEW tt, NEW p, p \notin AllRecords(ss), Priced(AllRecords(tt)),
           AllRecords(tt) = AllRecords(ss) \cup {p}
    PROVE  /\ Recount(ss) \in Nat /\ Cost(p) \in Nat
           /\ Recount(tt) = Recount(ss) + Cost(p)
<1> DEFINE S == AllRecords(ss)
           T == AllRecords(tt)
<1>1. p \in T /\ T \ {p} = S
  OBVIOUS
<1>2. Priced(T)
  OBVIOUS
<1>3. Cost(p) \in Nat
  BY <1>1, <1>2 DEF Priced
<1> HIDE DEF S, T
<1>4. /\ Priced(T \ {p})
      /\ Cardinality(Slots(T \ {p})) \in Nat
      /\ Cardinality(Slots(T)) = Cost(p) + Cardinality(Slots(T \ {p}))
  BY <1>1, <1>2, SlotsCounted
<1>5. Recount(tt) = Cardinality(Slots(T))
  BY <1>2, RecountIsCount DEF T
<1>6. Recount(ss) = Cardinality(Slots(S))
  BY <1>1, <1>4, RecountIsCount DEF S
<1>7. Cardinality(Slots(T \ {p})) = Cardinality(Slots(S))
  BY <1>1
<1> HIDE DEF S, T
<1> QED
  BY <1>3, <1>4, <1>5, <1>6, <1>7

\* The credit in use after a call that only expires.
LEMMA ExpiredCredit ==
    ASSUME Inv, CreditIsExact
    PROVE  /\ Priced(AllRecords(Expire(scopes, now)))
           /\ Recount(Expire(scopes, now)) \in Nat
           /\ Recount(Expire(scopes, now)) <= Credit
<1> DEFINE ss == Expire(scopes, now)
<1>1. WellFormed(scopes, next_scope) /\ retained = Recount(scopes) /\ retained <= Credit
  BY DEF Inv, CreditIsExact
<1>2. AllRecords(ss) \subseteq AllRecords(scopes)
  BY <1>1, ExpireTrims, TrimmedRecords
<1>3. Priced(AllRecords(scopes))
  BY <1>1, StoreIsPriced
<1> HIDE DEF ss
<1>4. /\ Recount(scopes) \in Nat /\ Recount(ss) \in Nat
      /\ Recount(ss) <= Recount(scopes)
  BY <1>2, <1>3, CreditLaws
<1>5. Priced(AllRecords(ss))
  <2>1. WellFormed(ss, next_scope)
    BY ExpiredSane DEF Sane, ss
  <2> QED
    BY <2>1, StoreIsPriced
<1> QED
  BY <1>1, <1>4, <1>5, StoreAssumption DEF ss

LEMMA OpenNewCredit ==
    ASSUME Inv, CreditIsExact, NEW c \in Connections, OpenNew(c)
    PROVE  CreditIsExact'
<1> DEFINE ss == Expire(scopes, now)
           new == [attached |-> c, high_water |-> 0, last_active |-> now, records |-> {}]
           tt == [s \in DOMAIN ss \cup {next_scope} |-> IF s = next_scope THEN new ELSE ss[s]]
<1>1. /\ Priced(AllRecords(ss))
      /\ Recount(ss) \in Nat /\ Recount(ss) <= Credit
  BY ExpiredCredit
<1>2. CASE scopes' = ss /\ retained' = Recount(ss)
  BY <1>1, <1>2 DEF CreditIsExact
<1>3. CASE scopes' = tt /\ retained' = Recount(tt)
  <2>1. AllRecords(tt) \subseteq AllRecords(ss)
    <3>1. ASSUME NEW s \in DOMAIN tt, NEW r \in tt[s].records
          PROVE  s \in DOMAIN ss /\ r \in ss[s].records
      BY <3>1
    <3> HIDE DEF ss, tt
    <3> QED
      BY <3>1 DEF AllRecords
  <2> HIDE DEF ss, tt
  <2>2. Recount(tt) \in Nat /\ Recount(tt) <= Recount(ss)
    BY <1>1, <2>1, CreditLaws
  <2> QED
    BY <1>1, <1>3, <2>2, StoreAssumption DEF CreditIsExact
<1> QED
  BY <1>2, <1>3 DEF OpenNew, Settle

LEMMA ResumeCredit ==
    ASSUME Inv, CreditIsExact, NEW s0 \in ScopeId, NEW c \in Connections, Resume(s0, c)
    PROVE  CreditIsExact'
<1> DEFINE ss == Expire(scopes, now)
           tt == [ss EXCEPT ![s0].attached = c, ![s0].last_active = now]
<1>1. /\ Priced(AllRecords(ss))
      /\ Recount(ss) \in Nat /\ Recount(ss) <= Credit
  BY ExpiredCredit
<1>2. CASE scopes' = ss /\ retained' = Recount(ss)
  BY <1>1, <1>2 DEF CreditIsExact
<1>3. CASE ResumeOk(ss, s0, c) /\ scopes' = tt /\ retained' = Recount(tt)
  <2>1. AllRecords(tt) \subseteq AllRecords(ss)
    <3>1. \A s \in DOMAIN ss : ss[s] \in Scope
      BY ExpiredSane DEF Sane, WellFormed
    <3>2. /\ DOMAIN tt = DOMAIN ss
          /\ tt[s0] = [ss[s0] EXCEPT !.attached = c, !.last_active = now]
          /\ \A s \in DOMAIN ss : s # s0 => tt[s] = ss[s]
      BY <1>3 DEF ResumeOk
    <3> HIDE DEF ss, tt
    <3>3. \A s \in DOMAIN ss : tt[s].records = ss[s].records
      BY <3>1, <3>2 DEF Scope
    <3> QED
      BY <3>2, <3>3 DEF AllRecords
  <2> HIDE DEF ss, tt
  <2>2. Recount(tt) \in Nat /\ Recount(tt) <= Recount(ss)
    BY <1>1, <2>1, CreditLaws
  <2> QED
    BY <1>1, <1>3, <2>2, StoreAssumption DEF CreditIsExact
<1> QED
  BY <1>2, <1>3 DEF Resume, Settle

\* A connection that leaves takes no record with it.
LEMMA DetachCredit ==
    ASSUME Inv, CreditIsExact, NEW c \in Connections, Detach(c)
    PROVE  CreditIsExact'
<1> DEFINE tt == [s \in DOMAIN scopes |->
                     IF scopes[s].attached = c
                     THEN [scopes[s] EXCEPT !.attached = None, !.last_active = now]
                     ELSE scopes[s]]
<1>1. \A s \in DOMAIN scopes : scopes[s] \in Scope
  BY DEF Inv, WellFormed
<1>2. scopes' = tt /\ retained' = retained
  BY Zenon DEF Detach
<1>3. DOMAIN tt = DOMAIN scopes /\ \A s \in DOMAIN scopes : tt[s].records = scopes[s].records
  BY <1>1 DEF Scope
<1> HIDE DEF tt
<1>4. AllRecords(tt) = AllRecords(scopes)
  BY <1>3 DEF AllRecords
<1>5. Recount(tt) = Recount(scopes)
  BY <1>4 DEF Recount
<1> QED
  BY <1>2, <1>5 DEF CreditIsExact

\* The capacity check covers the charge of the operation that is accepted.
LEMMA AdmitCredit ==
    ASSUME Inv, CreditIsExact, NEW c \in Connections, NEW seq \in Seq64,
           NEW payload \in Payloads, NEW gate \in BOOLEAN, Admit(c, seq, payload, gate)
    PROVE  CreditIsExact'
<1> DEFINE ss == Expire(scopes, now)
           s0 == clients[c]
           record == [seq |-> seq, payload |-> payload, state |-> None, terminal_at |-> 0]
           tt == [ss EXCEPT ![s0].high_water = seq, ![s0].last_active = now,
                            ![s0].records = @ \cup {record}]
           accepted == /\ s0 \in DOMAIN ss
                       /\ NewIdentity(ss[s0], seq)
                       /\ Capacity(ss, s0, payload)
                       /\ gate
<1>1. /\ Priced(AllRecords(ss))
      /\ Recount(ss) \in Nat /\ Recount(ss) <= Credit
  BY ExpiredCredit
<1>2. CASE ~accepted
  <2>1. scopes' = ss /\ retained' = Recount(ss)
    BY <1>2 DEF Admit, Settle
  <2> QED
    BY <1>1, <2>1 DEF CreditIsExact
<1>3. CASE accepted
  <2>1. scopes' = tt /\ retained' = Recount(ss) + Charge[payload]
    BY <1>3 DEF Admit
  <2>2. Recount(ss) + Charge[payload] <= Credit
    BY <1>3 DEF Capacity
  <2>3. Cost(<<s0, record>>) = Charge[payload]
    BY DEF Cost
  <2>4. <<s0, record>> \notin AllRecords(ss)
    <3>1. \A r \in ss[s0].records : r.seq # seq
      BY <1>3 DEF NewIdentity
    <3>2. record \notin ss[s0].records
      BY <3>1
    <3> HIDE DEF record, ss, s0
    <3> QED
      BY <3>2 DEF AllRecords
  <2>5. AllRecords(tt) = AllRecords(ss) \cup {<<s0, record>>}
    <3>1. s0 \in DOMAIN ss /\ ss[s0] \in Scope
      BY <1>3, ExpiredSane DEF Sane, WellFormed
    <3>2. /\ DOMAIN tt = DOMAIN ss
          /\ tt[s0] = [ss[s0] EXCEPT !.high_water = seq, !.last_active = now,
                                     !.records = ss[s0].records \cup {record}]
          /\ \A s \in DOMAIN ss : s # s0 => tt[s] = ss[s]
      BY <3>1
    <3> HIDE DEF ss, tt, record, s0
    <3>3. tt[s0].records = ss[s0].records \cup {record}
      BY <3>1, <3>2 DEF Scope
    <3>4. ASSUME NEW s \in DOMAIN tt, NEW r \in tt[s].records
          PROVE  (s \in DOMAIN ss /\ r \in ss[s].records) \/ <<s, r>> = <<s0, record>>
      BY <3>2, <3>3, <3>4
    <3>5. AllRecords(tt) \subseteq AllRecords(ss) \cup {<<s0, record>>}
      BY <3>4 DEF AllRecords
    <3>6. ASSUME NEW s \in DOMAIN ss, NEW r \in ss[s].records
          PROVE  s \in DOMAIN tt /\ r \in tt[s].records
      BY <3>2, <3>3, <3>6
    <3>7. AllRecords(ss) \subseteq AllRecords(tt)
      BY <3>6 DEF AllRecords
    <3>8. <<s0, record>> \in AllRecords(tt)
      <4>1. s0 \in DOMAIN tt /\ record \in tt[s0].records
        BY <3>1, <3>2, <3>3
      <4> QED
        BY <4>1 DEF AllRecords
    <3> QED
      BY <3>5, <3>7, <3>8
  <2>6. Priced(AllRecords(tt))
    <3>1. Inv'
      BY AdmitInv
    <3>2. WellFormed(tt, next_scope')
      BY <2>1, <3>1 DEF Inv
    <3> HIDE DEF tt
    <3> QED
      BY <3>2, StoreIsPriced
  <2> HIDE DEF ss, tt, record, s0, accepted
  <2>7. Recount(tt) = Recount(ss) + Cost(<<s0, record>>)
    BY <2>4, <2>5, <2>6, CreditAdded
  <2> QED
    BY <2>1, <2>2, <2>3, <2>7 DEF CreditIsExact
<1> QED
  BY <1>2, <1>3

\* The outcome takes the place of the pending record at the same price; what the
\* bounds then evict only lowers the sum.
LEMMA CompleteCredit ==
    ASSUME Inv, CreditIsExact, NEW s0 \in ScopeId, NEW seq \in Seq64, NEW o \in Outcomes,
           Complete(s0, seq, o)
    PROVE  CreditIsExact'
<1>1. PICK r0 \in Completable(s0, seq) :
        LET ss == Stored(s0, r0, o)
        IN  IF CountTerminal(ss) > MaxTerminal
            THEN \E p \in Oldest(ss) : Settle(Without(ss, p))
            ELSE Settle(ss)
  BY DEF Complete
<1> DEFINE r1 == [r0 EXCEPT !.state = o, !.terminal_at = now]
           ended == [scopes EXCEPT ![s0].records = (@ \ {r0}) \cup {r1}]
           ss == Stored(s0, r0, o)
           p0 == <<s0, r0>>
           p1 == <<s0, r1>>
           A == AllRecords(scopes)
           B == A \ {p0}
<1>2. /\ s0 \in DOMAIN scopes
      /\ r0 \in scopes[s0].records
      /\ scopes[s0] \in Scope
      /\ r0 \in Record
  <2>1. s0 \in DOMAIN scopes /\ r0 \in scopes[s0].records
    BY DEF Completable, Pending, Terminal
  <2>2. scopes[s0] \in Scope
    BY <2>1 DEF Inv, WellFormed
  <2> QED
    BY <2>1, <2>2 DEF Scope
<1>3. r1.payload = r0.payload
  BY <1>2 DEF Record
<1>4. Priced(A)
  <2>1. WellFormed(scopes, next_scope)
    BY DEF Inv
  <2> QED
    BY <2>1, StoreIsPriced
<1>5. Cost(p1) = Cost(p0)
  BY <1>3 DEF Cost
<1> HIDE DEF r1
<1>6. p0 \in A
  BY <1>2 DEF AllRecords
<1>7. /\ Priced(B)
      /\ Cardinality(Slots(B)) \in Nat
      /\ Cardinality(Slots(A)) = Cost(p0) + Cardinality(Slots(B))
  <2> HIDE DEF A, p0
  <2> QED
    BY <1>4, <1>6, SlotsCounted
<1>8. AllRecords(ended) \subseteq B \cup {p1}
  <2>1. /\ DOMAIN ended = DOMAIN scopes
        /\ ended[s0] = [scopes[s0] EXCEPT !.records = (scopes[s0].records \ {r0}) \cup {r1}]
        /\ \A s \in DOMAIN scopes : s # s0 => ended[s] = scopes[s]
    BY <1>2
  <2> HIDE DEF ended
  <2>2. ended[s0].records = (scopes[s0].records \ {r0}) \cup {r1}
    BY <1>2, <2>1 DEF Scope
  <2>3. ASSUME NEW s \in DOMAIN ended, NEW r \in ended[s].records
        PROVE  <<s, r>> \in B \cup {p1}
    <3>1. CASE s = s0 /\ r = r1
      BY <3>1
    <3>2. CASE ~(s = s0 /\ r = r1)
      <4>1. s \in DOMAIN scopes /\ r \in scopes[s].records /\ ~(s = s0 /\ r = r0)
        BY <2>1, <2>2, <2>3, <3>2
      <4>2. <<s, r>> \in A
        BY <4>1 DEF AllRecords
      <4> HIDE DEF A
      <4> QED
        BY <4>1, <4>2
    <3> QED
      BY <3>1, <3>2
  <2> HIDE DEF B, p1
  <2> QED
    BY <2>3 DEF AllRecords
<1>9. ss = [t \in DOMAIN ended |-> [ended[t] EXCEPT !.records = Newest(@)]]
  BY DEF Stored, ended, r1
<1>10. /\ \A s \in DOMAIN ss : ss[s] \in Scope
       /\ AllRecords(ss) \subseteq AllRecords(ended)
  <2>1. DOMAIN ss = DOMAIN ended /\ DOMAIN ended = DOMAIN scopes
    BY <1>9
  <2>2. ASSUME NEW s \in DOMAIN scopes
        PROVE  ss[s] \in Scope /\ ss[s].records \subseteq ended[s].records
    <3>1. ss[s] = [ended[s] EXCEPT !.records = Newest(ended[s].records)]
      BY <1>9, <2>1, <2>2
    <3>2. ended[s] \in Scope
      <4>1. scopes[s] \in Scope
        BY <2>2 DEF Inv, WellFormed
      <4>2. r1 \in Record
        BY <1>2, StoreAssumption DEF r1, Record, Inv
      <4>3. (scopes[s0].records \ {r0}) \cup {r1} \in SUBSET Record
        BY <1>2, <4>2 DEF Scope
      <4>4. [scopes[s0] EXCEPT !.records = (scopes[s0].records \ {r0}) \cup {r1}] \in Scope
        BY <1>2, <4>3, ScopeRecords
      <4> QED
        BY <1>2, <2>2, <4>1, <4>4
    <3> HIDE DEF ss, ended
    <3>3. Newest(ended[s].records) \in SUBSET ended[s].records /\ ended[s].records \in SUBSET Record
      BY <3>2 DEF Newest, Scope
    <3> QED
      BY <3>1, <3>2, <3>3, ScopeRecords
  <2> HIDE DEF ss, ended
  <2>3. \A s \in DOMAIN ss : ss[s] \in Scope
    BY <2>1, <2>2
  <2>4. AllRecords(ss) \subseteq AllRecords(ended)
    BY <2>1, <2>2 DEF AllRecords
  <2> QED
    BY <2>3, <2>4
<1> HIDE DEF ss, ended, A, B, p0, p1
<1>11. /\ Priced(B \cup {p1})
       /\ Cardinality(Slots(B \cup {p1})) \in Nat
       /\ Cardinality(Slots(B \cup {p1})) <= Cardinality(Slots(A))
  <2>1. Cost(p0) \in Nat /\ Cost(p1) \in Nat
    BY <1>4, <1>5, <1>6 DEF Priced
  <2>2. Priced(B \cup {p1})
    BY <1>7, <2>1, FS_AddElement DEF Priced
  <2>3. CASE p1 \in B
    <3>1. B \cup {p1} = B
      BY <2>3
    <3>2. Cardinality(Slots(B)) <= Cardinality(Slots(A))
      BY <1>7, <2>1
    <3> QED
      BY <1>7, <3>1, <3>2, Zenon
  <2>4. CASE p1 \notin B
    <3>1. (B \cup {p1}) \ {p1} = B
      BY <2>4
    <3>2. Cardinality(Slots(B \cup {p1})) = Cost(p1) + Cardinality(Slots(B))
      BY <2>2, <3>1, SlotsCounted
    <3>3. Cardinality(Slots(B \cup {p1})) = Cardinality(Slots(A))
      BY <1>5, <1>7, <3>2
    <3>4. Cardinality(Slots(A)) \in Nat
      BY <1>7, <2>1
    <3> QED
      BY <2>2, <3>3, <3>4
  <2> QED
    BY <2>2, <2>3, <2>4
<1>12. ASSUME NEW tt, AllRecords(tt) \subseteq AllRecords(ss)
       PROVE  Recount(tt) <= Credit
  <2> DEFINE T == AllRecords(tt)
  <2>1. T \in SUBSET (B \cup {p1})
    BY <1>8, <1>10, <1>12
  <2> HIDE DEF T
  <2>2. /\ Priced(T)
        /\ Cardinality(Slots(T)) \in Nat
        /\ Cardinality(Slots(T)) <= Cardinality(Slots(B \cup {p1}))
    BY <1>11, <2>1, SubsetCosts
  <2>3. Recount(tt) = Cardinality(Slots(T))
    BY <2>2, RecountIsCount DEF T
  <2>4. Recount(scopes) = Cardinality(Slots(A)) /\ Recount(scopes) <= Credit
    BY <1>4, RecountIsCount DEF A, CreditIsExact
  <2>5. Cardinality(Slots(A)) \in Nat
    BY <1>4, SubsetCosts
  <2> QED
    BY <1>11, <2>2, <2>3, <2>4, <2>5, StoreAssumption
<1>13. ASSUME NEW p \in Oldest(ss)
       PROVE  AllRecords(Without(ss, p)) \subseteq AllRecords(ss)
  <2> DEFINE tt == Without(ss, p)
  <2>1. DOMAIN tt = DOMAIN ss
    BY DEF Without
  <2>2. ASSUME NEW s \in DOMAIN ss PROVE tt[s].records \subseteq ss[s].records
    <3>1. CASE s = p[1]
      <4>1. tt[s] = [ss[s] EXCEPT !.records = ss[s].records \ {p[2]}]
        BY <2>2, <3>1 DEF Without
      <4>2. tt[s].records = ss[s].records \ {p[2]}
        BY <1>10, <2>2, <4>1 DEF Scope
      <4> QED
        BY <4>2
    <3>2. CASE s # p[1]
      BY <2>2, <3>2 DEF Without
    <3> QED
      BY <3>1, <3>2
  <2> HIDE DEF tt
  <2> QED
    BY <2>1, <2>2 DEF AllRecords, tt
<1>14. CASE Settle(ss)
  BY <1>12, <1>14 DEF Settle, CreditIsExact
<1>15. ASSUME NEW p \in Oldest(ss), Settle(Without(ss, p))
       PROVE  CreditIsExact'
  BY <1>12, <1>13, <1>15 DEF Settle, CreditIsExact
<1> QED
  BY <1>1, <1>14, <1>15 DEF ss

\* The empty store owes nothing.
LEMMA CreditInit == Init => CreditIsExact
<1> SUFFICES ASSUME Init PROVE CreditIsExact
  OBVIOUS
<1>1. Inv
  BY InitInv
<1>2. DOMAIN scopes = {} /\ retained = 0
  BY DEF Init
<1>3. AllRecords(scopes) = {}
  BY <1>2 DEF AllRecords
<1>4. Priced(AllRecords(scopes))
  <2>1. WellFormed(scopes, next_scope)
    BY <1>1 DEF Inv
  <2> QED
    BY <2>1, StoreIsPriced
<1>5. Recount(scopes) = Cardinality(Slots({}))
  BY <1>3, <1>4, RecountIsCount
<1>6. Cardinality(Slots({})) = 0
  <2>1. Slots({}) = {}
    BY DEF Slots
  <2> QED
    BY <2>1, FS_EmptySet
<1> QED
  BY <1>2, <1>5, <1>6, StoreAssumption DEF CreditIsExact

\* Every call keeps the counter exact.
LEMMA CreditNext ==
    ASSUME Inv, CreditIsExact, [Next]_vars
    PROVE  CreditIsExact'
<1>1. ASSUME NEW c \in Connections, OpenNew(c) PROVE CreditIsExact'
  BY <1>1, OpenNewCredit
<1>2. ASSUME NEW s \in ScopeId, NEW c \in Connections, Resume(s, c) PROVE CreditIsExact'
  BY <1>2, ResumeCredit
<1>3. ASSUME NEW c \in Connections, Detach(c) PROVE CreditIsExact'
  BY <1>3, DetachCredit
<1>4. ASSUME NEW c \in Connections, NEW seq \in Seq64, NEW payload \in Payloads,
             NEW gate \in BOOLEAN, Admit(c, seq, payload, gate)
      PROVE  CreditIsExact'
  BY <1>4, AdmitCredit
<1>5. ASSUME NEW s \in ScopeId, NEW seq \in Seq64, NEW o \in Outcomes, Complete(s, seq, o)
      PROVE  CreditIsExact'
  BY <1>5, CompleteCredit
<1>6. CASE Advance \/ UNCHANGED vars
  <2>1. scopes' = scopes /\ retained' = retained
    BY <1>6 DEF Advance, vars
  <2> QED
    BY <2>1 DEF CreditIsExact
<1> QED
  BY <1>1, <1>2, <1>3, <1>4, <1>5, <1>6 DEF Next

\* The running counter is the sum of the charges of the records that are kept, and
\* within the credit: what `admit_with_gate` adds one charge at a time is what
\* recount_provisioning_credit would find, after every expiry and eviction.
THEOREM CreditStaysExact == Spec => []CreditIsExact
<1>1. Inv /\ CreditIsExact /\ [Next]_vars => CreditIsExact'
  BY CreditNext
<1> QED
  BY AlwaysInv, CreditInit, <1>1, PTL DEF Spec

=============================================================================
