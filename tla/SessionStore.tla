---------------------------- MODULE SessionStore ----------------------------
(***************************************************************************)
(* The store of client scopes and accepted operations, `SessionStore`      *)
(* (apps/lab-runtime/src/sessions.rs), called by the Application for every *)
(* connection.  A scope outlives its connection; an operation is accepted  *)
(* under the next sequence number of its scope, runs whatever becomes of   *)
(* the client, and its outcome is kept for a while.  Records expire, are   *)
(* evicted and disappear with their scope: an identity must not be run     *)
(* again for all that.                                                     *)
(*                                                                         *)
(* Abstractions.  A scope id is its counter (the boot id is one process).  *)
(* The records of a scope are a set: their order is that of `seq`.  An     *)
(* outcome is a value; its size limit is left out, and so is the refusal   *)
(* of requests by a service that stops.  A connection that comes back is   *)
(* a new one.  The u64 counters end at MaxScopeId and MaxSeq.              *)
(***************************************************************************)
EXTENDS Naturals, FiniteSets, FiniteSetsExt

CONSTANTS
    Connections,       \* connection numbers
    Payloads,          \* normalized mutations
    Outcomes,          \* terminal operation states
    Charge,            \* provisioning_charge
    MaxScopes,         \* MAX_SCOPES
    MaxPending,        \* MAX_PENDING
    MaxPendingScope,   \* MAX_PENDING_SCOPE
    MaxTerminal,       \* MAX_TERMINAL
    MaxTerminalScope,  \* MAX_TERMINAL_SCOPE
    Credit,            \* PROVISIONING_RETAINED_BYTES
    TerminalTtl,       \* TERMINAL_TTL
    IdleScopeTtl,      \* IDLE_SCOPE_TTL
    MaxScopeId,        \* the last scope counter
    MaxSeq,            \* the last sequence number
    MaxTime,           \* bound on owner time
    None               \* Option::None

ASSUME StoreAssumption ==
    /\ MaxScopeId \in Nat
    /\ MaxSeq \in Nat
    /\ MaxTime \in Nat
    /\ Charge \in [Payloads -> Nat]
    /\ Credit \in Nat
    /\ None \notin Outcomes
    /\ None \notin Connections

VARIABLES
    scopes,      \* live scopes, by id
    next_scope,  \* the id of the next new scope
    retained,    \* retained_provisioning_bytes
    clients,     \* Application::clients, the scope of each connection
    now,         \* owner time
    executed,    \* history: identities that were accepted, to be run
    outcome,     \* history: the first outcome of every identity that has one
    repeated     \* history: some identity was accepted twice

vars == <<scopes, next_scope, retained, clients, now, executed, outcome, repeated>>

-----------------------------------------------------------------------------
(* Records and scopes.                                                     *)

ScopeId == 1..MaxScopeId

Seq64 == 1..MaxSeq

Identity == ScopeId \X Seq64

\* state is None while the operation is Accepted.
Record ==
    [seq : Seq64, payload : Payloads, state : Outcomes \cup {None},
     terminal_at : Nat]

Scope ==
    [attached : Connections \cup {None}, high_water : 0..MaxSeq,
     last_active : Nat, records : SUBSET Record]

Terminal(records) == {r \in records : r.state # None}

Pending(records) == records \ Terminal(records)

\* Every record of the store, with its scope.
AllRecords(ss) == UNION {{s} \X ss[s].records : s \in DOMAIN ss}

CountPending(ss) == Cardinality({p \in AllRecords(ss) : p[2].state = None})

\* recount_provisioning_credit.
Recount(ss) == MapThenSumSet(LAMBDA p : Charge[p[2].payload], AllRecords(ss))

\* Whether a record survives `expire`: a pending operation always does.
Fresh(r, t) == r.state = None \/ t < r.terminal_at + TerminalTtl

\* Mutant: a detached scope goes although its work has not ended.
LiveIdle(scope, t) == scope.attached # None \/ t < scope.last_active + IdleScopeTtl

\* Whether a scope survives it: an attached one, or one with work, always does.
Live(scope, t) ==
    \/ scope.attached # None
    \/ Pending(scope.records) # {}
    \/ t < scope.last_active + IdleScopeTtl

Expire(ss, t) ==
    [s \in {s \in DOMAIN ss : Live(ss[s], t)} |->
        [ss[s] EXCEPT !.records = {r \in @ : Fresh(r, t)}]]

\* enforce_terminal_bounds, in one scope: the newest outcomes stay.
Newest(records) ==
    {r \in records :
        \/ r.state = None
        \/ Cardinality({t \in Terminal(records) : t.seq > r.seq}) < MaxTerminalScope}

\* ... and over all scopes: the outcome that was stored first goes.  Of several
\* stored at one time any may be the first in the store's order.
Oldest(ss) ==
    {p \in AllRecords(ss) :
        /\ p[2].state # None
        /\ \A q \in AllRecords(ss) :
              q[2].state # None => p[2].terminal_at <= q[2].terminal_at}

CountTerminal(ss) == Cardinality({p \in AllRecords(ss) : p[2].state # None})

Without(ss, p) == [ss EXCEPT ![p[1]].records = @ \ {p[2]}]

-----------------------------------------------------------------------------
Init ==
    /\ scopes = [s \in {} |-> None]
    /\ next_scope = 1
    /\ retained = 0
    /\ clients = [connection \in Connections |-> None]
    /\ now = 0
    /\ executed = {}
    /\ outcome = [id \in {} |-> None]
    /\ repeated = FALSE

\* Mutant: credit is given back only by a completion.
SettleKeepsCredit(ss) == scopes' = ss /\ UNCHANGED retained

\* The store after a call that expires first and then leaves `ss`.
Settle(ss) == scopes' = ss /\ retained' = Recount(ss)

Greet(connection, s) == clients' = [clients EXCEPT ![connection] = s]

\* A hello without an old scope.
OpenNew(connection) ==
    LET ss == Expire(scopes, now)
        new == [attached |-> connection, high_water |-> 0, last_active |-> now,
                records |-> {}]
    IN  /\ clients[connection] = None
        /\ IF Cardinality(DOMAIN ss) < MaxScopes /\ next_scope \in ScopeId
           THEN /\ Settle([s \in DOMAIN ss \cup {next_scope} |->
                              IF s = next_scope THEN new ELSE ss[s]])
                /\ next_scope' = next_scope + 1
                /\ Greet(connection, next_scope)
           ELSE Settle(ss) /\ UNCHANGED <<next_scope, clients>>
        /\ UNCHANGED <<now, executed, outcome, repeated>>

ResumeOk(ss, s, connection) == s \in DOMAIN ss /\ ss[s].attached \in {None, connection}

\* A hello with the scope of an earlier connection.  When the sequence numbers of
\* the scope are used up the hello fails, with the scope attached.
Resume(s, connection) ==
    LET ss == Expire(scopes, now)
    IN  /\ clients[connection] = None
        /\ IF ResumeOk(ss, s, connection)
           THEN /\ Settle([ss EXCEPT ![s].attached = connection, ![s].last_active = now])
                /\ IF ss[s].high_water < MaxSeq THEN Greet(connection, s) ELSE UNCHANGED clients
           ELSE Settle(ss) /\ UNCHANGED clients
        /\ UNCHANGED <<next_scope, now, executed, outcome, repeated>>

Detach(connection) ==
    /\ scopes' = [s \in DOMAIN scopes |->
           IF scopes[s].attached = connection
           THEN [scopes[s] EXCEPT !.attached = None, !.last_active = now]
           ELSE scopes[s]]
    /\ Greet(connection, None)
    /\ UNCHANGED <<next_scope, retained, now, executed, outcome, repeated>>

\* Mutant: a sequence number without a record is a new one.
NewIdentityEvicted(scope, seq) ==
    /\ \A r \in scope.records : r.seq # seq
    /\ seq <= scope.high_water + 1

\* The identity is new: not recorded, and the next of its scope.
NewIdentity(scope, seq) ==
    /\ \A r \in scope.records : r.seq # seq
    /\ seq = scope.high_water + 1

Capacity(ss, s, payload) ==
    /\ Cardinality(Pending(ss[s].records)) < MaxPendingScope
    /\ CountPending(ss) < MaxPending
    /\ Recount(ss) + Charge[payload] <= Credit

\* A mutation of a greeted client, in its scope, and admit_with_gate; `gate` is
\* the answer of the caller's resource gate.
Admit(connection, seq, payload, gate) ==
    LET ss == Expire(scopes, now)
        s == clients[connection]
        record == [seq |-> seq, payload |-> payload, state |-> None, terminal_at |-> 0]
    IN  /\ s # None
        /\ IF s \in DOMAIN ss /\ NewIdentity(ss[s], seq) /\ Capacity(ss, s, payload) /\ gate
           THEN /\ scopes' = [ss EXCEPT ![s].high_water = seq, ![s].last_active = now,
                                        ![s].records = @ \cup {record}]
                /\ retained' = Recount(ss) + Charge[payload]
                /\ executed' = executed \cup {<<s, seq>>}
                /\ repeated' = (repeated \/ <<s, seq>> \in executed)
           ELSE Settle(ss) /\ UNCHANGED <<executed, repeated>>
        /\ UNCHANGED <<next_scope, clients, now, outcome>>

\* The record `complete` would end: recorded, and not ended yet.
Completable(s, seq) ==
    IF s \in DOMAIN scopes
    THEN {r \in Pending(scopes[s].records) : r.seq = seq} ELSE {}

\* The outcome is stored and the bound of every scope enforced.
Stored(s, r, o) ==
    LET ended == [scopes EXCEPT ![s].records =
                     (@ \ {r}) \cup {[r EXCEPT !.state = o, !.terminal_at = now]}]
    IN  [t \in DOMAIN ended |-> [ended[t] EXCEPT !.records = Newest(@)]]

\* complete, by whoever ran the operation.  One outcome is added to a store
\* within its bounds, so at most one is evicted on behalf of the whole store.
Complete(s, seq, o) ==
    \E r \in Completable(s, seq) :
        LET ss == Stored(s, r, o)
        IN  /\ IF CountTerminal(ss) > MaxTerminal
               THEN \E p \in Oldest(ss) : Settle(Without(ss, p))
               ELSE Settle(ss)
            /\ outcome' = IF <<s, seq>> \in DOMAIN outcome THEN outcome
                          ELSE [id \in DOMAIN outcome \cup {<<s, seq>>} |->
                                   IF id = <<s, seq>> THEN o ELSE outcome[id]]
            /\ UNCHANGED <<next_scope, clients, now, executed, repeated>>

Advance ==
    /\ now < MaxTime
    /\ now' = now + 1
    /\ UNCHANGED <<scopes, next_scope, retained, clients, executed, outcome, repeated>>

Next ==
    \/ \E connection \in Connections : OpenNew(connection)
    \/ \E s \in ScopeId, connection \in Connections : Resume(s, connection)
    \/ \E connection \in Connections : Detach(connection)
    \/ \E connection \in Connections, seq \in Seq64, payload \in Payloads, gate \in BOOLEAN :
           Admit(connection, seq, payload, gate)
    \/ \E s \in ScopeId, seq \in Seq64, o \in Outcomes : Complete(s, seq, o)
    \/ Advance

Spec == Init /\ [][Next]_vars

-----------------------------------------------------------------------------
(* Properties.                                                             *)

\* The store is well-formed; its records are below the high-water mark of their
\* scope, one for each sequence number.
TypeOK ==
    /\ DOMAIN scopes \subseteq ScopeId
    /\ \A s \in DOMAIN scopes :
          /\ scopes[s] \in Scope
          /\ s < next_scope
          /\ \A r \in scopes[s].records : r.seq <= scopes[s].high_water
          /\ \A r, t \in scopes[s].records : r.seq = t.seq => r = t
    /\ next_scope \in Nat
    /\ clients \in [Connections -> ScopeId \cup {None}]
    /\ now \in Nat
    /\ executed \subseteq Identity
    /\ repeated \in BOOLEAN

\* An accepted identity is never accepted, and so never run, again: not after its
\* outcome was evicted or expired, nor after its scope went and others came.
ExecutedOnce == ~repeated

\* The expect() calls of the Application hold: the record of an operation that
\* has not ended is there when its outcome arrives, however long that takes and
\* whether or not the client is still attached.
PendingIsKept ==
    \A s \in ScopeId, seq \in Seq64 :
        <<s, seq>> \in executed /\ <<s, seq>> \notin DOMAIN outcome =>
            Completable(s, seq) # {}

\* The scope a client was given stays its own until it detaches: it does not
\* expire under the client and no other connection takes it.
ScopeIsExclusive ==
    \A connection \in Connections :
        LET s == clients[connection]
        IN  s # None => s \in DOMAIN scopes /\ scopes[s].attached = connection

\* The outcome a client can read is the first one: a late or second completion
\* does not replace it.
FirstOutcomeStands ==
    \A s \in DOMAIN scopes : \A r \in Terminal(scopes[s].records) :
        <<s, r.seq>> \in DOMAIN outcome /\ r.state = outcome[<<s, r.seq>>]

\* The provisioning credit in use is that of the records that are there.
CreditIsExact == retained = Recount(scopes) /\ retained <= Credit

-----------------------------------------------------------------------------
(* The inductive invariant, of a store `ss` with its counter, the clients, *)
(* the accepted identities and their outcomes.                             *)

WellFormed(ss, ns) ==
    /\ DOMAIN ss \subseteq ScopeId
    /\ \A s \in DOMAIN ss :
          /\ ss[s] \in Scope
          /\ s < ns
          /\ \A r \in ss[s].records : r.seq <= ss[s].high_water
          /\ \A r, t \in ss[s].records : r.seq = t.seq => r = t

Attached(ss, cl) ==
    \A connection \in Connections :
        cl[connection] # None =>
            /\ cl[connection] \in DOMAIN ss
            /\ ss[cl[connection]].attached = connection

\* An accepted identity lies behind the counters that give out identities.
Behind(ss, ns, ex) ==
    \A id \in ex : id[1] < ns /\ (id[1] \in DOMAIN ss => id[2] <= ss[id[1]].high_water)

\* An accepted identity that has no outcome has its pending record.
Kept(ss, ex, out) ==
    \A id \in ex :
        id \notin out =>
            /\ id[1] \in DOMAIN ss
            /\ \E r \in ss[id[1]].records : r.state = None /\ r.seq = id[2]

\* A record is of an accepted identity; it is pending or shows the first outcome.
Recorded(ss, ex, out) ==
    \A s \in DOMAIN ss : \A r \in ss[s].records :
        /\ <<s, r.seq>> \in ex
        /\ r.state = None => <<s, r.seq>> \notin DOMAIN out
        /\ r.state # None => <<s, r.seq>> \in DOMAIN out /\ out[<<s, r.seq>>] = r.state

\* What every call leaves behind: the properties above and what they need.
Inv ==
    /\ next_scope \in Nat /\ now \in Nat /\ executed \subseteq Identity
    /\ clients \in [Connections -> ScopeId \cup {None}]
    /\ DOMAIN outcome \subseteq executed
    /\ repeated = FALSE
    /\ WellFormed(scopes, next_scope)
    /\ Attached(scopes, clients)
    /\ Behind(scopes, next_scope, executed)
    /\ Kept(scopes, executed, DOMAIN outcome)
    /\ Recorded(scopes, executed, outcome)

=============================================================================
