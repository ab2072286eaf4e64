-------------------------- MODULE OutputPermission --------------------------
(***************************************************************************)
(* One actuator's authority under every order in which the Runtime can     *)
(* call it: client commands, the lease watchdog, the simulated send, the   *)
(* physical send with its late, duplicated and stale completions, and the  *)
(* replacement of the authority by a rebind.  Each action is one call of   *)
(* an OutputAuthority method at the current owner time.                    *)
(*                                                                         *)
(* Leases, intents and dispatch ids are tokens their holders keep: a       *)
(* caller may present any token of the current or of an older instance,    *)
(* however stale.                                                          *)
(***************************************************************************)
EXTENDS OutputAuthority

CONSTANTS
    MaxTime,      \* bound on owner time
    MaxInstance,  \* bound on rebinds
    MaxAttempt    \* bound on manual attempts

ASSUME RunBoundsAssumption ==
    /\ MaxTime \in Nat
    /\ MaxInstance \in Nat \ {0}
    /\ MaxAttempt \in Nat

VARIABLES
    auth,          \* the authority
    now,           \* owner time, the `at` of every call
    next_attempt,  \* Runtime::allocate_output_attempt
    sent_safe,     \* history: the latest send was the safe write
    unknown_safe   \* history: a safe write of this instance ended unknown

vars == <<auth, now, next_attempt, sent_safe, unknown_safe>>

-----------------------------------------------------------------------------
Lifetime == 1..MaxLease
Ttl == 1..MaxTtl

\* The counter value n and the one before it.
Recent(n) == {m \in 1..n : m + 1 >= n}

\* Lease tokens in somebody's hands: the current lease, or one that a renewal,
\* a revocation or a rebind has made stale.
LeaseToken ==
    [instance : Recent(auth.instance), owner : Owner, epoch : Recent(auth.epoch),
     expires : (now + 1)..(now + MaxLease)]

\* Dispatch ids a completion, late or duplicated, may carry.
DispatchToken ==
    [instance : Recent(auth.instance), sequence : Recent(auth.next_dispatch)]

\* Intents in a transport queue: the reserved one, or a safe intent that a
\* revocation or a rebind has fenced since it was queued.
IntentToken ==
    (IF auth.transport_reserved = None THEN {} ELSE {auth.transport_reserved})
    \cup [instance : Recent(auth.instance), lease : {None},
          epoch : Recent(auth.epoch), expires : {now + 1}, safe : {TRUE},
          generation : {1}]

Init ==
    /\ auth = New(1)
    /\ now = 0
    /\ next_attempt = 1
    /\ sent_safe = FALSE
    /\ unknown_safe = FALSE

\* A call that leaves the authority `new` behind and starts no send.
Call(new) ==
    /\ auth' = new
    /\ UNCHANGED <<now, next_attempt, sent_safe, unknown_safe>>

\* A call that may start a send.
CallSend(new) ==
    /\ auth' = new
    /\ sent_safe' = IF new.next_dispatch # auth.next_dispatch
                    THEN new.in_flight.safe ELSE sent_safe
    /\ UNCHANGED <<now, next_attempt, unknown_safe>>

\* A call that declares the outcome of dispatch `id` unknown or failed.
CallUnknown(new, id) ==
    /\ auth' = new
    /\ unknown_safe' = (unknown_safe \/ (IsInFlight(auth, id) /\ auth.in_flight.safe))
    /\ UNCHANGED <<now, next_attempt, sent_safe>>

-----------------------------------------------------------------------------
(* Commands.                                                               *)

BindProfile(evidence) == Call(Bind(auth, evidence))

SafeCommand == Call(Trip(auth, FALSE))

TripCommand == Call(Trip(auth, TRUE))

AcquireLease(owner, lifetime) == Call(Acquire(auth, owner, lifetime, now))

RenewLease(lease, lifetime) == Call(Renew(auth, lease, lifetime, now))

ReleaseLease(lease) == Call(Release(auth, lease, now))

Acknowledge == Call(AcknowledgeFault(auth))

Watchdog == Call(Tick(auth, now))

\* An automatic owner proposes a value.
ProposeAutomatic(lease, ttl) ==
    /\ lease.owner \in AutomaticOwners
    /\ Call(Propose(auth, lease, ttl, now))

\* ManualOutputCommand::Write proposes and starts a correlated attempt, unless
\* an earlier one is unsettled.
ProposeManual(lease, ttl) ==
    /\ lease.owner \in ManualOwners
    /\ auth.pending = None
    /\ auth.in_flight = None
    /\ auth.manual_attempt # None => auth.manual_attempt.terminal
    /\ ProposeOk(auth, lease, ttl, now)
    /\ next_attempt <= MaxAttempt
    /\ auth' = TrackManualAttempt(Propose(auth, lease, ttl, now), next_attempt)
    /\ next_attempt' = next_attempt + 1
    /\ UNCHANGED <<now, sent_safe, unknown_safe>>

-----------------------------------------------------------------------------
(* Sends and evidence.                                                     *)

BeginDispatch == CallSend(Begin(auth, now))

ReserveIntent(deadline) == Call(ReserveTransport(auth, now, deadline, 1))

StartIntent(intent) == CallSend(BeginTransport(auth, intent, now))

AbortIntent(intent) == Call(AbortTransport(auth, intent))

FailIntent(intent) == Call(FailTransportBeforeSend(auth, intent))

CompleteDispatch(id, outcome) ==
    IF outcome \in {"Failed", "Ambiguous"}
    THEN CallUnknown(Complete(auth, id, outcome), id)
    ELSE Call(Complete(auth, id, outcome))

Uncertain(id) == CallUnknown(TransportUncertain(auth, id), id)

AckDispatch(id) == Call(AcknowledgeTransport(auth, id))

ReadbackMatches(id) == Call(CompleteTransportReadback(auth, id, TRUE))

ReadbackMismatches(id) ==
    CallUnknown(CompleteTransportReadback(auth, id, FALSE), id)

ReadbackUnavailable(id) == CallUnknown(FailTransportReadback(auth, id), id)

\* Rebind*: the Runtime discards the authority and starts a new instance.
Rebind ==
    /\ auth.instance < MaxInstance
    /\ auth' = New(auth.instance + 1)
    /\ sent_safe' = FALSE
    /\ unknown_safe' = FALSE
    /\ UNCHANGED <<now, next_attempt>>

\* Owner time passes.
Advance ==
    /\ now < MaxTime
    /\ now' = now + 1
    /\ UNCHANGED <<auth, next_attempt, sent_safe, unknown_safe>>

Next ==
    \/ \E evidence \in EvidenceLevel : BindProfile(evidence)
    \/ SafeCommand
    \/ TripCommand
    \/ \E owner \in Owner, lifetime \in Lifetime : AcquireLease(owner, lifetime)
    \/ \E lease \in LeaseToken, lifetime \in Lifetime : RenewLease(lease, lifetime)
    \/ \E lease \in LeaseToken : ReleaseLease(lease)
    \/ Acknowledge
    \/ Watchdog
    \/ \E lease \in LeaseToken, ttl \in Ttl : ProposeAutomatic(lease, ttl)
    \/ \E lease \in LeaseToken, ttl \in Ttl : ProposeManual(lease, ttl)
    \/ BeginDispatch
    \/ \E deadline \in (now + 1)..(now + MaxTtl) : ReserveIntent(deadline)
    \/ \E intent \in IntentToken : StartIntent(intent)
    \/ \E intent \in IntentToken : AbortIntent(intent)
    \/ \E intent \in IntentToken : FailIntent(intent)
    \/ \E id \in DispatchToken, outcome \in DispatchOutcome :
           CompleteDispatch(id, outcome)
    \/ \E id \in DispatchToken : Uncertain(id)
    \/ \E id \in DispatchToken : AckDispatch(id)
    \/ \E id \in DispatchToken : ReadbackMatches(id)
    \/ \E id \in DispatchToken : ReadbackMismatches(id)
    \/ \E id \in DispatchToken : ReadbackUnavailable(id)
    \/ Rebind
    \/ Advance

Spec == Init /\ [][Next]_vars

-----------------------------------------------------------------------------
(* Properties.                                                             *)

\* The authority is well-formed and the histories are truth values.
TypeOK ==
    /\ auth \in Authority
    /\ now \in Nat
    /\ next_attempt \in Nat
    /\ sent_safe \in BOOLEAN
    /\ unknown_safe \in BOOLEAN

\* Permission has one owner: the authority is armed exactly when it holds a
\* lease, the lease carries the current instance and epoch, and nothing that
\* belongs to a fault, to a safe request or to an older owner is left beside it.
OneOwner ==
    /\ auth.lease # None <=> auth.state \in Armed
    /\ auth.lease # None =>
          /\ auth.lease.instance = auth.instance
          /\ auth.lease.epoch = auth.epoch
          /\ ~auth.fault_latched
          /\ ~auth.safe_obligation_pending
          /\ auth.in_flight # None =>
                ~auth.in_flight.safe /\ auth.in_flight.epoch = auth.epoch
    /\ auth.pending # None => auth.pending.lease = auth.lease

\* "Disarmed" is earned: the last bytes sent were the safe write, they were
\* answered with the evidence the profile asks for, and nothing is under way.
DisarmedIsProved ==
    auth.state = "Disarmed" =>
        /\ sent_safe
        /\ auth.acknowledged = auth.sent
        /\ auth.profile = "Readback" => auth.readback = auth.sent
        /\ CanPrepare(auth)

\* A pending safe state is never forgotten: either it is still owed, or the
\* safe write for exactly this epoch is in flight.
SafePendingHasWork ==
    auth.state = "SafePending" =>
        \/ auth.safe_obligation_pending
        \/ /\ auth.in_flight # None
           /\ auth.in_flight.safe
           /\ auth.in_flight.epoch = auth.epoch

\* An ambiguous safe write preserves the facts the safety document lists: the
\* obligation stands, resend is blocked, nothing is confirmed and normal
\* output is prohibited.
AmbiguousSafeFailsClosed ==
    auth.ambiguous_safe_resend_blocked =>
        /\ auth.safe_obligation_pending
        /\ ~auth.safe_confirmed
        /\ auth.fault_latched
        /\ auth.lease = None
        /\ auth.transport_reserved = None

\* A step in which bytes start to move.
SendStarts ==
    auth'.instance = auth.instance /\ auth'.next_dispatch # auth.next_dispatch

\* A safe write whose outcome is unknown is not repeated by this instance, as long
\* as epochs are left: `complete` raises the safe request first, and does not reach
\* the block where that request is refused.
NoSafeResend ==
    [][SendStarts /\ unknown_safe => auth.epoch = MaxEpoch]_vars

\* A normal write starts only under the lease that is current at that moment,
\* before it expires, and with no safe request outstanding, however long its
\* proposal and its reservation waited.
NormalSendIsOwned ==
    [][SendStarts /\ ~auth'.in_flight.safe =>
          /\ auth.lease # None
          /\ now < auth.lease.expires
          /\ auth'.in_flight.epoch = auth.lease.epoch
          /\ ~auth.safe_obligation_pending
          /\ auth.in_flight = None]_vars

\* Revocation is final: within an instance the epoch never falls, and a lease
\* appears only at an epoch no earlier lease or intent of it can carry.
NoResurrection ==
    [][auth'.instance = auth.instance =>
          /\ auth'.epoch >= auth.epoch
          /\ auth.lease = None /\ auth'.lease # None =>
                auth'.epoch > auth.epoch /\ auth.safe_confirmed]_vars

-----------------------------------------------------------------------------
\* Every part of the authority agrees with every other: the invariant that
\* each method of OutputAuthority preserves whatever its caller presents.
Inv == TypeOK /\ Sound(auth, sent_safe, unknown_safe)

=============================================================================
