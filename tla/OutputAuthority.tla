-------------------------- MODULE OutputAuthority --------------------------
(***************************************************************************)
(* The output-permission state machine of one actuator, `OutputAuthority`  *)
(* (crates/lab-core/src/output/authority.rs).  Every method of the Rust    *)
(* type that changes state is one operator from an authority record to the *)
(* authority record it leaves behind, whether the method returns Ok or     *)
(* Err: several of them mutate before they fail.  Where a caller branches  *)
(* on the result, a predicate ...Ok names the Ok case.                     *)
(*                                                                         *)
(* Abstractions.  Engineering values, units and ranges are left out: a     *)
(* write is either the safe write or a normal one.  An observation (value, *)
(* time) is the sequence number of the dispatch it is evidence for.  The   *)
(* u64 counters end at MaxEpoch and MaxDispatch instead of 2^64 - 1.  A    *)
(* profile is its required evidence; its max_lease and max_proposal_ttl    *)
(* are the constants MaxLease and MaxTtl.  The binding generation and the  *)
(* mapping revision of an intent are one number, `generation`.             *)
(***************************************************************************)
EXTENDS Naturals

CONSTANTS
    ManualOwners,     \* OutputOwner::Manual(_)
    AutomaticOwners,  \* OutputOwner::Automatic(_)
    MaxEpoch,         \* the last epoch checked_add can produce
    MaxDispatch,      \* the last value of next_dispatch
    MaxLease,         \* SafeProfile.max_lease
    MaxTtl,           \* SafeProfile.max_proposal_ttl
    None              \* Option::None

ASSUME BoundsAssumption ==
    /\ MaxEpoch \in Nat
    /\ MaxDispatch \in Nat \ {0}
    /\ MaxLease \in Nat
    /\ MaxTtl \in Nat

ASSUME OwnersAssumption == ManualOwners \cap AutomaticOwners = {}

-----------------------------------------------------------------------------
(* The values an authority is made of.                                     *)

Owner == ManualOwners \cup AutomaticOwners

Armed == {"ArmedManual", "ArmedAuto"}

OutputState == {"Unverified", "SafePending", "Disarmed", "FaultLatched"} \cup Armed

EvidenceLevel == {"Acknowledgement", "Readback"}

DispatchOutcome == {"Acknowledged", "ReadbackVerified", "Failed", "Ambiguous"}

ReadbackFailure == {"Mismatch", "Unavailable"}

OutputLease ==
    [instance : Nat, owner : Owner, epoch : Nat, expires : Nat]

Pending == [lease : OutputLease, expires : Nat]

OutputIntent ==
    [instance : Nat, lease : OutputLease \cup {None}, epoch : Nat,
     expires : Nat, safe : BOOLEAN, generation : Nat]

DispatchId == [instance : Nat, sequence : Nat]

Dispatch == [id : DispatchId, safe : BOOLEAN, epoch : Nat]

ManualAttempt ==
    [id : Nat, dispatch : DispatchId \cup {None}, terminal : BOOLEAN,
     outcome : DispatchOutcome \cup {None},
     acknowledged : Nat, readback : Nat]

ASSUME NoneAssumption ==
    /\ None \notin OutputLease
    /\ None \notin Pending
    /\ None \notin OutputIntent
    /\ None \notin DispatchId
    /\ None \notin Dispatch
    /\ None \notin ManualAttempt
    /\ None \notin EvidenceLevel
    /\ None \notin DispatchOutcome
    /\ None \notin ReadbackFailure

Epoch == 0..MaxEpoch

Sequence == 1..MaxDispatch

Authority ==
    [instance : Nat,
     profile : EvidenceLevel \cup {None},
     state : OutputState,
     lease : OutputLease \cup {None},
     epoch : Epoch,
     fault_latched : BOOLEAN,
     safe_confirmed : BOOLEAN,
     pending : Pending \cup {None},
     transport_reserved : OutputIntent \cup {None},
     in_flight : Dispatch \cup {None},
     safe_obligation_pending : BOOLEAN,
     ambiguous_safe_resend_blocked : BOOLEAN,
     next_dispatch : Sequence,
     sent : Nat,
     acknowledged : Nat,
     readback : Nat,
     readback_failure : ReadbackFailure \cup {None},
     outcome : DispatchOutcome \cup {None},
     manual_attempt : ManualAttempt \cup {None}]

\* OutputAuthority::new: nothing is known of the device.
New(instance) ==
    [instance |-> instance,
     profile |-> None,
     state |-> "Unverified",
     lease |-> None,
     epoch |-> 0,
     fault_latched |-> FALSE,
     safe_confirmed |-> FALSE,
     pending |-> None,
     transport_reserved |-> None,
     in_flight |-> None,
     safe_obligation_pending |-> FALSE,
     ambiguous_safe_resend_blocked |-> FALSE,
     next_dispatch |-> 1,
     sent |-> 0,
     acknowledged |-> 0,
     readback |-> 0,
     readback_failure |-> None,
     outcome |-> None,
     manual_attempt |-> None]

-----------------------------------------------------------------------------
(* Manual correlation.                                                     *)

\* The attempt that has not yet settled and has no dispatch of its own.
UnsentAttempt(a) ==
    /\ a.manual_attempt # None
    /\ ~a.manual_attempt.terminal
    /\ a.manual_attempt.dispatch = None

TrackManualAttempt(a, id) ==
    [a EXCEPT !.manual_attempt =
        [id |-> id, dispatch |-> None, terminal |-> FALSE, outcome |-> None,
         acknowledged |-> 0, readback |-> 0]]

FailManualBeforeSend(a) ==
    IF UnsentAttempt(a)
    THEN [a EXCEPT !.manual_attempt =
             [@ EXCEPT !.terminal = TRUE, !.outcome = "Failed"]]
    ELSE a

ManualSendStarted(a, dispatch) ==
    IF ~dispatch.safe /\ UnsentAttempt(a)
    THEN [a EXCEPT !.manual_attempt = [@ EXCEPT !.dispatch = dispatch.id]]
    ELSE a

CaptureManualDelivery(a, id, terminal) ==
    IF /\ a.manual_attempt # None
       /\ ~a.manual_attempt.terminal
       /\ a.manual_attempt.dispatch = id
    THEN [a EXCEPT !.manual_attempt =
             [@ EXCEPT !.terminal = terminal,
                       !.outcome = IF terminal THEN a.outcome ELSE None,
                       !.acknowledged = a.acknowledged,
                       !.readback = a.readback]]
    ELSE a

-----------------------------------------------------------------------------
(* Epochs and the safe request.                                            *)

ClearPending(a) == [a EXCEPT !.pending = None]

\* bump_epoch: the epoch advances, or the authority is exhausted for good.
BumpEpochOk(a) == a.epoch < MaxEpoch

\* Exhaustion revokes the lease and latches the fault; the epoch never wraps.
Exhausted(a) ==
    [a EXCEPT !.lease = None,
              !.fault_latched = TRUE,
              !.safe_confirmed = FALSE,
              !.state = "FaultLatched",
              !.pending = None]

RequestSafe(a, fault) ==
    LET m == FailManualBeforeSend(a)
    IN  IF BumpEpochOk(a)
        THEN [m EXCEPT !.epoch = a.epoch + 1,
                       !.lease = None,
                       !.fault_latched = a.fault_latched \/ fault,
                       !.safe_confirmed = FALSE,
                       !.state = IF a.ambiguous_safe_resend_blocked
                                 THEN "FaultLatched" ELSE "SafePending",
                       !.safe_obligation_pending = TRUE,
                       !.transport_reserved = None,
                       !.pending = None]
        ELSE Exhausted(m)

\* Mutant: an unknown safe write is owed again like any other.
FailClosedUnblocked(a, dispatch) == RequestSafe(a, TRUE)

\* The tail shared by complete and transport_uncertain: a started write whose
\* outcome is unknown revokes; if it was the safe write, it also blocks resend.
FailClosed(a, dispatch) ==
    LET b == RequestSafe(a, TRUE)
    IN  IF dispatch.safe /\ BumpEpochOk(a)
        THEN [b EXCEPT !.ambiguous_safe_resend_blocked = TRUE,
                       !.state = "FaultLatched"]
        ELSE b

-----------------------------------------------------------------------------
(* Leases and proposals.                                                   *)

CheckLease(a, lease, at) ==
    /\ at < lease.expires
    /\ a.lease = lease
    /\ lease.instance = a.instance
    /\ lease.epoch = a.epoch
    /\ a.state \in Armed

ValidLifetime(lifetime) == lifetime > 0 /\ lifetime <= MaxLease

CanPrepare(a) ==
    /\ a.state = "Disarmed"
    /\ a.safe_confirmed
    /\ a.lease = None
    /\ a.pending = None
    /\ a.transport_reserved = None
    /\ a.in_flight = None
    /\ ~a.safe_obligation_pending

BindOk(a) == a.state \in {"Unverified", "Disarmed"} /\ a.in_flight = None

Bind(a, evidence) ==
    IF ~BindOk(a) THEN a
    ELSE IF BumpEpochOk(a)
    THEN [a EXCEPT !.epoch = a.epoch + 1,
                   !.profile = evidence,
                   !.state = "Unverified",
                   !.safe_confirmed = FALSE,
                   !.pending = None]
    ELSE Exhausted(a)

AcquireOk(a, lifetime) ==
    /\ a.state = "Disarmed"
    /\ a.safe_confirmed
    /\ a.profile # None
    /\ ValidLifetime(lifetime)

Acquire(a, owner, lifetime, at) ==
    IF ~AcquireOk(a, lifetime) THEN a
    ELSE IF BumpEpochOk(a)
    THEN [a EXCEPT !.epoch = a.epoch + 1,
                   !.lease = [instance |-> a.instance, owner |-> owner,
                              epoch |-> a.epoch + 1, expires |-> at + lifetime],
                   !.safe_confirmed = FALSE,
                   !.state = IF owner \in ManualOwners
                             THEN "ArmedManual" ELSE "ArmedAuto"]
    ELSE Exhausted(a)

RenewOk(a, lease, lifetime, at) ==
    /\ CheckLease(a, lease, at)
    /\ a.state \in Armed
    /\ ~a.fault_latched
    /\ ~a.safe_obligation_pending
    /\ a.pending = None
    /\ a.transport_reserved = None
    /\ a.in_flight = None
    /\ a.profile # None
    /\ ValidLifetime(lifetime)
    /\ at + lifetime > lease.expires

\* renew: RenewManual for a manual owner, renew_native for an automatic one.
Renew(a, lease, lifetime, at) ==
    IF RenewOk(a, lease, lifetime, at)
    THEN [a EXCEPT !.lease = [lease EXCEPT !.expires = at + lifetime]]
    ELSE a

Release(a, lease, at) ==
    IF CheckLease(a, lease, at) THEN RequestSafe(a, FALSE) ELSE a

Tick(a, at) ==
    IF a.lease # None /\ at >= a.lease.expires THEN RequestSafe(a, FALSE) ELSE a

Trip(a, fault) == IF a.profile # None THEN RequestSafe(a, fault) ELSE a

AcknowledgeFaultOk(a) ==
    /\ a.state = "FaultLatched"
    /\ a.safe_confirmed
    /\ a.in_flight = None
    /\ ~a.safe_obligation_pending

AcknowledgeFault(a) ==
    IF AcknowledgeFaultOk(a)
    THEN [a EXCEPT !.fault_latched = FALSE, !.state = "Disarmed"]
    ELSE a

ProposeOk(a, lease, ttl, at) ==
    /\ CheckLease(a, lease, at)
    /\ a.profile # None
    /\ ttl > 0 /\ ttl <= MaxTtl
    /\ a.pending = None

Earlier(s, t) == IF s <= t THEN s ELSE t

Propose(a, lease, ttl, at) ==
    IF ProposeOk(a, lease, ttl, at)
    THEN [a EXCEPT !.pending = [lease |-> lease,
                                expires |-> Earlier(at + ttl, lease.expires)]]
    ELSE a

-----------------------------------------------------------------------------
(* Sending.                                                                *)

\* What both send boundaries, simulated and physical, record of a new dispatch:
\* evidence for an older send must not masquerade as evidence for this one.
Started(a, safe, epoch) ==
    LET dispatch == [id |-> [instance |-> a.instance, sequence |-> a.next_dispatch],
                     safe |-> safe, epoch |-> epoch]
    IN  ManualSendStarted(
          [a EXCEPT !.next_dispatch = @ + 1,
                    !.safe_confirmed = FALSE,
                    !.in_flight = dispatch,
                    !.sent = a.next_dispatch,
                    !.acknowledged = 0,
                    !.readback = 0,
                    !.readback_failure = None,
                    !.outcome = None],
          dispatch)

\* begin: the simulated send.  A pending proposal that no longer passes the
\* final check is dropped.
BeginSafe(a) == a.safe_obligation_pending

BeginOk(a, at) ==
    /\ a.in_flight = None /\ a.transport_reserved = None
    /\ IF BeginSafe(a)
       THEN ~a.ambiguous_safe_resend_blocked /\ a.profile # None
       ELSE /\ a.pending # None
            /\ CheckLease(a, a.pending.lease, at)
            /\ at < a.pending.expires
    /\ a.next_dispatch < MaxDispatch

BeginDropsPending(a, at) ==
    /\ a.in_flight = None /\ a.transport_reserved = None
    /\ ~BeginSafe(a)
    /\ a.pending # None
    /\ ~CheckLease(a, a.pending.lease, at) \/ at >= a.pending.expires

Begin(a, at) ==
    IF BeginOk(a, at)
    THEN Started([a EXCEPT !.pending = None, !.safe_obligation_pending = FALSE],
                 BeginSafe(a), a.epoch)
    ELSE IF BeginDropsPending(a, at) THEN ClearPending(a)
    ELSE a

ReserveOk(a, at, deadline, generation) ==
    /\ a.in_flight = None /\ a.transport_reserved = None
    /\ at < deadline /\ generation # 0
    /\ IF a.safe_obligation_pending
       THEN ~a.ambiguous_safe_resend_blocked /\ a.profile # None
       ELSE /\ a.pending # None
            /\ CheckLease(a, a.pending.lease, at)
            /\ at < a.pending.expires

\* The intent reserve_transport hands to the transport queue.
ReservedIntent(a, deadline, generation) ==
    IF a.safe_obligation_pending
    THEN [instance |-> a.instance, lease |-> None, epoch |-> a.epoch,
          expires |-> deadline, safe |-> TRUE, generation |-> generation]
    ELSE [instance |-> a.instance, lease |-> a.pending.lease, epoch |-> a.epoch,
          expires |-> Earlier(a.pending.expires, deadline), safe |-> FALSE,
          generation |-> generation]

ReserveDropsPending(a, at, deadline, generation) ==
    /\ a.in_flight = None /\ a.transport_reserved = None
    /\ at < deadline /\ generation # 0
    /\ ~a.safe_obligation_pending
    /\ a.pending # None
    /\ CheckLease(a, a.pending.lease, at)
    /\ at >= a.pending.expires

ReserveTransport(a, at, deadline, generation) ==
    IF ReserveOk(a, at, deadline, generation)
    THEN [a EXCEPT !.transport_reserved = ReservedIntent(a, deadline, generation)]
    ELSE IF ReserveDropsPending(a, at, deadline, generation) THEN ClearPending(a)
    ELSE a

\* Mutant: holding the reservation is taken for permission to send.
ValidateTransportByToken(a, intent, at) ==
    /\ a.transport_reserved = intent
    /\ a.in_flight = None
    /\ a.profile # None

\* validate_transport: the check repeated immediately before the first byte.
ValidateTransport(a, intent, at) ==
    /\ a.transport_reserved = intent
    /\ intent.instance = a.instance
    /\ intent.epoch = a.epoch
    /\ at < intent.expires
    /\ a.in_flight = None
    /\ a.profile # None
    /\ IF intent.safe
       THEN a.safe_obligation_pending /\ intent.lease = None
       ELSE intent.lease # None /\ CheckLease(a, intent.lease, at)

BeginTransportOk(a, intent, at) ==
    ValidateTransport(a, intent, at) /\ a.next_dispatch < MaxDispatch

BeginTransport(a, intent, at) ==
    IF BeginTransportOk(a, intent, at)
    THEN Started([a EXCEPT !.transport_reserved = None,
                           !.safe_obligation_pending = @ /\ ~intent.safe,
                           !.pending = IF intent.safe THEN @ ELSE None],
                 intent.safe, intent.epoch)
    ELSE a

AbortTransport(a, intent) ==
    IF a.transport_reserved # intent THEN a
    ELSE IF intent.safe THEN [a EXCEPT !.transport_reserved = None]
    ELSE FailManualBeforeSend(
           [a EXCEPT !.transport_reserved = None, !.pending = None])

FailTransportBeforeSend(a, intent) ==
    IF a.transport_reserved = intent
    THEN [AbortTransport(a, intent) EXCEPT !.outcome = "Failed"]
    ELSE a

-----------------------------------------------------------------------------
(* Evidence.                                                               *)

IsInFlight(a, id) == a.in_flight # None /\ a.in_flight.id = id

\* Whether the profile accepts this outcome as proof of the safe state.
Sufficient(a, outcome) ==
    outcome = "ReadbackVerified" \/ a.profile = "Acknowledgement"

\* Mutant: an obsolete safe write confirms the newer request.
ConfirmSafeAnyEpoch(a, dispatch, outcome) ==
    IF dispatch.safe
    THEN LET fault == a.fault_latched \/ ~Sufficient(a, outcome)
         IN  [a EXCEPT !.safe_confirmed = Sufficient(a, outcome),
                       !.fault_latched = fault,
                       !.state = IF fault THEN "FaultLatched" ELSE "Disarmed"]
    ELSE a

\* A safe write of the current epoch settles; an obsolete one changes nothing.
ConfirmSafe(a, dispatch, outcome) ==
    IF dispatch.safe /\ dispatch.epoch = a.epoch
    THEN LET fault == a.fault_latched \/ ~Sufficient(a, outcome)
         IN  [a EXCEPT !.safe_confirmed = Sufficient(a, outcome),
                       !.fault_latched = fault,
                       !.state = IF fault THEN "FaultLatched" ELSE "Disarmed"]
    ELSE a

Complete(a, id, outcome) ==
    IF ~IsInFlight(a, id) THEN a
    ELSE LET dispatch == a.in_flight
             settled ==
                 [a EXCEPT !.in_flight = None,
                           !.outcome = outcome,
                           !.acknowledged =
                               IF outcome \in {"Acknowledged", "ReadbackVerified"}
                               THEN id.sequence ELSE @,
                           !.readback =
                               IF outcome = "ReadbackVerified" THEN id.sequence ELSE @]
             captured == CaptureManualDelivery(settled, id, TRUE)
         IN  IF outcome \in {"Failed", "Ambiguous"}
             THEN FailClosed(captured, dispatch)
             ELSE ConfirmSafe(captured, dispatch, outcome)

TransportUncertain(a, id) ==
    IF IsInFlight(a, id) THEN FailClosed(a, a.in_flight) ELSE a

AcknowledgeTransport(a, id) ==
    IF IsInFlight(a, id)
    THEN CaptureManualDelivery(
           [a EXCEPT !.acknowledged = id.sequence, !.outcome = "Acknowledged"],
           id, FALSE)
    ELSE a

CompleteTransportReadback(a, id, matched) ==
    IF ~IsInFlight(a, id) THEN a
    ELSE IF matched THEN Complete(a, id, "ReadbackVerified")
    ELSE Complete([a EXCEPT !.readback_failure = "Mismatch"], id, "Failed")

\* The failure is recorded before the dispatch is checked.
FailTransportReadback(a, id) ==
    Complete([a EXCEPT !.readback_failure = "Unavailable"], id, "Ambiguous")

-----------------------------------------------------------------------------
(* How the parts of an authority agree, one conjunct per field: the        *)
(* invariant of every method, whatever its caller presents.  `s` is        *)
(* whether the latest send was the safe write, `u` whether a safe write of *)
(* this instance ended unknown.                                            *)

\* What holding a lease excludes.
LeaseInv(a) ==
    /\ a.lease # None <=> a.state \in Armed
    /\ a.lease # None =>
          /\ a.lease.instance = a.instance
          /\ a.lease.epoch = a.epoch
          /\ a.profile # None
          /\ ~a.fault_latched
          /\ ~a.safe_confirmed
          /\ ~a.safe_obligation_pending
          /\ a.transport_reserved # None => ~a.transport_reserved.safe
    /\ a.pending # None => a.pending.lease = a.lease

\* A reservation is of the current epoch, and excludes a send in flight.
ReservedInv(a) ==
    a.transport_reserved # None =>
        /\ a.in_flight = None
        /\ a.transport_reserved.instance = a.instance
        /\ a.transport_reserved.epoch = a.epoch
        /\ a.transport_reserved.safe => a.safe_obligation_pending
        /\ ~a.transport_reserved.safe =>
              a.transport_reserved.lease # None /\ ~a.safe_obligation_pending

\* The send in flight is the latest one; while armed it is the owner's, and a
\* safe write of the current epoch owes nothing more.
InFlightInv(a, s) ==
    a.in_flight # None =>
        /\ a.in_flight.id.instance = a.instance
        /\ a.in_flight.id.sequence = a.sent
        /\ a.in_flight.epoch <= a.epoch
        /\ a.in_flight.safe <=> s
        /\ a.profile # None
        /\ ~a.safe_confirmed
        /\ a.state \notin {"Unverified", "Disarmed"}
        /\ a.state \in Armed =>
              ~a.in_flight.safe /\ a.in_flight.epoch = a.epoch
        /\ a.in_flight.safe /\ a.in_flight.epoch = a.epoch =>
              ~a.safe_obligation_pending

\* Where the safe request stands in each state.
SafeInv(a) ==
    /\ a.state = "Unverified" =>
          /\ ~a.safe_confirmed
          /\ ~a.safe_obligation_pending
          /\ ~a.fault_latched
          /\ a.transport_reserved = None
    /\ a.state = "Disarmed" => a.safe_confirmed /\ ~a.fault_latched
    /\ a.safe_obligation_pending =>
          a.profile # None /\ a.state \in {"SafePending", "FaultLatched"}
    /\ a.state = "SafePending" =>
          /\ a.profile # None
          /\ ~a.safe_confirmed
          /\ ~a.ambiguous_safe_resend_blocked

\* What a confirmation rests on.
ConfirmedInv(a, s) ==
    a.safe_confirmed =>
        /\ s
        /\ a.profile # None
        /\ a.state \in {"Disarmed", "FaultLatched"}
        /\ a.acknowledged = a.sent
        /\ a.profile = "Readback" => a.readback = a.sent
        /\ a.in_flight = None
        /\ a.transport_reserved = None
        /\ ~a.safe_obligation_pending

\* A blocked resend, and the history that explains it.
BlockedInv(a, u) ==
    /\ a.ambiguous_safe_resend_blocked =>
          /\ a.safe_obligation_pending
          /\ a.fault_latched
          /\ a.state = "FaultLatched"
          /\ a.transport_reserved = None
    /\ u => a.ambiguous_safe_resend_blocked \/ a.epoch = MaxEpoch

\* What holds even between the steps of a completion.
Consistent(a, s, u) ==
    /\ LeaseInv(a)
    /\ ReservedInv(a)
    /\ InFlightInv(a, s)
    /\ SafeInv(a)
    /\ ConfirmedInv(a, s)
    /\ BlockedInv(a, u)

\* A pending safe state has its work: an obligation, or the write in flight.
WorkInv(a) ==
    a.state = "SafePending" =>
        \/ a.safe_obligation_pending
        \/ a.in_flight # None /\ a.in_flight.safe /\ a.in_flight.epoch = a.epoch

Sound(a, s, u) == Consistent(a, s, u) /\ WorkInv(a)

=============================================================================
