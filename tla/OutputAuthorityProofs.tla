----------------------- MODULE OutputAuthorityProofs -----------------------
(***************************************************************************)
(* Every method of OutputAuthority keeps Sound, whatever its caller        *)
(* presents.  The lemmas are about one authority record and hold wherever  *)
(* the methods are called: OutputPermissionProofs and                      *)
(* PhysicalControlProofs rest on them.                                     *)
(*                                                                         *)
(* An authority is a record of nineteen fields.  For each method there is  *)
(* one lemma ...Fields that lists the fields of the record it returns      *)
(* (record updates are Zenon's part), and one lemma ...Sound that derives  *)
(* Sound from those facts alone (arithmetic and cases are SMT's part).     *)
(***************************************************************************)
EXTENDS OutputAuthority, TLAPS

-----------------------------------------------------------------------------
(* Fields Sound looks at.                                                  *)

SamePermission(a, b) ==
    /\ b.instance = a.instance
    /\ b.profile = a.profile
    /\ b.state = a.state
    /\ b.lease = a.lease
    /\ b.epoch = a.epoch
    /\ b.fault_latched <=> a.fault_latched
    /\ b.safe_confirmed <=> a.safe_confirmed
    /\ b.pending = a.pending
    /\ b.transport_reserved = a.transport_reserved
    /\ b.in_flight = a.in_flight
    /\ b.safe_obligation_pending <=> a.safe_obligation_pending
    /\ b.ambiguous_safe_resend_blocked <=> a.ambiguous_safe_resend_blocked
    /\ b.next_dispatch = a.next_dispatch
    /\ b.sent = a.sent

SameEvidence(a, b) ==
    b.acknowledged = a.acknowledged /\ b.readback = a.readback

\* The numbers in an authority are numbers.
LEMMA Numbers ==
    ASSUME NEW a \in Authority
    PROVE  /\ a.instance \in Nat
           /\ a.epoch \in Nat /\ a.epoch <= MaxEpoch
           /\ a.next_dispatch \in Nat /\ a.next_dispatch >= 1
           /\ a.sent \in Nat
           /\ a.in_flight # None => a.in_flight \in Dispatch
           /\ a.in_flight # None => a.in_flight.epoch \in Nat
           /\ a.in_flight # None => a.in_flight.safe \in BOOLEAN
           /\ a.in_flight # None => a.in_flight.id \in DispatchId
           /\ MaxEpoch \in Nat
  BY BoundsAssumption DEF Authority, Epoch, Sequence, Dispatch

\* Sound does not depend on the other fields.
LEMMA ConsistentSame ==
    ASSUME NEW a \in Authority, NEW b \in Authority,
           NEW s \in BOOLEAN, NEW u \in BOOLEAN,
           SamePermission(a, b), SameEvidence(a, b), Consistent(a, s, u)
    PROVE  Consistent(b, s, u)
<1>1. LeaseInv(b)
  BY DEF Consistent, LeaseInv, SamePermission
<1>2. ReservedInv(b)
  BY DEF Consistent, ReservedInv, SamePermission
<1>3. InFlightInv(b, s)
  BY DEF Consistent, InFlightInv, SamePermission
<1>4. SafeInv(b)
  BY DEF Consistent, SafeInv, SamePermission
<1>5. ConfirmedInv(b, s)
  BY DEF Consistent, ConfirmedInv, SamePermission, SameEvidence
<1>6. BlockedInv(b, u)
  BY DEF Consistent, BlockedInv, SamePermission
<1> QED
  BY <1>1, <1>2, <1>3, <1>4, <1>5, <1>6 DEF Consistent

\* Nor does Sound as a whole.
LEMMA SoundSame ==
    ASSUME NEW a \in Authority, NEW b \in Authority,
           NEW s \in BOOLEAN, NEW u \in BOOLEAN,
           SamePermission(a, b), SameEvidence(a, b), Sound(a, s, u)
    PROVE  Sound(b, s, u)
<1>1. Consistent(b, s, u)
  BY ConsistentSame DEF Sound
<1>2. WorkInv(b)
  BY DEF Sound, WorkInv, SamePermission
<1> QED
  BY <1>1, <1>2 DEF Sound

\* A fresh authority is sound, with no loss in its history, whatever was sent before it.
LEMMA NewSound ==
    ASSUME NEW i \in Nat, NEW s \in BOOLEAN
    PROVE  New(i) \in Authority /\ Sound(New(i), s, FALSE)
<1>1. 0 \in Epoch /\ 1 \in Sequence
  BY BoundsAssumption DEF Epoch, Sequence
<1>2. New(i) \in Authority
  BY <1>1, Zenon DEF New, Authority, OutputState
<1>3. LeaseInv(New(i)) /\ ReservedInv(New(i)) /\ InFlightInv(New(i), s)
  BY DEF New, LeaseInv, ReservedInv, InFlightInv, Armed
<1>4. SafeInv(New(i)) /\ ConfirmedInv(New(i), s) /\ BlockedInv(New(i), FALSE)
  BY DEF New, SafeInv, ConfirmedInv, BlockedInv
<1>5. WorkInv(New(i))
  BY DEF New, WorkInv
<1> QED
  BY <1>2, <1>3, <1>4, <1>5 DEF Sound, Consistent

-----------------------------------------------------------------------------
(* Manual correlation touches only the attempt.                            *)

\* Replacing the manual attempt touches nothing else.
LEMMA SetAttempt ==
    ASSUME NEW a \in Authority, NEW m \in ManualAttempt,
           NEW b, b = [a EXCEPT !.manual_attempt = m]
    PROVE  b \in Authority /\ SamePermission(a, b) /\ SameEvidence(a, b)
           /\ b.outcome = a.outcome
<1>1. b \in Authority
  BY Zenon DEF Authority
<1>2. SamePermission(a, b) /\ SameEvidence(a, b) /\ b.outcome = a.outcome
  BY Zenon DEF Authority, SamePermission, SameEvidence
<1> QED
  BY <1>1, <1>2

\* An authority agrees with itself.
LEMMA SameItself ==
    ASSUME NEW a
    PROVE  SamePermission(a, a) /\ SameEvidence(a, a)
  BY DEF SamePermission, SameEvidence

\* fail_manual_before_send touches only the attempt.
LEMMA FailManualFields ==
    ASSUME NEW a \in Authority, NEW b, b = FailManualBeforeSend(a)
    PROVE  b \in Authority /\ SamePermission(a, b) /\ SameEvidence(a, b)
<1>1. CASE UnsentAttempt(a)
  <2> DEFINE m == [a.manual_attempt EXCEPT !.terminal = TRUE, !.outcome = "Failed"]
  <2>1. a.manual_attempt \in ManualAttempt
    BY <1>1, Zenon DEF UnsentAttempt, Authority
  <2>2. m \in ManualAttempt
    BY <2>1, Zenon DEF ManualAttempt, DispatchOutcome
  <2>3. b = [a EXCEPT !.manual_attempt = m]
    BY <1>1, Zenon DEF FailManualBeforeSend
  <2> HIDE DEF m
  <2> QED
    BY <2>2, <2>3, SetAttempt
<1>2. CASE ~UnsentAttempt(a)
  BY <1>2, SameItself DEF FailManualBeforeSend
<1> QED
  BY <1>1, <1>2

\* capture_manual_delivery touches only the attempt.
LEMMA CaptureFields ==
    ASSUME NEW a \in Authority, NEW id \in DispatchId, NEW terminal \in BOOLEAN,
           NEW b, b = CaptureManualDelivery(a, id, terminal)
    PROVE  b \in Authority /\ SamePermission(a, b) /\ SameEvidence(a, b)
<1> DEFINE captures == /\ a.manual_attempt # None
                       /\ ~a.manual_attempt.terminal
                       /\ a.manual_attempt.dispatch = id
           o == IF terminal THEN a.outcome ELSE None
           m == [a.manual_attempt EXCEPT !.terminal = terminal,
                                         !.outcome = o,
                                         !.acknowledged = a.acknowledged,
                                         !.readback = a.readback]
<1>1. CASE captures
  <2>1. a.manual_attempt \in ManualAttempt
    BY <1>1, Zenon DEF Authority
  <2>2. o \in DispatchOutcome \cup {None} /\ a.acknowledged \in Nat /\ a.readback \in Nat
    BY Zenon DEF Authority
  <2>3. b = [a EXCEPT !.manual_attempt = m]
    BY <1>1, Zenon DEF CaptureManualDelivery
  <2> HIDE DEF o
  <2>4. m \in ManualAttempt
    BY <2>1, <2>2, Zenon DEF ManualAttempt
  <2> HIDE DEF m
  <2> QED
    BY <2>3, <2>4, SetAttempt
<1>2. CASE ~captures
  BY <1>2, SameItself DEF CaptureManualDelivery
<1> QED
  BY <1>1, <1>2

\* manual_send_started touches only the attempt.
LEMMA SendStartedFields ==
    ASSUME NEW a \in Authority, NEW d \in Dispatch,
           NEW b, b = ManualSendStarted(a, d)
    PROVE  b \in Authority /\ SamePermission(a, b) /\ SameEvidence(a, b)
<1> DEFINE m == [a.manual_attempt EXCEPT !.dispatch = d.id]
<1>1. CASE ~d.safe /\ UnsentAttempt(a)
  <2>1. a.manual_attempt \in ManualAttempt
    BY <1>1, Zenon DEF Authority, UnsentAttempt
  <2>2. d.id \in DispatchId
    BY Zenon DEF Dispatch
  <2>3. m \in ManualAttempt
    BY <2>1, <2>2, Zenon DEF ManualAttempt
  <2>4. b = [a EXCEPT !.manual_attempt = m]
    BY <1>1, Zenon DEF ManualSendStarted
  <2> HIDE DEF m
  <2> QED
    BY <2>3, <2>4, SetAttempt
<1>2. CASE ~(~d.safe /\ UnsentAttempt(a))
  BY <1>2, SameItself DEF ManualSendStarted
<1> QED
  BY <1>1, <1>2

\* track_manual_attempt touches only the attempt.
LEMMA TrackFields ==
    ASSUME NEW a \in Authority, NEW n \in Nat, NEW b, b = TrackManualAttempt(a, n)
    PROVE  b \in Authority /\ SamePermission(a, b) /\ SameEvidence(a, b)
<1> DEFINE m == [id |-> n, dispatch |-> None, terminal |-> FALSE, outcome |-> None,
                 acknowledged |-> 0, readback |-> 0]
<1>1. m \in ManualAttempt
  BY DEF ManualAttempt
<1>2. b = [a EXCEPT !.manual_attempt = m]
  BY DEF TrackManualAttempt
<1> HIDE DEF m
<1> QED
  BY <1>1, <1>2, SetAttempt

-----------------------------------------------------------------------------
(* The safe request.                                                       *)

\* What request_safe leaves behind, as long as an epoch is left and otherwise.
Requested(a, fault, b) ==
    /\ b.instance = a.instance
    /\ b.profile = a.profile
    /\ b.lease = None
    /\ ~b.safe_confirmed
    /\ b.pending = None
    /\ b.in_flight = a.in_flight
    /\ b.ambiguous_safe_resend_blocked <=> a.ambiguous_safe_resend_blocked
    /\ b.next_dispatch = a.next_dispatch
    /\ b.sent = a.sent
    /\ BumpEpochOk(a) =>
          /\ b.epoch = a.epoch + 1
          /\ b.state = IF a.ambiguous_safe_resend_blocked
                       THEN "FaultLatched" ELSE "SafePending"
          /\ b.fault_latched <=> (a.fault_latched \/ fault)
          /\ b.safe_obligation_pending
          /\ b.transport_reserved = None
    /\ ~BumpEpochOk(a) =>
          /\ b.epoch = a.epoch
          /\ b.state = "FaultLatched"
          /\ b.fault_latched
          /\ b.safe_obligation_pending <=> a.safe_obligation_pending
          /\ b.transport_reserved = a.transport_reserved

\* The fields bump_epoch leaves behind when it fails.
LEMMA ExhaustedFields ==
    ASSUME NEW a \in Authority, NEW b, b = Exhausted(a), ~BumpEpochOk(a)
    PROVE  b \in Authority /\ Requested(a, TRUE, b)
<1>1. b \in Authority
  BY Zenon DEF Authority, OutputState, Exhausted
<1>2. /\ b.instance = a.instance
      /\ b.profile = a.profile
      /\ b.in_flight = a.in_flight
      /\ b.ambiguous_safe_resend_blocked = a.ambiguous_safe_resend_blocked
      /\ b.next_dispatch = a.next_dispatch
      /\ b.sent = a.sent
      /\ b.epoch = a.epoch
      /\ b.safe_obligation_pending = a.safe_obligation_pending
      /\ b.transport_reserved = a.transport_reserved
  BY Zenon DEF Authority, Exhausted
<1>3. /\ b.lease = None
      /\ b.safe_confirmed = FALSE
      /\ b.pending = None
      /\ b.state = "FaultLatched"
      /\ b.fault_latched = TRUE
  BY Zenon DEF Authority, Exhausted
<1> QED
  BY <1>1, <1>2, <1>3, Zenon DEF Requested

\* The fields request_safe leaves behind.
LEMMA RequestSafeFields ==
    ASSUME NEW a \in Authority, NEW fault \in BOOLEAN,
           NEW b, b = RequestSafe(a, fault)
    PROVE  b \in Authority /\ Requested(a, fault, b)
<1> DEFINE m == FailManualBeforeSend(a)
<1>1. m \in Authority /\ SamePermission(a, m)
  BY FailManualFields
<1>2. CASE BumpEpochOk(a)
  <2> DEFINE e == a.epoch + 1
             f == a.fault_latched \/ fault
             st == IF a.ambiguous_safe_resend_blocked THEN "FaultLatched" ELSE "SafePending"
  <2>1. e \in Epoch
    BY <1>2, BoundsAssumption DEF Authority, Epoch, BumpEpochOk
  <2>2. f \in BOOLEAN /\ st \in OutputState
    BY Zenon DEF Authority, OutputState
  <2>3. b = [m EXCEPT !.epoch = e,
                      !.lease = None,
                      !.fault_latched = f,
                      !.safe_confirmed = FALSE,
                      !.state = st,
                      !.safe_obligation_pending = TRUE,
                      !.transport_reserved = None,
                      !.pending = None]
    BY <1>2, Zenon DEF RequestSafe
  <2> HIDE DEF e, f, st, m
  <2>4. b \in Authority
    BY <1>1, <2>1, <2>2, <2>3, Zenon DEF Authority
  <2>5. /\ b.instance = m.instance
        /\ b.profile = m.profile
        /\ b.in_flight = m.in_flight
        /\ b.ambiguous_safe_resend_blocked = m.ambiguous_safe_resend_blocked
        /\ b.next_dispatch = m.next_dispatch
        /\ b.sent = m.sent
        /\ b.epoch = e
        /\ b.state = st
        /\ b.fault_latched = f
        /\ b.lease = None
        /\ b.safe_confirmed = FALSE
        /\ b.safe_obligation_pending = TRUE
        /\ b.transport_reserved = None
        /\ b.pending = None
    BY <1>1, <2>3, Zenon DEF Authority
  <2> QED
    BY <1>1, <1>2, <2>4, <2>5, Zenon DEF SamePermission, Requested, e, f, st
<1>3. CASE ~BumpEpochOk(a)
  <2>1. b = Exhausted(m)
    BY <1>3, Zenon DEF RequestSafe
  <2> HIDE DEF m
  <2>2. ~BumpEpochOk(m)
    BY <1>1, <1>3, Zenon DEF BumpEpochOk, SamePermission
  <2>3. b \in Authority /\ Requested(m, TRUE, b)
    BY <1>1, <2>1, <2>2, ExhaustedFields
  <2> QED
    BY <1>1, <1>3, <2>2, <2>3, Zenon DEF SamePermission, Requested
<1> QED
  BY <1>2, <1>3

\* A safe request makes a consistent authority sound, at the last epoch too.
LEMMA RequestedSound ==
    ASSUME NEW a \in Authority, NEW fault \in BOOLEAN, NEW b \in Authority,
           NEW s \in BOOLEAN, NEW u \in BOOLEAN,
           Requested(a, fault, b), Consistent(a, s, u),
           BumpEpochOk(a) => a.profile # None
    PROVE  Sound(b, s, u)
<1>1. LeaseInv(b)
  BY DEF Requested, Consistent, LeaseInv, Armed
<1>2. ReservedInv(b)
  BY DEF Requested, Consistent, ReservedInv
<1>3. InFlightInv(b, s)
  BY Numbers DEF Requested, Consistent, InFlightInv, Armed
<1>4. SafeInv(b)
  BY DEF Requested, Consistent, SafeInv, BlockedInv
<1>5. ConfirmedInv(b, s)
  BY DEF Requested, ConfirmedInv
<1>6. BlockedInv(b, u)
  BY Numbers DEF Requested, Consistent, BlockedInv, BumpEpochOk
<1>7. WorkInv(b)
  BY DEF Requested, WorkInv
<1> QED
  BY <1>1, <1>2, <1>3, <1>4, <1>5, <1>6, <1>7 DEF Sound, Consistent

\* In particular it keeps a sound authority sound.
LEMMA RequestSafeSound ==
    ASSUME NEW a \in Authority, NEW fault \in BOOLEAN,
           NEW s \in BOOLEAN, NEW u \in BOOLEAN,
           Consistent(a, s, u), a.profile # None
    PROVE  RequestSafe(a, fault) \in Authority /\ Sound(RequestSafe(a, fault), s, u)
<1>1. /\ RequestSafe(a, fault) \in Authority
      /\ Requested(a, fault, RequestSafe(a, fault))
  BY RequestSafeFields
<1> QED
  BY <1>1, RequestedSound

\* So does running out of epochs.
LEMMA ExhaustedSound ==
    ASSUME NEW a \in Authority, NEW s \in BOOLEAN, NEW u \in BOOLEAN,
           Consistent(a, s, u), ~BumpEpochOk(a)
    PROVE  Exhausted(a) \in Authority /\ Sound(Exhausted(a), s, u)
<1>1. Exhausted(a) \in Authority /\ Requested(a, TRUE, Exhausted(a))
  BY ExhaustedFields
<1> QED
  BY <1>1, RequestedSound

\* What blocking the resend adds to a safe request.
Blocked(b, c) ==
    /\ c.instance = b.instance
    /\ c.profile = b.profile
    /\ c.state = "FaultLatched"
    /\ c.lease = b.lease
    /\ c.epoch = b.epoch
    /\ c.fault_latched <=> b.fault_latched
    /\ c.safe_confirmed <=> b.safe_confirmed
    /\ c.pending = b.pending
    /\ c.transport_reserved = b.transport_reserved
    /\ c.in_flight = b.in_flight
    /\ c.safe_obligation_pending <=> b.safe_obligation_pending
    /\ c.ambiguous_safe_resend_blocked
    /\ c.next_dispatch = b.next_dispatch
    /\ c.sent = b.sent

\* The fields changed when resend is blocked.
LEMMA BlockFields ==
    ASSUME NEW b \in Authority, NEW c,
           c = [b EXCEPT !.ambiguous_safe_resend_blocked = TRUE, !.state = "FaultLatched"]
    PROVE  c \in Authority /\ Blocked(b, c)
<1>1. "FaultLatched" \in OutputState
  BY DEF OutputState
<1>2. c \in Authority
  BY <1>1, Zenon DEF Authority
<1> QED
  BY <1>2, Zenon DEF Authority, Blocked

\* A lost dispatch revokes; a lost safe dispatch also blocks its resend, or
\* finds the epochs used up.
LEMMA FailClosedSound ==
    ASSUME NEW a \in Authority, NEW d \in Dispatch,
           NEW s \in BOOLEAN, NEW u \in BOOLEAN,
           Consistent(a, s, u), a.profile # None
    PROVE  /\ FailClosed(a, d) \in Authority
           /\ Sound(FailClosed(a, d), s, u \/ d.safe)
<1> DEFINE b == RequestSafe(a, TRUE)
           c == [b EXCEPT !.ambiguous_safe_resend_blocked = TRUE, !.state = "FaultLatched"]
<1>0. b \in Authority /\ Sound(b, s, u)
  BY RequestSafeSound
<1>1. Requested(a, TRUE, b)
  BY RequestSafeFields
<1>2. d.safe \in BOOLEAN
  BY DEF Dispatch
<1>3. CASE d.safe /\ BumpEpochOk(a)
  <2>1. FailClosed(a, d) = c
    BY <1>3, Zenon DEF FailClosed
  <2> HIDE DEF b
  <2>2. c \in Authority /\ Blocked(b, c)
    BY <1>0, BlockFields
  <2> HIDE DEF c
  <2>3. LeaseInv(c) /\ ReservedInv(c) /\ ConfirmedInv(c, s)
    BY <1>1, <1>3, <2>2 DEF Requested, Blocked, LeaseInv, ReservedInv, ConfirmedInv, Armed
  <2>4. InFlightInv(c, s)
    BY <1>1, <1>3, <2>2, Numbers DEF Requested, Blocked, Consistent, InFlightInv, Armed
  <2>5. SafeInv(c) /\ BlockedInv(c, u \/ d.safe) /\ WorkInv(c)
    BY <1>1, <1>3, <2>2 DEF Requested, Blocked, SafeInv, BlockedInv, WorkInv
  <2> QED
    BY <2>1, <2>2, <2>3, <2>4, <2>5 DEF Sound, Consistent
<1>4. CASE ~(d.safe /\ BumpEpochOk(a))
  <2>1. FailClosed(a, d) = b
    BY <1>4, Zenon DEF FailClosed
  <2> HIDE DEF b
  <2>2. BlockedInv(b, u \/ d.safe)
    BY <1>0, <1>1, <1>2, <1>4, Numbers DEF Sound, Consistent, BlockedInv, Requested, BumpEpochOk
  <2> QED
    BY <1>0, <2>1, <2>2 DEF Sound, Consistent
<1> QED
  BY <1>3, <1>4

-----------------------------------------------------------------------------
(* Commands.                                                               *)

\* A rebind starts over under the new profile.
LEMMA BindSound ==
    ASSUME NEW a \in Authority, NEW evidence \in EvidenceLevel,
           NEW s \in BOOLEAN, NEW u \in BOOLEAN, Sound(a, s, u)
    PROVE  Bind(a, evidence) \in Authority /\ Sound(Bind(a, evidence), s, u)
<1> DEFINE b == Bind(a, evidence)
           e == a.epoch + 1
<1>1. CASE BindOk(a) /\ BumpEpochOk(a)
  <2>1. e \in Epoch
    BY <1>1, BoundsAssumption DEF Authority, Epoch, BumpEpochOk
  <2>2. b = [a EXCEPT !.epoch = e, !.profile = evidence, !.state = "Unverified",
                      !.safe_confirmed = FALSE, !.pending = None]
    BY <1>1, Zenon DEF Bind
  <2> HIDE DEF b, e
  <2>3. b \in Authority
    BY <2>1, <2>2, Zenon DEF Authority, OutputState
  <2>4. LeaseInv(b)
    BY <1>1, <2>2, <2>3 DEF Authority, Sound, Consistent, LeaseInv, BindOk, Armed
  <2>5. ReservedInv(b) /\ InFlightInv(b, s)
    BY <1>1, <2>2, <2>3
    DEF Authority, Sound, Consistent, ReservedInv, InFlightInv, SafeInv, ConfirmedInv, BindOk
  <2>6. SafeInv(b) /\ ConfirmedInv(b, s) /\ WorkInv(b)
    BY <1>1, <2>2, <2>3 DEF Authority, Sound, Consistent, SafeInv, ConfirmedInv, WorkInv, BindOk
  <2>7. BlockedInv(b, u)
    BY <1>1, <2>2, <2>3, Numbers
    DEF Authority, Sound, Consistent, BlockedInv, SafeInv, BindOk, BumpEpochOk
  <2> QED
    BY <2>3, <2>4, <2>5, <2>6, <2>7 DEF Sound, Consistent, b
<1>2. CASE BindOk(a) /\ ~BumpEpochOk(a)
  BY <1>2, ExhaustedSound DEF Bind, Sound
<1>3. CASE ~BindOk(a)
  BY <1>3 DEF Bind
<1> QED
  BY <1>1, <1>2, <1>3

\* Acquiring a lease needs a proved safe state and keeps Sound.
LEMMA AcquireSound ==
    ASSUME NEW a \in Authority, NEW owner \in Owner, NEW lifetime \in Nat, NEW at \in Nat,
           NEW s \in BOOLEAN, NEW u \in BOOLEAN, Sound(a, s, u)
    PROVE  /\ Acquire(a, owner, lifetime, at) \in Authority
           /\ Sound(Acquire(a, owner, lifetime, at), s, u)
<1> DEFINE b == Acquire(a, owner, lifetime, at)
           e == a.epoch + 1
           l == [instance |-> a.instance, owner |-> owner, epoch |-> e,
                 expires |-> at + lifetime]
           st == IF owner \in ManualOwners THEN "ArmedManual" ELSE "ArmedAuto"
<1>1. CASE AcquireOk(a, lifetime) /\ BumpEpochOk(a)
  <2>1. e \in Epoch /\ e \in Nat
    BY <1>1, BoundsAssumption DEF Authority, Epoch, BumpEpochOk
  <2>2. b = [a EXCEPT !.epoch = e, !.lease = l, !.safe_confirmed = FALSE, !.state = st]
    BY <1>1, Zenon DEF Acquire
  <2>3. st \in OutputState /\ st \in Armed
    BY Zenon DEF OutputState, Armed
  <2>4. l \in OutputLease
    BY <2>1, Numbers DEF OutputLease
  <2>5. l # None /\ l.instance = a.instance /\ l.epoch = e
    BY <2>4, NoneAssumption
  <2> HIDE DEF b, e, l, st
  <2>6. b \in Authority
    BY <2>1, <2>2, <2>3, <2>4, Zenon DEF Authority
  <2>7. LeaseInv(b)
    BY <1>1, <2>2, <2>3, <2>5, <2>6, NoneAssumption
    DEF Authority, Pending, Sound, Consistent, LeaseInv, ConfirmedInv, SafeInv, AcquireOk, Armed
  <2>8. ReservedInv(b) /\ InFlightInv(b, s) /\ ConfirmedInv(b, s)
    BY <1>1, <2>2, <2>6
    DEF Authority, Sound, Consistent, ReservedInv, InFlightInv, ConfirmedInv, AcquireOk
  <2>9. SafeInv(b) /\ WorkInv(b)
    BY <1>1, <2>2, <2>3, <2>6
    DEF Authority, Sound, Consistent, SafeInv, ConfirmedInv, WorkInv, AcquireOk, Armed
  <2>10. BlockedInv(b, u)
    BY <1>1, <2>2, <2>6, Numbers
    DEF Authority, Sound, Consistent, BlockedInv, AcquireOk, BumpEpochOk
  <2> QED
    BY <2>6, <2>7, <2>8, <2>9, <2>10 DEF Sound, Consistent, b
<1>2. CASE AcquireOk(a, lifetime) /\ ~BumpEpochOk(a)
  BY <1>2, ExhaustedSound DEF Acquire, Sound
<1>3. CASE ~AcquireOk(a, lifetime)
  BY <1>3 DEF Acquire
<1> QED
  BY <1>1, <1>2, <1>3

\* A renewal moves only the deadline.
LEMMA RenewSound ==
    ASSUME NEW a \in Authority, NEW lease \in OutputLease, NEW lifetime \in Nat,
           NEW at \in Nat, NEW s \in BOOLEAN, NEW u \in BOOLEAN, Sound(a, s, u)
    PROVE  /\ Renew(a, lease, lifetime, at) \in Authority
           /\ Sound(Renew(a, lease, lifetime, at), s, u)
<1> DEFINE b == Renew(a, lease, lifetime, at)
           t == at + lifetime
           l == [lease EXCEPT !.expires = t]
<1>1. CASE RenewOk(a, lease, lifetime, at)
  <2>1. b = [a EXCEPT !.lease = l]
    BY <1>1, Zenon DEF Renew
  <2>2. t \in Nat
    OBVIOUS
  <2> HIDE DEF t
  <2>3. l \in OutputLease /\ l.instance = lease.instance /\ l.epoch = lease.epoch
    BY <2>2, Zenon DEF OutputLease
  <2>4. l # None
    BY <2>3, NoneAssumption
  <2> HIDE DEF b, l
  <2>5. b \in Authority
    BY <2>1, <2>3, Zenon DEF Authority
  <2>6. LeaseInv(b)
    BY <1>1, <2>1, <2>3, <2>4, <2>5
    DEF Authority, Sound, Consistent, LeaseInv, RenewOk, CheckLease
  <2>7. ReservedInv(b) /\ InFlightInv(b, s) /\ ConfirmedInv(b, s)
    BY <1>1, <2>1, <2>5
    DEF Authority, Sound, Consistent, ReservedInv, InFlightInv, ConfirmedInv
  <2>8. SafeInv(b) /\ WorkInv(b) /\ BlockedInv(b, u)
    BY <1>1, <2>1, <2>5 DEF Authority, Sound, Consistent, SafeInv, WorkInv, BlockedInv
  <2> QED
    BY <2>5, <2>6, <2>7, <2>8 DEF Sound, Consistent, b
<1>2. CASE ~RenewOk(a, lease, lifetime, at)
  BY <1>2 DEF Renew
<1> QED
  BY <1>1, <1>2

\* A lease is held only under a profile, so its end can always ask for safety.
LEMMA RevokeSound ==
    ASSUME NEW a \in Authority, NEW s \in BOOLEAN, NEW u \in BOOLEAN, Sound(a, s, u),
           NEW lease, NEW at, NEW fault \in BOOLEAN
    PROVE  /\ Release(a, lease, at) \in Authority /\ Sound(Release(a, lease, at), s, u)
           /\ Tick(a, at) \in Authority /\ Sound(Tick(a, at), s, u)
           /\ Trip(a, fault) \in Authority /\ Sound(Trip(a, fault), s, u)
<1>1. ASSUME NEW f \in BOOLEAN, a.profile # None
      PROVE  RequestSafe(a, f) \in Authority /\ Sound(RequestSafe(a, f), s, u)
  BY <1>1, RequestSafeSound DEF Sound
<1>2. Release(a, lease, at) \in Authority /\ Sound(Release(a, lease, at), s, u)
  <2>1. CheckLease(a, lease, at) => a.profile # None
    BY DEF CheckLease, Sound, Consistent, LeaseInv
  <2> QED
    BY <1>1, <2>1 DEF Release
<1>3. Tick(a, at) \in Authority /\ Sound(Tick(a, at), s, u)
  <2>1. a.lease # None => a.profile # None
    BY DEF Sound, Consistent, LeaseInv
  <2> QED
    BY <1>1, <2>1 DEF Tick
<1>4. Trip(a, fault) \in Authority /\ Sound(Trip(a, fault), s, u)
  BY <1>1 DEF Trip
<1> QED
  BY <1>2, <1>3, <1>4

\* A fault is acknowledged only on a proved safe state.
LEMMA AcknowledgeFaultSound ==
    ASSUME NEW a \in Authority, NEW s \in BOOLEAN, NEW u \in BOOLEAN, Sound(a, s, u)
    PROVE  AcknowledgeFault(a) \in Authority /\ Sound(AcknowledgeFault(a), s, u)
<1> DEFINE b == AcknowledgeFault(a)
<1>1. CASE AcknowledgeFaultOk(a)
  <2>1. b = [a EXCEPT !.fault_latched = FALSE, !.state = "Disarmed"]
    BY <1>1, Zenon DEF AcknowledgeFault
  <2> HIDE DEF b
  <2>2. b \in Authority
    BY <2>1, Zenon DEF Authority, OutputState
  <2>3. LeaseInv(b) /\ ReservedInv(b) /\ InFlightInv(b, s)
    BY <1>1, <2>1, <2>2
    DEF Authority, Sound, Consistent, LeaseInv, ReservedInv, InFlightInv, AcknowledgeFaultOk, Armed
  <2>4. SafeInv(b) /\ ConfirmedInv(b, s)
    BY <1>1, <2>1, <2>2
    DEF Authority, Sound, Consistent, SafeInv, ConfirmedInv, AcknowledgeFaultOk
  <2>5. BlockedInv(b, u) /\ WorkInv(b)
    BY <1>1, <2>1, <2>2
    DEF Authority, Sound, Consistent, BlockedInv, WorkInv, AcknowledgeFaultOk
  <2> QED
    BY <2>2, <2>3, <2>4, <2>5 DEF Sound, Consistent, b
<1>2. CASE ~AcknowledgeFaultOk(a)
  BY <1>2 DEF AcknowledgeFault
<1> QED
  BY <1>1, <1>2

\* A pending proposal is constrained only through its lease.
LEMMA SetPendingSound ==
    ASSUME NEW a \in Authority, NEW s \in BOOLEAN, NEW u \in BOOLEAN, Sound(a, s, u),
           NEW p \in Pending \cup {None}, p # None => p.lease = a.lease,
           NEW b, b = [a EXCEPT !.pending = p]
    PROVE  b \in Authority /\ Sound(b, s, u)
<1>1. b \in Authority
  BY Zenon DEF Authority
<1>2. LeaseInv(b)
  BY <1>1 DEF Authority, Sound, Consistent, LeaseInv
<1>3. ReservedInv(b) /\ InFlightInv(b, s) /\ ConfirmedInv(b, s)
  BY <1>1 DEF Authority, Sound, Consistent, ReservedInv, InFlightInv, ConfirmedInv
<1>4. SafeInv(b) /\ BlockedInv(b, u) /\ WorkInv(b)
  BY <1>1 DEF Authority, Sound, Consistent, SafeInv, BlockedInv, WorkInv
<1> QED
  BY <1>1, <1>2, <1>3, <1>4 DEF Sound, Consistent

\* A proposal is pending under the lease it was checked with.
LEMMA ProposeSound ==
    ASSUME NEW a \in Authority, NEW s \in BOOLEAN, NEW u \in BOOLEAN, Sound(a, s, u),
           NEW lease \in OutputLease, NEW ttl \in Nat, NEW at \in Nat
    PROVE  Propose(a, lease, ttl, at) \in Authority /\ Sound(Propose(a, lease, ttl, at), s, u)
<1> DEFINE p == [lease |-> lease, expires |-> Earlier(at + ttl, lease.expires)]
<1>1. CASE ProposeOk(a, lease, ttl, at)
  <2>1. p \in Pending
    BY DEF Pending, OutputLease, Earlier
  <2>2. p.lease = a.lease
    BY <1>1 DEF ProposeOk, CheckLease
  <2>3. Propose(a, lease, ttl, at) = [a EXCEPT !.pending = p]
    BY <1>1, Zenon DEF Propose
  <2> HIDE DEF p
  <2> QED
    BY <2>1, <2>2, <2>3, SetPendingSound
<1>2. CASE ~ProposeOk(a, lease, ttl, at)
  BY <1>2 DEF Propose
<1> QED
  BY <1>1, <1>2

\* Dropping a proposal keeps Sound.
LEMMA ClearPendingSound ==
    ASSUME NEW a \in Authority, NEW s \in BOOLEAN, NEW u \in BOOLEAN, Sound(a, s, u)
    PROVE  ClearPending(a) \in Authority /\ Sound(ClearPending(a), s, u)
  BY SetPendingSound DEF ClearPending

-----------------------------------------------------------------------------
(* Sends.                                                                  *)

\* What both send boundaries hand to Started: `a` with its permission spent.
Spent(a, base) ==
    /\ base.instance = a.instance
    /\ base.profile = a.profile
    /\ base.state = a.state
    /\ base.lease = a.lease
    /\ base.epoch = a.epoch
    /\ base.fault_latched <=> a.fault_latched
    /\ base.pending \in {a.pending, None}
    /\ base.transport_reserved = None
    /\ ~base.safe_obligation_pending
    /\ base.ambiguous_safe_resend_blocked <=> a.ambiguous_safe_resend_blocked
    /\ base.next_dispatch = a.next_dispatch

\* The fields of the authority after a send has started.
LEMMA SetStarted ==
    ASSUME NEW a \in Authority, NEW d \in Dispatch, NEW n \in Nat, NEW n1 \in Sequence,
           NEW z \in Nat
    PROVE  [a EXCEPT !.next_dispatch = n1,
                     !.safe_confirmed = FALSE,
                     !.in_flight = d,
                     !.sent = n,
                     !.acknowledged = z,
                     !.readback = z,
                     !.readback_failure = None,
                     !.outcome = None] \in Authority
  BY Zenon DEF Authority

\* A send that was entitled to start leaves the authority sound.
LEMMA StartedSound ==
    ASSUME NEW a \in Authority, NEW base \in Authority, NEW safe \in BOOLEAN,
           NEW s \in BOOLEAN, NEW u \in BOOLEAN, Sound(a, s, u),
           Spent(a, base),
           a.in_flight = None,
           a.next_dispatch < MaxDispatch,
           a.profile # None,
           ~a.ambiguous_safe_resend_blocked,
           safe => a.safe_obligation_pending,
           ~safe => a.lease # None
    PROVE  /\ Started(base, safe, a.epoch) \in Authority
           /\ Sound(Started(base, safe, a.epoch), safe, u)
           /\ Started(base, safe, a.epoch).in_flight # None
           /\ Started(base, safe, a.epoch).in_flight.safe = safe
           /\ Started(base, safe, a.epoch).in_flight.epoch = a.epoch
           /\ Started(base, safe, a.epoch).instance = a.instance
           /\ Started(base, safe, a.epoch).lease = a.lease
           /\ Started(base, safe, a.epoch).epoch = a.epoch
           /\ Started(base, safe, a.epoch).next_dispatch = a.next_dispatch + 1
<1> DEFINE n == base.next_dispatch
           n1 == n + 1
           d == [id |-> [instance |-> base.instance, sequence |-> n],
                 safe |-> safe, epoch |-> a.epoch]
           c == [base EXCEPT !.next_dispatch = n1,
                             !.safe_confirmed = FALSE,
                             !.in_flight = d,
                             !.sent = n,
                             !.acknowledged = 0,
                             !.readback = 0,
                             !.readback_failure = None,
                             !.outcome = None]
           b == ManualSendStarted(c, d)
<1>1. b = Started(base, safe, a.epoch)
  BY Zenon DEF Started
<1>2. n1 \in Sequence /\ n \in Nat /\ 0 \in Nat
  BY BoundsAssumption DEF Authority, Sequence, Spent
<1>3. d \in Dispatch
  BY <1>2, Numbers DEF Dispatch, DispatchId
<1>4. /\ d # None /\ d.safe = safe /\ d.epoch = a.epoch
      /\ d.id.instance = base.instance /\ d.id.sequence = n
  BY <1>3, NoneAssumption
<1> HIDE DEF d, n, n1
<1>5. c \in Authority
  BY <1>2, <1>3, SetStarted
<1>6. /\ c.instance = base.instance
      /\ c.profile = base.profile
      /\ c.state = base.state
      /\ c.lease = base.lease
      /\ c.epoch = base.epoch
      /\ c.fault_latched = base.fault_latched
      /\ c.safe_confirmed = FALSE
      /\ c.pending = base.pending
      /\ c.transport_reserved = base.transport_reserved
      /\ c.in_flight = d
      /\ c.safe_obligation_pending = base.safe_obligation_pending
      /\ c.ambiguous_safe_resend_blocked = base.ambiguous_safe_resend_blocked
      /\ c.sent = n
      /\ c.next_dispatch = n1
  BY Zenon DEF Authority
<1> HIDE DEF c
<1>7. /\ c.instance = a.instance
      /\ c.profile = a.profile
      /\ c.state = a.state
      /\ c.lease = a.lease
      /\ c.epoch = a.epoch
      /\ c.fault_latched <=> a.fault_latched
      /\ ~c.safe_confirmed
      /\ c.pending \in {a.pending, None}
      /\ c.transport_reserved = None
      /\ ~c.safe_obligation_pending
      /\ ~c.ambiguous_safe_resend_blocked
      /\ c.next_dispatch = a.next_dispatch + 1
  BY <1>6, Zenon DEF Spent, n, n1
<1>8. LeaseInv(c) /\ ReservedInv(c) /\ ConfirmedInv(c, safe)
  BY <1>7 DEF Sound, Consistent, LeaseInv, ReservedInv, ConfirmedInv
<1>9. InFlightInv(c, safe)
  BY <1>4, <1>6, <1>7, Numbers
  DEF Spent, Sound, Consistent, InFlightInv, LeaseInv, SafeInv, Armed
<1>10. SafeInv(c) /\ BlockedInv(c, u) /\ WorkInv(c)
  BY <1>4, <1>6, <1>7
  DEF Sound, Consistent, SafeInv, LeaseInv, BlockedInv, WorkInv, Armed
<1>11. Sound(c, safe, u)
  BY <1>8, <1>9, <1>10 DEF Sound, Consistent
<1>12. b \in Authority /\ SamePermission(c, b) /\ SameEvidence(c, b)
  BY <1>3, <1>5, SendStartedFields
<1>13. Sound(b, safe, u)
  BY <1>5, <1>11, <1>12, SoundSame
<1>14. /\ b.in_flight # None
       /\ b.in_flight.safe = safe
       /\ b.in_flight.epoch = a.epoch
       /\ b.instance = a.instance
       /\ b.lease = a.lease
       /\ b.epoch = a.epoch
       /\ b.next_dispatch = a.next_dispatch + 1
  BY <1>4, <1>6, <1>7, <1>12, Zenon DEF SamePermission
<1> QED
  BY <1>1, <1>12, <1>13, <1>14, Zenon

\* The simulated send: either a step that StartedSound covers, with the flag
\* of what was sent, or no send at all.
LEMMA BeginSound ==
    ASSUME NEW a \in Authority, NEW s \in BOOLEAN, NEW u \in BOOLEAN, Sound(a, s, u),
           NEW at \in Nat
    PROVE  /\ Begin(a, at) \in Authority
           /\ Begin(a, at).instance = a.instance
           /\ BeginOk(a, at) =>
                 /\ Sound(Begin(a, at), BeginSafe(a), u)
                 /\ Begin(a, at).in_flight # None
                 /\ Begin(a, at).in_flight.safe = BeginSafe(a)
                 /\ Begin(a, at).in_flight.epoch = a.epoch
                 /\ Begin(a, at).lease = a.lease
                 /\ Begin(a, at).epoch = a.epoch
                 /\ Begin(a, at).next_dispatch = a.next_dispatch + 1
           /\ ~BeginOk(a, at) =>
                 /\ Sound(Begin(a, at), s, u)
                 /\ Begin(a, at).next_dispatch = a.next_dispatch
                 /\ Begin(a, at).lease = a.lease
                 /\ Begin(a, at).epoch = a.epoch
<1>1. CASE BeginOk(a, at)
  <2> DEFINE base == [a EXCEPT !.pending = None, !.safe_obligation_pending = FALSE]
  <2>1. base \in Authority
    BY Zenon DEF Authority
  <2>2. /\ base.instance = a.instance
        /\ base.profile = a.profile
        /\ base.state = a.state
        /\ base.lease = a.lease
        /\ base.epoch = a.epoch
        /\ base.fault_latched = a.fault_latched
        /\ base.pending = None
        /\ base.transport_reserved = a.transport_reserved
        /\ base.safe_obligation_pending = FALSE
        /\ base.ambiguous_safe_resend_blocked = a.ambiguous_safe_resend_blocked
        /\ base.next_dispatch = a.next_dispatch
    BY Zenon DEF Authority
  <2>3. Spent(a, base)
    BY <1>1, <2>2, Zenon DEF Spent, BeginOk
  <2>4. Begin(a, at) = Started(base, BeginSafe(a), a.epoch)
    BY <1>1, Zenon DEF Begin
  <2> HIDE DEF base
  <2>5. BeginSafe(a) \in BOOLEAN
    BY Zenon DEF Authority, BeginSafe
  <2>6. a.profile # None /\ ~a.ambiguous_safe_resend_blocked
    BY <1>1, NoneAssumption
    DEF BeginOk, BeginSafe, Sound, Consistent, LeaseInv, BlockedInv, CheckLease, Authority, Pending
  <2>7. ~BeginSafe(a) => a.lease # None
    BY <1>1, NoneAssumption DEF BeginOk, BeginSafe, CheckLease, Authority, Pending
  <2>8. a.in_flight = None /\ a.next_dispatch < MaxDispatch
    BY <1>1 DEF BeginOk
  <2>9. BeginSafe(a) => a.safe_obligation_pending
    BY DEF BeginSafe
  <2> HIDE DEF BeginSafe
  <2> QED
    BY <1>1, <2>1, <2>3, <2>4, <2>5, <2>6, <2>7, <2>8, <2>9, StartedSound
<1>2. CASE ~BeginOk(a, at) /\ BeginDropsPending(a, at)
  <2>1. Begin(a, at) = ClearPending(a)
    BY <1>2, Zenon DEF Begin
  <2>2. /\ ClearPending(a).next_dispatch = a.next_dispatch
        /\ ClearPending(a).instance = a.instance
        /\ ClearPending(a).lease = a.lease
        /\ ClearPending(a).epoch = a.epoch
    BY Zenon DEF Authority, ClearPending
  <2> QED
    BY <1>2, <2>1, <2>2, ClearPendingSound
<1>3. CASE ~BeginOk(a, at) /\ ~BeginDropsPending(a, at)
  BY <1>3 DEF Begin
<1> QED
  BY <1>1, <1>2, <1>3

\* Reserving and returning a reservation: the transport queue's part.
LEMMA SetReservedSound ==
    ASSUME NEW a \in Authority, NEW s \in BOOLEAN, NEW u \in BOOLEAN, Sound(a, s, u),
           NEW r \in OutputIntent \cup {None},
           r # None =>
              /\ a.in_flight = None
              /\ a.state # "Unverified"
              /\ ~a.safe_confirmed
              /\ ~a.ambiguous_safe_resend_blocked
              /\ r.instance = a.instance
              /\ r.epoch = a.epoch
              /\ r.safe <=> a.safe_obligation_pending
              /\ ~r.safe => r.lease # None,
           NEW b, b = [a EXCEPT !.transport_reserved = r]
    PROVE  b \in Authority /\ Sound(b, s, u)
<1>1. b \in Authority
  BY Zenon DEF Authority
<1>2. LeaseInv(b) /\ ReservedInv(b)
  BY <1>1 DEF Authority, Sound, Consistent, LeaseInv, ReservedInv
<1>3. InFlightInv(b, s) /\ ConfirmedInv(b, s)
  BY <1>1 DEF Authority, Sound, Consistent, InFlightInv, ConfirmedInv
<1>4. SafeInv(b) /\ BlockedInv(b, u) /\ WorkInv(b)
  BY <1>1 DEF Authority, Sound, Consistent, SafeInv, BlockedInv, WorkInv
<1> QED
  BY <1>1, <1>2, <1>3, <1>4 DEF Sound, Consistent

\* Reserving for the transport queue keeps Sound.
LEMMA ReserveSound ==
    ASSUME NEW a \in Authority, NEW s \in BOOLEAN, NEW u \in BOOLEAN, Sound(a, s, u),
           NEW at \in Nat, NEW deadline \in Nat, NEW generation \in Nat
    PROVE  /\ ReserveTransport(a, at, deadline, generation) \in Authority
           /\ Sound(ReserveTransport(a, at, deadline, generation), s, u)
<1> DEFINE r == ReservedIntent(a, deadline, generation)
<1>1. CASE ReserveOk(a, at, deadline, generation)
  <2>1. a.pending # None =>
          /\ a.pending \in Pending /\ a.pending.lease \in OutputLease
          /\ a.pending.expires \in Nat
    BY DEF Authority, Pending
  <2>2. r \in OutputIntent
    BY <1>1, <2>1, Numbers DEF ReservedIntent, ReserveOk, OutputIntent, Earlier
  <2>3. /\ r.instance = a.instance
        /\ r.epoch = a.epoch
        /\ r.safe <=> a.safe_obligation_pending
        /\ ~r.safe => r.lease # None
    BY <1>1, <2>1, NoneAssumption DEF ReservedIntent, ReserveOk
  <2>4. a.in_flight = None /\ a.state # "Unverified" /\ ~a.safe_confirmed
    BY <1>1, <2>1, NoneAssumption
    DEF ReserveOk, CheckLease, Sound, Consistent, LeaseInv, SafeInv, ConfirmedInv, Armed
  <2>5. ~a.ambiguous_safe_resend_blocked
    BY <1>1 DEF ReserveOk, Sound, Consistent, BlockedInv
  <2>6. ReserveTransport(a, at, deadline, generation) = [a EXCEPT !.transport_reserved = r]
    BY <1>1, Zenon DEF ReserveTransport
  <2> HIDE DEF r
  <2> QED
    BY <2>2, <2>3, <2>4, <2>5, <2>6, SetReservedSound
<1>2. CASE ~ReserveOk(a, at, deadline, generation)
  BY <1>2, ClearPendingSound DEF ReserveTransport
<1> QED
  BY <1>1, <1>2

\* The physical send.
LEMMA BeginTransportSound ==
    ASSUME NEW a \in Authority, NEW s \in BOOLEAN, NEW u \in BOOLEAN, Sound(a, s, u),
           NEW intent \in OutputIntent, NEW at \in Nat,
           BeginTransportOk(a, intent, at)
    PROVE  /\ BeginTransport(a, intent, at) \in Authority
           /\ Sound(BeginTransport(a, intent, at), intent.safe, u)
           /\ BeginTransport(a, intent, at).in_flight # None
           /\ BeginTransport(a, intent, at).in_flight.safe = intent.safe
           /\ BeginTransport(a, intent, at).in_flight.epoch = a.epoch
           /\ BeginTransport(a, intent, at).instance = a.instance
           /\ BeginTransport(a, intent, at).lease = a.lease
           /\ BeginTransport(a, intent, at).epoch = a.epoch
           /\ BeginTransport(a, intent, at).next_dispatch = a.next_dispatch + 1
<1> DEFINE o == a.safe_obligation_pending /\ ~intent.safe
           p == IF intent.safe THEN a.pending ELSE None
           base == [a EXCEPT !.transport_reserved = None,
                             !.safe_obligation_pending = o,
                             !.pending = p]
<1>1. BeginTransport(a, intent, at) = Started(base, intent.safe, intent.epoch)
  BY Zenon DEF BeginTransport
<1>2. o \in BOOLEAN /\ p \in Pending \cup {None} /\ p \in {a.pending, None}
  BY Zenon DEF Authority
<1>3. /\ a.transport_reserved = intent /\ intent # None
      /\ intent.epoch = a.epoch
      /\ intent.safe \in BOOLEAN
      /\ a.in_flight = None
      /\ a.profile # None
      /\ a.next_dispatch < MaxDispatch
  BY NoneAssumption DEF BeginTransportOk, ValidateTransport, OutputIntent
<1>4. /\ ~o
      /\ ~a.ambiguous_safe_resend_blocked
      /\ intent.safe => a.safe_obligation_pending
      /\ ~intent.safe => a.lease # None
  BY <1>3
  DEF BeginTransportOk, ValidateTransport, CheckLease, Sound, Consistent, ReservedInv, BlockedInv
<1> HIDE DEF o, p
<1>5. base \in Authority
  BY <1>2, Zenon DEF Authority
<1>6. /\ base.instance = a.instance
      /\ base.profile = a.profile
      /\ base.state = a.state
      /\ base.lease = a.lease
      /\ base.epoch = a.epoch
      /\ base.fault_latched = a.fault_latched
      /\ base.pending = p
      /\ base.transport_reserved = None
      /\ base.safe_obligation_pending = o
      /\ base.ambiguous_safe_resend_blocked = a.ambiguous_safe_resend_blocked
      /\ base.next_dispatch = a.next_dispatch
  BY Zenon DEF Authority
<1>7. Spent(a, base)
  BY <1>2, <1>4, <1>6, Zenon DEF Spent
<1> HIDE DEF base
<1> QED
  BY <1>1, <1>3, <1>4, <1>5, <1>7, StartedSound

\* Giving a reservation back keeps Sound, and the obligation of a safe one.
LEMMA AbortSound ==
    ASSUME NEW a \in Authority, NEW s \in BOOLEAN, NEW u \in BOOLEAN, Sound(a, s, u),
           NEW intent
    PROVE  AbortTransport(a, intent) \in Authority /\ Sound(AbortTransport(a, intent), s, u)
<1> DEFINE r == [a EXCEPT !.transport_reserved = None]
           c == [r EXCEPT !.pending = None]
<1>1. r \in Authority /\ Sound(r, s, u)
  BY SetReservedSound
<1>2. CASE a.transport_reserved = intent /\ ~intent.safe
  <2>1. AbortTransport(a, intent) = FailManualBeforeSend(c)
    BY <1>2, Zenon DEF AbortTransport
  <2> HIDE DEF r
  <2>2. c \in Authority /\ Sound(c, s, u)
    BY <1>1, SetPendingSound
  <2> HIDE DEF c
  <2>3. /\ FailManualBeforeSend(c) \in Authority
        /\ SamePermission(c, FailManualBeforeSend(c))
        /\ SameEvidence(c, FailManualBeforeSend(c))
    BY <2>2, FailManualFields
  <2> QED
    BY <2>1, <2>2, <2>3, SoundSame
<1>3. CASE a.transport_reserved = intent /\ intent.safe
  BY <1>1, <1>3 DEF AbortTransport
<1>4. CASE a.transport_reserved # intent
  BY <1>4 DEF AbortTransport
<1> QED
  BY <1>2, <1>3, <1>4

\* Recording an outcome touches nothing else.
LEMMA SetOutcome ==
    ASSUME NEW a \in Authority, NEW o \in DispatchOutcome, NEW b,
           b = [a EXCEPT !.outcome = o]
    PROVE  b \in Authority /\ SamePermission(a, b) /\ SameEvidence(a, b)
<1>1. b \in Authority
  BY Zenon DEF Authority
<1> QED
  BY <1>1, Zenon DEF Authority, SamePermission, SameEvidence

\* A failure before the first byte keeps Sound.
LEMMA FailBeforeSendSound ==
    ASSUME NEW a \in Authority, NEW s \in BOOLEAN, NEW u \in BOOLEAN, Sound(a, s, u),
           NEW intent
    PROVE  /\ FailTransportBeforeSend(a, intent) \in Authority
           /\ Sound(FailTransportBeforeSend(a, intent), s, u)
<1> DEFINE c == AbortTransport(a, intent)
           b == [c EXCEPT !.outcome = "Failed"]
<1>1. c \in Authority /\ Sound(c, s, u)
  BY AbortSound
<1> HIDE DEF c
<1>2. "Failed" \in DispatchOutcome
  BY DEF DispatchOutcome
<1>3. b \in Authority /\ SamePermission(c, b) /\ SameEvidence(c, b)
  BY <1>1, <1>2, SetOutcome
<1> HIDE DEF b
<1>4. Sound(b, s, u)
  BY <1>1, <1>3, SoundSame
<1> QED
  BY <1>3, <1>4 DEF FailTransportBeforeSend, b, c

-----------------------------------------------------------------------------
(* Evidence.                                                               *)

\* `a` without its dispatch in flight, and with the evidence it brought.
Settled(a, c, ack, rb) ==
    /\ c.instance = a.instance
    /\ c.next_dispatch = a.next_dispatch
    /\ c.in_flight = None
    /\ c.acknowledged = ack /\ c.readback = rb
    /\ c.profile = a.profile
    /\ c.state = a.state
    /\ c.lease = a.lease
    /\ c.epoch = a.epoch
    /\ c.transport_reserved = a.transport_reserved
    /\ c.safe_obligation_pending <=> a.safe_obligation_pending
    /\ c.sent = a.sent

\* The dispatch leaves flight before its outcome is judged: a pending safe
\* state may be without its work for that moment.
LEMMA SettledConsistent ==
    ASSUME NEW a \in Authority, NEW s \in BOOLEAN, NEW u \in BOOLEAN, Sound(a, s, u),
           a.in_flight # None, NEW o \in DispatchOutcome, NEW ack \in Nat, NEW rb \in Nat,
           NEW c, c = [a EXCEPT !.in_flight = None, !.outcome = o,
                                !.acknowledged = ack, !.readback = rb]
    PROVE  c \in Authority /\ Consistent(c, s, u) /\ Settled(a, c, ack, rb)
<1>1. c \in Authority
  BY Zenon DEF Authority
<1>2. LeaseInv(c) /\ ReservedInv(c) /\ InFlightInv(c, s)
  BY <1>1 DEF Authority, Sound, Consistent, LeaseInv, ReservedInv, InFlightInv
<1>3. SafeInv(c) /\ ConfirmedInv(c, s) /\ BlockedInv(c, u)
  BY <1>1 DEF Authority, Sound, Consistent, SafeInv, InFlightInv, ConfirmedInv, BlockedInv
<1>4. Settled(a, c, ack, rb)
  BY Zenon DEF Authority, Settled
<1> QED
  BY <1>1, <1>2, <1>3, <1>4 DEF Consistent

\* Sufficient evidence disarms, insufficient evidence latches, and an obsolete
\* safe write leaves the newer obligation standing.
LEMMA ConfirmSafeSound ==
    ASSUME NEW c \in Authority, NEW s \in BOOLEAN, NEW u \in BOOLEAN, Consistent(c, s, u),
           NEW d \in Dispatch, NEW outcome \in {"Acknowledged", "ReadbackVerified"},
           c.in_flight = None,
           c.transport_reserved = None,
           c.profile # None,
           c.state \notin {"Unverified", "Disarmed"},
           d.safe <=> s,
           d.safe /\ d.epoch = c.epoch =>
              c.lease = None /\ ~c.safe_obligation_pending,
           ~(d.safe /\ d.epoch = c.epoch) => WorkInv(c),
           c.acknowledged = c.sent,
           outcome = "ReadbackVerified" => c.readback = c.sent
    PROVE  ConfirmSafe(c, d, outcome) \in Authority /\ Sound(ConfirmSafe(c, d, outcome), s, u)
<1> DEFINE ok == Sufficient(c, outcome)
           f == c.fault_latched \/ ~ok
           st == IF f THEN "FaultLatched" ELSE "Disarmed"
           b == [c EXCEPT !.safe_confirmed = ok, !.fault_latched = f, !.state = st]
<1>1. CASE d.safe /\ d.epoch = c.epoch
  <2>1. ConfirmSafe(c, d, outcome) = b
    BY <1>1, Zenon DEF ConfirmSafe
  <2>2. ok \in BOOLEAN /\ f \in BOOLEAN /\ st \in OutputState
    BY Zenon DEF Sufficient, Authority, OutputState
  <2>3. ok => (c.profile = "Readback" => c.readback = c.sent)
    BY DEF Sufficient
  <2>4. /\ st = "FaultLatched" <=> f
        /\ st = "Disarmed" <=> ~f
        /\ st \in {"FaultLatched", "Disarmed"}
        /\ ~f => ok
    OBVIOUS
  <2> HIDE DEF ok, f, st
  <2>5. b \in Authority
    BY <2>2, Zenon DEF Authority
  <2>6. /\ b.instance = c.instance /\ b.profile = c.profile /\ b.lease = c.lease
        /\ b.epoch = c.epoch /\ b.pending = c.pending
        /\ b.transport_reserved = c.transport_reserved
        /\ b.in_flight = c.in_flight
        /\ b.safe_obligation_pending = c.safe_obligation_pending
        /\ b.ambiguous_safe_resend_blocked = c.ambiguous_safe_resend_blocked
        /\ b.sent = c.sent /\ b.acknowledged = c.acknowledged
        /\ b.readback = c.readback
        /\ b.state = st /\ b.fault_latched = f /\ b.safe_confirmed = ok
    BY Zenon DEF Authority
  <2> HIDE DEF b
  <2>7. LeaseInv(b) /\ ReservedInv(b) /\ InFlightInv(b, s)
    BY <1>1, <2>4, <2>6 DEF Consistent, LeaseInv, ReservedInv, InFlightInv, Armed
  <2>8. SafeInv(b) /\ WorkInv(b)
    BY <1>1, <2>2, <2>4, <2>6 DEF SafeInv, WorkInv
  <2>9. ConfirmedInv(b, s)
    BY <1>1, <2>2, <2>3, <2>4, <2>6 DEF ConfirmedInv
  <2>10. BlockedInv(b, u)
    BY <1>1, <2>6 DEF Consistent, BlockedInv
  <2> QED
    BY <2>1, <2>5, <2>7, <2>8, <2>9, <2>10 DEF Sound, Consistent
<1>2. CASE ~(d.safe /\ d.epoch = c.epoch)
  BY <1>2 DEF ConfirmSafe, Sound
<1> QED
  BY <1>1, <1>2

\* The history a completion leaves: a failed or ambiguous safe write is unknown.
Unknown(a, id, u) == u \/ (IsInFlight(a, id) /\ a.in_flight.safe)

\* A completion, of whatever dispatch and with whatever outcome, keeps Sound.
LEMMA CompleteSound ==
    ASSUME NEW a \in Authority, NEW s \in BOOLEAN, NEW u \in BOOLEAN, Sound(a, s, u),
           NEW id \in DispatchId, NEW outcome \in DispatchOutcome
    PROVE  /\ Complete(a, id, outcome) \in Authority
           /\ outcome \in {"Failed", "Ambiguous"} =>
                 Sound(Complete(a, id, outcome), s, Unknown(a, id, u))
           /\ outcome \notin {"Failed", "Ambiguous"} =>
                 Sound(Complete(a, id, outcome), s, u)
<1> DEFINE d == a.in_flight
           ack == IF outcome \in {"Acknowledged", "ReadbackVerified"}
                  THEN id.sequence ELSE a.acknowledged
           rb == IF outcome = "ReadbackVerified" THEN id.sequence ELSE a.readback
           c == [a EXCEPT !.in_flight = None, !.outcome = outcome,
                          !.acknowledged = ack, !.readback = rb]
           m == CaptureManualDelivery(c, id, TRUE)
<1>1. CASE IsInFlight(a, id)
  <2>1. /\ Complete(a, id, outcome) =
              IF outcome \in {"Failed", "Ambiguous"}
              THEN FailClosed(m, d) ELSE ConfirmSafe(m, d, outcome)
    BY <1>1, Zenon DEF Complete
  <2>2. ack \in Nat /\ rb \in Nat
    BY DEF Authority, DispatchId
  <2>3. /\ d # None /\ d \in Dispatch /\ d.safe \in BOOLEAN
        /\ id.sequence = a.sent
        /\ d.safe <=> s
        /\ a.profile # None
        /\ a.state \notin {"Unverified", "Disarmed"}
        /\ a.transport_reserved = None
    BY <1>1, Numbers DEF IsInFlight, Sound, Consistent, InFlightInv, ReservedInv
  <2>4. /\ outcome \notin {"Failed", "Ambiguous"} => ack = a.sent
        /\ outcome = "ReadbackVerified" => rb = a.sent
    BY <2>3 DEF DispatchOutcome
  <2>5. /\ d.safe /\ d.epoch = a.epoch => a.lease = None /\ ~a.safe_obligation_pending
        /\ ~(d.safe /\ d.epoch = a.epoch) =>
              (a.state = "SafePending" => a.safe_obligation_pending)
    BY <2>3 DEF Sound, Consistent, InFlightInv, LeaseInv, WorkInv
  <2> HIDE DEF ack, rb
  <2>6. c \in Authority /\ Consistent(c, s, u) /\ Settled(a, c, ack, rb)
    BY <2>2, <2>3, SettledConsistent
  <2> HIDE DEF c
  <2>7. m \in Authority /\ SamePermission(c, m) /\ SameEvidence(c, m)
    BY <2>6, CaptureFields
  <2> HIDE DEF m, d
  <2>8. Consistent(m, s, u)
    BY <2>6, <2>7, ConsistentSame
  <2>9. /\ m.in_flight = None
        /\ m.transport_reserved = None
        /\ m.profile # None
        /\ m.state = a.state
        /\ m.epoch = a.epoch
        /\ m.sent = a.sent
        /\ m.acknowledged = ack
        /\ m.readback = rb
        /\ m.lease = a.lease
        /\ m.safe_obligation_pending <=> a.safe_obligation_pending
    BY <2>3, <2>6, <2>7, Zenon DEF SamePermission, SameEvidence, Settled
  <2>10. CASE outcome \in {"Failed", "Ambiguous"}
    <3>1. FailClosed(m, d) \in Authority /\ Sound(FailClosed(m, d), s, u \/ d.safe)
      BY <2>3, <2>7, <2>8, <2>9, FailClosedSound
    <3>2. Unknown(a, id, u) = (u \/ d.safe)
      BY <1>1, <2>3 DEF Unknown, d
    <3> QED
      BY <2>1, <2>10, <3>1, <3>2
  <2>11. CASE outcome \notin {"Failed", "Ambiguous"}
    <3>1. outcome \in {"Acknowledged", "ReadbackVerified"}
      BY <2>11 DEF DispatchOutcome
    <3>2. ~(d.safe /\ d.epoch = m.epoch) => WorkInv(m)
      BY <2>5, <2>9 DEF WorkInv
    <3>3. d.safe /\ d.epoch = m.epoch => m.lease = None /\ ~m.safe_obligation_pending
      BY <2>5, <2>9
    <3>4. m.acknowledged = m.sent /\ (outcome = "ReadbackVerified" => m.readback = m.sent)
      BY <2>4, <2>9, <2>11
    <3>5. m.state \notin {"Unverified", "Disarmed"}
      BY <2>3, <2>9
    <3>6. /\ ConfirmSafe(m, d, outcome) \in Authority
          /\ Sound(ConfirmSafe(m, d, outcome), s, u)
      BY <2>3, <2>7, <2>8, <2>9, <3>1, <3>2, <3>3, <3>4, <3>5, ConfirmSafeSound
    <3> QED
      BY <2>1, <2>11, <3>6
  <2> QED
    BY <2>10, <2>11
<1>2. CASE ~IsInFlight(a, id)
  <2>1. Complete(a, id, outcome) = a
    BY <1>2 DEF Complete
  <2>2. Unknown(a, id, u) = u
    BY <1>2 DEF Unknown
  <2> QED
    BY <2>1, <2>2
<1> QED
  BY <1>1, <1>2

\* A send whose result is unknown fails closed.
LEMMA UncertainSound ==
    ASSUME NEW a \in Authority, NEW s \in BOOLEAN, NEW u \in BOOLEAN, Sound(a, s, u),
           NEW id \in DispatchId
    PROVE  /\ TransportUncertain(a, id) \in Authority
           /\ Sound(TransportUncertain(a, id), s, Unknown(a, id, u))
<1>1. CASE IsInFlight(a, id)
  <2> DEFINE d == a.in_flight
  <2>1. d \in Dispatch /\ d.safe \in BOOLEAN /\ a.profile # None
    BY <1>1, Numbers DEF IsInFlight, Sound, Consistent, InFlightInv
  <2>2. Unknown(a, id, u) = (u \/ d.safe)
    BY <1>1, <2>1 DEF Unknown
  <2>3. TransportUncertain(a, id) = FailClosed(a, d)
    BY <1>1, Zenon DEF TransportUncertain
  <2> HIDE DEF d
  <2>4. FailClosed(a, d) \in Authority /\ Sound(FailClosed(a, d), s, u \/ d.safe)
    BY <2>1, FailClosedSound DEF Sound
  <2> QED
    BY <2>2, <2>3, <2>4
<1>2. CASE ~IsInFlight(a, id)
  <2>1. Unknown(a, id, u) = u
    BY <1>2 DEF Unknown
  <2> QED
    BY <1>2, <2>1 DEF TransportUncertain
<1> QED
  BY <1>1, <1>2

\* An acknowledgement alone proves no safe state.
LEMMA AcknowledgeSound ==
    ASSUME NEW a \in Authority, NEW s \in BOOLEAN, NEW u \in BOOLEAN, Sound(a, s, u),
           NEW id \in DispatchId
    PROVE  AcknowledgeTransport(a, id) \in Authority /\ Sound(AcknowledgeTransport(a, id), s, u)
<1> DEFINE c == [a EXCEPT !.acknowledged = id.sequence, !.outcome = "Acknowledged"]
           b == CaptureManualDelivery(c, id, FALSE)
<1>1. CASE IsInFlight(a, id)
  <2>1. id.sequence \in Nat /\ "Acknowledged" \in DispatchOutcome
    BY DEF DispatchId, DispatchOutcome
  <2>2. c \in Authority
    BY <2>1, Zenon DEF Authority
  <2>3. SamePermission(a, c)
    BY Zenon DEF Authority, SamePermission
  <2>4. ~a.safe_confirmed
    BY <1>1 DEF IsInFlight, Sound, Consistent, InFlightInv
  <2> HIDE DEF c
  <2>5. LeaseInv(c) /\ ReservedInv(c) /\ InFlightInv(c, s)
    BY <2>3 DEF Sound, Consistent, SamePermission, LeaseInv, ReservedInv, InFlightInv
  <2>6. SafeInv(c) /\ ConfirmedInv(c, s)
    BY <2>3, <2>4 DEF Sound, Consistent, SamePermission, SafeInv, ConfirmedInv
  <2>7. BlockedInv(c, u) /\ WorkInv(c)
    BY <2>3 DEF Sound, Consistent, SamePermission, BlockedInv, WorkInv
  <2>8. Sound(c, s, u)
    BY <2>5, <2>6, <2>7 DEF Sound, Consistent
  <2>9. b \in Authority /\ SamePermission(c, b) /\ SameEvidence(c, b)
    BY <2>2, CaptureFields
  <2>10. AcknowledgeTransport(a, id) = b
    BY <1>1, Zenon DEF AcknowledgeTransport, c
  <2> HIDE DEF b
  <2>11. Sound(b, s, u)
    BY <2>2, <2>8, <2>9, SoundSame
  <2> QED
    BY <2>9, <2>10, <2>11
<1>2. CASE ~IsInFlight(a, id)
  BY <1>2 DEF AcknowledgeTransport
<1> QED
  BY <1>1, <1>2

\* Recording why a readback failed disturbs nothing.
LEMMA SetReadbackFailure ==
    ASSUME NEW a \in Authority, NEW f \in ReadbackFailure, NEW b,
           b = [a EXCEPT !.readback_failure = f]
    PROVE  b \in Authority /\ SamePermission(a, b) /\ SameEvidence(a, b)
<1>1. b \in Authority
  BY Zenon DEF Authority
<1> QED
  BY <1>1, Zenon DEF Authority, SamePermission, SameEvidence

\* A readback keeps Sound, matching or not.
LEMMA ReadbackSound ==
    ASSUME NEW a \in Authority, NEW s \in BOOLEAN, NEW u \in BOOLEAN, Sound(a, s, u),
           NEW id \in DispatchId
    PROVE  /\ CompleteTransportReadback(a, id, TRUE) \in Authority
           /\ Sound(CompleteTransportReadback(a, id, TRUE), s, u)
           /\ CompleteTransportReadback(a, id, FALSE) \in Authority
           /\ Sound(CompleteTransportReadback(a, id, FALSE), s, Unknown(a, id, u))
           /\ FailTransportReadback(a, id) \in Authority
           /\ Sound(FailTransportReadback(a, id), s, Unknown(a, id, u))
<1>1. /\ CompleteTransportReadback(a, id, TRUE) \in Authority
      /\ Sound(CompleteTransportReadback(a, id, TRUE), s, u)
  <2>1. "ReadbackVerified" \in DispatchOutcome /\ "ReadbackVerified" \notin {"Failed", "Ambiguous"}
    BY DEF DispatchOutcome
  <2>2. /\ Complete(a, id, "ReadbackVerified") \in Authority
        /\ Sound(Complete(a, id, "ReadbackVerified"), s, u)
    BY <2>1, CompleteSound
  <2> QED
    BY <2>2 DEF CompleteTransportReadback
<1>2. ASSUME NEW f \in ReadbackFailure, NEW o \in {"Failed", "Ambiguous"}
      PROVE  LET c == [a EXCEPT !.readback_failure = f]
             IN  /\ Complete(c, id, o) \in Authority
                 /\ Sound(Complete(c, id, o), s, Unknown(a, id, u))
  <2> DEFINE c == [a EXCEPT !.readback_failure = f]
  <2>1. c \in Authority /\ SamePermission(a, c) /\ SameEvidence(a, c)
    BY SetReadbackFailure
  <2> HIDE DEF c
  <2>2. Sound(c, s, u)
    BY <2>1, SoundSame
  <2>3. Unknown(c, id, u) = Unknown(a, id, u)
    BY <2>1 DEF SamePermission, Unknown, IsInFlight
  <2>4. o \in DispatchOutcome
    BY DEF DispatchOutcome
  <2>5. Complete(c, id, o) \in Authority /\ Sound(Complete(c, id, o), s, Unknown(c, id, u))
    BY <2>1, <2>2, <2>4, CompleteSound
  <2> QED
    BY <2>3, <2>5 DEF c
<1>3. /\ CompleteTransportReadback(a, id, FALSE) \in Authority
      /\ Sound(CompleteTransportReadback(a, id, FALSE), s, Unknown(a, id, u))
  <2>1. CASE IsInFlight(a, id)
    <3>1. "Mismatch" \in ReadbackFailure
      BY DEF ReadbackFailure
    <3> QED
      BY <1>2, <2>1, <3>1 DEF CompleteTransportReadback
  <2>2. CASE ~IsInFlight(a, id)
    <3>1. Unknown(a, id, u) = u
      BY <2>2 DEF Unknown
    <3> QED
      BY <2>2, <3>1 DEF CompleteTransportReadback
  <2> QED
    BY <2>1, <2>2
<1>4. /\ FailTransportReadback(a, id) \in Authority
      /\ Sound(FailTransportReadback(a, id), s, Unknown(a, id, u))
  <2>1. "Unavailable" \in ReadbackFailure
    BY DEF ReadbackFailure
  <2> QED
    BY <1>2, <2>1 DEF FailTransportReadback
<1> QED
  BY <1>1, <1>3, <1>4

-----------------------------------------------------------------------------
(* Quiet methods, sends and grants.                                        *)

\* A step of an instance that starts no send and grants no lease.
Quiet(a, b) ==
    /\ b.instance = a.instance
    /\ b.epoch >= a.epoch
    /\ b.next_dispatch = a.next_dispatch
    /\ a.lease = None => b.lease = None

\* Quiet changes compose.
LEMMA QuietTransitive ==
    ASSUME NEW a \in Authority, NEW b \in Authority, NEW c \in Authority,
           Quiet(a, b), Quiet(b, c)
    PROVE  Quiet(a, c)
  BY Numbers DEF Quiet

\* What leaves the permission alone is quiet.
LEMMA SameQuiet ==
    ASSUME NEW a \in Authority, NEW b, SamePermission(a, b)
    PROVE  Quiet(a, b)
  BY Numbers DEF SamePermission, Quiet

\* A safe request grants and sends nothing.
LEMMA RequestSafeQuiet ==
    ASSUME NEW a \in Authority, NEW fault \in BOOLEAN
    PROVE  RequestSafe(a, fault) \in Authority /\ Quiet(a, RequestSafe(a, fault))
<1>1. /\ RequestSafe(a, fault) \in Authority
      /\ Requested(a, fault, RequestSafe(a, fault))
  BY RequestSafeFields
<1> QED
  BY <1>1, Numbers DEF Requested, Quiet

\* Commands other than Acquire.
LEMMA CommandsQuiet ==
    ASSUME NEW a \in Authority, NEW evidence \in EvidenceLevel,
           NEW lease, NEW lifetime, NEW ttl, NEW at, NEW n,
           NEW fault \in BOOLEAN
    PROVE  /\ Quiet(a, Bind(a, evidence))
           /\ Quiet(a, Trip(a, fault))
           /\ lease # None => Quiet(a, Renew(a, lease, lifetime, at))
           /\ Quiet(a, Release(a, lease, at))
           /\ Quiet(a, AcknowledgeFault(a))
           /\ Quiet(a, Tick(a, at))
           /\ Quiet(a, Propose(a, lease, ttl, at))
           /\ Quiet(a, TrackManualAttempt(Propose(a, lease, ttl, at), n))
           /\ Quiet(a, ClearPending(a))
<1>0. Quiet(a, a)
  BY SameItself, SameQuiet
<1>1. Quiet(a, Bind(a, evidence))
  <2>1. CASE BindOk(a) /\ BumpEpochOk(a)
    BY <2>1, Numbers DEF Bind, Quiet, Authority
  <2>2. CASE BindOk(a) /\ ~BumpEpochOk(a)
    BY <2>2, Numbers DEF Bind, Exhausted, Quiet, Authority
  <2>3. CASE ~BindOk(a)
    BY <1>0, <2>3 DEF Bind
  <2> QED
    BY <2>1, <2>2, <2>3
<1>2. Quiet(a, Trip(a, fault)) /\ Quiet(a, Release(a, lease, at)) /\ Quiet(a, Tick(a, at))
  BY <1>0, RequestSafeQuiet DEF Trip, Release, Tick
<1>3. lease # None => Quiet(a, Renew(a, lease, lifetime, at))
  <2>1. CASE RenewOk(a, lease, lifetime, at)
    BY <2>1, Numbers DEF Renew, RenewOk, CheckLease, Quiet, Authority
  <2>2. CASE ~RenewOk(a, lease, lifetime, at)
    BY <1>0, <2>2 DEF Renew
  <2> QED
    BY <2>1, <2>2
<1>4. Quiet(a, AcknowledgeFault(a))
  BY <1>0, Numbers DEF AcknowledgeFault, Quiet, Authority
<1>5. Quiet(a, Propose(a, lease, ttl, at)) /\ Quiet(a, ClearPending(a))
  BY <1>0, Numbers DEF Propose, ClearPending, Quiet, Authority
<1>6. Quiet(a, TrackManualAttempt(Propose(a, lease, ttl, at), n))
  BY Numbers DEF TrackManualAttempt, Propose, Quiet, Authority
<1> QED
  BY <1>1, <1>2, <1>3, <1>4, <1>5, <1>6

\* Reservations, and intents that never started.
LEMMA TransportQuiet ==
    ASSUME NEW a \in Authority, NEW intent, NEW at, NEW deadline, NEW generation
    PROVE  /\ Quiet(a, ReserveTransport(a, at, deadline, generation))
           /\ Quiet(a, AbortTransport(a, intent))
           /\ Quiet(a, FailTransportBeforeSend(a, intent))
<1>0. Quiet(a, a)
  BY SameItself, SameQuiet
<1>1. Quiet(a, ReserveTransport(a, at, deadline, generation))
  BY <1>0, Numbers DEF ReserveTransport, ClearPending, Quiet, Authority
<1>2. AbortTransport(a, intent) \in Authority /\ Quiet(a, AbortTransport(a, intent))
  <2> DEFINE r == [a EXCEPT !.transport_reserved = None]
             c == [a EXCEPT !.transport_reserved = None, !.pending = None]
  <2>1. r \in Authority /\ c \in Authority
    BY Zenon DEF Authority
  <2>2. Quiet(a, r) /\ Quiet(a, c)
    BY Numbers DEF Quiet, Authority
  <2>3. AbortTransport(a, intent) \in {a, r, FailManualBeforeSend(c)}
    BY Zenon DEF AbortTransport
  <2> HIDE DEF r, c
  <2>4. /\ FailManualBeforeSend(c) \in Authority
        /\ SamePermission(c, FailManualBeforeSend(c))
    BY <2>1, FailManualFields
  <2>5. Quiet(a, FailManualBeforeSend(c))
    BY <2>1, <2>2, <2>4, SameQuiet, QuietTransitive
  <2> QED
    BY <1>0, <2>1, <2>2, <2>3, <2>4, <2>5
<1>3. Quiet(a, FailTransportBeforeSend(a, intent))
  <2> DEFINE c == AbortTransport(a, intent)
             b == [c EXCEPT !.outcome = "Failed"]
  <2>1. c \in Authority /\ Quiet(a, c)
    BY <1>2
  <2>2. FailTransportBeforeSend(a, intent) \in {a, b}
    BY Zenon DEF FailTransportBeforeSend
  <2> HIDE DEF c
  <2>3. "Failed" \in DispatchOutcome
    BY DEF DispatchOutcome
  <2>4. b \in Authority /\ SamePermission(c, b)
    BY <2>1, <2>3, SetOutcome
  <2> HIDE DEF b
  <2> QED
    BY <1>0, <2>1, <2>2, <2>4, SameQuiet, QuietTransitive
<1> QED
  BY <1>1, <1>2, <1>3

\* Failing closed grants and sends nothing.
LEMMA FailClosedQuiet ==
    ASSUME NEW a \in Authority, NEW d \in Dispatch
    PROVE  FailClosed(a, d) \in Authority /\ Quiet(a, FailClosed(a, d))
<1> DEFINE b == RequestSafe(a, TRUE)
           c == [b EXCEPT !.ambiguous_safe_resend_blocked = TRUE, !.state = "FaultLatched"]
<1>1. b \in Authority /\ Quiet(a, b)
  BY RequestSafeQuiet
<1>2. FailClosed(a, d) \in {b, c}
  BY Zenon DEF FailClosed
<1> HIDE DEF b
<1>3. c \in Authority /\ Blocked(b, c)
  BY <1>1, BlockFields
<1> HIDE DEF c
<1>4. Quiet(b, c)
  BY <1>1, <1>3, Numbers DEF Blocked, Quiet
<1> QED
  BY <1>1, <1>2, <1>3, <1>4, QuietTransitive

\* Completions, however late: no evidence grants permission or sends.
LEMMA CompleteQuiet ==
    ASSUME NEW a \in Authority, NEW s \in BOOLEAN, NEW u \in BOOLEAN, Sound(a, s, u),
           NEW id \in DispatchId, NEW outcome \in DispatchOutcome
    PROVE  Quiet(a, Complete(a, id, outcome))
<1> DEFINE d == a.in_flight
           ack == IF outcome \in {"Acknowledged", "ReadbackVerified"}
                  THEN id.sequence ELSE a.acknowledged
           rb == IF outcome = "ReadbackVerified" THEN id.sequence ELSE a.readback
           c == [a EXCEPT !.in_flight = None, !.outcome = outcome,
                          !.acknowledged = ack, !.readback = rb]
           m == CaptureManualDelivery(c, id, TRUE)
<1>1. CASE IsInFlight(a, id)
  <2>1. Complete(a, id, outcome) \in {FailClosed(m, d), ConfirmSafe(m, d, outcome)}
    BY <1>1, Zenon DEF Complete
  <2>2. ack \in Nat /\ rb \in Nat /\ a.in_flight # None /\ d \in Dispatch
    BY <1>1, Numbers DEF Authority, DispatchId, IsInFlight
  <2> HIDE DEF ack, rb, d
  <2>3. c \in Authority /\ Settled(a, c, ack, rb)
    BY <2>2, SettledConsistent
  <2> HIDE DEF c
  <2>4. m \in Authority /\ SamePermission(c, m)
    BY <2>3, CaptureFields
  <2> HIDE DEF m
  <2>5. Quiet(a, m)
    BY <2>3, <2>4, Numbers DEF Settled, SamePermission, Quiet
  <2>6. Quiet(a, FailClosed(m, d))
    <3>1. FailClosed(m, d) \in Authority /\ Quiet(m, FailClosed(m, d))
      BY <2>2, <2>4, FailClosedQuiet
    <3> QED
      BY <2>4, <2>5, <3>1, QuietTransitive
  <2>7. Quiet(a, ConfirmSafe(m, d, outcome))
    BY <2>4, <2>5, Numbers DEF ConfirmSafe, Quiet, Authority
  <2> QED
    BY <2>1, <2>6, <2>7
<1>2. CASE ~IsInFlight(a, id)
  BY <1>2, SameItself, SameQuiet DEF Complete
<1> QED
  BY <1>1, <1>2

\* Acknowledgement and readback grant and send nothing.
LEMMA EvidenceQuiet ==
    ASSUME NEW a \in Authority, NEW s \in BOOLEAN, NEW u \in BOOLEAN, Sound(a, s, u),
           NEW id \in DispatchId, NEW matched \in BOOLEAN
    PROVE  /\ Quiet(a, TransportUncertain(a, id))
           /\ Quiet(a, AcknowledgeTransport(a, id))
           /\ Quiet(a, CompleteTransportReadback(a, id, matched))
           /\ Quiet(a, FailTransportReadback(a, id))
<1>0. Quiet(a, a)
  BY SameItself, SameQuiet
<1>1. Quiet(a, TransportUncertain(a, id))
  BY <1>0, FailClosedQuiet, Numbers DEF TransportUncertain, IsInFlight
<1>2. Quiet(a, AcknowledgeTransport(a, id))
  <2> DEFINE c == [a EXCEPT !.acknowledged = id.sequence, !.outcome = "Acknowledged"]
             b == CaptureManualDelivery(c, id, FALSE)
  <2>1. id.sequence \in Nat /\ "Acknowledged" \in DispatchOutcome
    BY DEF DispatchId, DispatchOutcome
  <2>2. c \in Authority
    BY <2>1, Zenon DEF Authority
  <2>3. SamePermission(a, c)
    BY Zenon DEF Authority, SamePermission
  <2>4. AcknowledgeTransport(a, id) \in {a, b}
    BY Zenon DEF AcknowledgeTransport
  <2> HIDE DEF c
  <2>5. b \in Authority /\ SamePermission(c, b)
    BY <2>2, CaptureFields
  <2> HIDE DEF b
  <2> QED
    BY <1>0, <2>2, <2>3, <2>4, <2>5, SameQuiet, QuietTransitive
<1>3. ASSUME NEW f \in ReadbackFailure, NEW o \in DispatchOutcome
      PROVE  Quiet(a, Complete([a EXCEPT !.readback_failure = f], id, o))
  <2> DEFINE c == [a EXCEPT !.readback_failure = f]
             b == Complete(c, id, o)
  <2>1. c \in Authority /\ SamePermission(a, c) /\ SameEvidence(a, c)
    BY SetReadbackFailure
  <2> HIDE DEF c
  <2>2. Sound(c, s, u) /\ Quiet(a, c)
    BY <2>1, SoundSame, SameQuiet
  <2>3. b \in Authority /\ Quiet(c, b)
    BY <2>1, <2>2, CompleteSound, CompleteQuiet
  <2> HIDE DEF b
  <2>4. Quiet(a, b)
    BY <2>1, <2>2, <2>3, QuietTransitive
  <2> QED
    BY <2>4 DEF b, c
<1>4. Quiet(a, CompleteTransportReadback(a, id, matched))
  <2>1. "Mismatch" \in ReadbackFailure /\ {"Failed", "ReadbackVerified"} \subseteq DispatchOutcome
    BY DEF ReadbackFailure, DispatchOutcome
  <2> QED
    BY <1>0, <1>3, <2>1, CompleteQuiet DEF CompleteTransportReadback
<1>5. Quiet(a, FailTransportReadback(a, id))
  <2>1. "Unavailable" \in ReadbackFailure /\ "Ambiguous" \in DispatchOutcome
    BY DEF ReadbackFailure, DispatchOutcome
  <2> QED
    BY <1>3, <2>1 DEF FailTransportReadback
<1> QED
  BY <1>1, <1>2, <1>4, <1>5

\* What a step that starts a send was entitled to.
Entitled(a, b, at) ==
    /\ b.instance = a.instance
    /\ b.epoch = a.epoch
    /\ b.lease = a.lease
    /\ a.in_flight = None
    /\ ~a.ambiguous_safe_resend_blocked
    /\ b.in_flight # None
    /\ ~b.in_flight.safe =>
          /\ a.lease # None
          /\ at < a.lease.expires
          /\ b.in_flight.epoch = a.lease.epoch
          /\ ~a.safe_obligation_pending

\* What a step that grants a lease rests on.
Grants(a, b) ==
    /\ b.instance = a.instance
    /\ b.next_dispatch = a.next_dispatch
    /\ b.epoch = a.epoch + 1
    /\ a.safe_confirmed

\* A grant has a new epoch.
LEMMA AcquireGrants ==
    ASSUME NEW a \in Authority, NEW owner, NEW lifetime, NEW at
    PROVE  \/ Quiet(a, Acquire(a, owner, lifetime, at))
           \/ Grants(a, Acquire(a, owner, lifetime, at))
<1>1. CASE AcquireOk(a, lifetime) /\ BumpEpochOk(a)
  BY <1>1, Numbers DEF Acquire, AcquireOk, Grants, Authority
<1>2. CASE AcquireOk(a, lifetime) /\ ~BumpEpochOk(a)
  BY <1>2, Numbers DEF Acquire, Exhausted, Quiet, Authority
<1>3. CASE ~AcquireOk(a, lifetime)
  BY <1>3, SameItself, SameQuiet DEF Acquire
<1> QED
  BY <1>1, <1>2, <1>3

\* A simulated send starts only with a valid permission.
LEMMA BeginEntitled ==
    ASSUME NEW a \in Authority, NEW s \in BOOLEAN, NEW u \in BOOLEAN, Sound(a, s, u),
           NEW at \in Nat
    PROVE  Quiet(a, Begin(a, at)) \/ Entitled(a, Begin(a, at), at)
<1>1. CASE BeginOk(a, at)
  <2>1. /\ a.in_flight = None
        /\ ~a.ambiguous_safe_resend_blocked
        /\ ~BeginSafe(a) =>
              /\ a.lease # None
              /\ at < a.lease.expires
              /\ a.lease.epoch = a.epoch
              /\ ~a.safe_obligation_pending
    BY <1>1, NoneAssumption
    DEF BeginOk, BeginSafe, CheckLease, Sound, Consistent, BlockedInv, LeaseInv, Authority, Pending
  <2>2. /\ Begin(a, at).instance = a.instance
        /\ Begin(a, at).in_flight # None
        /\ Begin(a, at).in_flight.safe = BeginSafe(a)
        /\ Begin(a, at).in_flight.epoch = a.epoch
        /\ Begin(a, at).lease = a.lease
        /\ Begin(a, at).epoch = a.epoch
    BY <1>1, BeginSound
  <2> QED
    BY <2>1, <2>2, Zenon DEF Entitled
<1>2. CASE ~BeginOk(a, at)
  <2>1. Quiet(a, ClearPending(a)) /\ Quiet(a, a)
    <3>1. "Readback" \in EvidenceLevel
      BY DEF EvidenceLevel
    <3> QED
      BY <3>1, CommandsQuiet, SameItself, SameQuiet
  <2> QED
    BY <1>2, <2>1 DEF Begin
<1> QED
  BY <1>1, <1>2

\* So does a physical one.
LEMMA BeginTransportEntitled ==
    ASSUME NEW a \in Authority, NEW s \in BOOLEAN, NEW u \in BOOLEAN, Sound(a, s, u),
           NEW intent \in OutputIntent, NEW at \in Nat
    PROVE  \/ Quiet(a, BeginTransport(a, intent, at))
           \/ Entitled(a, BeginTransport(a, intent, at), at)
<1>1. CASE BeginTransportOk(a, intent, at)
  <2>1. /\ a.in_flight = None
        /\ ~a.ambiguous_safe_resend_blocked
        /\ ~intent.safe =>
              /\ a.lease # None
              /\ at < a.lease.expires
              /\ a.lease.epoch = a.epoch
              /\ ~a.safe_obligation_pending
    BY <1>1, NoneAssumption
    DEF BeginTransportOk, ValidateTransport, CheckLease, Sound, Consistent, BlockedInv, ReservedInv
  <2>2. /\ BeginTransport(a, intent, at).instance = a.instance
        /\ BeginTransport(a, intent, at).in_flight # None
        /\ BeginTransport(a, intent, at).in_flight.safe = intent.safe
        /\ BeginTransport(a, intent, at).in_flight.epoch = a.epoch
        /\ BeginTransport(a, intent, at).lease = a.lease
        /\ BeginTransport(a, intent, at).epoch = a.epoch
    BY <1>1, BeginTransportSound
  <2> QED
    BY <2>1, <2>2, Zenon DEF Entitled
<1>2. CASE ~BeginTransportOk(a, intent, at)
  BY <1>2, SameItself, SameQuiet DEF BeginTransport
<1> QED
  BY <1>1, <1>2

=============================================================================
