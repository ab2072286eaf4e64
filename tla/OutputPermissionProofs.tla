----------------------- MODULE OutputPermissionProofs -----------------------
(***************************************************************************)
(* OutputPermission keeps Inv for every value of the constants, and with   *)
(* it every safety property the model-checked runs state.                  *)
(***************************************************************************)
EXTENDS OutputPermission, OutputAuthorityProofs

-----------------------------------------------------------------------------
(* The specification.                                                      *)

\* Tokens have the types of what they name.
LEMMA Tokens ==
    ASSUME TypeOK
    PROVE  /\ LeaseToken \subseteq OutputLease
           /\ DispatchToken \subseteq DispatchId
           /\ IntentToken \subseteq OutputIntent
<1>1. now \in Nat /\ MaxLease \in Nat /\ 1 \in Nat /\ now + 1 \in Nat
  BY BoundsAssumption DEF TypeOK
<1>2. Recent(auth.instance) \subseteq Nat
  BY Numbers DEF TypeOK, Recent
<1>3. Recent(auth.epoch) \subseteq Nat
  BY Numbers DEF TypeOK, Recent
<1>4. Recent(auth.next_dispatch) \subseteq Nat
  BY Numbers DEF TypeOK, Recent
<1>5. (now + 1)..(now + MaxLease) \subseteq Nat
  BY <1>1
<1> HIDE DEF Recent
<1>6. LeaseToken \subseteq OutputLease
  BY <1>2, <1>3, <1>5 DEF LeaseToken, OutputLease
<1>7. DispatchToken \subseteq DispatchId
  BY <1>2, <1>4 DEF DispatchToken, DispatchId
<1>8. auth.transport_reserved # None => auth.transport_reserved \in OutputIntent
  BY Zenon DEF TypeOK, Authority
<1>9. IntentToken \subseteq OutputIntent
  BY <1>1, <1>2, <1>3, <1>8 DEF IntentToken, OutputIntent
<1> QED
  BY <1>6, <1>7, <1>9

\* The initial authority is a fresh one.
LEMMA InitInv == Init => Inv
<1> SUFFICES ASSUME Init PROVE Inv
  OBVIOUS
<1>1. New(1) \in Authority /\ Sound(New(1), FALSE, FALSE)
  BY NewSound
<1> QED
  BY <1>1, Zenon DEF Init, Inv, TypeOK

\* A call that starts no send keeps Inv if its method keeps Sound.
LEMMA CallInv ==
    ASSUME Inv, NEW new, Call(new), new \in Authority, Sound(new, sent_safe, unknown_safe)
    PROVE  Inv'
  BY DEF Inv, TypeOK, Call

\* A call that may lose a safe write keeps Inv if its method keeps Sound with that history.
LEMMA CallUnknownInv ==
    ASSUME Inv, NEW new, NEW id, CallUnknown(new, id), new \in Authority,
           Sound(new, sent_safe, Unknown(auth, id, unknown_safe))
    PROVE  Inv'
<1>1. Unknown(auth, id, unknown_safe) \in BOOLEAN
  BY Numbers DEF Unknown, IsInFlight, Inv, TypeOK
<1>2. unknown_safe' = Unknown(auth, id, unknown_safe)
  BY DEF CallUnknown, Unknown
<1> QED
  BY <1>1, <1>2 DEF Inv, TypeOK, CallUnknown

\* Every step of every actor keeps Inv.
LEMMA NextInv == Inv /\ [Next]_vars => Inv'
<1> SUFFICES ASSUME Inv, [Next]_vars PROVE Inv'
  OBVIOUS
<1>0. /\ auth \in Authority /\ now \in Nat /\ next_attempt \in Nat
      /\ sent_safe \in BOOLEAN /\ unknown_safe \in BOOLEAN
      /\ Sound(auth, sent_safe, unknown_safe)
  BY DEF Inv, TypeOK
<1>t. /\ LeaseToken \subseteq OutputLease
      /\ DispatchToken \subseteq DispatchId
      /\ IntentToken \subseteq OutputIntent
  BY Tokens DEF Inv
<1>n. Lifetime \subseteq Nat /\ Ttl \subseteq Nat /\ (now + 1)..(now + MaxTtl) \subseteq Nat
  BY <1>0, BoundsAssumption DEF Lifetime, Ttl
<1>1. ASSUME NEW evidence \in EvidenceLevel, BindProfile(evidence) PROVE Inv'
  BY <1>0, <1>1, BindSound, CallInv DEF BindProfile
<1>2. CASE SafeCommand
  BY <1>0, <1>2, RevokeSound, CallInv DEF SafeCommand
<1>3. CASE TripCommand
  BY <1>0, <1>3, RevokeSound, CallInv DEF TripCommand
<1>4. ASSUME NEW owner \in Owner, NEW lifetime \in Lifetime, AcquireLease(owner, lifetime)
      PROVE  Inv'
  BY <1>0, <1>n, <1>4, AcquireSound, CallInv DEF AcquireLease
<1>5. ASSUME NEW lease \in LeaseToken, NEW lifetime \in Lifetime, RenewLease(lease, lifetime)
      PROVE  Inv'
  BY <1>0, <1>t, <1>n, <1>5, RenewSound, CallInv DEF RenewLease
<1>6. ASSUME NEW lease \in LeaseToken, ReleaseLease(lease) PROVE Inv'
  BY <1>0, <1>6, RevokeSound, CallInv DEF ReleaseLease
<1>7. CASE Acknowledge
  BY <1>0, <1>7, AcknowledgeFaultSound, CallInv DEF Acknowledge
<1>8. CASE Watchdog
  BY <1>0, <1>8, RevokeSound, CallInv DEF Watchdog
<1>9. ASSUME NEW lease \in LeaseToken, NEW ttl \in Ttl, ProposeAutomatic(lease, ttl)
      PROVE  Inv'
  BY <1>0, <1>t, <1>n, <1>9, ProposeSound, CallInv DEF ProposeAutomatic
<1>10. ASSUME NEW lease \in LeaseToken, NEW ttl \in Ttl, ProposeManual(lease, ttl)
       PROVE  Inv'
  <2> DEFINE c == Propose(auth, lease, ttl, now)
             b == TrackManualAttempt(c, next_attempt)
  <2>1. c \in Authority /\ Sound(c, sent_safe, unknown_safe)
    BY <1>0, <1>t, <1>n, <1>10, ProposeSound
  <2> HIDE DEF c
  <2>2. b \in Authority /\ SamePermission(c, b) /\ SameEvidence(c, b)
    BY <1>0, <2>1, TrackFields
  <2>3. auth' = b
    BY <1>10, Zenon DEF ProposeManual, c
  <2> HIDE DEF b
  <2>4. Sound(b, sent_safe, unknown_safe)
    BY <1>0, <2>1, <2>2, SoundSame
  <2>5. /\ next_attempt' \in Nat /\ now' = now
        /\ sent_safe' = sent_safe /\ unknown_safe' = unknown_safe
    BY <1>0, <1>10 DEF ProposeManual
  <2> QED
    BY <1>0, <2>2, <2>3, <2>4, <2>5 DEF Inv, TypeOK
<1>11. CASE BeginDispatch
  <2> DEFINE b == Begin(auth, now)
  <2>1. /\ auth' = b /\ now' = now /\ next_attempt' = next_attempt
        /\ unknown_safe' = unknown_safe
        /\ sent_safe' = IF b.next_dispatch # auth.next_dispatch
                        THEN b.in_flight.safe ELSE sent_safe
    BY <1>11, Zenon DEF BeginDispatch, CallSend
  <2>2. BeginSafe(auth) \in BOOLEAN /\ auth.next_dispatch \in Nat
    BY <1>0, Numbers, Zenon DEF BeginSafe, Authority
  <2>3. CASE BeginOk(auth, now)
    <3>1. /\ b \in Authority
          /\ Sound(b, BeginSafe(auth), unknown_safe)
          /\ b.in_flight.safe = BeginSafe(auth)
          /\ b.next_dispatch = auth.next_dispatch + 1
      BY <1>0, <2>3, BeginSound
    <3> HIDE DEF b
    <3>2. sent_safe' = BeginSafe(auth)
      BY <2>1, <2>2, <3>1
    <3> QED
      BY <1>0, <2>1, <2>2, <3>1, <3>2 DEF Inv, TypeOK
  <2>4. CASE ~BeginOk(auth, now)
    <3>1. /\ b \in Authority
          /\ Sound(b, sent_safe, unknown_safe)
          /\ b.next_dispatch = auth.next_dispatch
      BY <1>0, <2>4, BeginSound
    <3> HIDE DEF b
    <3> QED
      BY <1>0, <2>1, <3>1 DEF Inv, TypeOK
  <2> QED
    BY <2>3, <2>4
<1>12. ASSUME NEW deadline \in (now + 1)..(now + MaxTtl), ReserveIntent(deadline)
       PROVE  Inv'
  BY <1>0, <1>n, <1>12, ReserveSound, CallInv DEF ReserveIntent
<1>13. ASSUME NEW intent \in IntentToken, StartIntent(intent) PROVE Inv'
  <2> DEFINE b == BeginTransport(auth, intent, now)
  <2>1. /\ auth' = b /\ now' = now /\ next_attempt' = next_attempt
        /\ unknown_safe' = unknown_safe
        /\ sent_safe' = IF b.next_dispatch # auth.next_dispatch
                        THEN b.in_flight.safe ELSE sent_safe
    BY <1>13, Zenon DEF StartIntent, CallSend
  <2>2. intent \in OutputIntent /\ intent.safe \in BOOLEAN /\ auth.next_dispatch \in Nat
    BY <1>0, <1>t, <1>13, Numbers DEF OutputIntent
  <2>3. CASE BeginTransportOk(auth, intent, now)
    <3>1. /\ b \in Authority
          /\ Sound(b, intent.safe, unknown_safe)
          /\ b.in_flight.safe = intent.safe
          /\ b.next_dispatch = auth.next_dispatch + 1
      BY <1>0, <2>2, <2>3, BeginTransportSound
    <3> HIDE DEF b
    <3>2. sent_safe' = intent.safe
      BY <2>1, <2>2, <3>1
    <3> QED
      BY <1>0, <2>1, <2>2, <3>1, <3>2 DEF Inv, TypeOK
  <2>4. CASE ~BeginTransportOk(auth, intent, now)
    <3>1. b = auth
      BY <2>4 DEF BeginTransport
    <3> QED
      BY <1>0, <2>1, <3>1 DEF Inv, TypeOK
  <2> QED
    BY <2>3, <2>4
<1>14. ASSUME NEW intent \in IntentToken, AbortIntent(intent) PROVE Inv'
  BY <1>0, <1>14, AbortSound, CallInv DEF AbortIntent
<1>15. ASSUME NEW intent \in IntentToken, FailIntent(intent) PROVE Inv'
  BY <1>0, <1>15, FailBeforeSendSound, CallInv DEF FailIntent
<1>16. ASSUME NEW id \in DispatchToken, NEW outcome \in DispatchOutcome,
              CompleteDispatch(id, outcome)
       PROVE  Inv'
  <2>1. CASE outcome \in {"Failed", "Ambiguous"}
    BY <1>0, <1>t, <1>16, <2>1, CompleteSound, CallUnknownInv DEF CompleteDispatch
  <2>2. CASE outcome \notin {"Failed", "Ambiguous"}
    BY <1>0, <1>t, <1>16, <2>2, CompleteSound, CallInv DEF CompleteDispatch
  <2> QED
    BY <2>1, <2>2
<1>17. ASSUME NEW id \in DispatchToken, Uncertain(id) PROVE Inv'
  BY <1>0, <1>t, <1>17, UncertainSound, CallUnknownInv DEF Uncertain
<1>18. ASSUME NEW id \in DispatchToken, AckDispatch(id) PROVE Inv'
  BY <1>0, <1>t, <1>18, AcknowledgeSound, CallInv DEF AckDispatch
<1>19. ASSUME NEW id \in DispatchToken, ReadbackMatches(id) PROVE Inv'
  BY <1>0, <1>t, <1>19, ReadbackSound, CallInv DEF ReadbackMatches
<1>20. ASSUME NEW id \in DispatchToken, ReadbackMismatches(id) PROVE Inv'
  BY <1>0, <1>t, <1>20, ReadbackSound, CallUnknownInv DEF ReadbackMismatches
<1>21. ASSUME NEW id \in DispatchToken, ReadbackUnavailable(id) PROVE Inv'
  BY <1>0, <1>t, <1>21, ReadbackSound, CallUnknownInv DEF ReadbackUnavailable
<1>22. CASE Rebind
  <2>1. auth.instance + 1 \in Nat
    BY <1>0, Numbers
  <2>2. /\ New(auth.instance + 1) \in Authority
        /\ Sound(New(auth.instance + 1), FALSE, FALSE)
    BY <2>1, NewSound
  <2> QED
    BY <1>0, <1>22, <2>2 DEF Rebind, Inv, TypeOK
<1>23. CASE Advance
  BY <1>0, <1>23 DEF Advance, Inv, TypeOK
<1>24. CASE UNCHANGED vars
  BY <1>0, <1>24 DEF vars, Inv, TypeOK
<1> QED
  BY <1>1, <1>2, <1>3, <1>4, <1>5, <1>6, <1>7, <1>8, <1>9, <1>10, <1>11, <1>12,
     <1>13, <1>14, <1>15, <1>16, <1>17, <1>18, <1>19, <1>20, <1>21, <1>22, <1>23,
     <1>24 DEF Next

\* The authority is sound in every reachable state, for every number of
\* epochs, dispatches, owners, rebinds and whatever tokens callers present.
THEOREM AlwaysSound == Spec => []Inv
  BY InitInv, NextInv, PTL DEF Spec

\* Type correctness.
THEOREM TypeCorrect == Spec => []TypeOK
<1>1. Inv => TypeOK
  BY DEF Inv
<1> QED
  BY <1>1, AlwaysSound, PTL

\* Permission has one owner.
THEOREM Ownership == Spec => []OneOwner
<1>1. Inv => OneOwner
  BY DEF Inv, Sound, Consistent, LeaseInv, InFlightInv, OneOwner
<1> QED
  BY <1>1, AlwaysSound, PTL

\* Disarmed rests on evidence for the last bytes sent.
THEOREM Disarming == Spec => []DisarmedIsProved
<1>1. Inv => DisarmedIsProved
  <2> SUFFICES ASSUME Inv, auth.state = "Disarmed"
               PROVE  /\ sent_safe
                      /\ auth.acknowledged = auth.sent
                      /\ auth.profile = "Readback" => auth.readback = auth.sent
                      /\ CanPrepare(auth)
    BY DEF DisarmedIsProved
  <2>1. auth.safe_confirmed /\ auth.lease = None
    BY DEF Inv, Sound, Consistent, SafeInv, LeaseInv, Armed
  <2>2. auth.pending = None
    BY <2>1, NoneAssumption DEF Inv, TypeOK, Authority, Pending, Sound, Consistent, LeaseInv
  <2> QED
    BY <2>1, <2>2 DEF Inv, Sound, Consistent, ConfirmedInv, CanPrepare
<1> QED
  BY <1>1, AlwaysSound, PTL

\* A requested safe state is never forgotten.
THEOREM SafeWork == Spec => []SafePendingHasWork
<1>1. Inv => SafePendingHasWork
  BY DEF Inv, Sound, WorkInv, SafePendingHasWork
<1> QED
  BY <1>1, AlwaysSound, PTL

\* A blocked resend stands with everything the safety document attaches to it.
THEOREM FailsClosed == Spec => []AmbiguousSafeFailsClosed
<1>1. Inv => AmbiguousSafeFailsClosed
  BY DEF Inv, Sound, Consistent, BlockedInv, ConfirmedInv, LeaseInv, Armed,
         AmbiguousSafeFailsClosed
<1> QED
  BY <1>1, AlwaysSound, PTL

-----------------------------------------------------------------------------
(* Action properties.                                                      *)

\* Every step is a rebind, a send that was entitled to start, a grant, or quiet.
LEMMA StepKinds ==
    ASSUME Inv, [Next]_vars
    PROVE  \/ auth'.instance # auth.instance
           \/ Quiet(auth, auth')
           \/ Grants(auth, auth')
           \/ Entitled(auth, auth', now)
<1>0. /\ auth \in Authority /\ now \in Nat
      /\ sent_safe \in BOOLEAN /\ unknown_safe \in BOOLEAN
      /\ Sound(auth, sent_safe, unknown_safe)
  BY DEF Inv, TypeOK
<1>t. /\ LeaseToken \subseteq OutputLease
      /\ DispatchToken \subseteq DispatchId
      /\ IntentToken \subseteq OutputIntent
  BY Tokens DEF Inv
<1>e. "Readback" \in EvidenceLevel
  BY DEF EvidenceLevel
<1>s. Quiet(auth, auth)
  BY <1>0, SameItself, SameQuiet
<1>1. ASSUME NEW evidence \in EvidenceLevel, BindProfile(evidence) PROVE Quiet(auth, auth')
  BY <1>0, <1>1, CommandsQuiet DEF BindProfile, Call
<1>2. CASE SafeCommand \/ TripCommand \/ Acknowledge \/ Watchdog
  BY <1>0, <1>e, <1>2, CommandsQuiet DEF SafeCommand, TripCommand, Acknowledge, Watchdog, Call
<1>3. ASSUME NEW owner \in Owner, NEW lifetime \in Lifetime, AcquireLease(owner, lifetime)
      PROVE  Quiet(auth, auth') \/ Grants(auth, auth')
  BY <1>0, <1>3, AcquireGrants DEF AcquireLease, Call
<1>4. ASSUME NEW lease \in LeaseToken, NEW lifetime \in Lifetime, RenewLease(lease, lifetime)
      PROVE  Quiet(auth, auth')
  <2>1. lease # None
    BY <1>t, NoneAssumption
  <2> QED
    BY <1>0, <1>e, <1>4, <2>1, CommandsQuiet DEF RenewLease, Call
<1>5. ASSUME NEW lease \in LeaseToken, ReleaseLease(lease) PROVE Quiet(auth, auth')
  BY <1>0, <1>e, <1>5, CommandsQuiet DEF ReleaseLease, Call
<1>6. ASSUME NEW lease \in LeaseToken, NEW ttl \in Ttl, ProposeAutomatic(lease, ttl)
      PROVE  Quiet(auth, auth')
  BY <1>0, <1>e, <1>6, CommandsQuiet DEF ProposeAutomatic, Call
<1>7. ASSUME NEW lease \in LeaseToken, NEW ttl \in Ttl, ProposeManual(lease, ttl)
      PROVE  Quiet(auth, auth')
  BY <1>0, <1>e, <1>7, CommandsQuiet DEF ProposeManual
<1>8. CASE BeginDispatch
  BY <1>0, <1>8, BeginEntitled DEF BeginDispatch, CallSend
<1>9. ASSUME NEW deadline \in (now + 1)..(now + MaxTtl), ReserveIntent(deadline)
      PROVE  Quiet(auth, auth')
  BY <1>0, <1>9, TransportQuiet DEF ReserveIntent, Call
<1>10. ASSUME NEW intent \in IntentToken, StartIntent(intent)
       PROVE  Quiet(auth, auth') \/ Entitled(auth, auth', now)
  BY <1>0, <1>t, <1>10, BeginTransportEntitled DEF StartIntent, CallSend
<1>11. ASSUME NEW intent \in IntentToken, AbortIntent(intent) \/ FailIntent(intent)
       PROVE  Quiet(auth, auth')
  BY <1>0, <1>11, TransportQuiet DEF AbortIntent, FailIntent, Call
<1>12. ASSUME NEW id \in DispatchToken, NEW outcome \in DispatchOutcome,
              CompleteDispatch(id, outcome)
       PROVE  Quiet(auth, auth')
  BY <1>0, <1>t, <1>12, CompleteQuiet DEF CompleteDispatch, Call, CallUnknown
<1>13. ASSUME NEW id \in DispatchToken,
              \/ Uncertain(id) \/ AckDispatch(id) \/ ReadbackMatches(id)
              \/ ReadbackMismatches(id) \/ ReadbackUnavailable(id)
       PROVE  Quiet(auth, auth')
  BY <1>0, <1>t, <1>13, EvidenceQuiet
  DEF Uncertain, AckDispatch, ReadbackMatches, ReadbackMismatches, ReadbackUnavailable,
      Call, CallUnknown
<1>14. CASE Rebind
  BY <1>0, <1>14, Numbers DEF Rebind, New
<1>15. CASE Advance
  BY <1>s, <1>15 DEF Advance
<1>16. CASE UNCHANGED vars
  BY <1>s, <1>16 DEF vars
<1> QED
  BY <1>1, <1>2, <1>3, <1>4, <1>5, <1>6, <1>7, <1>8, <1>9, <1>10, <1>11, <1>12,
     <1>13, <1>14, <1>15, <1>16 DEF Next

\* A safe write that ended unknown is never sent again while epochs are left.
THEOREM SafeIsNotResent == Spec => NoSafeResend
<1>1. Inv /\ [Next]_vars => [SendStarts /\ unknown_safe => auth.epoch = MaxEpoch]_vars
  <2> SUFFICES ASSUME Inv, [Next]_vars, SendStarts, unknown_safe
               PROVE  auth.epoch = MaxEpoch
    OBVIOUS
  <2>1. auth.ambiguous_safe_resend_blocked \/ auth.epoch = MaxEpoch
    BY DEF Inv, Sound, Consistent, BlockedInv
  <2>2. ~auth.ambiguous_safe_resend_blocked
    BY StepKinds DEF SendStarts, Quiet, Grants, Entitled
  <2> QED
    BY <2>1, <2>2
<1> QED
  BY <1>1, AlwaysSound, PTL DEF Spec, NoSafeResend

\* A normal write is sent only under the lease that is current when it starts.
THEOREM NormalSends == Spec => NormalSendIsOwned
<1>1. Inv /\ [Next]_vars =>
        [SendStarts /\ ~auth'.in_flight.safe =>
            /\ auth.lease # None
            /\ now < auth.lease.expires
            /\ auth'.in_flight.epoch = auth.lease.epoch
            /\ ~auth.safe_obligation_pending
            /\ auth.in_flight = None]_vars
  <2> SUFFICES ASSUME Inv, [Next]_vars, SendStarts, ~auth'.in_flight.safe
               PROVE  /\ auth.lease # None
                      /\ now < auth.lease.expires
                      /\ auth'.in_flight.epoch = auth.lease.epoch
                      /\ ~auth.safe_obligation_pending
                      /\ auth.in_flight = None
    OBVIOUS
  <2>1. Entitled(auth, auth', now)
    BY StepKinds DEF SendStarts, Quiet, Grants
  <2> QED
    BY <2>1 DEF Entitled
<1> QED
  BY <1>1, AlwaysSound, PTL DEF Spec, NormalSendIsOwned

\* Within an instance a revoked permission never comes back.
THEOREM Revocation == Spec => NoResurrection
<1>1. Inv /\ [Next]_vars =>
        [auth'.instance = auth.instance =>
            /\ auth'.epoch >= auth.epoch
            /\ auth.lease = None /\ auth'.lease # None =>
                  auth'.epoch > auth.epoch /\ auth.safe_confirmed]_vars
  <2> SUFFICES ASSUME Inv, [Next]_vars, auth'.instance = auth.instance
               PROVE  /\ auth'.epoch >= auth.epoch
                      /\ auth.lease = None /\ auth'.lease # None =>
                            auth'.epoch > auth.epoch /\ auth.safe_confirmed
    OBVIOUS
  <2>1. auth.epoch \in Nat
    BY Numbers DEF Inv, TypeOK
  <2> QED
    BY <2>1, StepKinds DEF Quiet, Grants, Entitled
<1> QED
  BY <1>1, AlwaysSound, PTL DEF Spec, NoResurrection

=============================================================================
