----------------------- MODULE PluginEventStoreProofs -----------------------
(***************************************************************************)
(* Proofs about PluginEventStore for every number of deliveries,           *)
(* subscriptions and replicas, any clock skew and any policy values.       *)
(*                                                                         *)
(* The inductive invariant is the conjunction of the five safety           *)
(* invariants that the runs check: none of the later ones is inductive     *)
(* without the type invariant, and HalfOpenHasLiveProbe needs              *)
(* CircuitMatchesFailures for the step that turns an open circuit, whose   *)
(* probe is Null, into a half-open one.                                    *)
(***************************************************************************)
EXTENDS PluginEventStore, FiniteSetTheorems, TLAPS

StoreInv ==
  /\ TypeOK
  /\ LeaseIffDelivering
  /\ HalfOpenHasLiveProbe
  /\ CircuitMatchesFailures
  /\ PayloadKept

-----------------------------------------------------------------------------

\* What the expiry that starts a claim leaves of a row.
LEMMA ExpireLeasesFacts ==
  ASSUME TypeOK, LeaseIffDelivering, PayloadKept, NEW now \in Nat
  PROVE  LET rows == ExpireLeases(now) IN
         /\ rows \in [Deliveries -> Row]
         /\ \A d \in Deliveries :
              /\ rows[d].status = "delivering" <=> rows[d].leaseOwner # Null
              /\ rows[d].status = "delivering" <=> rows[d].leaseExpiresAt # Null
              /\ rows[d].status # "delivered" <=> rows[d].payload
              /\ \/ rows[d].status = delivery[d].status
                 \/ delivery[d].status = "delivering" /\ rows[d].status = "retry_wait"
<1>1. \A d \in Deliveries : delivery[d] \in Row
  BY DEF TypeOK
<1>2. ASSUME NEW d \in Deliveries
      PROVE  LET row == ExpireLeases(now)[d] IN
             /\ row \in Row
             /\ row.status = "delivering" <=> row.leaseOwner # Null
             /\ row.status = "delivering" <=> row.leaseExpiresAt # Null
             /\ row.status # "delivered" <=> row.payload
             /\ \/ row.status = delivery[d].status
                \/ delivery[d].status = "delivering" /\ row.status = "retry_wait"
  <2>1. CASE LeaseExpired(delivery[d], now)
    BY <1>1, <2>1 DEF ExpireLeases, LeaseExpired, Row, Statuses, Outstanding, Waiting,
                      LeaseIffDelivering, PayloadKept
  <2>2. CASE ~LeaseExpired(delivery[d], now)
    BY <1>1, <2>2 DEF ExpireLeases, LeaseIffDelivering, PayloadKept
  <2> QED BY <2>1, <2>2
<1>3. ExpireLeases(now) \in [Deliveries -> Row]
  BY <1>2 DEF ExpireLeases
<1> QED BY <1>2, <1>3

\* What a claim may take: waiting rows of the window, and one probe per
\* subscription whose circuit is open past its deadline.
LEMMA ClaimOutcomeFacts ==
  ASSUME NEW r \in Replicas, NEW o \in ClaimOutcomes(r)
  PROVE  /\ o.probes \subseteq o.claimed
         /\ o.claimed \subseteq Deliveries
         /\ \A d \in o.claimed : /\ ExpireLeases(Now(r))[d].status \in Waiting
                                 /\ ~subscription[SubOf[d]].paused
         /\ \A p \in o.probes : subscription[SubOf[p]].circuit = "open"
         /\ \A p, q \in o.probes : SubOf[p] = SubOf[q] => p = q
         /\ \A d \in o.claimed \ o.probes :
              \/ subscription[SubOf[d]].circuit = "closed"
              \/ /\ subscription[SubOf[d]].circuit = "half_open"
                 /\ subscription[SubOf[d]].probe = d
         /\ \A p \in o.probes : subscription[SubOf[p]].openUntil <= Now(r)
<1> DEFINE rows == ExpireLeases(Now(r))
           due  == Due(rows, Now(r))
<1>0. PICK W \in Windows(rows, due) :
        \E P \in ProbeChoices(rows, W, Now(r)) :
          o = [probes |-> P, claimed |-> Allowed(W, P)]
  BY DEF ClaimOutcomes
<1>1. PICK P \in ProbeChoices(rows, W, Now(r)) :
        o = [probes |-> P, claimed |-> Allowed(W, P)]
  BY <1>0
<1>2. W \subseteq due /\ due \subseteq Deliveries /\ \A d \in due : rows[d].status \in Waiting
  BY DEF Windows, Due
<1>3. P \subseteq ProbeCandidates(W, Now(r))
  BY DEF ProbeChoices
<1>4. ProbeCandidates(W, Now(r)) \subseteq Unpaused(W) /\ Unpaused(W) \subseteq W
  BY DEF ProbeCandidates, Unpaused
<1>5. \A p, q \in P : SubOf[p] = SubOf[q] => p = q
  BY <1>3 DEF ProbeChoices
<1>6. \A p \in P : /\ subscription[SubOf[p]].circuit = "open"
                   /\ subscription[SubOf[p]].openUntil <= Now(r)
  BY <1>3 DEF ProbeCandidates, OpenDeadlinePassed
<1>7. /\ Allowed(W, P) \subseteq Unpaused(W)
      /\ P \subseteq Allowed(W, P)
      /\ \A d \in Allowed(W, P) \ P :
           \/ subscription[SubOf[d]].circuit = "closed"
           \/ /\ subscription[SubOf[d]].circuit = "half_open"
              /\ subscription[SubOf[d]].probe = d
  BY <1>3, <1>4 DEF Allowed
<1>8. \A d \in Unpaused(W) : ~subscription[SubOf[d]].paused
  BY DEF Unpaused
<1> QED BY <1>1, <1>2, <1>4, <1>5, <1>6, <1>7, <1>8

-----------------------------------------------------------------------------
(* StoreInv is inductive: one lemma per action that changes it.             *)

\* The clock of a replica is a number.
LEMMA NowIsNat == ASSUME TypeOK, NEW r \in Replicas PROVE Now(r) \in Nat
  BY StoreAssumption DEF Now, TypeOK

\* The empty store has the invariant.
LEMMA InitInv == Init => StoreInv
<1> SUFFICES ASSUME Init PROVE StoreInv
  OBVIOUS
<1>1. TypeOK
  BY DEF Init, TypeOK, Row, SubscriptionState, DefaultSubscription, Statuses
<1>2. LeaseIffDelivering /\ PayloadKept
  BY DEF Init, LeaseIffDelivering, PayloadKept
<1>3. HalfOpenHasLiveProbe
  BY DEF Init, HalfOpenHasLiveProbe, DefaultSubscription
<1>4. CircuitMatchesFailures
  BY StoreAssumption DEF Init, CircuitMatchesFailures, DefaultSubscription
<1> QED BY <1>1, <1>2, <1>3, <1>4 DEF StoreInv

\* A published event brings a closed circuit and an unleased delivery.
LEMMA EnqueueInv ==
  ASSUME StoreInv, NEW r \in Replicas, NEW d \in Deliveries, Enqueue(r, d)
  PROVE  StoreInv'
<1> USE DEF StoreInv
<1>1. Now(r) \in Nat
  BY NowIsNat
<1>2. delivery[d] \in Row /\ delivery[d].status = "absent"
  BY DEF Enqueue, Known, TypeOK
<1>3. delivery' = [delivery EXCEPT ![d] =
        [@ EXCEPT !.status = "pending", !.createdAt = Now(r), !.nextAttemptAt = Now(r)]]
  BY DEF Enqueue
<1>4. clock' = clock /\ subscription' = subscription
  BY DEF Enqueue
<1>5. TypeOK'
  BY <1>1, <1>2, <1>3, <1>4 DEF TypeOK, Row, Statuses, Outstanding, Waiting
<1>6. LeaseIffDelivering' /\ PayloadKept'
  BY <1>2, <1>3 DEF LeaseIffDelivering, PayloadKept, TypeOK, Row
<1>7. HalfOpenHasLiveProbe'
  BY <1>2, <1>3, <1>4 DEF HalfOpenHasLiveProbe, TypeOK, Row, SubscriptionState
<1>8. CircuitMatchesFailures'
  BY <1>4 DEF CircuitMatchesFailures
<1> QED BY <1>5, <1>6, <1>7, <1>8

\* claimDue leases what it delivers and admits one probe.
LEMMA ClaimInv ==
  ASSUME StoreInv, NEW r \in Replicas, NEW o \in ClaimOutcomes(r),
         Claim(r, ExpireLeases(Now(r)), o.probes, o.claimed)
  PROVE  StoreInv'
<1> USE DEF StoreInv
<1> DEFINE rows == ExpireLeases(Now(r))
<1>1. Now(r) \in Nat /\ Now(r) + LeaseTime \in Nat
  BY NowIsNat, StoreAssumption
<1>2. /\ rows \in [Deliveries -> Row]
      /\ \A d \in Deliveries :
           /\ rows[d].status = "delivering" <=> rows[d].leaseOwner # Null
           /\ rows[d].status = "delivering" <=> rows[d].leaseExpiresAt # Null
           /\ rows[d].status # "delivered" <=> rows[d].payload
           /\ \/ rows[d].status = delivery[d].status
              \/ delivery[d].status = "delivering" /\ rows[d].status = "retry_wait"
  BY <1>1, ExpireLeasesFacts
<1> HIDE DEF rows
<1>3. /\ o.probes \subseteq o.claimed
      /\ o.claimed \subseteq Deliveries
      /\ \A d \in o.claimed : rows[d].status \in Waiting
      /\ \A p \in o.probes : subscription[SubOf[p]].circuit = "open"
      /\ \A p, q \in o.probes : SubOf[p] = SubOf[q] => p = q
  BY ClaimOutcomeFacts DEF rows
<1>4. delivery' = [d \in Deliveries |->
        IF d \in o.claimed
        THEN [rows[d] EXCEPT !.status = "delivering", !.attempt = @ + 1,
                             !.leaseOwner = r, !.leaseExpiresAt = Now(r) + LeaseTime]
        ELSE rows[d]]
  BY DEF Claim, rows
<1>5. clock' = clock
  BY DEF Claim
<1>6. ASSUME NEW s \in Subscriptions
      PROVE  \/ subscription'[s] = subscription[s]
             \/ \E p \in o.probes :
                  /\ SubOf[p] = s
                  /\ subscription'[s] =
                       [subscription[s] EXCEPT !.circuit = "half_open", !.probe = p]
  <2>1. CASE \E p \in o.probes : SubOf[p] = s
    <3>1. PICK q \in o.probes : q = CHOOSE p \in o.probes : SubOf[p] = s
      BY <2>1
    <3>2. SubOf[q] = s
      BY <2>1, <3>1
    <3>3. subscription'[s] = [subscription[s] EXCEPT !.circuit = "half_open", !.probe = q]
      BY <2>1, <3>1 DEF Claim
    <3> QED BY <3>2, <3>3
  <2>2. CASE ~\E p \in o.probes : SubOf[p] = s
    BY <2>2 DEF Claim
  <2> QED BY <2>1, <2>2
<1>7. \A s \in Subscriptions : subscription[s] \in SubscriptionState
  BY DEF TypeOK
<1>a. ASSUME NEW d \in Deliveries
      PROVE  /\ delivery'[d] \in Row
             /\ d \in o.claimed => /\ delivery'[d].status = "delivering"
                                   /\ delivery'[d].leaseOwner = r
                                   /\ delivery'[d].leaseExpiresAt = Now(r) + LeaseTime
                                   /\ delivery'[d].payload = rows[d].payload
             /\ d \notin o.claimed => delivery'[d] = rows[d]
  <2>1. rows[d] \in Row
    BY <1>2
  <2>2. CASE d \in o.claimed
    <3>1. delivery'[d] = [rows[d] EXCEPT !.status = "delivering", !.attempt = @ + 1,
                           !.leaseOwner = r, !.leaseExpiresAt = Now(r) + LeaseTime]
      BY <2>2, <1>4
    <3> DEFINE until == Now(r) + LeaseTime
    <3>2. until \in Nat
      BY <1>1
    <3> HIDE DEF until
    <3>3. delivery'[d] = [rows[d] EXCEPT !.status = "delivering", !.attempt = @ + 1,
                           !.leaseOwner = r, !.leaseExpiresAt = until]
      BY <3>1 DEF until
    <3>4. /\ delivery'[d] \in Row
          /\ delivery'[d].status = "delivering"
          /\ delivery'[d].leaseOwner = r
          /\ delivery'[d].leaseExpiresAt = until
          /\ delivery'[d].payload = rows[d].payload
      <4> DEFINE row == rows[d]
      <4>1. row \in Row
        BY <2>1
      <4>2. delivery'[d] = [row EXCEPT !.status = "delivering", !.attempt = @ + 1,
                             !.leaseOwner = r, !.leaseExpiresAt = until]
        BY <3>3
      <4> HIDE DEF row
      <4>3. row.attempt + 1 \in Nat /\ "delivering" \in Statuses
        BY <4>1 DEF Row, Statuses, Outstanding
      <4>4. delivery'[d] \in Row
        BY <3>2, <4>1, <4>2, <4>3 DEF Row
      <4>5. /\ delivery'[d].status = "delivering"
            /\ delivery'[d].leaseOwner = r
            /\ delivery'[d].leaseExpiresAt = until
            /\ delivery'[d].payload = row.payload
        BY <4>1, <4>2 DEF Row
      <4> QED BY <4>4, <4>5 DEF row
    <3> QED BY <3>4, <2>2 DEF until
  <2>3. CASE d \notin o.claimed
    <3>1. delivery'[d] = rows[d]
      BY <2>3, <1>4
    <3> QED BY <3>1, <2>1, <2>3
  <2> QED BY <2>2, <2>3
<1>b. ASSUME NEW s \in Subscriptions, NEW p \in o.probes,
             subscription'[s] =
               [subscription[s] EXCEPT !.circuit = "half_open", !.probe = p]
      PROVE  /\ subscription'[s] \in SubscriptionState
             /\ subscription'[s].circuit = "half_open"
             /\ subscription'[s].probe = p
             /\ subscription'[s].failures = subscription[s].failures
             /\ subscription'[s].openUntil = subscription[s].openUntil
  <2> DEFINE state == subscription[s]
  <2>1. p \in Deliveries /\ state \in SubscriptionState
    BY <1>3, <1>7
  <2>2. subscription'[s] = [state EXCEPT !.circuit = "half_open", !.probe = p]
    BY <1>b
  <2> HIDE DEF state
  <2>3. /\ subscription'[s] \in SubscriptionState
        /\ subscription'[s].circuit = "half_open"
        /\ subscription'[s].probe = p
        /\ subscription'[s].failures = state.failures
        /\ subscription'[s].openUntil = state.openUntil
    BY <2>1, <2>2 DEF SubscriptionState
  <2> QED BY <2>3 DEF state
<1>8. TypeOK'
  <2>2. ASSUME NEW s \in Subscriptions
        PROVE  subscription'[s] \in SubscriptionState
    BY <1>b, <1>6, <1>7
  <2>3. subscription' \in [Subscriptions -> SubscriptionState]
    <3>1. subscription' = [s \in Subscriptions |-> subscription'[s]]
      BY DEF Claim
    <3> QED BY <2>2, <3>1
  <2>4. delivery' \in [Deliveries -> Row]
    <3>1. delivery' = [d \in Deliveries |-> delivery'[d]]
      BY <1>4
    <3> QED BY <1>a, <3>1
  <2>5. clock \in Nat
    BY DEF TypeOK
  <2> QED BY <1>5, <2>3, <2>4, <2>5 DEF TypeOK
<1>9. LeaseIffDelivering'
  <2>1. ASSUME NEW d \in Deliveries
        PROVE  /\ delivery'[d].status = "delivering" <=> delivery'[d].leaseOwner # Null
               /\ delivery'[d].status = "delivering" <=> delivery'[d].leaseExpiresAt # Null
    <3>1. r # Null /\ Now(r) + LeaseTime # Null
      BY <1>1, StoreAssumption
    <3>2. CASE d \in o.claimed
      BY <3>1, <3>2, <1>a
    <3>3. CASE d \notin o.claimed
      BY <3>3, <1>2, <1>a
    <3> QED BY <3>2, <3>3
  <2> QED BY <2>1 DEF LeaseIffDelivering
<1>10. PayloadKept'
  <2>1. ASSUME NEW d \in Deliveries
        PROVE  delivery'[d].status # "delivered" <=> delivery'[d].payload
    <3>1. CASE d \in o.claimed
      BY <3>1, <1>2, <1>3, <1>a DEF Waiting
    <3>2. CASE d \notin o.claimed
      BY <3>2, <1>2, <1>a
    <3> QED BY <3>1, <3>2
  <2> QED BY <2>1 DEF PayloadKept
<1>11. HalfOpenHasLiveProbe'
  <2>1. ASSUME NEW p \in Deliveries, delivery[p].status \in {"delivering", "retry_wait"}
        PROVE  delivery'[p].status \in {"delivering", "retry_wait"}
    <3>1. CASE p \in o.claimed
      BY <3>1, <1>a
    <3>2. CASE p \notin o.claimed
      BY <3>2, <2>1, <1>2, <1>a
    <3> QED BY <3>1, <3>2
  <2>2. \A p \in o.probes : p \in Deliveries /\ delivery'[p].status = "delivering"
    BY <1>3, <1>a
  <2>3. ASSUME NEW s \in Subscriptions
        PROVE  LET p == subscription'[s].probe IN
               /\ subscription'[s].circuit = "half_open" <=> p # Null
               /\ p # Null => /\ SubOf[p] = s
                              /\ delivery'[p].status \in {"delivering", "retry_wait"}
    <3>1. CASE subscription'[s] = subscription[s]
      BY <3>1, <2>1, <1>7 DEF HalfOpenHasLiveProbe, SubscriptionState
    <3>2. ASSUME NEW p \in o.probes, SubOf[p] = s,
                 subscription'[s] =
                   [subscription[s] EXCEPT !.circuit = "half_open", !.probe = p]
          PROVE  LET q == subscription'[s].probe IN
                 /\ subscription'[s].circuit = "half_open" <=> q # Null
                 /\ q # Null => /\ SubOf[q] = s
                                /\ delivery'[q].status \in {"delivering", "retry_wait"}
      <4>1. subscription'[s].circuit = "half_open" /\ subscription'[s].probe = p
        BY <3>2, <1>b
      <4>2. p # Null
        BY <2>2, StoreAssumption
      <4>3. delivery'[p].status = "delivering"
        BY <2>2
      <4> QED BY <3>2, <4>1, <4>2, <4>3
    <3>3. CASE \E p \in o.probes :
                 /\ SubOf[p] = s
                 /\ subscription'[s] =
                      [subscription[s] EXCEPT !.circuit = "half_open", !.probe = p]
      BY <3>2, <3>3
    <3> QED BY <1>6, <3>1, <3>3
  <2> QED BY <2>3 DEF HalfOpenHasLiveProbe
<1>12. CircuitMatchesFailures'
  <2>1. ASSUME NEW s \in Subscriptions
        PROVE  /\ subscription'[s].circuit = "closed" <=> subscription[s].circuit = "closed"
               /\ subscription'[s].failures = subscription[s].failures
               /\ subscription'[s].openUntil = subscription[s].openUntil
    <3>1. ASSUME NEW p \in o.probes, SubOf[p] = s,
                 subscription'[s] =
                   [subscription[s] EXCEPT !.circuit = "half_open", !.probe = p]
          PROVE  /\ subscription'[s].circuit = "half_open"
                 /\ subscription[s].circuit = "open"
                 /\ subscription'[s].failures = subscription[s].failures
                 /\ subscription'[s].openUntil = subscription[s].openUntil
      BY <3>1, <1>3, <1>b
    <3> QED BY <3>1, <1>6
  <2> QED BY <2>1 DEF CircuitMatchesFailures
<1> QED BY <1>8, <1>9, <1>10, <1>11, <1>12

\* What a completion writes into the subscription row.
LEMMA CircuitAfterFacts ==
  ASSUME NEW state \in SubscriptionState, NEW receipt \in Receipts, NEW now \in Nat,
         state.circuit = "closed" <=> state.failures < FailureThreshold
  PROVE  LET after == CircuitAfter(state, receipt, now) IN
         /\ after \in SubscriptionState
         /\ after.probe = Null
         /\ after.circuit # "half_open"
         /\ after.circuit = "closed" <=> after.failures < FailureThreshold
         /\ after.circuit = "closed" <=> after.openUntil = Null
<1> FailureThreshold \in Nat \ {0} /\ MaxFailureCount \in Nat /\ OpenTime \in Nat
    /\ FailureThreshold <= MaxFailureCount /\ Null \notin Nat
  BY StoreAssumption
<1> DEFINE after == CircuitAfter(state, receipt, now)
           failures == IF state.failures < MaxFailureCount THEN state.failures + 1
                                                           ELSE MaxFailureCount
<1> SUFFICES /\ after \in SubscriptionState
             /\ after.probe = Null
             /\ after.circuit # "half_open"
             /\ after.circuit = "closed" <=> after.failures < FailureThreshold
             /\ after.circuit = "closed" <=> after.openUntil = Null
  OBVIOUS
<1>1. CASE receipt = "retryable_rejected" /\ (state.circuit # "closed" \/ failures >= FailureThreshold)
  <2>1. after = [state EXCEPT !.circuit = "open", !.failures = failures,
                              !.openUntil = now + OpenTime, !.probe = Null]
    BY <1>1 DEF CircuitAfter
  <2>2. failures \in Nat /\ failures >= FailureThreshold /\ now + OpenTime \in Nat
    BY <1>1 DEF SubscriptionState
  <2> HIDE DEF failures, after
  <2>3. after \in SubscriptionState
    BY <2>1, <2>2 DEF SubscriptionState
  <2>4. /\ after.circuit = "open" /\ after.probe = Null
        /\ after.failures = failures /\ after.openUntil = now + OpenTime
    BY <2>1 DEF SubscriptionState
  <2> QED BY <2>2, <2>3, <2>4
<1>2. CASE receipt = "retryable_rejected" /\ ~(state.circuit # "closed" \/ failures >= FailureThreshold)
  <2>1. after = [state EXCEPT !.circuit = "closed", !.failures = failures,
                              !.openUntil = Null, !.probe = Null]
    BY <1>2 DEF CircuitAfter
  <2>2. failures \in Nat /\ failures < FailureThreshold
    BY <1>2 DEF SubscriptionState
  <2> HIDE DEF failures, after
  <2> QED BY <2>1, <2>2 DEF SubscriptionState
<1>3. CASE receipt # "retryable_rejected"
  <2>1. after = [state EXCEPT !.circuit = "closed", !.failures = 0,
                              !.openUntil = Null, !.probe = Null]
    BY <1>3 DEF CircuitAfter
  <2> HIDE DEF after
  <2>2. after \in SubscriptionState
    BY <2>1 DEF SubscriptionState
  <2>3. /\ after.circuit = "closed" /\ after.probe = Null
        /\ after.failures = 0 /\ after.openUntil = Null
    BY <2>1 DEF SubscriptionState
  <2> QED BY <2>2, <2>3
<1> QED BY <1>1, <1>2, <1>3

\* complete, on a delivery whose lease it compares, keeps the invariant.
LEMMA CompleteInv ==
  ASSUME StoreInv, NEW r \in Replicas, NEW d \in Deliveries, NEW receipt \in Receipts,
         Complete(r, d, receipt)
  PROVE  StoreInv'
<1> USE DEF StoreInv
<1> DEFINE status == Outcome(d, receipt)
           next   == IF status = "retry_wait" THEN Now(r) + RetryDelay(delivery[d].attempt)
                                              ELSE Now(r)
           after  == CircuitAfter(subscription[SubOf[d]], receipt, Now(r))
           kept   == IF ErasesPayload(status) THEN FALSE ELSE delivery[d].payload
<1>1. Now(r) \in Nat /\ RetryDelay(delivery[d].attempt) \in Nat
  BY NowIsNat, StoreAssumption DEF RetryDelay
<1>2. /\ delivery[d] \in Row
      /\ delivery[d].status = "delivering"
      /\ delivery[d].payload
      /\ SubOf[d] \in Subscriptions
      /\ subscription[SubOf[d]] \in SubscriptionState
  BY StoreAssumption DEF Complete, HoldsLease, TypeOK, PayloadKept
<1>3. status \in {"delivered", "dead_letter", "retry_wait"}
  BY DEF Outcome, Receipts
<1>4. next \in Nat
  BY <1>1
<1>5. delivery' = [delivery EXCEPT ![d] =
        [@ EXCEPT !.status = status, !.payload = kept,
                  !.nextAttemptAt = next, !.leaseOwner = Null, !.leaseExpiresAt = Null]]
  BY DEF Complete
<1>6. /\ subscription' = [subscription EXCEPT ![SubOf[d]] = after]
      /\ clock' = clock
  BY DEF Complete
<1>7. /\ after \in SubscriptionState
      /\ after.probe = Null
      /\ after.circuit # "half_open"
      /\ after.circuit = "closed" <=> after.failures < FailureThreshold
      /\ after.circuit = "closed" <=> after.openUntil = Null
  BY <1>1, <1>2, CircuitAfterFacts DEF CircuitMatchesFailures
<1>15. kept \in BOOLEAN /\ (kept <=> ~ErasesPayload(status))
  BY <1>2
<1> HIDE DEF status, next, after, kept
<1>8. /\ delivery'[d].status = status
      /\ delivery'[d].payload <=> ~ErasesPayload(status)
      /\ delivery'[d].leaseOwner = Null
      /\ delivery'[d].leaseExpiresAt = Null
      /\ \A e \in Deliveries \ {d} : delivery'[e] = delivery[e]
  <2> HIDE DEF StoreInv
  <2>1. d \in DOMAIN delivery /\ delivery \in [Deliveries -> Row]
    BY DEF StoreInv, TypeOK
  <2>2. delivery'[d] = [delivery[d] EXCEPT !.status = status,
                          !.payload = kept,
                          !.nextAttemptAt = next, !.leaseOwner = Null, !.leaseExpiresAt = Null]
    BY <1>5, <2>1
  <2>3. \A e \in Deliveries \ {d} : delivery'[e] = delivery[e]
    BY <1>5, <2>1
  <2>4. /\ delivery'[d].status = status
        /\ delivery'[d].leaseOwner = Null
        /\ delivery'[d].leaseExpiresAt = Null
        /\ delivery'[d].payload = kept
    BY <1>2, <2>2 DEF Row
  <2> QED BY <1>15, <2>3, <2>4
<1>9. TypeOK'
  <2>1. delivery'[d] \in Row
    BY <1>2, <1>3, <1>4, <1>5, <1>15 DEF TypeOK, Row, Statuses, Outstanding, Waiting
  <2> QED BY <1>5, <1>6, <1>7, <2>1 DEF TypeOK
<1>10. LeaseIffDelivering'
  BY <1>3, <1>8 DEF LeaseIffDelivering
<1>11. PayloadKept'
  BY <1>2, <1>3, <1>8 DEF PayloadKept, ErasesPayload
<1>12. HalfOpenHasLiveProbe'
  BY <1>2, <1>6, <1>7, <1>8 DEF HalfOpenHasLiveProbe, TypeOK, SubscriptionState
<1>13. CircuitMatchesFailures'
  BY <1>2, <1>6, <1>7 DEF CircuitMatchesFailures, TypeOK
<1> QED BY <1>9, <1>10, <1>11, <1>12, <1>13

\* requeue restores what a dead letter lacks.
LEMMA RequeueInv ==
  ASSUME StoreInv, NEW r \in Replicas, NEW d \in Deliveries, RequeueDeadLetter(r, d)
  PROVE  StoreInv'
<1> USE DEF StoreInv
<1>1. Now(r) \in Nat
  BY NowIsNat
<1>2. delivery[d] \in Row /\ delivery[d].status = "dead_letter"
  BY DEF RequeueDeadLetter, TypeOK
<1>3. delivery' = [delivery EXCEPT ![d] =
        [@ EXCEPT !.status = "pending", !.attempt = 0, !.nextAttemptAt = Now(r),
                  !.leaseOwner = Null, !.leaseExpiresAt = Null]]
  BY DEF RequeueDeadLetter
<1>4. clock' = clock /\ subscription' = subscription
  BY DEF RequeueDeadLetter
<1>5. TypeOK'
  BY <1>1, <1>2, <1>3, <1>4 DEF TypeOK, Row, Statuses, Outstanding, Waiting
<1>6. LeaseIffDelivering' /\ PayloadKept'
  BY <1>2, <1>3 DEF LeaseIffDelivering, PayloadKept, TypeOK, Row
<1>7. HalfOpenHasLiveProbe'
  BY <1>2, <1>3, <1>4 DEF HalfOpenHasLiveProbe, TypeOK, Row, SubscriptionState
<1>8. CircuitMatchesFailures'
  BY <1>4 DEF CircuitMatchesFailures
<1> QED BY <1>5, <1>6, <1>7, <1>8

\* A pause touches neither leases nor circuits.
LEMMA SetPausedInv ==
  ASSUME StoreInv, NEW s \in Subscriptions, NEW paused \in BOOLEAN, SetPaused(s, paused)
  PROVE  StoreInv'
<1> USE DEF StoreInv
<1>1. subscription[s] \in SubscriptionState
  BY DEF TypeOK
<1>2. /\ subscription' = [subscription EXCEPT ![s] =
           [@ EXCEPT !.paused = paused, !.revision = subscription[s].revision + 1]]
      /\ clock' = clock
      /\ delivery' = delivery
  BY DEF SetPaused
<1>3. subscription[s].revision + 1 \in Nat
  BY <1>1 DEF SubscriptionState
<1>4. TypeOK'
  BY <1>1, <1>2, <1>3 DEF TypeOK, SubscriptionState
<1>5. LeaseIffDelivering' /\ PayloadKept'
  BY <1>2 DEF LeaseIffDelivering, PayloadKept
<1>6. \A t \in Subscriptions : /\ subscription'[t].circuit = subscription[t].circuit
                               /\ subscription'[t].probe = subscription[t].probe
                               /\ subscription'[t].failures = subscription[t].failures
                               /\ subscription'[t].openUntil = subscription[t].openUntil
  BY <1>1, <1>2 DEF TypeOK, SubscriptionState
<1>7. HalfOpenHasLiveProbe' /\ CircuitMatchesFailures'
  BY <1>2, <1>6 DEF HalfOpenHasLiveProbe, CircuitMatchesFailures
<1> QED BY <1>4, <1>5, <1>7

\* The passing of time changes no row.
LEMMA TickInv == StoreInv /\ Tick => StoreInv'
  BY DEF Tick, StoreInv, TypeOK, LeaseIffDelivering, HalfOpenHasLiveProbe,
         CircuitMatchesFailures, PayloadKept

\* Nothing changes.
LEMMA StutterInv == StoreInv /\ UNCHANGED storeVars => StoreInv'
  BY DEF storeVars, StoreInv, TypeOK, LeaseIffDelivering, HalfOpenHasLiveProbe,
         CircuitMatchesFailures, PayloadKept

\* Every call of the store keeps the invariant.
LEMMA NextInv == StoreInv /\ [Next]_storeVars => StoreInv'
<1> SUFFICES ASSUME StoreInv, [Next]_storeVars PROVE StoreInv'
  OBVIOUS
<1>1. ASSUME NEW r \in Replicas, ClaimDue(r) PROVE StoreInv'
  BY <1>1, ClaimInv DEF ClaimDue
<1>2. ASSUME NEW r \in Replicas, ClaimAborted(r) PROVE StoreInv'
  BY <1>2, StutterInv DEF ClaimAborted
<1>3. ASSUME NEW r \in Replicas, NEW d \in Deliveries, Enqueue(r, d) PROVE StoreInv'
  BY <1>3, EnqueueInv
<1>4. ASSUME NEW r \in Replicas, NEW d \in Deliveries, NEW receipt \in Receipts,
             Complete(r, d, receipt)
      PROVE  StoreInv'
  BY <1>4, CompleteInv
<1>5. ASSUME NEW r \in Replicas, NEW d \in Deliveries, RequeueDeadLetter(r, d) PROVE StoreInv'
  BY <1>5, RequeueInv
<1>6. ASSUME NEW s \in Subscriptions, NEW paused \in BOOLEAN, SetPaused(s, paused)
      PROVE  StoreInv'
  BY <1>6, SetPausedInv
<1>7. CASE Tick
  BY <1>7, TickInv
<1>8. CASE UNCHANGED storeVars
  BY <1>8, StutterInv
<1> QED BY <1>1, <1>2, <1>3, <1>4, <1>5, <1>6, <1>7, <1>8 DEF Next

-----------------------------------------------------------------------------

\* Every reachable state of the queue satisfies the inductive invariant.
THEOREM StoreInvariant == Spec => []StoreInv
  BY InitInv, NextInv, PTL DEF Spec

\* The rows and subscription states always have their declared shape.
THEOREM TypeCorrect == Spec => []TypeOK
<1>1. StoreInv => TypeOK
  BY DEF StoreInv
<1> QED BY <1>1, StoreInvariant, PTL

\* A row carries a lease exactly while it is being delivered.
THEOREM LeasesConsistent == Spec => []LeaseIffDelivering
<1>1. StoreInv => LeaseIffDelivering
  BY DEF StoreInv
<1> QED BY <1>1, StoreInvariant, PTL

\* A half-open circuit always has an unfinished probe of its own subscription.
THEOREM HalfOpenNeverOrphaned == Spec => []HalfOpenHasLiveProbe
<1>1. StoreInv => HalfOpenHasLiveProbe
  BY DEF StoreInv
<1> QED BY <1>1, StoreInvariant, PTL

\* The failure counter and the circuit agree.
THEOREM CircuitConsistent == Spec => []CircuitMatchesFailures
<1>1. StoreInv => CircuitMatchesFailures
  BY DEF StoreInv
<1> QED BY <1>1, StoreInvariant, PTL

\* Everything not delivered still has its event.
THEOREM EventsKept == Spec => []PayloadKept
<1>1. StoreInv => PayloadKept
  BY DEF StoreInv
<1> QED BY <1>1, StoreInvariant, PTL

-----------------------------------------------------------------------------
(* Action properties                                                       *)

\* A delivered row is final.
THEOREM DeliveredFinal == Spec => DeliveredIsFinal
<1>1. ASSUME StoreInv, [Next]_storeVars, NEW d \in Deliveries,
             delivery[d].status = "delivered"
      PROVE  delivery'[d] = delivery[d]
  <2>1. delivery \in [Deliveries -> Row]
    BY <1>1 DEF StoreInv, TypeOK
  <2>2. ASSUME NEW r \in Replicas, ClaimDue(r) PROVE delivery'[d] = delivery[d]
    <3>1. PICK o \in ClaimOutcomes(r) : Claim(r, ExpireLeases(Now(r)), o.probes, o.claimed)
      BY <2>2 DEF ClaimDue
    <3>2. ExpireLeases(Now(r))[d] = delivery[d]
      BY <1>1 DEF ExpireLeases, LeaseExpired
    <3>3. d \notin o.claimed
      BY <1>1, <3>2, ClaimOutcomeFacts DEF Waiting
    <3> QED BY <3>1, <3>2, <3>3 DEF Claim
  <2>3. ASSUME NEW r \in Replicas, NEW e \in Deliveries, Enqueue(r, e)
        PROVE  delivery'[d] = delivery[d]
    BY <1>1, <2>1, <2>3 DEF Enqueue, Known
  <2>4. ASSUME NEW r \in Replicas, NEW e \in Deliveries, NEW receipt \in Receipts,
               Complete(r, e, receipt)
        PROVE  delivery'[d] = delivery[d]
    BY <1>1, <2>1, <2>4 DEF Complete, HoldsLease
  <2>5. ASSUME NEW r \in Replicas, NEW e \in Deliveries, RequeueDeadLetter(r, e)
        PROVE  delivery'[d] = delivery[d]
    BY <1>1, <2>1, <2>5 DEF RequeueDeadLetter
  <2>6. ASSUME delivery' = delivery PROVE delivery'[d] = delivery[d]
    BY <2>6
  <2> QED BY <1>1, <2>2, <2>3, <2>4, <2>5, <2>6
          DEF Next, ClaimAborted, SetPaused, Tick, storeVars
<1>2. StoreInv /\ [Next]_storeVars =>
        [\A d \in Deliveries : delivery[d].status = "delivered" =>
             delivery'[d] = delivery[d]]_storeVars
  BY <1>1
<1> QED BY <1>2, StoreInvariant, PTL DEF Spec, DeliveredIsFinal

\* Only a claim advances the attempt of a row, and only of a row it leases.
LEMMA AttemptAdvancesByClaim ==
  ASSUME StoreInv, [Next]_storeVars, NEW d \in Deliveries, Claimed(d)
  PROVE  \E r \in Replicas : \E o \in ClaimOutcomes(r) :
           Claim(r, ExpireLeases(Now(r)), o.probes, o.claimed) /\ d \in o.claimed
<1>1. delivery \in [Deliveries -> Row] /\ delivery[d].attempt \in Nat
  BY DEF StoreInv, TypeOK, Row
<1>2. ASSUME delivery'[d].attempt = delivery[d].attempt PROVE FALSE
  BY <1>1, <1>2 DEF Claimed
<1>3. ASSUME NEW r \in Replicas, ClaimDue(r)
      PROVE  \E o \in ClaimOutcomes(r) :
               Claim(r, ExpireLeases(Now(r)), o.probes, o.claimed) /\ d \in o.claimed
  <2>1. PICK o \in ClaimOutcomes(r) : Claim(r, ExpireLeases(Now(r)), o.probes, o.claimed)
    BY <1>3 DEF ClaimDue
  <2>2. ExpireLeases(Now(r))[d].attempt = delivery[d].attempt
    BY <1>1 DEF ExpireLeases, Row
  <2>3. d \in o.claimed
    BY <1>2, <2>1, <2>2 DEF Claim
  <2> QED BY <2>1, <2>3
<1>4. ASSUME NEW r \in Replicas, NEW e \in Deliveries, Enqueue(r, e) PROVE FALSE
  BY <1>1, <1>2, <1>4 DEF Enqueue, Row
<1>5. ASSUME NEW r \in Replicas, NEW e \in Deliveries, NEW receipt \in Receipts,
             Complete(r, e, receipt)
      PROVE  FALSE
  BY <1>1, <1>2, <1>5 DEF Complete, Row
<1>6. ASSUME NEW r \in Replicas, NEW e \in Deliveries, RequeueDeadLetter(r, e) PROVE FALSE
  <2>1. CASE e = d
    BY <1>1, <1>6, <2>1 DEF RequeueDeadLetter, Row, Claimed
  <2>2. CASE e # d
    BY <1>1, <1>2, <1>6, <2>2 DEF RequeueDeadLetter
  <2> QED BY <2>1, <2>2
<1>7. delivery' # delivery
  BY <1>2
<1> QED BY <1>3, <1>4, <1>5, <1>6, <1>7 DEF Next, ClaimAborted, SetPaused, Tick, storeVars

\* A circuit that is not closed admits one probe at a time, after its deadline.
THEOREM CircuitAdmitsItsProbe == Spec => CircuitAdmitsOneProbe
<1>1. ASSUME StoreInv, [Next]_storeVars, NEW d \in Deliveries, Claimed(d),
             subscription[SubOf[d]].circuit # "closed"
      PROVE  /\ subscription'[SubOf[d]].probe = d
             /\ subscription[SubOf[d]].circuit = "half_open" => subscription[SubOf[d]].probe = d
             /\ subscription[SubOf[d]].circuit = "open" =>
                  \E r \in Replicas : subscription[SubOf[d]].openUntil <= Now(r)
  <2>1. PICK r \in Replicas : \E o \in ClaimOutcomes(r) :
          Claim(r, ExpireLeases(Now(r)), o.probes, o.claimed) /\ d \in o.claimed
    BY <1>1, AttemptAdvancesByClaim
  <2>0. PICK o \in ClaimOutcomes(r) :
          Claim(r, ExpireLeases(Now(r)), o.probes, o.claimed) /\ d \in o.claimed
    BY <2>1
  <2> DEFINE s == SubOf[d]
  <2>2. s \in Subscriptions /\ subscription[s] \in SubscriptionState
    BY <1>1, StoreAssumption DEF StoreInv, TypeOK
  <2>3. CASE d \in o.probes
    <3>1. (CHOOSE p \in o.probes : SubOf[p] = s) = d
      BY <2>3, ClaimOutcomeFacts
    <3>2. subscription'[s] = [subscription[s] EXCEPT !.circuit = "half_open", !.probe = d]
      BY <2>0, <2>2, <2>3, <3>1 DEF Claim
    <3>3. subscription[s].circuit = "open" /\ subscription[s].openUntil <= Now(r)
      BY <2>3, ClaimOutcomeFacts
    <3> QED BY <2>2, <3>2, <3>3 DEF SubscriptionState
  <2>4. CASE d \notin o.probes
    <3>1. subscription[s].circuit = "half_open" /\ subscription[s].probe = d
      BY <1>1, <2>0, <2>4, ClaimOutcomeFacts
    <3>2. \A p \in o.probes : SubOf[p] # s
      BY <3>1, ClaimOutcomeFacts
    <3>3. subscription'[s] = subscription[s]
      BY <2>0, <2>2, <3>2 DEF Claim
    <3> QED BY <3>1, <3>3
  <2> QED BY <2>3, <2>4
<1>2. StoreInv /\ [Next]_storeVars =>
        [\A d \in Deliveries :
           LET s == subscription[SubOf[d]] IN
           Claimed(d) /\ s.circuit # "closed" =>
             /\ subscription'[SubOf[d]].probe = d
             /\ s.circuit = "half_open" => s.probe = d
             /\ s.circuit = "open" => \E r \in Replicas : s.openUntil <= Now(r)]_storeVars
  BY <1>1
<1> QED BY <1>2, StoreInvariant, PTL DEF Spec, CircuitAdmitsOneProbe

-----------------------------------------------------------------------------
(* The backlog quotas                                                       *)

\* A delivery becomes outstanding by an enqueue under its quotas or by a requeue.
OutstandingOnly(d) ==
  delivery'[d].status \in Outstanding => delivery[d].status \in Outstanding

LEMMA OutstandingBy ==
  ASSUME StoreInv, Next
  PROVE  \/ \A d \in Deliveries : OutstandingOnly(d)
         \/ \E e \in Deliveries : /\ QuotaLeft(SubOf[e])
                                 /\ \A d \in Deliveries \ {e} : OutstandingOnly(d)
         \/ \E d \in Deliveries : delivery[d].status = "dead_letter" /\ delivery'[d].status = "pending"
<1>1. delivery \in [Deliveries -> Row]
  BY DEF StoreInv, TypeOK
<1>2. ASSUME NEW r \in Replicas, ClaimDue(r)
      PROVE  \A d \in Deliveries : OutstandingOnly(d)
  <2>1. PICK o \in ClaimOutcomes(r) : Claim(r, ExpireLeases(Now(r)), o.probes, o.claimed)
    BY <1>2 DEF ClaimDue
  <2>2. SUFFICES ASSUME NEW d \in Deliveries, delivery'[d].status \in Outstanding
                 PROVE  delivery[d].status \in Outstanding
    BY DEF OutstandingOnly
  <2>3. CASE LeaseExpired(delivery[d], Now(r))
    BY <2>3 DEF LeaseExpired, Outstanding
  <2>4. CASE ~LeaseExpired(delivery[d], Now(r))
    <3>1. ExpireLeases(Now(r))[d] = delivery[d]
      BY <2>4 DEF ExpireLeases
    <3>2. CASE d \in o.claimed
      BY <3>1, <3>2, ClaimOutcomeFacts DEF Outstanding
    <3>3. CASE d \notin o.claimed
      BY <2>1, <2>2, <3>1, <3>3 DEF Claim
    <3> QED BY <3>2, <3>3
  <2> QED BY <2>3, <2>4
<1>3. ASSUME NEW r \in Replicas, NEW e \in Deliveries, Enqueue(r, e)
      PROVE  QuotaLeft(SubOf[e]) /\ \A d \in Deliveries \ {e} : OutstandingOnly(d)
  BY <1>1, <1>3 DEF Enqueue, OutstandingOnly
<1>4. ASSUME NEW r \in Replicas, NEW e \in Deliveries, NEW receipt \in Receipts,
             Complete(r, e, receipt)
      PROVE  \A d \in Deliveries : OutstandingOnly(d)
  BY <1>1, <1>4 DEF Complete, HoldsLease, OutstandingOnly, Outstanding
<1>5. ASSUME NEW r \in Replicas, NEW e \in Deliveries, RequeueDeadLetter(r, e)
      PROVE  delivery[e].status = "dead_letter" /\ delivery'[e].status = "pending"
  <2> DEFINE row == delivery[e]
  <2>1. row \in Row /\ row.status = "dead_letter"
    BY <1>1, <1>5 DEF RequeueDeadLetter
  <2>2. delivery'[e] = [row EXCEPT !.status = "pending", !.attempt = 0, !.nextAttemptAt = Now(r),
                                   !.leaseOwner = Null, !.leaseExpiresAt = Null]
    BY <1>1, <1>5 DEF RequeueDeadLetter
  <2> HIDE DEF row
  <2>3. delivery'[e].status = "pending"
    BY <2>1, <2>2 DEF Row
  <2> QED BY <2>1, <2>3 DEF row
<1>6. ASSUME delivery' = delivery PROVE \A d \in Deliveries : OutstandingOnly(d)
  BY <1>6 DEF OutstandingOnly
<1> QED BY <1>2, <1>3, <1>4, <1>5, <1>6 DEF Next, ClaimAborted, SetPaused, Tick, storeVars

\* A backlog that gains one member at most, from below its quota, stays within it.
LEMMA BacklogStays ==
  ASSUME IsFiniteSet(Deliveries), NEW before, before \subseteq Deliveries,
         NEW after, after \subseteq Deliveries, NEW quota \in Nat, NEW e \in Deliveries,
         \/ after \subseteq before
         \/ after \subseteq before \cup {e} /\ Cardinality(before) < quota
  PROVE  NoFurtherAbove(quota, before, after)
<1>1. /\ IsFiniteSet(before) /\ IsFiniteSet(after)
      /\ Cardinality(before) \in Nat /\ Cardinality(after) \in Nat
  BY FS_Subset, FS_CardinalityType
<1>2. CASE after \subseteq before
  BY <1>1, <1>2, FS_Subset DEF NoFurtherAbove
<1>3. CASE after \subseteq before \cup {e} /\ Cardinality(before) < quota
  <2>1. /\ IsFiniteSet(before \cup {e})
        /\ Cardinality(before \cup {e}) <= Cardinality(before) + 1
    <3>1. /\ IsFiniteSet(before \cup {e})
          /\ Cardinality(before \cup {e}) = IF e \in before THEN Cardinality(before)
                                            ELSE Cardinality(before) + 1
      BY <1>1, FS_AddElement, Zenon
    <3> QED BY <1>1, <3>1
  <2>2. Cardinality(after) <= Cardinality(before \cup {e})
    BY <1>3, <2>1, FS_Subset
  <2>3. Cardinality(before \cup {e}) \in Nat
    BY <2>1, FS_CardinalityType
  <2> QED BY <1>1, <1>3, <2>1, <2>2, <2>3 DEF NoFurtherAbove
<1> QED BY <1>2, <1>3

\* Nothing but a requeue raises a backlog above its quota, however enqueues, expiries,
\* claims and completions interleave.
THEOREM QuotasHold == IsFiniteSet(Deliveries) => (Spec => QuotaExceededOnlyByRequeue)
<1> SUFFICES ASSUME IsFiniteSet(Deliveries) PROVE Spec => QuotaExceededOnlyByRequeue
  OBVIOUS
<1> DEFINE Kept ==
      \/ \E d \in Deliveries : /\ delivery[d].status = "dead_letter"
                              /\ delivery'[d].status = "pending"
      \/ /\ \A s \in Subscriptions :
              NoFurtherAbove(MaxOutstandingPerSubscription, OutstandingOf(s), OutstandingOf(s)')
         /\ \A p \in Plugins :
              NoFurtherAbove(MaxOutstandingPerPlugin, OutstandingOfPlugin(p),
                             OutstandingOfPlugin(p)')
<1>1. ASSUME StoreInv, Next, Deliveries # {} PROVE Kept
  <2>1. /\ MaxOutstandingPerSubscription \in Nat /\ MaxOutstandingPerPlugin \in Nat
        /\ \A d \in Deliveries : SubOf[d] \in Subscriptions
    BY StoreAssumption
  <2>2. /\ \A s : OutstandingOf(s) \subseteq Deliveries /\ OutstandingOf(s)' \subseteq Deliveries
        /\ \A p : OutstandingOfPlugin(p) \subseteq Deliveries
                 /\ OutstandingOfPlugin(p)' \subseteq Deliveries
    BY DEF OutstandingOf, OutstandingOfPlugin
  <2>3. CASE \A d \in Deliveries : OutstandingOnly(d)
    <3>1. /\ \A s : OutstandingOf(s)' \subseteq OutstandingOf(s)
          /\ \A p : OutstandingOfPlugin(p)' \subseteq OutstandingOfPlugin(p)
      BY <2>3 DEF OutstandingOnly, OutstandingOf, OutstandingOfPlugin
    <3> QED BY <1>1, <2>1, <2>2, <3>1, BacklogStays
  <2>4. ASSUME NEW e \in Deliveries, QuotaLeft(SubOf[e]),
               \A d \in Deliveries \ {e} : OutstandingOnly(d)
        PROVE  Kept
    <3>1. ASSUME NEW s \in Subscriptions
          PROVE  NoFurtherAbove(MaxOutstandingPerSubscription, OutstandingOf(s), OutstandingOf(s)')
      <4>1. CASE s = SubOf[e]
        <5>1. OutstandingOf(s)' \subseteq OutstandingOf(s) \cup {e}
          BY <2>4 DEF OutstandingOnly, OutstandingOf
        <5>2. Cardinality(OutstandingOf(s)) < MaxOutstandingPerSubscription
          BY <2>4, <4>1 DEF QuotaLeft
        <5> QED BY <2>1, <2>2, <5>1, <5>2, BacklogStays
      <4>2. CASE s # SubOf[e]
        <5>1. OutstandingOf(s)' \subseteq OutstandingOf(s)
          BY <2>4, <4>2 DEF OutstandingOnly, OutstandingOf
        <5> QED BY <2>1, <2>2, <5>1, BacklogStays
      <4> QED BY <4>1, <4>2
    <3>2. ASSUME NEW p \in Plugins
          PROVE  NoFurtherAbove(MaxOutstandingPerPlugin, OutstandingOfPlugin(p), OutstandingOfPlugin(p)')
      <4>1. CASE p = PluginOf[SubOf[e]]
        <5>1. OutstandingOfPlugin(p)' \subseteq OutstandingOfPlugin(p) \cup {e}
          BY <2>4 DEF OutstandingOnly, OutstandingOfPlugin
        <5>2. Cardinality(OutstandingOfPlugin(p)) < MaxOutstandingPerPlugin
          BY <2>4, <4>1 DEF QuotaLeft
        <5> QED BY <2>1, <2>2, <5>1, <5>2, BacklogStays
      <4>2. CASE p # PluginOf[SubOf[e]]
        <5>1. OutstandingOfPlugin(p)' \subseteq OutstandingOfPlugin(p)
          BY <2>4, <4>2 DEF OutstandingOnly, OutstandingOfPlugin
        <5> QED BY <2>1, <2>2, <5>1, BacklogStays
      <4> QED BY <4>1, <4>2
    <3> QED BY <3>1, <3>2
  <2> QED BY <1>1, <2>3, <2>4, OutstandingBy
<1>2. ASSUME Deliveries = {} PROVE Kept
  <2>1. /\ \A s : OutstandingOf(s) = {} /\ OutstandingOf(s)' = {}
        /\ \A p : OutstandingOfPlugin(p) = {} /\ OutstandingOfPlugin(p)' = {}
    BY <1>2 DEF OutstandingOf, OutstandingOfPlugin
  <2>2. Cardinality({}) = 0 /\ MaxOutstandingPerSubscription \in Nat /\ MaxOutstandingPerPlugin \in Nat
    BY FS_EmptySet, StoreAssumption
  <2> QED BY <2>1, <2>2 DEF NoFurtherAbove
<1>3. StoreInv /\ [Next]_storeVars => [Kept]_storeVars
  BY <1>1, <1>2
<1> QED BY <1>3, StoreInvariant, PTL DEF Spec, QuotaExceededOnlyByRequeue
=============================================================================
