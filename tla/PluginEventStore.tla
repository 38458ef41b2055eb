-------------------------- MODULE PluginEventStore --------------------------
(***************************************************************************)
(* The durable event queue of the plugin platform:                         *)
(* DatabasePluginEventDeliveryStoreV1 of                                   *)
(* packages/backend-host/src/plugins/pluginEventDeliveryStore.ts.          *)
(*                                                                         *)
(* Each operation of the store is one database transaction and therefore   *)
(* one action.  Its caller, a backend replica, passes its own Date.now(),  *)
(* read before the transaction starts: Now(r).  In this module any replica *)
(* may call any operation at any time (PluginEventDispatcher restricts the *)
(* callers to the ones the program has), so what holds here holds for every*)
(* client of the store.                                                    *)
(***************************************************************************)
EXTENDS Integers, FiniteSets

CONSTANTS
  Deliveries,          \* deliveryId: hash of plugin, tenant, type, operation, event id
  Subscriptions,       \* plugin, deployment, tenant and subscription type
  Plugins,
  SubOf,               \* the subscription a delivery belongs to
  PluginOf,            \* the plugin a subscription belongs to
  Replicas,            \* backend processes; leaseOwner is the workerRef of one
  Null,
  Skew,                \* how far the clock of a replica runs ahead of the slowest
  MaxAttempts,         \* maxAttempts of a delivery, from the plugin manifest
  WireMaxAttempt,      \* largest attempt pluginEventDeliveryV1Schema parses (100)
  ClaimLimit,          \* limit of claimDue (20)
  LeaseTime,           \* leaseSeconds of claimDue (30 s)
  OpenTime,            \* circuitPolicy.openMilliseconds
  FailureThreshold,    \* circuitPolicy.failureThreshold
  MaxFailureCount,     \* MAX_CIRCUIT_FAILURE_THRESHOLD (100)
  MaxRetryDelay,       \* MAX_RETRY_SECONDS
  MaxOutstandingPerPlugin,
  MaxOutstandingPerSubscription,
  MaxClock,            \* bound of the model: the last instant
  MaxRevision          \* bound of the model: pause/resume commands per subscription

ASSUME StoreAssumption ==
  /\ SubOf \in [Deliveries -> Subscriptions]
  /\ PluginOf \in [Subscriptions -> Plugins]
  /\ Skew \in [Replicas -> Nat]
  /\ MaxAttempts \in [Deliveries -> Nat \ {0}]
  /\ {WireMaxAttempt, ClaimLimit, LeaseTime, OpenTime, FailureThreshold,
      MaxFailureCount, MaxRetryDelay, MaxOutstandingPerPlugin,
      MaxOutstandingPerSubscription} \subseteq Nat \ {0}
  /\ FailureThreshold <= MaxFailureCount
  /\ {MaxClock, MaxRevision} \subseteq Nat
  /\ Null \notin Nat \cup Replicas \cup Deliveries

VARIABLES
  clock,        \* real time
  delivery,     \* plugin_event_deliveries, one row per delivery
  subscription  \* plugin_event_subscription_state, one row per subscription

storeVars == <<clock, delivery, subscription>>

Waiting     == {"pending", "retry_wait"}
Outstanding == Waiting \cup {"delivering"}       \* OUTSTANDING_EVENT_STATUSES
Statuses    == Outstanding \cup {"absent", "delivered", "dead_letter"}
Receipts    == {"accepted", "duplicate", "retryable_rejected", "permanent_rejected"}

\* payload is FALSE when eventJson is '{}'.
Row == [status: Statuses, attempt: Nat, createdAt: Nat, nextAttemptAt: Nat,
        leaseOwner: Replicas \cup {Null}, leaseExpiresAt: Nat \cup {Null},
        payload: BOOLEAN]

SubscriptionState ==
  [paused: BOOLEAN, revision: Nat, circuit: {"closed", "open", "half_open"},
   failures: Nat, openUntil: Nat \cup {Null}, probe: Deliveries \cup {Null}]

Now(r) == clock + Skew[r]

-----------------------------------------------------------------------------

\* A missing subscription row is inserted with these values by the first
\* operation that needs it (ensureSubscriptionState).
DefaultSubscription ==
  [paused |-> FALSE, revision |-> 0, circuit |-> "closed", failures |-> 0,
   openUntil |-> Null, probe |-> Null]

Init ==
  /\ clock = 0
  /\ delivery = [d \in Deliveries |->
       [status |-> "absent", attempt |-> 0, createdAt |-> 0, nextAttemptAt |-> 0,
        leaseOwner |-> Null, leaseExpiresAt |-> Null, payload |-> TRUE]]
  /\ subscription = [s \in Subscriptions |-> DefaultSubscription]

OutstandingOf(s) ==
  {d \in Deliveries : SubOf[d] = s /\ delivery[d].status \in Outstanding}

OutstandingOfPlugin(p) ==
  {d \in Deliveries : PluginOf[SubOf[d]] = p /\ delivery[d].status \in Outstanding}

OpenDeadlinePassed(s, now) ==
  subscription[s].openUntil # Null /\ subscription[s].openUntil <= now

CircuitBlocksEnqueue(s, now) ==
  \/ subscription[s].circuit = "half_open"
  \/ subscription[s].circuit = "open" /\ ~OpenDeadlinePassed(s, now)

\* Faulty variant: only rows that can still be sent count as stored.
KnownWhileOutstanding(d) == delivery[d].status \in Outstanding

\* A repeated enqueue of a stored deliveryId changes nothing.
Known(d) == delivery[d].status # "absent"

\* Faulty variant: off by one.
QuotaLeftOffByOne(s) ==
  /\ Cardinality(OutstandingOfPlugin(PluginOf[s])) <= MaxOutstandingPerPlugin
  /\ Cardinality(OutstandingOf(s)) <= MaxOutstandingPerSubscription

QuotaLeft(s) ==
  /\ Cardinality(OutstandingOfPlugin(PluginOf[s])) < MaxOutstandingPerPlugin
  /\ Cardinality(OutstandingOf(s)) < MaxOutstandingPerSubscription

Enqueue(r, d) ==
  /\ ~Known(d)
  /\ ~CircuitBlocksEnqueue(SubOf[d], Now(r))
  /\ QuotaLeft(SubOf[d])
  /\ delivery' = [delivery EXCEPT ![d] =
       [@ EXCEPT !.status = "pending", !.createdAt = Now(r), !.nextAttemptAt = Now(r)]]
  /\ UNCHANGED <<clock, subscription>>

-----------------------------------------------------------------------------
(* claimDue: expire leases, read a bounded window of due rows, lease those  *)
(* whose subscription allows it.                                           *)

LeaseExpired(row, now) == row.status = "delivering" /\ row.leaseExpiresAt <= now

\* Faulty variant: the deadline of the expired lease stays in the row.
ExpireOwnersOnly(now) ==
  [d \in Deliveries |->
     IF LeaseExpired(delivery[d], now)
     THEN [delivery[d] EXCEPT !.status = "retry_wait", !.nextAttemptAt = now,
                              !.leaseOwner = Null]
     ELSE delivery[d]]

\* The UPDATE that starts every claim: no look at attempt or maxAttempts.
ExpireLeases(now) ==
  [d \in Deliveries |->
     IF LeaseExpired(delivery[d], now)
     THEN [delivery[d] EXCEPT !.status = "retry_wait", !.nextAttemptAt = now,
                              !.leaseOwner = Null, !.leaseExpiresAt = Null]
     ELSE delivery[d]]

Due(rows, now) ==
  {d \in Deliveries : /\ rows[d].status \in Waiting
                      /\ rows[d].nextAttemptAt <= now
                      /\ rows[d].leaseExpiresAt = Null \/ rows[d].leaseExpiresAt <= now}

\* ORDER BY next_attempt_at, created_at: ties are in no particular order.
NotAfter(rows, d, e) ==
  \/ rows[d].nextAttemptAt < rows[e].nextAttemptAt
  \/ /\ rows[d].nextAttemptAt = rows[e].nextAttemptAt
     /\ rows[d].createdAt <= rows[e].createdAt

\* The sets of rows that ORDER BY ... LIMIT may return.
Windows(rows, due) ==
  {W \in SUBSET due :
     /\ Cardinality(W) <= ClaimLimit
     /\ W # due => Cardinality(W) = ClaimLimit
     /\ \A d \in W, e \in due \ W : NotAfter(rows, d, e)}

Unpaused(W) == {d \in W : ~subscription[SubOf[d]].paused}

\* The rows that find their circuit open past its deadline: the first of each
\* subscription in the window becomes the probe.
ProbeCandidates(W, now) ==
  {d \in Unpaused(W) : /\ subscription[SubOf[d]].circuit = "open"
                       /\ OpenDeadlinePassed(SubOf[d], now)}

ProbeChoices(rows, W, now) ==
  LET C == ProbeCandidates(W, now) IN
  {P \in SUBSET C :
     /\ \A d \in C : \E p \in P : SubOf[p] = SubOf[d]
     /\ \A p \in P, d \in C : SubOf[p] = SubOf[d] =>
          /\ NotAfter(rows, p, d)
          /\ d \in P => d = p}

\* Faulty variant: a half-open circuit admits every delivery.
AllowedWhenHalfOpen(W, P) ==
  P \cup {d \in Unpaused(W) : subscription[SubOf[d]].circuit \in {"closed", "half_open"}}

\* subscriptionClaimAllowed over the window, P being the new probes.
Allowed(W, P) ==
  P \cup {d \in Unpaused(W) :
            \/ subscription[SubOf[d]].circuit = "closed"
            \/ /\ subscription[SubOf[d]].circuit = "half_open"
               /\ subscription[SubOf[d]].probe = d}

\* The transaction aborts, undoing everything, when one claimed row has run out
\* of attempt numbers that the delivery schema can carry.
Claimable(rows, C) == \A d \in C : rows[d].attempt < WireMaxAttempt

Claim(r, rows, P, C) ==
  /\ delivery' = [d \in Deliveries |->
       IF d \in C
       THEN [rows[d] EXCEPT !.status = "delivering", !.attempt = @ + 1,
                            !.leaseOwner = r, !.leaseExpiresAt = Now(r) + LeaseTime]
       ELSE rows[d]]
  /\ subscription' = [s \in Subscriptions |->
       IF \E p \in P : SubOf[p] = s
       THEN [subscription[s] EXCEPT !.circuit = "half_open",
                                    !.probe = CHOOSE p \in P : SubOf[p] = s]
       ELSE subscription[s]]
  /\ UNCHANGED clock

\* The possible outcomes of one claimDue: the expired table, probes and claims.
ClaimOutcomes(r) ==
  LET rows == ExpireLeases(Now(r)) IN
  UNION {{[probes |-> P, claimed |-> Allowed(W, P)] : P \in ProbeChoices(rows, W, Now(r))}
           : W \in Windows(rows, Due(rows, Now(r)))}

ClaimDue(r) ==
  LET rows == ExpireLeases(Now(r)) IN
  \E o \in ClaimOutcomes(r) :
    /\ Claimable(rows, o.claimed)
    /\ Claim(r, rows, o.probes, o.claimed)

ClaimAborted(r) ==
  /\ \E o \in ClaimOutcomes(r) : ~Claimable(ExpireLeases(Now(r)), o.claimed)
  /\ UNCHANGED storeVars

-----------------------------------------------------------------------------
(* complete                                                                *)

HoldsLease(r, d) ==
  /\ delivery[d].status = "delivering"
  /\ delivery[d].leaseOwner = r
  /\ delivery[d].leaseExpiresAt > Now(r)

\* min(2^(attempt-1), MAX_RETRY_SECONDS)
RetryDelay(attempt) ==
  IF 2^(attempt - 1) \in 0..MaxRetryDelay THEN 2^(attempt - 1) ELSE MaxRetryDelay

\* Faulty variant: the receipt's status is copied into the row.
OutcomeCopied(d, receipt) ==
  CASE receipt \in {"accepted", "duplicate"} -> "delivered"
    [] receipt = "permanent_rejected" -> receipt
    [] receipt = "retryable_rejected" -> "retry_wait"

Outcome(d, receipt) ==
  CASE receipt \in {"accepted", "duplicate"} -> "delivered"
    [] receipt = "permanent_rejected" -> "dead_letter"
    [] receipt = "retryable_rejected" ->
         IF delivery[d].attempt >= MaxAttempts[d] THEN "dead_letter" ELSE "retry_wait"

ErasesPayload(status) == status = "delivered"

\* Faulty variant: a failed probe remains the probe of the circuit it opens.
CircuitKeepingProbe(state, receipt, now) ==
  IF receipt = "retryable_rejected"
  THEN [state EXCEPT !.circuit = "open", !.failures = FailureThreshold,
                     !.openUntil = now + OpenTime]
  ELSE [state EXCEPT !.circuit = "closed", !.failures = 0,
                     !.openUntil = Null, !.probe = Null]

\* Faulty variant: a success closes the circuit and keeps the failure count.
CircuitKeepingFailures(state, receipt, now) ==
  IF receipt = "retryable_rejected"
  THEN [state EXCEPT !.circuit = "open", !.failures = FailureThreshold,
                     !.openUntil = now + OpenTime, !.probe = Null]
  ELSE [state EXCEPT !.circuit = "closed", !.openUntil = Null, !.probe = Null]

\* updateSubscriptionCircuit: any completion of the subscription moves its
\* circuit, the probe's or not.
CircuitAfter(state, receipt, now) ==
  LET failures == IF state.failures < MaxFailureCount THEN state.failures + 1
                                                      ELSE MaxFailureCount
      open == state.circuit # "closed" \/ failures >= FailureThreshold
  IN IF receipt = "retryable_rejected"
     THEN [state EXCEPT !.circuit = IF open THEN "open" ELSE "closed",
                        !.failures = failures,
                        !.openUntil = IF open THEN now + OpenTime ELSE Null,
                        !.probe = Null]
     ELSE [state EXCEPT !.circuit = "closed", !.failures = 0,
                        !.openUntil = Null, !.probe = Null]

Complete(r, d, receipt) ==
  LET status == Outcome(d, receipt) IN
  /\ HoldsLease(r, d)
  /\ delivery' = [delivery EXCEPT ![d] =
       [@ EXCEPT !.status = status,
                 !.payload = IF ErasesPayload(status) THEN FALSE ELSE delivery[d].payload,
                 !.nextAttemptAt = IF status = "retry_wait"
                                   THEN Now(r) + RetryDelay(delivery[d].attempt)
                                   ELSE Now(r),
                 !.leaseOwner = Null, !.leaseExpiresAt = Null]]
  /\ subscription' = [subscription EXCEPT ![SubOf[d]] = CircuitAfter(@, receipt, Now(r))]
  /\ UNCHANGED clock

-----------------------------------------------------------------------------
(* Administration and time                                                 *)

\* requeueDeadLetter: consults neither quota nor circuit.
RequeueDeadLetter(r, d) ==
  /\ delivery[d].status = "dead_letter"
  /\ delivery[d].attempt \in 1..WireMaxAttempt
  /\ delivery[d].payload
  /\ delivery' = [delivery EXCEPT ![d] =
       [@ EXCEPT !.status = "pending", !.attempt = 0, !.nextAttemptAt = Now(r),
                 !.leaseOwner = Null, !.leaseExpiresAt = Null]]
  /\ UNCHANGED <<clock, subscription>>

\* setPaused with the revision that the row has.
SetPaused(s, paused) ==
  /\ subscription[s].revision < MaxRevision
  /\ subscription' = [subscription EXCEPT ![s] =
       [@ EXCEPT !.paused = paused, !.revision = subscription[s].revision + 1]]
  /\ UNCHANGED <<clock, delivery>>

Tick ==
  /\ clock < MaxClock
  /\ clock' = clock + 1
  /\ UNCHANGED <<delivery, subscription>>

Next ==
  \/ \E r \in Replicas :
       \/ ClaimDue(r)
       \/ ClaimAborted(r)
       \/ \E d \in Deliveries :
            \/ Enqueue(r, d)
            \/ \E receipt \in Receipts : Complete(r, d, receipt)
            \/ RequeueDeadLetter(r, d)
  \/ \E s \in Subscriptions, paused \in BOOLEAN : SetPaused(s, paused)
  \/ Tick

Spec == Init /\ [][Next]_storeVars

-----------------------------------------------------------------------------
(* Properties                                                              *)

TypeOK ==
  /\ clock \in Nat
  /\ delivery \in [Deliveries -> Row]
  /\ subscription \in [Subscriptions -> SubscriptionState]

\* A row carries a lease exactly while it is being delivered, whatever mixture
\* of claims, expiries, completions and requeues of several replicas produced
\* it; otherwise claimDue's lease clause would hide a due row or complete would
\* accept a receipt for a row nobody is delivering.
LeaseIffDelivering ==
  \A d \in Deliveries :
    /\ delivery[d].status = "delivering" <=> delivery[d].leaseOwner # Null
    /\ delivery[d].status = "delivering" <=> delivery[d].leaseExpiresAt # Null

\* A half-open circuit admits nobody but its probe (subscriptionClaimAllowed) and
\* blocks enqueue, so it can only ever leave that state through a delivery in
\* progress: the probe must be an unfinished delivery of the same subscription,
\* leased or waiting to be claimed again.  Every other interleaving (a late
\* completion of another delivery, the probe's lease running out, a requeue)
\* must keep it so.
HalfOpenHasLiveProbe ==
  \A s \in Subscriptions :
    LET p == subscription[s].probe IN
    /\ subscription[s].circuit = "half_open" <=> p # Null
    /\ p # Null => /\ SubOf[p] = s
                   /\ delivery[p].status \in {"delivering", "retry_wait"}

\* The circuit state and the failure counter never disagree: the circuit leaves
\* "closed" exactly when the counter has reached the threshold, and only a
\* circuit that is not closed has a deadline.
CircuitMatchesFailures ==
  \A s \in Subscriptions :
    /\ subscription[s].circuit = "closed" <=> subscription[s].failures < FailureThreshold
    /\ subscription[s].circuit = "closed" <=> subscription[s].openUntil = Null

\* Whatever can still be sent or requeued still has its event: eventJson is
\* erased only for a delivered event, so parsing it in claimDue cannot fail and a
\* dead letter can always be requeued.
PayloadKept ==
  \A d \in Deliveries : delivery[d].status # "delivered" <=> delivery[d].payload

\* A delivered event is never sent again: no late completion, lease expiry or
\* requeue moves a delivered row.
DeliveredIsFinal ==
  [][\A d \in Deliveries : delivery[d].status = "delivered" =>
       delivery'[d] = delivery[d]]_storeVars

\* The set does not grow beyond the quota.
NoFurtherAbove(quota, before, after) ==
  Cardinality(after) <= Cardinality(before) \/ Cardinality(after) <= quota

\* enqueue counts under the plugin's queue-state lock, so no enqueue, claim,
\* expiry or completion raises a backlog above its quota; the only step that may
\* is an administrator's requeue, which revives a dead letter.
QuotaExceededOnlyByRequeue ==
  [][\/ \E d \in Deliveries : /\ delivery[d].status = "dead_letter"
                             /\ delivery'[d].status = "pending"
     \/ /\ \A s \in Subscriptions :
             NoFurtherAbove(MaxOutstandingPerSubscription, OutstandingOf(s), OutstandingOf(s)')
        /\ \A p \in Plugins :
             NoFurtherAbove(MaxOutstandingPerPlugin, OutstandingOfPlugin(p),
                            OutstandingOfPlugin(p)')]_storeVars

Claimed(d) == delivery'[d].attempt = delivery[d].attempt + 1

\* While the circuit of a subscription is not closed at most one of its
\* deliveries is claimed per step, never before the deadline, and a half-open
\* circuit admits nothing but its probe.
CircuitAdmitsOneProbe ==
  [][\A d \in Deliveries :
       LET s == subscription[SubOf[d]] IN
       Claimed(d) /\ s.circuit # "closed" =>
         /\ subscription'[SubOf[d]].probe = d
         /\ s.circuit = "half_open" => s.probe = d
         /\ s.circuit = "open" => \E r \in Replicas : s.openUntil <= Now(r)]_storeVars
=============================================================================
