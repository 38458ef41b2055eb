----------------------- MODULE PluginEventDispatcher -----------------------
(***************************************************************************)
(* The workers that drain the event queue: PluginEventDeliveryCoordinatorV1*)
(* (pluginEventDeliveryStore.ts) driven by PluginEventDispatcherV1         *)
(* (pluginEventDispatcher.ts), composed with the store.                    *)
(*                                                                         *)
(* A cycle (runOnce) claims a batch and delivers its members concurrently: *)
(* each is authorized, posted to the plugin's sidecar, and its receipt     *)
(* completed in the store.  A replica starts a cycle only when its previous*)
(* one has settled, but Promise.all settles at the FIRST failing complete, *)
(* so calls of an abandoned cycle can still be running.  The sidecar is    *)
(* external: it may answer, reject, hang, or handle a request whose answer *)
(* is lost.  A call may last any time: authorization, capability fetch and *)
(* post together can take far longer than the lease they run under.        *)
(***************************************************************************)
EXTENDS PluginEventStore

VARIABLES
  calls,     \* deliveries being sent, one record per claimed attempt
  allowed,   \* isExecutionAllowed: is the plugin enabled for the tenant
  processed  \* deliveries the sidecar has handled

vars == <<clock, delivery, subscription, calls, allowed, processed>>

\* current: the call belongs to the cycle its replica is waiting for.  (Abandoned
\* calls of one replica that agree in everything here count as one.)
Call == [replica: Replicas, delivery: Deliveries, attempt: Nat,
         stage: {"claimed", "authorized", "returned"},
         receipt: Receipts \cup {Null}, current: BOOLEAN]

CallsOf(r)   == {c \in calls : c.replica = r}
InFlight     == {c \in calls : c.stage # "returned"}
Replace(c, e) == (calls \ {c}) \cup {e}

Returned(c, receipt) == [c EXCEPT !.stage = "returned", !.receipt = receipt]

DispatcherInit ==
  /\ Init
  /\ calls = {}
  /\ allowed = [s \in Subscriptions |-> TRUE]
  /\ processed = {}

-----------------------------------------------------------------------------

\* publish checks isExecutionAllowed and enqueues later: by then the answer may
\* be stale, so the check restrains nothing here.
Publish(r, d) ==
  /\ Enqueue(r, d)
  /\ UNCHANGED <<calls, allowed, processed>>

\* Faulty variant: the timer starts a cycle while the previous one is awaited.
RunOnceOverlapping(r) ==
  /\ LET rows == ExpireLeases(Now(r)) IN
     \E o \in ClaimOutcomes(r) :
       /\ Claimable(rows, o.claimed)
       /\ Claim(r, rows, o.probes, o.claimed)
       /\ calls' = calls \cup
            {[replica |-> r, delivery |-> d, attempt |-> rows[d].attempt + 1,
              stage |-> "claimed", receipt |-> Null, current |-> TRUE] : d \in o.claimed}
  /\ UNCHANGED <<allowed, processed>>

\* The timer fires and the previous cycle of this process has settled.
RunOnce(r) ==
  /\ \A c \in CallsOf(r) : ~c.current
  /\ LET rows == ExpireLeases(Now(r)) IN
     \E o \in ClaimOutcomes(r) :
       /\ Claimable(rows, o.claimed)
       /\ Claim(r, rows, o.probes, o.claimed)
       /\ calls' = calls \cup
            {[replica |-> r, delivery |-> d, attempt |-> rows[d].attempt + 1,
              stage |-> "claimed", receipt |-> Null, current |-> TRUE] : d \in o.claimed}
  /\ UNCHANGED <<allowed, processed>>

\* deliver: the delivery is authorized again, then the capability document is
\* fetched; a tenant that is no longer allowed ends the call.
Authorize(c) ==
  /\ c.stage = "claimed"
  /\ calls' = Replace(c, IF allowed[SubOf[c.delivery]]
                         THEN [c EXCEPT !.stage = "authorized"]
                         ELSE Returned(c, "permanent_rejected"))
  /\ UNCHANGED <<clock, delivery, subscription, allowed, processed>>

\* The sidecar handles the posted event, once per deliveryId, and its answer
\* arrives ("accepted", "duplicate") or is lost ("retryable_rejected").
Handle(c) ==
  /\ c.stage = "authorized"
  /\ processed' = processed \cup {c.delivery}
  /\ \E receipt \in {IF c.delivery \in processed THEN "duplicate" ELSE "accepted",
                     "retryable_rejected"} :
       calls' = Replace(c, Returned(c, receipt))
  /\ UNCHANGED <<clock, delivery, subscription, allowed>>

\* Faulty variant: a conflict answer counts as a duplicate.
RefuseAsDuplicate(c) ==
  /\ c.stage = "authorized"
  /\ calls' = Replace(c, Returned(c, "duplicate"))
  /\ UNCHANGED <<clock, delivery, subscription, allowed, processed>>

\* The sidecar refuses the event (a 3xx or 4xx answer counts as a permanent
\* refusal).
Refuse(c) ==
  /\ c.stage = "authorized"
  /\ \E receipt \in {"permanent_rejected", "retryable_rejected"} :
       calls' = Replace(c, Returned(c, receipt))
  /\ UNCHANGED <<clock, delivery, subscription, allowed, processed>>

\* Faulty variant: the reason code is stored as the receipt.
UnavailableAsReason(c) ==
  /\ c.stage # "returned"
  /\ calls' = Replace(c, Returned(c, "delivery_unavailable"))
  /\ UNCHANGED <<clock, delivery, subscription, allowed, processed>>

\* Anything deliver throws, a timeout included, becomes 'delivery_unavailable'.
Unavailable(c) ==
  /\ c.stage # "returned"
  /\ calls' = Replace(c, Returned(c, "retryable_rejected"))
  /\ UNCHANGED <<clock, delivery, subscription, allowed, processed>>

Record(c) ==
  /\ c.stage = "returned"
  /\ Complete(c.replica, c.delivery, c.receipt)
  /\ calls' = calls \ {c}
  /\ UNCHANGED <<allowed, processed>>

\* complete throws: the lease is lost, or the database failed.  If the cycle is
\* still awaited it ends here and the rest of its batch is abandoned.
RecordFails(c) ==
  /\ c.stage = "returned"
  /\ calls' = {IF c.current /\ e.replica = c.replica
               THEN [e EXCEPT !.current = FALSE] ELSE e : e \in calls \ {c}}
  /\ UNCHANGED <<clock, delivery, subscription, allowed, processed>>

\* The process dies; its leases run out.
Crash(r) ==
  /\ CallsOf(r) # {}
  /\ calls' = calls \ CallsOf(r)
  /\ UNCHANGED <<clock, delivery, subscription, allowed, processed>>

\* A tenant is enabled or disabled, an entitlement changes (PluginControlPlane).
SetAllowed(s) ==
  /\ allowed' = [allowed EXCEPT ![s] = ~@]
  /\ UNCHANGED <<clock, delivery, subscription, calls, processed>>

Administer ==
  /\ \/ \E r \in Replicas, d \in Deliveries : RequeueDeadLetter(r, d)
     \/ \E s \in Subscriptions, paused \in BOOLEAN : SetPaused(s, paused)
  /\ UNCHANGED <<calls, allowed, processed>>

\* Time passes for calls under way too: leases run out below them.
Time == Tick /\ UNCHANGED <<calls, allowed, processed>>

DispatcherNext ==
  \/ \E r \in Replicas, d \in Deliveries : Publish(r, d)
  \/ \E r \in Replicas : RunOnce(r) \/ Crash(r)
  \/ \E c \in calls : \/ Authorize(c) \/ Handle(c) \/ Refuse(c) \/ Unavailable(c)
                      \/ Record(c) \/ RecordFails(c)
  \/ \E s \in Subscriptions : SetAllowed(s)
  \/ Administer
  \/ Time

DispatcherSpec == DispatcherInit /\ [][DispatcherNext]_vars

-----------------------------------------------------------------------------

DispatcherTypeOK ==
  /\ TypeOK
  /\ calls \subseteq Call
  /\ allowed \in [Subscriptions -> BOOLEAN]
  /\ processed \subseteq Deliveries

\* An event is marked delivered only if the plugin really handled it, however
\* many attempts, lost answers and crashes it took.
DeliveredWasProcessed ==
  \A d \in Deliveries : delivery[d].status = "delivered" => d \in processed

\* The fate of a delivery, as its publisher sees it.
Fate(d) ==
  CASE delivery[d].status = "absent"      -> "unknown"
    [] delivery[d].status \in Outstanding -> "owed"
    [] delivery[d].status = "delivered"   -> "delivered"
    [] delivery[d].status = "dead_letter" -> "given_up"

RefusedDeliveries ==
  {d \in Deliveries : \E c \in calls : /\ c.delivery = d
                                      /\ c.stage = "returned"
                                      /\ c.receipt = "permanent_rejected"}

Promise ==
  INSTANCE EventDelivery
    WITH Events <- Deliveries, Budget <- MaxAttempts,
         fate <- [d \in Deliveries |-> Fate(d)],
         tries <- [d \in Deliveries |-> delivery[d].attempt],
         handled <- processed, refused <- RefusedDeliveries

\* Whatever cycles overlap, calls are abandoned, answers are lost and processes
\* die, an accepted event stays owed until its plugin has handled it, has refused
\* it, or has had all its tries; one step settles one event, and nothing but a
\* requeue brings a settled one back.
DeliveryPromise == Promise!DeliverySpec

\* complete is fenced by workerRef only, and calls outlast leases.  But while a cycle
\* is awaited its replica claims nothing more, so the receipts recorded by the calls
\* of that cycle are of the attempts they were claimed for.  Only a call that a
\* failed cycle left behind can decide a later attempt.
AwaitedReceiptMatches ==
  [][\A c \in calls : Record(c) /\ c.current => c.attempt = delivery[c.delivery].attempt]_vars

\* Strengthenings for the proofs: what a call knows about its own answer ...
ReceiptsHonest ==
  \A c \in calls :
    c.stage = "returned" =>
      /\ c.receipt \in Receipts
      /\ c.receipt \in {"accepted", "duplicate"} => c.delivery \in processed

\* ... and the row it was claimed from: what the replica of an awaited call
\* holds of it, it holds for that call.
AwaitedCallsHold ==
  \A c \in calls :
    LET row == delivery[c.delivery] IN
    c.current /\ row.status = "delivering" /\ row.leaseOwner = c.replica =>
      row.attempt = c.attempt

\* What is sent was stored, and the attempt of a leased row has been counted.
CallsAreOfStored == \A c \in calls : delivery[c.delivery].status # "absent"

LeasedIsTried ==
  \A d \in Deliveries : delivery[d].status = "delivering" => delivery[d].attempt > 0

\* What pluginEventDeliveryV1Schema would refuse to parse when it is next claimed.
Poisoned(d) == delivery[d].attempt >= WireMaxAttempt

Sendable(d, rows, now) ==
  LET s == subscription[SubOf[d]] IN
  /\ d \in Due(rows, now)
  /\ ~s.paused
  /\ s.circuit = "closed" \/ (s.circuit = "half_open" /\ s.probe = d)

\* A delivery that can be sent, of a subscription with nothing poisoned, finds a claim
\* that commits and sends something: deliveries of one subscription, poisoned ones
\* included, do not hold up those of another.
NoDeliveryBlocksAnother ==
  \A r \in Replicas, d \in Deliveries :
    LET rows == ExpireLeases(Now(r)) IN
    /\ Sendable(d, rows, Now(r))
    /\ \A e \in Deliveries : SubOf[e] = SubOf[d] => ~Poisoned(e)
    => \E o \in ClaimOutcomes(r) : o.claimed # {} /\ Claimable(rows, o.claimed)
=============================================================================
