-------------------- MODULE PluginEventDispatcherProofs --------------------
(***************************************************************************)
(* The dispatcher implements the store's specification, so every theorem   *)
(* of PluginEventStoreProofs holds of it; a delivered event was handled by *)
(* its plugin; the promise to the publisher is kept; and however long calls*)
(* last, a cycle still awaited records the receipts of its own attempts.   *)
(***************************************************************************)
EXTENDS PluginEventDispatcher, PluginEventStoreProofs

CallInv == DispatcherTypeOK /\ ReceiptsHonest /\ DeliveredWasProcessed

-----------------------------------------------------------------------------
(* Refinement                                                              *)

\* What a dispatcher does to the store is a call of the store.
LEMMA StepIsStoreStep == CallInv /\ [DispatcherNext]_vars => [Next]_storeVars
<1> SUFFICES ASSUME CallInv, [DispatcherNext]_vars PROVE [Next]_storeVars
  OBVIOUS
<1>1. ASSUME NEW r \in Replicas, NEW d \in Deliveries, Publish(r, d) PROVE Next
  BY <1>1 DEF Publish, Next
<1>2. ASSUME NEW r \in Replicas, RunOnce(r) PROVE Next
  BY <1>2 DEF RunOnce, ClaimDue, Next
<1>3. ASSUME NEW r \in Replicas, Crash(r) PROVE UNCHANGED storeVars
  BY <1>3 DEF Crash, storeVars
<1>4. ASSUME NEW c \in calls, Authorize(c) \/ Handle(c) \/ Refuse(c) \/ Unavailable(c)
                              \/ RecordFails(c)
      PROVE  UNCHANGED storeVars
  BY <1>4 DEF Authorize, Handle, Refuse, Unavailable, RecordFails, storeVars
<1>5. ASSUME NEW c \in calls, Record(c) PROVE Next
  <2>1. c.replica \in Replicas /\ c.delivery \in Deliveries
    BY DEF CallInv, DispatcherTypeOK, Call
  <2>2. c.receipt \in Receipts
    BY <1>5 DEF Record, CallInv, ReceiptsHonest
  <2> QED BY <1>5, <2>1, <2>2 DEF Record, Next
<1>6. ASSUME NEW s \in Subscriptions, SetAllowed(s) PROVE UNCHANGED storeVars
  BY <1>6 DEF SetAllowed, storeVars
<1>7. CASE Administer
  BY <1>7 DEF Administer, Next
<1>8. CASE Time
  BY <1>8 DEF Time, Next
<1>9. CASE UNCHANGED vars
  BY <1>9 DEF vars, storeVars
<1> QED BY <1>1, <1>2, <1>3, <1>4, <1>5, <1>6, <1>7, <1>8, <1>9 DEF DispatcherNext

-----------------------------------------------------------------------------
(* The calls and their answers                                             *)

\* Before the first claim there is no call.
LEMMA CallInvInit == DispatcherInit => CallInv
<1> SUFFICES ASSUME DispatcherInit PROVE CallInv
  OBVIOUS
<1>1. StoreInv
  BY InitInv DEF DispatcherInit
<1> QED BY <1>1 DEF DispatcherInit, Init, CallInv, DispatcherTypeOK, StoreInv, ReceiptsHonest,
                    DeliveredWasProcessed

\* A step that leaves the store alone and gives one call its answer.
LEMMA CallAnswered ==
  ASSUME CallInv, NEW c \in calls, NEW e \in Call,
         calls' = Replace(c, e), UNCHANGED <<clock, delivery, subscription, allowed>>,
         processed \subseteq processed', processed' \subseteq Deliveries,
         e.stage = "returned" =>
           /\ e.receipt \in Receipts
           /\ e.receipt \in {"accepted", "duplicate"} => e.delivery \in processed'
  PROVE  CallInv'
  BY DEF CallInv, DispatcherTypeOK, TypeOK, ReceiptsHonest, DeliveredWasProcessed, Replace

\* A call that returns is the call that was made.
LEMMA ReturnedIsCall ==
  ASSUME NEW c \in Call, NEW receipt \in Receipts
  PROVE  /\ Returned(c, receipt) \in Call
         /\ Returned(c, receipt).receipt = receipt
         /\ Returned(c, receipt).delivery = c.delivery
  BY DEF Returned, Call

\* Every step keeps what is known of the calls under way.
LEMMA CallInvNext == CallInv /\ StoreInv /\ [DispatcherNext]_vars => CallInv'
<1> SUFFICES ASSUME CallInv, StoreInv, [DispatcherNext]_vars PROVE CallInv'
  OBVIOUS
<1>0. TypeOK'
  BY StepIsStoreStep, NextInv DEF StoreInv
<1>1. \A c \in calls : c \in Call /\ c.delivery \in Deliveries
  BY DEF CallInv, DispatcherTypeOK, Call
<1>2. ASSUME NEW r \in Replicas, NEW d \in Deliveries, Publish(r, d) PROVE CallInv'
  BY <1>0, <1>2 DEF Publish, Enqueue, CallInv, DispatcherTypeOK, TypeOK, Row, ReceiptsHonest,
                    DeliveredWasProcessed
<1>3. ASSUME NEW r \in Replicas, RunOnce(r) PROVE CallInv'
  <2>1. PICK o \in ClaimOutcomes(r) :
          /\ Claim(r, ExpireLeases(Now(r)), o.probes, o.claimed)
          /\ calls' = calls \cup
               {[replica |-> r, delivery |-> d, attempt |-> ExpireLeases(Now(r))[d].attempt + 1,
                 stage |-> "claimed", receipt |-> Null, current |-> TRUE] : d \in o.claimed}
    BY <1>3 DEF RunOnce
  <2>2. UNCHANGED <<allowed, processed>>
    BY <1>3 DEF RunOnce
  <2>3. o.claimed \subseteq Deliveries
    BY ClaimOutcomeFacts
  <2>4. ExpireLeases(Now(r)) \in [Deliveries -> Row]
    BY ExpireLeasesFacts, NowIsNat DEF StoreInv
  <2>5. \A d \in o.claimed : ExpireLeases(Now(r))[d].attempt + 1 \in Nat
    BY <2>3, <2>4 DEF Row
  <2>6. calls' \subseteq Call
    <3>1. ASSUME NEW d \in o.claimed
          PROVE  [replica |-> r, delivery |-> d, attempt |-> ExpireLeases(Now(r))[d].attempt + 1,
                  stage |-> "claimed", receipt |-> Null, current |-> TRUE] \in Call
      BY <2>3, <2>5 DEF Call
    <3> QED BY <1>1, <2>1, <3>1
  <2>7. DispatcherTypeOK'
    BY <1>0, <2>2, <2>6 DEF CallInv, DispatcherTypeOK
  <2>8. ReceiptsHonest'
    <3>1. ASSUME NEW c \in calls', c \notin calls
          PROVE  c.stage = "claimed"
      BY <2>1, <3>1
    <3> QED BY <2>2, <3>1 DEF CallInv, ReceiptsHonest
  <2>9. DeliveredWasProcessed'
    <3>1. ASSUME NEW d \in Deliveries, delivery'[d].status = "delivered"
          PROVE  delivery[d].status = "delivered"
      <4>1. ExpireLeases(Now(r))[d].status = "delivered"
        BY <2>1, <2>4, <3>1 DEF Claim, Row
      <4> QED BY <4>1, ExpireLeasesFacts, NowIsNat DEF StoreInv
    <3> QED BY <2>2, <3>1 DEF CallInv, DeliveredWasProcessed
  <2> QED BY <2>7, <2>8, <2>9 DEF CallInv
<1>4. ASSUME NEW r \in Replicas, Crash(r) PROVE CallInv'
  BY <1>0, <1>4 DEF Crash, CallInv, DispatcherTypeOK, ReceiptsHonest, DeliveredWasProcessed
<1>5. ASSUME NEW c \in calls, Authorize(c) PROVE CallInv'
  <2>1. CASE allowed[SubOf[c.delivery]]
    <3>1. [c EXCEPT !.stage = "authorized"] \in Call
      BY <1>1 DEF Call
    <3>2. /\ [c EXCEPT !.stage = "authorized"].stage = "authorized"
          /\ [c EXCEPT !.stage = "authorized"].receipt = c.receipt
          /\ [c EXCEPT !.stage = "authorized"].delivery = c.delivery
      BY <1>1 DEF Call
    <3> QED BY <1>5, <2>1, <3>1, <3>2, CallAnswered
            DEF Authorize, CallInv, DispatcherTypeOK, ReceiptsHonest
  <2>2. CASE ~allowed[SubOf[c.delivery]]
    <3>1. "permanent_rejected" \in Receipts
      BY DEF Receipts
    <3> QED BY <1>1, <1>5, <2>2, <3>1, ReturnedIsCall, CallAnswered
            DEF Authorize, CallInv, DispatcherTypeOK
  <2> QED BY <2>1, <2>2
<1>6. ASSUME NEW c \in calls, Handle(c) PROVE CallInv'
  <2>1. PICK receipt \in {"accepted", "duplicate", "retryable_rejected"} :
          calls' = Replace(c, Returned(c, receipt))
    BY <1>6 DEF Handle
  <2>2. receipt \in Receipts
    BY DEF Receipts
  <2> QED BY <1>1, <1>6, <2>1, <2>2, ReturnedIsCall, CallAnswered
          DEF Handle, CallInv, DispatcherTypeOK
<1>7. ASSUME NEW c \in calls, Refuse(c) \/ Unavailable(c) PROVE CallInv'
  <2>1. PICK receipt \in {"permanent_rejected", "retryable_rejected"} :
          calls' = Replace(c, Returned(c, receipt))
    BY <1>7 DEF Refuse, Unavailable
  <2>2. receipt \in Receipts
    BY DEF Receipts
  <2> QED BY <1>1, <1>7, <2>1, <2>2, ReturnedIsCall, CallAnswered
          DEF Refuse, Unavailable, CallInv, DispatcherTypeOK
<1>8. ASSUME NEW c \in calls, Record(c) PROVE CallInv'
  <2>1. /\ calls' = calls \ {c}
        /\ UNCHANGED <<allowed, processed>>
        /\ Complete(c.replica, c.delivery, c.receipt)
        /\ c.stage = "returned" /\ c.receipt \in Receipts
    BY <1>8 DEF Record, CallInv, ReceiptsHonest
  <2>2. DispatcherTypeOK' /\ ReceiptsHonest'
    BY <1>0, <2>1 DEF CallInv, DispatcherTypeOK, ReceiptsHonest
  <2>3. ASSUME NEW d \in Deliveries, delivery'[d].status = "delivered"
        PROVE  d \in processed
    <3>1. CASE d = c.delivery
      <4>1. Outcome(d, c.receipt) = "delivered"
        BY <2>1, <2>3, <3>1 DEF Complete, StoreInv, TypeOK, Row
      <4>2. c.receipt \in {"accepted", "duplicate"}
        BY <2>1, <4>1 DEF Outcome, Receipts
      <4> QED BY <2>1, <3>1, <4>2 DEF CallInv, ReceiptsHonest
    <3>2. CASE d # c.delivery
      <4>1. delivery'[d] = delivery[d]
        BY <1>1, <2>1, <3>2 DEF Complete, StoreInv, TypeOK
      <4> QED BY <2>3, <4>1 DEF CallInv, DeliveredWasProcessed
    <3> QED BY <3>1, <3>2
  <2> QED BY <2>1, <2>2, <2>3 DEF CallInv, DeliveredWasProcessed
<1>9. ASSUME NEW c \in calls, RecordFails(c) PROVE CallInv'
  <2>1. ASSUME NEW e \in calls'
        PROVE  /\ e \in Call
               /\ \E f \in calls : e.stage = f.stage /\ e.receipt = f.receipt
                                  /\ e.delivery = f.delivery
    <3>1. PICK f \in calls : e = IF c.current /\ f.replica = c.replica
                                THEN [f EXCEPT !.current = FALSE] ELSE f
      BY <1>9 DEF RecordFails
    <3> QED BY <1>1, <3>1 DEF Call
  <2>2. UNCHANGED <<allowed, processed, delivery>>
    BY <1>9 DEF RecordFails
  <2> QED BY <1>0, <2>1, <2>2 DEF CallInv, DispatcherTypeOK, ReceiptsHonest, DeliveredWasProcessed
<1>10. ASSUME NEW s \in Subscriptions, SetAllowed(s) PROVE CallInv'
  <2>1. allowed' \in [Subscriptions -> BOOLEAN]
    BY <1>10 DEF SetAllowed, CallInv, DispatcherTypeOK
  <2> QED BY <1>0, <1>10, <2>1
          DEF SetAllowed, CallInv, DispatcherTypeOK, ReceiptsHonest, DeliveredWasProcessed
<1>11. CASE Administer
  <2>1. ASSUME NEW d \in Deliveries, delivery'[d].status = "delivered"
        PROVE  delivery[d].status = "delivered"
    <3>1. CASE \E r \in Replicas, e \in Deliveries : RequeueDeadLetter(r, e)
      <4>1. PICK r \in Replicas, e \in Deliveries : RequeueDeadLetter(r, e)
        BY <3>1
      <4>2. CASE d = e
        <5>1. delivery[d] \in Row
          BY DEF StoreInv, TypeOK
        <5>2. delivery'[d] =
                [delivery[d] EXCEPT !.status = "pending", !.attempt = 0,
                   !.nextAttemptAt = Now(r), !.leaseOwner = Null, !.leaseExpiresAt = Null]
          BY <4>1, <4>2 DEF RequeueDeadLetter, StoreInv, TypeOK
        <5>3. delivery'[d].status = "pending"
          BY <5>1, <5>2 DEF Row
        <5> QED BY <2>1, <5>3
      <4>3. CASE d # e
        BY <2>1, <4>1, <4>3 DEF RequeueDeadLetter, StoreInv, TypeOK
      <4> QED BY <4>2, <4>3
    <3>2. CASE \E s \in Subscriptions, paused \in BOOLEAN : SetPaused(s, paused)
      BY <2>1, <3>2 DEF SetPaused
    <3> QED BY <1>11, <3>1, <3>2 DEF Administer
  <2>2. UNCHANGED <<calls, allowed, processed>>
    BY <1>11 DEF Administer
  <2> QED BY <1>0, <2>1, <2>2 DEF CallInv, DispatcherTypeOK, ReceiptsHonest, DeliveredWasProcessed
<1>12. CASE Time
  BY <1>0, <1>12 DEF Time, Tick, CallInv, DispatcherTypeOK, ReceiptsHonest, DeliveredWasProcessed
<1>13. CASE UNCHANGED vars
  BY <1>0, <1>13 DEF vars, CallInv, DispatcherTypeOK, ReceiptsHonest, DeliveredWasProcessed
<1> QED BY <1>2, <1>3, <1>4, <1>5, <1>6, <1>7, <1>8, <1>9, <1>10, <1>11, <1>12, <1>13
        DEF DispatcherNext

\* However many dispatchers claim, call and complete, the invariant of the store
\* and what is known of the calls under way hold together.
THEOREM DispatcherInvariant == DispatcherSpec => [](CallInv /\ StoreInv)
<1>1. DispatcherInit => CallInv /\ StoreInv
  BY CallInvInit, InitInv DEF DispatcherInit
<1>2. CallInv /\ StoreInv /\ [DispatcherNext]_vars => CallInv' /\ StoreInv'
  BY CallInvNext, StepIsStoreStep, NextInv
<1> QED BY <1>1, <1>2, PTL DEF DispatcherSpec

\* The workers use the store only as its specification allows: all that is proved
\* of Spec holds of the running dispatcher.
LEMMA DispatcherImplementsStore == DispatcherSpec => Spec
<1>1. DispatcherInit => Init
  BY DEF DispatcherInit
<1> QED BY <1>1, StepIsStoreStep, DispatcherInvariant, PTL DEF DispatcherSpec, Spec

\* The types of the composed system: rows, calls, authorizations.
THEOREM DispatcherTypesHold == DispatcherSpec => []DispatcherTypeOK
<1>1. CallInv => DispatcherTypeOK
  BY DEF CallInv
<1> QED BY <1>1, DispatcherInvariant, PTL

\* An event is marked delivered only if its plugin handled it.
THEOREM DeliveredMeansProcessed == DispatcherSpec => []DeliveredWasProcessed
<1>1. CallInv => DeliveredWasProcessed
  BY DEF CallInv
<1> QED BY <1>1, DispatcherInvariant, PTL

-----------------------------------------------------------------------------
(* The promise to the publisher                                            *)

TriedInv == CallsAreOfStored /\ LeasedIsTried

\* What a claim does to a row, as far as a publisher sees it.
LEMMA ClaimedRow ==
  ASSUME StoreInv, NEW r \in Replicas, NEW o \in ClaimOutcomes(r),
         Claim(r, ExpireLeases(Now(r)), o.probes, o.claimed), NEW d \in Deliveries
  PROVE  /\ d \in o.claimed => /\ delivery[d].status \in Outstanding
                               /\ delivery'[d].status = "delivering"
                               /\ delivery'[d].attempt = delivery[d].attempt + 1
         /\ d \notin o.claimed => /\ delivery'[d].attempt = delivery[d].attempt
                                  /\ \/ delivery'[d].status = delivery[d].status
                                     \/ /\ delivery[d].status = "delivering"
                                        /\ delivery'[d].status = "retry_wait"
<1> DEFINE rows == ExpireLeases(Now(r))
<1>1. /\ rows[d] \in Row /\ delivery[d] \in Row
      /\ \/ rows[d].status = delivery[d].status
         \/ delivery[d].status = "delivering" /\ rows[d].status = "retry_wait"
  BY ExpireLeasesFacts, NowIsNat DEF StoreInv, TypeOK
<1>2. rows[d].attempt = delivery[d].attempt
  BY <1>1 DEF ExpireLeases, Row
<1>3. d \in o.claimed => rows[d].status \in Waiting
  BY ClaimOutcomeFacts
<1>4. delivery'[d] = IF d \in o.claimed
                     THEN [rows[d] EXCEPT !.status = "delivering", !.attempt = rows[d].attempt + 1,
                                          !.leaseOwner = r, !.leaseExpiresAt = Now(r) + LeaseTime]
                     ELSE rows[d]
  BY DEF Claim
<1> HIDE DEF rows
<1>5. d \in o.claimed => /\ delivery'[d].status = "delivering"
                         /\ delivery'[d].attempt = rows[d].attempt + 1
  BY <1>1, <1>4 DEF Row
<1> QED BY <1>1, <1>2, <1>3, <1>4, <1>5 DEF Outstanding, Waiting

\* What a completion does to its row.
LEMMA CompletedRow ==
  ASSUME StoreInv, NEW r \in Replicas, NEW d \in Deliveries, NEW receipt \in Receipts,
         Complete(r, d, receipt)
  PROVE  /\ delivery[d].status = "delivering"
         /\ delivery'[d].status = Outcome(d, receipt)
         /\ delivery'[d].attempt = delivery[d].attempt
         /\ \A e \in Deliveries \ {d} : delivery'[e] = delivery[e]
<1> DEFINE status == Outcome(d, receipt)
           next   == IF status = "retry_wait" THEN Now(r) + RetryDelay(delivery[d].attempt)
                                              ELSE Now(r)
           kept   == IF ErasesPayload(status) THEN FALSE ELSE delivery[d].payload
<1>1. delivery \in [Deliveries -> Row] /\ delivery[d] \in Row
  BY DEF StoreInv, TypeOK
<1>2. delivery' = [delivery EXCEPT ![d] =
        [@ EXCEPT !.status = status, !.payload = kept,
                  !.nextAttemptAt = next, !.leaseOwner = Null, !.leaseExpiresAt = Null]]
  BY DEF Complete
<1>3. delivery[d].status = "delivering"
  BY DEF Complete, HoldsLease
<1> HIDE DEF status, next, kept
<1>4. delivery'[d].status = status /\ delivery'[d].attempt = delivery[d].attempt
  BY <1>1, <1>2 DEF Row
<1>5. \A e \in Deliveries \ {d} : delivery'[e] = delivery[e]
  BY <1>1, <1>2
<1> QED BY <1>3, <1>4, <1>5 DEF status

\* What a requeue does to its row.
LEMMA RequeuedRow ==
  ASSUME StoreInv, NEW r \in Replicas, NEW d \in Deliveries, RequeueDeadLetter(r, d)
  PROVE  /\ delivery[d].status = "dead_letter"
         /\ delivery'[d].status = "pending"
         /\ delivery'[d].attempt = 0
         /\ \A e \in Deliveries \ {d} : delivery'[e] = delivery[e]
<1> DEFINE next == Now(r)
<1>1. delivery \in [Deliveries -> Row] /\ delivery[d] \in Row
  BY DEF StoreInv, TypeOK
<1>2. delivery' = [delivery EXCEPT ![d] =
        [@ EXCEPT !.status = "pending", !.attempt = 0, !.nextAttemptAt = next,
                  !.leaseOwner = Null, !.leaseExpiresAt = Null]]
  BY DEF RequeueDeadLetter
<1> HIDE DEF next
<1>3. delivery'[d].status = "pending" /\ delivery'[d].attempt = 0
  BY <1>1, <1>2 DEF Row
<1>4. \A e \in Deliveries \ {d} : delivery'[e] = delivery[e]
  BY <1>1, <1>2
<1> QED BY <1>3, <1>4 DEF RequeueDeadLetter

\* What an enqueue does to its row.
LEMMA EnqueuedRow ==
  ASSUME StoreInv, NEW r \in Replicas, NEW d \in Deliveries, Enqueue(r, d)
  PROVE  /\ delivery[d].status = "absent"
         /\ delivery'[d].status = "pending"
         /\ delivery'[d].attempt = delivery[d].attempt
         /\ \A e \in Deliveries \ {d} : delivery'[e] = delivery[e]
<1> DEFINE now == Now(r)
<1>1. delivery \in [Deliveries -> Row] /\ delivery[d] \in Row
  BY DEF StoreInv, TypeOK
<1>2. delivery' = [delivery EXCEPT ![d] =
        [@ EXCEPT !.status = "pending", !.createdAt = now, !.nextAttemptAt = now]]
  BY DEF Enqueue
<1>3. delivery[d].status = "absent"
  BY DEF Enqueue, Known
<1> HIDE DEF now
<1>4. delivery'[d].status = "pending" /\ delivery'[d].attempt = delivery[d].attempt
  BY <1>1, <1>2 DEF Row
<1>5. \A e \in Deliveries \ {d} : delivery'[e] = delivery[e]
  BY <1>1, <1>2
<1> QED BY <1>3, <1>4, <1>5

\* Where the calls of a step come from: a step that is no claim makes none.
LEMMA CallsComeFromCalls ==
  ASSUME CallInv, [DispatcherNext]_vars, NEW e \in calls',
         \A r \in Replicas : ~RunOnce(r)
  PROVE  \E c \in calls : /\ c.delivery = e.delivery /\ c.attempt = e.attempt
                          /\ c.replica = e.replica
                          /\ e.current => c.current
<1> DEFINE Origin(c) == /\ c.delivery = e.delivery /\ c.attempt = e.attempt
                        /\ c.replica = e.replica
                        /\ e.current => c.current
<1>0. \A c \in calls : c \in Call
  BY DEF CallInv, DispatcherTypeOK
<1>1. CASE calls' \subseteq calls
  BY <1>1
<1>2. ASSUME NEW c \in calls, Authorize(c) \/ Handle(c) \/ Refuse(c) \/ Unavailable(c)
      PROVE  \E f \in calls : Origin(f)
  <2>1. \/ calls' = Replace(c, [c EXCEPT !.stage = "authorized"])
        \/ \E receipt : calls' = Replace(c, Returned(c, receipt))
    BY <1>2 DEF Authorize, Handle, Refuse, Unavailable
  <2>2. c \in Call
    BY <1>0
  <2>3. CASE calls' = Replace(c, [c EXCEPT !.stage = "authorized"])
    <3>1. e \in calls \/ e = [c EXCEPT !.stage = "authorized"]
      BY <2>3 DEF Replace
    <3>2. e \in calls \/ Origin(c)
      BY <2>2, <3>1 DEF Call
    <3> QED BY <3>2
  <2>4. ASSUME NEW receipt, calls' = Replace(c, Returned(c, receipt))
        PROVE  \E f \in calls : Origin(f)
    <3>1. e \in calls \/ e = Returned(c, receipt)
      BY <2>4 DEF Replace
    <3>2. e \in calls \/ Origin(c)
      BY <2>2, <3>1 DEF Returned, Call
    <3> QED BY <3>2
  <2> QED BY <2>1, <2>3, <2>4
<1>3. ASSUME NEW c \in calls, RecordFails(c)
      PROVE  \E f \in calls : Origin(f)
  <2>1. PICK f \in calls : e = IF c.current /\ f.replica = c.replica
                              THEN [f EXCEPT !.current = FALSE] ELSE f
    BY <1>3 DEF RecordFails
  <2>2. Origin(f)
    BY <1>0, <2>1 DEF Call
  <2> QED BY <2>2
<1>4. CASE UNCHANGED calls \/ (\E r \in Replicas : Crash(r)) \/ (\E c \in calls : Record(c))
  BY <1>4 DEF Crash, Record
<1> QED BY <1>2, <1>3, <1>4 DEF DispatcherNext, Publish, SetAllowed, Administer, Time, vars

\* A step that is no claim leases no row and returns none to "absent".
LEMMA RowsWithoutClaim ==
  ASSUME CallInv, StoreInv, [DispatcherNext]_vars, NEW d \in Deliveries,
         \A r \in Replicas : ~RunOnce(r)
  PROVE  /\ delivery[d].status # "absent" => delivery'[d].status # "absent"
         /\ delivery'[d].status = "delivering" => delivery'[d] = delivery[d]
<1> DEFINE Tame == /\ delivery[d].status # "absent" => delivery'[d].status # "absent"
                   /\ delivery'[d].status = "delivering" => delivery'[d] = delivery[d]
<1>1. ASSUME UNCHANGED delivery PROVE Tame
  BY <1>1
<1>2. ASSUME NEW r \in Replicas, NEW e \in Deliveries, Publish(r, e) PROVE Tame
  BY <1>2, EnqueuedRow DEF Publish
<1>3. ASSUME NEW c \in calls, Record(c) PROVE Tame
  <2>1. c.replica \in Replicas /\ c.delivery \in Deliveries /\ c.receipt \in Receipts
    BY <1>3 DEF Record, CallInv, DispatcherTypeOK, Call, ReceiptsHonest
  <2>2. Outcome(c.delivery, c.receipt) \in {"delivered", "dead_letter", "retry_wait"}
    BY <2>1 DEF Outcome, Receipts
  <2> QED BY <1>3, <2>1, <2>2, CompletedRow DEF Record
<1>4. ASSUME NEW r \in Replicas, NEW e \in Deliveries, RequeueDeadLetter(r, e) PROVE Tame
  BY <1>4, RequeuedRow
<1> QED BY <1>1, <1>2, <1>3, <1>4
        DEF DispatcherNext, Crash, Authorize, Handle, Refuse, Unavailable, RecordFails, SetAllowed,
            Administer, SetPaused, Time, Tick, vars

\* What the claims of a cycle do to the rows and calls.
LEMMA RunOnceFacts ==
  ASSUME CallInv, StoreInv, NEW r \in Replicas, RunOnce(r)
  PROVE  \E D \in SUBSET Deliveries :
           /\ \A d \in D : /\ delivery[d].status \in Outstanding
                           /\ delivery'[d].status = "delivering"
                           /\ delivery'[d].attempt = delivery[d].attempt + 1
                           /\ delivery'[d].leaseOwner = r
           /\ \A d \in Deliveries \ D :
                /\ delivery'[d].attempt = delivery[d].attempt
                /\ \/ delivery'[d] = delivery[d]
                   \/ delivery[d].status = "delivering" /\ delivery'[d].status = "retry_wait"
           /\ calls \subseteq calls'
           /\ \A e \in calls' \ calls : /\ e.delivery \in D /\ e.replica = r
                                        /\ e.attempt = delivery'[e.delivery].attempt
                                        /\ e.stage = "claimed"
           /\ \A c \in calls : c.replica = r => ~c.current
           /\ UNCHANGED <<clock, processed>>
<1> DEFINE rows == ExpireLeases(Now(r))
           new(d) == [replica |-> r, delivery |-> d, attempt |-> rows[d].attempt + 1,
                      stage |-> "claimed", receipt |-> Null, current |-> TRUE]
<1>1. PICK o \in ClaimOutcomes(r) : /\ Claim(r, rows, o.probes, o.claimed)
                                    /\ calls' = calls \cup {new(d) : d \in o.claimed}
  BY DEF RunOnce
<1>2. o.claimed \in SUBSET Deliveries
  BY ClaimOutcomeFacts
<1>3. ASSUME NEW d \in Deliveries
      PROVE  /\ d \in o.claimed => /\ delivery[d].status \in Outstanding
                                   /\ delivery'[d].status = "delivering"
                                   /\ delivery'[d].attempt = delivery[d].attempt + 1
             /\ d \notin o.claimed => delivery'[d].attempt = delivery[d].attempt
  BY <1>1, ClaimedRow
<1>4. ASSUME NEW d \in o.claimed PROVE delivery'[d].leaseOwner = r
  <2>1. d \in Deliveries /\ rows[d] \in Row
    BY <1>2, ExpireLeasesFacts, NowIsNat DEF StoreInv
  <2>2. delivery'[d] = [rows[d] EXCEPT !.status = "delivering", !.attempt = rows[d].attempt + 1,
                                !.leaseOwner = r, !.leaseExpiresAt = Now(r) + LeaseTime]
    BY <1>1, <2>1 DEF Claim
  <2> HIDE DEF rows
  <2> QED BY <2>1, <2>2 DEF Row
<1>5. ASSUME NEW d \in Deliveries \ o.claimed
      PROVE  \/ delivery'[d] = delivery[d]
             \/ delivery[d].status = "delivering" /\ delivery'[d].status = "retry_wait"
  <2>1. delivery'[d] = rows[d] /\ delivery[d] \in Row
    BY <1>1 DEF Claim, StoreInv, TypeOK
  <2> QED BY <2>1 DEF ExpireLeases, LeaseExpired, Row
<1>6. ASSUME NEW e \in calls', e \notin calls
      PROVE  /\ e.delivery \in o.claimed /\ e.replica = r /\ e.stage = "claimed"
             /\ e.attempt = delivery'[e.delivery].attempt
  <2>1. PICK d \in o.claimed : e = new(d)
    BY <1>1, <1>6
  <2>2. d \in Deliveries /\ delivery[d] \in Row
    BY <1>2 DEF StoreInv, TypeOK
  <2>3. rows[d].attempt = delivery[d].attempt
    BY <2>2 DEF ExpireLeases, Row
  <2> QED BY <1>3, <2>1, <2>2, <2>3
<1>7. (\A c \in calls : c.replica = r => ~c.current) /\ UNCHANGED <<clock, processed>>
  BY <1>1 DEF RunOnce, CallsOf, Claim
<1> HIDE DEF rows, new
<1>8. calls \subseteq calls'
  BY <1>1
<1> QED BY <1>2, <1>3, <1>4, <1>5, <1>6, <1>7, <1>8

\* No step returns a stored row to "absent", and none but a claim leases one.
LEMMA TriedInvNext ==
  ASSUME TriedInv, CallInv, StoreInv, [DispatcherNext]_vars
  PROVE  TriedInv'
<1>0. /\ \A d \in Deliveries : delivery[d].attempt \in Nat
      /\ \A c \in calls : c.delivery \in Deliveries
  BY DEF StoreInv, TypeOK, Row, CallInv, DispatcherTypeOK, Call
<1>1. ASSUME NEW r \in Replicas, RunOnce(r) PROVE TriedInv'
  <2>1. PICK D \in SUBSET Deliveries :
          /\ \A d \in D : /\ delivery[d].status \in Outstanding
                          /\ delivery'[d].status = "delivering"
                          /\ delivery'[d].attempt = delivery[d].attempt + 1
          /\ \A d \in Deliveries \ D :
               \/ delivery'[d] = delivery[d]
               \/ delivery[d].status = "delivering" /\ delivery'[d].status = "retry_wait"
          /\ \A e \in calls' \ calls : e.delivery \in D
    BY <1>1, RunOnceFacts
  <2>2. CallsAreOfStored'
    BY <1>0, <2>1 DEF TriedInv, CallsAreOfStored
  <2>3. LeasedIsTried'
    BY <1>0, <2>1 DEF TriedInv, LeasedIsTried
  <2> QED BY <2>2, <2>3 DEF TriedInv
<1>2. ASSUME \A r \in Replicas : ~RunOnce(r) PROVE TriedInv'
  <2>1. CallsAreOfStored'
    BY <1>0, <1>2, CallsComeFromCalls, RowsWithoutClaim DEF TriedInv, CallsAreOfStored
  <2>2. LeasedIsTried'
    BY <1>2, RowsWithoutClaim DEF TriedInv, LeasedIsTried
  <2> QED BY <2>1, <2>2 DEF TriedInv
<1> QED BY <1>1, <1>2

\* Every reachable state: calls are of stored events, leased rows have been tried.
THEOREM TriedInvariant == DispatcherSpec => []TriedInv
<1>1. DispatcherInit => TriedInv
  BY DEF DispatcherInit, Init, TriedInv, CallsAreOfStored, LeasedIsTried
<1>2. TriedInv /\ (CallInv /\ StoreInv) /\ [DispatcherNext]_vars => TriedInv'
  BY TriedInvNext
<1> QED BY <1>1, <1>2, DispatcherInvariant, PTL DEF DispatcherSpec

\* The fate of a row, status by status.
LEMMA FateOf ==
  ASSUME NEW d \in Deliveries
  PROVE  /\ delivery[d].status = "absent" => Fate(d) = "unknown"
         /\ delivery[d].status \in Outstanding => Fate(d) = "owed"
         /\ delivery[d].status = "delivered" => Fate(d) = "delivered"
         /\ delivery[d].status = "dead_letter" => Fate(d) = "given_up"
         /\ delivery'[d].status = "absent" => Fate(d)' = "unknown"
         /\ delivery'[d].status \in Outstanding => Fate(d)' = "owed"
         /\ delivery'[d].status = "delivered" => Fate(d)' = "delivered"
         /\ delivery'[d].status = "dead_letter" => Fate(d)' = "given_up"
  BY DEF Fate, Outstanding, Waiting

\* A row whose status stays on its side keeps its fate.
LEMMA FateKept ==
  ASSUME NEW d \in Deliveries,
         \/ delivery'[d].status = delivery[d].status
         \/ delivery[d].status \in Outstanding /\ delivery'[d].status \in Outstanding
  PROVE  Fate(d)' = Fate(d)
  BY DEF Fate, Outstanding, Waiting

\* Before anything is published the promise holds vacuously.
LEMMA InitPromised == DispatcherInit => Promise!DeliveryInit
<1> SUFFICES ASSUME DispatcherInit PROVE Promise!DeliveryInit
  OBVIOUS
<1>1. \A d \in Deliveries : delivery[d].status = "absent" /\ delivery[d].attempt = 0
  BY DEF DispatcherInit, Init
<1>2. \A d \in Deliveries : Fate(d) = "unknown"
  BY <1>1, FateOf
<1>3. RefusedDeliveries = {}
  BY DEF DispatcherInit, RefusedDeliveries
<1> QED BY <1>1, <1>2, <1>3 DEF DispatcherInit, Promise!DeliveryInit

\* Every step of the workers is a step the publisher was promised, or none of his
\* business.
LEMMA StepPromised ==
  ASSUME CallInv, StoreInv, TriedInv, [DispatcherNext]_vars
  PROVE  [Promise!DeliveryNext]_(Promise!deliveryVars)
<1> DEFINE fates == [d \in Deliveries |-> Fate(d)]
           tried == [d \in Deliveries |-> delivery[d].attempt]
<1>0. /\ \A d \in Deliveries : delivery[d] \in Row /\ delivery[d].attempt \in Nat
      /\ \A c \in calls : c \in Call /\ c.delivery \in Deliveries
  BY DEF StoreInv, TypeOK, Row, CallInv, DispatcherTypeOK, Call
<1>1. \A c \in calls : Fate(c.delivery) # "unknown"
  BY <1>0 DEF TriedInv, CallsAreOfStored, Fate, StoreInv, TypeOK, Row, Statuses
<1>2. ASSUME UNCHANGED <<delivery, processed, RefusedDeliveries>>
      PROVE  UNCHANGED Promise!deliveryVars
  BY <1>2 DEF Promise!deliveryVars, Fate
<1>3. ASSUME UNCHANGED <<delivery, processed>>, RefusedDeliveries' \subseteq RefusedDeliveries
      PROVE  Promise!DeliveryNext
  <2>1. UNCHANGED <<fates, tried>>
    BY <1>3 DEF Fate
  <2>2. RefusedDeliveries' = RefusedDeliveries \ (Deliveries \ RefusedDeliveries')
    BY <1>3 DEF RefusedDeliveries
  <2>3. Promise!Forget(Deliveries \ RefusedDeliveries')
    BY <1>3, <2>1, <2>2 DEF Promise!Forget
  <2>4. Deliveries \ RefusedDeliveries' \in SUBSET Deliveries
    OBVIOUS
  <2> QED BY <2>3, <2>4 DEF Promise!DeliveryNext
<1>4. ASSUME NEW r \in Replicas, NEW d \in Deliveries, Publish(r, d) PROVE Promise!DeliveryNext
  <2>1. /\ delivery[d].status = "absent" /\ delivery'[d].status = "pending"
        /\ delivery'[d].attempt = delivery[d].attempt
        /\ \A e \in Deliveries \ {d} : delivery'[e] = delivery[e]
    BY <1>4, EnqueuedRow DEF Publish
  <2>2. Fate(d) = "unknown" /\ Fate(d)' = "owed"
    BY <2>1, FateOf DEF Outstanding, Waiting
  <2>3. \A e \in Deliveries \ {d} : Fate(e)' = Fate(e)
    BY <2>1, FateKept
  <2>4. fates' = [fates EXCEPT ![d] = "owed"] /\ tried' = tried
    BY <2>1, <2>2, <2>3
  <2>5. UNCHANGED <<processed, RefusedDeliveries>>
    BY <1>4 DEF Publish, RefusedDeliveries
  <2>6. Promise!Accept(d)
    BY <2>2, <2>4, <2>5 DEF Promise!Accept
  <2> QED BY <2>6 DEF Promise!DeliveryNext
<1>5. ASSUME NEW r \in Replicas, RunOnce(r) PROVE Promise!DeliveryNext
  <2>1. PICK D \in SUBSET Deliveries :
          /\ \A d \in D : /\ delivery[d].status \in Outstanding
                          /\ delivery'[d].status = "delivering"
                          /\ delivery'[d].attempt = delivery[d].attempt + 1
          /\ \A d \in Deliveries \ D :
               /\ delivery'[d].attempt = delivery[d].attempt
               /\ \/ delivery'[d] = delivery[d]
                  \/ delivery[d].status = "delivering" /\ delivery'[d].status = "retry_wait"
          /\ calls \subseteq calls'
          /\ \A e \in calls' \ calls : e.stage = "claimed"
          /\ processed' = processed
    BY <1>5, RunOnceFacts
  <2>2. \A d \in Deliveries : Fate(d)' = Fate(d)
    BY <2>1, FateKept DEF Outstanding, Waiting
  <2>3. \A d \in D : Fate(d) = "owed"
    BY <2>1, FateOf
  <2>4. fates' = fates
    BY <2>2
  <2>5. tried' = [d \in Deliveries |-> IF d \in D THEN tried[d] + 1 ELSE tried[d]]
    BY <2>1
  <2>6. RefusedDeliveries' = RefusedDeliveries
    <3>1. \A c : c.stage = "returned" => (c \in calls' <=> c \in calls)
      BY <2>1
    <3> QED BY <3>1 DEF RefusedDeliveries
  <2>7. Promise!Try(D)
    BY <2>1, <2>3, <2>4, <2>5, <2>6 DEF Promise!Try
  <2> QED BY <2>7 DEF Promise!DeliveryNext
<1>6. ASSUME NEW r \in Replicas, Crash(r) PROVE Promise!DeliveryNext
  BY <1>3, <1>6 DEF Crash, RefusedDeliveries
<1>7. ASSUME NEW c \in calls, Authorize(c) PROVE [Promise!DeliveryNext]_(Promise!deliveryVars)
  <2>1. CASE allowed[SubOf[c.delivery]]
    <3>1. calls' = Replace(c, [c EXCEPT !.stage = "authorized"]) /\ c.stage = "claimed"
      BY <1>7, <2>1 DEF Authorize
    <3>2. [c EXCEPT !.stage = "authorized"].stage = "authorized"
      BY <1>0 DEF Call
    <3>3. RefusedDeliveries' = RefusedDeliveries
      BY <3>1, <3>2 DEF RefusedDeliveries, Replace
    <3> QED BY <1>2, <1>7, <3>3 DEF Authorize
  <2>2. CASE ~allowed[SubOf[c.delivery]]
    <3> DEFINE e == Returned(c, "permanent_rejected")
    <3>1. calls' = Replace(c, e) /\ c.stage = "claimed"
      BY <1>7, <2>2 DEF Authorize
    <3>2. /\ e.stage = "returned" /\ e.receipt = "permanent_rejected"
          /\ e.delivery = c.delivery
      BY <1>0 DEF Call, Returned
    <3> HIDE DEF e
    <3>3. RefusedDeliveries' = RefusedDeliveries \cup {c.delivery}
      BY <1>0, <3>1, <3>2 DEF RefusedDeliveries, Replace
    <3>4. UNCHANGED <<fates, tried, processed>>
      BY <1>7 DEF Authorize, Fate
    <3>5. Promise!Refused(c.delivery)
      BY <1>0, <1>1, <3>3, <3>4 DEF Promise!Refused
    <3> QED BY <1>0, <3>5 DEF Promise!DeliveryNext
  <2> QED BY <2>1, <2>2
<1>8. ASSUME NEW c \in calls, NEW receipt \in Receipts, c.stage # "returned",
             calls' = Replace(c, Returned(c, receipt)), receipt # "permanent_rejected"
      PROVE  RefusedDeliveries' = RefusedDeliveries
  <2>1. Returned(c, receipt).receipt = receipt
    BY <1>0, ReturnedIsCall
  <2> QED BY <1>8, <2>1 DEF RefusedDeliveries, Replace
<1>9. ASSUME NEW c \in calls, Handle(c) PROVE Promise!DeliveryNext
  <2>1. PICK receipt \in {"accepted", "duplicate", "retryable_rejected"} :
          calls' = Replace(c, Returned(c, receipt))
    BY <1>9 DEF Handle
  <2>2. RefusedDeliveries' = RefusedDeliveries
    BY <1>8, <1>9, <2>1 DEF Handle, Receipts
  <2>3. UNCHANGED <<fates, tried>> /\ processed' = processed \cup {c.delivery}
    BY <1>9 DEF Handle, Fate
  <2>4. Promise!Handled(c.delivery)
    BY <1>0, <1>1, <2>2, <2>3 DEF Promise!Handled
  <2> QED BY <1>0, <2>4 DEF Promise!DeliveryNext
<1>10. ASSUME NEW c \in calls, Refuse(c) \/ Unavailable(c)
       PROVE  [Promise!DeliveryNext]_(Promise!deliveryVars)
  <2>1. PICK receipt \in {"permanent_rejected", "retryable_rejected"} :
          calls' = Replace(c, Returned(c, receipt))
    BY <1>10 DEF Refuse, Unavailable
  <2>2. c.stage # "returned" /\ UNCHANGED <<delivery, processed>>
    BY <1>10 DEF Refuse, Unavailable
  <2>3. CASE receipt = "retryable_rejected"
    BY <1>2, <1>8, <2>1, <2>2, <2>3 DEF Receipts
  <2>4. CASE receipt = "permanent_rejected"
    <3> DEFINE e == Returned(c, receipt)
    <3>1. /\ e.stage = "returned" /\ e.receipt = "permanent_rejected"
          /\ e.delivery = c.delivery
      BY <1>0, <2>4 DEF Call, Returned
    <3>2. calls' = Replace(c, e)
      BY <2>1
    <3> HIDE DEF e
    <3>3. RefusedDeliveries' = RefusedDeliveries \cup {c.delivery}
      BY <1>0, <2>2, <3>1, <3>2 DEF RefusedDeliveries, Replace
    <3>4. UNCHANGED <<fates, tried, processed>>
      BY <2>2 DEF Fate
    <3>5. Promise!Refused(c.delivery)
      BY <1>0, <1>1, <3>3, <3>4 DEF Promise!Refused
    <3> QED BY <1>0, <3>5 DEF Promise!DeliveryNext
  <2> QED BY <2>3, <2>4
<1>11. ASSUME NEW c \in calls, Record(c) PROVE [Promise!DeliveryNext]_(Promise!deliveryVars)
  <2> DEFINE d == c.delivery
  <2>1. /\ c.stage = "returned" /\ c.replica \in Replicas /\ d \in Deliveries
        /\ c.receipt \in Receipts
        /\ c.receipt \in {"accepted", "duplicate"} => d \in processed
        /\ calls' = calls \ {c} /\ processed' = processed
    BY <1>11 DEF Record, CallInv, DispatcherTypeOK, Call, ReceiptsHonest
  <2>2. /\ delivery[d].status = "delivering"
        /\ delivery'[d].status = Outcome(d, c.receipt)
        /\ delivery'[d].attempt = delivery[d].attempt
        /\ \A e \in Deliveries \ {d} : delivery'[e] = delivery[e]
    BY <1>11, <2>1, CompletedRow DEF Record
  <2>3. Fate(d) = "owed" /\ delivery[d].attempt > 0
    BY <2>1, <2>2, FateOf DEF Outstanding, TriedInv, LeasedIsTried
  <2> HIDE DEF d
  <2>4. tried' = tried
    BY <2>2
  <2>5. \A e \in Deliveries \ {d} : Fate(e)' = Fate(e)
    BY <2>2, FateKept
  <2>6. RefusedDeliveries' \in {RefusedDeliveries, RefusedDeliveries \ {d}}
    BY <2>1 DEF RefusedDeliveries, d
  <2>7. c.receipt # "permanent_rejected" => RefusedDeliveries' = RefusedDeliveries
    BY <2>1 DEF RefusedDeliveries
  <2>8. CASE c.receipt \in {"accepted", "duplicate"}
    <3>1. delivery'[d].status = "delivered"
      BY <2>2, <2>8 DEF Outcome
    <3>2. fates' = [fates EXCEPT ![d] = "delivered"]
      BY <2>1, <2>5, <3>1, FateOf
    <3>3. Promise!Deliver(d)
      BY <2>1, <2>3, <2>4, <2>7, <2>8, <3>2 DEF Promise!Deliver
    <3> QED BY <2>1, <3>3 DEF Promise!DeliveryNext
  <2>9. ASSUME delivery'[d].status = "dead_letter",
               c.receipt = "permanent_rejected" \/ delivery[d].attempt >= MaxAttempts[d]
        PROVE  Promise!DeliveryNext
    <3>1. fates' = [fates EXCEPT ![d] = "given_up"]
      BY <2>1, <2>5, <2>9, FateOf
    <3>2. d \in RefusedDeliveries \/ delivery[d].attempt >= MaxAttempts[d]
      BY <2>1, <2>9 DEF RefusedDeliveries, d
    <3>3. Promise!GiveUp(d)
      BY <2>1, <2>3, <2>4, <2>6, <3>1, <3>2 DEF Promise!GiveUp
    <3> QED BY <2>1, <3>3 DEF Promise!DeliveryNext
  <2>10. CASE c.receipt = "permanent_rejected"
    BY <2>2, <2>9, <2>10 DEF Outcome
  <2>11. CASE c.receipt = "retryable_rejected" /\ delivery[d].attempt >= MaxAttempts[d]
    BY <2>2, <2>9, <2>11 DEF Outcome
  <2>12. CASE c.receipt = "retryable_rejected" /\ ~(delivery[d].attempt >= MaxAttempts[d])
    <3>1. delivery'[d].status = "retry_wait"
      BY <2>2, <2>12 DEF Outcome
    <3>2. Fate(d)' = Fate(d)
      BY <2>1, <2>2, <3>1, FateKept DEF Outstanding, Waiting
    <3>3. fates' = fates
      BY <2>5, <3>2
    <3> QED BY <2>1, <2>4, <2>7, <2>12, <3>3 DEF Promise!deliveryVars
  <2> QED BY <2>1, <2>8, <2>10, <2>11, <2>12 DEF Receipts
<1>12. ASSUME NEW c \in calls, RecordFails(c) PROVE Promise!DeliveryNext
  <2>1. \A e \in calls' : \E f \in calls :
          e.delivery = f.delivery /\ e.stage = f.stage /\ e.receipt = f.receipt
    <3>1. SUFFICES ASSUME NEW e \in calls'
                   PROVE  \E f \in calls : /\ e.delivery = f.delivery /\ e.stage = f.stage
                                           /\ e.receipt = f.receipt
      OBVIOUS
    <3>2. PICK f \in calls : e = IF c.current /\ f.replica = c.replica
                                THEN [f EXCEPT !.current = FALSE] ELSE f
      BY <1>12 DEF RecordFails
    <3> QED BY <1>0, <3>2 DEF Call
  <2>2. RefusedDeliveries' \subseteq RefusedDeliveries
    BY <2>1 DEF RefusedDeliveries
  <2> QED BY <1>3, <1>12, <2>2 DEF RecordFails
<1>13. ASSUME NEW r \in Replicas, NEW d \in Deliveries, RequeueDeadLetter(r, d),
              UNCHANGED <<calls, processed>>
       PROVE  Promise!DeliveryNext
  <2>1. /\ delivery[d].status = "dead_letter" /\ delivery'[d].status = "pending"
        /\ delivery'[d].attempt = 0
        /\ \A e \in Deliveries \ {d} : delivery'[e] = delivery[e]
    BY <1>13, RequeuedRow
  <2>2. Fate(d) = "given_up" /\ Fate(d)' = "owed"
    BY <2>1, FateOf DEF Outstanding, Waiting
  <2>3. \A e \in Deliveries \ {d} : Fate(e)' = Fate(e)
    BY <2>1, FateKept
  <2>4. fates' = [fates EXCEPT ![d] = "owed"] /\ tried' = [tried EXCEPT ![d] = 0]
    BY <2>1, <2>2, <2>3
  <2>5. UNCHANGED RefusedDeliveries
    BY <1>13 DEF RefusedDeliveries
  <2>6. Promise!Revive(d)
    BY <1>13, <2>2, <2>4, <2>5 DEF Promise!Revive
  <2> QED BY <2>6 DEF Promise!DeliveryNext
<1>14. CASE Administer
  <2>1. ASSUME NEW s \in Subscriptions, NEW paused \in BOOLEAN, SetPaused(s, paused)
        PROVE  UNCHANGED Promise!deliveryVars
    BY <1>2, <1>14, <2>1 DEF Administer, SetPaused, RefusedDeliveries
  <2> QED BY <1>13, <1>14, <2>1 DEF Administer
<1>15. CASE Time \/ (\E s \in Subscriptions : SetAllowed(s)) \/ UNCHANGED vars
  BY <1>2, <1>15 DEF Time, Tick, SetAllowed, vars, RefusedDeliveries
<1> QED BY <1>4, <1>5, <1>6, <1>7, <1>9, <1>10, <1>11, <1>12, <1>14, <1>15 DEF DispatcherNext

\* However cycles overlap and fail, answers are lost and processes die, the workers
\* keep the promise to the publisher: an accepted event is owed until its plugin has
\* handled it, has refused it, or has had all its tries.
THEOREM DispatcherKeepsPromise == DispatcherSpec => DeliveryPromise
<1>1. DispatcherInit => Promise!DeliveryInit
  BY InitPromised
<1>2. (CallInv /\ StoreInv) /\ TriedInv /\ [DispatcherNext]_vars =>
        [Promise!DeliveryNext]_(Promise!deliveryVars)
  BY StepPromised
<1> QED BY <1>1, <1>2, DispatcherInvariant, TriedInvariant, PTL
        DEF DispatcherSpec, DeliveryPromise, Promise!DeliverySpec

-----------------------------------------------------------------------------
(* However long a call takes                                               *)

\* While a cycle is awaited its replica claims nothing, so a row it holds is held for
\* the awaited call.
LEMMA AwaitedCallsHoldNext ==
  ASSUME AwaitedCallsHold, CallInv, StoreInv, [DispatcherNext]_vars
  PROVE  AwaitedCallsHold'
<1>0. \A c \in calls : c.delivery \in Deliveries
  BY DEF CallInv, DispatcherTypeOK, Call
<1>1. ASSUME NEW r \in Replicas, RunOnce(r) PROVE AwaitedCallsHold'
  <2>1. PICK D \in SUBSET Deliveries :
          /\ \A d \in D : delivery'[d].leaseOwner = r
          /\ \A d \in Deliveries \ D :
               \/ delivery'[d] = delivery[d]
               \/ delivery[d].status = "delivering" /\ delivery'[d].status = "retry_wait"
          /\ \A e \in calls' \ calls : e.attempt = delivery'[e.delivery].attempt
          /\ \A c \in calls : c.replica = r => ~c.current
    BY <1>1, RunOnceFacts
  <2> SUFFICES ASSUME NEW e \in calls', e.current, delivery'[e.delivery].status = "delivering",
                      delivery'[e.delivery].leaseOwner = e.replica
               PROVE  delivery'[e.delivery].attempt = e.attempt
    BY DEF AwaitedCallsHold
  <2>2. CASE e \notin calls
    BY <2>1, <2>2
  <2>3. CASE e \in calls
    <3>1. e.delivery \notin D
      BY <2>1, <2>3
    <3>2. delivery'[e.delivery] = delivery[e.delivery]
      BY <1>0, <2>1, <2>3, <3>1
    <3> QED BY <2>3, <3>2 DEF AwaitedCallsHold
  <2> QED BY <2>2, <2>3
<1>2. ASSUME \A r \in Replicas : ~RunOnce(r) PROVE AwaitedCallsHold'
  <2> SUFFICES ASSUME NEW e \in calls', e.current, delivery'[e.delivery].status = "delivering",
                      delivery'[e.delivery].leaseOwner = e.replica
               PROVE  delivery'[e.delivery].attempt = e.attempt
    BY DEF AwaitedCallsHold
  <2>1. PICK c \in calls : /\ c.delivery = e.delivery /\ c.attempt = e.attempt
                           /\ c.replica = e.replica /\ c.current
    BY <1>2, CallsComeFromCalls
  <2>2. delivery'[e.delivery] = delivery[e.delivery]
    BY <1>0, <1>2, <2>1, RowsWithoutClaim
  <2> QED BY <2>1, <2>2 DEF AwaitedCallsHold
<1> QED BY <1>1, <1>2

\* Whatever the lengths of calls and leases, a cycle that is still awaited records the
\* receipts of its own attempts: a late answer decides a later attempt only when a
\* failed cycle left its call behind.
THEOREM AwaitedReceiptsAreTheirOwn == DispatcherSpec => AwaitedReceiptMatches
<1>1. DispatcherInit => AwaitedCallsHold
  BY DEF DispatcherInit, AwaitedCallsHold
<1>2. AwaitedCallsHold /\ (CallInv /\ StoreInv) /\ [DispatcherNext]_vars => AwaitedCallsHold'
  BY AwaitedCallsHoldNext
<1>3. AwaitedCallsHold =>
        [\A c \in calls : Record(c) /\ c.current =>
            c.attempt = delivery[c.delivery].attempt]_vars
  BY DEF AwaitedCallsHold, Record, Complete, HoldsLease
<1> QED BY <1>1, <1>2, <1>3, DispatcherInvariant, PTL DEF DispatcherSpec, AwaitedReceiptMatches
=============================================================================
