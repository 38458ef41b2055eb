---------------------- MODULE PluginScheduleDispatcher ----------------------
(***************************************************************************)
(* PluginScheduleDeliveryCoordinatorV1 (pluginScheduleStore.ts) and        *)
(* PluginScheduleDispatcherV1 (pluginScheduleDispatcher.ts) over the       *)
(* store: every replica claims due jobs, posts each to its sidecar and     *)
(* records the answer.  Promise.all settles at the first failing complete, *)
(* so calls of an abandoned cycle may still run beside those of the next.  *)
(* Nothing bounds a call here: it may outlast its lease.                   *)
(***************************************************************************)
EXTENDS PluginScheduleStore

VARIABLE
  calls     \* ticks being delivered, one record per claimed attempt

vars == <<clock, job, executed, calls>>

\* scheduledFor stands for the deliveryId; current: the call belongs to the cycle
\* its replica is waiting for; receipt is Null until the sidecar's answer is known.
Call == [replica: Replicas, job: Jobs, attempt: Nat, scheduledFor: Nat,
         receipt: Receipts \cup {Null}, current: BOOLEAN]

\* A receipt that is still unknown is none.
ASSUME ReceiptAssumption == Null \notin Receipts

DispatcherInit ==
  /\ Init
  /\ calls = {}

-----------------------------------------------------------------------------

\* The timer fires and the previous cycle of this process has settled.
RunOnce(r) ==
  /\ \A c \in calls : c.replica = r => ~c.current
  /\ LET rows == RecoverExpiredLeases(Now(r)) IN
     \E W \in Windows(rows, Due(rows, Now(r))) :
       /\ Claim(r, rows, W)
       /\ calls' = calls \cup
            {[replica |-> r, job |-> j, attempt |-> rows[j].attempt + 1,
              scheduledFor |-> rows[j].nextRunAt,
              receipt |-> Null, current |-> TRUE] : j \in W}

Answered(c, receipt) == (calls \ {c}) \cup {[c EXCEPT !.receipt = receipt]}

\* The sidecar handles the tick, once per deliveryId; its answer may be lost.
Handle(c) ==
  /\ c.receipt = Null
  /\ \E receipt \in {"accepted", "duplicate", "retryable_rejected"} :
       calls' = Answered(c, receipt)
  /\ UNCHANGED storeVars

\* Faulty variant: the reason code is stored as the receipt.
RefuseWithReason(c) ==
  /\ c.receipt = Null
  /\ calls' = Answered(c, "delivery_unavailable")
  /\ UNCHANGED storeVars

\* The schedule is inactive or the sidecar refuses (permanent); deliver throws, a
\* timeout included, or the sidecar asks for another attempt (retryable).
Refuse(c) ==
  /\ c.receipt = Null
  /\ \E receipt \in {"permanent_rejected", "retryable_rejected"} : calls' = Answered(c, receipt)
  /\ UNCHANGED storeVars

\* Faulty variant: the outcome is written without looking at the lease again.
RecordUnfenced(c) ==
  /\ c.receipt # Null
  /\ job' = [job EXCEPT ![c.job] = Settled(c.replica, c.job, Outcome(c.job, c.receipt))]
  /\ calls' = calls \ {c}
  /\ UNCHANGED <<clock, executed>>

Record(c) ==
  /\ c.receipt # Null
  /\ Complete(c.replica, c.job, c.scheduledFor, c.receipt)
  /\ calls' = calls \ {c}

\* complete throws: the lease is lost, or the database failed.  If the cycle is
\* still awaited it ends here and the rest of its batch is abandoned.
RecordFails(c) ==
  /\ c.receipt # Null
  /\ calls' = {IF c.current /\ e.replica = c.replica
               THEN [e EXCEPT !.current = FALSE] ELSE e : e \in calls \ {c}}
  /\ UNCHANGED storeVars

\* The process dies; its leases run out.
Crash(r) ==
  /\ \E c \in calls : c.replica = r
  /\ calls' = {c \in calls : c.replica # r}
  /\ UNCHANGED storeVars

\* Commands of the plugin and of administrators.
Administer(j) ==
  /\ \/ \E k \in Commands, r \in Replicas : Upsert(r, k, j)
     \/ \E r \in Replicas : Resume(r, j)
     \/ \E k \in Commands : Cancel(k, j)
     \/ Pause(j)
  /\ UNCHANGED calls

Time == Tick /\ UNCHANGED calls

DispatcherNext ==
  \/ \E r \in Replicas : RunOnce(r) \/ Crash(r)
  \/ \E c \in calls : Handle(c) \/ Refuse(c) \/ Record(c) \/ RecordFails(c)
  \/ \E j \in Jobs : Administer(j)
  \/ Time

DispatcherSpec == DispatcherInit /\ [][DispatcherNext]_vars

-----------------------------------------------------------------------------

DispatcherTypeOK ==
  /\ TypeOK
  /\ calls \subseteq Call

\* The phase of a job, as its owner sees it.
Phase(j) ==
  CASE job[j].status = "absent"                        -> "none"
    [] job[j].status \in Waiting \cup {"delivering"} -> "active"
    [] job[j].status \in Suspended                      -> job[j].status

Verdict(receipt) ==
  CASE receipt \in {"accepted", "duplicate"} -> "done"
    [] receipt = "permanent_rejected" -> "refused"
    [] receipt = "retryable_rejected" -> "later"

PlanOf(j) == [phase |-> Phase(j), tick |-> job[j].nextRunAt, tries |-> job[j].attempt]

Sent == {<<c.job, c.scheduledFor>> : c \in {e \in calls : e.receipt = Null}}

Answers ==
  {<<c.job, c.scheduledFor, Verdict(c.receipt)>> : c \in {e \in calls : e.receipt # Null}}

Promise ==
  INSTANCE FixedSchedule
    WITH Budget <- MaxAttempts, plan <- [j \in Jobs |-> PlanOf(j)],
         sent <- Sent, answers <- Answers, obeyed <- executed

\* However leases end, calls drag on and clocks differ, a job goes on to a tick at
\* least an interval later only when its plugin has answered for the tick it stands
\* at, a tick is retried under a later time and within its attempts, and a job that
\* is suspended runs again only by a decision.
SchedulePromise == Promise!ScheduleSpec

\* Clocks that differ by less than the shortest interval.
SkewBelowInterval == \A r, q \in Replicas, j \in Jobs : Skew[r] < Skew[q] + Interval[j]

\* An attempt is owned by one replica at a time: no two calls ever carry the same
\* deliveryId, even when calls outlast their leases (needs SkewBelowInterval).
OneOwnerPerAttempt ==
  \A c, e \in calls : c.job = e.job /\ c.scheduledFor = e.scheduledFor => c = e

\* However long a call takes, the receipt that complete records is the one of the
\* attempt the row is at (needs SkewBelowInterval).
ReceiptMatchesAttempt ==
  [][\A c \in calls : Record(c) => c.attempt = job[c.job].attempt]_vars
=============================================================================
