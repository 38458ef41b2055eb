------------------------- MODULE PluginScheduleStore -------------------------
(***************************************************************************)
(* Fixed schedules of plugins: DatabasePluginScheduleStoreV1 of            *)
(* packages/backend-host/src/plugins/pluginScheduleStore.ts.               *)
(*                                                                         *)
(* A job is one row; a tick is delivered under a lease, retried with       *)
(* back-off and, once accepted, followed by the next tick an interval      *)
(* later.  Every operation is one transaction, hence one action; any       *)
(* replica may call it, with its own clock.                                *)
(***************************************************************************)
EXTENDS Integers, FiniteSets

CONSTANTS
  Jobs,           \* jobRef: hash of plugin, deployment, tenant and job type
  Commands,       \* idempotency keys that plugins use
  Replicas,       \* backend processes; leaseOwner is the workerRef of one
  Null,
  Skew,           \* how far the clock of a replica runs ahead of the slowest
  Interval,       \* intervalSeconds of a job
  MaxAttempts,    \* maxAttempts of a job, from the plugin manifest
  ClaimLimit,     \* limit of claimDue (20)
  LeaseTime,      \* leaseSeconds of claimDue (30 s)
  MaxRetryDelay,  \* MAX_RETRY_SECONDS
  MaxClock,       \* bound of the model: the last instant
  MaxRevision     \* bound of the model: revision up to which jobs are administered

ASSUME ScheduleAssumption ==
  /\ Skew \in [Replicas -> Nat]
  /\ Interval \in [Jobs -> Nat \ {0}]
  /\ MaxAttempts \in [Jobs -> Nat \ {0}]
  /\ {ClaimLimit, LeaseTime, MaxRetryDelay} \subseteq Nat \ {0}
  /\ {MaxClock, MaxRevision} \subseteq Nat
  /\ Null \notin Nat \cup Replicas

VARIABLES
  clock,     \* real time
  job,       \* plugin_scheduled_jobs
  executed   \* plugin_schedule_commands: the keys of the commands carried out

storeVars == <<clock, job, executed>>

Waiting   == {"scheduled", "retry_wait"}
Suspended == {"paused", "cancelled"}
Statuses  == Waiting \cup Suspended \cup {"absent", "delivering"}
Receipts  == {"accepted", "duplicate", "retryable_rejected", "permanent_rejected"}

Row == [status: Statuses, revision: Nat, attempt: Nat, nextRunAt: Nat,
        leaseOwner: Replicas \cup {Null}, leaseExpiresAt: Nat \cup {Null}]

Now(r) == clock + Skew[r]

Init ==
  /\ clock = 0
  /\ job = [j \in Jobs |-> [status |-> "absent", revision |-> 0, attempt |-> 0,
                            nextRunAt |-> 0, leaseOwner |-> Null, leaseExpiresAt |-> Null]]
  /\ executed = {}

Unleased(row) == [row EXCEPT !.leaseOwner = Null, !.leaseExpiresAt = Null]

-----------------------------------------------------------------------------
(* execute: a plugin's command, carried out once per idempotency key        *)

Rescheduled(r, j) ==
  [Unleased(job[j]) EXCEPT !.status = "scheduled", !.attempt = 0,
                           !.revision = job[j].revision + 1,
                           !.nextRunAt = Now(r) + Interval[j]]

Upsert(r, k, j) ==
  /\ k \notin executed
  /\ executed' = executed \cup {k}
  /\ job' = [job EXCEPT ![j] = Rescheduled(r, j)]
  /\ UNCHANGED clock

\* Also of a job that was never scheduled: its row is created cancelled.
Cancel(k, j) ==
  /\ k \notin executed
  /\ executed' = executed \cup {k}
  /\ job' = [job EXCEPT ![j] =
       [Unleased(job[j]) EXCEPT !.status = "cancelled", !.attempt = 0, !.nextRunAt = 0,
                                !.revision = job[j].revision + 1]]
  /\ UNCHANGED clock

-----------------------------------------------------------------------------
(* claimDue: recover expired leases, lease a bounded window of due jobs     *)

\* min(2^max(0, attempt-1), MAX_RETRY_SECONDS)
RetryDelay(attempt) ==
  LET exponent == IF attempt = 0 THEN 0 ELSE attempt - 1 IN
  IF 2^exponent \in 1..MaxRetryDelay THEN 2^exponent ELSE MaxRetryDelay

Exhausted(j) == job[j].attempt >= MaxAttempts[j]

LeaseExpired(j, now) == job[j].status = "delivering" /\ job[j].leaseExpiresAt <= now

\* Faulty variant: an expired lease is retried whatever its attempt number.
RecoverWithoutLimit(j, now) ==
  [Unleased(job[j]) EXCEPT !.status = "retry_wait",
                           !.nextRunAt = now + RetryDelay(job[j].attempt)]

\* Faulty variant: the tick is retried at once, under its old time.
RecoverSameTick(j, now) ==
  [Unleased(job[j]) EXCEPT !.status = IF Exhausted(j) THEN "paused" ELSE "retry_wait"]

Recover(j, now) ==
  IF Exhausted(j)
  THEN [Unleased(job[j]) EXCEPT !.status = "paused"]
  ELSE [Unleased(job[j]) EXCEPT !.status = "retry_wait",
                                !.nextRunAt = now + RetryDelay(job[j].attempt)]

RecoverExpiredLeases(now) ==
  [j \in Jobs |-> IF LeaseExpired(j, now) THEN Recover(j, now) ELSE job[j]]

Due(rows, now) ==
  {j \in Jobs : /\ rows[j].status \in Waiting
                /\ rows[j].nextRunAt <= now
                /\ rows[j].leaseExpiresAt = Null \/ rows[j].leaseExpiresAt <= now}

\* The sets of rows that ORDER BY next_run_at, created_at LIMIT may return
\* (created_at is left out: ties go either way).
Windows(rows, due) ==
  {W \in SUBSET due :
     /\ Cardinality(W) <= ClaimLimit
     /\ W # due => Cardinality(W) = ClaimLimit
     /\ \A i \in W, j \in due \ W : rows[i].nextRunAt <= rows[j].nextRunAt}

Claim(r, rows, W) ==
  /\ job' = [j \in Jobs |->
       IF j \in W
       THEN [rows[j] EXCEPT !.status = "delivering", !.attempt = rows[j].attempt + 1,
                            !.leaseOwner = r, !.leaseExpiresAt = Now(r) + LeaseTime]
       ELSE rows[j]]
  /\ UNCHANGED <<clock, executed>>

ClaimDue(r) ==
  LET rows == RecoverExpiredLeases(Now(r)) IN
  \E W \in Windows(rows, Due(rows, Now(r))) : Claim(r, rows, W)

-----------------------------------------------------------------------------
(* complete: fenced by worker, deadline and the deliveryId, the hash of     *)
(* jobRef and nextRunAt                                                     *)

\* Faulty variant: the deliveryId alone is the fence.
HoldsTickOnly(r, j, scheduledFor) == job[j].nextRunAt = scheduledFor

HoldsLease(r, j, scheduledFor) ==
  /\ job[j].status = "delivering"
  /\ job[j].leaseOwner = r
  /\ job[j].leaseExpiresAt > Now(r)
  /\ job[j].nextRunAt = scheduledFor

Outcome(j, receipt) ==
  CASE receipt \in {"accepted", "duplicate"} -> "scheduled"
    [] receipt = "permanent_rejected" -> "paused"
    [] receipt = "retryable_rejected" -> IF Exhausted(j) THEN "paused" ELSE "retry_wait"

Settled(r, j, status) ==
  [Unleased(job[j]) EXCEPT
     !.status = status,
     !.revision = job[j].revision + 1,
     !.attempt = IF status = "scheduled" THEN 0 ELSE job[j].attempt,
     !.nextRunAt = CASE status = "scheduled" -> Now(r) + Interval[j]
                     [] status = "retry_wait" -> Now(r) + RetryDelay(job[j].attempt)
                     [] status = "paused" -> job[j].nextRunAt]

Complete(r, j, scheduledFor, receipt) ==
  /\ HoldsLease(r, j, scheduledFor)
  /\ job' = [job EXCEPT ![j] = Settled(r, j, Outcome(j, receipt))]
  /\ UNCHANGED <<clock, executed>>

-----------------------------------------------------------------------------
(* setPaused, with the revision that the row has                            *)

Administrable(j) ==
  /\ job[j].status \notin {"absent", "cancelled"}
  /\ job[j].revision < MaxRevision

Paused(j) ==
  [Unleased(job[j]) EXCEPT !.status = "paused", !.revision = job[j].revision + 1]

Pause(j) ==
  /\ Administrable(j)
  /\ job' = [job EXCEPT ![j] = Paused(j)]
  /\ UNCHANGED <<clock, executed>>

\* Of any job that is not cancelled, one that is being delivered included.
Resume(r, j) ==
  /\ Administrable(j)
  /\ job' = [job EXCEPT ![j] = Rescheduled(r, j)]
  /\ UNCHANGED <<clock, executed>>

Tick ==
  /\ clock < MaxClock
  /\ clock' = clock + 1
  /\ UNCHANGED <<job, executed>>

Next ==
  \/ \E j \in Jobs :
       \/ Pause(j)
       \/ \E k \in Commands : Cancel(k, j)
       \/ \E r \in Replicas :
            \/ Resume(r, j)
            \/ \E k \in Commands : Upsert(r, k, j)
            \/ \E receipt \in Receipts : Complete(r, j, job[j].nextRunAt, receipt)
  \/ \E r \in Replicas : ClaimDue(r)
  \/ Tick

Spec == Init /\ [][Next]_storeVars

-----------------------------------------------------------------------------
(* Properties                                                              *)

TypeOK ==
  /\ clock \in Nat
  /\ job \in [Jobs -> Row]
  /\ executed \subseteq Commands

\* A row carries a lease exactly while it is being delivered, although commands
\* and administrators may take a job away in the middle of a delivery.
LeaseIffDelivering ==
  \A j \in Jobs :
    /\ job[j].status = "delivering" <=> job[j].leaseOwner # Null
    /\ job[j].status = "delivering" <=> job[j].leaseExpiresAt # Null

\* No tick is attempted more often than its manifest allows, however its leases
\* end: a job that still waits has an attempt left.
AttemptsWithinPolicy ==
  \A j \in Jobs :
    /\ job[j].attempt <= MaxAttempts[j]
    /\ job[j].status \in Waiting => job[j].attempt < MaxAttempts[j]

\* A paused or cancelled job runs again only by a decision: an upsert, or the
\* resumption of a paused one.  Completions and recoveries that were under way
\* when it was suspended never bring it back.
SuspensionHolds ==
  [][\A j \in Jobs : job[j].status \in Suspended /\ job'[j].status \notin Suspended =>
       /\ job'[j].status = "scheduled"
       /\ job'[j].revision > job[j].revision
       /\ job'[j].attempt = 0
       /\ job[j].status = "cancelled" => executed' # executed]_storeVars
=============================================================================
