------------------------ MODULE PluginScheduleProofs ------------------------
(***************************************************************************)
(* The dispatcher implements the store's specification; no job is          *)
(* attempted more often than its policy allows and a suspended one stays   *)
(* suspended; and with clocks that differ by less than the shortest        *)
(* interval, no two calls carry one deliveryId and the receipt that is     *)
(* recorded belongs to the attempt, however long a call outlasts its lease.*)
(***************************************************************************)
EXTENDS PluginScheduleDispatcher, FiniteSetTheorems, TLAPS

-----------------------------------------------------------------------------
(* Rows                                                                     *)

\* A leased tick was due before its lease began.
LeaseAfterTick ==
  \A j \in Jobs : job[j].status = "delivering" => job[j].leaseExpiresAt > job[j].nextRunAt

\* A leased tick is due by the clock of its owner.
TickDue ==
  \A j \in Jobs : job[j].status = "delivering" => job[j].nextRunAt <= Now(job[j].leaseOwner)

\* The attempt a lease was taken for has been counted.
LeasedIsTried ==
  \A j \in Jobs : job[j].status = "delivering" => job[j].attempt > 0

StoreInv ==
  /\ TypeOK /\ LeaseIffDelivering /\ AttemptsWithinPolicy
  /\ LeaseAfterTick /\ TickDue /\ LeasedIsTried

\* What the invariant says of the row of one job.
RowOK(j, row) ==
  /\ row \in Row
  /\ row.status = "delivering" <=> row.leaseOwner # Null
  /\ row.status = "delivering" <=> row.leaseExpiresAt # Null
  /\ row.attempt <= MaxAttempts[j]
  /\ row.status \in Waiting => row.attempt < MaxAttempts[j]
  /\ row.status = "delivering" => row.leaseExpiresAt > row.nextRunAt
  /\ row.status = "delivering" => row.nextRunAt <= Now(row.leaseOwner)
  /\ row.status = "delivering" => row.attempt > 0

\* What a step that leaves the clock alone may do to the row of one job: nothing,
\* suspend it, schedule it anew, give up or retry a delivery at a later time, or
\* lease a waiting tick under its time.
RowChange(j) ==
  \/ job'[j] = job[j]
  \/ job'[j].status \in Suspended
  \/ /\ job'[j].status = "scheduled" /\ job'[j].attempt = 0
     /\ job'[j].revision = job[j].revision + 1
     /\ job[j].status = "cancelled" => executed' # executed
     /\ \E q \in Replicas : job'[j].nextRunAt = Now(q) + Interval[j]
  \/ /\ job[j].status = "delivering" /\ job'[j].status \notin Suspended
     /\ job'[j].nextRunAt > job[j].nextRunAt
  \/ /\ job[j].status \in Waiting /\ job'[j].status = "delivering"
     /\ job'[j].nextRunAt = job[j].nextRunAt

LEMMA StoreInvByRow ==
  ASSUME StoreInv
  PROVE  job = [j \in Jobs |-> job[j]] /\ \A j \in Jobs : RowOK(j, job[j])
  BY DEF StoreInv, TypeOK, LeaseIffDelivering, AttemptsWithinPolicy, LeaseAfterTick, TickDue,
         LeasedIsTried, RowOK

LEMMA StoreInvNext ==
  ASSUME StoreInv, clock' = clock, executed' \subseteq Commands,
         job' = [j \in Jobs |-> job'[j]], \A j \in Jobs : RowOK(j, job'[j])
  PROVE  StoreInv'
<1>1. TypeOK'
  BY DEF StoreInv, TypeOK, RowOK
<1>2. LeaseIffDelivering' /\ AttemptsWithinPolicy' /\ LeaseAfterTick' /\ LeasedIsTried'
  BY DEF LeaseIffDelivering, AttemptsWithinPolicy, LeaseAfterTick, LeasedIsTried, RowOK
<1>3. TickDue'
  BY DEF TickDue, RowOK, Now
<1> QED BY <1>1, <1>2, <1>3 DEF StoreInv

LEMMA NowIsNat == TypeOK => \A r \in Replicas : Now(r) \in Nat
  BY ScheduleAssumption DEF TypeOK, Now

LEMMA UnleasedFacts ==
  ASSUME NEW row \in Row
  PROVE  LET e == Unleased(row) IN
         /\ e \in Row /\ e.leaseOwner = Null /\ e.leaseExpiresAt = Null
         /\ e.status = row.status /\ e.attempt = row.attempt /\ e.nextRunAt = row.nextRunAt
         /\ e.revision = row.revision
  BY DEF Unleased, Row

\* The back-off is at least a second.
LEMMA DelayFacts == ASSUME NEW n \in Nat PROVE RetryDelay(n) \in Nat \ {0}
<1> DEFINE e == IF n = 0 THEN 0 ELSE n - 1
           p == 2^e
<1>1. RetryDelay(n) = IF p \in 1..MaxRetryDelay THEN p ELSE MaxRetryDelay
  BY DEF RetryDelay
<1> HIDE DEF p
<1> QED BY <1>1, ScheduleAssumption

LEMMA RescheduledFacts ==
  ASSUME StoreInv, NEW r \in Replicas, NEW j \in Jobs
  PROVE  LET e == Rescheduled(r, j) IN
         /\ RowOK(j, e)
         /\ e.status = "scheduled" /\ e.attempt = 0 /\ e.nextRunAt = Now(r) + Interval[j]
         /\ e.revision = job[j].revision + 1
<1> DEFINE u == Unleased(job[j])
<1>1. job[j] \in Row /\ Now(r) + Interval[j] \in Nat /\ job[j].revision + 1 \in Nat
  BY NowIsNat, ScheduleAssumption DEF StoreInv, TypeOK, Row
<1>2. u \in Row /\ u.leaseOwner = Null /\ u.leaseExpiresAt = Null
  BY <1>1, UnleasedFacts
<1>3. Rescheduled(r, j) = [u EXCEPT !.status = "scheduled", !.attempt = 0,
                                    !.revision = job[j].revision + 1,
                                    !.nextRunAt = Now(r) + Interval[j]]
  BY DEF Rescheduled
<1> DEFINE e == Rescheduled(r, j)
           v == job[j].revision + 1
           t == Now(r) + Interval[j]
<1>a. v \in Nat /\ t \in Nat /\ e = [u EXCEPT !.status = "scheduled", !.attempt = 0,
                                         !.revision = v, !.nextRunAt = t]
  BY <1>1, <1>3
<1>4. /\ e \in Row /\ e.status = "scheduled" /\ e.attempt = 0
      /\ e.nextRunAt = t /\ e.revision = v
      /\ e.leaseOwner = Null /\ e.leaseExpiresAt = Null
  <2> HIDE DEF u, e, v, t
  <2> QED BY <1>2, <1>a DEF Row, Statuses, Waiting
<1> HIDE DEF u
<1>5. MaxAttempts[j] \in Nat \ {0}
  BY ScheduleAssumption
<1> HIDE DEF e
<1>6. RowOK(j, e)
  BY <1>4, <1>5 DEF RowOK
<1> QED BY <1>4, <1>6 DEF e

LEMMA RecoverFacts ==
  ASSUME StoreInv, NEW j \in Jobs, NEW now \in Nat, LeaseExpired(j, now)
  PROVE  LET e == Recover(j, now) IN
         /\ RowOK(j, e)
         /\ e.status \in {"paused", "retry_wait"}
         /\ e.attempt = job[j].attempt /\ e.revision = job[j].revision
         /\ e.status = "retry_wait" =>
              e.nextRunAt > job[j].nextRunAt /\ e.nextRunAt > now /\ e.attempt < MaxAttempts[j]
         /\ e.status = "paused" =>
              e.nextRunAt = job[j].nextRunAt /\ e.attempt = MaxAttempts[j]
<1> DEFINE u == Unleased(job[j])
           e == Recover(j, now)
<1>1. /\ job[j] \in Row /\ job[j].attempt \in Nat /\ job[j].attempt <= MaxAttempts[j]
      /\ MaxAttempts[j] \in Nat /\ job[j].nextRunAt \in Nat
  BY ScheduleAssumption DEF StoreInv, TypeOK, AttemptsWithinPolicy, Row
<1>2. /\ u \in Row /\ u.leaseOwner = Null /\ u.leaseExpiresAt = Null
      /\ u.attempt = job[j].attempt /\ u.revision = job[j].revision
      /\ u.nextRunAt = job[j].nextRunAt
  BY <1>1, UnleasedFacts
<1>3. RetryDelay(job[j].attempt) \in Nat \ {0}
  BY <1>1, DelayFacts
<1>4. now >= job[j].leaseExpiresAt /\ job[j].leaseExpiresAt > job[j].nextRunAt
      /\ job[j].leaseExpiresAt \in Nat
  BY <1>1 DEF LeaseExpired, StoreInv, LeaseAfterTick, LeaseIffDelivering, Row
<1>5. /\ now + RetryDelay(job[j].attempt) \in Nat
      /\ now + RetryDelay(job[j].attempt) > job[j].nextRunAt
      /\ now + RetryDelay(job[j].attempt) > now
  BY <1>1, <1>3, <1>4
<1>6. CASE Exhausted(j)
  <2>1. e = [u EXCEPT !.status = "paused"]
    BY <1>6 DEF Recover
  <2>2. job[j].attempt = MaxAttempts[j]
    BY <1>1, <1>6 DEF Exhausted
  <2> HIDE DEF u, e
  <2>3. /\ e \in Row /\ e.status = "paused" /\ e.attempt = job[j].attempt
        /\ e.leaseOwner = Null /\ e.leaseExpiresAt = Null /\ e.revision = job[j].revision
        /\ e.nextRunAt = job[j].nextRunAt
    BY <1>2, <2>1 DEF Row, Statuses, Suspended
  <2>4. RowOK(j, e)
    BY <1>1, <2>3 DEF RowOK, Waiting
  <2> QED BY <2>2, <2>3, <2>4 DEF e
<1>7. CASE ~Exhausted(j)
  <2>1. e = [u EXCEPT !.status = "retry_wait", !.nextRunAt = now + RetryDelay(job[j].attempt)]
    BY <1>7 DEF Recover
  <2>2. job[j].attempt < MaxAttempts[j]
    BY <1>1, <1>7 DEF Exhausted
  <2> HIDE DEF u, e
  <2>3. /\ e \in Row /\ e.status = "retry_wait" /\ e.attempt = job[j].attempt
        /\ e.leaseOwner = Null /\ e.leaseExpiresAt = Null /\ e.revision = job[j].revision
        /\ e.nextRunAt = now + RetryDelay(job[j].attempt)
    BY <1>2, <1>5, <2>1 DEF Row, Statuses, Waiting
  <2>4. RowOK(j, e)
    BY <1>1, <2>2, <2>3 DEF RowOK
  <2> QED BY <1>5, <2>2, <2>3, <2>4 DEF e
<1> QED BY <1>6, <1>7

LEMMA RecoveredFacts ==
  ASSUME StoreInv, NEW now \in Nat
  PROVE  /\ RecoverExpiredLeases(now) = [j \in Jobs |-> RecoverExpiredLeases(now)[j]]
         /\ \A j \in Jobs :
              LET e == RecoverExpiredLeases(now)[j] IN
              /\ RowOK(j, e)
              /\ \/ ~LeaseExpired(j, now) /\ e = job[j]
                 \/ LeaseExpired(j, now) /\ e = Recover(j, now)
  BY RecoverFacts
     DEF RecoverExpiredLeases, StoreInv, TypeOK, LeaseIffDelivering, AttemptsWithinPolicy,
         LeaseAfterTick, TickDue, LeasedIsTried, RowOK

-----------------------------------------------------------------------------
(* The steps of the store                                                   *)

\* What is shown of every step that leaves the clock alone.
RowsKept == StoreInv' /\ \A j \in Jobs : RowChange(j)

\* A step that writes one row.
LEMMA OneRow ==
  ASSUME StoreInv, NEW j \in Jobs, NEW e, job' = [job EXCEPT ![j] = e], RowOK(j, e),
         clock' = clock, executed' \subseteq Commands, RowChange(j)
  PROVE  RowsKept
<1>1. job = [i \in Jobs |-> job[i]] /\ \A i \in Jobs : RowOK(i, job[i])
  BY StoreInvByRow
<1>2. job' = [i \in Jobs |-> job'[i]] /\ \A i \in Jobs : job'[i] = IF i = j THEN e ELSE job[i]
  BY <1>1
<1>3. \A i \in Jobs : RowOK(i, job'[i])
  BY <1>1, <1>2
<1>4. StoreInv'
  BY <1>2, <1>3, StoreInvNext
<1>5. \A i \in Jobs : RowChange(i)
  BY <1>2 DEF RowChange
<1> QED BY <1>4, <1>5 DEF RowsKept

LEMMA RowWritten ==
  ASSUME StoreInv, NEW j \in Jobs, NEW e, job' = [job EXCEPT ![j] = e]
  PROVE  job'[j] = e
  BY DEF StoreInv, TypeOK

LEMMA UpsertKeeps ==
  ASSUME StoreInv, NEW r \in Replicas, NEW k \in Commands, NEW j \in Jobs, Upsert(r, k, j)
  PROVE  RowsKept
<1> DEFINE e == Rescheduled(r, j)
<1>1. /\ RowOK(j, e) /\ e.status = "scheduled" /\ e.attempt = 0
      /\ e.nextRunAt = Now(r) + Interval[j] /\ e.revision = job[j].revision + 1
  BY RescheduledFacts
<1>2. job' = [job EXCEPT ![j] = e] /\ clock' = clock
  BY DEF Upsert
<1>3. executed' \subseteq Commands /\ executed' # executed
  BY DEF Upsert, StoreInv, TypeOK
<1> HIDE DEF e
<1>4. job'[j] = e
  BY <1>2, RowWritten
<1>5. RowChange(j)
  BY <1>1, <1>3, <1>4 DEF RowChange
<1> QED BY <1>1, <1>2, <1>3, <1>5, OneRow

LEMMA ResumeKeeps ==
  ASSUME StoreInv, NEW r \in Replicas, NEW j \in Jobs, Resume(r, j)
  PROVE  RowsKept
<1> DEFINE e == Rescheduled(r, j)
<1>1. /\ RowOK(j, e) /\ e.status = "scheduled" /\ e.attempt = 0
      /\ e.nextRunAt = Now(r) + Interval[j] /\ e.revision = job[j].revision + 1
  BY RescheduledFacts
<1>2. job' = [job EXCEPT ![j] = e] /\ clock' = clock /\ job[j].status # "cancelled"
  BY DEF Resume, Administrable
<1>3. executed' \subseteq Commands
  BY DEF Resume, StoreInv, TypeOK
<1> HIDE DEF e
<1>4. job'[j] = e
  BY <1>2, RowWritten
<1>5. RowChange(j)
  BY <1>1, <1>2, <1>4 DEF RowChange
<1> QED BY <1>1, <1>2, <1>3, <1>5, OneRow

LEMMA CancelKeeps ==
  ASSUME StoreInv, NEW k \in Commands, NEW j \in Jobs, Cancel(k, j)
  PROVE  RowsKept
<1> DEFINE u == Unleased(job[j])
           v == job[j].revision + 1
           e == [u EXCEPT !.status = "cancelled", !.attempt = 0, !.nextRunAt = 0, !.revision = v]
<1>1. job[j] \in Row /\ v \in Nat /\ MaxAttempts[j] \in Nat \ {0}
  BY ScheduleAssumption DEF StoreInv, TypeOK, Row
<1>2. u \in Row /\ u.leaseOwner = Null /\ u.leaseExpiresAt = Null
  BY <1>1, UnleasedFacts
<1>3. job' = [job EXCEPT ![j] = e] /\ clock' = clock /\ executed' \subseteq Commands
  BY DEF Cancel, StoreInv, TypeOK
<1>4. /\ e \in Row /\ e.status = "cancelled" /\ e.attempt = 0
      /\ e.leaseOwner = Null /\ e.leaseExpiresAt = Null
  <2> HIDE DEF u, v
  <2> QED BY <1>1, <1>2 DEF Row, Statuses, Suspended
<1> HIDE DEF e
<1>5. RowOK(j, e)
  BY <1>1, <1>4 DEF RowOK
<1>6. RowChange(j)
  BY <1>3, <1>4, RowWritten DEF RowChange, Suspended
<1> QED BY <1>3, <1>5, <1>6, OneRow

LEMMA PauseKeeps ==
  ASSUME StoreInv, NEW j \in Jobs, Pause(j)
  PROVE  RowsKept
<1> DEFINE u == Unleased(job[j])
           v == job[j].revision + 1
           e == Paused(j)
<1>1. job[j] \in Row /\ v \in Nat /\ RowOK(j, job[j])
  BY StoreInvByRow DEF StoreInv, TypeOK, Row
<1>2. u \in Row /\ u.leaseOwner = Null /\ u.leaseExpiresAt = Null /\ u.attempt = job[j].attempt
  BY <1>1, UnleasedFacts
<1>3. job' = [job EXCEPT ![j] = e] /\ clock' = clock /\ executed' \subseteq Commands
  BY DEF Pause, StoreInv, TypeOK
<1>4. e = [u EXCEPT !.status = "paused", !.revision = v]
  BY DEF Paused
<1> HIDE DEF u, v, e
<1>5. /\ e \in Row /\ e.status = "paused" /\ e.attempt = job[j].attempt
      /\ e.leaseOwner = Null /\ e.leaseExpiresAt = Null
  BY <1>1, <1>2, <1>4 DEF Row, Statuses, Suspended
<1>6. RowOK(j, e)
  BY <1>1, <1>5 DEF RowOK, Waiting
<1>7. RowChange(j)
  BY <1>3, <1>5, RowWritten DEF RowChange, Suspended
<1> QED BY <1>3, <1>6, <1>7, OneRow

\* What complete makes of the row: the tick is followed by the next one, an interval
\* after the time of the recorder; or put off; or the job is paused where it is.
LEMMA SettledFacts ==
  ASSUME StoreInv, NEW r \in Replicas, NEW j \in Jobs, NEW t, NEW receipt \in Receipts,
         Complete(r, j, t, receipt)
  PROVE  LET e == Settled(r, j, Outcome(j, receipt)) IN
         /\ job' = [job EXCEPT ![j] = e] /\ clock' = clock /\ executed' = executed
         /\ RowOK(j, e)
         /\ job[j].status = "delivering" /\ job[j].nextRunAt = t /\ job[j].nextRunAt <= Now(r)
         /\ e.status = Outcome(j, receipt) /\ e.status \in {"scheduled", "retry_wait", "paused"}
         /\ e.revision = job[j].revision + 1
         /\ e.status = "scheduled" => e.attempt = 0 /\ e.nextRunAt = Now(r) + Interval[j]
         /\ e.status # "scheduled" => e.attempt = job[j].attempt
         /\ e.status = "retry_wait" => e.nextRunAt > job[j].nextRunAt /\ e.attempt < MaxAttempts[j]
         /\ e.status = "paused" => e.nextRunAt = job[j].nextRunAt
<1> DEFINE u == Unleased(job[j])
           status == Outcome(j, receipt)
           attempt == IF status = "scheduled" THEN 0 ELSE job[j].attempt
           next == CASE status = "scheduled" -> Now(r) + Interval[j]
                     [] status = "retry_wait" -> Now(r) + RetryDelay(job[j].attempt)
                     [] status = "paused" -> job[j].nextRunAt
           v == job[j].revision + 1
           e == Settled(r, j, status)
<1>1. /\ job[j] \in Row /\ v \in Nat /\ job[j].attempt \in Nat /\ job[j].nextRunAt \in Nat
      /\ RowOK(j, job[j])
  BY StoreInvByRow DEF StoreInv, TypeOK, Row
<1>2. u \in Row /\ u.leaseOwner = Null /\ u.leaseExpiresAt = Null
  BY <1>1, UnleasedFacts
<1>3. job' = [job EXCEPT ![j] = e] /\ clock' = clock /\ executed' = executed
  BY DEF Complete
<1>4. e = [u EXCEPT !.status = status, !.revision = v, !.attempt = attempt, !.nextRunAt = next]
  BY DEF Settled
<1>5. /\ status \in {"scheduled", "retry_wait", "paused"}
      /\ status = "retry_wait" => ~Exhausted(j)
  BY DEF Outcome, Receipts
<1>6. /\ Now(r) \in Nat /\ Interval[j] \in Nat \ {0} /\ RetryDelay(job[j].attempt) \in Nat \ {0}
      /\ MaxAttempts[j] \in Nat \ {0}
  BY <1>1, NowIsNat, DelayFacts, ScheduleAssumption DEF StoreInv
<1>7. job[j].status = "delivering" /\ job[j].nextRunAt <= Now(r) /\ job[j].nextRunAt = t
  BY DEF Complete, HoldsLease, StoreInv, TickDue
<1>8. /\ next \in Nat
      /\ status = "scheduled" => next = Now(r) + Interval[j]
      /\ status = "retry_wait" => next > job[j].nextRunAt
      /\ status = "paused" => next = job[j].nextRunAt
  <2> HIDE DEF status
  <2> QED BY <1>1, <1>5, <1>6, <1>7
<1>9. /\ attempt \in Nat /\ attempt <= MaxAttempts[j]
      /\ status = "scheduled" => attempt = 0
      /\ status # "scheduled" => attempt = job[j].attempt
      /\ status \in Waiting => attempt < MaxAttempts[j]
  <2> HIDE DEF status
  <2> QED BY <1>1, <1>5, <1>6 DEF RowOK, Waiting, Exhausted
<1> HIDE DEF u, status, attempt, next, v, e
<1>10. /\ e \in Row /\ e.status = status /\ e.attempt = attempt /\ e.nextRunAt = next
       /\ e.revision = v /\ e.leaseOwner = Null /\ e.leaseExpiresAt = Null
  BY <1>1, <1>2, <1>4, <1>5, <1>8, <1>9 DEF Row, Statuses, Suspended, Waiting
<1>11. RowOK(j, e)
  BY <1>5, <1>9, <1>10 DEF RowOK
<1>12. /\ e.status = "scheduled" => e.attempt = 0 /\ e.nextRunAt = Now(r) + Interval[j]
       /\ e.status # "scheduled" => e.attempt = job[j].attempt
       /\ e.status = "retry_wait" => e.nextRunAt > job[j].nextRunAt /\ e.attempt < MaxAttempts[j]
       /\ e.status = "paused" => e.nextRunAt = job[j].nextRunAt
  BY <1>8, <1>9, <1>10 DEF Waiting
<1> QED BY <1>3, <1>5, <1>7, <1>10, <1>11, <1>12 DEF e, status, v

LEMMA CompleteKeeps ==
  ASSUME StoreInv, NEW r \in Replicas, NEW j \in Jobs, NEW t, NEW receipt \in Receipts,
         Complete(r, j, t, receipt)
  PROVE  RowsKept
<1> DEFINE e == Settled(r, j, Outcome(j, receipt))
<1>1. /\ job' = [job EXCEPT ![j] = e] /\ clock' = clock /\ executed' = executed
      /\ RowOK(j, e) /\ job[j].status = "delivering"
      /\ e.status \in {"scheduled", "retry_wait", "paused"} /\ e.revision = job[j].revision + 1
      /\ e.status = "scheduled" => e.attempt = 0 /\ e.nextRunAt = Now(r) + Interval[j]
      /\ e.status = "retry_wait" => e.nextRunAt > job[j].nextRunAt
  BY SettledFacts
<1> HIDE DEF e
<1>2. job'[j] = e /\ executed' \subseteq Commands
  BY <1>1, RowWritten DEF StoreInv, TypeOK
<1>3. RowChange(j)
  BY <1>1, <1>2 DEF RowChange, Suspended
<1> QED BY <1>1, <1>2, <1>3, OneRow

\* What a claim makes of the rows: those of the window are leased under the tick
\* they have after the recovery, the others are as the recovery leaves them.
LEMMA ClaimFacts ==
  ASSUME StoreInv, NEW r \in Replicas,
         NEW W, W \in Windows(RecoverExpiredLeases(Now(r)), Due(RecoverExpiredLeases(Now(r)), Now(r))),
         Claim(r, RecoverExpiredLeases(Now(r)), W)
  PROVE  LET rows == RecoverExpiredLeases(Now(r)) IN
         /\ W \subseteq Jobs
         /\ \A j \in Jobs : j \notin W => job'[j] = rows[j]
         /\ \A j \in W :
              /\ rows[j].status \in Waiting /\ rows[j].nextRunAt <= Now(r)
              /\ rows[j].nextRunAt \in Nat /\ rows[j].attempt + 1 \in Nat
              /\ RowOK(j, job'[j])
              /\ job'[j].status = "delivering" /\ job'[j].leaseOwner = r
              /\ job'[j].attempt = rows[j].attempt + 1
              /\ job'[j].nextRunAt = rows[j].nextRunAt
         /\ job' = [j \in Jobs |-> job'[j]]
         /\ clock' = clock /\ executed' = executed
<1> DEFINE rows == RecoverExpiredLeases(Now(r))
           L(j) == [rows[j] EXCEPT !.status = "delivering", !.attempt = rows[j].attempt + 1,
                                   !.leaseOwner = r, !.leaseExpiresAt = Now(r) + LeaseTime]
<1>1. Now(r) \in Nat /\ Now(r) + LeaseTime \in Nat /\ Now(r) + LeaseTime > Now(r) /\ r # Null
      /\ Now(r) + LeaseTime # Null
  BY NowIsNat, ScheduleAssumption DEF StoreInv
<1>2. \A j \in Jobs : RowOK(j, rows[j])
  BY <1>1, RecoveredFacts
<1>3. /\ W \subseteq Jobs
      /\ \A j \in W : rows[j].status \in Waiting /\ rows[j].nextRunAt <= Now(r)
  BY DEF Windows, Due
<1>4. /\ job' = [j \in Jobs |-> IF j \in W THEN L(j) ELSE rows[j]]
      /\ clock' = clock /\ executed' = executed
  BY DEF Claim
<1>5. \A j \in W : /\ rows[j].nextRunAt \in Nat /\ rows[j].attempt + 1 \in Nat
                   /\ rows[j].attempt + 1 <= MaxAttempts[j] /\ rows[j].attempt + 1 > 0
                   /\ rows[j] \in Row
  BY <1>2, <1>3, ScheduleAssumption DEF RowOK, Row
<1> HIDE DEF rows
<1>6. ASSUME NEW j \in W
      PROVE  /\ L(j) \in Row /\ L(j).status = "delivering" /\ L(j).leaseOwner = r
             /\ L(j).leaseExpiresAt = Now(r) + LeaseTime
             /\ L(j).attempt = rows[j].attempt + 1 /\ L(j).nextRunAt = rows[j].nextRunAt
  <2> DEFINE o == rows[j]
             a == rows[j].attempt + 1
             x == Now(r) + LeaseTime
  <2>1. o \in Row /\ a \in Nat /\ x \in Nat
    BY <1>1, <1>5
  <2>2. L(j) = [o EXCEPT !.status = "delivering", !.attempt = a, !.leaseOwner = r,
                         !.leaseExpiresAt = x]
    OBVIOUS
  <2> HIDE DEF o, a, x, L
  <2>3. /\ L(j) \in Row /\ L(j).status = "delivering" /\ L(j).leaseOwner = r
        /\ L(j).leaseExpiresAt = x /\ L(j).attempt = a /\ L(j).nextRunAt = o.nextRunAt
    BY <2>1, <2>2 DEF Row, Statuses
  <2> QED BY <2>3 DEF o, a, x
<1>7. \A j \in W : job'[j] = L(j)
  BY <1>3, <1>4
<1>8. \A j \in Jobs : j \notin W => job'[j] = rows[j]
  BY <1>4
<1> HIDE DEF L
<1>9. ASSUME NEW j \in W
      PROVE  RowOK(j, L(j))
  BY <1>1, <1>3, <1>5, <1>6 DEF RowOK, Waiting
<1>10. job' = [j \in Jobs |-> job'[j]]
  BY <1>4
<1> QED BY <1>3, <1>4, <1>5, <1>6, <1>7, <1>8, <1>9, <1>10 DEF rows

LEMMA ClaimKeeps ==
  ASSUME StoreInv, NEW r \in Replicas,
         NEW W, W \in Windows(RecoverExpiredLeases(Now(r)), Due(RecoverExpiredLeases(Now(r)), Now(r))),
         Claim(r, RecoverExpiredLeases(Now(r)), W)
  PROVE  RowsKept
<1> DEFINE rows == RecoverExpiredLeases(Now(r))
<1>1. Now(r) \in Nat
  BY NowIsNat DEF StoreInv
<1>2. \A j \in Jobs : /\ RowOK(j, rows[j])
                      /\ \/ rows[j] = job[j]
                         \/ LeaseExpired(j, Now(r)) /\ rows[j] = Recover(j, Now(r))
  BY <1>1, RecoveredFacts
<1>3. /\ W \subseteq Jobs
      /\ \A j \in Jobs : j \notin W => job'[j] = rows[j]
      /\ \A j \in W : /\ rows[j].status \in Waiting /\ RowOK(j, job'[j])
                       /\ job'[j].status = "delivering" /\ job'[j].nextRunAt = rows[j].nextRunAt
      /\ job' = [j \in Jobs |-> job'[j]]
      /\ clock' = clock /\ executed' = executed
  BY ClaimFacts
<1> HIDE DEF rows
<1>4. \A j \in Jobs : RowOK(j, job'[j])
  BY <1>2, <1>3
<1>5. StoreInv'
  BY <1>3, <1>4, StoreInvNext DEF StoreInv, TypeOK
<1>6. ASSUME NEW j \in Jobs
      PROVE  RowChange(j)
  <2>1. CASE rows[j] = job[j]
    BY <1>3, <2>1 DEF RowChange
  <2>2. CASE LeaseExpired(j, Now(r)) /\ rows[j] = Recover(j, Now(r))
    <3>1. /\ job[j].status = "delivering"
          /\ rows[j].status \in {"paused", "retry_wait"}
          /\ rows[j].status = "retry_wait" => rows[j].nextRunAt > job[j].nextRunAt
      BY <1>1, <2>2, RecoverFacts DEF LeaseExpired
    <3>2. CASE rows[j].status = "paused"
      <4>1. job'[j] = rows[j]
        BY <1>3, <3>2 DEF Waiting
      <4> QED BY <3>2, <4>1 DEF RowChange, Suspended
    <3>3. CASE rows[j].status = "retry_wait"
      <4>1. job'[j].status \notin Suspended /\ job'[j].nextRunAt = rows[j].nextRunAt
        BY <1>3, <3>3 DEF Suspended
      <4> QED BY <3>1, <3>3, <4>1 DEF RowChange
    <3> QED BY <3>1, <3>2, <3>3
  <2> QED BY <1>2, <2>1, <2>2
<1> QED BY <1>5, <1>6 DEF RowsKept

\* Time only makes leased ticks more due.
LEMMA TickKeeps == StoreInv /\ Tick => StoreInv' /\ job' = job
<1> SUFFICES ASSUME StoreInv, Tick PROVE StoreInv' /\ job' = job
  OBVIOUS
<1>1. clock \in Nat /\ clock' = clock + 1 /\ job' = job /\ executed' = executed
  BY DEF Tick, StoreInv, TypeOK
<1>2. \A j \in Jobs : job[j].status = "delivering" =>
        /\ job[j].leaseOwner \in Replicas /\ job[j].nextRunAt \in Nat
        /\ job[j].nextRunAt <= clock + Skew[job[j].leaseOwner]
  BY DEF StoreInv, TypeOK, Row, LeaseIffDelivering, TickDue, Now
<1>3. TickDue'
  <2> SUFFICES ASSUME NEW j \in Jobs, job[j].status = "delivering"
               PROVE  job[j].nextRunAt <= clock + 1 + Skew[job[j].leaseOwner]
    BY <1>1 DEF TickDue, Now
  <2>1. Skew[job[j].leaseOwner] \in Nat
    BY <1>2, ScheduleAssumption
  <2> QED BY <1>1, <1>2, <2>1
<1> QED BY <1>1, <1>3 DEF StoreInv, TypeOK, LeaseIffDelivering, AttemptsWithinPolicy, LeaseAfterTick,
                         LeasedIsTried

LEMMA NextKeeps ==
  ASSUME StoreInv, Next
  PROVE  StoreInv' /\ \A j \in Jobs : RowChange(j)
<1>1. CASE \E j \in Jobs : Pause(j)
  BY <1>1, PauseKeeps DEF RowsKept
<1>2. CASE \E j \in Jobs, k \in Commands : Cancel(k, j)
  BY <1>2, CancelKeeps DEF RowsKept
<1>3. CASE \E j \in Jobs, r \in Replicas : Resume(r, j)
  BY <1>3, ResumeKeeps DEF RowsKept
<1>4. CASE \E j \in Jobs, r \in Replicas, k \in Commands : Upsert(r, k, j)
  BY <1>4, UpsertKeeps DEF RowsKept
<1>5. CASE \E j \in Jobs, r \in Replicas, receipt \in Receipts :
             Complete(r, j, job[j].nextRunAt, receipt)
  BY <1>5, CompleteKeeps DEF RowsKept
<1>6. CASE \E r \in Replicas : ClaimDue(r)
  BY <1>6, ClaimKeeps DEF ClaimDue, RowsKept
<1>7. CASE Tick
  BY <1>7, TickKeeps DEF RowChange
<1> QED BY <1>1, <1>2, <1>3, <1>4, <1>5, <1>6, <1>7 DEF Next

LEMMA InitKeeps == Init => StoreInv
<1> SUFFICES ASSUME Init PROVE StoreInv
  OBVIOUS
<1>1. TypeOK
  BY DEF Init, TypeOK, Row, Statuses
<1>2. LeaseIffDelivering /\ LeaseAfterTick /\ TickDue /\ LeasedIsTried
  BY DEF Init, LeaseIffDelivering, LeaseAfterTick, TickDue, LeasedIsTried
<1>3. AttemptsWithinPolicy
  BY ScheduleAssumption DEF Init, AttemptsWithinPolicy, Waiting
<1> QED BY <1>1, <1>2, <1>3 DEF StoreInv

\* The rows of the schedule store are well formed in every state: a lease exactly
\* while delivering, an attempt left while waiting, a tick that is due by the clock
\* of its leaseholder and older than its lease.
THEOREM StoreInvariant == Spec => []StoreInv
<1>1. Init => StoreInv
  BY InitKeeps
<1>2. StoreInv /\ [Next]_storeVars => StoreInv'
  <2>1. StoreInv /\ Next => StoreInv'
    BY NextKeeps
  <2>2. StoreInv /\ UNCHANGED storeVars => StoreInv'
    BY DEF storeVars, StoreInv, TypeOK, LeaseIffDelivering, AttemptsWithinPolicy, LeaseAfterTick,
           TickDue, LeasedIsTried, Now
  <2> QED BY <2>1, <2>2
<1> QED BY <1>1, <1>2, PTL DEF Spec

\* The rows keep their types.
THEOREM StoreTypesHold == Spec => []TypeOK
<1>1. StoreInv => TypeOK
  BY DEF StoreInv
<1> QED BY <1>1, StoreInvariant, PTL

\* A row carries a lease exactly while it is being delivered.
THEOREM LeasesMatchStatus == Spec => []LeaseIffDelivering
<1>1. StoreInv => LeaseIffDelivering
  BY DEF StoreInv
<1> QED BY <1>1, StoreInvariant, PTL

\* No tick is attempted more often than the manifest of its job allows, whatever
\* ends its leases.
THEOREM PolicyHolds == Spec => []AttemptsWithinPolicy
<1>1. StoreInv => AttemptsWithinPolicy
  BY DEF StoreInv
<1> QED BY <1>1, StoreInvariant, PTL

\* Completions and recoveries never bring a paused or cancelled job back.
THEOREM SuspensionsHold == Spec => SuspensionHolds
<1> DEFINE Held == \A j \in Jobs : job[j].status \in Suspended /\ job'[j].status \notin Suspended =>
                     /\ job'[j].status = "scheduled"
                     /\ job'[j].revision > job[j].revision
                     /\ job'[j].attempt = 0
                     /\ job[j].status = "cancelled" => executed' # executed
<1>1. StoreInv /\ [Next]_storeVars => [Held]_storeVars
  <2> SUFFICES ASSUME StoreInv, Next PROVE Held
    OBVIOUS
  <2> SUFFICES ASSUME NEW j \in Jobs, job[j].status \in Suspended, job'[j].status \notin Suspended
               PROVE  /\ job'[j].status = "scheduled" /\ job'[j].revision > job[j].revision
                      /\ job'[j].attempt = 0
                      /\ job[j].status = "cancelled" => executed' # executed
    OBVIOUS
  <2>1. job[j].revision \in Nat
    BY DEF StoreInv, TypeOK, Row
  <2>2. RowChange(j)
    BY NextKeeps
  <2> QED BY <2>1, <2>2 DEF RowChange, Suspended, Waiting
<1> QED BY <1>1, StoreInvariant, PTL DEF Spec, SuspensionHolds

-----------------------------------------------------------------------------
(* The dispatcher implements the store                                      *)

\* The call that a replica makes for a claimed row.
NewCall(r, rows, j) ==
  [replica |-> r, job |-> j, attempt |-> rows[j].attempt + 1, scheduledFor |-> rows[j].nextRunAt,
   receipt |-> Null, current |-> TRUE]

DispatcherTyped == StoreInv /\ calls \subseteq Call

LEMMA StoreStepOfDispatcher ==
  ASSUME DispatcherTyped, DispatcherNext
  PROVE  [Next]_storeVars
<1>1. CASE \E r \in Replicas : RunOnce(r)
  BY <1>1 DEF RunOnce, Next, ClaimDue
<1>2. CASE \E c \in calls : Handle(c) \/ Refuse(c) \/ RecordFails(c)
  BY <1>2 DEF Handle, Refuse, RecordFails
<1>3. CASE \E c \in calls : Record(c)
  <2> PICK c \in calls : Record(c)
    BY <1>3
  <2>1. /\ c.replica \in Replicas /\ c.job \in Jobs /\ c.receipt \in Receipts
        /\ Complete(c.replica, c.job, c.scheduledFor, c.receipt)
    BY DEF Record, DispatcherTyped, Call
  <2>2. Complete(c.replica, c.job, job[c.job].nextRunAt, c.receipt)
    BY <2>1 DEF Complete, HoldsLease
  <2> QED BY <2>1, <2>2 DEF Next
<1>4. CASE \E r \in Replicas : Crash(r)
  BY <1>4 DEF Crash
<1>5. CASE \E j \in Jobs : Administer(j)
  BY <1>5 DEF Administer, Next
<1>6. CASE Time
  BY <1>6 DEF Time, Next
<1> QED BY <1>1, <1>2, <1>3, <1>4, <1>5, <1>6 DEF DispatcherNext

LEMMA StoreKept ==
  ASSUME StoreInv, [Next]_storeVars
  PROVE  StoreInv'
<1>1. CASE Next
  BY <1>1, NextKeeps
<1>2. CASE UNCHANGED storeVars
  BY <1>2 DEF storeVars, StoreInv, TypeOK, LeaseIffDelivering, AttemptsWithinPolicy,
              LeaseAfterTick, TickDue, LeasedIsTried, Now
<1> QED BY <1>1, <1>2

\* An answer or the end of a cycle changes neither the tick nor the owner of a call.
LEMMA ChangedCall ==
  ASSUME NEW c \in Call
  PROVE  /\ \A receipt \in Receipts :
              LET e == [c EXCEPT !.receipt = receipt] IN
              /\ e \in Call /\ e.replica = c.replica /\ e.job = c.job /\ e.attempt = c.attempt
              /\ e.scheduledFor = c.scheduledFor
         /\ LET e == [c EXCEPT !.current = FALSE] IN
            /\ e \in Call /\ e.replica = c.replica /\ e.job = c.job /\ e.attempt = c.attempt
            /\ e.scheduledFor = c.scheduledFor
  BY DEF Call

LEMMA CallMade ==
  ASSUME DispatcherTyped, NEW r \in Replicas, RunOnce(r)
  PROVE  \E W \in Windows(RecoverExpiredLeases(Now(r)), Due(RecoverExpiredLeases(Now(r)), Now(r))) :
           /\ W \subseteq Jobs
           /\ Claim(r, RecoverExpiredLeases(Now(r)), W)
           /\ calls' = calls \cup {NewCall(r, RecoverExpiredLeases(Now(r)), j) : j \in W}
           /\ \A j \in W : NewCall(r, RecoverExpiredLeases(Now(r)), j) \in Call
<1> DEFINE rows == RecoverExpiredLeases(Now(r))
<1>1. PICK W \in Windows(rows, Due(rows, Now(r))) :
             /\ Claim(r, rows, W)
             /\ calls' = calls \cup
                  {[replica |-> r, job |-> j, attempt |-> rows[j].attempt + 1,
                    scheduledFor |-> rows[j].nextRunAt,
                    receipt |-> Null, current |-> TRUE] : j \in W}
  BY DEF RunOnce
<1>2. /\ W \subseteq Jobs
      /\ \A j \in W : rows[j].nextRunAt \in Nat /\ rows[j].attempt + 1 \in Nat
  BY <1>1, ClaimFacts DEF DispatcherTyped
<1> HIDE DEF rows
<1>3. \A j \in W : NewCall(r, rows, j) \in Call
  BY <1>2 DEF NewCall, Call
<1>4. calls' = calls \cup {NewCall(r, rows, j) : j \in W}
  BY <1>1 DEF NewCall
<1> QED BY <1>1, <1>2, <1>3, <1>4 DEF rows

\* What the other steps make of the calls: each that remains is one of before, with
\* another answer or no longer waited for.
LEMMA CallsRemain ==
  ASSUME DispatcherTyped, [DispatcherNext]_vars, \A r \in Replicas : ~RunOnce(r)
  PROVE  \A e \in calls' : /\ e \in Call
                           /\ \E c \in calls : /\ e.replica = c.replica /\ e.job = c.job
                                                /\ e.attempt = c.attempt
                                                /\ e.scheduledFor = c.scheduledFor
<1> DEFINE Same(e, c) == /\ e.replica = c.replica /\ e.job = c.job /\ e.attempt = c.attempt
                         /\ e.scheduledFor = c.scheduledFor
<1>1. calls \subseteq Call
  BY DEF DispatcherTyped
<1>2. ASSUME calls' \subseteq calls
      PROVE  \A e \in calls' : e \in Call /\ \E c \in calls : Same(e, c)
  BY <1>1, <1>2
<1>3. CASE \E c \in calls : Handle(c) \/ Refuse(c)
  <2>1. PICK c \in calls, receipt \in Receipts : calls' = Answered(c, receipt)
    BY <1>3 DEF Handle, Refuse, Receipts
  <2> DEFINE n == [c EXCEPT !.receipt = receipt]
  <2>2. n \in Call /\ Same(n, c)
    BY <1>1, ChangedCall
  <2>3. calls' = (calls \ {c}) \cup {n}
    BY <2>1 DEF Answered
  <2> HIDE DEF n
  <2> QED BY <1>1, <2>2, <2>3
<1>4. CASE \E c \in calls : RecordFails(c)
  <2>1. PICK c \in calls : calls' = {IF c.current /\ e.replica = c.replica
                                     THEN [e EXCEPT !.current = FALSE] ELSE e : e \in calls \ {c}}
    BY <1>4 DEF RecordFails
  <2>2. \A e \in calls : LET n == [e EXCEPT !.current = FALSE] IN n \in Call /\ Same(n, e)
    BY <1>1, ChangedCall
  <2>3. ASSUME NEW e \in calls'
        PROVE  e \in Call /\ \E d \in calls : Same(e, d)
    <3>1. PICK d \in calls \ {c} : e = IF c.current /\ d.replica = c.replica
                                       THEN [d EXCEPT !.current = FALSE] ELSE d
      BY <2>1
    <3>2. e \in Call /\ Same(e, d)
      BY <1>1, <2>2, <3>1
    <3> QED BY <3>2
  <2> QED BY <2>3
<1>5. CASE \E c \in calls : Record(c)
  BY <1>2, <1>5 DEF Record
<1>6. CASE \E r \in Replicas : Crash(r)
  BY <1>2, <1>6 DEF Crash
<1>7. CASE (\E j \in Jobs : Administer(j)) \/ Time \/ UNCHANGED vars
  BY <1>2, <1>7 DEF Administer, Time, vars
<1> QED BY <1>3, <1>4, <1>5, <1>6, <1>7 DEF DispatcherNext

\* The calls of the dispatcher are well formed and so are the rows under them.
THEOREM DispatcherInvariant == DispatcherSpec => []DispatcherTyped
<1>1. DispatcherInit => DispatcherTyped
  BY InitKeeps DEF DispatcherInit, DispatcherTyped
<1>2. DispatcherTyped /\ [DispatcherNext]_vars => DispatcherTyped'
  <2> SUFFICES ASSUME DispatcherTyped, [DispatcherNext]_vars PROVE DispatcherTyped'
    OBVIOUS
  <2>1. [Next]_storeVars
    BY StoreStepOfDispatcher DEF vars, storeVars
  <2>2. StoreInv'
    BY <2>1, StoreKept DEF DispatcherTyped
  <2>3. calls' \subseteq Call
    <3>1. CASE \E r \in Replicas : RunOnce(r)
      BY <3>1, CallMade DEF DispatcherTyped
    <3>2. CASE \A r \in Replicas : ~RunOnce(r)
      BY <3>2, CallsRemain
    <3> QED BY <3>1, <3>2
  <2> QED BY <2>2, <2>3 DEF DispatcherTyped
<1> QED BY <1>1, <1>2, PTL DEF DispatcherSpec

\* The types of the composed system: rows and calls.
THEOREM DispatcherTypesHold == DispatcherSpec => []DispatcherTypeOK
<1>1. DispatcherTyped => DispatcherTypeOK
  BY DEF DispatcherTyped, DispatcherTypeOK, StoreInv
<1> QED BY <1>1, DispatcherInvariant, PTL

\* Every step of the coordinators, of their crashes and abandoned cycles included,
\* is an operation of the store or leaves the rows alone.
LEMMA DispatcherImplementsStore == DispatcherSpec => Spec
<1>1. DispatcherInit => Init
  BY DEF DispatcherInit
<1>2. DispatcherTyped /\ [DispatcherNext]_vars => [Next]_storeVars
  BY StoreStepOfDispatcher DEF vars, storeVars
<1> QED BY <1>1, <1>2, DispatcherInvariant, PTL DEF DispatcherSpec, Spec

-----------------------------------------------------------------------------
(* One owner per attempt                                                    *)

\* Where the row of a call is: at its attempt, suspended, or at a later tick.
AtAttempt(c) ==
  /\ job[c.job].status = "delivering" /\ job[c.job].leaseOwner = c.replica
  /\ job[c.job].nextRunAt = c.scheduledFor /\ job[c.job].attempt = c.attempt

Superseded(c) ==
  \/ job[c.job].status \in Suspended
  \/ job[c.job].nextRunAt > c.scheduledFor

Placed(c) ==
  /\ c.scheduledFor <= Now(c.replica)
  /\ AtAttempt(c) \/ Superseded(c)

CallsInv == DispatcherTyped /\ (\A c \in calls : Placed(c)) /\ OneOwnerPerAttempt

\* No clock is so far ahead that what it schedules anew lies before a tick that
\* another has found due.
LEMMA NewTickIsLater ==
  ASSUME StoreInv, SkewBelowInterval, NEW c \in Call, c.scheduledFor <= Now(c.replica),
         NEW q \in Replicas
  PROVE  Now(q) + Interval[c.job] > c.scheduledFor
<1>1. /\ clock \in Nat /\ Skew[q] \in Nat /\ Skew[c.replica] \in Nat /\ Interval[c.job] \in Nat
      /\ c.scheduledFor \in Nat
  BY ScheduleAssumption DEF StoreInv, TypeOK, Call
<1>2. Skew[c.replica] < Skew[q] + Interval[c.job]
  BY DEF SkewBelowInterval, Call
<1> QED BY <1>1, <1>2 DEF Now

LEMMA CallStaysPlaced ==
  ASSUME StoreInv, StoreInv', SkewBelowInterval, NEW c \in Call, Placed(c),
         clock' = clock, RowChange(c.job)
  PROVE  Placed(c)'
<1>1. /\ c.job \in Jobs /\ c.scheduledFor \in Nat
      /\ job[c.job].nextRunAt \in Nat /\ job'[c.job].nextRunAt \in Nat
  BY DEF Call, StoreInv, TypeOK, Row
<1>2. (c.scheduledFor <= Now(c.replica))'
  BY DEF Placed, Now
<1>3. CASE job'[c.job] = job[c.job]
  BY <1>2, <1>3 DEF Placed, AtAttempt, Superseded
<1>4. CASE job'[c.job].status \in Suspended
  BY <1>2, <1>4 DEF Placed, Superseded
<1>5. CASE \E q \in Replicas : job'[c.job].nextRunAt = Now(q) + Interval[c.job]
  <2>1. job'[c.job].nextRunAt > c.scheduledFor
    BY <1>5, NewTickIsLater DEF Placed
  <2> QED BY <1>2, <2>1 DEF Placed, Superseded
<1>6. CASE job[c.job].status = "delivering" /\ job'[c.job].nextRunAt > job[c.job].nextRunAt
  <2>1. job'[c.job].nextRunAt > c.scheduledFor
    BY <1>1, <1>6 DEF Placed, AtAttempt, Superseded, Suspended
  <2> QED BY <1>2, <2>1 DEF Placed, Superseded
<1>7. CASE job[c.job].status \in Waiting /\ job'[c.job].nextRunAt = job[c.job].nextRunAt
  <2>1. job'[c.job].nextRunAt > c.scheduledFor
    BY <1>1, <1>7 DEF Placed, AtAttempt, Superseded, Suspended, Waiting
  <2> QED BY <1>2, <2>1 DEF Placed, Superseded
<1> QED BY <1>3, <1>4, <1>5, <1>6, <1>7 DEF RowChange

\* A claim finds no call of the same tick, whoever made it.
LEMMA ClaimIsNew ==
  ASSUME CallsInv, NEW r \in Replicas, NEW c \in calls,
         RecoverExpiredLeases(Now(r))[c.job].status \in Waiting
  PROVE  RecoverExpiredLeases(Now(r))[c.job].nextRunAt > c.scheduledFor
<1> DEFINE row == RecoverExpiredLeases(Now(r))[c.job]
<1>1. /\ StoreInv /\ c \in Call /\ c.job \in Jobs /\ c.scheduledFor \in Nat
      /\ job[c.job].nextRunAt \in Nat /\ Placed(c) /\ Now(r) \in Nat
  BY NowIsNat DEF CallsInv, DispatcherTyped, Call, StoreInv, TypeOK, Row
<1>2. /\ RowOK(c.job, row)
      /\ \/ row = job[c.job]
         \/ LeaseExpired(c.job, Now(r)) /\ row = Recover(c.job, Now(r))
  BY <1>1, RecoveredFacts
<1> HIDE DEF row
<1>3. row.status \in Waiting /\ row.nextRunAt \in Nat
  BY <1>2 DEF row, RowOK, Row
<1>4. CASE row = job[c.job]
  BY <1>1, <1>3, <1>4 DEF Placed, AtAttempt, Superseded, Waiting, Suspended, row
<1>5. CASE LeaseExpired(c.job, Now(r)) /\ row = Recover(c.job, Now(r))
  <2>1. row.nextRunAt > job[c.job].nextRunAt /\ job[c.job].status = "delivering"
    BY <1>1, <1>3, <1>5, RecoverFacts DEF LeaseExpired, Waiting
  <2> QED BY <1>1, <1>3, <2>1 DEF Placed, AtAttempt, Superseded, Suspended, row
<1> QED BY <1>2, <1>4, <1>5

LEMMA RunKeepsCalls ==
  ASSUME CallsInv, SkewBelowInterval, NEW r \in Replicas, RunOnce(r)
  PROVE  CallsInv'
<1> DEFINE rows == RecoverExpiredLeases(Now(r))
<1>1. PICK W \in Windows(rows, Due(rows, Now(r))) :
        /\ W \subseteq Jobs
        /\ Claim(r, rows, W)
        /\ calls' = calls \cup {NewCall(r, rows, j) : j \in W}
        /\ \A j \in W : NewCall(r, rows, j) \in Call
  BY CallMade DEF CallsInv
<1>2. StoreInv /\ calls \subseteq Call
  BY DEF CallsInv, DispatcherTyped
<1>3. StoreInv' /\ \A j \in Jobs : RowChange(j)
  BY <1>1, <1>2, ClaimKeeps DEF RowsKept
<1>4. /\ clock' = clock
      /\ \A j \in W : /\ rows[j].status \in Waiting /\ rows[j].nextRunAt <= Now(r)
                       /\ rows[j].nextRunAt \in Nat
                       /\ job'[j].status = "delivering" /\ job'[j].leaseOwner = r
                       /\ job'[j].attempt = rows[j].attempt + 1
                       /\ job'[j].nextRunAt = rows[j].nextRunAt
  BY <1>1, <1>2, ClaimFacts
<1>5. \A c \in calls, j \in W : c.job = j => c.scheduledFor # rows[j].nextRunAt
  <2> SUFFICES ASSUME NEW c \in calls, c.job \in W PROVE c.scheduledFor # rows[c.job].nextRunAt
    OBVIOUS
  <2>1. rows[c.job].nextRunAt > c.scheduledFor
    BY <1>4, ClaimIsNew
  <2>2. c.scheduledFor \in Nat
    BY <1>2 DEF Call
  <2> QED BY <1>4, <2>1, <2>2
<1> HIDE DEF rows
<1>6. \A c \in calls : Placed(c)'
  BY <1>2, <1>3, <1>4, CallStaysPlaced DEF CallsInv, Call
<1>7. \A n \in {NewCall(r, rows, j) : j \in W} : Placed(n)'
  <2> SUFFICES ASSUME NEW n \in {NewCall(r, rows, j) : j \in W} PROVE Placed(n)'
    OBVIOUS
  <2>1. PICK j \in W : /\ n.job = j /\ n.replica = r /\ n.scheduledFor = rows[j].nextRunAt
                      /\ n.attempt = rows[j].attempt + 1
    BY DEF NewCall
  <2>2. n.scheduledFor <= clock' + Skew[n.replica]
    BY <1>4, <2>1 DEF Now
  <2>3. /\ job'[n.job].status = "delivering" /\ job'[n.job].leaseOwner = n.replica
        /\ job'[n.job].nextRunAt = n.scheduledFor /\ job'[n.job].attempt = n.attempt
    BY <1>4, <2>1
  <2> QED BY <2>2, <2>3 DEF Placed, AtAttempt, Now
<1>8. OneOwnerPerAttempt'
  <2>1. \A i, j \in W : NewCall(r, rows, i).job = NewCall(r, rows, j).job => i = j
    BY DEF NewCall
  <2>2. \A c \in calls, j \in W : c.job = NewCall(r, rows, j).job =>
          c.scheduledFor # NewCall(r, rows, j).scheduledFor
    BY <1>5 DEF NewCall
  <2> QED BY <1>1, <2>1, <2>2 DEF CallsInv, OneOwnerPerAttempt
<1>9. calls' \subseteq Call
  BY <1>1, <1>2
<1>10. ASSUME NEW n \in calls'
       PROVE  Placed(n)'
  BY <1>1, <1>6, <1>7, <1>10
<1> QED BY <1>3, <1>8, <1>9, <1>10 DEF CallsInv, DispatcherTyped

\* The other steps of the dispatcher, of the store and of time.
LEMMA RowsOrTime ==
  ASSUME StoreInv, [Next]_storeVars
  PROVE  \/ clock' = clock /\ \A j \in Jobs : RowChange(j)
         \/ clock' = clock + 1 /\ job' = job
<1>1. CASE Tick
  BY <1>1 DEF Tick
<1>2. CASE Next /\ ~Tick
  <2>1. clock' = clock
    BY <1>2 DEF Next, Pause, Cancel, Resume, Upsert, Complete, ClaimDue, Claim
  <2> QED BY <1>2, <2>1, NextKeeps
<1>3. CASE UNCHANGED storeVars
  BY <1>3 DEF storeVars, RowChange
<1> QED BY <1>1, <1>2, <1>3

LEMMA StepKeepsPlace ==
  ASSUME StoreInv, StoreInv', SkewBelowInterval, [Next]_storeVars, NEW c \in Call, Placed(c)
  PROVE  Placed(c)'
<1>1. CASE clock' = clock /\ \A j \in Jobs : RowChange(j)
  <2>1. c.job \in Jobs
    BY DEF Call
  <2> QED BY <1>1, <2>1, CallStaysPlaced
<1>2. CASE clock' = clock + 1 /\ job' = job
  <2>1. clock \in Nat /\ Skew[c.replica] \in Nat /\ c.scheduledFor \in Nat
    BY ScheduleAssumption DEF StoreInv, TypeOK, Call
  <2>2. c.scheduledFor <= clock + 1 + Skew[c.replica]
    BY <2>1 DEF Placed, Now
  <2> QED BY <1>2, <2>2 DEF Placed, AtAttempt, Superseded, Now
<1> QED BY <1>1, <1>2, RowsOrTime

\* An answer or an end of a cycle leaves the ticks of the calls apart.
LEMMA CallsStayApart ==
  ASSUME CallsInv, [DispatcherNext]_vars, \A r \in Replicas : ~RunOnce(r)
  PROVE  OneOwnerPerAttempt'
<1>1. calls \subseteq Call
  BY DEF CallsInv, DispatcherTyped
<1>2. ASSUME calls' \subseteq calls
      PROVE  OneOwnerPerAttempt'
  BY <1>2 DEF CallsInv, OneOwnerPerAttempt
<1>3. CASE \E c \in calls : Handle(c) \/ Refuse(c)
  <2>1. PICK c \in calls, receipt \in Receipts : calls' = Answered(c, receipt)
    BY <1>3 DEF Handle, Refuse, Receipts
  <2> DEFINE n == [c EXCEPT !.receipt = receipt]
  <2>2. n.job = c.job /\ n.scheduledFor = c.scheduledFor
    BY <1>1, ChangedCall
  <2>3. calls' = (calls \ {c}) \cup {n}
    BY <2>1 DEF Answered
  <2> HIDE DEF n
  <2> QED BY <2>2, <2>3 DEF CallsInv, OneOwnerPerAttempt
<1>4. CASE \E c \in calls : RecordFails(c)
  <2>1. PICK c \in calls : calls' = {IF c.current /\ e.replica = c.replica
                                     THEN [e EXCEPT !.current = FALSE] ELSE e : e \in calls \ {c}}
    BY <1>4 DEF RecordFails
  <2> DEFINE f(e) == IF c.current /\ e.replica = c.replica THEN [e EXCEPT !.current = FALSE] ELSE e
  <2>2. \A e \in calls : f(e).job = e.job /\ f(e).scheduledFor = e.scheduledFor
    BY <1>1, ChangedCall
  <2>3. calls' = {f(e) : e \in calls \ {c}}
    BY <2>1
  <2> HIDE DEF f
  <2> QED BY <2>2, <2>3 DEF CallsInv, OneOwnerPerAttempt
<1>5. CASE \E c \in calls : Record(c)
  BY <1>2, <1>5 DEF Record
<1>6. CASE \E r \in Replicas : Crash(r)
  BY <1>2, <1>6 DEF Crash
<1>7. CASE (\E j \in Jobs : Administer(j)) \/ Time \/ UNCHANGED vars
  BY <1>2, <1>7 DEF Administer, Time, vars
<1> QED BY <1>3, <1>4, <1>5, <1>6, <1>7 DEF DispatcherNext

LEMMA StepKeepsCalls ==
  ASSUME CallsInv, SkewBelowInterval, [DispatcherNext]_vars
  PROVE  CallsInv'
<1>1. CASE \E r \in Replicas : RunOnce(r)
  BY <1>1, RunKeepsCalls
<1>2. CASE \A r \in Replicas : ~RunOnce(r)
  <2>1. DispatcherTyped /\ StoreInv /\ calls \subseteq Call
    BY DEF CallsInv, DispatcherTyped
  <2>2. [Next]_storeVars
    BY <2>1, StoreStepOfDispatcher DEF vars, storeVars
  <2>3. StoreInv'
    BY <2>1, <2>2, StoreKept
  <2>4. ASSUME NEW e \in calls'
        PROVE  e \in Call /\ Placed(e)'
    <3>1. PICK c \in calls : /\ e.replica = c.replica /\ e.job = c.job /\ e.attempt = c.attempt
                            /\ e.scheduledFor = c.scheduledFor
      BY <1>2, <2>1, CallsRemain
    <3>2. e \in Call
      BY <1>2, <2>1, CallsRemain
    <3>3. Placed(e)
      BY <3>1 DEF CallsInv, Placed, AtAttempt, Superseded
    <3> QED BY <2>1, <2>2, <2>3, <3>2, <3>3, StepKeepsPlace
  <2>5. OneOwnerPerAttempt'
    BY <1>2, CallsStayApart
  <2> QED BY <2>3, <2>4, <2>5 DEF CallsInv, DispatcherTyped
<1> QED BY <1>1, <1>2

\* Every call is at the attempt that its row is at, or its row has been suspended or
\* moved to a later tick; and no two calls share a tick.
THEOREM CallsInvariant == SkewBelowInterval => (DispatcherSpec => []CallsInv)
<1> SUFFICES ASSUME SkewBelowInterval PROVE DispatcherSpec => []CallsInv
  OBVIOUS
<1>1. DispatcherInit => CallsInv
  BY InitKeeps DEF DispatcherInit, CallsInv, DispatcherTyped, OneOwnerPerAttempt
<1>2. CallsInv /\ [DispatcherNext]_vars => CallsInv'
  BY StepKeepsCalls
<1> QED BY <1>1, <1>2, PTL DEF DispatcherSpec

\* However long calls outlast their leases, no two of them carry one deliveryId.
THEOREM AttemptsHaveOneOwner == SkewBelowInterval => (DispatcherSpec => []OneOwnerPerAttempt)
<1> SUFFICES ASSUME SkewBelowInterval PROVE DispatcherSpec => []OneOwnerPerAttempt
  OBVIOUS
<1>1. CallsInv => OneOwnerPerAttempt
  BY DEF CallsInv
<1>2. DispatcherSpec => []CallsInv
  BY CallsInvariant
<1> QED BY <1>1, <1>2, PTL

\* The receipt that complete records is that of the attempt the row is at: the fence
\* on the tick and the lease suffices although no attempt number is compared.
THEOREM ReceiptsMatchAttempts == SkewBelowInterval => (DispatcherSpec => ReceiptMatchesAttempt)
<1> SUFFICES ASSUME SkewBelowInterval PROVE DispatcherSpec => ReceiptMatchesAttempt
  OBVIOUS
<1> DEFINE Matched == \A c \in calls : Record(c) => c.attempt = job[c.job].attempt
<1>1. CallsInv => Matched
  <2> SUFFICES ASSUME CallsInv, NEW c \in calls, Record(c) PROVE c.attempt = job[c.job].attempt
    OBVIOUS
  <2>1. job[c.job].status = "delivering" /\ job[c.job].nextRunAt = c.scheduledFor
    BY DEF Record, Complete, HoldsLease
  <2>2. c.scheduledFor \in Nat
    BY DEF CallsInv, DispatcherTyped, Call
  <2> QED BY <2>1, <2>2 DEF CallsInv, Placed, AtAttempt, Superseded, Suspended
<1>2. CallsInv /\ [DispatcherNext]_vars => [Matched]_vars
  BY <1>1
<1>3. DispatcherSpec => []CallsInv
  BY CallsInvariant
<1> QED BY <1>2, <1>3, PTL DEF DispatcherSpec, ReceiptMatchesAttempt

-----------------------------------------------------------------------------
(* The promise to the owner of a schedule                                   *)

LEMMA PhaseOf ==
  ASSUME NEW j \in Jobs
  PROVE  /\ job[j].status = "absent" => Phase(j) = "none"
         /\ job[j].status \in Waiting \cup {"delivering"} => Phase(j) = "active"
         /\ job[j].status \in Suspended => Phase(j) = job[j].status
         /\ job'[j].status = "absent" => Phase(j)' = "none"
         /\ job'[j].status \in Waiting \cup {"delivering"} => Phase(j)' = "active"
         /\ job'[j].status \in Suspended => Phase(j)' = job'[j].status
  BY DEF Phase, Waiting, Suspended

LEMMA PlanFields ==
  ASSUME NEW j \in Jobs
  PROVE  /\ PlanOf(j).phase = Phase(j) /\ PlanOf(j)'.phase = Phase(j)'
         /\ PlanOf(j).tick = job[j].nextRunAt /\ PlanOf(j)'.tick = job'[j].nextRunAt
         /\ PlanOf(j).tries = job[j].attempt /\ PlanOf(j)'.tries = job'[j].attempt
  BY DEF PlanOf

LEMMA PlanTyped ==
  ASSUME StoreInv, StoreInv'
  PROVE  [j \in Jobs |-> PlanOf(j)]' \in [Jobs -> Promise!Plan]
<1> SUFFICES ASSUME NEW j \in Jobs PROVE PlanOf(j)' \in Promise!Plan
  OBVIOUS
<1>1. /\ job'[j].status \in Statuses /\ job'[j].nextRunAt \in Nat /\ job'[j].attempt \in Nat
  BY DEF StoreInv, TypeOK, Row
<1>2. Phase(j)' \in {"none", "active", "paused", "cancelled"}
  BY <1>1, PhaseOf DEF Statuses, Suspended
<1> QED BY <1>1, <1>2 DEF PlanOf, Promise!Plan

\* What becomes of the row of a job, and what its owner sees of it.
LEMMA PlanChange ==
  ASSUME StoreInv, StoreInv', NEW j \in Jobs
  PROVE  /\ job'[j] = job[j] => Promise!Stays(j)
         /\ /\ job[j].status \in Waiting /\ job'[j].status = "delivering"
            /\ job'[j].attempt = job[j].attempt + 1 /\ job'[j].nextRunAt = job[j].nextRunAt
            => Promise!Tried(j)
         /\ job[j].status = "delivering" =>
              /\ /\ job'[j].status = "retry_wait" /\ job'[j].attempt = job[j].attempt
                 /\ job'[j].nextRunAt > job[j].nextRunAt
                 => Promise!PutOff(j)
              /\ /\ job'[j].status = "paused" /\ job'[j].attempt = job[j].attempt
                 /\ job'[j].nextRunAt = job[j].nextRunAt
                 => Promise!Dropped(j) /\ (job[j].attempt = MaxAttempts[j] => Promise!GivenUp(j))
              /\ /\ job'[j].status = "scheduled" /\ job'[j].attempt = 0
                 /\ job'[j].nextRunAt >= job[j].nextRunAt + Interval[j]
                 => Promise!GoneOn(j)
<1> DEFINE p == PlanOf(j)
           q == PlanOf(j)'
<1>1. /\ job[j].attempt \in Nat /\ job[j].nextRunAt \in Nat /\ MaxAttempts[j] \in Nat
      /\ job[j].status \in Waiting => job[j].attempt < MaxAttempts[j]
      /\ job[j].status = "delivering" => job[j].attempt > 0
      /\ job'[j].status \in Waiting => job'[j].attempt < MaxAttempts[j]
  BY ScheduleAssumption DEF StoreInv, TypeOK, Row, AttemptsWithinPolicy, LeasedIsTried
<1>2. /\ p = [phase |-> Phase(j), tick |-> job[j].nextRunAt, tries |-> job[j].attempt]
      /\ q = [phase |-> Phase(j)', tick |-> job'[j].nextRunAt, tries |-> job'[j].attempt]
  BY DEF PlanOf
<1> HIDE DEF p, q
<1>3. ASSUME job'[j] = job[j] PROVE Promise!Stays(j)
  <2>1. p = q
    BY <1>3 DEF p, q, PlanOf, Phase
  <2> QED BY <2>1 DEF Promise!Stays, p, q
<1>4. ASSUME job[j].status \in Waiting, job'[j].status = "delivering",
             job'[j].attempt = job[j].attempt + 1, job'[j].nextRunAt = job[j].nextRunAt
      PROVE  Promise!Tried(j)
  <2>1. Phase(j) = "active" /\ Phase(j)' = "active"
    BY <1>4, PhaseOf
  <2>2. p.phase = "active" /\ p.tries < MaxAttempts[j] /\ q = [p EXCEPT !.tries = p.tries + 1]
    BY <1>1, <1>2, <1>4, <2>1
  <2> QED BY <2>2 DEF Promise!Tried, Promise!Active, p, q
<1>5. ASSUME job[j].status = "delivering", job'[j].status = "retry_wait",
             job'[j].attempt = job[j].attempt, job'[j].nextRunAt > job[j].nextRunAt
      PROVE  Promise!PutOff(j)
  <2>1. Phase(j) = "active" /\ Phase(j)' = "active"
    BY <1>5, PhaseOf DEF Waiting
  <2>2. job[j].attempt \in 1..(MaxAttempts[j] - 1)
    BY <1>1, <1>5 DEF Waiting
  <2>3. /\ p.phase = "active" /\ p.tries \in 1..(MaxAttempts[j] - 1)
        /\ q.tick > p.tick /\ q = [p EXCEPT !.tick = q.tick]
    BY <1>2, <1>5, <2>1, <2>2
  <2> QED BY <2>3 DEF Promise!PutOff, Promise!Active, p, q
<1>6. ASSUME job[j].status = "delivering", job'[j].status = "paused",
             job'[j].attempt = job[j].attempt, job'[j].nextRunAt = job[j].nextRunAt
      PROVE  Promise!Dropped(j) /\ (job[j].attempt = MaxAttempts[j] => Promise!GivenUp(j))
  <2>1. Phase(j) = "active" /\ Phase(j)' = "paused"
    BY <1>6, PhaseOf DEF Suspended
  <2>2. /\ p.phase = "active" /\ p.tries > 0 /\ p.tries = job[j].attempt
        /\ q = [p EXCEPT !.phase = "paused"]
    BY <1>1, <1>2, <1>6, <2>1
  <2> QED BY <2>2 DEF Promise!Dropped, Promise!GivenUp, Promise!Active, p, q
<1>7. ASSUME job[j].status = "delivering", job'[j].status = "scheduled", job'[j].attempt = 0,
             job'[j].nextRunAt >= job[j].nextRunAt + Interval[j]
      PROVE  Promise!GoneOn(j)
  <2>1. Phase(j) = "active" /\ Phase(j)' = "active"
    BY <1>7, PhaseOf DEF Waiting
  <2>2. /\ p.phase = "active" /\ p.tries > 0 /\ p.tick = job[j].nextRunAt
        /\ q.tick = job'[j].nextRunAt
    BY <1>1, <1>2, <1>7, <2>1
  <2>3. q = [phase |-> "active", tick |-> q.tick, tries |-> 0]
    BY <1>2, <1>7, <2>1
  <2>4. q.tick >= p.tick + Interval[j]
    BY <1>7, <2>2
  <2> QED BY <2>2, <2>3, <2>4 DEF Promise!GoneOn, Promise!Active, p, q
<1> QED BY <1>3, <1>4, <1>5, <1>6, <1>7

\* A cycle tries the jobs of its window, and puts off or gives up those whose lease
\* ran out; a job that it puts off is not due again at once.
LEMMA CycleRows ==
  ASSUME StoreInv, NEW r \in Replicas,
         NEW W, W \in Windows(RecoverExpiredLeases(Now(r)), Due(RecoverExpiredLeases(Now(r)), Now(r))),
         Claim(r, RecoverExpiredLeases(Now(r)), W)
  PROVE  /\ W \subseteq Jobs
         /\ \A j \in W : /\ job[j].status \in Waiting /\ job'[j].status = "delivering"
                         /\ job'[j].attempt = job[j].attempt + 1
                         /\ job'[j].nextRunAt = job[j].nextRunAt
                         /\ RecoverExpiredLeases(Now(r))[j] = job[j]
         /\ \A j \in Jobs \ W :
              \/ job'[j] = job[j]
              \/ /\ job[j].status = "delivering" /\ job'[j].attempt = job[j].attempt
                 /\ \/ job'[j].status = "retry_wait" /\ job'[j].nextRunAt > job[j].nextRunAt
                    \/ /\ job'[j].status = "paused" /\ job'[j].nextRunAt = job[j].nextRunAt
                       /\ job[j].attempt = MaxAttempts[j]
<1> DEFINE rows == RecoverExpiredLeases(Now(r))
<1>1. Now(r) \in Nat
  BY NowIsNat DEF StoreInv
<1>2. \A j \in Jobs : \/ rows[j] = job[j]
                      \/ LeaseExpired(j, Now(r)) /\ rows[j] = Recover(j, Now(r))
  BY <1>1, RecoveredFacts
<1>3. ASSUME NEW j \in Jobs, LeaseExpired(j, Now(r)), rows[j] = Recover(j, Now(r))
      PROVE  /\ job[j].status = "delivering" /\ rows[j].attempt = job[j].attempt
             /\ \/ /\ rows[j].status = "retry_wait" /\ rows[j].nextRunAt > job[j].nextRunAt
                   /\ rows[j].nextRunAt > Now(r)
                \/ /\ rows[j].status = "paused" /\ rows[j].nextRunAt = job[j].nextRunAt
                   /\ job[j].attempt = MaxAttempts[j]
  BY <1>1, <1>3, RecoverFacts DEF LeaseExpired
<1>4. /\ W \subseteq Jobs
      /\ \A j \in Jobs : j \notin W => job'[j] = rows[j]
      /\ \A j \in W : /\ rows[j].status \in Waiting /\ rows[j].nextRunAt <= Now(r)
                      /\ rows[j].nextRunAt \in Nat
                      /\ job'[j].status = "delivering"
                      /\ job'[j].attempt = rows[j].attempt + 1
                      /\ job'[j].nextRunAt = rows[j].nextRunAt
  BY ClaimFacts
<1> HIDE DEF rows
<1>5. ASSUME NEW j \in W PROVE rows[j] = job[j]
  <2>1. SUFFICES ASSUME LeaseExpired(j, Now(r)), rows[j] = Recover(j, Now(r)) PROVE FALSE
    BY <1>2, <1>4
  <2>2. rows[j].status = "paused" \/ rows[j].nextRunAt > Now(r)
    BY <1>3, <1>4, <2>1
  <2> QED BY <1>1, <1>4, <2>2 DEF Waiting
<1>6. \A j \in W : /\ job[j].status \in Waiting /\ job'[j].status = "delivering"
                  /\ job'[j].attempt = job[j].attempt + 1
                  /\ job'[j].nextRunAt = job[j].nextRunAt
  BY <1>4, <1>5
<1>7. ASSUME NEW j \in Jobs \ W
      PROVE  \/ job'[j] = job[j]
             \/ /\ job[j].status = "delivering" /\ job'[j].attempt = job[j].attempt
                /\ \/ job'[j].status = "retry_wait" /\ job'[j].nextRunAt > job[j].nextRunAt
                   \/ /\ job'[j].status = "paused" /\ job'[j].nextRunAt = job[j].nextRunAt
                      /\ job[j].attempt = MaxAttempts[j]
  BY <1>2, <1>3, <1>4
<1> QED BY <1>4, <1>5, <1>6, <1>7 DEF rows

LEMMA RunPromised ==
  ASSUME DispatcherTyped, StoreInv', NEW r \in Replicas, RunOnce(r)
  PROVE  Promise!ScheduleNext
<1> DEFINE rows == RecoverExpiredLeases(Now(r))
<1>1. PICK W \in Windows(rows, Due(rows, Now(r))) :
         /\ W \subseteq Jobs
         /\ Claim(r, rows, W)
         /\ calls' = calls \cup {NewCall(r, rows, j) : j \in W}
  BY CallMade
<1>2. /\ \A j \in W : /\ job[j].status \in Waiting /\ job'[j].status = "delivering"
                      /\ job'[j].attempt = job[j].attempt + 1
                      /\ job'[j].nextRunAt = job[j].nextRunAt /\ rows[j] = job[j]
      /\ \A j \in Jobs \ W :
           \/ job'[j] = job[j]
           \/ /\ job[j].status = "delivering" /\ job'[j].attempt = job[j].attempt
              /\ \/ job'[j].status = "retry_wait" /\ job'[j].nextRunAt > job[j].nextRunAt
                 \/ /\ job'[j].status = "paused" /\ job'[j].nextRunAt = job[j].nextRunAt
                    /\ job[j].attempt = MaxAttempts[j]
  BY <1>1, CycleRows DEF DispatcherTyped
<1> HIDE DEF rows
<1>3. \A j \in W : Promise!Tried(j)
  BY <1>1, <1>2, PlanChange DEF DispatcherTyped
<1>4. \A j \in Jobs \ W : /\ Promise!Stays(j) \/ Promise!PutOff(j) \/ Promise!GivenUp(j)
                         /\ job'[j].attempt = job[j].attempt
  BY <1>2, PlanChange DEF DispatcherTyped
<1>5. ASSUME NEW j \in Jobs, Promise!Tried(j) PROVE j \in W
  <2>1. PlanOf(j)'= [PlanOf(j) EXCEPT !.tries = PlanOf(j).tries + 1]
    BY <1>5 DEF Promise!Tried
  <2>2. job'[j].attempt = job[j].attempt + 1
    BY <2>1, PlanFields DEF PlanOf
  <2>3. job[j].attempt \in Nat
    BY DEF DispatcherTyped, StoreInv, TypeOK, Row
  <2> QED BY <1>4, <2>2, <2>3
<1>6. W = {i \in Jobs : Promise!Tried(i)}
  BY <1>1, <1>3, <1>5
<1>7. /\ \A j \in W : /\ NewCall(r, rows, j).job = j /\ NewCall(r, rows, j).receipt = Null
                      /\ NewCall(r, rows, j).scheduledFor = PlanOf(j).tick
  BY <1>1, <1>2, PlanFields DEF NewCall
<1>8. Sent' = Sent \cup {<<j, PlanOf(j).tick>> : j \in W}
  BY <1>1, <1>7 DEF Sent
<1>9. Answers' = Answers
  BY <1>1, <1>7 DEF Answers
<1>10. Promise!Cycle
  <2>1. \A j \in Jobs : \/ Promise!Stays(j) \/ Promise!Tried(j)
                       \/ Promise!PutOff(j) \/ Promise!GivenUp(j)
    BY <1>3, <1>4
  <2>2. executed' = executed
    BY <1>1 DEF Claim
  <2>3. Sent' = Sent \cup {<<j, [i \in Jobs |-> PlanOf(i)][j].tick>> :
                             j \in {i \in Jobs : Promise!Tried(i)}}
    BY <1>1, <1>6, <1>8
  <2> QED BY <1>9, <2>1, <2>2, <2>3 DEF Promise!Cycle
<1> QED BY <1>10, PlanTyped DEF DispatcherTyped, Promise!ScheduleNext

\* The receipt that complete accepts is an answer for the tick the job stands at.
LEMMA RecordPromised ==
  ASSUME DispatcherTyped, StoreInv', NEW c \in calls, Record(c)
  PROVE  Promise!ScheduleNext
<1> DEFINE j == c.job
           e == Settled(c.replica, j, Outcome(j, c.receipt))
<1>1. /\ c.replica \in Replicas /\ j \in Jobs /\ c.receipt \in Receipts
      /\ Complete(c.replica, j, c.scheduledFor, c.receipt)
      /\ calls' = calls \ {c} /\ c.receipt # Null
  BY DEF Record, DispatcherTyped, Call
<1>2. /\ job' = [job EXCEPT ![j] = e] /\ executed' = executed
      /\ job[j].status = "delivering" /\ job[j].nextRunAt = c.scheduledFor
      /\ job[j].nextRunAt <= Now(c.replica)
      /\ e.status = Outcome(j, c.receipt)
      /\ e.status = "scheduled" => e.attempt = 0 /\ e.nextRunAt = Now(c.replica) + Interval[j]
      /\ e.status # "scheduled" => e.attempt = job[j].attempt
      /\ e.status = "retry_wait" => e.nextRunAt > job[j].nextRunAt /\ e.attempt < MaxAttempts[j]
      /\ e.status = "paused" => e.nextRunAt = job[j].nextRunAt
  BY <1>1, SettledFacts DEF DispatcherTyped
<1>3. /\ <<j, job[j].nextRunAt, Verdict(c.receipt)>> \in Answers
      /\ Sent' = Sent /\ Answers' \subseteq Answers
  BY <1>1, <1>2 DEF Sent, Answers
<1>4. /\ job[j].attempt \in Nat /\ job[j].attempt <= MaxAttempts[j] /\ MaxAttempts[j] \in Nat
      /\ Now(c.replica) \in Nat /\ job[j].nextRunAt \in Nat /\ Interval[j] \in Nat
  BY <1>1, NowIsNat, ScheduleAssumption
     DEF DispatcherTyped, StoreInv, TypeOK, Row, AttemptsWithinPolicy
<1>5. job'[j] = e
  BY <1>1, <1>2, RowWritten DEF DispatcherTyped
<1>6. \A i \in Jobs \ {j} : Promise!Stays(i)
  <2>1. \A i \in Jobs \ {j} : job'[i] = job[i]
    BY <1>2 DEF DispatcherTyped, StoreInv, TypeOK
  <2> QED BY <2>1, PlanChange DEF DispatcherTyped
<1> DEFINE tick == [i \in Jobs |-> PlanOf(i)][j].tick
<1>7. tick = job[j].nextRunAt
  BY <1>1, PlanFields
<1> HIDE DEF j, e, tick
<1>8. \/ <<j, tick, "later">> \in Answers /\ (Promise!PutOff(j) \/ Promise!GivenUp(j))
      \/ <<j, tick, "refused">> \in Answers /\ Promise!Dropped(j)
      \/ <<j, tick, "done">> \in Answers /\ Promise!GoneOn(j)
  <2>1. CASE c.receipt \in {"accepted", "duplicate"}
    <3>1. Verdict(c.receipt) = "done" /\ e.status = "scheduled"
      BY <1>2, <2>1 DEF Verdict, Outcome
    <3>2. job'[j].nextRunAt >= job[j].nextRunAt + Interval[j]
      BY <1>2, <1>4, <1>5, <3>1
    <3>3. Promise!GoneOn(j)
      BY <1>1, <1>2, <1>5, <3>1, <3>2, PlanChange DEF DispatcherTyped
    <3> QED BY <1>3, <1>7, <3>1, <3>3
  <2>2. CASE c.receipt = "permanent_rejected"
    <3>1. Verdict(c.receipt) = "refused" /\ e.status = "paused"
      BY <1>2, <2>2 DEF Verdict, Outcome
    <3>2. Promise!Dropped(j)
      BY <1>1, <1>2, <1>5, <3>1, PlanChange DEF DispatcherTyped
    <3> QED BY <1>3, <1>7, <3>1, <3>2
  <2>3. CASE c.receipt = "retryable_rejected"
    <3>1. /\ Verdict(c.receipt) = "later"
          /\ e.status = IF Exhausted(j) THEN "paused" ELSE "retry_wait"
      BY <1>2, <2>3 DEF Verdict, Outcome
    <3>2. CASE Exhausted(j)
      <4>1. job[j].attempt = MaxAttempts[j]
        BY <1>4, <3>2 DEF Exhausted
      <4>2. Promise!GivenUp(j)
        BY <1>1, <1>2, <1>5, <3>1, <3>2, <4>1, PlanChange DEF DispatcherTyped
      <4> QED BY <1>3, <1>7, <3>1, <4>2
    <3>3. CASE ~Exhausted(j)
      <4>1. Promise!PutOff(j)
        BY <1>1, <1>2, <1>5, <3>1, <3>3, PlanChange DEF DispatcherTyped
      <4> QED BY <1>3, <1>7, <3>1, <4>1
    <3> QED BY <3>2, <3>3
  <2> QED BY <1>1, <2>1, <2>2, <2>3 DEF Receipts
<1>9. Promise!Settle(j)
  BY <1>2, <1>3, <1>8 DEF Promise!Settle, tick
<1> QED BY <1>1, <1>6, <1>9, PlanTyped DEF DispatcherTyped, Promise!ScheduleNext

\* Commands and administrators decide.
LEMMA AdministerPromised ==
  ASSUME DispatcherTyped, StoreInv', NEW j \in Jobs, Administer(j)
  PROVE  Promise!ScheduleNext
<1>1. job[j] \in Row /\ StoreInv
  BY DEF DispatcherTyped, StoreInv, TypeOK
<1>2. UNCHANGED <<Sent, Answers>>
  BY DEF Administer, Sent, Answers
<1>3. ASSUME NEW row, job' = [job EXCEPT ![j] = row]
      PROVE  job'[j] = row /\ \A i \in Jobs \ {j} : Promise!Stays(i)
  <2>1. \A i \in Jobs \ {j} : job'[i] = job[i]
    BY <1>3 DEF DispatcherTyped, StoreInv, TypeOK
  <2> QED BY <1>1, <1>3, <2>1, PlanChange, RowWritten
<1> DEFINE Others == \A i \in Jobs \ {j} : Promise!Stays(i)
<1>4. ASSUME NEW r \in Replicas, job' = [job EXCEPT ![j] = Rescheduled(r, j)]
      PROVE  Promise!Restarted(j) /\ Others
  <2> DEFINE e == Rescheduled(r, j)
  <2>1. e.status = "scheduled" /\ e.attempt = 0
    BY <1>1, RescheduledFacts
  <2>2. job'[j] = e /\ Others
    BY <1>3, <1>4
  <2> HIDE DEF e
  <2>3. PlanOf(j)'.phase = "active" /\ PlanOf(j)'.tries = 0
    BY <2>1, <2>2, PhaseOf, PlanFields DEF Waiting
  <2> QED BY <1>2, <2>2, <2>3 DEF Promise!Restarted
<1>5. ASSUME NEW k \in Commands, NEW r \in Replicas, Upsert(r, k, j)
      PROVE  Promise!Decide(j) /\ Others
  <2>1. Promise!Order(j, k)
    BY <1>4, <1>5 DEF Upsert, Promise!Order
  <2> QED BY <1>4, <1>5, <2>1 DEF Upsert, Promise!Decide
<1>6. Administrable(j) => PlanOf(j).phase \in {"active", "paused"}
  BY <1>1, PhaseOf, PlanFields DEF Administrable, Row, Statuses, Suspended
<1>7. ASSUME NEW r \in Replicas, Resume(r, j)
      PROVE  Promise!Decide(j) /\ Others
  <2>1. Promise!Resume(j)
    BY <1>4, <1>6, <1>7 DEF Resume, Promise!Resume
  <2> QED BY <1>4, <1>7, <2>1 DEF Resume, Promise!Decide
<1>8. ASSUME NEW k \in Commands, Cancel(k, j)
      PROVE  Promise!Decide(j) /\ Others
  <2> DEFINE u == Unleased(job[j])
             v == job[j].revision + 1
             e == [u EXCEPT !.status = "cancelled", !.attempt = 0, !.nextRunAt = 0, !.revision = v]
  <2>1. u \in Row
    BY <1>1, UnleasedFacts
  <2>2. job'[j] = e /\ Others
    BY <1>3, <1>8 DEF Cancel
  <2> HIDE DEF u, v
  <2>3. e.status = "cancelled" /\ e.attempt = 0 /\ e.nextRunAt = 0
    BY <2>1 DEF Row
  <2> HIDE DEF e
  <2>4. PlanOf(j)' = [phase |-> "cancelled", tick |-> 0, tries |-> 0]
    BY <2>2, <2>3, PhaseOf DEF PlanOf, Suspended
  <2>5. Promise!Withdraw(j, k)
    BY <1>2, <1>8, <2>4 DEF Cancel, Promise!Withdraw
  <2> QED BY <2>2, <2>5 DEF Promise!Decide
<1>9. ASSUME Pause(j)
      PROVE  Promise!Decide(j) /\ Others
  <2> DEFINE u == Unleased(job[j])
             v == job[j].revision + 1
             e == [u EXCEPT !.status = "paused", !.revision = v]
  <2>1. u \in Row /\ u.attempt = job[j].attempt /\ u.nextRunAt = job[j].nextRunAt
    BY <1>1, UnleasedFacts
  <2>2. job'[j] = e /\ Others
    BY <1>3, <1>9 DEF Pause, Paused
  <2> HIDE DEF u, v
  <2>3. e.status = "paused" /\ e.attempt = job[j].attempt /\ e.nextRunAt = job[j].nextRunAt
    BY <2>1 DEF Row
  <2> HIDE DEF e
  <2>4. PlanOf(j)' = [PlanOf(j) EXCEPT !.phase = "paused"]
    BY <2>2, <2>3, PhaseOf DEF PlanOf, Suspended
  <2>5. Promise!Pause(j)
    BY <1>2, <1>6, <1>9, <2>4 DEF Pause, Promise!Pause
  <2> QED BY <2>2, <2>5 DEF Promise!Decide
<1>10. Promise!Decide(j) /\ Others
  BY <1>5, <1>7, <1>8, <1>9 DEF Administer
<1> QED BY <1>1, <1>10, PlanTyped DEF Promise!ScheduleNext

\* Answers come and are lost.
LEMMA CallsPromised ==
  ASSUME DispatcherTyped, UNCHANGED <<job, executed>>,
         NEW c \in calls, Handle(c) \/ Refuse(c) \/ RecordFails(c)
  PROVE  Promise!ScheduleNext
<1>1. \A e \in calls : e \in Call
  BY DEF DispatcherTyped
<1>2. UNCHANGED [j \in Jobs |-> PlanOf(j)]
  BY DEF PlanOf, Phase
<1>3. ASSUME Handle(c) \/ Refuse(c)
      PROVE  Promise!Answer
  <2>1. PICK receipt \in Receipts : calls' = Answered(c, receipt)
    BY <1>3 DEF Handle, Refuse, Receipts
  <2>2. c.receipt = Null
    BY <1>3 DEF Handle, Refuse
  <2> DEFINE n == [c EXCEPT !.receipt = receipt]
  <2>3. n.receipt = receipt /\ n.job = c.job /\ n.scheduledFor = c.scheduledFor
    BY <1>1 DEF Call
  <2>4. receipt # Null
    BY ReceiptAssumption
  <2>5. calls' = (calls \ {c}) \cup {n}
    BY <2>1 DEF Answered
  <2> HIDE DEF n
  <2>6. Sent' \subseteq Sent /\ <<c.job, c.scheduledFor>> \in Sent
    BY <2>2, <2>3, <2>4, <2>5 DEF Sent
  <2>7. Answers' = Answers \cup {<<c.job, c.scheduledFor, Verdict(receipt)>>}
    BY <2>2, <2>3, <2>4, <2>5 DEF Answers
  <2>8. Verdict(receipt) \in Promise!Verdicts
    BY DEF Verdict, Receipts, Promise!Verdicts
  <2> DEFINE s == <<c.job, c.scheduledFor>>
  <2>9. s \in Sent /\ Answers' \in {Answers \cup {<<s[1], s[2], x>>} : x \in Promise!Verdicts}
    BY <2>6, <2>7, <2>8
  <2> HIDE DEF s
  <2> QED BY <1>2, <2>6, <2>9 DEF Promise!Answer
<1>4. ASSUME RecordFails(c)
      PROVE  Promise!Forget
  <2>1. \A e \in calls' : \E f \in calls :
          e.job = f.job /\ e.scheduledFor = f.scheduledFor /\ e.receipt = f.receipt
    <3>1. SUFFICES ASSUME NEW e \in calls'
                   PROVE  \E f \in calls : /\ e.job = f.job /\ e.scheduledFor = f.scheduledFor
                                           /\ e.receipt = f.receipt
      OBVIOUS
    <3>2. PICK f \in calls : e = IF c.current /\ f.replica = c.replica
                                THEN [f EXCEPT !.current = FALSE] ELSE f
      BY <1>4 DEF RecordFails
    <3> QED BY <1>1, <3>2 DEF Call
  <2>2. Sent' \subseteq Sent /\ Answers' \subseteq Answers
    BY <2>1 DEF Sent, Answers
  <2> QED BY <1>2, <2>2 DEF Promise!Forget
<1> QED BY <1>3, <1>4 DEF Promise!ScheduleNext

LEMMA SchedulePromised ==
  ASSUME DispatcherTyped, DispatcherTyped', [DispatcherNext]_vars
  PROVE  [Promise!ScheduleNext]_(Promise!scheduleVars)
<1>1. StoreInv'
  BY DEF DispatcherTyped
<1>2. CASE \E r \in Replicas : RunOnce(r)
  BY <1>1, <1>2, RunPromised
<1>3. CASE \E c \in calls : Record(c)
  BY <1>1, <1>3, RecordPromised
<1>4. CASE \E j \in Jobs : Administer(j)
  BY <1>1, <1>4, AdministerPromised
<1>5. CASE \E c \in calls : Handle(c) \/ Refuse(c) \/ RecordFails(c)
  BY <1>5, CallsPromised DEF Handle, Refuse, RecordFails, storeVars
<1>6. CASE \E r \in Replicas : Crash(r)
  <2>1. UNCHANGED <<job, executed>> /\ calls' \subseteq calls
    BY <1>6 DEF Crash, storeVars
  <2>2. UNCHANGED [j \in Jobs |-> PlanOf(j)]
    BY <2>1 DEF PlanOf, Phase
  <2>3. Sent' \subseteq Sent /\ Answers' \subseteq Answers
    BY <2>1 DEF Sent, Answers
  <2> QED BY <2>1, <2>2, <2>3 DEF Promise!Forget, Promise!ScheduleNext
<1>7. CASE Time \/ UNCHANGED vars
  <2>1. UNCHANGED <<job, executed, calls>>
    BY <1>7 DEF Time, Tick, vars
  <2> QED BY <2>1 DEF Promise!scheduleVars, PlanOf, Phase, Sent, Answers
<1> QED BY <1>2, <1>3, <1>4, <1>5, <1>6, <1>7 DEF DispatcherNext

\* Whatever replicas crash, calls drag on, answers are lost and clocks differ, the
\* owner of a schedule gets what he was promised: ticks at least an interval apart,
\* each left behind only when it was answered; retries under later times and within
\* their number; no job brought back without a decision.
THEOREM DispatcherKeepsSchedule == DispatcherSpec => SchedulePromise
<1>1. DispatcherInit => Promise!ScheduleInit
  <2> SUFFICES ASSUME DispatcherInit PROVE Promise!ScheduleInit
    OBVIOUS
  <2>1. \A j \in Jobs : PlanOf(j) = [phase |-> "none", tick |-> 0, tries |-> 0]
    <3> SUFFICES ASSUME NEW j \in Jobs
                 PROVE  PlanOf(j) = [phase |-> "none", tick |-> 0, tries |-> 0]
      OBVIOUS
    <3>1. job[j].status = "absent" /\ job[j].nextRunAt = 0 /\ job[j].attempt = 0
      BY DEF DispatcherInit, Init
    <3> QED BY <3>1, PhaseOf DEF PlanOf
  <2>2. Sent = {} /\ Answers = {} /\ executed = {}
    BY DEF DispatcherInit, Init, Sent, Answers
  <2> QED BY <2>1, <2>2 DEF Promise!ScheduleInit
<1>2. DispatcherTyped /\ DispatcherTyped' /\ [DispatcherNext]_vars =>
        [Promise!ScheduleNext]_(Promise!scheduleVars)
  BY SchedulePromised
<1> QED BY <1>1, <1>2, DispatcherInvariant, PTL
        DEF DispatcherSpec, SchedulePromise, Promise!ScheduleSpec
=============================================================================
