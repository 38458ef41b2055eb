--------------------- MODULE LifecycleExecutionProofs ---------------------
(***************************************************************************)
(* For any number of workers, plans and phases: the execution keeps what   *)
(* LifecyclePlan promises whatever the workers, the installer and the      *)
(* clock do; and when no two workers share an owner name, one of them at a *)
(* time is inside a phase under a live lease, and the deployment is where  *)
(* the record says.                                                        *)
(***************************************************************************)
EXTENDS LifecycleExecution, TLAPS

\* Each process has an owner name of its own (the default of eg-plugin).
OwnersDiffer == \A v, w \in Workers : OwnerOf[v] = OwnerOf[w] => v = w

-----------------------------------------------------------------------------
(* What the helpers do to the record of a worker                           *)

LEMMA RestingIsWorker == Resting \in Worker
  BY DEF Resting, Worker, Stages

LEMMA OwnersAreOwners == \A w \in Workers : OwnerOf[w] \in Owners /\ OwnerOf[w] # Null
  BY ExecutionAssumption DEF Owners

\* Only the record of w changes, and it becomes e.
Becomes(w, e) == worker' = [worker EXCEPT ![w] = e]

LEMMA BecomesFacts ==
  ASSUME TypeOK, NEW w \in Workers, NEW e \in Worker, Becomes(w, e)
  PROVE  /\ worker' \in [Workers -> Worker]
         /\ worker'[w] = e
         /\ \A v \in Workers : v # w => worker'[v] = worker[v]
  BY DEF TypeOK, Becomes

LEMMA StopsFacts ==
  ASSUME TypeOK, NEW w \in Workers, Stops(w)
  PROVE  /\ worker' \in [Workers -> Worker]
         /\ worker'[w] = Resting
         /\ \A v \in Workers : v # w => worker'[v] = worker[v]
  BY RestingIsWorker, BecomesFacts DEF Stops, Becomes

LEMMA MovesToFacts ==
  ASSUME TypeOK, NEW w \in Workers, NEW stage \in Stages, MovesTo(w, stage)
  PROVE  /\ worker' \in [Workers -> Worker]
         /\ worker'[w].stage = stage
         /\ worker'[w].phase = worker[w].phase
         /\ worker'[w].plan = worker[w].plan
         /\ worker'[w].lease = worker[w].lease
         /\ worker'[w].since = clock
         /\ \A v \in Workers : v # w => worker'[v] = worker[v]
<1> DEFINE e == [worker[w] EXCEPT !.stage = stage, !.since = clock]
<1>1. worker[w] \in Worker /\ clock \in Nat
  BY DEF TypeOK
<1>2. /\ e \in Worker /\ e.stage = stage
      /\ e.phase = worker[w].phase /\ e.plan = worker[w].plan /\ e.lease = worker[w].lease
      /\ e.since = clock
  BY <1>1 DEF Worker
<1>3. Becomes(w, e)
  BY DEF MovesTo, Becomes
<1> HIDE DEF e
<1> QED BY <1>2, <1>3, BecomesFacts

LEMMA LeavesFacts ==
  ASSUME TypeOK, NEW w \in Workers, NEW stage \in Stages, Leaves(w, stage)
  PROVE  /\ worker' \in [Workers -> Worker]
         /\ worker'[w].stage = stage
         /\ worker'[w].phase = worker[w].phase
         /\ \A v \in Workers : v # w => worker'[v] = worker[v]
<1> DEFINE e == [worker[w] EXCEPT !.stage = stage, !.plan = 0, !.since = clock,
                                  !.lease = 0, !.beat = TRUE]
<1>1. worker[w] \in Worker /\ clock \in Nat
  BY DEF TypeOK
<1>2. e \in Worker /\ e.stage = stage /\ e.phase = worker[w].phase
  BY <1>1 DEF Worker
<1>3. Becomes(w, e)
  BY DEF Leaves, Becomes
<1> HIDE DEF e
<1> QED BY <1>2, <1>3, BecomesFacts

LEMMA ContinuesFacts ==
  ASSUME TypeOK, NEW w \in Workers, NEW stage \in Stages, execution' \in Execution,
         Continues(w, stage)
  PROVE  /\ worker' \in [Workers -> Worker]
         /\ worker'[w].stage = stage
         /\ worker'[w].phase = execution'.completed + 1
         /\ \A v \in Workers : v # w => worker'[v] = worker[v]
<1> DEFINE e == [Resting EXCEPT !.stage = stage, !.revision = execution'.revision,
                                !.phase = execution'.completed + 1, !.since = clock]
<1>1. clock \in Nat /\ execution'.revision \in Nat /\ execution'.completed + 1 \in Nat
  BY DEF TypeOK, Execution
<1>2. e \in Worker /\ e.stage = stage /\ e.phase = execution'.completed + 1
  BY <1>1 DEF Worker, Resting
<1>3. Becomes(w, e)
  BY DEF Continues, Becomes
<1> HIDE DEF e
<1> QED BY <1>2, <1>3, BecomesFacts

LEMMA ContinuesPhaseFacts ==
  ASSUME TypeOK, NEW w \in Workers, NEW stage \in Stages, NEW p \in Nat, NEW l \in Nat,
         execution' \in Execution, ContinuesPhase(w, stage, p, l)
  PROVE  /\ worker' \in [Workers -> Worker]
         /\ worker'[w].stage = stage
         /\ worker'[w].phase = worker[w].phase
         /\ worker'[w].plan = p
         /\ worker'[w].lease = l
         /\ worker'[w].since = clock
         /\ \A v \in Workers : v # w => worker'[v] = worker[v]
<1> DEFINE e == [worker[w] EXCEPT !.stage = stage, !.revision = execution'.revision,
                                  !.plan = p, !.since = clock, !.lease = l]
<1>1. worker[w] \in Worker /\ clock \in Nat /\ execution'.revision \in Nat
  BY DEF TypeOK, Execution
<1>2. /\ e \in Worker /\ e.stage = stage
      /\ e.phase = worker[w].phase /\ e.plan = p /\ e.lease = l /\ e.since = clock
  BY <1>1 DEF Worker
<1>3. Becomes(w, e)
  BY DEF ContinuesPhase, Becomes
<1> HIDE DEF e
<1> QED BY <1>2, <1>3, BecomesFacts

-----------------------------------------------------------------------------
(* What the calls do to the stored execution                               *)

LEMMA StampFacts ==
  ASSUME TypeOK, NEW w \in Workers, NEW at \in Stamps(w)
  PROVE  at \in Nat /\ at <= clock
  BY DEF TypeOK, Stamps, Worker

LEMMA ClaimedFacts ==
  ASSUME TypeOK, NEW w \in Workers, NEW at \in Nat
  PROVE  LET e == Claimed(w, at) IN
         /\ e \in Execution
         /\ e.plan = execution.plan /\ e.completed = execution.completed
         /\ e.status = "running" /\ e.owner = OwnerOf[w] /\ e.expiresAt = at + LeaseTime
<1>1. execution \in Execution /\ execution.revision + 1 \in Nat /\ at + LeaseTime \in Nat
  BY ExecutionAssumption DEF TypeOK, Execution
<1>2. OwnerOf[w] \in Owners \cup {Null} /\ "running" \in Statuses
  BY OwnersAreOwners DEF Statuses
<1> QED BY <1>1, <1>2 DEF Claimed, Execution

LEMMA ReleasedFacts ==
  ASSUME TypeOK, NEW status \in Statuses
  PROVE  LET e == Released(status) IN
         /\ e \in Execution
         /\ e.plan = execution.plan /\ e.completed = execution.completed
         /\ e.status = status /\ e.owner = Null
<1>1. execution \in Execution /\ execution.revision + 1 \in Nat
  BY DEF TypeOK, Execution
<1> QED BY <1>1 DEF Released, Execution

LEMMA PhaseCompletedFacts ==
  ASSUME TypeOK
  PROVE  LET e == PhaseCompleted IN
         /\ e \in Execution
         /\ e.plan = execution.plan /\ e.completed = execution.completed + 1
         /\ execution.completed + 1 = Plan[execution.plan].phases =>
              e.status = "succeeded" /\ e.owner = Null
         /\ execution.completed + 1 # Plan[execution.plan].phases =>
              /\ e.status = execution.status /\ e.owner = execution.owner
              /\ e.expiresAt = execution.expiresAt
<1>1. execution \in Execution /\ execution.completed + 1 \in Nat /\ execution.revision + 1 \in Nat
  BY DEF TypeOK, Execution
<1>2. CASE execution.completed + 1 = Plan[execution.plan].phases
  <2> DEFINE r == Released("succeeded")
  <2>1. r \in Execution /\ r.plan = execution.plan /\ r.status = "succeeded" /\ r.owner = Null
    BY ReleasedFacts DEF Statuses
  <2>2. PhaseCompleted = [r EXCEPT !.completed = execution.completed + 1]
    BY <1>2 DEF PhaseCompleted
  <2> HIDE DEF r
  <2> QED BY <1>1, <1>2, <2>1, <2>2 DEF Execution
<1>3. CASE execution.completed + 1 # Plan[execution.plan].phases
  BY <1>1, <1>3 DEF PhaseCompleted, Execution
<1> QED BY <1>2, <1>3

LEMMA FailedStatusFacts == FailedStatus \in {"failed", "manual_intervention"}
  BY DEF FailedStatus

-----------------------------------------------------------------------------
(* The ways the stored execution changes                                   *)

\* The execution is of no later plan than the file, and there is none before the first.
PlanOnFile ==
  /\ planFile \in 0..LastPlan
  /\ execution.plan <= planFile
  /\ execution.plan = 0 => execution.status = "succeeded" /\ execution.owner = Null

FileInv == TypeOK /\ PlanOnFile

\* initialize puts the plan of the file in the place of one that is over.
Replaced ==
  /\ execution.plan # planFile
  /\ execution.status \notin {"queued", "running"}
  /\ execution'.plan = planFile /\ execution'.completed = 0
  /\ execution'.status = "queued" /\ execution'.owner = Null

\* claim and renew: to whoever has the lease, or to anybody when nobody has.
Granted(w) ==
  /\ execution.status \in {"queued", "running", "failed"}
  /\ execution.status = "running" =>
       execution.expiresAt <= clock \/ execution.owner = OwnerOf[w]
  /\ execution'.plan = execution.plan /\ execution'.completed = execution.completed
  /\ execution'.status = "running" /\ execution'.owner = OwnerOf[w]

\* recover, of a lease that is over.
Requeued ==
  /\ execution.status = "running" /\ execution.expiresAt <= clock
  /\ execution'.plan = execution.plan /\ execution'.completed = execution.completed
  /\ execution'.status = "queued" /\ execution'.owner = Null

\* complete, by the holder of the lease.
Advanced(w) ==
  /\ execution.status = "running" /\ execution.owner = OwnerOf[w]
  /\ execution'.plan = execution.plan
  /\ execution'.completed = execution.completed + 1
  /\ IF execution'.completed = Plan[execution.plan].phases
     THEN execution'.status = "succeeded" /\ execution'.owner = Null
     ELSE execution'.status = "running" /\ execution'.owner = execution.owner

\* fail, by the holder of the lease.
Stopped(w) ==
  /\ execution.status = "running" /\ execution.owner = OwnerOf[w]
  /\ execution'.plan = execution.plan /\ execution'.completed = execution.completed
  /\ execution'.status = FailedStatus /\ execution'.owner = Null

Changed(w) == Replaced \/ Granted(w) \/ Requeued \/ Advanced(w) \/ Stopped(w)

WorkerStep(w) ==
  \/ Start(w) \/ Initialize(w) \/ Read(w)
  \/ Recover(w) \/ Claim(w) \/ Renew(w)
  \/ Enter(w) \/ Beat(w) \/ LateBeat(w) \/ Work(w) \/ Confirm(w) \/ WriteReceipt(w)
  \/ Complete(w) \/ Fail(w) \/ GiveUp(w) \/ Crash(w)

\* What every step of w shares: it changes the execution in one of these ways, no record
\* but its own, and the plan file forwards.
Frame(w) ==
  /\ execution' \in Execution
  /\ execution' = execution \/ Changed(w)
  /\ worker' \in [Workers -> Worker]
  /\ \A v \in Workers : v # w => worker'[v] = worker[v]
  /\ planFile' \in Nat /\ planFile' \in 0..LastPlan /\ planFile <= planFile'
  /\ effects' \in [Plans -> SUBSET Nat]
  /\ receipts' \in [Plans -> SUBSET Nat]
  /\ UNCHANGED <<clock, approved>>

LEMMA GrantedByClaimed ==
  ASSUME TypeOK, NEW w \in Workers, NEW at \in Stamps(w),
         execution.status \in {"queued", "running", "failed"},
         execution.status = "running" => LeaseExpired(at) \/ execution.owner = OwnerOf[w],
         execution' = Claimed(w, at)
  PROVE  execution' \in Execution /\ Granted(w)
<1>1. at \in Nat /\ at <= clock /\ clock \in Nat /\ execution.expiresAt \in Nat
  BY StampFacts DEF TypeOK, Execution
<1>2. execution.status = "running" =>
        execution.expiresAt <= clock \/ execution.owner = OwnerOf[w]
  BY <1>1 DEF LeaseExpired
<1> QED BY <1>1, <1>2, ClaimedFacts DEF Granted

\* The steps that leave the execution and the plan file alone.
LEMMA FrameOfOwn ==
  ASSUME FileInv, NEW w \in Workers, UNCHANGED <<clock, approved, planFile, execution>>,
         worker' \in [Workers -> Worker],
         \A v \in Workers : v # w => worker'[v] = worker[v],
         effects' \in [Plans -> SUBSET Nat],
         receipts' \in [Plans -> SUBSET Nat]
  PROVE  Frame(w)
  BY DEF FileInv, PlanOnFile, TypeOK, Frame

\* The steps that write the execution.
LEMMA FrameOfCall ==
  ASSUME FileInv, NEW w \in Workers, UNCHANGED <<clock, approved, effects, receipts, planFile>>,
         execution' \in Execution, execution' = execution \/ Changed(w),
         worker' \in [Workers -> Worker],
         \A v \in Workers : v # w => worker'[v] = worker[v]
  PROVE  Frame(w)
  BY DEF FileInv, PlanOnFile, TypeOK, Frame

\* Every step of a worker is within the frame.
LEMMA StepFrame == ASSUME FileInv, NEW w \in Workers, WorkerStep(w) PROVE Frame(w)
<1>0. /\ TypeOK /\ execution \in Execution /\ clock \in Nat /\ worker \in [Workers -> Worker]
      /\ worker[w] \in Worker /\ execution.status \in Statuses
      /\ effects \in [Plans -> SUBSET Nat] /\ receipts \in [Plans -> SUBSET Nat]
  BY DEF FileInv, TypeOK, Execution
<1>1. CASE Start(w)
  <2> DEFINE e == [Resting EXCEPT !.stage = "initialize"]
  <2>1. e \in Worker
    BY RestingIsWorker DEF Worker, Stages
  <2>2. Becomes(w, e)
    BY <1>1 DEF Start, Becomes
  <2>3. worker' \in [Workers -> Worker] /\ \A v \in Workers : v # w => worker'[v] = worker[v]
    BY <1>0, <2>1, <2>2, BecomesFacts
  <2>4. planFile' \in Nat /\ planFile' \in 0..LastPlan /\ planFile <= planFile'
    BY <1>1, ExecutionAssumption DEF Start, Plans, FileInv, PlanOnFile, TypeOK
  <2> QED BY <1>0, <1>1, <2>3, <2>4 DEF Start, others, Frame
<1>2. CASE Initialize(w)
  <2>1. Reading \in Worker
    BY RestingIsWorker DEF Reading, Worker, Stages
  <2>2. worker' \in [Workers -> Worker] /\ \A v \in Workers : v # w => worker'[v] = worker[v]
    <3>1. Stops(w) \/ Becomes(w, Reading)
      BY <1>2 DEF Initialize, Becomes, Refused
    <3> QED BY <1>0, <2>1, <3>1, BecomesFacts, StopsFacts
  <2>3. execution' \in Execution /\ (execution' = execution \/ Replaced)
    <3>1. CASE UNCHANGED execution
      BY <1>0, <3>1
    <3>2. CASE /\ execution.plan # planFile
               /\ MayReplace(w)
               /\ execution' = [plan |-> planFile, revision |-> 0, status |-> "queued",
                                completed |-> 0, owner |-> Null, expiresAt |-> 0]
      BY <1>0, <3>2 DEF MayReplace, Replaced, Execution, Statuses, TypeOK
    <3> QED BY <1>2, <3>1, <3>2 DEF Initialize, Refused
  <2> QED BY <1>2, <2>2, <2>3, FrameOfCall DEF Initialize, others, Changed
<1>3. CASE Read(w)
  <2>1. Stops(w) \/ Continues(w, "recover") \/ Continues(w, "renew") \/ Continues(w, "claim")
    BY <1>3 DEF Read
  <2>2. worker' \in [Workers -> Worker] /\ \A v \in Workers : v # w => worker'[v] = worker[v]
    BY <1>0, <1>3, <2>1, StopsFacts, ContinuesFacts DEF Read, Stages
  <2> QED BY <1>0, <1>3, <2>2, FrameOfOwn DEF Read, others
<1>4. CASE Recover(w)
  <2>1. PICK at \in Stamps(w) :
          IF Accepts(w) /\ ~Terminal
          THEN /\ execution' = IF LeaseExpired(at) THEN Released("queued") ELSE execution
               /\ Continues(w, IF HoldsLease(w, at) THEN "renew" ELSE "claim")
          ELSE Refused(w)
    BY <1>4 DEF Recover
  <2>2. execution' \in Execution /\ (execution' = execution \/ Requeued)
    <3>1. CASE execution' = execution
      BY <1>0, <3>1
    <3>2. CASE LeaseExpired(at) /\ execution' = Released("queued")
      <4>1. execution.status = "running" /\ execution.expiresAt <= clock
        BY <1>0, <3>2, StampFacts DEF LeaseExpired, Execution
      <4> QED BY <1>0, <3>2, <4>1, ReleasedFacts DEF Requeued, Statuses
    <3> QED BY <2>1, <3>1, <3>2 DEF Refused
  <2>3. worker' \in [Workers -> Worker] /\ \A v \in Workers : v # w => worker'[v] = worker[v]
    <3>1. Stops(w) \/ Continues(w, "renew") \/ Continues(w, "claim")
      BY <2>1 DEF Refused
    <3> QED BY <1>0, <2>2, <3>1, StopsFacts, ContinuesFacts DEF Stages
  <2> QED BY <1>4, <2>2, <2>3, FrameOfCall DEF Recover, others, Changed
<1>5. CASE Claim(w)
  <2>1. PICK at \in Stamps(w) :
          \/ /\ ~Terminal
             /\ execution.status = "running" =>
                  LeaseExpired(at) \/ execution.owner = OwnerOf[w]
             /\ execution' = Claimed(w, at)
             /\ Continues(w, "renew")
          \/ Refused(w)
    BY <1>5 DEF Claim
  <2>2. execution' \in Execution /\ (execution' = execution \/ Granted(w))
    BY <1>0, <2>1, GrantedByClaimed DEF Refused, Terminal, Statuses
  <2>3. worker' \in [Workers -> Worker] /\ \A v \in Workers : v # w => worker'[v] = worker[v]
    BY <1>0, <2>1, <2>2, StopsFacts, ContinuesFacts DEF Refused, Stages
  <2> QED BY <1>5, <2>2, <2>3, FrameOfCall DEF Claim, others, Changed
<1>6. ASSUME NEW stage \in Stages, NEW p \in Nat, NEW at \in Stamps(w), HoldsLease(w, at),
             execution' = Claimed(w, at), ContinuesPhase(w, stage, p, at + LeaseTime),
             UNCHANGED <<clock, approved, effects, receipts, planFile>>
      PROVE  Frame(w)
  <2>1. execution' \in Execution /\ Granted(w)
    BY <1>0, <1>6, GrantedByClaimed DEF HoldsLease
  <2>2. at + LeaseTime \in Nat
    BY <1>0, <1>6, StampFacts, ExecutionAssumption
  <2> QED BY <1>0, <1>6, <2>1, <2>2, ContinuesPhaseFacts, FrameOfCall DEF Changed
<1>7. CASE Renew(w)
  <2>1. PICK at \in Stamps(w) :
          \/ /\ HoldsLease(w, at)
             /\ execution' = Claimed(w, at)
             /\ ContinuesPhase(w, "enter", execution.plan, at + LeaseTime)
          \/ Refused(w)
    BY <1>7 DEF Renew
  <2>2. CASE Refused(w)
    BY <1>0, <1>7, <2>2, StopsFacts, FrameOfOwn DEF Renew, Refused, others
  <2>3. execution.plan \in Nat /\ "enter" \in Stages
    BY <1>0 DEF Execution, Stages
  <2> QED BY <1>6, <1>7, <2>1, <2>2, <2>3 DEF Renew, others
<1>8. CASE Enter(w)
  <2>1. Leaves(w, "complete") \/ MovesTo(w, "work") \/ Leaves(w, "fail")
    BY <1>8 DEF Enter
  <2> QED BY <1>0, <1>8, <2>1, LeavesFacts, MovesToFacts, FrameOfOwn DEF Enter, others, Stages
<1>9. CASE Beat(w)
  <2> DEFINE e == [worker[w] EXCEPT !.beat = FALSE, !.since = clock]
  <2>1. PICK at \in Stamps(w) :
          \/ /\ HoldsLease(w, at)
             /\ execution' = Claimed(w, at)
             /\ ContinuesPhase(w, "work", worker[w].plan, at + LeaseTime)
          \/ /\ Becomes(w, e)
             /\ \/ UNCHANGED execution
                \/ HoldsLease(w, at) /\ execution' = Claimed(w, at)
    BY <1>9 DEF Beat, Becomes
  <2>2. e \in Worker
    BY <1>0 DEF Worker
  <2>3. CASE /\ Becomes(w, e)
             /\ \/ UNCHANGED execution
                \/ HoldsLease(w, at) /\ execution' = Claimed(w, at)
    <3> HIDE DEF e
    <3>1. worker' \in [Workers -> Worker] /\ \A v \in Workers : v # w => worker'[v] = worker[v]
      BY <1>0, <2>2, <2>3, BecomesFacts
    <3>2. execution' \in Execution /\ (execution' = execution \/ Granted(w))
      BY <1>0, <2>3, GrantedByClaimed DEF HoldsLease
    <3> QED BY <1>9, <3>1, <3>2, FrameOfCall DEF Beat, others, Changed
  <2>4. worker[w].plan \in Nat /\ "work" \in Stages
    BY <1>0 DEF Worker, Stages
  <2> HIDE DEF e
  <2> QED BY <1>6, <1>9, <2>1, <2>3, <2>4 DEF Beat, others
<1>10. CASE LateBeat(w)
  <2>1. PICK at \in Stamps(w) : HoldsLease(w, at) /\ execution' = Claimed(w, at)
    BY <1>10 DEF LateBeat
  <2>2. execution' \in Execution /\ Granted(w)
    BY <1>0, <2>1, GrantedByClaimed DEF HoldsLease
  <2> QED BY <1>0, <1>10, <2>2, FrameOfCall DEF LateBeat, others, Changed
<1>11. CASE Work(w)
  <2>1. MovesTo(w, "worked") \/ Leaves(w, "fail")
    BY <1>11 DEF Work
  <2>2. worker' \in [Workers -> Worker] /\ \A v \in Workers : v # w => worker'[v] = worker[v]
    BY <1>0, <2>1, LeavesFacts, MovesToFacts DEF Stages
  <2>3. effects' \in [Plans -> SUBSET Nat]
    BY <1>0, <1>11 DEF Work, Worker
  <2> QED BY <1>0, <1>11, <2>2, <2>3, FrameOfOwn DEF Work
<1>12. CASE Confirm(w)
  <2>1. PICK at \in Stamps(w) :
          \/ /\ HoldsLease(w, at)
             /\ execution' = Claimed(w, at)
             /\ ContinuesPhase(w, "receipt", worker[w].plan, at + LeaseTime)
          \/ Leaves(w, "fail") /\ UNCHANGED execution
    BY <1>12 DEF Confirm
  <2>2. CASE Leaves(w, "fail") /\ UNCHANGED execution
    BY <1>0, <1>12, <2>2, LeavesFacts, FrameOfOwn DEF Confirm, others, Stages
  <2>3. worker[w].plan \in Nat /\ "receipt" \in Stages
    BY <1>0 DEF Worker, Stages
  <2> QED BY <1>6, <1>12, <2>1, <2>2, <2>3 DEF Confirm, others
<1>13. CASE WriteReceipt(w)
  <2>1. Leaves(w, "complete") \/ Leaves(w, "fail")
    BY <1>13 DEF WriteReceipt
  <2>2. worker' \in [Workers -> Worker] /\ \A v \in Workers : v # w => worker'[v] = worker[v]
    BY <1>0, <2>1, LeavesFacts DEF Stages
  <2>3. receipts' \in [Plans -> SUBSET Nat]
    BY <1>0, <1>13 DEF WriteReceipt, Worker
  <2> QED BY <1>0, <1>13, <2>2, <2>3, FrameOfOwn DEF WriteReceipt
<1>14. ASSUME NEW at \in Nat, Unrecorded(w, at),
              UNCHANGED <<clock, approved, effects, receipts, planFile>>
       PROVE  Frame(w)
  <2>1. UNCHANGED execution /\ (Stops(w) \/ MovesTo(w, "giveUp"))
    BY <1>14 DEF Unrecorded, Refused
  <2> QED BY <1>0, <1>14, <2>1, StopsFacts, MovesToFacts, FrameOfOwn DEF Stages
<1>15. CASE Complete(w)
  <2>1. PICK at \in Stamps(w) :
          \/ /\ HoldsLease(w, at)
             /\ execution' = PhaseCompleted
             /\ Stops(w) \/ Continues(w, "renew")
          \/ Unrecorded(w, at)
    BY <1>15 DEF Complete
  <2>2. CASE /\ HoldsLease(w, at)
             /\ execution' = PhaseCompleted
             /\ Stops(w) \/ Continues(w, "renew")
    <3>1. execution' \in Execution /\ Advanced(w)
      BY <1>0, <2>2, PhaseCompletedFacts DEF HoldsLease, Advanced
    <3>2. worker' \in [Workers -> Worker] /\ \A v \in Workers : v # w => worker'[v] = worker[v]
      BY <1>0, <2>2, <3>1, StopsFacts, ContinuesFacts DEF Stages
    <3> QED BY <1>15, <3>1, <3>2, FrameOfCall DEF Complete, others, Changed
  <2> QED BY <1>0, <1>14, <1>15, <2>1, <2>2, StampFacts DEF Complete, others
<1>16. CASE Fail(w)
  <2>1. PICK at \in Stamps(w) :
          \/ HoldsLease(w, at) /\ execution' = Released(FailedStatus) /\ Stops(w)
          \/ Unrecorded(w, at)
    BY <1>16 DEF Fail
  <2>2. CASE HoldsLease(w, at) /\ execution' = Released(FailedStatus) /\ Stops(w)
    <3>1. FailedStatus \in Statuses
      BY FailedStatusFacts DEF Statuses
    <3>2. execution' \in Execution /\ Stopped(w)
      BY <1>0, <2>2, <3>1, ReleasedFacts DEF HoldsLease, Stopped
    <3> QED BY <1>0, <1>16, <2>2, <3>2, StopsFacts, FrameOfCall DEF Fail, others, Changed
  <2> QED BY <1>0, <1>14, <1>16, <2>1, <2>2, StampFacts DEF Fail, others
<1>17. CASE GiveUp(w)
  <2>1. execution' \in Execution /\ (execution' = execution \/ Requeued)
    <3>1. CASE LeaseExpired(clock)
      BY <1>0, <1>17, <3>1, ReleasedFacts DEF GiveUp, LeaseExpired, Requeued, Statuses
    <3> QED BY <1>0, <1>17, <3>1 DEF GiveUp
  <2> QED BY <1>0, <1>17, <2>1, StopsFacts, FrameOfCall DEF GiveUp, others, Changed
<1>18. CASE Crash(w)
  BY <1>0, <1>18, StopsFacts, FrameOfOwn DEF Crash, others
<1> QED BY <1>1, <1>2, <1>3, <1>4, <1>5, <1>7, <1>8, <1>9, <1>10, <1>11, <1>12, <1>13,
           <1>15, <1>16, <1>17, <1>18 DEF WorkerStep

-----------------------------------------------------------------------------
(* Types, and the plan under way                                            *)

LEMMA InitFile == Init => FileInv
<1> SUFFICES ASSUME Init PROVE FileInv
  OBVIOUS
<1>1. execution \in Execution
  BY DEF Init, Execution, Statuses
<1>2. worker \in [Workers -> Worker]
  BY RestingIsWorker DEF Init
<1>3. PlanOnFile
  BY ExecutionAssumption DEF Init, PlanOnFile
<1> QED BY <1>1, <1>2, <1>3 DEF Init, FileInv, TypeOK

\* The plan of the execution stays behind the one of the file, also when it is replaced.
LEMMA FrameKeepsFile == ASSUME FileInv, NEW w \in Workers, Frame(w) PROVE FileInv'
<1>1. TypeOK'
  BY DEF FileInv, TypeOK, Frame
<1>2. /\ execution.plan \in Nat /\ planFile \in Nat /\ planFile' \in Nat
      /\ execution'.plan \in Nat /\ execution.plan <= planFile /\ planFile <= planFile'
  BY DEF FileInv, PlanOnFile, TypeOK, Frame, Execution
<1>3. execution'.plan <= planFile'
  BY <1>2 DEF Frame, Changed, Replaced, Granted, Requeued, Advanced, Stopped
<1>4. ASSUME execution'.plan = 0
      PROVE  execution'.status = "succeeded" /\ execution'.owner = Null
  <2>1. CASE Replaced
    BY <1>2, <1>4, <2>1 DEF Replaced
  <2>2. CASE execution'.plan = execution.plan
    <3>1. execution.status = "succeeded" /\ execution.owner = Null
      BY <1>4, <2>2 DEF FileInv, PlanOnFile
    <3> QED BY <2>2, <3>1 DEF Frame, Changed, Replaced, Granted, Requeued, Advanced, Stopped
  <2> QED BY <2>1, <2>2 DEF Frame, Changed, Granted, Requeued, Advanced, Stopped
<1> QED BY <1>1, <1>3, <1>4 DEF FileInv, PlanOnFile, Frame

\* A step is one of a worker, or of the installer, or of the clock.
LEMMA StepCases ==
  ASSUME [Next]_vars
  PROVE  \/ \E w \in Workers : WorkerStep(w)
         \/ Approve \/ WritePlan \/ Tick \/ UNCHANGED vars
  BY DEF Next, WorkerStep

\* What the installer and the clock do.
LEMMA OutsideFacts ==
  ASSUME FileInv, Approve \/ WritePlan \/ Tick \/ UNCHANGED vars
  PROVE  /\ UNCHANGED <<execution, worker, effects, receipts>>
         /\ clock' \in Nat /\ clock <= clock'
         /\ approved' \in BOOLEAN
         /\ planFile' \in 0..LastPlan /\ planFile' \in Nat /\ planFile <= planFile'
<1>1. clock \in Nat /\ planFile \in 0..LastPlan /\ approved \in BOOLEAN /\ LastPlan \in Nat
  BY ExecutionAssumption DEF FileInv, TypeOK, PlanOnFile
<1>2. CASE Approve
  BY <1>1, <1>2 DEF Approve
<1>3. CASE WritePlan
  <2>1. planFile' = planFile \/ (planFile' = planFile + 1 /\ planFile' \in Plans)
    BY <1>1, <1>3 DEF WritePlan
  <2>2. planFile' \in 0..LastPlan /\ planFile' \in Nat /\ planFile <= planFile'
    BY <1>1, <2>1 DEF Plans
  <2>3. UNCHANGED <<clock, execution, worker, effects, receipts>> /\ approved' \in BOOLEAN
    BY <1>3 DEF WritePlan
  <2> QED BY <1>1, <2>2, <2>3
<1>4. CASE Tick
  BY <1>1, <1>4 DEF Tick
<1>5. CASE UNCHANGED vars
  BY <1>1, <1>5 DEF vars
<1> QED BY <1>2, <1>3, <1>4, <1>5

LEMMA NextFile == FileInv /\ [Next]_vars => FileInv'
<1> SUFFICES ASSUME FileInv, [Next]_vars PROVE FileInv'
  OBVIOUS
<1>1. ASSUME NEW w \in Workers, WorkerStep(w) PROVE FileInv'
  BY <1>1, StepFrame, FrameKeepsFile
<1>2. CASE Approve \/ WritePlan \/ Tick \/ UNCHANGED vars
  <2>1. /\ UNCHANGED <<execution, worker, effects, receipts>>
        /\ clock' \in Nat /\ approved' \in BOOLEAN
        /\ planFile' \in 0..LastPlan /\ planFile' \in Nat /\ planFile <= planFile'
    BY <1>2, OutsideFacts
  <2>2. execution.plan \in Nat /\ planFile \in Nat
    BY DEF FileInv, TypeOK, Execution
  <2>3. TypeOK'
    BY <2>1 DEF FileInv, TypeOK
  <2> QED BY <2>1, <2>2, <2>3 DEF FileInv, PlanOnFile
<1> QED BY <1>1, <1>2, StepCases

\* Every part of the state keeps its type, and the execution its place behind the plan
\* file (the files and calls of executionStore.ts).
THEOREM FileInvariant == Spec => []FileInv
<1>1. Init => FileInv
  BY InitFile
<1>2. FileInv /\ [Next]_vars => FileInv'
  BY NextFile
<1> QED BY <1>1, <1>2, PTL DEF Spec

\* Type correctness of the execution, the plan file and the workers.
THEOREM TypesHold == Spec => []TypeOK
<1>1. FileInv => TypeOK
  BY DEF FileInv
<1> QED BY <1>1, FileInvariant, PTL

-----------------------------------------------------------------------------
(* The execution implements LifecyclePlan                                   *)

LEMMA InitPromised == Init => Promise!PlanInit
  BY DEF Init, Promise!PlanInit

\* Each way the execution changes is a step of the plan, or shows nothing.
LEMMA StepPromised == FileInv /\ [Next]_vars => [Promise!PlanNext]_(Promise!planVars)
<1> SUFFICES ASSUME FileInv, [Next]_vars PROVE [Promise!PlanNext]_(Promise!planVars)
  OBVIOUS
<1>0. /\ execution \in Execution /\ execution.status \in Statuses
      /\ execution.plan \in Nat /\ execution.completed \in Nat
  BY DEF FileInv, TypeOK, Execution
<1>1. ASSUME NEW w \in Workers, WorkerStep(w)
      PROVE  execution' = execution \/ Changed(w)
  BY <1>1, StepFrame DEF Frame
<1>2. CASE execution' = execution
  BY <1>2 DEF Promise!planVars
<1>3. CASE Replaced
  <2>1. planFile \in Nat /\ planFile \in 0..LastPlan /\ execution.plan < planFile
    BY <1>0, <1>3, ExecutionAssumption DEF Replaced, FileInv, PlanOnFile
  <2>2. planFile \in DOMAIN Plan /\ planFile > execution.plan
    BY <1>0, <2>1, ExecutionAssumption DEF Plans
  <2>3. execution.status \notin {"queued", "running"} /\ execution.status # "open"
    BY <1>0, <1>3 DEF Replaced, Statuses
  <2>4. \E p \in DOMAIN Plan : p > execution.plan /\ execution'.plan = p
    BY <1>3, <2>2 DEF Replaced
  <2>5. Promise!Begin
    BY <1>3, <2>3, <2>4 DEF Replaced, Promise!Begin
  <2> QED BY <2>5 DEF Promise!PlanNext
<1>4. ASSUME NEW w \in Workers, Granted(w)
      PROVE  Promise!Retry \/ UNCHANGED Promise!planVars
  BY <1>0, <1>4 DEF Granted, Promise!Retry, Promise!planVars
<1>5. CASE Requeued
  BY <1>0, <1>5 DEF Requeued, Promise!planVars
<1>6. ASSUME NEW w \in Workers, Advanced(w) PROVE Promise!Advance
  BY <1>0, <1>6 DEF Advanced, Promise!Advance
<1>7. ASSUME NEW w \in Workers, Stopped(w) PROVE Promise!Stop
  BY <1>0, <1>7 DEF Stopped, FailedStatus, Promise!Stop
<1>8. CASE Approve \/ WritePlan \/ Tick \/ UNCHANGED vars
  BY <1>2, <1>8, OutsideFacts
<1> QED BY <1>1, <1>2, <1>3, <1>4, <1>5, <1>6, <1>7, <1>8, StepCases
           DEF Changed, Promise!PlanNext

\* Plans are carried out, stopped and followed by the next as LifecyclePlan says, whatever
\* the workers, the installer, crashes and the clock do (execution.ts, executionRunner.ts).
THEOREM ExecutionKeepsPromise == Spec => PlanPromise
<1>1. Init => Promise!PlanInit
  BY InitPromised
<1>2. FileInv /\ [Next]_vars => [Promise!PlanNext]_(Promise!planVars)
  BY StepPromised
<1> QED BY <1>1, <1>2, FileInvariant, PTL DEF Spec, PlanPromise, Promise!PlanSpec

-----------------------------------------------------------------------------
(* Owners of their own: one worker at a time, and phases in their order     *)

InPhase(w) == worker[w].stage \in {"enter", "work", "worked", "receipt"}

\* The lease a worker counts on is stored, or a later one whose answer did not reach it.
LeaseKept(w) ==
  InPhase(w) =>
    /\ worker[w].since <= clock
    /\ worker[w].lease <= worker[w].since + LeaseTime
    /\ worker[w].lease > clock =>
         /\ execution.status = "running"
         /\ execution.owner = OwnerOf[w]
         /\ execution.expiresAt >= worker[w].lease

\* A worker in a phase, also one that has long lost its lease, has the plan of the
\* execution or an earlier one, and of that plan no phase ahead of the next.
PhaseKnown(w) ==
  InPhase(w) =>
    /\ worker[w].plan \in Plans
    /\ worker[w].plan <= execution.plan
    /\ worker[w].phase # 0
    /\ worker[w].plan = execution.plan => worker[w].phase <= execution.completed + 1

WorkDone(w) ==
  worker[w].stage \in {"worked", "receipt"} => worker[w].phase \in effects[worker[w].plan]

\* The worker the execution belongs to knows which phase is next.
OwnerKnows(w) ==
  execution.owner = OwnerOf[w] =>
    /\ InPhase(w) => worker[w].plan = execution.plan
    /\ worker[w].stage = "renew" =>
         worker[w].phase # 0 /\ worker[w].phase <= execution.completed + 1
    /\ worker[w].stage = "complete" => worker[w].phase \in effects[execution.plan]

WorkerKept(w) == LeaseKept(w) /\ PhaseKnown(w) /\ WorkDone(w) /\ OwnerKnows(w)

\* Receipts are of work done, later plans are untouched, and the plan under way is at or
\* one phase ahead of its record.
Deployed ==
  /\ \A p \in Plans : receipts[p] \subseteq effects[p]
  /\ \A p \in Plans : p > execution.plan => effects[p] = {}
  /\ EffectsTrackRecord

Kept == FileInv /\ (\A w \in Workers : WorkerKept(w)) /\ Deployed

LEMMA InitKept == Init => Kept
<1> SUFFICES ASSUME Init PROVE Kept
  OBVIOUS
<1>1. ASSUME NEW w \in Workers PROVE WorkerKept(w)
  BY DEF Init, Resting, WorkerKept, LeaseKept, PhaseKnown, WorkDone, OwnerKnows, InPhase
<1>2. Deployed
  BY DEF Init, Deployed, EffectsTrackRecord
<1> QED BY <1>1, <1>2, InitFile DEF Kept

\* A step of w takes nothing from another worker: not its lease while it lasts, nor its
\* place in the plan.
LEMMA OthersKept ==
  ASSUME FileInv, OwnersDiffer, NEW w \in Workers, NEW v \in Workers, v # w,
         WorkerKept(v), Frame(w), \A p \in Plans : effects[p] \subseteq effects'[p]
  PROVE  WorkerKept(v)'
<1>1. /\ worker'[v] = worker[v] /\ clock' = clock /\ OwnerOf[v] # OwnerOf[w]
      /\ OwnerOf[v] # Null
  BY OwnersAreOwners DEF Frame, OwnersDiffer
<1>2. /\ worker[v].lease \in Nat /\ clock \in Nat /\ execution.expiresAt \in Nat
      /\ worker[v].plan \in Nat /\ worker[v].phase \in Nat
      /\ execution.plan \in Nat /\ execution'.plan \in Nat /\ planFile \in Nat
      /\ execution.completed \in Nat /\ execution'.completed \in Nat
  BY DEF FileInv, TypeOK, Worker, Execution, Frame
<1>3. ASSUME InPhase(v), worker[v].lease > clock PROVE execution' = execution
  <2>1. execution.status = "running" /\ execution.owner = OwnerOf[v]
        /\ ~(execution.expiresAt <= clock)
    BY <1>2, <1>3 DEF WorkerKept, LeaseKept
  <2> QED BY <1>1, <2>1 DEF Frame, Changed, Replaced, Granted, Requeued, Advanced, Stopped
<1>4. LeaseKept(v)'
  BY <1>1, <1>3 DEF WorkerKept, LeaseKept, InPhase
<1>5. PhaseKnown(v)'
  <2>1. \/ execution'.plan > execution.plan
        \/ /\ execution'.plan = execution.plan
           /\ execution'.completed >= execution.completed
    <3>1. CASE execution' = execution
      BY <1>2, <3>1
    <3>2. CASE Replaced
      BY <1>2, <3>2 DEF Replaced, FileInv, PlanOnFile
    <3>3. CASE Granted(w) \/ Requeued \/ Stopped(w)
      BY <1>2, <3>3 DEF Granted, Requeued, Stopped
    <3>4. CASE Advanced(w)
      BY <1>2, <3>4 DEF Advanced
    <3> QED BY <3>1, <3>2, <3>3, <3>4 DEF Frame, Changed
  <2> QED BY <1>1, <1>2, <2>1 DEF WorkerKept, PhaseKnown, InPhase
<1>6. WorkDone(v)'
  BY <1>1 DEF WorkerKept, WorkDone, PhaseKnown, InPhase
<1>7. OwnerKnows(v)'
  <2> SUFFICES ASSUME execution'.owner = OwnerOf[v] PROVE OwnerKnows(v)'
    BY <1>1 DEF OwnerKnows
  <2>1. execution' = execution
    BY <1>1 DEF Frame, Changed, Replaced, Granted, Requeued, Advanced, Stopped
  <2>2. execution.plan \in Plans
    <3>1. execution.plan # 0
      BY <1>1, <2>1 DEF FileInv, PlanOnFile
    <3>2. execution.plan <= planFile /\ planFile \in 0..LastPlan
      BY DEF FileInv, PlanOnFile
    <3> QED BY <1>2, <3>1, <3>2, ExecutionAssumption DEF Plans
  <2> QED BY <1>1, <2>1, <2>2 DEF WorkerKept, OwnerKnows, InPhase
<1> QED BY <1>4, <1>5, <1>6, <1>7 DEF WorkerKept

\* From one step of a phase to the next, between the calls of the store.
LEMMA MovedKept ==
  ASSUME FileInv, NEW w \in Workers, WorkerKept(w), InPhase(w),
         UNCHANGED <<clock, execution>>,
         worker'[w].lease = worker[w].lease, worker'[w].since = clock
  PROVE  LeaseKept(w)'
<1>1. /\ {clock, worker[w].since, worker[w].lease} \subseteq Nat /\ LeaseTime \in Nat
      /\ worker[w].since <= clock /\ worker[w].lease <= worker[w].since + LeaseTime
  BY ExecutionAssumption DEF FileInv, TypeOK, Worker, WorkerKept, LeaseKept
<1>2. clock <= clock /\ worker[w].lease <= clock + LeaseTime
  BY <1>1
<1> QED BY <1>2 DEF WorkerKept, LeaseKept

\* Outside of phases and without claim to the next one there is nothing to keep.
Outside == {"idle", "initialize", "read", "recover", "claim", "fail", "giveUp"}

LEMMA OutsideKept ==
  ASSUME NEW w \in Workers, worker'[w].stage \in Outside PROVE WorkerKept(w)'
  BY DEF Outside, WorkerKept, LeaseKept, PhaseKnown, WorkDone, OwnerKnows, InPhase

\* About to renew the lease before the phase that is next.
LEMMA RenewKept ==
  ASSUME FileInv, NEW w \in Workers, execution' \in Execution,
         worker'[w].stage = "renew", worker'[w].phase = execution'.completed + 1
  PROVE  WorkerKept(w)'
<1>1. execution'.completed \in Nat
  BY DEF Execution
<1>2. worker'[w].phase # 0 /\ worker'[w].phase <= execution'.completed + 1
  BY <1>1
<1> QED BY <1>2 DEF WorkerKept, LeaseKept, PhaseKnown, WorkDone, OwnerKnows, InPhase

\* In a phase of the plan under way, with the lease just granted.
LEMMA GrantKept ==
  ASSUME FileInv, NEW w \in Workers, NEW at \in Nat, HoldsLease(w, at),
         execution' = Claimed(w, at), execution.plan \in Plans,
         worker'[w].stage \in {"enter", "work", "receipt"},
         worker'[w].plan = execution.plan, worker'[w].lease = at + LeaseTime,
         at <= clock, worker'[w].since = clock, UNCHANGED clock,
         worker'[w].phase # 0, worker'[w].phase <= execution.completed + 1,
         worker'[w].stage = "receipt" => worker'[w].phase \in effects'[execution.plan]
  PROVE  WorkerKept(w)'
<1>1. /\ execution'.plan = execution.plan /\ execution'.completed = execution.completed
      /\ execution'.status = "running" /\ execution'.owner = OwnerOf[w]
      /\ execution'.expiresAt = at + LeaseTime
  BY ClaimedFacts DEF FileInv
<1>2. execution.plan \in Nat /\ execution.plan <= execution.plan
  BY DEF FileInv, TypeOK, Execution
<1>3. LeaseKept(w)'
  BY <1>1, ExecutionAssumption DEF LeaseKept, FileInv, TypeOK
<1>4. PhaseKnown(w)'
  BY <1>1, <1>2 DEF PhaseKnown
<1>5. WorkDone(w)'
  BY <1>1 DEF WorkDone
<1>6. OwnerKnows(w)'
  BY <1>1 DEF OwnerKnows, InPhase
<1> QED BY <1>3, <1>4, <1>5, <1>6 DEF WorkerKept

\* The execution belongs to a plan when it has an owner.
LEMMA OwnedHasPlan ==
  ASSUME FileInv, execution.owner # Null PROVE execution.plan \in Plans
<1>1. execution.plan # 0 /\ execution.plan <= planFile /\ planFile \in 0..LastPlan
  BY DEF FileInv, PlanOnFile
<1>2. execution.plan \in Nat
  BY DEF FileInv, TypeOK, Execution
<1> QED BY <1>1, <1>2, ExecutionAssumption DEF Plans

\* The steps that do nothing to the deployment; one that records a phase finds it done.
LEMMA DeployedByRecord ==
  ASSUME FileInv, NEW w \in Workers, Deployed, Frame(w), UNCHANGED effects,
         \A p \in Plans : receipts'[p] \subseteq effects[p],
         Advanced(w) => execution.completed + 1 \in effects[execution.plan]
  PROVE  Deployed'
<1>1. /\ execution.plan \in Nat /\ execution'.plan \in Nat /\ planFile \in Nat
      /\ execution.completed \in Nat /\ execution.plan <= planFile
  BY DEF FileInv, PlanOnFile, TypeOK, Execution, Frame
<1>2. execution.plan <= execution'.plan
  BY <1>1 DEF Frame, Changed, Replaced, Granted, Requeued, Advanced, Stopped
<1>3. \A p \in Plans : p > execution'.plan => effects'[p] = {}
  BY <1>1, <1>2 DEF Deployed, Plans
<1>4. EffectsTrackRecord'
  <2>1. CASE execution' = execution
    BY <2>1 DEF Deployed, EffectsTrackRecord
  <2>2. CASE Replaced
    <3>1. planFile \in Plans /\ planFile > execution.plan
      BY <1>1, <2>2, ExecutionAssumption DEF Replaced, FileInv, PlanOnFile, Plans
    <3>2. effects'[execution'.plan] = {} /\ execution'.completed = 0
      BY <2>2, <3>1 DEF Replaced, Deployed
    <3>3. 1..0 = {}
      OBVIOUS
    <3> QED BY <3>2, <3>3 DEF EffectsTrackRecord
  <2>3. CASE Granted(w) \/ Requeued \/ Stopped(w)
    BY <2>3 DEF Granted, Requeued, Stopped, Deployed, EffectsTrackRecord
  <2>4. CASE Advanced(w)
    <3>1. execution'.plan = execution.plan /\ execution'.completed = execution.completed + 1
      BY <2>4 DEF Advanced
    <3>2. execution.plan # 0
      BY <2>4, OwnersAreOwners DEF Advanced, FileInv, PlanOnFile
    <3>3. effects[execution.plan] \in {1..execution.completed, 1..execution.completed + 1}
      BY <3>2 DEF Deployed, EffectsTrackRecord
    <3>4. execution.completed + 1 \notin 1..execution.completed
      BY <1>1
    <3>5. effects[execution.plan] = 1..execution.completed + 1
      BY <2>4, <3>3, <3>4
    <3> QED BY <3>1, <3>5 DEF EffectsTrackRecord
  <2> QED BY <2>1, <2>2, <2>3, <2>4 DEF Frame, Changed
<1> QED BY <1>3, <1>4 DEF Deployed

\* The work of a phase, whenever it takes effect.
LEMMA DeployedByWork ==
  ASSUME FileInv, NEW w \in Workers, Deployed, UNCHANGED <<execution, receipts>>,
         worker[w].stage = "work", PhaseKnown(w),
         effects' = [effects EXCEPT ![worker[w].plan] = @ \cup {worker[w].phase}]
  PROVE  Deployed'
<1> DEFINE p == worker[w].plan
           n == worker[w].phase
<1>1. /\ p \in Plans /\ p <= execution.plan /\ n # 0
      /\ p = execution.plan => n <= execution.completed + 1
  BY DEF PhaseKnown, InPhase
<1>2. n \in Nat /\ execution.completed \in Nat /\ execution.plan \in Nat /\ p \in Nat
  BY DEF FileInv, TypeOK, Worker, Execution
<1>3. effects'[p] = effects[p] \cup {n} /\ \A q \in Plans : q # p => effects'[q] = effects[q]
  BY <1>1 DEF FileInv, TypeOK
<1> HIDE DEF p, n
<1>4. \A q \in Plans : receipts'[q] \subseteq effects'[q]
  BY <1>3 DEF Deployed
<1>5. \A q \in Plans : q > execution.plan => effects'[q] = {}
  BY <1>1, <1>2, <1>3 DEF Deployed
<1>6. EffectsTrackRecord'
  <2>1. CASE p # execution.plan
    <3> SUFFICES ASSUME execution.plan # 0
                 PROVE  effects'[execution.plan] \in
                          {1..execution.completed, 1..execution.completed + 1}
      BY DEF EffectsTrackRecord
    <3>1. execution.plan <= planFile /\ planFile \in 0..LastPlan
      BY DEF FileInv, PlanOnFile
    <3>2. execution.plan \in Plans
      BY <1>2, <3>1, ExecutionAssumption DEF Plans
    <3> QED BY <1>3, <2>1, <3>2 DEF Deployed, EffectsTrackRecord
  <2>2. CASE p = execution.plan
    <3>1. n \in 1..execution.completed + 1
      BY <1>1, <1>2, <2>2
    <3>2. execution.plan # 0
      BY <1>1, <1>2, <2>2, ExecutionAssumption DEF Plans
    <3>3. CASE effects[p] = 1..execution.completed + 1
      <4>1. effects'[p] = 1..execution.completed + 1
        BY <1>3, <3>1, <3>3
      <4> QED BY <2>2, <4>1 DEF EffectsTrackRecord
    <3>4. CASE effects[p] = 1..execution.completed
      <4>1. \/ n \in 1..execution.completed
            \/ n = execution.completed + 1
        BY <1>2, <3>1
      <4>2. 1..execution.completed + 1 = 1..execution.completed \cup {execution.completed + 1}
        BY <1>2
      <4>3. effects'[p] \in {1..execution.completed, 1..execution.completed + 1}
        BY <1>3, <3>4, <4>1, <4>2
      <4> QED BY <2>2, <4>3 DEF EffectsTrackRecord
    <3> QED BY <2>2, <3>2, <3>3, <3>4 DEF Deployed, EffectsTrackRecord
  <2> QED BY <2>1, <2>2
<1> QED BY <1>4, <1>5, <1>6 DEF Deployed

\* A step of w keeps what is known of w and of the deployment.
LEMMA OwnKept ==
  ASSUME Kept, NEW w \in Workers, WorkerStep(w), Frame(w)
  PROVE  WorkerKept(w)' /\ Deployed'
<1>0. /\ FileInv /\ TypeOK /\ WorkerKept(w) /\ Deployed /\ worker[w] \in Worker
      /\ execution \in Execution /\ execution' \in Execution /\ clock \in Nat
      /\ execution.completed \in Nat /\ execution.plan \in Nat
  BY DEF Kept, FileInv, TypeOK, Frame, Execution
<1>1. ASSUME UNCHANGED <<effects, receipts>>, ~Advanced(w) PROVE Deployed'
  BY <1>0, <1>1, DeployedByRecord DEF Deployed
<1>2. ASSUME UNCHANGED execution PROVE ~Advanced(w)
  BY <1>0, <1>2 DEF Advanced
<1>3. ASSUME NEW at \in Nat, execution' = Claimed(w, at) PROVE ~Advanced(w)
  BY <1>0, <1>3, ClaimedFacts DEF Advanced
<1>4. ASSUME NEW status \in Statuses, execution' = Released(status) PROVE ~Advanced(w)
  BY <1>0, <1>4, ReleasedFacts DEF Advanced
<1>5. ASSUME NEW at, HoldsLease(w, at)
      PROVE  /\ execution.owner = OwnerOf[w] /\ execution.plan \in Plans
             /\ InPhase(w) => worker[w].plan = execution.plan
  BY <1>0, <1>5, OwnersAreOwners, OwnedHasPlan DEF HoldsLease, WorkerKept, OwnerKnows
<1>6. CASE Start(w)
  <2>1. worker'[w].stage \in Outside
    BY <1>0, <1>6 DEF Start, TypeOK, Resting, Outside
  <2> QED BY <1>1, <1>2, <1>6, <2>1, OutsideKept DEF Start, others
<1>7. CASE Initialize(w)
  <2>1. worker'[w].stage \in Outside
    BY <1>0, <1>7 DEF Initialize, Refused, Stops, Reading, TypeOK, Resting, Outside
  <2>2. ~Advanced(w)
    BY <1>0, <1>7 DEF Initialize, Refused, MayReplace, Advanced
  <2> QED BY <1>1, <1>7, <2>1, <2>2, OutsideKept DEF Initialize, others
<1>8. CASE Read(w)
  <2>1. Stops(w) \/ Continues(w, "recover") \/ Continues(w, "renew") \/ Continues(w, "claim")
    BY <1>8 DEF Read
  <2>2. \/ worker'[w].stage \in Outside
        \/ worker'[w].stage = "renew" /\ worker'[w].phase = execution'.completed + 1
    BY <1>0, <2>1, StopsFacts, ContinuesFacts DEF Stages, Outside, Resting
  <2> QED BY <1>0, <1>1, <1>2, <1>8, <2>2, OutsideKept, RenewKept DEF Read, others
<1>9. CASE Recover(w)
  <2>1. PICK at \in Stamps(w) :
          /\ execution' = execution \/ execution' = Released("queued")
          /\ Stops(w) \/ Continues(w, "renew") \/ Continues(w, "claim")
    BY <1>9 DEF Recover, Refused
  <2>2. \/ worker'[w].stage \in Outside
        \/ worker'[w].stage = "renew" /\ worker'[w].phase = execution'.completed + 1
    BY <1>0, <2>1, StopsFacts, ContinuesFacts DEF Stages, Outside, Resting
  <2>3. ~Advanced(w)
    BY <1>2, <1>4, <2>1 DEF Statuses
  <2> QED BY <1>0, <1>1, <1>9, <2>2, <2>3, OutsideKept, RenewKept DEF Recover, others
<1>10. CASE Claim(w)
  <2>1. PICK at \in Stamps(w) :
          \/ execution' = Claimed(w, at) /\ Continues(w, "renew")
          \/ UNCHANGED execution /\ Stops(w)
    BY <1>10 DEF Claim, Refused
  <2>2. \/ worker'[w].stage \in Outside
        \/ worker'[w].stage = "renew" /\ worker'[w].phase = execution'.completed + 1
    BY <1>0, <2>1, StopsFacts, ContinuesFacts DEF Stages, Outside, Resting
  <2>3. ~Advanced(w)
    BY <1>0, <1>2, <1>3, <2>1, StampFacts
  <2> QED BY <1>0, <1>1, <1>10, <2>2, <2>3, OutsideKept, RenewKept DEF Claim, others
<1>11. CASE Renew(w)
  <2>1. PICK at \in Stamps(w) :
          \/ /\ HoldsLease(w, at)
             /\ execution' = Claimed(w, at)
             /\ ContinuesPhase(w, "enter", execution.plan, at + LeaseTime)
          \/ UNCHANGED execution /\ Stops(w)
    BY <1>11 DEF Renew, Refused
  <2>2. CASE UNCHANGED execution /\ Stops(w)
    <3>1. worker'[w].stage \in Outside
      BY <1>0, <2>2, StopsFacts DEF Resting, Outside
    <3> QED BY <1>1, <1>2, <1>11, <2>2, <3>1, OutsideKept DEF Renew, others
  <2>3. CASE /\ HoldsLease(w, at)
             /\ execution' = Claimed(w, at)
             /\ ContinuesPhase(w, "enter", execution.plan, at + LeaseTime)
    <3>1. at \in Nat /\ at + LeaseTime \in Nat /\ at <= clock
      BY <1>0, StampFacts, ExecutionAssumption
    <3>2. worker[w].phase # 0 /\ worker[w].phase <= execution.completed + 1
      BY <1>0, <1>5, <1>11, <2>3 DEF Renew, WorkerKept, OwnerKnows
    <3>3. /\ worker'[w].stage = "enter" /\ worker'[w].plan = execution.plan
          /\ worker'[w].lease = at + LeaseTime /\ worker'[w].phase = worker[w].phase
          /\ worker'[w].since = clock
      BY <1>0, <2>3, <3>1, ContinuesPhaseFacts DEF Stages
    <3>4. WorkerKept(w)'
      BY <1>0, <1>5, <1>11, <2>3, <3>1, <3>2, <3>3, GrantKept DEF Renew, others
    <3> QED BY <1>1, <1>3, <1>11, <2>3, <3>1, <3>4 DEF Renew, others
  <2> QED BY <2>1, <2>2, <2>3
<1>12. CASE Enter(w)
  <2>1. Deployed'
    BY <1>1, <1>2, <1>12 DEF Enter, others
  <2>2. /\ worker[w].plan \in Plans
        /\ execution.owner = OwnerOf[w] => worker[w].plan = execution.plan
    BY <1>0, <1>12 DEF Enter, InPhase, WorkerKept, PhaseKnown, OwnerKnows
  <2>3. CASE worker[w].phase \in receipts[worker[w].plan] /\ Leaves(w, "complete")
    <3>1. worker[w].phase \in effects[worker[w].plan]
      BY <1>0, <2>2, <2>3 DEF Deployed
    <3>2. worker'[w].stage = "complete" /\ worker'[w].phase = worker[w].phase
      BY <1>0, <2>3, LeavesFacts DEF Stages
    <3>3. OwnerKnows(w)'
      BY <1>12, <2>2, <3>1, <3>2 DEF Enter, others, OwnerKnows, InPhase
    <3> QED BY <2>1, <3>2, <3>3 DEF WorkerKept, LeaseKept, PhaseKnown, WorkDone, InPhase
  <2>4. CASE MovesTo(w, "work")
    <3>1. /\ worker'[w].stage = "work" /\ worker'[w].phase = worker[w].phase
          /\ worker'[w].plan = worker[w].plan /\ worker'[w].lease = worker[w].lease
          /\ worker'[w].since = clock
      BY <1>0, <2>4, MovesToFacts DEF Stages
    <3>2. InPhase(w) /\ UNCHANGED <<clock, execution, effects>>
      BY <1>12 DEF Enter, others, InPhase
    <3>3. LeaseKept(w)'
      BY <1>0, <3>1, <3>2, MovedKept
    <3>4. PhaseKnown(w)' /\ WorkDone(w)' /\ OwnerKnows(w)'
      BY <1>0, <3>1, <3>2 DEF WorkerKept, PhaseKnown, WorkDone, OwnerKnows, InPhase
    <3> QED BY <2>1, <3>3, <3>4 DEF WorkerKept
  <2>5. CASE Leaves(w, "fail")
    <3>1. worker'[w].stage \in Outside
      BY <1>0, <2>5, LeavesFacts DEF Stages, Outside
    <3> QED BY <2>1, <3>1, OutsideKept
  <2> QED BY <1>12, <2>3, <2>4, <2>5 DEF Enter
<1>13. CASE Beat(w)
  <2>1. PICK at \in Stamps(w) :
          \/ /\ HoldsLease(w, at)
             /\ execution' = Claimed(w, at)
             /\ ContinuesPhase(w, "work", worker[w].plan, at + LeaseTime)
          \/ /\ worker' = [worker EXCEPT ![w] = [@ EXCEPT !.beat = FALSE, !.since = clock]]
             /\ \/ UNCHANGED execution
                \/ HoldsLease(w, at) /\ execution' = Claimed(w, at)
    BY <1>13 DEF Beat
  <2>2. CASE /\ worker' = [worker EXCEPT ![w] = [@ EXCEPT !.beat = FALSE, !.since = clock]]
             /\ \/ UNCHANGED execution
                \/ HoldsLease(w, at) /\ execution' = Claimed(w, at)
    <3> DEFINE e == [worker[w] EXCEPT !.beat = FALSE, !.since = clock]
    <3>1. /\ e \in Worker /\ e.stage = worker[w].stage /\ e.plan = worker[w].plan
          /\ e.phase = worker[w].phase /\ e.lease = worker[w].lease /\ e.since = clock
      BY <1>0 DEF Worker
    <3>2. Becomes(w, e)
      BY <2>2 DEF Becomes
    <3> HIDE DEF e
    <3>3. worker'[w] = e
      BY <1>0, <3>1, <3>2, BecomesFacts
    <3>4. UNCHANGED <<clock, effects, receipts>> /\ InPhase(w)
      BY <1>13 DEF Beat, others, InPhase
    <3>5. /\ at \in worker[w].since..clock /\ {worker[w].since, worker[w].lease} \subseteq Nat
          /\ worker[w].since <= clock /\ worker[w].lease <= worker[w].since + LeaseTime
      BY <1>0, <3>4 DEF Stamps, WorkerKept, LeaseKept, Worker
    <3>6. \/ UNCHANGED execution
          \/ /\ execution'.plan = execution.plan /\ execution'.completed = execution.completed
             /\ execution'.status = "running" /\ execution'.owner = OwnerOf[w]
             /\ execution'.expiresAt = at + LeaseTime
             /\ worker[w].plan = execution.plan
      BY <1>0, <1>5, <2>2, <3>4, StampFacts, ClaimedFacts
    <3>7. LeaseKept(w)'
      <4>1. worker[w].lease <= clock + LeaseTime /\ worker[w].lease <= at + LeaseTime
        BY <1>0, <3>5, ExecutionAssumption
      <4>2. worker[w].lease > clock =>
              /\ execution'.status = "running" /\ execution'.owner = OwnerOf[w]
              /\ execution'.expiresAt >= worker[w].lease
        BY <1>0, <3>4, <3>5, <3>6, <4>1, ExecutionAssumption DEF WorkerKept, LeaseKept
      <4> QED BY <1>0, <3>1, <3>3, <3>4, <4>1, <4>2 DEF LeaseKept
    <3>8. PhaseKnown(w)' /\ WorkDone(w)' /\ OwnerKnows(w)'
      BY <1>0, <1>13, <3>1, <3>3, <3>4, <3>6
         DEF Beat, WorkerKept, PhaseKnown, WorkDone, OwnerKnows, InPhase
    <3>9. ~Advanced(w)
      BY <1>0, <1>2, <1>3, <2>2, StampFacts
    <3> QED BY <1>1, <3>4, <3>7, <3>8, <3>9 DEF WorkerKept
  <2>3. CASE /\ HoldsLease(w, at)
             /\ execution' = Claimed(w, at)
             /\ ContinuesPhase(w, "work", worker[w].plan, at + LeaseTime)
    <3>1. at \in Nat /\ at + LeaseTime \in Nat /\ at <= clock
      BY <1>0, StampFacts, ExecutionAssumption
    <3>2. InPhase(w) /\ worker[w].plan = execution.plan /\ worker[w].phase # 0
          /\ worker[w].phase <= execution.completed + 1
      BY <1>0, <1>5, <1>13, <2>3 DEF Beat, InPhase, WorkerKept, PhaseKnown
    <3>3. /\ worker'[w].stage = "work" /\ worker'[w].plan = execution.plan
          /\ worker'[w].lease = at + LeaseTime /\ worker'[w].phase = worker[w].phase
          /\ worker'[w].since = clock
      BY <1>0, <2>3, <3>1, <3>2, ContinuesPhaseFacts DEF Stages
    <3>4. WorkerKept(w)'
      BY <1>0, <1>5, <1>13, <2>3, <3>1, <3>2, <3>3, GrantKept DEF Beat, others
    <3> QED BY <1>1, <1>3, <1>13, <2>3, <3>1, <3>4 DEF Beat, others
  <2> QED BY <2>1, <2>2, <2>3
<1>14. CASE LateBeat(w)
  <2>1. PICK at \in Stamps(w) : execution' = Claimed(w, at)
    BY <1>14 DEF LateBeat
  <2>2. worker'[w].stage \in Outside
    BY <1>14 DEF LateBeat, Outside
  <2>3. ~Advanced(w)
    BY <1>0, <1>3, <2>1, StampFacts
  <2> QED BY <1>1, <1>14, <2>2, <2>3, OutsideKept DEF LateBeat, others
<1>15. CASE Work(w)
  <2>0. UNCHANGED <<clock, execution, receipts>> /\ worker[w].stage = "work" /\ PhaseKnown(w)
    BY <1>0, <1>15 DEF Work, WorkerKept
  <2>1. Deployed'
    <3>1. CASE effects' = [effects EXCEPT ![worker[w].plan] = @ \cup {worker[w].phase}]
      BY <1>0, <2>0, <3>1, DeployedByWork
    <3>2. CASE UNCHANGED effects
      BY <1>1, <1>2, <2>0, <3>2
    <3> QED BY <1>15, <3>1, <3>2 DEF Work
  <2>2. CASE Leaves(w, "fail")
    <3>1. worker'[w].stage \in Outside
      BY <1>0, <2>2, LeavesFacts DEF Stages, Outside
    <3> QED BY <2>1, <3>1, OutsideKept
  <2>3. CASE /\ effects' = [effects EXCEPT ![worker[w].plan] = @ \cup {worker[w].phase}]
             /\ MovesTo(w, "worked")
    <3>1. /\ worker'[w].stage = "worked" /\ worker'[w].phase = worker[w].phase
          /\ worker'[w].plan = worker[w].plan /\ worker'[w].lease = worker[w].lease
          /\ worker'[w].since = clock
      BY <1>0, <2>3, MovesToFacts DEF Stages
    <3>2. worker[w].plan \in Plans
      BY <2>0 DEF PhaseKnown, InPhase
    <3>3. worker[w].phase \in effects'[worker[w].plan]
      BY <1>0, <2>3, <3>2 DEF TypeOK
    <3>4. WorkDone(w)'
      BY <3>1, <3>3 DEF WorkDone
    <3>5. LeaseKept(w)' /\ PhaseKnown(w)'
      BY <1>0, <2>0, <3>1, MovedKept DEF WorkerKept, PhaseKnown, InPhase
    <3>6. OwnerKnows(w)'
      BY <1>0, <2>0, <3>1 DEF WorkerKept, OwnerKnows, InPhase
    <3> QED BY <2>1, <3>4, <3>5, <3>6 DEF WorkerKept
  <2> QED BY <1>15, <2>2, <2>3 DEF Work
<1>16. CASE Confirm(w)
  <2>1. PICK at \in Stamps(w) :
          \/ /\ HoldsLease(w, at)
             /\ execution' = Claimed(w, at)
             /\ ContinuesPhase(w, "receipt", worker[w].plan, at + LeaseTime)
          \/ Leaves(w, "fail") /\ UNCHANGED execution
    BY <1>16 DEF Confirm
  <2>2. CASE Leaves(w, "fail") /\ UNCHANGED execution
    <3>1. worker'[w].stage \in Outside
      BY <1>0, <2>2, LeavesFacts DEF Stages, Outside
    <3> QED BY <1>1, <1>2, <1>16, <2>2, <3>1, OutsideKept DEF Confirm, others
  <2>3. CASE /\ HoldsLease(w, at)
             /\ execution' = Claimed(w, at)
             /\ ContinuesPhase(w, "receipt", worker[w].plan, at + LeaseTime)
    <3>1. at \in Nat /\ at + LeaseTime \in Nat /\ at <= clock
      BY <1>0, StampFacts, ExecutionAssumption
    <3>2. /\ InPhase(w) /\ worker[w].plan = execution.plan /\ worker[w].phase # 0
          /\ worker[w].phase <= execution.completed + 1
          /\ worker[w].phase \in effects[execution.plan]
      BY <1>0, <1>5, <1>16, <2>3 DEF Confirm, InPhase, WorkerKept, PhaseKnown, WorkDone
    <3>3. /\ worker'[w].stage = "receipt" /\ worker'[w].plan = execution.plan
          /\ worker'[w].lease = at + LeaseTime /\ worker'[w].phase = worker[w].phase
          /\ worker'[w].since = clock
      BY <1>0, <2>3, <3>1, <3>2, ContinuesPhaseFacts DEF Stages
    <3>4. UNCHANGED <<clock, effects, receipts>>
      BY <1>16 DEF Confirm, others
    <3>5. WorkerKept(w)'
      BY <1>0, <1>5, <2>3, <3>1, <3>2, <3>3, <3>4, GrantKept
    <3> QED BY <1>1, <1>3, <2>3, <3>1, <3>4, <3>5
  <2> QED BY <2>1, <2>2, <2>3
<1>17. CASE WriteReceipt(w)
  <2>1. /\ worker[w].plan \in Plans
        /\ worker[w].phase \in effects[worker[w].plan]
        /\ execution.owner = OwnerOf[w] => worker[w].plan = execution.plan
    BY <1>0, <1>17 DEF WriteReceipt, InPhase, WorkerKept, PhaseKnown, WorkDone, OwnerKnows
  <2>2. UNCHANGED <<effects, execution>>
    BY <1>17 DEF WriteReceipt
  <2>3. \A p \in Plans : receipts'[p] \subseteq effects[p]
    BY <1>0, <1>17, <2>1 DEF WriteReceipt, Deployed, TypeOK
  <2>4. Deployed'
    BY <1>0, <1>2, <2>2, <2>3, DeployedByRecord
  <2>5. Leaves(w, "complete") \/ Leaves(w, "fail")
    BY <1>17 DEF WriteReceipt
  <2>6. CASE Leaves(w, "fail")
    <3>1. worker'[w].stage \in Outside
      BY <1>0, <2>6, LeavesFacts DEF Stages, Outside
    <3> QED BY <2>4, <3>1, OutsideKept
  <2>7. CASE Leaves(w, "complete")
    <3>1. worker'[w].stage = "complete" /\ worker'[w].phase = worker[w].phase
      BY <1>0, <2>7, LeavesFacts DEF Stages
    <3>2. OwnerKnows(w)'
      BY <2>1, <2>2, <3>1 DEF OwnerKnows, InPhase
    <3> QED BY <2>4, <3>1, <3>2 DEF WorkerKept, LeaseKept, PhaseKnown, WorkDone, InPhase
  <2> QED BY <2>5, <2>6, <2>7
<1>18. ASSUME Stops(w) \/ MovesTo(w, "giveUp"), UNCHANGED <<effects, receipts>>, ~Advanced(w)
       PROVE  WorkerKept(w)' /\ Deployed'
  <2>1. worker'[w].stage \in Outside
    BY <1>0, <1>18, StopsFacts, MovesToFacts DEF Stages, Resting, Outside
  <2> QED BY <1>1, <1>18, <2>1, OutsideKept
<1>19. CASE Complete(w)
  <2>1. PICK at \in Stamps(w) :
          \/ /\ HoldsLease(w, at) /\ worker[w].phase = execution.completed + 1
             /\ execution' = PhaseCompleted
             /\ Stops(w) \/ Continues(w, "renew")
          \/ UNCHANGED execution /\ (Stops(w) \/ MovesTo(w, "giveUp"))
    BY <1>19 DEF Complete, Unrecorded, Refused
  <2>2. CASE UNCHANGED execution /\ (Stops(w) \/ MovesTo(w, "giveUp"))
    BY <1>2, <1>18, <1>19, <2>2 DEF Complete, others
  <2>3. CASE /\ HoldsLease(w, at) /\ worker[w].phase = execution.completed + 1
             /\ execution' = PhaseCompleted
             /\ Stops(w) \/ Continues(w, "renew")
    <3>1. execution.completed + 1 \in effects[execution.plan]
      BY <1>0, <1>5, <1>19, <2>3 DEF Complete, WorkerKept, OwnerKnows
    <3>2. UNCHANGED <<effects, receipts>>
      BY <1>19 DEF Complete, others
    <3>3. Deployed'
      BY <1>0, <3>1, <3>2, DeployedByRecord DEF Deployed
    <3>4. \/ worker'[w].stage \in Outside
          \/ worker'[w].stage = "renew" /\ worker'[w].phase = execution'.completed + 1
      BY <1>0, <2>3, StopsFacts, ContinuesFacts DEF Stages, Outside, Resting
    <3> QED BY <1>0, <3>3, <3>4, OutsideKept, RenewKept
  <2> QED BY <2>1, <2>2, <2>3
<1>20. CASE Fail(w)
  <2>1. PICK at \in Stamps(w) :
          \/ execution' = Released(FailedStatus) /\ Stops(w)
          \/ UNCHANGED execution /\ (Stops(w) \/ MovesTo(w, "giveUp"))
    BY <1>20 DEF Fail, Unrecorded, Refused
  <2>2. ~Advanced(w)
    BY <1>2, <1>4, <2>1, FailedStatusFacts DEF Statuses
  <2> QED BY <1>18, <1>20, <2>1, <2>2 DEF Fail, others
<1>21. CASE GiveUp(w)
  <2>1. ~Advanced(w)
    BY <1>2, <1>4, <1>21 DEF GiveUp, Statuses
  <2> QED BY <1>18, <1>21, <2>1 DEF GiveUp, others
<1>22. CASE Crash(w)
  BY <1>2, <1>18, <1>22 DEF Crash, others
<1> QED BY <1>6, <1>7, <1>8, <1>9, <1>10, <1>11, <1>12, <1>13, <1>14, <1>15, <1>16, <1>17,
           <1>19, <1>20, <1>21, <1>22 DEF WorkerStep

LEMMA NextKept == OwnersDiffer => (Kept /\ [Next]_vars => Kept')
<1> SUFFICES ASSUME OwnersDiffer, Kept, [Next]_vars PROVE Kept'
  OBVIOUS
<1>0. FileInv /\ FileInv'
  BY NextFile DEF Kept
<1>1. ASSUME NEW w \in Workers, WorkerStep(w) PROVE Kept'
  <2>1. Frame(w)
    BY <1>0, <1>1, StepFrame
  <2>2. WorkerKept(w)' /\ Deployed'
    BY <1>1, <2>1, OwnKept
  <2>3. \A p \in Plans : effects[p] \subseteq effects'[p]
    <3>1. CASE Work(w)
      BY <1>0, <3>1 DEF Work, FileInv, TypeOK
    <3>2. CASE UNCHANGED effects
      BY <3>2
    <3> QED BY <1>1, <3>1, <3>2
            DEF WorkerStep, Start, Initialize, Read, Recover, Claim, Renew, Enter, Beat, LateBeat,
                Confirm, WriteReceipt, Complete, Fail, GiveUp, Crash, others
  <2>4. \A v \in Workers : v # w => WorkerKept(v)'
    BY <1>0, <2>1, <2>3, OthersKept DEF Kept
  <2> QED BY <1>0, <2>2, <2>4 DEF Kept
<1>2. CASE Approve \/ WritePlan \/ Tick \/ UNCHANGED vars
  <2>1. /\ UNCHANGED <<execution, worker, effects, receipts>>
        /\ clock \in Nat /\ clock' \in Nat /\ clock <= clock'
    BY <1>0, <1>2, OutsideFacts DEF FileInv, TypeOK
  <2>2. ASSUME NEW w \in Workers PROVE WorkerKept(w)'
    <3>1. /\ WorkerKept(w) /\ {worker[w].lease, worker[w].since} \subseteq Nat
          /\ execution.expiresAt \in Nat
      BY <1>0 DEF Kept, FileInv, TypeOK, Worker, Execution
    <3>2. InPhase(w) => /\ worker[w].since <= clock'
                        /\ worker[w].lease > clock' => worker[w].lease > clock
      BY <2>1, <3>1 DEF WorkerKept, LeaseKept
    <3>3. LeaseKept(w)'
      BY <2>1, <3>1, <3>2 DEF WorkerKept, LeaseKept, InPhase
    <3> QED BY <2>1, <3>1, <3>3 DEF WorkerKept, PhaseKnown, WorkDone, OwnerKnows, InPhase
  <2>3. Deployed'
    BY <2>1 DEF Kept, Deployed, EffectsTrackRecord
  <2> QED BY <1>0, <2>2, <2>3 DEF Kept
<1> QED BY <1>1, <1>2, StepCases

THEOREM OwnersKeep == OwnersDiffer => (Spec => []Kept)
<1>1. Init => Kept
  BY InitKept
<1>2. OwnersDiffer => (Kept /\ [Next]_vars => Kept')
  BY NextKept
<1>3. SUFFICES ASSUME OwnersDiffer PROVE Spec => []Kept
  OBVIOUS
<1>4. Kept /\ [Next]_vars => Kept'
  BY <1>2, <1>3
<1> QED BY <1>1, <1>4, PTL DEF Spec

\* With owners of their own, two workers are inside phases at once only when one of them
\* has outlived its lease (executionRunner.ts and the leases of execution.ts).
THEOREM OneWorkerAtATime == OwnersDiffer => (Spec => []SingleWorker)
<1>1. Kept => SingleWorker
  <2> SUFFICES ASSUME Kept, NEW v \in Workers, NEW w \in Workers,
                      Inside(v), Inside(w), OwnerOf[v] # OwnerOf[w],
                      ~(worker[v].lease <= clock), ~(worker[w].lease <= clock)
               PROVE  FALSE
    BY DEF SingleWorker
  <2>1. worker[v].lease > clock /\ worker[w].lease > clock
    BY DEF Kept, FileInv, TypeOK, Worker
  <2> QED BY <2>1 DEF Kept, WorkerKept, LeaseKept, Inside, InPhase
<1> QED BY <1>1, OwnersKeep, PTL

\* With owners of their own, the deployment is at the recorded phase or one ahead, crashes
\* and workers that outlived their lease included (executePhase of the adapters).
THEOREM DeploymentFollowsRecord == OwnersDiffer => (Spec => []EffectsTrackRecord)
<1>1. Kept => EffectsTrackRecord
  BY DEF Kept, Deployed
<1> QED BY <1>1, OwnersKeep, PTL
=============================================================================
