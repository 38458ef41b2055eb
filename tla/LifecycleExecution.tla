------------------------- MODULE LifecycleExecution -------------------------
(***************************************************************************)
(* Execution of plugin lifecycle plans by deployment workers:              *)
(* packages/plugin-installer/src/{execution,executionRunner,               *)
(* executionStore,kubernetesExecutionStore}.ts and the phase adapters.     *)
(*                                                                         *)
(* One installation has one plan file and one stored execution.  Workers   *)
(* (eg-plugin apply-compose, apply-kubernetes, or the plugin manager)      *)
(* claim it under a lease and run its phases; each call of the store is    *)
(* one compare-and-swap on the revision and is one action.  What happens   *)
(* between the calls of one worker interleaves with every other worker,    *)
(* with the installer that writes the plan file, and with crashes.         *)
(***************************************************************************)
EXTENDS Naturals

CONSTANTS
  Workers,      \* processes that run the execution
  Managers,     \* those that are plugin managers and write the plan themselves
  OwnerOf,      \* the lease owner a worker presents
  Null,
  LastPlan,     \* bound of the model: the last desiredRevision
  Plan,         \* the plans, by desiredRevision: see LifecyclePlan
  LeaseTime,    \* leaseDurationMs
  MaxClock,     \* bound of the model: the last instant
  MaxRevision   \* bound of the model: revision up to which a lease is granted

Plans == 1..LastPlan
Owners == {OwnerOf[w] : w \in Workers}

ASSUME ExecutionAssumption ==
  /\ Managers \subseteq Workers
  /\ DOMAIN OwnerOf = Workers
  /\ Null \notin Nat \cup Owners
  /\ LastPlan \in Nat
  /\ DOMAIN Plan = Plans
  /\ \A p \in Plans : /\ Plan[p].phases \in Nat \ {0}
                      /\ Plan[p].migrate \in 0..Plan[p].phases
                      /\ Plan[p].rollback \in BOOLEAN
  /\ LeaseTime \in Nat \ {0}
  /\ {MaxClock, MaxRevision} \subseteq Nat

VARIABLES
  clock,      \* time; one clock for all workers, wherever they run
  planFile,   \* plugin-lifecycle-plan.json: the desired revision it holds
  execution,  \* the stored execution
  worker,     \* where each worker is and what it remembers
  approved,   \* an installer command has passed its check and will write the plan
  effects,    \* the phases of each plan that have taken effect on the deployment
  receipts    \* the phases of each plan with a receipt of the adapter

vars == <<clock, planFile, execution, worker, approved, effects, receipts>>

Statuses == {"queued", "running", "succeeded", "failed", "manual_intervention"}

\* Where a worker is: about to make the named call, or inside a phase.
Stages == {"idle", "initialize", "read", "recover", "claim", "renew", "enter",
           "work", "worked", "receipt", "complete", "fail", "giveUp"}

Execution == [plan: Nat, revision: Nat, status: Statuses, completed: Nat,
              owner: Owners \cup {Null}, expiresAt: Nat]

\* since is when the worker last heard of the store: the time it puts in its next
\* call is read after that.  lease is the expiry it was last granted, beat whether
\* the heartbeats of the phase have all been accepted.
\* plan and phase are those of the adapter's context from enter on.
Worker == [stage: Stages, revision: Nat, plan: Nat, phase: Nat, since: Nat,
           lease: Nat, beat: BOOLEAN]

Resting == [stage |-> "idle", revision |-> 0, plan |-> 0, phase |-> 0, since |-> 0,
            lease |-> 0, beat |-> TRUE]

\* Without a stored execution every plan may be initialized, as after a success.
Init ==
  /\ clock = 0
  /\ planFile = 0
  /\ execution = [plan |-> 0, revision |-> 0, status |-> "succeeded", completed |-> 0,
                  owner |-> Null, expiresAt |-> 0]
  /\ worker = [w \in Workers |-> Resting]
  /\ approved = FALSE
  /\ effects = [p \in Plans |-> {}]
  /\ receipts = [p \in Plans |-> {}]

-----------------------------------------------------------------------------
(* The stored execution                                                     *)

\* mutate: the plan on disk is the one executed and nobody wrote since.
Accepts(w) ==
  /\ execution.plan = planFile
  /\ execution.revision = worker[w].revision

\* assertLease
HoldsLease(w, at) ==
  /\ execution.status = "running"
  /\ execution.owner = OwnerOf[w]
  /\ execution.expiresAt > at

\* Faulty variant: a running execution counts as abandoned.
LeaseExpiredAnyTime(at) == execution.status = "running"

LeaseExpired(at) == execution.status = "running" /\ execution.expiresAt <= at

Claimed(w, at) ==
  [execution EXCEPT !.revision = execution.revision + 1, !.status = "running",
                    !.owner = OwnerOf[w], !.expiresAt = at + LeaseTime]

Released(status) ==
  [execution EXCEPT !.revision = execution.revision + 1, !.status = status,
                    !.owner = Null, !.expiresAt = 0]

PhaseCompleted ==
  IF execution.completed + 1 = Plan[execution.plan].phases
  THEN [Released("succeeded") EXCEPT !.completed = execution.completed + 1]
  ELSE [execution EXCEPT !.revision = execution.revision + 1,
                         !.completed = execution.completed + 1]

\* Faulty variant: the reason code is stored as the status.
FailedStatusReason ==
  IF Plan[execution.plan].migrate \in 1..execution.completed
     /\ ~Plan[execution.plan].rollback
  THEN "rollback_unavailable" ELSE "phase_failed"

FailedStatus ==
  IF Plan[execution.plan].migrate \in 1..execution.completed
     /\ ~Plan[execution.plan].rollback
  THEN "manual_intervention" ELSE "failed"

\* The worker goes on at stage with the answer of its call: the stored execution.
Continues(w, stage) ==
  worker' = [worker EXCEPT ![w] =
    [Resting EXCEPT !.stage = stage, !.revision = execution'.revision,
                    !.phase = execution'.completed + 1, !.since = clock]]

\* As Continues, for a phase of a plan and with the lease just granted.
ContinuesPhase(w, stage, plan, lease) ==
  worker' = [worker EXCEPT ![w] =
    [@ EXCEPT !.stage = stage, !.revision = execution'.revision, !.plan = plan,
              !.since = clock, !.lease = lease]]

MovesTo(w, stage) == worker' = [worker EXCEPT ![w] = [@ EXCEPT !.stage = stage, !.since = clock]]
Stops(w) == worker' = [worker EXCEPT ![w] = Resting]

\* The phase is over, well or badly; its outcome is still to be recorded.
Leaves(w, stage) ==
  worker' = [worker EXCEPT ![w] =
    [@ EXCEPT !.stage = stage, !.plan = 0, !.since = clock, !.lease = 0, !.beat = TRUE]]

\* The call was refused; the worker reports the error and ends.
Refused(w) == Stops(w) /\ UNCHANGED execution

\* Times a call made now may carry.
Stamps(w) == worker[w].since..clock

-----------------------------------------------------------------------------
(* Starting: the plan file, initialize and read                             *)

others == <<clock, approved, effects, receipts>>

\* apply-compose and apply-kubernetes run the plan that is on disk; a manager
\* first writes the plan of its intent, whatever execution is stored.
Start(w) ==
  /\ worker[w].stage = "idle"
  /\ planFile' \in IF w \in Managers THEN {planFile, planFile + 1} \cap Plans
                                     ELSE {planFile} \cap Plans
  /\ worker' = [worker EXCEPT ![w] = [Resting EXCEPT !.stage = "initialize"]]
  /\ UNCHANGED <<others, execution>>

\* Faulty variant: an unfinished execution gives way to the new plan.
MayReplaceAlways(w) == TRUE

\* The operator may pass the exact revision of a failed execution to supersede it;
\* a manager never does.
MayReplace(w) ==
  \/ execution.status = "succeeded"
  \/ execution.status \in {"failed", "manual_intervention"} /\ w \notin Managers

Reading == [Resting EXCEPT !.stage = "read"]

Initialize(w) ==
  /\ worker[w].stage = "initialize"
  /\ \/ execution.plan = planFile /\ UNCHANGED execution /\ worker' = [worker EXCEPT ![w] = Reading]
     \/ /\ execution.plan # planFile
        /\ MayReplace(w)
        /\ execution' = [plan |-> planFile, revision |-> 0, status |-> "queued",
                         completed |-> 0, owner |-> Null, expiresAt |-> 0]
        /\ worker' = [worker EXCEPT ![w] = Reading]
     \/ execution.plan # planFile /\ execution.status # "succeeded" /\ Refused(w)
  /\ UNCHANGED <<others, planFile>>

Terminal == execution.status \in {"succeeded", "manual_intervention"}

Read(w) ==
  /\ worker[w].stage = "read"
  /\ UNCHANGED <<others, planFile, execution>>
  /\ IF execution.plan # planFile \/ Terminal THEN Stops(w)
     ELSE Continues(w, IF LeaseExpired(clock) THEN "recover"
                       ELSE IF HoldsLease(w, clock) THEN "renew" ELSE "claim")

-----------------------------------------------------------------------------
(* Claiming the execution and keeping the lease                             *)

Recover(w) ==
  /\ worker[w].stage = "recover"
  /\ \E at \in Stamps(w) :
       IF Accepts(w) /\ ~Terminal
       THEN /\ execution' = IF LeaseExpired(at) THEN Released("queued") ELSE execution
            /\ Continues(w, IF HoldsLease(w, at) THEN "renew" ELSE "claim")
       ELSE Refused(w)
  /\ UNCHANGED <<others, planFile>>

Claim(w) ==
  /\ worker[w].stage = "claim"
  /\ execution.revision < MaxRevision
  /\ \E at \in Stamps(w) :
       IF /\ Accepts(w) /\ ~Terminal
          /\ execution.status = "running" =>
               LeaseExpired(at) \/ execution.owner = OwnerOf[w]
       THEN /\ execution' = Claimed(w, at)
            /\ Continues(w, "renew")
       ELSE Refused(w)
  /\ UNCHANGED <<others, planFile>>

\* The runner renews before each phase; it chose the phase before the call.
Renew(w) ==
  /\ worker[w].stage = "renew"
  /\ execution.revision < MaxRevision
  /\ \E at \in Stamps(w) :
       IF Accepts(w) /\ HoldsLease(w, at)
       THEN /\ execution' = Claimed(w, at)
            /\ ContinuesPhase(w, "enter", execution.plan, at + LeaseTime)
       ELSE Refused(w)
  /\ UNCHANGED <<others, planFile>>

-----------------------------------------------------------------------------
(* A phase: executePhase of the adapter                                     *)

\* Faulty variant: a receipt of the same phase of any plan is taken.
EnterByPhase(w) ==
  /\ worker[w].stage = "enter"
  /\ IF \E p \in Plans : worker[w].phase \in receipts[p] THEN Leaves(w, "complete")
     ELSE IF worker[w].plan = planFile THEN MovesTo(w, "work") ELSE Leaves(w, "fail")
  /\ UNCHANGED <<others, planFile, execution>>

\* A receipt stands for the phase; otherwise the material has to be that of the plan.
Enter(w) ==
  /\ worker[w].stage = "enter"
  /\ IF worker[w].phase \in receipts[worker[w].plan] THEN Leaves(w, "complete")
     ELSE IF worker[w].plan = planFile THEN MovesTo(w, "work") ELSE Leaves(w, "fail")
  /\ UNCHANGED <<others, planFile, execution>>

\* A heartbeat during the work.  One that is refused, cannot reach the store or is
\* carried out without an answer is remembered; the work goes on.
Beat(w) ==
  /\ worker[w].stage = "work"
  /\ execution.revision < MaxRevision
  /\ \E at \in Stamps(w) :
       \/ /\ Accepts(w) /\ HoldsLease(w, at)
          /\ execution' = Claimed(w, at)
          /\ ContinuesPhase(w, "work", worker[w].plan, at + LeaseTime)
       \/ /\ worker' = [worker EXCEPT ![w] = [@ EXCEPT !.beat = FALSE, !.since = clock]]
          /\ \/ UNCHANGED execution
             \/ Accepts(w) /\ HoldsLease(w, at) /\ execution' = Claimed(w, at)
  /\ UNCHANGED <<others, planFile>>

\* A heartbeat that was under way when the work failed lands; fail was called with
\* the revision before it.
LateBeat(w) ==
  /\ worker[w].stage = "fail"
  /\ execution.revision < MaxRevision
  /\ \E at \in Stamps(w) :
       /\ Accepts(w) /\ HoldsLease(w, at)
       /\ execution' = Claimed(w, at)
  /\ UNCHANGED <<others, planFile, worker>>

\* The work changes the deployment, and ends or fails after that or before.
Work(w) ==
  /\ worker[w].stage = "work"
  /\ \/ /\ effects' = [effects EXCEPT ![worker[w].plan] = @ \cup {worker[w].phase}]
        /\ MovesTo(w, "worked") \/ Leaves(w, "fail")
     \/ Leaves(w, "fail") /\ UNCHANGED effects
  /\ UNCHANGED <<clock, approved, receipts, planFile, execution>>

\* The lease is renewed once more before the phase counts as done.  An answer that is
\* lost makes the worker end, as in Crash: its fail comes with an old revision.
Confirm(w) ==
  /\ worker[w].stage = "worked"
  /\ execution.revision < MaxRevision
  /\ \E at \in Stamps(w) :
       \/ /\ worker[w].beat /\ Accepts(w) /\ HoldsLease(w, at)
          /\ execution' = Claimed(w, at)
          /\ ContinuesPhase(w, "receipt", worker[w].plan, at + LeaseTime)
       \/ Leaves(w, "fail") /\ UNCHANGED execution
  /\ UNCHANGED <<others, planFile>>

WriteReceipt(w) ==
  /\ worker[w].stage = "receipt"
  /\ \/ /\ receipts' = [receipts EXCEPT ![worker[w].plan] = @ \cup {worker[w].phase}]
        /\ Leaves(w, "complete")
     \/ Leaves(w, "fail") /\ UNCHANGED receipts
  /\ UNCHANGED <<clock, approved, effects, planFile, execution>>

-----------------------------------------------------------------------------
(* Recording the outcome of a phase                                         *)

\* An expired lease is recovered before the worker ends; other errors end it.
Unrecorded(w, at) ==
  IF Accepts(w) /\ execution.owner = OwnerOf[w] /\ LeaseExpired(at)
  THEN MovesTo(w, "giveUp") /\ UNCHANGED execution
  ELSE Refused(w)

Complete(w) ==
  /\ worker[w].stage = "complete"
  /\ \E at \in Stamps(w) :
       IF Accepts(w) /\ HoldsLease(w, at) /\ worker[w].phase = execution.completed + 1
       THEN /\ execution' = PhaseCompleted
            /\ IF execution'.status = "succeeded" THEN Stops(w)
               ELSE Continues(w, "renew")
       ELSE Unrecorded(w, at)
  /\ UNCHANGED <<others, planFile>>

Fail(w) ==
  /\ worker[w].stage = "fail"
  /\ \E at \in Stamps(w) :
       IF Accepts(w) /\ HoldsLease(w, at)
       THEN execution' = Released(FailedStatus) /\ Stops(w)
       ELSE Unrecorded(w, at)
  /\ UNCHANGED <<others, planFile>>

GiveUp(w) ==
  /\ worker[w].stage = "giveUp"
  /\ execution' = IF Accepts(w) /\ LeaseExpired(clock) THEN Released("queued") ELSE execution
  /\ Stops(w)
  /\ UNCHANGED <<others, planFile>>

\* The process ends, or the answer of a call that was carried out is lost.
Crash(w) ==
  /\ worker[w].stage # "idle"
  /\ Stops(w)
  /\ UNCHANGED <<others, planFile, execution>>

-----------------------------------------------------------------------------
(* The installer, which writes the next plan                                *)

\* assertLifecycleMutationMayProceed: nothing is under way, or the operator supersedes it.
Approve ==
  /\ ~approved
  /\ execution.plan \in {0, planFile}
  /\ execution.status \in {"succeeded", "failed", "manual_intervention"}
  /\ approved' = TRUE
  /\ UNCHANGED <<clock, planFile, execution, worker, effects, receipts>>

\* writeOutputs, or an error before it.  An error after the plan file was written, which
\* puts the previous plan back at once or at the next command, is left out.
WritePlan ==
  /\ approved
  /\ approved' = FALSE
  /\ planFile' \in {planFile, planFile + 1} \cap (Plans \cup {0})
  /\ UNCHANGED <<clock, execution, worker, effects, receipts>>

Tick ==
  /\ clock < MaxClock
  /\ clock' = clock + 1
  /\ UNCHANGED <<planFile, execution, worker, approved, effects, receipts>>

Next ==
  \/ \E w \in Workers :
       \/ Start(w) \/ Initialize(w) \/ Read(w)
       \/ Recover(w) \/ Claim(w) \/ Renew(w)
       \/ Enter(w) \/ Beat(w) \/ LateBeat(w) \/ Work(w) \/ Confirm(w) \/ WriteReceipt(w)
       \/ Complete(w) \/ Fail(w) \/ GiveUp(w) \/ Crash(w)
  \/ Approve \/ WritePlan \/ Tick

Spec == Init /\ [][Next]_vars

-----------------------------------------------------------------------------
(* Properties                                                               *)

\* Every part of the state has its type.
TypeOK ==
  /\ clock \in Nat
  /\ planFile \in Nat
  /\ execution \in Execution
  /\ worker \in [Workers -> Worker]
  /\ approved \in BOOLEAN
  /\ effects \in [Plans -> SUBSET Nat]
  /\ receipts \in [Plans -> SUBSET Nat]

Inside(w) == worker[w].stage \in {"work", "worked", "receipt"}

\* Two workers with different owners are inside phases at once only when one of them
\* has outlived its lease.
SingleWorker ==
  \A v, w \in Workers :
    Inside(v) /\ Inside(w) /\ OwnerOf[v] # OwnerOf[w] =>
      worker[v].lease <= clock \/ worker[w].lease <= clock

\* The deployment is never ahead of the record by more than the phase under way, and
\* never behind it: phases take effect in the order of the plan and a phase is only
\* recorded as completed after it took effect.
EffectsTrackRecord ==
  execution.plan # 0 =>
    effects[execution.plan] \in {1..execution.completed, 1..execution.completed + 1}

\* A plan is carried out, stopped and followed by the next as LifecyclePlan says.
Promise ==
  INSTANCE LifecyclePlan WITH
    plan     <- execution.plan,
    progress <- execution.completed,
    outcome  <- IF execution.status \in {"queued", "running"} THEN "open" ELSE execution.status

PlanPromise == Promise!PlanSpec

\* README of the installer: "a live execution cannot be replaced".
LivePlanKept ==
  execution.status = "running" /\ execution.expiresAt > clock => execution.plan = planFile

=============================================================================
