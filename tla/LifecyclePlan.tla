---------------------------- MODULE LifecyclePlan ----------------------------
(***************************************************************************)
(* What an operator is promised about the plans of one installation:       *)
(* a plan is carried out phase by phase, none is skipped and none undone,  *)
(* and the next plan begins once this one has succeeded, failed or been    *)
(* handed to the operator.  Workers, leases, revisions, clocks and crashes *)
(* do not appear; LifecycleExecution implements this specification.        *)
(***************************************************************************)
EXTENDS Naturals

CONSTANT
  Plan      \* the plans, by desiredRevision; Plan[p].phases is how many phases
            \* p has, Plan[p].migrate the one that migrates data (0 for none),
            \* Plan[p].rollback whether the migration can be undone

VARIABLES
  plan,      \* the plan under way; 0 before the first
  progress,  \* how many of its phases are recorded as done
  outcome    \* "open" while a worker may still act on it

planVars == <<plan, progress, outcome>>

Outcomes == {"open", "succeeded", "failed", "manual_intervention"}

PlanInit == plan = 0 /\ progress = 0 /\ outcome = "succeeded"

Begin ==
  /\ outcome # "open"
  /\ \E p \in DOMAIN Plan : p > plan /\ plan' = p
  /\ progress' = 0
  /\ outcome' = "open"

Advance ==
  /\ outcome = "open"
  /\ progress' = progress + 1
  /\ outcome' = IF progress' = Plan[plan].phases THEN "succeeded" ELSE "open"
  /\ UNCHANGED plan

\* Once an irreversible migration is recorded the plan is the operator's.
Stop ==
  /\ outcome = "open"
  /\ outcome' = IF Plan[plan].migrate \in 1..progress /\ ~Plan[plan].rollback
                THEN "manual_intervention" ELSE "failed"
  /\ UNCHANGED <<plan, progress>>

Retry ==
  /\ outcome = "failed"
  /\ outcome' = "open"
  /\ UNCHANGED <<plan, progress>>

PlanNext == Begin \/ Advance \/ Stop \/ Retry

PlanSpec == PlanInit /\ [][PlanNext]_planVars
=============================================================================
