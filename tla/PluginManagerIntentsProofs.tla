--------------------- MODULE PluginManagerIntentsProofs ---------------------
(***************************************************************************)
(* Proofs about PluginManagerIntents for every number of installations and *)
(* attempts and every bound on the revision.                               *)
(*                                                                         *)
(* The safety invariants are not inductive alone.  What ties them together *)
(* is that a live lease is held on a claimable intent only, so the calls   *)
(* that need no lease never meet an attempt that holds one, and that an    *)
(* attempt past its review stands on an approved intent.                   *)
(***************************************************************************)
EXTENDS PluginManagerIntents, TLAPS

Held(m) == lease[hand[m].inst] = [by |-> m, live |-> TRUE]

\* The variables of an attempt that is under way: its revision is one the
\* intent has had, and its outcome one that is published.
HandsKnown ==
  \A m \in Managers :
    hand[m].stage # "idle" =>
      /\ hand[m].inst \in Installations
      /\ hand[m].revision <= revision[hand[m].inst]
      /\ hand[m].stage = "reporting" =>
           hand[m].outcome \in {"ready", "failed", "manual_intervention"}

\* A rejection is the one call that ends an intent under a lease.
LiveIsUnderWay ==
  \A i \in Installations :
    lease[i].live => state[i] \in claimableStates \cup {"cancelled"}

\* A call the host would accept finds an intent that can be claimed.
AcceptedIsClaimable ==
  \A m \in Managers :
    hand[m].stage # "idle" /\ Accepted(m) => state[hand[m].inst] \in claimableStates

\* A review is published with the state that follows these, and a retry
\* deletes it.
FreshHasNoReview ==
  \A i \in Installations :
    state[i] \in {"absent", "requested", "planning"} => review[i] = None

\* What the transactions that have read and not yet written have read.
PendingWrites ==
  /\ creating # None => state[creating] = "absent"
  /\ \A i \in retrying : state[i] \in {"failed", "manual_intervention"}

\* The stages of an attempt whose intent is approved while it holds the lease.
Carrying(m) ==
  \/ hand[m].stage \in {"polling", "executing"}
  \/ hand[m].stage = "reporting" /\ hand[m].outcome # "failed"

HeldApproval ==
  \A m \in Managers :
    Carrying(m) /\ Held(m) =>
      /\ state[hand[m].inst] = "approved"
      /\ approval[hand[m].inst].review = hand[m].review
      /\ revision[hand[m].inst] = hand[m].revision

IntentInv ==
  /\ TypeOK
  /\ HandsKnown
  /\ LeaseHoldsDeployment
  /\ LiveIsUnderWay
  /\ AcceptedIsClaimable
  /\ FreshHasNoReview
  /\ PendingWrites
  /\ ApprovalPinsReview
  /\ HeldApproval

-----------------------------------------------------------------------------
\* An attempt that goes on with variables of their types keeps the types.
LEMMA GoesTyped ==
  ASSUME hand \in [Managers -> Hand], NEW m \in Managers, NEW h \in Hand, Goes(m, h)
  PROVE  hand' \in [Managers -> Hand]
  BY DEF Goes

\* The attempt goes on with the revision it has read beside the approval.
Executing(m, seen) == [hand[m] EXCEPT !.stage = "executing", !.revision = seen]

\* Nothing was read under the lease but the revision of now.
LEMMA SeenIsNow ==
  ASSUME TypeOK, NEW m \in Managers, NEW seen \in Nat, NEW r,
         hand[m].revision <= seen, seen <= r, r = hand[m].revision
  PROVE  seen = r
<1>1. hand[m].revision \in Nat
  BY DEF TypeOK, Hand
<1> QED
  BY <1>1

\* What the two reads of readApproval come to.
LEMMA ApprovalRead ==
  ASSUME TypeOK, HandsKnown, NEW m \in Managers, ReadApproval(m)
  PROVE  /\ UNCHANGED rows /\ UNCHANGED <<creating, retrying>>
         /\ hand[m].stage = "polling" /\ hand[m].inst \in Installations
         /\ \/ Ends(m)
            \/ Reports(m, "failed")
            \/ \E seen \in Nat :
                 /\ hand[m].revision <= seen /\ seen <= revision[hand[m].inst]
                 /\ Goes(m, Executing(m, seen))
                 /\ approval[hand[m].inst] # None
                 /\ approval[hand[m].inst].review = hand[m].review
                 /\ review[hand[m].inst] # None => ~review[hand[m].inst].expired
<1>1. /\ UNCHANGED rows /\ UNCHANGED <<creating, retrying>>
      /\ hand[m].stage = "polling" /\ hand[m].inst \in Installations
  BY DEF ReadApproval, HandsKnown
<1>2. hand[m].revision \in Nat /\ revision[hand[m].inst] \in Nat
  BY <1>1 DEF TypeOK, Hand
<1>3. \A seen \in hand[m].revision..revision[hand[m].inst] :
        seen \in Nat /\ hand[m].revision <= seen /\ seen <= revision[hand[m].inst]
  BY <1>2
<1> QED
  BY <1>1, <1>3 DEF ReadApproval, Executing

\* The record of an attempt that executes.
LEMMA ExecutingFacts ==
  ASSUME TypeOK, NEW m \in Managers, NEW seen \in Nat
  PROVE  /\ Executing(m, seen) \in Hand
         /\ Executing(m, seen).stage = "executing"
         /\ Executing(m, seen).inst = hand[m].inst
         /\ Executing(m, seen).review = hand[m].review
         /\ Executing(m, seen).revision = seen
  BY DEF Executing, TypeOK, Hand, Stages

\* The updates of the variables of runOnce are within their types.
LEMMA StageTyped ==
  ASSUME hand \in [Managers -> Hand], NEW m \in Managers, NEW stage \in Stages,
         NEW outcome \in States \cup {None}, NEW revisionNow \in Nat,
         NEW reviewNow \in Nat \cup {None}, NEW approvable \in BOOLEAN
  PROVE  /\ [hand[m] EXCEPT !.stage = stage] \in Hand
         /\ [hand[m] EXCEPT !.stage = stage, !.outcome = outcome] \in Hand
         /\ [hand[m] EXCEPT !.stage = stage, !.review = reviewNow] \in Hand
         /\ [hand[m] EXCEPT !.stage = stage, !.revision = revisionNow] \in Hand
         /\ [hand[m] EXCEPT !.stage = stage, !.review = reviewNow,
                            !.approvable = approvable] \in Hand
         /\ [hand[m] EXCEPT !.stage = stage, !.outcome = outcome,
                            !.review = reviewNow, !.revision = revisionNow] \in Hand
  <1>1. hand[m] \in Hand
    OBVIOUS
  <1> QED
    BY <1>1 DEF Hand

\* An attempt that has not claimed anything has the types too.
LEMMA IdleTyped == Idle \in Hand
  BY DEF Idle, Hand, Stages

\* An attempt that ends, ...
LEMMA EndsTyped ==
  ASSUME hand \in [Managers -> Hand], NEW m \in Managers, Ends(m)
  PROVE  hand' \in [Managers -> Hand]
  BY GoesTyped, IdleTyped DEF Ends

\* ... that turns to its report, ...
LEMMA ReportsTyped ==
  ASSUME hand \in [Managers -> Hand], NEW m \in Managers,
         NEW outcome \in States, Reports(m, outcome)
  PROVE  hand' \in [Managers -> Hand]
  <1>1. [hand[m] EXCEPT !.stage = "reporting", !.outcome = outcome] \in Hand
    BY StageTyped DEF Stages
  <1> QED
    BY <1>1, GoesTyped DEF Reports

\* ... or that has published a review keeps the types.
LEMMA ReviewedTyped ==
  ASSUME hand \in [Managers -> Hand], NEW m \in Managers, NEW id \in Nat,
         NEW retained \in BOOLEAN, Reviewed(m, id, retained),
         revision'[hand[m].inst] \in Nat
  PROVE  hand' \in [Managers -> Hand]
  <1>1. CASE ~hand[m].approvable
    <2>1. [hand[m] EXCEPT !.stage = "reporting", !.outcome = "failed",
                          !.review = id, !.revision = revision'[hand[m].inst]] \in Hand
      BY <1>1, StageTyped DEF Stages, States
    <2> QED
      BY <1>1, <2>1, GoesTyped DEF Reviewed
  <1>2. CASE hand[m].approvable /\ retained
    <2>1. [hand[m] EXCEPT !.stage = "polling", !.review = id] \in Hand
      BY StageTyped DEF Stages
    <2> QED
      BY <1>2, <2>1, GoesTyped DEF Reviewed
  <1>3. CASE hand[m].approvable /\ ~retained
    BY <1>3, EndsTyped DEF Reviewed
  <1> QED
    BY <1>1, <1>2, <1>3

\* The types are kept by every call.
LEMMA TypeCorrect ==
  ASSUME TypeOK, HandsKnown, [Next]_vars
  PROVE  TypeOK'
<1>1. ASSUME NEW i \in Installations, BeginCreate(i)
      PROVE  TypeOK'
  BY <1>1
  DEF BeginCreate, TypeOK, rows, Unleased, Unadmitted, States,
      activeMutationStates,
            claimableStates, ApprovalRows, Pages
<1>2. ASSUME NEW i \in Installations, Create(i)
      PROVE  TypeOK'
  BY <1>2 DEF Create, TypeOK, rows, Unleased, Unadmitted, States, activeMutationStates,
            claimableStates, ApprovalRows, Pages
<1>3. ASSUME NEW i \in Installations, NEW page \in Pages(i),
             NEW decision \in {"approve", "reject"},
             Approve(i, page, decision)
      PROVE  TypeOK'
  BY <1>3 DEF Approve, TypeOK, rows, Unleased, Unadmitted, States, activeMutationStates,
            claimableStates, ApprovalRows, Pages
<1>4. ASSUME NEW i \in Installations, NEW page \in Pages(i),
             Cancel(i, page)
      PROVE  TypeOK'
  BY <1>4 DEF Cancel, TypeOK, rows, Unleased, Unadmitted, States, activeMutationStates,
            claimableStates, ApprovalRows, Pages
<1>5. ASSUME NEW i \in Installations, NEW page \in Pages(i),
             BeginRetry(i, page)
      PROVE  TypeOK'
  BY <1>5
  DEF BeginRetry, TypeOK, rows, Unleased, Unadmitted, States,
      activeMutationStates,
            claimableStates, ApprovalRows, Pages
<1>6. ASSUME NEW i \in Installations, Retry(i)
      PROVE  TypeOK'
  BY <1>6 DEF Retry, TypeOK, rows, Unleased, Unadmitted, States, activeMutationStates,
            claimableStates, ApprovalRows, Pages
<1>7. ASSUME NEW i \in Installations, Refuse(i)
      PROVE  TypeOK'
  BY <1>7 DEF Refuse, TypeOK, rows, Unleased, Unadmitted, States, activeMutationStates,
            claimableStates, ApprovalRows, Pages
<1>8. ASSUME NEW i \in Installations, Lapse(i)
      PROVE  TypeOK'
  BY <1>8 DEF Lapse, TypeOK
<1>9. ASSUME NEW i \in Installations, ReviewExpires(i)
      PROVE  TypeOK'
  BY <1>9 DEF ReviewExpires, TypeOK, ReviewRows
<1>10. ASSUME NEW m \in Managers, NEW i \in Installations,
             Claim(m, i)
      PROVE  TypeOK'
  <2> DEFINE h == [stage |-> "claimed", inst |-> i, revision |-> revision[i],
                   review |-> IF review[i] = None THEN None ELSE review[i].id,
                   approvable |-> review[i] # None /\ review[i].approvable,
                   outcome |-> None]
  <2>1. h \in Hand
    <3>1. (IF review[i] = None THEN None ELSE review[i].id) \in Nat \cup {None}
      BY DEF TypeOK, ReviewRows
    <3>2. (review[i] # None /\ review[i].approvable) \in BOOLEAN
      OBVIOUS
    <3>3. revision[i] \in Nat
      BY DEF TypeOK
    <3> QED
      BY <3>1, <3>2, <3>3 DEF Hand, Stages
  <2>2. hand' \in [Managers -> Hand]
    BY <1>10, <2>1, GoesTyped DEF Claim, TypeOK
  <2> QED
    BY <1>10, <2>2 DEF Claim, TypeOK
<1>11. ASSUME NEW m \in Managers, Plan(m)
      PROVE  TypeOK'
  <2>1. hand' \in [Managers -> Hand]
    <3>1. [hand[m] EXCEPT !.stage = "planned"] \in Hand
      BY StageTyped DEF TypeOK, Stages
    <3>2. \A approvable \in BOOLEAN :
            [hand[m] EXCEPT !.stage = "planned", !.review = Generated,
                            !.approvable = approvable] \in Hand
      BY StageTyped DEF TypeOK, Stages, Generated
    <3>3. PICK h \in Hand : Goes(m, h)
      BY <1>11, <3>1, <3>2 DEF Plan
    <3> QED
      BY <3>3, GoesTyped DEF TypeOK
  <2> QED
    BY <1>11, <2>1 DEF Plan, TypeOK, rows
<1>12. ASSUME NEW m \in Managers, PlanFails(m)
      PROVE  TypeOK'
  <2>1. hand' \in [Managers -> Hand]
    BY <1>12, ReportsTyped DEF PlanFails, TypeOK, States
  <2> QED
    BY <1>12, <2>1 DEF PlanFails, TypeOK, rows
<1>13. ASSUME NEW m \in Managers, PublishSame(m)
      PROVE  TypeOK'
  <2>1. hand[m].inst \in Installations
    BY <1>13 DEF PublishSame, HandsKnown
  <2>2. /\ review[hand[m].inst] \in ReviewRows
        /\ hand[m].review = review[hand[m].inst].id
    BY <1>13, <2>1 DEF PublishSame, SameReview, TypeOK
  <2>3. hand[m].review \in Nat
    BY <2>2 DEF ReviewRows
  <2>4. revision'[hand[m].inst] \in Nat
    BY <1>13, <2>1 DEF PublishSame, TypeOK
  <2>5. hand' \in [Managers -> Hand]
    BY <1>13, <2>3, <2>4, ReviewedTyped DEF PublishSame, TypeOK
  <2>6. /\ lease' \in [Installations -> [by : Managers \cup {None}, live : BOOLEAN]]
        /\ admission' \in [inst : Installations \cup {None},
                           by : Managers \cup {None}, live : BOOLEAN]
    <3>1. CASE lease' = lease /\ admission' = admission
      BY <3>1 DEF TypeOK
    <3>2. CASE /\ lease' = [lease EXCEPT ![hand[m].inst] = Unleased]
               /\ admission' = Unadmitted
      BY <3>2 DEF TypeOK, Unleased, Unadmitted
    <3> QED
      BY <1>13, <3>1, <3>2 DEF PublishSame, Releases
  <2> QED
    BY <1>13, <2>1, <2>5, <2>6 DEF PublishSame, TypeOK
<1>14. ASSUME NEW m \in Managers, PublishNew(m)
      PROVE  TypeOK'
  <2>1. hand[m].inst \in Installations
    BY <1>14 DEF PublishNew, HandsKnown
  <2>2. /\ revision[hand[m].inst] + 1 \in Nat
        /\ revision'[hand[m].inst] = revision[hand[m].inst] + 1
    BY <1>14, <2>1 DEF PublishNew, TypeOK
  <2>3. hand' \in [Managers -> Hand]
    BY <1>14, <2>2, ReviewedTyped DEF PublishNew, TypeOK
  <2>4. hand[m].approvable \in BOOLEAN
    BY DEF TypeOK, Hand
  <2>5. review' \in [Installations -> ReviewRows \cup {None}]
    BY <1>14, <2>1, <2>2, <2>4 DEF PublishNew, TypeOK, ReviewRows
  <2>6. state' \in [Installations -> States]
    BY <1>14, <2>1 DEF PublishNew, TypeOK, States, activeMutationStates, claimableStates
  <2>7. /\ lease' \in [Installations -> [by : Managers \cup {None}, live : BOOLEAN]]
        /\ admission' \in [inst : Installations \cup {None},
                           by : Managers \cup {None}, live : BOOLEAN]
    <3>1. CASE lease' = lease /\ admission' = admission
      BY <3>1 DEF TypeOK
    <3>2. CASE /\ lease' = [lease EXCEPT ![hand[m].inst] = Unleased]
               /\ admission' = Unadmitted
      BY <3>2 DEF TypeOK, Unleased, Unadmitted
    <3> QED
      BY <1>14, <3>1, <3>2 DEF PublishNew, Releases
  <2> QED
    BY <1>14, <2>1, <2>3, <2>5, <2>6, <2>7 DEF PublishNew, TypeOK
<1>15. ASSUME NEW m \in Managers, PublishRefused(m)
      PROVE  TypeOK'
  <2>1. hand' \in [Managers -> Hand]
    BY <1>15, EndsTyped DEF PublishRefused, TypeOK
  <2> QED
    BY <1>15, <2>1 DEF PublishRefused, TypeOK, rows
<1>16. ASSUME NEW m \in Managers, ReadApproval(m)
      PROVE  TypeOK'
  <2>1. Ends(m) => hand' \in [Managers -> Hand]
    BY EndsTyped DEF TypeOK
  <2>2. Reports(m, "failed") => hand' \in [Managers -> Hand]
    BY ReportsTyped DEF TypeOK, States
  <2>3. ASSUME NEW seen \in Nat, Goes(m, Executing(m, seen))
        PROVE  hand' \in [Managers -> Hand]
    BY <2>3, ExecutingFacts, GoesTyped DEF TypeOK
  <2>4. hand' \in [Managers -> Hand] /\ UNCHANGED rows /\ UNCHANGED <<creating, retrying>>
    BY <1>16, <2>1, <2>2, <2>3, ApprovalRead DEF TypeOK
  <2> QED
    BY <2>4 DEF TypeOK, rows
<1>17. ASSUME NEW m \in Managers, Execute(m)
      PROVE  TypeOK'
  <2>1. PICK outcome \in States : Reports(m, outcome)
    BY <1>17 DEF Execute, States
  <2>2. hand' \in [Managers -> Hand]
    BY <2>1, ReportsTyped DEF TypeOK
  <2> QED
    BY <1>17, <2>2 DEF Execute, TypeOK, rows
<1>18. ASSUME NEW m \in Managers, Report(m)
      PROVE  TypeOK'
  <2>1. /\ hand[m].inst \in Installations
        /\ hand[m].outcome \in States
    BY <1>18 DEF Report, HandsKnown, States
  <2>2. hand' \in [Managers -> Hand]
    BY <1>18, EndsTyped DEF Report, TypeOK
  <2> QED
    BY <1>18, <2>1, <2>2 DEF Report, Releases, Unleased, Unadmitted, TypeOK
<1>19. ASSUME NEW m \in Managers, ReportRefused(m)
      PROVE  TypeOK'
  <2>1. hand' \in [Managers -> Hand]
    BY <1>19, EndsTyped DEF ReportRefused, TypeOK
  <2> QED
    BY <1>19, <2>1 DEF ReportRefused, TypeOK, rows
<1>20. ASSUME NEW m \in Managers, Abandon(m)
      PROVE  TypeOK'
  <2>1. hand' \in [Managers -> Hand]
    BY <1>20, EndsTyped DEF Abandon, TypeOK
  <2> QED
    BY <1>20, <2>1 DEF Abandon, TypeOK, rows
<1>21. CASE UNCHANGED vars
  BY <1>21 DEF vars, rows, TypeOK
<1> QED
  BY <1>1, <1>2, <1>3, <1>4, <1>5, <1>6, <1>7, <1>8, <1>9, <1>10, <1>11,
     <1>12, <1>13, <1>14, <1>15, <1>16, <1>17, <1>18, <1>19, <1>20, <1>21
  DEF Next, Administrator, Step, Publish

-----------------------------------------------------------------------------
\* No call moves a revision back.
LEMMA RevisionGrows ==
  ASSUME TypeOK, [Next]_vars
  PROVE  \A j \in Installations : revision[j] <= revision'[j]
<1>1. ASSUME NEW i \in Installations, BeginCreate(i)
      PROVE  \A j \in Installations : revision[j] <= revision'[j]
  BY <1>1 DEF BeginCreate, rows, TypeOK
<1>2. ASSUME NEW i \in Installations, Create(i)
      PROVE  \A j \in Installations : revision[j] <= revision'[j]
  BY <1>2 DEF Create, TypeOK
<1>3. ASSUME NEW i \in Installations, NEW page \in Pages(i),
             NEW decision \in {"approve", "reject"},
             Approve(i, page, decision)
      PROVE  \A j \in Installations : revision[j] <= revision'[j]
  BY <1>3 DEF Approve, TypeOK
<1>4. ASSUME NEW i \in Installations, NEW page \in Pages(i),
             Cancel(i, page)
      PROVE  \A j \in Installations : revision[j] <= revision'[j]
  BY <1>4 DEF Cancel, TypeOK
<1>5. ASSUME NEW i \in Installations, NEW page \in Pages(i),
             BeginRetry(i, page)
      PROVE  \A j \in Installations : revision[j] <= revision'[j]
  BY <1>5 DEF BeginRetry, rows, TypeOK
<1>6. ASSUME NEW i \in Installations, Retry(i)
      PROVE  \A j \in Installations : revision[j] <= revision'[j]
  BY <1>6 DEF Retry, TypeOK
<1>7. ASSUME NEW i \in Installations, Refuse(i)
      PROVE  \A j \in Installations : revision[j] <= revision'[j]
  BY <1>7 DEF Refuse, TypeOK
<1>8. ASSUME NEW i \in Installations, Lapse(i)
      PROVE  \A j \in Installations : revision[j] <= revision'[j]
  BY <1>8 DEF Lapse, TypeOK
<1>9. ASSUME NEW i \in Installations, ReviewExpires(i)
      PROVE  \A j \in Installations : revision[j] <= revision'[j]
  BY <1>9 DEF ReviewExpires, TypeOK
<1>10. ASSUME NEW m \in Managers, NEW i \in Installations,
             Claim(m, i)
      PROVE  \A j \in Installations : revision[j] <= revision'[j]
  BY <1>10 DEF Claim, TypeOK
<1>11. ASSUME NEW m \in Managers, Plan(m)
      PROVE  \A j \in Installations : revision[j] <= revision'[j]
  <2>1. UNCHANGED rows
    BY <1>11 DEF Plan
  <2> QED
    BY <2>1 DEF rows, TypeOK
<1>12. ASSUME NEW m \in Managers, PlanFails(m)
      PROVE  \A j \in Installations : revision[j] <= revision'[j]
  BY <1>12 DEF PlanFails, rows, TypeOK
<1>13. ASSUME NEW m \in Managers, PublishSame(m)
      PROVE  \A j \in Installations : revision[j] <= revision'[j]
  BY <1>13 DEF PublishSame, TypeOK
<1>14. ASSUME NEW m \in Managers, PublishNew(m)
      PROVE  \A j \in Installations : revision[j] <= revision'[j]
  BY <1>14 DEF PublishNew, TypeOK
<1>15. ASSUME NEW m \in Managers, PublishRefused(m)
      PROVE  \A j \in Installations : revision[j] <= revision'[j]
  BY <1>15 DEF PublishRefused, rows, TypeOK
<1>16. ASSUME NEW m \in Managers, ReadApproval(m)
      PROVE  \A j \in Installations : revision[j] <= revision'[j]
  <2>1. UNCHANGED rows
    BY <1>16 DEF ReadApproval
  <2> QED
    BY <2>1 DEF rows, TypeOK
<1>17. ASSUME NEW m \in Managers, Execute(m)
      PROVE  \A j \in Installations : revision[j] <= revision'[j]
  BY <1>17 DEF Execute, rows, TypeOK
<1>18. ASSUME NEW m \in Managers, Report(m)
      PROVE  \A j \in Installations : revision[j] <= revision'[j]
  BY <1>18 DEF Report, TypeOK
<1>19. ASSUME NEW m \in Managers, ReportRefused(m)
      PROVE  \A j \in Installations : revision[j] <= revision'[j]
  BY <1>19 DEF ReportRefused, rows, TypeOK
<1>20. ASSUME NEW m \in Managers, Abandon(m)
      PROVE  \A j \in Installations : revision[j] <= revision'[j]
  BY <1>20 DEF Abandon, rows, TypeOK
<1>21. CASE UNCHANGED vars
  BY <1>21 DEF vars, rows, TypeOK
<1> QED
  BY <1>1, <1>2, <1>3, <1>4, <1>5, <1>6, <1>7, <1>8, <1>9, <1>10, <1>11,
     <1>12, <1>13, <1>14, <1>15, <1>16, <1>17, <1>18, <1>19, <1>20, <1>21
  DEF Next, Administrator, Step, Publish

\* Where an attempt goes, what it knows stays true.
LEMMA GoesKnown ==
  ASSUME TypeOK, TypeOK', HandsKnown, \A j \in Installations : revision[j] <= revision'[j],
         NEW m \in Managers, NEW h, Goes(m, h),
         h.stage # "idle" =>
           /\ h.inst \in Installations
           /\ h.revision <= revision'[h.inst]
           /\ h.stage = "reporting" =>
                h.outcome \in {"ready", "failed", "manual_intervention"}
  PROVE  HandsKnown'
<1> SUFFICES ASSUME NEW n \in Managers, hand'[n].stage # "idle"
             PROVE  /\ hand'[n].inst \in Installations
                    /\ hand'[n].revision <= revision'[hand'[n].inst]
                    /\ hand'[n].stage = "reporting" =>
                         hand'[n].outcome \in {"ready", "failed", "manual_intervention"}
  BY DEF HandsKnown
<1>1. CASE n = m
  BY <1>1 DEF Goes, TypeOK
<1>2. CASE n # m
  <2>1. hand'[n] = hand[n]
    BY <1>2 DEF Goes, TypeOK
  <2>2. /\ hand[n].inst \in Installations
        /\ hand[n].revision <= revision[hand[n].inst]
    BY <2>1 DEF HandsKnown
  <2>3. /\ revision[hand[n].inst] \in Nat
        /\ revision'[hand[n].inst] \in Nat
        /\ hand[n].revision \in Nat
    BY <2>2 DEF TypeOK, Hand
  <2> QED
    BY <2>1, <2>2, <2>3 DEF HandsKnown
<1> QED
  BY <1>1, <1>2

\* No attempt moves, and revisions only grow.
LEMMA StillKnown ==
  ASSUME TypeOK, TypeOK', HandsKnown, \A j \in Installations : revision[j] <= revision'[j],
         UNCHANGED hand
  PROVE  HandsKnown'
<1> SUFFICES ASSUME NEW n \in Managers, hand[n].stage # "idle"
             PROVE  hand[n].revision <= revision'[hand[n].inst]
  BY DEF HandsKnown
<1>1. /\ hand[n].inst \in Installations
      /\ hand[n].revision <= revision[hand[n].inst]
  BY DEF HandsKnown
<1>2. /\ revision[hand[n].inst] \in Nat
      /\ revision'[hand[n].inst] \in Nat
      /\ hand[n].revision \in Nat
  BY <1>1 DEF TypeOK, Hand
<1> QED
  BY <1>1, <1>2

\* An attempt that reports an outcome the host knows.
LEMMA ReportsKnown ==
  ASSUME TypeOK, TypeOK', HandsKnown, \A j \in Installations : revision[j] <= revision'[j],
         NEW m \in Managers, hand[m].inst \in Installations,
         hand[m].revision <= revision'[hand[m].inst],
         NEW outcome \in {"ready", "failed", "manual_intervention"}, Reports(m, outcome)
  PROVE  HandsKnown'
<1> DEFINE h == [hand[m] EXCEPT !.stage = "reporting", !.outcome = outcome]
<1>1. /\ h.stage = "reporting" /\ h.inst = hand[m].inst
      /\ h.revision = hand[m].revision /\ h.outcome = outcome
  BY DEF TypeOK, Hand
<1>2. Goes(m, h)
  BY DEF Reports
<1> HIDE DEF h
<1> QED
  BY <1>1, <1>2, GoesKnown

\* An attempt after publishReview.
LEMMA ReviewedKnown ==
  ASSUME TypeOK, TypeOK', HandsKnown, \A j \in Installations : revision[j] <= revision'[j],
         NEW m \in Managers, hand[m].inst \in Installations,
         hand[m].revision <= revision'[hand[m].inst], revision'[hand[m].inst] \in Nat,
         NEW id, NEW retained, Reviewed(m, id, retained)
  PROVE  HandsKnown'
<1> DEFINE f == [hand[m] EXCEPT !.stage = "reporting", !.outcome = "failed",
                                !.review = id, !.revision = revision'[hand[m].inst]]
           p == [hand[m] EXCEPT !.stage = "polling", !.review = id]
<1>1. /\ f.stage = "reporting" /\ f.inst = hand[m].inst
      /\ f.revision = revision'[hand[m].inst] /\ f.outcome = "failed"
      /\ p.stage = "polling" /\ p.inst = hand[m].inst /\ p.revision = hand[m].revision
  BY DEF TypeOK, Hand
<1>2. Goes(m, f) \/ Goes(m, p) \/ Goes(m, Idle)
  BY DEF Reviewed, Ends
<1>3. f.revision <= revision'[f.inst]
  BY <1>1
<1>4. p.revision <= revision'[p.inst]
  BY <1>1
<1> HIDE DEF f, p
<1>5. CASE Goes(m, f)
  BY <1>1, <1>3, <1>5, GoesKnown
<1>6. CASE Goes(m, p)
  BY <1>1, <1>4, <1>6, GoesKnown
<1>7. CASE Goes(m, Idle)
  BY <1>7, GoesKnown DEF Idle
<1> QED
  BY <1>2, <1>5, <1>6, <1>7

\* Every attempt goes on with a revision its intent has had.
LEMMA KnownKept ==
  ASSUME TypeOK, TypeOK', HandsKnown, [Next]_vars
  PROVE  HandsKnown'
<1>0. \A j \in Installations : revision[j] <= revision'[j]
  BY RevisionGrows
<1> USE <1>0
<1>1. ASSUME NEW i \in Installations, BeginCreate(i)
      PROVE  HandsKnown'
  BY <1>1, StillKnown DEF BeginCreate
<1>2. ASSUME NEW i \in Installations, Create(i)
      PROVE  HandsKnown'
  BY <1>2, StillKnown DEF Create
<1>3. ASSUME NEW i \in Installations, NEW page \in Pages(i),
             NEW decision \in {"approve", "reject"},
             Approve(i, page, decision)
      PROVE  HandsKnown'
  BY <1>3, StillKnown DEF Approve
<1>4. ASSUME NEW i \in Installations, NEW page \in Pages(i),
             Cancel(i, page)
      PROVE  HandsKnown'
  BY <1>4, StillKnown DEF Cancel
<1>5. ASSUME NEW i \in Installations, NEW page \in Pages(i),
             BeginRetry(i, page)
      PROVE  HandsKnown'
  BY <1>5, StillKnown DEF BeginRetry
<1>6. ASSUME NEW i \in Installations, Retry(i)
      PROVE  HandsKnown'
  BY <1>6, StillKnown DEF Retry
<1>7. ASSUME NEW i \in Installations, Refuse(i)
      PROVE  HandsKnown'
  BY <1>7, StillKnown DEF Refuse
<1>8. ASSUME NEW i \in Installations, Lapse(i)
      PROVE  HandsKnown'
  BY <1>8, StillKnown DEF Lapse
<1>9. ASSUME NEW i \in Installations, ReviewExpires(i)
      PROVE  HandsKnown'
  BY <1>9, StillKnown DEF ReviewExpires
<1>10. ASSUME NEW m \in Managers, NEW i \in Installations,
             Claim(m, i)
      PROVE  HandsKnown'
  <2>1. revision'[i] = revision[i] /\ revision[i] \in Nat
    BY <1>10 DEF Claim, TypeOK
  <2> QED
    BY <1>10, <2>1, GoesKnown DEF Claim
<1>11. ASSUME NEW m \in Managers, Plan(m)
      PROVE  HandsKnown'
  <2>1. /\ hand[m].inst \in Installations
        /\ hand[m].revision <= revision'[hand[m].inst]
    BY <1>11 DEF Plan, HandsKnown, rows
  <2>2. PICK h \in Hand : /\ Goes(m, h) /\ h.stage = "planned"
                          /\ h.inst = hand[m].inst /\ h.revision = hand[m].revision
    <3>1. hand[m] \in Hand
      BY DEF TypeOK
    <3>2. CASE Goes(m, [hand[m] EXCEPT !.stage = "planned"])
      BY <3>1, <3>2 DEF Hand, Stages
    <3>3. ASSUME NEW approvable \in BOOLEAN,
                 Goes(m, [hand[m] EXCEPT !.stage = "planned", !.review = Generated,
                                         !.approvable = approvable])
          PROVE  \E h \in Hand : /\ Goes(m, h) /\ h.stage = "planned"
                                 /\ h.inst = hand[m].inst
                                 /\ h.revision = hand[m].revision
      <4> DEFINE h == [hand[m] EXCEPT !.stage = "planned", !.review = Generated,
                                      !.approvable = approvable]
      <4>1. h \in Hand
        BY StageTyped DEF TypeOK, Stages, Generated
      <4>2. h.stage = "planned" /\ h.inst = hand[m].inst /\ h.revision = hand[m].revision
        BY <3>1 DEF Hand
      <4>3. Goes(m, h)
        BY <3>3
      <4> HIDE DEF h
      <4> QED
        BY <4>1, <4>2, <4>3
    <3> QED
      BY <1>11, <3>2, <3>3 DEF Plan
  <2> QED
    BY <2>1, <2>2, GoesKnown
<1>12. ASSUME NEW m \in Managers, PlanFails(m)
      PROVE  HandsKnown'
  <2>1. /\ hand[m].inst \in Installations
        /\ hand[m].revision <= revision'[hand[m].inst]
    BY <1>12 DEF PlanFails, HandsKnown, rows
  <2> QED
    BY <1>12, <2>1, ReportsKnown DEF PlanFails
<1>13. ASSUME NEW m \in Managers, PublishSame(m)
      PROVE  HandsKnown'
  <2>1. /\ hand[m].inst \in Installations
        /\ hand[m].revision <= revision'[hand[m].inst]
    BY <1>13 DEF PublishSame, HandsKnown, rows
  <2>2. revision'[hand[m].inst] \in Nat
    BY <2>1 DEF TypeOK
  <2> QED
    BY <1>13, <2>1, <2>2, ReviewedKnown DEF PublishSame
<1>14. ASSUME NEW m \in Managers, PublishNew(m)
      PROVE  HandsKnown'
  <2>1. /\ hand[m].inst \in Installations
        /\ hand[m].revision <= revision'[hand[m].inst]
    <3>1. /\ hand[m].inst \in Installations
          /\ hand[m].revision <= revision[hand[m].inst]
      BY <1>14 DEF PublishNew, HandsKnown
    <3>2. /\ revision[hand[m].inst] \in Nat /\ revision'[hand[m].inst] \in Nat
          /\ hand[m].revision \in Nat
      BY <3>1 DEF TypeOK, Hand
    <3> QED
      BY <3>1, <3>2
  <2>2. revision'[hand[m].inst] \in Nat
    BY <2>1 DEF TypeOK
  <2> QED
    BY <1>14, <2>1, <2>2, ReviewedKnown DEF PublishNew
<1>15. ASSUME NEW m \in Managers, PublishRefused(m)
      PROVE  HandsKnown'
  <2>1. Goes(m, Idle)
    BY <1>15 DEF PublishRefused, Ends
  <2> QED
    BY <2>1, GoesKnown DEF Idle
<1>16. ASSUME NEW m \in Managers, ReadApproval(m)
      PROVE  HandsKnown'
  <2>1. /\ hand[m].inst \in Installations
        /\ hand[m].revision <= revision'[hand[m].inst]
    BY <1>16 DEF ReadApproval, HandsKnown, rows
  <2>2. CASE Ends(m)
    BY <2>2, GoesKnown DEF Ends, Idle
  <2>3. CASE Reports(m, "failed")
    BY <2>1, <2>3, ReportsKnown
  <2>4. ASSUME NEW seen \in Nat, seen <= revision[hand[m].inst], Goes(m, Executing(m, seen))
        PROVE  HandsKnown'
    <3> DEFINE h == Executing(m, seen)
    <3>1. h.stage = "executing" /\ h.inst = hand[m].inst /\ h.revision = seen
      BY ExecutingFacts
    <3> HIDE DEF h
    <3>2. revision' = revision
      BY <1>16 DEF ReadApproval, rows
    <3> QED
      BY <2>1, <2>4, <3>1, <3>2, GoesKnown DEF h
  <2> QED
    BY <1>16, <2>2, <2>3, <2>4, ApprovalRead
<1>17. ASSUME NEW m \in Managers, Execute(m)
      PROVE  HandsKnown'
  <2>1. /\ hand[m].inst \in Installations
        /\ hand[m].revision <= revision'[hand[m].inst]
    BY <1>17 DEF Execute, HandsKnown, rows
  <2> QED
    BY <1>17, <2>1, ReportsKnown DEF Execute
<1>18. ASSUME NEW m \in Managers, Report(m)
      PROVE  HandsKnown'
  <2>1. Goes(m, Idle)
    BY <1>18 DEF Report, Ends
  <2> QED
    BY <2>1, GoesKnown DEF Idle
<1>19. ASSUME NEW m \in Managers, ReportRefused(m)
      PROVE  HandsKnown'
  <2>1. Goes(m, Idle)
    BY <1>19 DEF ReportRefused, Ends
  <2> QED
    BY <2>1, GoesKnown DEF Idle
<1>20. ASSUME NEW m \in Managers, Abandon(m)
      PROVE  HandsKnown'
  <2>1. Goes(m, Idle)
    BY <1>20 DEF Abandon, Ends
  <2> QED
    BY <2>1, GoesKnown DEF Idle
<1>21. CASE UNCHANGED vars
  BY <1>21, StillKnown DEF vars
<1> QED
  BY <1>1, <1>2, <1>3, <1>4, <1>5, <1>6, <1>7, <1>8, <1>9, <1>10, <1>11,
     <1>12, <1>13, <1>14, <1>15, <1>16, <1>17, <1>18, <1>19, <1>20, <1>21
  DEF Next, Administrator, Step, Publish

-----------------------------------------------------------------------------
\* The two rows of a lease stay together.
LEMMA LeasesKept ==
  ASSUME TypeOK, HandsKnown, LeaseHoldsDeployment, LiveIsUnderWay,
         AcceptedIsClaimable, PendingWrites, [Next]_vars
  PROVE  LeaseHoldsDeployment' /\ LiveIsUnderWay'
<1>1. ASSUME NEW i \in Installations, BeginCreate(i)
      PROVE  LeaseHoldsDeployment' /\ LiveIsUnderWay'
  <2>1. UNCHANGED rows
    BY <1>1 DEF BeginCreate
  <2> QED
    BY <2>1 DEF rows, LeaseHoldsDeployment, LiveIsUnderWay
<1>2. ASSUME NEW i \in Installations, Create(i)
      PROVE  LeaseHoldsDeployment' /\ LiveIsUnderWay'
  BY <1>2 DEF Create, LeaseHoldsDeployment, LiveIsUnderWay, TypeOK, claimableStates
<1>3. ASSUME NEW i \in Installations, NEW page \in Pages(i),
             NEW decision \in {"approve", "reject"},
             Approve(i, page, decision)
      PROVE  LeaseHoldsDeployment' /\ LiveIsUnderWay'
  <2>1. state'[i] \in {"approved", "cancelled"}
    BY <1>3 DEF Approve, TypeOK
  <2> QED
    BY <1>3, <2>1
    DEF Approve, LeaseHoldsDeployment, LiveIsUnderWay, TypeOK, claimableStates
<1>4. ASSUME NEW i \in Installations, NEW page \in Pages(i),
             Cancel(i, page)
      PROVE  LeaseHoldsDeployment' /\ LiveIsUnderWay'
  BY <1>4
  DEF Cancel, Cancellable, LeaseHoldsDeployment, LiveIsUnderWay, Unleased,
      TypeOK
<1>5. ASSUME NEW i \in Installations, NEW page \in Pages(i),
             BeginRetry(i, page)
      PROVE  LeaseHoldsDeployment' /\ LiveIsUnderWay'
  <2>1. UNCHANGED rows
    BY <1>5 DEF BeginRetry
  <2> QED
    BY <2>1 DEF rows, LeaseHoldsDeployment, LiveIsUnderWay
<1>6. ASSUME NEW i \in Installations, Retry(i)
      PROVE  LeaseHoldsDeployment' /\ LiveIsUnderWay'
  <2>1. ~lease[i].live
    BY <1>6 DEF Retry, PendingWrites, LiveIsUnderWay, claimableStates, TypeOK
  <2> QED
    BY <1>6, <2>1
    DEF Retry, LeaseHoldsDeployment, LiveIsUnderWay, Unleased, TypeOK,
        claimableStates
<1>7. ASSUME NEW i \in Installations, Refuse(i)
      PROVE  LeaseHoldsDeployment' /\ LiveIsUnderWay'
  BY <1>7
  DEF Refuse, Offered, Eligible, LeaseHoldsDeployment, LiveIsUnderWay, Unleased,
      TypeOK
<1>8. ASSUME NEW i \in Installations, Lapse(i)
      PROVE  LeaseHoldsDeployment' /\ LiveIsUnderWay'
  BY <1>8 DEF Lapse, LeaseHoldsDeployment, LiveIsUnderWay, TypeOK
<1>9. ASSUME NEW i \in Installations, ReviewExpires(i)
      PROVE  LeaseHoldsDeployment' /\ LiveIsUnderWay'
  BY <1>9 DEF ReviewExpires, LeaseHoldsDeployment, LiveIsUnderWay, TypeOK
<1>10. ASSUME NEW m \in Managers, NEW i \in Installations,
             Claim(m, i)
      PROVE  LeaseHoldsDeployment' /\ LiveIsUnderWay'
  <2>1. /\ ~admission.live /\ state[i] \in claimableStates
        /\ \A j \in Installations : ~lease[j].live
    BY <1>10 DEF Claim, Offered, Eligible, LeaseHoldsDeployment
  <2>2. /\ lease' = [lease EXCEPT ![i] = [by |-> m, live |-> TRUE]]
        /\ admission' = [inst |-> i, by |-> m, live |-> TRUE]
        /\ state' = state
    BY <1>10 DEF Claim
  <2> QED
    BY <2>1, <2>2 DEF LeaseHoldsDeployment, LiveIsUnderWay, TypeOK
<1>11. ASSUME NEW m \in Managers, Plan(m)
      PROVE  LeaseHoldsDeployment' /\ LiveIsUnderWay'
  <2>1. UNCHANGED rows
    BY <1>11 DEF Plan
  <2> QED
    BY <2>1 DEF rows, LeaseHoldsDeployment, LiveIsUnderWay
<1>12. ASSUME NEW m \in Managers, PlanFails(m)
      PROVE  LeaseHoldsDeployment' /\ LiveIsUnderWay'
  <2>1. UNCHANGED rows
    BY <1>12 DEF PlanFails
  <2> QED
    BY <2>1 DEF rows, LeaseHoldsDeployment, LiveIsUnderWay
<1>13. ASSUME NEW m \in Managers, PublishSame(m)
      PROVE  LeaseHoldsDeployment' /\ LiveIsUnderWay'
  <2>1. /\ hand[m].inst \in Installations
        /\ lease[hand[m].inst] = [by |-> m, live |-> TRUE]
        /\ state[hand[m].inst] \in claimableStates
    BY <1>13 DEF PublishSame, Accepted, HandsKnown, AcceptedIsClaimable
  <2>2. admission = [inst |-> hand[m].inst, by |-> m, live |-> TRUE]
    BY <2>1 DEF LeaseHoldsDeployment
  <2>3. state' = state
    BY <1>13 DEF PublishSame
  <2>4. CASE /\ lease' = [lease EXCEPT ![hand[m].inst] = Unleased]
             /\ admission' = Unadmitted
    BY <2>1, <2>2, <2>3, <2>4, NoneAssumption
    DEF LeaseHoldsDeployment, LiveIsUnderWay, Unleased, Unadmitted, TypeOK
  <2>5. CASE lease' = lease /\ admission' = admission
    BY <2>1, <2>3, <2>5
    DEF LeaseHoldsDeployment, LiveIsUnderWay, TypeOK, claimableStates
  <2> QED
    BY <1>13, <2>4, <2>5 DEF PublishSame, Releases
<1>14. ASSUME NEW m \in Managers, PublishNew(m)
      PROVE  LeaseHoldsDeployment' /\ LiveIsUnderWay'
  <2>1. /\ hand[m].inst \in Installations
        /\ lease[hand[m].inst] = [by |-> m, live |-> TRUE]
        /\ state[hand[m].inst] \in claimableStates
    BY <1>14 DEF PublishNew, Accepted, HandsKnown, AcceptedIsClaimable
  <2>2. admission = [inst |-> hand[m].inst, by |-> m, live |-> TRUE]
    BY <2>1 DEF LeaseHoldsDeployment
  <2>3. state' = [state EXCEPT ![hand[m].inst] = "awaiting_approval"]
    BY <1>14 DEF PublishNew
  <2>4. CASE /\ lease' = [lease EXCEPT ![hand[m].inst] = Unleased]
             /\ admission' = Unadmitted
    BY <2>1, <2>2, <2>3, <2>4, NoneAssumption
    DEF LeaseHoldsDeployment, LiveIsUnderWay, Unleased, Unadmitted, TypeOK
  <2>5. CASE lease' = lease /\ admission' = admission
    BY <2>1, <2>3, <2>5
    DEF LeaseHoldsDeployment, LiveIsUnderWay, TypeOK, claimableStates
  <2> QED
    BY <1>14, <2>4, <2>5 DEF PublishNew, Releases
<1>15. ASSUME NEW m \in Managers, PublishRefused(m)
      PROVE  LeaseHoldsDeployment' /\ LiveIsUnderWay'
  <2>1. UNCHANGED rows
    BY <1>15 DEF PublishRefused
  <2> QED
    BY <2>1 DEF rows, LeaseHoldsDeployment, LiveIsUnderWay
<1>16. ASSUME NEW m \in Managers, ReadApproval(m)
      PROVE  LeaseHoldsDeployment' /\ LiveIsUnderWay'
  <2>1. UNCHANGED rows
    BY <1>16 DEF ReadApproval
  <2> QED
    BY <2>1 DEF rows, LeaseHoldsDeployment, LiveIsUnderWay
<1>17. ASSUME NEW m \in Managers, Execute(m)
      PROVE  LeaseHoldsDeployment' /\ LiveIsUnderWay'
  <2>1. UNCHANGED rows
    BY <1>17 DEF Execute
  <2> QED
    BY <2>1 DEF rows, LeaseHoldsDeployment, LiveIsUnderWay
<1>18. ASSUME NEW m \in Managers, Report(m)
      PROVE  LeaseHoldsDeployment' /\ LiveIsUnderWay'
  <2>1. /\ hand[m].inst \in Installations
        /\ lease[hand[m].inst] = [by |-> m, live |-> TRUE]
        /\ state[hand[m].inst] \in claimableStates
    BY <1>18 DEF Report, Accepted, HandsKnown, AcceptedIsClaimable
  <2>2. admission = [inst |-> hand[m].inst, by |-> m, live |-> TRUE]
    BY <2>1 DEF LeaseHoldsDeployment
  <2> QED
    BY <1>18, <2>1, <2>2, NoneAssumption
    DEF Report, Releases, LeaseHoldsDeployment, LiveIsUnderWay, Unleased, Unadmitted,
        TypeOK
<1>19. ASSUME NEW m \in Managers, ReportRefused(m)
      PROVE  LeaseHoldsDeployment' /\ LiveIsUnderWay'
  <2>1. UNCHANGED rows
    BY <1>19 DEF ReportRefused
  <2> QED
    BY <2>1 DEF rows, LeaseHoldsDeployment, LiveIsUnderWay
<1>20. ASSUME NEW m \in Managers, Abandon(m)
      PROVE  LeaseHoldsDeployment' /\ LiveIsUnderWay'
  <2>1. UNCHANGED rows
    BY <1>20 DEF Abandon
  <2> QED
    BY <2>1 DEF rows, LeaseHoldsDeployment, LiveIsUnderWay
<1>21. CASE UNCHANGED vars
  BY <1>21 DEF vars, rows, LeaseHoldsDeployment, LiveIsUnderWay
<1> QED
  BY <1>1, <1>2, <1>3, <1>4, <1>5, <1>6, <1>7, <1>8, <1>9, <1>10, <1>11,
     <1>12, <1>13, <1>14, <1>15, <1>16, <1>17, <1>18, <1>19, <1>20, <1>21
  DEF Next, Administrator, Step, Publish

\* What retry and createIntent have read stays true until they write.
LEMMA WritesKept ==
  ASSUME TypeOK, HandsKnown, AcceptedIsClaimable,
         PendingWrites, FreshHasNoReview, [Next]_vars
  PROVE  PendingWrites' /\ FreshHasNoReview'
<1>1. ASSUME NEW i \in Installations, BeginCreate(i)
      PROVE  PendingWrites' /\ FreshHasNoReview'
  BY <1>1 DEF BeginCreate, rows, PendingWrites, FreshHasNoReview
<1>2. ASSUME NEW i \in Installations, Create(i)
      PROVE  PendingWrites' /\ FreshHasNoReview'
  BY <1>2, NoneAssumption DEF Create, PendingWrites, FreshHasNoReview, TypeOK
<1>3. ASSUME NEW i \in Installations, NEW page \in Pages(i),
             NEW decision \in {"approve", "reject"},
             Approve(i, page, decision)
      PROVE  PendingWrites' /\ FreshHasNoReview'
  <2>1. state'[i] \in {"approved", "cancelled"}
    BY <1>3 DEF Approve, TypeOK
  <2>2. state[i] = "awaiting_approval" /\ i \notin retrying
    BY <1>3 DEF Approve, Approvable, IntentFree
  <2> QED
    BY <1>3, <2>1, <2>2 DEF Approve, PendingWrites, FreshHasNoReview, TypeOK
<1>4. ASSUME NEW i \in Installations, NEW page \in Pages(i),
             Cancel(i, page)
      PROVE  PendingWrites' /\ FreshHasNoReview'
  BY <1>4 DEF Cancel, Cancellable, IntentFree, PendingWrites, FreshHasNoReview, TypeOK
<1>5. ASSUME NEW i \in Installations, NEW page \in Pages(i),
             BeginRetry(i, page)
      PROVE  PendingWrites' /\ FreshHasNoReview'
  BY <1>5 DEF BeginRetry, rows, PendingWrites, FreshHasNoReview
<1>6. ASSUME NEW i \in Installations, Retry(i)
      PROVE  PendingWrites' /\ FreshHasNoReview'
  BY <1>6 DEF Retry, PendingWrites, FreshHasNoReview, TypeOK
<1>7. ASSUME NEW i \in Installations, Refuse(i)
      PROVE  PendingWrites' /\ FreshHasNoReview'
  BY <1>7
  DEF Refuse, Offered, Eligible, AdmissionFree, IntentFree, PendingWrites,
      FreshHasNoReview, TypeOK
<1>8. ASSUME NEW i \in Installations, Lapse(i)
      PROVE  PendingWrites' /\ FreshHasNoReview'
  BY <1>8 DEF Lapse, PendingWrites, FreshHasNoReview, TypeOK
<1>9. ASSUME NEW i \in Installations, ReviewExpires(i)
      PROVE  PendingWrites' /\ FreshHasNoReview'
  BY <1>9 DEF ReviewExpires, PendingWrites, FreshHasNoReview, TypeOK
<1>10. ASSUME NEW m \in Managers, NEW i \in Installations,
             Claim(m, i)
      PROVE  PendingWrites' /\ FreshHasNoReview'
  BY <1>10 DEF Claim, PendingWrites, FreshHasNoReview
<1>11. ASSUME NEW m \in Managers, Plan(m)
      PROVE  PendingWrites' /\ FreshHasNoReview'
  <2>1. UNCHANGED rows /\ UNCHANGED <<creating, retrying>>
    BY <1>11 DEF Plan
  <2> QED
    BY <2>1 DEF rows, PendingWrites, FreshHasNoReview
<1>12. ASSUME NEW m \in Managers, PlanFails(m)
      PROVE  PendingWrites' /\ FreshHasNoReview'
  <2>1. UNCHANGED rows /\ UNCHANGED <<creating, retrying>>
    BY <1>12 DEF PlanFails
  <2> QED
    BY <2>1 DEF rows, PendingWrites, FreshHasNoReview
<1>13. ASSUME NEW m \in Managers, PublishSame(m)
      PROVE  PendingWrites' /\ FreshHasNoReview'
  <2>1. /\ hand[m].inst \in Installations
        /\ lease[hand[m].inst] = [by |-> m, live |-> TRUE]
        /\ state[hand[m].inst] \in claimableStates
    BY <1>13 DEF PublishSame, Accepted, HandsKnown, AcceptedIsClaimable
  <2> QED
    BY <1>13, <2>1
   
   DEF PublishSame, PendingWrites, FreshHasNoReview, IntentFree, Releases,
       AdmissionFree,
        TypeOK, HandsKnown, claimableStates
<1>14. ASSUME NEW m \in Managers, PublishNew(m)
      PROVE  PendingWrites' /\ FreshHasNoReview'
  <2>1. /\ hand[m].inst \in Installations
        /\ lease[hand[m].inst] = [by |-> m, live |-> TRUE]
        /\ state[hand[m].inst] \in claimableStates
    BY <1>14 DEF PublishNew, Accepted, HandsKnown, AcceptedIsClaimable
  <2> QED
    BY <1>14, <2>1
   
   DEF PublishNew, PendingWrites, FreshHasNoReview, IntentFree, Releases,
       AdmissionFree,
        TypeOK, HandsKnown, claimableStates
<1>15. ASSUME NEW m \in Managers, PublishRefused(m)
      PROVE  PendingWrites' /\ FreshHasNoReview'
  <2>1. UNCHANGED rows /\ UNCHANGED <<creating, retrying>>
    BY <1>15 DEF PublishRefused
  <2> QED
    BY <2>1 DEF rows, PendingWrites, FreshHasNoReview
<1>16. ASSUME NEW m \in Managers, ReadApproval(m)
      PROVE  PendingWrites' /\ FreshHasNoReview'
  <2>1. UNCHANGED rows /\ UNCHANGED <<creating, retrying>>
    BY <1>16 DEF ReadApproval
  <2> QED
    BY <2>1 DEF rows, PendingWrites, FreshHasNoReview
<1>17. ASSUME NEW m \in Managers, Execute(m)
      PROVE  PendingWrites' /\ FreshHasNoReview'
  <2>1. UNCHANGED rows /\ UNCHANGED <<creating, retrying>>
    BY <1>17 DEF Execute
  <2> QED
    BY <2>1 DEF rows, PendingWrites, FreshHasNoReview
<1>18. ASSUME NEW m \in Managers, Report(m)
      PROVE  PendingWrites' /\ FreshHasNoReview'
  <2>1. /\ hand[m].inst \in Installations
        /\ lease[hand[m].inst] = [by |-> m, live |-> TRUE]
        /\ state[hand[m].inst] \in claimableStates
    BY <1>18 DEF Report, Accepted, HandsKnown, AcceptedIsClaimable
  <2> QED
    BY <1>18, <2>1
    DEF Report, PendingWrites, FreshHasNoReview, IntentFree, Releases, AdmissionFree,
        TypeOK, HandsKnown, claimableStates
<1>19. ASSUME NEW m \in Managers, ReportRefused(m)
      PROVE  PendingWrites' /\ FreshHasNoReview'
  <2>1. UNCHANGED rows /\ UNCHANGED <<creating, retrying>>
    BY <1>19 DEF ReportRefused
  <2> QED
    BY <2>1 DEF rows, PendingWrites, FreshHasNoReview
<1>20. ASSUME NEW m \in Managers, Abandon(m)
      PROVE  PendingWrites' /\ FreshHasNoReview'
  <2>1. UNCHANGED rows /\ UNCHANGED <<creating, retrying>>
    BY <1>20 DEF Abandon
  <2> QED
    BY <2>1 DEF rows, PendingWrites, FreshHasNoReview
<1>21. CASE UNCHANGED vars
  BY <1>21 DEF vars, rows, PendingWrites, FreshHasNoReview
<1> QED
  BY <1>1, <1>2, <1>3, <1>4, <1>5, <1>6, <1>7, <1>8, <1>9, <1>10, <1>11,
     <1>12, <1>13, <1>14, <1>15, <1>16, <1>17, <1>18, <1>19, <1>20, <1>21
  DEF Next, Administrator, Step, Publish

-----------------------------------------------------------------------------
\* What a step leaves of the leases and rows an attempt may rely on, ...
Undisturbed(n) ==
  \A j \in Installations :
    /\ lease'[j] = [by |-> n, live |-> TRUE] => lease[j] = lease'[j]
    /\ state'[j] \in claimableStates \cup {state[j]} \/ revision[j] < revision'[j]

\* ... and of the intent and the revision it works on.
SameWork(n) ==
  hand'[n].stage # "idle" =>
    /\ hand[n].stage # "idle"
    /\ hand'[n].inst = hand[n].inst
    /\ hand'[n].revision = hand[n].revision

\* An attempt that works on and is accepted was accepted before the step.
LEMMA AcceptedStill ==
  ASSUME TypeOK, TypeOK', HandsKnown, AcceptedIsClaimable,
         \A j \in Installations : revision[j] <= revision'[j],
         NEW n \in Managers, Undisturbed(n), SameWork(n),
         hand'[n].stage # "idle", Accepted(n)'
  PROVE  state'[hand'[n].inst] \in claimableStates
<1> DEFINE j == hand[n].inst
<1>1. /\ hand[n].stage # "idle" /\ hand'[n].inst = j
      /\ j \in Installations
      /\ hand[n].revision <= revision[j]
      /\ hand'[n].revision = hand[n].revision
  BY DEF SameWork, HandsKnown
<1>2. lease'[j] = [by |-> n, live |-> TRUE] /\ revision'[j] = hand[n].revision
  BY <1>1 DEF Accepted
<1>3. revision[j] \in Nat /\ revision'[j] \in Nat /\ hand[n].revision \in Nat
  BY <1>1 DEF TypeOK, Hand
<1>4. lease[j] = [by |-> n, live |-> TRUE] /\ revision[j] = hand[n].revision
  <2>1. lease[j] = [by |-> n, live |-> TRUE]
    BY <1>1, <1>2 DEF Undisturbed
  <2>2. revision[j] <= revision'[j]
    BY <1>1
  <2> QED
    BY <1>1, <1>2, <1>3, <2>1, <2>2
<1>5. state[j] \in claimableStates
  BY <1>1, <1>4 DEF AcceptedIsClaimable, Accepted
<1> QED
  BY <1>1, <1>2, <1>3, <1>4, <1>5 DEF Undisturbed

\* Every attempt works on, unless the one that moves ends.
LEMMA GoesOn ==
  ASSUME TypeOK, NEW m \in Managers, NEW h, Goes(m, h),
         h.stage # "idle" =>
           /\ hand[m].stage # "idle"
           /\ h.inst = hand[m].inst
           /\ h.revision = hand[m].revision
  PROVE  \A n \in Managers : SameWork(n)
  BY DEF Goes, SameWork, TypeOK

\* The attempt that moves ends.
LEMMA EndsOn ==
  ASSUME TypeOK, NEW m \in Managers, Ends(m)
  PROVE  \A n \in Managers : SameWork(n)
  BY GoesOn DEF Ends, Idle

\* The attempt that moves turns to its report.
LEMMA ReportsOn ==
  ASSUME TypeOK, NEW m \in Managers, NEW outcome, hand[m].stage # "idle",
         Reports(m, outcome)
  PROVE  \A n \in Managers : SameWork(n)
<1> DEFINE h == [hand[m] EXCEPT !.stage = "reporting", !.outcome = outcome]
<1>1. h.inst = hand[m].inst /\ h.revision = hand[m].revision
  BY DEF TypeOK, Hand
<1>2. Goes(m, h)
  BY DEF Reports
<1> HIDE DEF h
<1> QED
  BY <1>1, <1>2, GoesOn

\* The attempt that moves has published the review the host stored already.
LEMMA ReviewedOn ==
  ASSUME TypeOK, NEW m \in Managers, NEW id, NEW retained, hand[m].stage # "idle",
         Reviewed(m, id, retained), revision'[hand[m].inst] = hand[m].revision
  PROVE  \A n \in Managers : SameWork(n)
<1> DEFINE f == [hand[m] EXCEPT !.stage = "reporting", !.outcome = "failed",
                                !.review = id, !.revision = revision'[hand[m].inst]]
           p == [hand[m] EXCEPT !.stage = "polling", !.review = id]
<1>1. /\ f.inst = hand[m].inst /\ f.revision = hand[m].revision
      /\ p.inst = hand[m].inst /\ p.revision = hand[m].revision
  BY DEF TypeOK, Hand
<1>2. Goes(m, f) \/ Goes(m, p) \/ Ends(m)
  BY DEF Reviewed
<1> HIDE DEF f, p
<1> QED
  BY <1>1, <1>2, GoesOn, EndsOn

\* Where an attempt goes with a review that was not published before.
LEMMA ReviewedNew ==
  ASSUME TypeOK, NEW m \in Managers, NEW id,
         Reviewed(m, id, ~hand[m].approvable)
  PROVE  /\ \A n \in Managers \ {m} : hand'[n] = hand[n]
         /\ hand'[m].stage # "idle" =>
              /\ hand'[m].inst = hand[m].inst
              /\ hand'[m].stage = "reporting"
              /\ hand'[m].outcome = "failed"
<1> DEFINE f == [hand[m] EXCEPT !.stage = "reporting", !.outcome = "failed",
                                !.review = id, !.revision = revision'[hand[m].inst]]
<1>1. f.inst = hand[m].inst /\ f.stage = "reporting" /\ f.outcome = "failed"
  BY DEF TypeOK, Hand
<1>2. Goes(m, f) \/ Goes(m, Idle)
  BY DEF Reviewed, Ends
<1> HIDE DEF f
<1> QED
  BY <1>1, <1>2 DEF Goes, TypeOK, Idle

\* A call the host accepts still finds a claimable intent.
LEMMA AcceptedKept ==
  ASSUME TypeOK, TypeOK', HandsKnown, AcceptedIsClaimable, HeldApproval, [Next]_vars
  PROVE  AcceptedIsClaimable'
<1>0. \A j \in Installations : revision[j] <= revision'[j]
  BY RevisionGrows
<1> USE <1>0
<1>1. ASSUME NEW i \in Installations, BeginCreate(i)
      PROVE  AcceptedIsClaimable'
  <2>1. UNCHANGED rows
    BY <1>1 DEF BeginCreate
  <2>2. \A n \in Managers : Undisturbed(n)
    BY <2>1 DEF rows, Undisturbed
  <2>3. \A n \in Managers : SameWork(n)
    BY <1>1 DEF BeginCreate, SameWork
  <2> QED
    BY <2>2, <2>3, AcceptedStill DEF AcceptedIsClaimable
<1>2. ASSUME NEW i \in Installations, Create(i)
      PROVE  AcceptedIsClaimable'
  <2>2. \A n \in Managers : Undisturbed(n)
    BY <1>2, NoneAssumption DEF Create, Undisturbed, claimableStates, TypeOK
  <2>3. \A n \in Managers : SameWork(n)
    BY <1>2 DEF Create, SameWork
  <2> QED
    BY <2>2, <2>3, AcceptedStill DEF AcceptedIsClaimable
<1>3. ASSUME NEW i \in Installations, NEW page \in Pages(i),
             NEW decision \in {"approve", "reject"},
             Approve(i, page, decision)
      PROVE  AcceptedIsClaimable'
  <2>2. \A n \in Managers : Undisturbed(n)
    BY <1>3, NoneAssumption DEF Approve, Undisturbed, TypeOK
  <2>3. \A n \in Managers : SameWork(n)
    BY <1>3 DEF Approve, SameWork
  <2> QED
    BY <2>2, <2>3, AcceptedStill DEF AcceptedIsClaimable
<1>4. ASSUME NEW i \in Installations, NEW page \in Pages(i),
             Cancel(i, page)
      PROVE  AcceptedIsClaimable'
  <2>2. \A n \in Managers : Undisturbed(n)
    BY <1>4, NoneAssumption DEF Cancel, Undisturbed, Unleased, TypeOK
  <2>3. \A n \in Managers : SameWork(n)
    BY <1>4 DEF Cancel, SameWork
  <2> QED
    BY <2>2, <2>3, AcceptedStill DEF AcceptedIsClaimable
<1>5. ASSUME NEW i \in Installations, NEW page \in Pages(i),
             BeginRetry(i, page)
      PROVE  AcceptedIsClaimable'
  <2>1. UNCHANGED rows
    BY <1>5 DEF BeginRetry
  <2>2. \A n \in Managers : Undisturbed(n)
    BY <2>1 DEF rows, Undisturbed
  <2>3. \A n \in Managers : SameWork(n)
    BY <1>5 DEF BeginRetry, SameWork
  <2> QED
    BY <2>2, <2>3, AcceptedStill DEF AcceptedIsClaimable
<1>6. ASSUME NEW i \in Installations, Retry(i)
      PROVE  AcceptedIsClaimable'
  <2>2. \A n \in Managers : Undisturbed(n)
    BY <1>6, NoneAssumption DEF Retry, Undisturbed, Unleased, TypeOK, claimableStates
  <2>3. \A n \in Managers : SameWork(n)
    BY <1>6 DEF Retry, SameWork
  <2> QED
    BY <2>2, <2>3, AcceptedStill DEF AcceptedIsClaimable
<1>7. ASSUME NEW i \in Installations, Refuse(i)
      PROVE  AcceptedIsClaimable'
  <2>2. \A n \in Managers : Undisturbed(n)
    BY <1>7, NoneAssumption DEF Refuse, Undisturbed, Unleased, TypeOK
  <2>3. \A n \in Managers : SameWork(n)
    BY <1>7 DEF Refuse, SameWork
  <2> QED
    BY <2>2, <2>3, AcceptedStill DEF AcceptedIsClaimable
<1>8. ASSUME NEW i \in Installations, Lapse(i)
      PROVE  AcceptedIsClaimable'
  <2>2. \A n \in Managers : Undisturbed(n)
    BY <1>8, NoneAssumption DEF Lapse, Undisturbed, TypeOK
  <2>3. \A n \in Managers : SameWork(n)
    BY <1>8 DEF Lapse, SameWork
  <2> QED
    BY <2>2, <2>3, AcceptedStill DEF AcceptedIsClaimable
<1>9. ASSUME NEW i \in Installations, ReviewExpires(i)
      PROVE  AcceptedIsClaimable'
  <2>2. \A n \in Managers : Undisturbed(n)
    BY <1>9, NoneAssumption DEF ReviewExpires, Undisturbed, TypeOK
  <2>3. \A n \in Managers : SameWork(n)
    BY <1>9 DEF ReviewExpires, SameWork
  <2> QED
    BY <2>2, <2>3, AcceptedStill DEF AcceptedIsClaimable
<1>10. ASSUME NEW m \in Managers, NEW i \in Installations,
             Claim(m, i)
      PROVE  AcceptedIsClaimable'
  <2>4. ASSUME NEW n \in Managers, n # m, hand'[n].stage # "idle", Accepted(n)'
        PROVE  state'[hand'[n].inst] \in claimableStates
    <3>1. Undisturbed(n)
      BY <1>10, <2>4 DEF Claim, Undisturbed, TypeOK
    <3>2. SameWork(n)
      BY <1>10, <2>4 DEF Claim, Goes, SameWork, TypeOK
    <3> QED
      BY <2>4, <3>1, <3>2, AcceptedStill
  <2>5. ASSUME hand'[m].stage # "idle", Accepted(m)'
        PROVE  state'[hand'[m].inst] \in claimableStates
    <3>1. hand'[m].inst = i
      BY <1>10 DEF Claim, Goes, TypeOK
    <3> QED
      BY <1>10, <3>1 DEF Claim, Offered, Eligible
  <2> QED
    BY <2>4, <2>5 DEF AcceptedIsClaimable
<1>11. ASSUME NEW m \in Managers, Plan(m)
      PROVE  AcceptedIsClaimable'
  <2>1. UNCHANGED rows
    BY <1>11 DEF Plan
  <2>2. \A n \in Managers : Undisturbed(n)
    BY <2>1 DEF rows, Undisturbed
  <2>3. \A n \in Managers : SameWork(n)
    <3>1. CASE Goes(m, [hand[m] EXCEPT !.stage = "planned"])
      <4>1. /\ [hand[m] EXCEPT !.stage = "planned"].inst = hand[m].inst
            /\ [hand[m] EXCEPT !.stage = "planned"].revision = hand[m].revision
        BY DEF TypeOK, Hand
      <4> QED
        BY <1>11, <3>1, <4>1, GoesOn DEF Plan
    <3>2. ASSUME NEW approvable \in BOOLEAN,
                 Goes(m, [hand[m] EXCEPT !.stage = "planned", !.review = Generated,
                                         !.approvable = approvable])
          PROVE  \A n \in Managers : SameWork(n)
      <4> DEFINE h == [hand[m] EXCEPT !.stage = "planned", !.review = Generated,
                                      !.approvable = approvable]
      <4>1. h.inst = hand[m].inst /\ h.revision = hand[m].revision
        BY DEF TypeOK, Hand
      <4>2. Goes(m, h) /\ hand[m].stage # "idle"
        BY <1>11, <3>2 DEF Plan
      <4> HIDE DEF h
      <4> QED
        BY <4>1, <4>2, GoesOn
    <3> QED
      BY <1>11, <3>1, <3>2 DEF Plan
  <2> QED
    BY <2>2, <2>3, AcceptedStill DEF AcceptedIsClaimable
<1>12. ASSUME NEW m \in Managers, PlanFails(m)
      PROVE  AcceptedIsClaimable'
  <2>1. UNCHANGED rows
    BY <1>12 DEF PlanFails
  <2>2. \A n \in Managers : Undisturbed(n)
    BY <2>1 DEF rows, Undisturbed
  <2>3. \A n \in Managers : SameWork(n)
    BY <1>12, ReportsOn DEF PlanFails
  <2> QED
    BY <2>2, <2>3, AcceptedStill DEF AcceptedIsClaimable
<1>13. ASSUME NEW m \in Managers, PublishSame(m)
      PROVE  AcceptedIsClaimable'
  <2>1. /\ hand[m].inst \in Installations
        /\ revision[hand[m].inst] = hand[m].revision
        /\ revision' = revision
    BY <1>13 DEF PublishSame, Accepted, HandsKnown
  <2>2. \A n \in Managers : Undisturbed(n)
    <3>1. \/ lease' = lease
          \/ lease' = [lease EXCEPT ![hand[m].inst] = Unleased]
      BY <1>13 DEF PublishSame
    <3>2. state' = state
      BY <1>13 DEF PublishSame
    <3> QED
      BY <2>1, <3>1, <3>2, NoneAssumption DEF Undisturbed, Unleased, TypeOK
  <2>3. \A n \in Managers : SameWork(n)
    BY <1>13, <2>1, ReviewedOn DEF PublishSame
  <2> QED
    BY <2>2, <2>3, AcceptedStill DEF AcceptedIsClaimable
<1>14. ASSUME NEW m \in Managers, PublishNew(m)
      PROVE  AcceptedIsClaimable'
  <2>1. /\ hand[m].inst \in Installations
        /\ lease[hand[m].inst] = [by |-> m, live |-> TRUE]
        /\ state' = [state EXCEPT ![hand[m].inst] = "awaiting_approval"]
    BY <1>14 DEF PublishNew, Accepted, HandsKnown
  <2>2. \/ lease' = lease
        \/ lease' = [lease EXCEPT ![hand[m].inst] = Unleased]
    BY <1>14 DEF PublishNew
  <2>3. /\ \A n \in Managers \ {m} : hand'[n] = hand[n]
        /\ hand'[m].stage # "idle" => hand'[m].inst = hand[m].inst
    BY <1>14, ReviewedNew DEF PublishNew
  <2>4. ASSUME NEW n \in Managers, n # m, hand'[n].stage # "idle", Accepted(n)'
        PROVE  state'[hand'[n].inst] \in claimableStates
    <3>1. Undisturbed(n)
      BY <2>1, <2>2, NoneAssumption DEF Undisturbed, Unleased, TypeOK, claimableStates
    <3>2. SameWork(n)
      BY <2>3, <2>4 DEF SameWork
    <3> QED
      BY <2>4, <3>1, <3>2, AcceptedStill
  <2>5. ASSUME hand'[m].stage # "idle", Accepted(m)'
        PROVE  state'[hand'[m].inst] \in claimableStates
    BY <2>1, <2>3, <2>5 DEF TypeOK, claimableStates
  <2> QED
    BY <2>4, <2>5 DEF AcceptedIsClaimable
<1>15. ASSUME NEW m \in Managers, PublishRefused(m)
      PROVE  AcceptedIsClaimable'
  <2>1. UNCHANGED rows
    BY <1>15 DEF PublishRefused
  <2>2. \A n \in Managers : Undisturbed(n)
    BY <2>1 DEF rows, Undisturbed
  <2>3. \A n \in Managers : SameWork(n)
    BY <1>15, EndsOn DEF PublishRefused
  <2> QED
    BY <2>2, <2>3, AcceptedStill DEF AcceptedIsClaimable
<1>16. ASSUME NEW m \in Managers, ReadApproval(m)
      PROVE  AcceptedIsClaimable'
  <2>1. UNCHANGED rows
    BY <1>16 DEF ReadApproval
  <2>2. hand[m].inst \in Installations
    BY <1>16 DEF ReadApproval, HandsKnown
  <2>3. \A n \in Managers \ {m} : hand'[n] = hand[n]
    BY <1>16 DEF ReadApproval, Ends, Reports, Goes, TypeOK
  <2>4. ASSUME NEW n \in Managers, n # m, hand'[n].stage # "idle", Accepted(n)'
        PROVE  state'[hand'[n].inst] \in claimableStates
    <3>1. Undisturbed(n)
      BY <2>1 DEF rows, Undisturbed
    <3>2. SameWork(n)
      BY <2>3, <2>4 DEF SameWork
    <3> QED
      BY <2>4, <3>1, <3>2, AcceptedStill
  <2>5. ASSUME hand'[m].stage # "idle", Accepted(m)'
        PROVE  state'[hand'[m].inst] \in claimableStates
    <3>1. hand'[m].inst = hand[m].inst
      <4> DEFINE r == [hand[m] EXCEPT !.stage = "reporting", !.outcome = "failed"]
      <4>1. r.inst = hand[m].inst /\ \A seen \in Nat : Executing(m, seen).inst = hand[m].inst
        BY ExecutingFacts DEF TypeOK, Hand
      <4>2. Goes(m, Idle) \/ Goes(m, r) \/ \E seen \in Nat : Goes(m, Executing(m, seen))
        BY <1>16, ApprovalRead DEF Reports, Ends
      <4> HIDE DEF r
      <4> QED
        BY <2>5, <4>1, <4>2 DEF Goes, Idle, TypeOK
    <3>2. Carrying(m) /\ Held(m)
      BY <1>16, <2>1, <2>5, <3>1 DEF ReadApproval, rows, Carrying, Held, Accepted
    <3>3. state[hand[m].inst] = "approved"
      BY <3>2 DEF HeldApproval
    <3> QED
      BY <2>1, <3>1, <3>3 DEF rows, claimableStates
  <2> QED
    BY <2>4, <2>5 DEF AcceptedIsClaimable
<1>17. ASSUME NEW m \in Managers, Execute(m)
      PROVE  AcceptedIsClaimable'
  <2>1. UNCHANGED rows
    BY <1>17 DEF Execute
  <2>2. \A n \in Managers : Undisturbed(n)
    BY <2>1 DEF rows, Undisturbed
  <2>3. \A n \in Managers : SameWork(n)
    BY <1>17, ReportsOn DEF Execute
  <2> QED
    BY <2>2, <2>3, AcceptedStill DEF AcceptedIsClaimable
<1>18. ASSUME NEW m \in Managers, Report(m)
      PROVE  AcceptedIsClaimable'
  <2>1. hand[m].inst \in Installations
    BY <1>18 DEF Report, HandsKnown
  <2>2. \A n \in Managers : Undisturbed(n)
    BY <1>18, <2>1, NoneAssumption DEF Report, Undisturbed, Unleased, TypeOK
  <2>3. \A n \in Managers : SameWork(n)
    BY <1>18, EndsOn DEF Report
  <2> QED
    BY <2>2, <2>3, AcceptedStill DEF AcceptedIsClaimable
<1>19. ASSUME NEW m \in Managers, ReportRefused(m)
      PROVE  AcceptedIsClaimable'
  <2>1. UNCHANGED rows
    BY <1>19 DEF ReportRefused
  <2>2. \A n \in Managers : Undisturbed(n)
    BY <2>1 DEF rows, Undisturbed
  <2>3. \A n \in Managers : SameWork(n)
    BY <1>19, EndsOn DEF ReportRefused
  <2> QED
    BY <2>2, <2>3, AcceptedStill DEF AcceptedIsClaimable
<1>20. ASSUME NEW m \in Managers, Abandon(m)
      PROVE  AcceptedIsClaimable'
  <2>1. UNCHANGED rows
    BY <1>20 DEF Abandon
  <2>2. \A n \in Managers : Undisturbed(n)
    BY <2>1 DEF rows, Undisturbed
  <2>3. \A n \in Managers : SameWork(n)
    BY <1>20, EndsOn DEF Abandon
  <2> QED
    BY <2>2, <2>3, AcceptedStill DEF AcceptedIsClaimable
<1>21. CASE UNCHANGED vars
  <2>2. \A n \in Managers : Undisturbed(n) /\ SameWork(n)
    BY <1>21 DEF vars, rows, Undisturbed, SameWork
  <2> QED
    BY <2>2, AcceptedStill DEF AcceptedIsClaimable
<1> QED
  BY <1>1, <1>2, <1>3, <1>4, <1>5, <1>6, <1>7, <1>8, <1>9, <1>10, <1>11,
     <1>12, <1>13, <1>14, <1>15, <1>16, <1>17, <1>18, <1>19, <1>20, <1>21
  DEF Next, Administrator, Step, Publish

-----------------------------------------------------------------------------
\* An approval stays the approval of the stored review.
LEMMA ApprovalKept ==
  ASSUME TypeOK, HandsKnown, HeldApproval, ApprovalPinsReview, [Next]_vars
  PROVE  ApprovalPinsReview'
<1>1. ASSUME NEW i \in Installations, BeginCreate(i)
      PROVE  ApprovalPinsReview'
  <2>1. UNCHANGED rows
    BY <1>1 DEF BeginCreate
  <2> QED
    BY <2>1 DEF rows, ApprovalPinsReview
<1>2. ASSUME NEW i \in Installations, Create(i)
      PROVE  ApprovalPinsReview'
  BY <1>2 DEF Create, ApprovalPinsReview, TypeOK
<1>3. ASSUME NEW i \in Installations, NEW page \in Pages(i),
             NEW decision \in {"approve", "reject"},
             Approve(i, page, decision)
      PROVE  ApprovalPinsReview'
  <2>1. /\ review[i] # None /\ review[i].id = page.review
        /\ revision[i] = page.revision
        /\ state'[i] = "approved" => review[i].approvable
    BY <1>3 DEF Approve, Approvable, TypeOK
  <2>2. page # None
    <3>1. revision[i] \in Nat
      BY DEF TypeOK
    <3>2. page \in ApprovalRows
      BY <3>1 DEF Pages, ApprovalRows
    <3> QED
      BY <3>2, NoneAssumption
  <2> QED
    BY <1>3, <2>1, <2>2 DEF Approve, ApprovalPinsReview, TypeOK
<1>4. ASSUME NEW i \in Installations, NEW page \in Pages(i),
             Cancel(i, page)
      PROVE  ApprovalPinsReview'
  BY <1>4 DEF Cancel, ApprovalPinsReview, TypeOK
<1>5. ASSUME NEW i \in Installations, NEW page \in Pages(i),
             BeginRetry(i, page)
      PROVE  ApprovalPinsReview'
  <2>1. UNCHANGED rows
    BY <1>5 DEF BeginRetry
  <2> QED
    BY <2>1 DEF rows, ApprovalPinsReview
<1>6. ASSUME NEW i \in Installations, Retry(i)
      PROVE  ApprovalPinsReview'
  BY <1>6 DEF Retry, ApprovalPinsReview, TypeOK
<1>7. ASSUME NEW i \in Installations, Refuse(i)
      PROVE  ApprovalPinsReview'
  BY <1>7 DEF Refuse, ApprovalPinsReview, TypeOK
<1>8. ASSUME NEW i \in Installations, Lapse(i)
      PROVE  ApprovalPinsReview'
  BY <1>8 DEF Lapse, ApprovalPinsReview
<1>9. ASSUME NEW i \in Installations, ReviewExpires(i)
      PROVE  ApprovalPinsReview'
  <2> SUFFICES ASSUME NEW j \in Installations,
                      state'[j] \in {"approved", "ready", "manual_intervention"}
               PROVE  /\ approval'[j] # None /\ review'[j] # None
                      /\ approval'[j].review = review'[j].id
                      /\ review'[j].approvable
                      /\ state'[j] = "approved" => approval'[j].revision + 1 = revision'[j]
    BY DEF ApprovalPinsReview
  <2>1. /\ approval[j] # None /\ review[j] # None
        /\ approval[j].review = review[j].id
        /\ review[j].approvable
        /\ state[j] = "approved" => approval[j].revision + 1 = revision[j]
    BY <1>9 DEF ReviewExpires, ApprovalPinsReview
  <2>2. review[j] \in ReviewRows
    BY <2>1 DEF TypeOK
  <2>3. review'[j] # None /\ review'[j].id = review[j].id
        /\ review'[j].approvable = review[j].approvable
    <3>1. CASE j # i
      BY <1>9, <2>1, <3>1 DEF ReviewExpires, TypeOK
    <3>2. CASE j = i
      <4> DEFINE r == [review[i] EXCEPT !.expired = TRUE]
      <4>1. r \in ReviewRows /\ r.id = review[i].id /\ r.approvable = review[i].approvable
        BY <2>2, <3>2 DEF ReviewRows
      <4>2. review'[i] = r
        BY <1>9 DEF ReviewExpires, TypeOK
      <4> HIDE DEF r
      <4>3. \A x \in ReviewRows : x # None
        BY NoneAssumption
      <4> QED
        BY <3>2, <4>1, <4>2, <4>3
    <3> QED
      BY <3>1, <3>2
  <2> QED
    BY <1>9, <2>1, <2>3 DEF ReviewExpires
<1>10. ASSUME NEW m \in Managers, NEW i \in Installations,
             Claim(m, i)
      PROVE  ApprovalPinsReview'
  BY <1>10 DEF Claim, ApprovalPinsReview
<1>11. ASSUME NEW m \in Managers, Plan(m)
      PROVE  ApprovalPinsReview'
  <2>1. UNCHANGED rows
    BY <1>11 DEF Plan
  <2> QED
    BY <2>1 DEF rows, ApprovalPinsReview
<1>12. ASSUME NEW m \in Managers, PlanFails(m)
      PROVE  ApprovalPinsReview'
  <2>1. UNCHANGED rows
    BY <1>12 DEF PlanFails
  <2> QED
    BY <2>1 DEF rows, ApprovalPinsReview
<1>13. ASSUME NEW m \in Managers, PublishSame(m)
      PROVE  ApprovalPinsReview'
  BY <1>13 DEF PublishSame, ApprovalPinsReview
<1>14. ASSUME NEW m \in Managers, PublishNew(m)
      PROVE  ApprovalPinsReview'
  <2>1. /\ state' = [state EXCEPT ![hand[m].inst] = "awaiting_approval"]
        /\ review' = [review EXCEPT ![hand[m].inst] = review'[hand[m].inst]]
        /\ revision' = [revision EXCEPT ![hand[m].inst] = revision'[hand[m].inst]]
        /\ approval' = approval
    BY <1>14 DEF PublishNew, TypeOK
  <2> QED
    BY <2>1 DEF ApprovalPinsReview, TypeOK
<1>15. ASSUME NEW m \in Managers, PublishRefused(m)
      PROVE  ApprovalPinsReview'
  <2>1. UNCHANGED rows
    BY <1>15 DEF PublishRefused
  <2> QED
    BY <2>1 DEF rows, ApprovalPinsReview
<1>16. ASSUME NEW m \in Managers, ReadApproval(m)
      PROVE  ApprovalPinsReview'
  <2>1. UNCHANGED rows
    BY <1>16 DEF ReadApproval
  <2> QED
    BY <2>1 DEF rows, ApprovalPinsReview
<1>17. ASSUME NEW m \in Managers, Execute(m)
      PROVE  ApprovalPinsReview'
  <2>1. UNCHANGED rows
    BY <1>17 DEF Execute
  <2> QED
    BY <2>1 DEF rows, ApprovalPinsReview
<1>18. ASSUME NEW m \in Managers, Report(m)
      PROVE  ApprovalPinsReview'
  <2>1. hand[m].outcome \in {"ready", "failed", "manual_intervention"}
    BY <1>18 DEF Report, HandsKnown
  <2>2. hand[m].outcome # "failed" => state[hand[m].inst] = "approved"
    BY <1>18 DEF Report, Accepted, HeldApproval, Carrying, Held
  <2> QED
    BY <1>18, <2>1, <2>2 DEF Report, ApprovalPinsReview, TypeOK
<1>19. ASSUME NEW m \in Managers, ReportRefused(m)
      PROVE  ApprovalPinsReview'
  <2>1. UNCHANGED rows
    BY <1>19 DEF ReportRefused
  <2> QED
    BY <2>1 DEF rows, ApprovalPinsReview
<1>20. ASSUME NEW m \in Managers, Abandon(m)
      PROVE  ApprovalPinsReview'
  <2>1. UNCHANGED rows
    BY <1>20 DEF Abandon
  <2> QED
    BY <2>1 DEF rows, ApprovalPinsReview
<1>21. CASE UNCHANGED vars
  BY <1>21 DEF vars, rows, ApprovalPinsReview
<1> QED
  BY <1>1, <1>2, <1>3, <1>4, <1>5, <1>6, <1>7, <1>8, <1>9, <1>10, <1>11,
     <1>12, <1>13, <1>14, <1>15, <1>16, <1>17, <1>18, <1>19, <1>20, <1>21
  DEF Next, Administrator, Step, Publish

\* What a step leaves of an approved intent under a lease, ...
Untouched(n) ==
  \A j \in Installations :
    lease'[j] = [by |-> n, live |-> TRUE] =>
      /\ lease[j] = lease'[j]
      /\ state[j] = "approved" =>
           /\ state'[j] = "approved"
           /\ revision'[j] = revision[j]
           /\ approval'[j] = approval[j]

\* ... and of an attempt that carries it out.
SameCarry(n) ==
  (Carrying(n))' =>
    /\ Carrying(n)
    /\ hand'[n].inst = hand[n].inst
    /\ hand'[n].review = hand[n].review
    /\ hand'[n].revision = hand[n].revision

HeldFacts(n) ==
  /\ state[hand[n].inst] = "approved"
  /\ approval[hand[n].inst].review = hand[n].review
  /\ revision[hand[n].inst] = hand[n].revision

\* What an attempt under its lease carries out is approved before and after.
LEMMA HeldStill ==
  ASSUME TypeOK, HandsKnown, HeldApproval, NEW n \in Managers,
         Untouched(n), SameCarry(n), (Carrying(n))', (Held(n))'
  PROVE  (HeldFacts(n))'
<1>1. /\ Carrying(n) /\ hand'[n].inst = hand[n].inst
      /\ hand[n].inst \in Installations
  BY DEF SameCarry, Carrying, HandsKnown
<1>2. lease'[hand[n].inst] = [by |-> n, live |-> TRUE]
  BY <1>1 DEF Held
<1>3. Held(n)
  BY <1>1, <1>2 DEF Untouched, Held
<1>4. HeldFacts(n)
  BY <1>1, <1>3 DEF HeldApproval, HeldFacts
<1>5. /\ state'[hand[n].inst] = "approved"
      /\ revision'[hand[n].inst] = revision[hand[n].inst]
      /\ approval'[hand[n].inst] = approval[hand[n].inst]
  BY <1>1, <1>2, <1>4 DEF Untouched, HeldFacts
<1> QED
  BY <1>1, <1>4, <1>5 DEF HeldFacts, SameCarry

\* An attempt that ends carries nothing out.
LEMMA EndsCarry ==
  ASSUME TypeOK, NEW m \in Managers, Ends(m)
  PROVE  \A n \in Managers : SameCarry(n)
  BY DEF Ends, Goes, Idle, SameCarry, Carrying, TypeOK

\* An attempt that reports a failure carries nothing out.
LEMMA FailsCarry ==
  ASSUME TypeOK, NEW m \in Managers, Reports(m, "failed")
  PROVE  \A n \in Managers : SameCarry(n)
<1> DEFINE h == [hand[m] EXCEPT !.stage = "reporting", !.outcome = "failed"]
<1>1. h.stage = "reporting" /\ h.outcome = "failed"
  BY DEF TypeOK, Hand
<1>2. Goes(m, h)
  BY DEF Reports
<1> HIDE DEF h
<1> QED
  BY <1>1, <1>2 DEF Goes, SameCarry, Carrying, TypeOK

\* An attempt that carries out an approved intent under its lease goes on to.
LEMMA HeldKept ==
  ASSUME TypeOK, HandsKnown, AcceptedIsClaimable, FreshHasNoReview,
         PendingWrites, LeaseHoldsDeployment, LiveIsUnderWay,
         ApprovalPinsReview, HeldApproval, [Next]_vars
  PROVE  HeldApproval'
<1>1. ASSUME NEW i \in Installations, BeginCreate(i)
      PROVE  HeldApproval'
  <2>1. UNCHANGED rows
    BY <1>1 DEF BeginCreate
  <2>2. \A n \in Managers : Untouched(n)
    BY <2>1 DEF rows, Untouched
  <2>3. \A n \in Managers : SameCarry(n)
    BY <1>1 DEF BeginCreate, SameCarry, Carrying
  <2> QED
    BY <2>2, <2>3, HeldStill DEF HeldApproval, HeldFacts
<1>2. ASSUME NEW i \in Installations, Create(i)
      PROVE  HeldApproval'
  <2>2. \A n \in Managers : Untouched(n)
    BY <1>2, NoneAssumption DEF Create, Untouched, TypeOK, PendingWrites
  <2>3. \A n \in Managers : SameCarry(n)
    BY <1>2 DEF Create, SameCarry, Carrying
  <2> QED
    BY <2>2, <2>3, HeldStill DEF HeldApproval, HeldFacts
<1>3. ASSUME NEW i \in Installations, NEW page \in Pages(i),
             NEW decision \in {"approve", "reject"},
             Approve(i, page, decision)
      PROVE  HeldApproval'
  <2>2. \A n \in Managers : Untouched(n)
    BY <1>3 DEF Approve, Untouched, TypeOK, Approvable
  <2>3. \A n \in Managers : SameCarry(n)
    BY <1>3 DEF Approve, SameCarry, Carrying
  <2> QED
    BY <2>2, <2>3, HeldStill DEF HeldApproval, HeldFacts
<1>4. ASSUME NEW i \in Installations, NEW page \in Pages(i),
             Cancel(i, page)
      PROVE  HeldApproval'
  <2>2. \A n \in Managers : Untouched(n)
    BY <1>4, NoneAssumption DEF Cancel, Untouched, Unleased, TypeOK
  <2>3. \A n \in Managers : SameCarry(n)
    BY <1>4 DEF Cancel, SameCarry, Carrying
  <2> QED
    BY <2>2, <2>3, HeldStill DEF HeldApproval, HeldFacts
<1>5. ASSUME NEW i \in Installations, NEW page \in Pages(i),
             BeginRetry(i, page)
      PROVE  HeldApproval'
  <2>1. UNCHANGED rows
    BY <1>5 DEF BeginRetry
  <2>2. \A n \in Managers : Untouched(n)
    BY <2>1 DEF rows, Untouched
  <2>3. \A n \in Managers : SameCarry(n)
    BY <1>5 DEF BeginRetry, SameCarry, Carrying
  <2> QED
    BY <2>2, <2>3, HeldStill DEF HeldApproval, HeldFacts
<1>6. ASSUME NEW i \in Installations, Retry(i)
      PROVE  HeldApproval'
  <2>2. \A n \in Managers : Untouched(n)
    BY <1>6, NoneAssumption DEF Retry, Untouched, Unleased, TypeOK
  <2>3. \A n \in Managers : SameCarry(n)
    BY <1>6 DEF Retry, SameCarry, Carrying
  <2> QED
    BY <2>2, <2>3, HeldStill DEF HeldApproval, HeldFacts
<1>7. ASSUME NEW i \in Installations, Refuse(i)
      PROVE  HeldApproval'
  <2>2. \A n \in Managers : Untouched(n)
    BY <1>7, NoneAssumption DEF Refuse, Untouched, Unleased, TypeOK
  <2>3. \A n \in Managers : SameCarry(n)
    BY <1>7 DEF Refuse, SameCarry, Carrying
  <2> QED
    BY <2>2, <2>3, HeldStill DEF HeldApproval, HeldFacts
<1>8. ASSUME NEW i \in Installations, Lapse(i)
      PROVE  HeldApproval'
  <2>2. \A n \in Managers : Untouched(n)
    BY <1>8 DEF Lapse, Untouched, TypeOK
  <2>3. \A n \in Managers : SameCarry(n)
    BY <1>8 DEF Lapse, SameCarry, Carrying
  <2> QED
    BY <2>2, <2>3, HeldStill DEF HeldApproval, HeldFacts
<1>9. ASSUME NEW i \in Installations, ReviewExpires(i)
      PROVE  HeldApproval'
  <2>2. \A n \in Managers : Untouched(n)
    BY <1>9 DEF ReviewExpires, Untouched, TypeOK
  <2>3. \A n \in Managers : SameCarry(n)
    BY <1>9 DEF ReviewExpires, SameCarry, Carrying
  <2> QED
    BY <2>2, <2>3, HeldStill DEF HeldApproval, HeldFacts
<1>10. ASSUME NEW m \in Managers, NEW i \in Installations,
             Claim(m, i)
      PROVE  HeldApproval'
  <2>4. ASSUME NEW n \in Managers, n # m, (Carrying(n))', (Held(n))'
        PROVE  (HeldFacts(n))'
    <3>1. Untouched(n)
      BY <1>10, <2>4 DEF Claim, Untouched, TypeOK
    <3>2. SameCarry(n)
      BY <1>10, <2>4 DEF Claim, Goes, SameCarry, Carrying, TypeOK
    <3> QED
      BY <2>4, <3>1, <3>2, HeldStill
  <2>5. ASSUME (Carrying(m))', (Held(m))'
        PROVE  (HeldFacts(m))'
    BY <1>10, <2>5 DEF Claim, Goes, Carrying, TypeOK
  <2> QED
    BY <2>4, <2>5 DEF HeldApproval, HeldFacts
<1>11. ASSUME NEW m \in Managers, Plan(m)
      PROVE  HeldApproval'
  <2>1. UNCHANGED rows
    BY <1>11 DEF Plan
  <2>2. \A n \in Managers : Untouched(n)
    BY <2>1 DEF rows, Untouched
  <2>3. \A n \in Managers : SameCarry(n)
    <3>1. CASE Goes(m, [hand[m] EXCEPT !.stage = "planned"])
      <4>1. [hand[m] EXCEPT !.stage = "planned"].stage = "planned"
        BY DEF TypeOK, Hand
      <4> QED
        BY <3>1, <4>1 DEF Goes, SameCarry, Carrying, TypeOK
    <3>2. ASSUME NEW approvable \in BOOLEAN,
                 Goes(m, [hand[m] EXCEPT !.stage = "planned", !.review = Generated,
                                         !.approvable = approvable])
          PROVE  \A n \in Managers : SameCarry(n)
      <4> DEFINE h == [hand[m] EXCEPT !.stage = "planned", !.review = Generated,
                                      !.approvable = approvable]
      <4>1. h.stage = "planned"
        BY DEF TypeOK, Hand
      <4>2. Goes(m, h)
        BY <3>2
      <4> HIDE DEF h
      <4> QED
        BY <4>1, <4>2 DEF Goes, SameCarry, Carrying, TypeOK
    <3> QED
      BY <1>11, <3>1, <3>2 DEF Plan
  <2> QED
    BY <2>2, <2>3, HeldStill DEF HeldApproval, HeldFacts
<1>12. ASSUME NEW m \in Managers, PlanFails(m)
      PROVE  HeldApproval'
  <2>1. UNCHANGED rows
    BY <1>12 DEF PlanFails
  <2>2. \A n \in Managers : Untouched(n)
    BY <2>1 DEF rows, Untouched
  <2>3. \A n \in Managers : SameCarry(n)
    BY <1>12, FailsCarry DEF PlanFails
  <2> QED
    BY <2>2, <2>3, HeldStill DEF HeldApproval, HeldFacts
<1>13. ASSUME NEW m \in Managers, PublishSame(m)
      PROVE  HeldApproval'
  <2> DEFINE i == hand[m].inst
             f == [hand[m] EXCEPT !.stage = "reporting", !.outcome = "failed",
                                  !.review = hand[m].review, !.revision = revision'[i]]
             p == [hand[m] EXCEPT !.stage = "polling", !.review = hand[m].review]
  <2>1. /\ i \in Installations
        /\ lease[i] = [by |-> m, live |-> TRUE] /\ revision[i] = hand[m].revision
        /\ state[i] \in claimableStates
    BY <1>13 DEF PublishSame, Accepted, HandsKnown, AcceptedIsClaimable
  <2>2. \/ lease' = lease
        \/ lease' = [lease EXCEPT ![i] = Unleased]
    BY <1>13 DEF PublishSame
  <2>3. state' = state /\ revision' = revision /\ approval' = approval
    BY <1>13 DEF PublishSame
  <2>4. \A n \in Managers : Untouched(n)
    BY <2>1, <2>2, <2>3, NoneAssumption DEF Untouched, Unleased, TypeOK
  <2>5. /\ f.stage = "reporting" /\ f.outcome = "failed"
        /\ p.stage = "polling" /\ p.inst = i
        /\ p.review = hand[m].review /\ p.revision = hand[m].revision
    BY DEF TypeOK, Hand
  <2>6. \/ Goes(m, f)
        \/ Goes(m, Idle)
        \/ Goes(m, p) /\ state[i] # "awaiting_approval"
    <3>1. IF ~hand[m].approvable THEN Goes(m, f)
          ELSE IF state[i] # "awaiting_approval" THEN Goes(m, p) ELSE Ends(m)
      BY <1>13 DEF PublishSame, Reviewed
    <3> HIDE DEF f, p
    <3> QED
      BY <3>1 DEF Ends
  <2>7. review[i] # None /\ review[i].id = hand[m].review
    BY <1>13 DEF PublishSame, SameReview
  <2> HIDE DEF f, p
  <2>8. CASE Goes(m, f) \/ Goes(m, Idle)
    <3>1. \A n \in Managers : SameCarry(n)
      BY <2>5, <2>8 DEF Goes, Idle, SameCarry, Carrying, TypeOK
    <3> QED
      BY <2>4, <3>1, HeldStill DEF HeldApproval, HeldFacts
  <2>9. CASE Goes(m, p) /\ state[i] # "awaiting_approval"
    <3>1. ASSUME NEW n \in Managers, n # m, (Carrying(n))', (Held(n))'
          PROVE  (HeldFacts(n))'
      <4>1. SameCarry(n)
        BY <2>9, <3>1 DEF Goes, SameCarry, Carrying, TypeOK
      <4> QED
        BY <2>4, <3>1, <4>1, HeldStill
    <3>2. state[i] = "approved"
      BY <2>1, <2>7, <2>9 DEF FreshHasNoReview, claimableStates
    <3>3. approval[i].review = review[i].id
      BY <2>1, <3>2 DEF ApprovalPinsReview
    <3>4. hand'[m] = p
      BY <2>9 DEF Goes, TypeOK
    <3>5. (HeldFacts(m))'
      BY <2>1, <2>3, <2>5, <2>7, <3>2, <3>3, <3>4 DEF HeldFacts
    <3> QED
      BY <3>1, <3>5 DEF HeldApproval, HeldFacts
  <2> QED
    BY <2>6, <2>8, <2>9
<1>14. ASSUME NEW m \in Managers, PublishNew(m)
      PROVE  HeldApproval'
  <2>1. /\ hand[m].inst \in Installations
        /\ lease[hand[m].inst] = [by |-> m, live |-> TRUE]
        /\ state' = [state EXCEPT ![hand[m].inst] = "awaiting_approval"]
        /\ revision' = [revision EXCEPT ![hand[m].inst] = revision'[hand[m].inst]]
        /\ approval' = approval
    BY <1>14 DEF PublishNew, Accepted, HandsKnown, TypeOK
  <2>2. \/ lease' = lease
        \/ lease' = [lease EXCEPT ![hand[m].inst] = Unleased]
    BY <1>14 DEF PublishNew
  <2>3. /\ \A n \in Managers \ {m} : hand'[n] = hand[n]
        /\ hand'[m].stage # "idle" => /\ hand'[m].stage = "reporting"
                                      /\ hand'[m].outcome = "failed"
    BY <1>14, ReviewedNew DEF PublishNew
  <2>4. ASSUME NEW n \in Managers, n # m, (Carrying(n))', (Held(n))'
        PROVE  (HeldFacts(n))'
    <3>1. Untouched(n)
      BY <2>1, <2>2, <2>4, NoneAssumption DEF Untouched, Unleased, TypeOK
    <3>2. SameCarry(n)
      BY <2>3, <2>4 DEF SameCarry, Carrying
    <3> QED
      BY <2>4, <3>1, <3>2, HeldStill
  <2>5. ASSUME (Carrying(m))', (Held(m))'
        PROVE  (HeldFacts(m))'
    BY <2>3, <2>5 DEF Carrying
  <2> QED
    BY <2>4, <2>5 DEF HeldApproval, HeldFacts
<1>15. ASSUME NEW m \in Managers, PublishRefused(m)
      PROVE  HeldApproval'
  <2>1. UNCHANGED rows
    BY <1>15 DEF PublishRefused
  <2>2. \A n \in Managers : Untouched(n)
    BY <2>1 DEF rows, Untouched
  <2>3. \A n \in Managers : SameCarry(n)
    BY <1>15, EndsCarry DEF PublishRefused
  <2> QED
    BY <2>2, <2>3, HeldStill DEF HeldApproval, HeldFacts
<1>16. ASSUME NEW m \in Managers, ReadApproval(m)
      PROVE  HeldApproval'
  <2>1. UNCHANGED rows
    BY <1>16 DEF ReadApproval
  <2>2. \A n \in Managers : Untouched(n)
    BY <2>1 DEF rows, Untouched
  <2>3. CASE Ends(m) \/ Reports(m, "failed")
    BY <2>2, <2>3, EndsCarry, FailsCarry, HeldStill DEF HeldApproval, HeldFacts
  <2>4. ASSUME NEW seen \in Nat, hand[m].revision <= seen, seen <= revision[hand[m].inst],
               Goes(m, Executing(m, seen))
        PROVE  HeldApproval'
    <3> DEFINE e == Executing(m, seen)
    <3>1. /\ e.stage = "executing" /\ e.inst = hand[m].inst
          /\ e.review = hand[m].review /\ e.revision = seen
      BY ExecutingFacts
    <3>2. Goes(m, e) /\ hand[m].stage = "polling"
      BY <1>16, <2>4 DEF ReadApproval
    <3> HIDE DEF e
    <3>3. ASSUME NEW n \in Managers, n # m, (Carrying(n))', (Held(n))'
          PROVE  (HeldFacts(n))'
      <4>1. SameCarry(n)
        BY <3>2, <3>3 DEF Goes, SameCarry, Carrying, TypeOK
      <4> QED
        BY <2>2, <3>3, <4>1, HeldStill
    <3>4. ASSUME (Held(m))'
          PROVE  (HeldFacts(m))'
      <4>1. hand'[m] = e
        BY <3>2 DEF Goes, TypeOK
      <4>2. Carrying(m) /\ Held(m)
        BY <2>1, <3>1, <3>2, <3>4, <4>1 DEF rows, Held, Carrying
      <4>3. HeldFacts(m)
        BY <4>2 DEF HeldApproval, HeldFacts
      <4>4. seen = revision[hand[m].inst]
        BY <2>4, <4>3, SeenIsNow DEF HeldFacts
      <4> QED
        BY <2>1, <3>1, <3>2, <4>1, <4>3, <4>4 DEF rows, HeldFacts
    <3> QED
      BY <3>3, <3>4 DEF HeldApproval, HeldFacts
  <2> QED
    BY <1>16, <2>3, <2>4, ApprovalRead
<1>17. ASSUME NEW m \in Managers, Execute(m)
      PROVE  HeldApproval'
  <2>1. UNCHANGED rows
    BY <1>17 DEF Execute
  <2>2. \A n \in Managers : Untouched(n)
    BY <2>1 DEF rows, Untouched
  <2>3. \A n \in Managers : SameCarry(n)
    <3>1. PICK outcome \in {"ready", "failed", "manual_intervention"} : Reports(m, outcome)
      BY <1>17 DEF Execute
    <3> DEFINE h == [hand[m] EXCEPT !.stage = "reporting", !.outcome = outcome]
    <3>2. /\ h.stage = "reporting" /\ h.inst = hand[m].inst
          /\ h.review = hand[m].review /\ h.revision = hand[m].revision
      BY DEF TypeOK, Hand
    <3>3. Goes(m, h) /\ hand[m].stage = "executing"
      BY <1>17, <3>1 DEF Reports, Execute
    <3> HIDE DEF h
    <3> QED
      BY <3>2, <3>3 DEF Goes, SameCarry, Carrying, TypeOK
  <2> QED
    BY <2>2, <2>3, HeldStill DEF HeldApproval, HeldFacts
<1>18. ASSUME NEW m \in Managers, Report(m)
      PROVE  HeldApproval'
  <2>1. /\ hand[m].inst \in Installations
        /\ lease[hand[m].inst] = [by |-> m, live |-> TRUE]
    BY <1>18 DEF Report, HandsKnown, Accepted
  <2>2. \A n \in Managers : Untouched(n)
    BY <1>18, <2>1, NoneAssumption DEF Report, Untouched, Unleased, TypeOK
  <2>3. \A n \in Managers : SameCarry(n)
    BY <1>18, EndsCarry DEF Report
  <2> QED
    BY <2>2, <2>3, HeldStill DEF HeldApproval, HeldFacts
<1>19. ASSUME NEW m \in Managers, ReportRefused(m)
      PROVE  HeldApproval'
  <2>1. UNCHANGED rows
    BY <1>19 DEF ReportRefused
  <2>2. \A n \in Managers : Untouched(n)
    BY <2>1 DEF rows, Untouched
  <2>3. \A n \in Managers : SameCarry(n)
    BY <1>19, EndsCarry DEF ReportRefused
  <2> QED
    BY <2>2, <2>3, HeldStill DEF HeldApproval, HeldFacts
<1>20. ASSUME NEW m \in Managers, Abandon(m)
      PROVE  HeldApproval'
  <2>1. UNCHANGED rows
    BY <1>20 DEF Abandon
  <2>2. \A n \in Managers : Untouched(n)
    BY <2>1 DEF rows, Untouched
  <2>3. \A n \in Managers : SameCarry(n)
    BY <1>20, EndsCarry DEF Abandon
  <2> QED
    BY <2>2, <2>3, HeldStill DEF HeldApproval, HeldFacts
<1>21. CASE UNCHANGED vars
  <2>2. \A n \in Managers : Untouched(n) /\ SameCarry(n)
    BY <1>21 DEF vars, rows, Untouched, SameCarry, Carrying
  <2> QED
    BY <2>2, HeldStill DEF HeldApproval, HeldFacts
<1> QED
  BY <1>1, <1>2, <1>3, <1>4, <1>5, <1>6, <1>7, <1>8, <1>9, <1>10, <1>11,
     <1>12, <1>13, <1>14, <1>15, <1>16, <1>17, <1>18, <1>19, <1>20, <1>21
  DEF Next, Administrator, Step, Publish

-----------------------------------------------------------------------------
(* The theorems.                                                            *)

\* An empty database and idle managers have the invariant.
LEMMA InitHolds ==
  ASSUME Init
  PROVE  IntentInv
<1>1. TypeOK
  BY IdleTyped DEF Init, TypeOK, Unleased, Unadmitted, States
<1>2. HandsKnown
  BY DEF Init, HandsKnown, Idle
<1>3. LeaseHoldsDeployment
  BY DEF Init, LeaseHoldsDeployment, Unleased, Unadmitted
<1>4. LiveIsUnderWay /\ FreshHasNoReview /\ PendingWrites
  BY NoneAssumption DEF Init, LiveIsUnderWay, FreshHasNoReview, PendingWrites, Unleased
<1>5. AcceptedIsClaimable /\ HeldApproval
  BY DEF Init, AcceptedIsClaimable, HeldApproval, Carrying, Idle
<1>6. ApprovalPinsReview
  BY DEF Init, ApprovalPinsReview
<1> QED
  BY <1>1, <1>2, <1>3, <1>4, <1>5, <1>6 DEF IntentInv

\* Every call keeps the invariant.
LEMMA StepHolds ==
  ASSUME IntentInv, [Next]_vars
  PROVE  IntentInv'
<1> USE DEF IntentInv
<1>1. TypeOK'
  BY TypeCorrect
<1>2. HandsKnown'
  BY <1>1, KnownKept
<1>3. LeaseHoldsDeployment' /\ LiveIsUnderWay'
  BY LeasesKept
<1>4. PendingWrites' /\ FreshHasNoReview'
  BY WritesKept
<1>5. AcceptedIsClaimable'
  BY <1>1, AcceptedKept
<1>6. ApprovalPinsReview'
  BY ApprovalKept
<1>7. HeldApproval'
  BY HeldKept
<1> QED
  BY <1>1, <1>2, <1>3, <1>4, <1>5, <1>6, <1>7

\* The rows, the leases and the attempts keep the inductive invariant: leases
\* are held in both rows and on intents under way, accepted calls meet claimable
\* intents, and an attempt past its review stands on its approval.
THEOREM IntentsHoldInvariant == Spec => []IntentInv
<1>1. Init => IntentInv
  BY InitHolds
<1>2. IntentInv /\ [Next]_vars => IntentInv'
  BY StepHolds
<1> QED
  BY <1>1, <1>2, PTL DEF Spec

\* However many installations and managers there are, the rows and the
\* variables of runOnce have their types.
THEOREM IntentTypes == Spec => []TypeOK
<1>1. IntentInv => TypeOK
  BY DEF IntentInv
<1> QED
  BY <1>1, IntentsHoldInvariant, PTL

\* A live lease on an intent is the live lease of the deployment: there is one
\* installation under way by one attempt, whatever crashes and arrives late.
THEOREM OneLeaseAtATime == Spec => []LeaseHoldsDeployment
<1>1. IntentInv => LeaseHoldsDeployment
  BY DEF IntentInv
<1> QED
  BY <1>1, IntentsHoldInvariant, PTL

\* An intent that is approved, installed or handed over always stores the approvable
\* review that was approved; an approved one, at the revision after the page's.
THEOREM ApprovedIsReviewed == Spec => []ApprovalPinsReview
<1>1. IntentInv => ApprovalPinsReview
  BY DEF IntentInv
<1> QED
  BY <1>1, IntentsHoldInvariant, PTL

\* lifecycle.execute runs under a lease only for the review that was approved.
THEOREM ExecutesWhatWasApproved == Spec => []HeldExecutionIsApproved
<1>1. IntentInv => HeldExecutionIsApproved
  BY DEF IntentInv, HeldApproval, HeldExecutionIsApproved, Carrying, Held
<1> QED
  BY <1>1, IntentsHoldInvariant, PTL

\* No call moves an intent out of ready or cancelled, or into ready without approval.
LEMMA StepSettles ==
  ASSUME IntentInv, [Next]_vars
  PROVE  \A j \in Installations : Settles(j)
<1>1. ASSUME NEW i \in Installations, BeginCreate(i)
      PROVE  \A j \in Installations : Settles(j)
  <2>1. UNCHANGED rows
    BY <1>1 DEF BeginCreate
  <2> QED
    BY <2>1 DEF rows, Settles
<1>2. ASSUME NEW i \in Installations, Create(i)
      PROVE  \A j \in Installations : Settles(j)
  BY <1>2, NoneAssumption DEF Create, Settles, IntentInv, PendingWrites, TypeOK
<1>3. ASSUME NEW i \in Installations, NEW page \in Pages(i),
             NEW decision \in {"approve", "reject"},
             Approve(i, page, decision)
      PROVE  \A j \in Installations : Settles(j)
  <2>1. state' = [state EXCEPT ![i] = state'[i]] /\ state[i] = "awaiting_approval"
        /\ state'[i] \in {"approved", "cancelled"}
    BY <1>3 DEF Approve, Approvable, IntentInv, TypeOK
  <2> QED
    BY <2>1 DEF Settles, IntentInv, TypeOK
<1>4. ASSUME NEW i \in Installations, NEW page \in Pages(i),
             Cancel(i, page)
      PROVE  \A j \in Installations : Settles(j)
  BY <1>4 DEF Cancel, Cancellable, Settles, IntentInv, TypeOK
<1>5. ASSUME NEW i \in Installations, NEW page \in Pages(i),
             BeginRetry(i, page)
      PROVE  \A j \in Installations : Settles(j)
  <2>1. UNCHANGED rows
    BY <1>5 DEF BeginRetry
  <2> QED
    BY <2>1 DEF rows, Settles
<1>6. ASSUME NEW i \in Installations, Retry(i)
      PROVE  \A j \in Installations : Settles(j)
  BY <1>6 DEF Retry, Settles, IntentInv, PendingWrites, TypeOK
<1>7. ASSUME NEW i \in Installations, Refuse(i)
      PROVE  \A j \in Installations : Settles(j)
  BY <1>7 DEF Refuse, Offered, Eligible, claimableStates, Settles, IntentInv, TypeOK
<1>8. ASSUME NEW i \in Installations, Lapse(i)
      PROVE  \A j \in Installations : Settles(j)
  BY <1>8 DEF Lapse, Settles
<1>9. ASSUME NEW i \in Installations, ReviewExpires(i)
      PROVE  \A j \in Installations : Settles(j)
  BY <1>9 DEF ReviewExpires, Settles
<1>10. ASSUME NEW m \in Managers, NEW i \in Installations,
             Claim(m, i)
      PROVE  \A j \in Installations : Settles(j)
  BY <1>10 DEF Claim, Settles
<1>11. ASSUME NEW m \in Managers, Plan(m)
      PROVE  \A j \in Installations : Settles(j)
  <2>1. UNCHANGED rows
    BY <1>11 DEF Plan
  <2> QED
    BY <2>1 DEF rows, Settles
<1>12. ASSUME NEW m \in Managers, PlanFails(m)
      PROVE  \A j \in Installations : Settles(j)
  <2>1. UNCHANGED rows
    BY <1>12 DEF PlanFails
  <2> QED
    BY <2>1 DEF rows, Settles
<1>13. ASSUME NEW m \in Managers, PublishSame(m)
      PROVE  \A j \in Installations : Settles(j)
  BY <1>13 DEF PublishSame, Settles
<1>14. ASSUME NEW m \in Managers, PublishNew(m)
      PROVE  \A j \in Installations : Settles(j)
  <2>1. /\ hand[m].inst \in Installations
        /\ state[hand[m].inst] \in claimableStates
        /\ state' = [state EXCEPT ![hand[m].inst] = "awaiting_approval"]
    BY <1>14 DEF PublishNew, IntentInv, HandsKnown, AcceptedIsClaimable
  <2> QED
    BY <2>1 DEF Settles, claimableStates, IntentInv, TypeOK
<1>15. ASSUME NEW m \in Managers, PublishRefused(m)
      PROVE  \A j \in Installations : Settles(j)
  <2>1. UNCHANGED rows
    BY <1>15 DEF PublishRefused
  <2> QED
    BY <2>1 DEF rows, Settles
<1>16. ASSUME NEW m \in Managers, ReadApproval(m)
      PROVE  \A j \in Installations : Settles(j)
  <2>1. UNCHANGED rows
    BY <1>16 DEF ReadApproval
  <2> QED
    BY <2>1 DEF rows, Settles
<1>17. ASSUME NEW m \in Managers, Execute(m)
      PROVE  \A j \in Installations : Settles(j)
  <2>1. UNCHANGED rows
    BY <1>17 DEF Execute
  <2> QED
    BY <2>1 DEF rows, Settles
<1>18. ASSUME NEW m \in Managers, Report(m)
      PROVE  \A j \in Installations : Settles(j)
  <2>1. /\ hand[m].inst \in Installations
        /\ state[hand[m].inst] \in claimableStates
        /\ state' = [state EXCEPT ![hand[m].inst] = hand[m].outcome]
    BY <1>18 DEF Report, IntentInv, HandsKnown, AcceptedIsClaimable
  <2>2. hand[m].outcome = "ready" => state[hand[m].inst] = "approved"
    BY <1>18 DEF Report, Accepted, IntentInv, HeldApproval, Carrying, Held
  <2> QED
    BY <2>1, <2>2 DEF Settles, claimableStates, IntentInv, TypeOK
<1>19. ASSUME NEW m \in Managers, ReportRefused(m)
      PROVE  \A j \in Installations : Settles(j)
  <2>1. UNCHANGED rows
    BY <1>19 DEF ReportRefused
  <2> QED
    BY <2>1 DEF rows, Settles
<1>20. ASSUME NEW m \in Managers, Abandon(m)
      PROVE  \A j \in Installations : Settles(j)
  <2>1. UNCHANGED rows
    BY <1>20 DEF Abandon
  <2> QED
    BY <2>1 DEF rows, Settles
<1>21. CASE UNCHANGED vars
  BY <1>21 DEF vars, rows, Settles
<1> QED
  BY <1>1, <1>2, <1>3, <1>4, <1>5, <1>6, <1>7, <1>8, <1>9, <1>10, <1>11,
     <1>12, <1>13, <1>14, <1>15, <1>16, <1>17, <1>18, <1>19, <1>20, <1>21
  DEF Next, Administrator, Step, Publish

\* A finished installation stays finished, and one that gets ready was approved.
THEOREM FinishedStaysFinished == Spec => ResultsAreFinal
<1>1. IntentInv /\ [Next]_vars => [\A i \in Installations : Settles(i)]_vars
  BY StepSettles
<1> QED
  BY <1>1, IntentsHoldInvariant, PTL DEF Spec, ResultsAreFinal

\* publishReview moves the attempt that calls it.
LEMMA ReviewedMoves ==
  ASSUME TypeOK, NEW m \in Managers, NEW id, NEW retained, hand[m].stage = "planned",
         Reviewed(m, id, retained)
  PROVE  hand'[m] # hand[m]
<1> DEFINE f == [hand[m] EXCEPT !.stage = "reporting", !.outcome = "failed",
                                !.review = id, !.revision = revision'[hand[m].inst]]
           p == [hand[m] EXCEPT !.stage = "polling", !.review = id]
<1>1. f.stage = "reporting" /\ p.stage = "polling"
  BY DEF TypeOK, Hand
<1>2. Goes(m, f) \/ Goes(m, p) \/ Goes(m, Idle)
  BY DEF Reviewed, Ends
<1> HIDE DEF f, p
<1> QED
  BY <1>1, <1>2 DEF Goes, TypeOK, Idle

\* A call that writes the lease of an intent nobody holds ends no lease.
LEMMA UnheldLeaseMoves ==
  ASSUME TypeOK, NEW i \in Installations, NEW l, ~lease[i].live,
         lease' = [lease EXCEPT ![i] = l]
  PROVE  \A n \in Managers, j \in Installations : HolderOrClock(n, j)
<1> SUFFICES ASSUME NEW n \in Managers, NEW j \in Installations,
                    lease[j] = [by |-> n, live |-> TRUE]
             PROVE  lease'[j] = lease[j]
  BY DEF HolderOrClock
<1>1. lease[j].live
  OBVIOUS
<1>2. j # i
  BY <1>1
<1> QED
  BY <1>2 DEF TypeOK

\* A call of the holder may end its own lease and no other.
LEMMA HeldLeaseMoves ==
  ASSUME TypeOK, NEW m \in Managers, NEW i \in Installations, NEW l, hand[m].inst = i,
         lease[i] = [by |-> m, live |-> TRUE], hand'[m] # hand[m],
         lease' = lease \/ lease' = [lease EXCEPT ![i] = l]
  PROVE  \A n \in Managers, j \in Installations : HolderOrClock(n, j)
<1> SUFFICES ASSUME NEW n \in Managers, NEW j \in Installations,
                    lease[j] = [by |-> n, live |-> TRUE], lease'[j] # lease[j]
             PROVE  hand[n].inst = j /\ hand'[n] # hand[n]
  BY DEF HolderOrClock
<1>1. j = i
  BY DEF TypeOK
<1>2. n = m
  BY <1>1
<1> QED
  BY <1>1, <1>2

\* No call of anybody else ends a live lease.
LEMMA StepKeepsLeases ==
  ASSUME IntentInv, [Next]_vars
  PROVE  \A n \in Managers, j \in Installations : HolderOrClock(n, j)
<1>1. ASSUME NEW i \in Installations, BeginCreate(i)
      PROVE  \A n \in Managers, j \in Installations : HolderOrClock(n, j)
  <2>1. UNCHANGED rows
    BY <1>1 DEF BeginCreate
  <2> QED
    BY <2>1 DEF rows, HolderOrClock
<1>2. ASSUME NEW i \in Installations, Create(i)
      PROVE  \A n \in Managers, j \in Installations : HolderOrClock(n, j)
  BY <1>2 DEF Create, HolderOrClock
<1>3. ASSUME NEW i \in Installations, NEW page \in Pages(i),
             NEW decision \in {"approve", "reject"},
             Approve(i, page, decision)
      PROVE  \A n \in Managers, j \in Installations : HolderOrClock(n, j)
  BY <1>3 DEF Approve, HolderOrClock
<1>4. ASSUME NEW i \in Installations, NEW page \in Pages(i),
             Cancel(i, page)
      PROVE  \A n \in Managers, j \in Installations : HolderOrClock(n, j)
  BY <1>4, UnheldLeaseMoves DEF Cancel, Cancellable, IntentInv
<1>5. ASSUME NEW i \in Installations, NEW page \in Pages(i),
             BeginRetry(i, page)
      PROVE  \A n \in Managers, j \in Installations : HolderOrClock(n, j)
  <2>1. UNCHANGED rows
    BY <1>5 DEF BeginRetry
  <2> QED
    BY <2>1 DEF rows, HolderOrClock
<1>6. ASSUME NEW i \in Installations, Retry(i)
      PROVE  \A n \in Managers, j \in Installations : HolderOrClock(n, j)
  <2>1. ~lease[i].live
    BY <1>6 DEF Retry, IntentInv, PendingWrites, LiveIsUnderWay, claimableStates
  <2> QED
    BY <1>6, <2>1, UnheldLeaseMoves DEF Retry, IntentInv
<1>7. ASSUME NEW i \in Installations, Refuse(i)
      PROVE  \A n \in Managers, j \in Installations : HolderOrClock(n, j)
  BY <1>7, UnheldLeaseMoves DEF Refuse, Offered, Eligible, IntentInv
<1>8. ASSUME NEW i \in Installations, Lapse(i)
      PROVE  \A n \in Managers, j \in Installations : HolderOrClock(n, j)
  <2> SUFFICES ASSUME NEW n \in Managers, NEW j \in Installations,
                      lease[j] = [by |-> n, live |-> TRUE], lease'[j] # lease[j]
               PROVE  lease'[j] = [by |-> n, live |-> FALSE]
    BY DEF HolderOrClock
  <2>1. lease' = [lease EXCEPT ![i] = [by |-> lease[i].by, live |-> FALSE]]
    BY <1>8 DEF Lapse
  <2>2. j = i
    BY <2>1 DEF IntentInv, TypeOK
  <2>3. lease[i].by = n
    BY <2>2
  <2>4. lease'[i] = [by |-> lease[i].by, live |-> FALSE]
    BY <2>1 DEF IntentInv, TypeOK
  <2> QED
    BY <2>2, <2>3, <2>4
<1>9. ASSUME NEW i \in Installations, ReviewExpires(i)
      PROVE  \A n \in Managers, j \in Installations : HolderOrClock(n, j)
  BY <1>9 DEF ReviewExpires, HolderOrClock
<1>10. ASSUME NEW m \in Managers, NEW i \in Installations,
             Claim(m, i)
      PROVE  \A n \in Managers, j \in Installations : HolderOrClock(n, j)
  BY <1>10, UnheldLeaseMoves DEF Claim, Offered, Eligible, IntentInv
<1>11. ASSUME NEW m \in Managers, Plan(m)
      PROVE  \A n \in Managers, j \in Installations : HolderOrClock(n, j)
  <2>1. UNCHANGED rows
    BY <1>11 DEF Plan
  <2> QED
    BY <2>1 DEF rows, HolderOrClock
<1>12. ASSUME NEW m \in Managers, PlanFails(m)
      PROVE  \A n \in Managers, j \in Installations : HolderOrClock(n, j)
  <2>1. UNCHANGED rows
    BY <1>12 DEF PlanFails
  <2> QED
    BY <2>1 DEF rows, HolderOrClock
<1>13. ASSUME NEW m \in Managers, PublishSame(m)
      PROVE  \A n \in Managers, j \in Installations : HolderOrClock(n, j)
  <2>1. /\ hand[m].inst \in Installations
        /\ lease[hand[m].inst] = [by |-> m, live |-> TRUE]
    BY <1>13 DEF PublishSame, Accepted, IntentInv, HandsKnown
  <2>2. lease' = lease \/ lease' = [lease EXCEPT ![hand[m].inst] = Unleased]
    BY <1>13 DEF PublishSame
  <2>3. hand'[m] # hand[m]
    BY <1>13, ReviewedMoves DEF PublishSame, IntentInv
  <2> QED
    BY <2>1, <2>2, <2>3, HeldLeaseMoves DEF IntentInv
<1>14. ASSUME NEW m \in Managers, PublishNew(m)
      PROVE  \A n \in Managers, j \in Installations : HolderOrClock(n, j)
  <2>1. /\ hand[m].inst \in Installations
        /\ lease[hand[m].inst] = [by |-> m, live |-> TRUE]
    BY <1>14 DEF PublishNew, Accepted, IntentInv, HandsKnown
  <2>2. lease' = lease \/ lease' = [lease EXCEPT ![hand[m].inst] = Unleased]
    BY <1>14 DEF PublishNew
  <2>3. hand'[m] # hand[m]
    BY <1>14, ReviewedMoves DEF PublishNew, IntentInv
  <2> QED
    BY <2>1, <2>2, <2>3, HeldLeaseMoves DEF IntentInv
<1>15. ASSUME NEW m \in Managers, PublishRefused(m)
      PROVE  \A n \in Managers, j \in Installations : HolderOrClock(n, j)
  <2>1. UNCHANGED rows
    BY <1>15 DEF PublishRefused
  <2> QED
    BY <2>1 DEF rows, HolderOrClock
<1>16. ASSUME NEW m \in Managers, ReadApproval(m)
      PROVE  \A n \in Managers, j \in Installations : HolderOrClock(n, j)
  <2>1. UNCHANGED rows
    BY <1>16 DEF ReadApproval
  <2> QED
    BY <2>1 DEF rows, HolderOrClock
<1>17. ASSUME NEW m \in Managers, Execute(m)
      PROVE  \A n \in Managers, j \in Installations : HolderOrClock(n, j)
  <2>1. UNCHANGED rows
    BY <1>17 DEF Execute
  <2> QED
    BY <2>1 DEF rows, HolderOrClock
<1>18. ASSUME NEW m \in Managers, Report(m)
      PROVE  \A n \in Managers, j \in Installations : HolderOrClock(n, j)
  <2>1. /\ hand[m].inst \in Installations
        /\ lease[hand[m].inst] = [by |-> m, live |-> TRUE]
    BY <1>18 DEF Report, Accepted, IntentInv, HandsKnown
  <2>2. lease' = lease \/ lease' = [lease EXCEPT ![hand[m].inst] = Unleased]
    BY <1>18 DEF Report
  <2>3. hand'[m] # hand[m]
    BY <1>18 DEF Report, Ends, Goes, Idle, IntentInv, TypeOK
  <2> QED
    BY <2>1, <2>2, <2>3, HeldLeaseMoves DEF IntentInv
<1>19. ASSUME NEW m \in Managers, ReportRefused(m)
      PROVE  \A n \in Managers, j \in Installations : HolderOrClock(n, j)
  <2>1. UNCHANGED rows
    BY <1>19 DEF ReportRefused
  <2> QED
    BY <2>1 DEF rows, HolderOrClock
<1>20. ASSUME NEW m \in Managers, Abandon(m)
      PROVE  \A n \in Managers, j \in Installations : HolderOrClock(n, j)
  <2>1. UNCHANGED rows
    BY <1>20 DEF Abandon
  <2> QED
    BY <2>1 DEF rows, HolderOrClock
<1>21. CASE UNCHANGED vars
  BY <1>21 DEF vars, rows, HolderOrClock
<1> QED
  BY <1>1, <1>2, <1>3, <1>4, <1>5, <1>6, <1>7, <1>8, <1>9, <1>10, <1>11,
     <1>12, <1>13, <1>14, <1>15, <1>16, <1>17, <1>18, <1>19, <1>20, <1>21
  DEF Next, Administrator, Step, Publish

\* A live lease is ended by its holder or by the clock alone.
THEOREM LeasesEndInTurn == Spec => LeaseEndsByHolderOrClock
<1>1. IntentInv /\ [Next]_vars =>
        [\A m \in Managers, i \in Installations : HolderOrClock(m, i)]_vars
  BY StepKeepsLeases
<1> QED
  BY <1>1, IntentsHoldInvariant, PTL DEF Spec, LeaseEndsByHolderOrClock

-----------------------------------------------------------------------------
(* The promise to the administrator                                         *)

\* The attempts whose execution or result counts if it is accepted.
Carries(h) == h.stage = "executing" \/ (h.stage = "reporting" /\ h.outcome # "failed")

Leads(n, j) == lease[j] = [by |-> n, live |-> TRUE]

\* A step that begins nothing: an attempt that carries something carried it before,
\* and got no lease by the step.
Quiet(n) ==
  Carries(hand'[n]) => hand'[n] = hand[n] /\ \A j \in Installations : Leads(n, j)' => Leads(n, j)

LEMMA AcceptedBefore ==
  ASSUME IntentInv, IntentInv', \A j \in Installations : revision[j] <= revision'[j],
         NEW n \in Managers, Quiet(n), Carries(hand'[n]), Accepted(n)'
  PROVE  hand'[n] = hand[n] /\ Accepted(n)
<1>1. /\ hand'[n] = hand[n] /\ hand[n].stage # "idle"
      /\ \A j \in Installations : Leads(n, j)' => Leads(n, j)
  BY DEF Quiet, Carries
<1>2. hand[n].inst \in Installations /\ hand[n].revision <= revision[hand[n].inst]
  BY <1>1 DEF IntentInv, HandsKnown
<1>3. /\ hand[n].revision \in Nat /\ revision[hand[n].inst] \in Nat
      /\ revision'[hand[n].inst] \in Nat
  BY <1>2 DEF IntentInv, TypeOK, Hand
<1>4. Leads(n, hand[n].inst) /\ revision'[hand[n].inst] = hand[n].revision
  BY <1>1, <1>2 DEF Accepted, Leads
<1>5. revision[hand[n].inst] = hand[n].revision
  BY <1>2, <1>3, <1>4
<1> QED
  BY <1>1, <1>4, <1>5 DEF Accepted, Leads

LEMMA NothingBegun ==
  ASSUME IntentInv, IntentInv', [Next]_vars, \A n \in Managers : Quiet(n)
  PROVE  Underway' \subseteq Underway /\ Results' \subseteq Results
<1>1. \A j \in Installations : revision[j] <= revision'[j]
  BY RevisionGrows DEF IntentInv
<1>2. \A n \in Managers : Carries(hand'[n]) /\ Accepted(n)' => hand'[n] = hand[n] /\ Accepted(n)
  BY <1>1, AcceptedBefore
<1>3. Underway' \subseteq Underway
  <2>1. SUFFICES ASSUME NEW n \in Managers, hand'[n].stage = "executing", Accepted(n)'
                 PROVE  <<hand'[n].inst, hand'[n].review>> \in Underway
    BY DEF Underway
  <2>2. hand'[n] = hand[n] /\ Accepted(n)
    BY <1>2, <2>1 DEF Carries
  <2> QED BY <2>1, <2>2 DEF Underway
<1>4. Results' \subseteq Results
  <2>1. SUFFICES ASSUME NEW n \in Managers, hand'[n].stage = "reporting",
                        hand'[n].outcome # "failed", Accepted(n)'
                 PROVE  <<hand'[n].inst, hand'[n].review, hand'[n].outcome>> \in Results
    BY DEF Results
  <2>2. hand'[n] = hand[n] /\ Accepted(n)
    BY <1>2, <2>1 DEF Carries
  <2> QED BY <2>1, <2>2 DEF Results
<1> QED
  BY <1>3, <1>4

\* The step of one attempt that ends, or goes where it carries nothing, and takes no
\* lease for another.
LEMMA QuietGoes ==
  ASSUME TypeOK, NEW m \in Managers, NEW h, Goes(m, h), ~Carries(h),
         \A n \in Managers \ {m}, j \in Installations : Leads(n, j)' => Leads(n, j)
  PROVE  \A n \in Managers : Quiet(n)
  BY DEF Goes, Quiet, TypeOK

LEMMA QuietReviewed ==
  ASSUME TypeOK, NEW m \in Managers, NEW id, NEW retained, Reviewed(m, id, retained),
         \A n \in Managers \ {m}, j \in Installations : Leads(n, j)' => Leads(n, j)
  PROVE  \A n \in Managers : Quiet(n)
<1> DEFINE f == [hand[m] EXCEPT !.stage = "reporting", !.outcome = "failed",
                                !.review = id, !.revision = revision'[hand[m].inst]]
           p == [hand[m] EXCEPT !.stage = "polling", !.review = id]
<1>1. ~Carries(f) /\ ~Carries(p) /\ ~Carries(Idle)
  BY DEF Carries, Idle, TypeOK, Hand
<1>2. Goes(m, f) \/ Goes(m, p) \/ Goes(m, Idle)
  BY DEF Reviewed, Ends
<1> HIDE DEF f, p
<1> QED
  BY <1>1, <1>2, QuietGoes

\* Where the rows stay as they are, attempts may only lose.
LEMMA LosePromised ==
  ASSUME IntentInv, IntentInv', [Next]_vars, \A n \in Managers : Quiet(n),
         UNCHANGED <<state, revision, review, approval>>
  PROVE  Promise!Lose
<1>1. UNCHANGED [i \in Installations |-> DecidedReview(i)]
  BY DEF DecidedReview
<1> QED
  BY <1>1, NothingBegun DEF Promise!Lose, Promise!Undecided, Promise!Losing

\* Steps of attempts that leave the rows as they are and begin nothing.
LEMMA AttemptPromised ==
  ASSUME IntentInv, IntentInv', [Next]_vars, NEW m \in Managers,
         \/ Plan(m) \/ PlanFails(m) \/ PublishSame(m) \/ PublishRefused(m)
         \/ ReportRefused(m) \/ Abandon(m) \/ (\E i \in Installations : Claim(m, i))
  PROVE  Promise!Lose
<1>0. TypeOK /\ ~Carries(Idle)
  BY DEF IntentInv, Carries, Idle
<1>1. UNCHANGED <<state, revision, review, approval>>
  BY DEF Plan, PlanFails, PublishSame, PublishRefused, ReportRefused, Abandon, Claim, rows
<1>2. \A n \in Managers \ {m}, j \in Installations : Leads(n, j)' => Leads(n, j)
  <2>1. CASE UNCHANGED lease
    BY <2>1 DEF Leads
  <2>2. CASE PublishSame(m)
    <3>1. lease' = lease \/ lease' = [lease EXCEPT ![hand[m].inst] = Unleased]
      BY <2>2 DEF PublishSame
    <3> QED BY <1>0, <3>1 DEF Leads, Unleased, TypeOK
  <2>3. CASE \E i \in Installations : Claim(m, i)
    <3>1. PICK i \in Installations : lease' = [lease EXCEPT ![i] = [by |-> m, live |-> TRUE]]
      BY <2>3 DEF Claim
    <3> QED BY <1>0, <3>1 DEF Leads, TypeOK
  <2> QED
    BY <2>1, <2>2, <2>3 DEF Plan, PlanFails, PublishRefused, ReportRefused, Abandon, rows
<1>3. \A n \in Managers : Quiet(n)
  <2>1. CASE Plan(m)
    <3> DEFINE p == [hand[m] EXCEPT !.stage = "planned"]
               g(b) == [hand[m] EXCEPT !.stage = "planned", !.review = Generated,
                                       !.approvable = b]
    <3>1. ~Carries(p) /\ \A b \in BOOLEAN : ~Carries(g(b))
      BY <1>0 DEF Carries, TypeOK, Hand
    <3>2. Goes(m, p) \/ \E b \in BOOLEAN : Goes(m, g(b))
      BY <2>1 DEF Plan
    <3> HIDE DEF p, g
    <3> QED BY <1>0, <1>2, <3>1, <3>2, QuietGoes
  <2>2. CASE PlanFails(m)
    <3> DEFINE f == [hand[m] EXCEPT !.stage = "reporting", !.outcome = "failed"]
    <3>1. ~Carries(f)
      BY <1>0 DEF Carries, TypeOK, Hand
    <3>2. Goes(m, f)
      BY <2>2 DEF PlanFails, Reports
    <3> HIDE DEF f
    <3> QED BY <1>0, <1>2, <3>1, <3>2, QuietGoes
  <2>3. CASE PublishSame(m)
    <3>1. Reviewed(m, hand[m].review, state[hand[m].inst] # "awaiting_approval")
      BY <2>3 DEF PublishSame
    <3> QED BY <1>0, <1>2, <3>1, QuietReviewed
  <2>4. CASE PublishRefused(m) \/ ReportRefused(m) \/ Abandon(m)
    BY <1>0, <1>2, <2>4, QuietGoes DEF PublishRefused, ReportRefused, Abandon, Ends
  <2>5. CASE \E i \in Installations : Claim(m, i)
    <3>1. PICK i \in Installations : Claim(m, i)
      BY <2>5
    <3> DEFINE h == [stage |-> "claimed", inst |-> i, revision |-> revision[i],
                     review |-> IF review[i] = None THEN None ELSE review[i].id,
                     approvable |-> review[i] # None /\ review[i].approvable,
                     outcome |-> None]
    <3>2. Goes(m, h)
      BY <3>1 DEF Claim
    <3>3. ~Carries(h)
      BY DEF Carries
    <3> HIDE DEF h
    <3> QED BY <1>0, <1>2, <3>2, <3>3, QuietGoes
  <2> QED BY <2>1, <2>2, <2>3, <2>4, <2>5
<1> QED
  BY <1>1, <1>3, LosePromised

\* Where attempts stay as they are, nothing begins unless one gets a lease.
LEMMA QuietRows ==
  ASSUME TypeOK, UNCHANGED hand,
         \/ UNCHANGED lease
         \/ \E i \in Installations, l \in [by : Managers \cup {None}, live : {FALSE}] :
              lease' = [lease EXCEPT ![i] = l]
  PROVE  \A n \in Managers : Quiet(n)
<1>1. \A n \in Managers, j \in Installations : Leads(n, j)' => Leads(n, j)
  <2>1. CASE UNCHANGED lease
    BY <2>1 DEF Leads
  <2>2. CASE \E i \in Installations, l \in [by : Managers \cup {None}, live : {FALSE}] :
               lease' = [lease EXCEPT ![i] = l]
    <3>1. PICK i \in Installations, l \in [by : Managers \cup {None}, live : {FALSE}] :
            lease' = [lease EXCEPT ![i] = l]
      BY <2>2
    <3>2. ~l.live /\ lease' = [j \in Installations |-> IF j = i THEN l ELSE lease[j]]
      BY <3>1 DEF TypeOK
    <3> QED BY <3>2 DEF Leads
  <2> QED BY <2>1, <2>2
<1> QED
  BY <1>1 DEF Quiet

LEMMA AskPromised ==
  ASSUME IntentInv, IntentInv', [Next]_vars, NEW i \in Installations,
         BeginCreate(i) \/ Create(i) \/ Lapse(i)
  PROVE  Promise!Ask(i) \/ Promise!Lose
<1>1. \A n \in Managers : Quiet(n)
  <2>1. UNCHANGED hand /\ TypeOK
    BY DEF BeginCreate, Create, Lapse, IntentInv
  <2>2. \/ UNCHANGED lease
        \/ lease' = [lease EXCEPT ![i] = [by |-> lease[i].by, live |-> FALSE]]
    BY DEF BeginCreate, Create, Lapse, rows
  <2>3. [by |-> lease[i].by, live |-> FALSE] \in [by : Managers \cup {None}, live : {FALSE}]
    BY <2>1 DEF TypeOK
  <2> QED BY <2>1, <2>2, <2>3, QuietRows
<1>2. CASE Create(i)
  <2>1. state[i] = "absent"
    BY <1>2, NoneAssumption DEF Create, IntentInv, PendingWrites
  <2>2. UNCHANGED [j \in Installations |-> DecidedReview(j)]
    BY <1>2 DEF Create, DecidedReview
  <2> QED
    BY <1>1, <1>2, <2>1, <2>2, NothingBegun
    DEF Create, Promise!Ask, Promise!Undecided, Promise!Losing
<1>3. CASE BeginCreate(i) \/ Lapse(i)
  <2>1. UNCHANGED <<state, revision, review, approval>>
    BY <1>3 DEF BeginCreate, Lapse, rows
  <2> QED BY <1>1, <2>1, LosePromised
<1> QED
  BY <1>2, <1>3

\* A decision is about the review of the moment, whatever page it was made on.
LEMMA DecisionPromised ==
  ASSUME IntentInv, IntentInv', [Next]_vars, NEW i \in Installations,
         NEW page \in Pages(i), NEW decision \in {"approve", "reject"},
         Approve(i, page, decision)
  PROVE  Promise!Approve(i) \/ Promise!Reject(i)
<1>1. Underway' \subseteq Underway /\ Results' \subseteq Results
  <2>1. TypeOK /\ UNCHANGED <<hand, lease>>
    BY DEF Approve, IntentInv
  <2> QED BY <2>1, QuietRows, NothingBegun
<1>2. page # None
  <2>1. page \in ApprovalRows
    BY DEF Pages, ApprovalRows, IntentInv, TypeOK
  <2> QED BY <2>1, NoneAssumption
<1>3. [j \in Installations |-> DecidedReview(j)]' =
        [[j \in Installations |-> DecidedReview(j)] EXCEPT ![i] = review[i].id]
  <2>1. approval' = [approval EXCEPT ![i] = page] /\ page.review = review[i].id
    BY DEF Approve, Approvable
  <2>2. \A j \in Installations :
          DecidedReview(j)' = IF j = i THEN review[i].id ELSE DecidedReview(j)
    BY <1>2, <2>1 DEF DecidedReview, IntentInv, TypeOK
  <2> QED BY <2>2
<1>4. /\ state[i] = "awaiting_approval" /\ review[i] # None /\ ~review[i].expired
      /\ decision = "approve" => review[i].approvable
      /\ state' = [state EXCEPT ![i] = IF decision = "approve" THEN "approved" ELSE "cancelled"]
      /\ revision' = [revision EXCEPT ![i] = @ + 1]
      /\ UNCHANGED review
  BY DEF Approve, Approvable
<1> QED
  BY <1>1, <1>3, <1>4
  DEF Promise!Approve, Promise!Reject, Promise!OnTheTable, Promise!Becomes, Promise!Losing

\* The other steps of the administrator, the refusals of claim, and the clock.
LEMMA WithdrawalPromised ==
  ASSUME IntentInv, IntentInv', [Next]_vars, NEW i \in Installations,
         NEW page \in Pages(i), Cancel(i, page) \/ BeginRetry(i, page)
  PROVE  Promise!Withdraw(i) \/ Promise!Lose
<1>1. \A n \in Managers : Quiet(n)
  <2>1. TypeOK /\ UNCHANGED hand /\ (UNCHANGED lease \/ lease' = [lease EXCEPT ![i] = Unleased])
    BY DEF Cancel, BeginRetry, rows, IntentInv
  <2>2. Unleased \in [by : Managers \cup {None}, live : {FALSE}]
    BY DEF Unleased
  <2> QED BY <2>1, <2>2, QuietRows
<1>2. CASE Cancel(i, page)
  <2>1. UNCHANGED [j \in Installations |-> DecidedReview(j)]
    BY <1>2 DEF Cancel, DecidedReview
  <2> QED
    BY <1>1, <1>2, <2>1, NothingBegun
    DEF Cancel, Cancellable, Promise!Withdraw, Promise!Becomes, Promise!Undecided,
        Promise!Losing
<1>3. CASE BeginRetry(i, page)
  <2>1. UNCHANGED <<state, revision, review, approval>>
    BY <1>3 DEF BeginRetry, rows
  <2> QED BY <1>1, <2>1, LosePromised
<1> QED
  BY <1>2, <1>3

LEMMA RetryPromised ==
  ASSUME IntentInv, IntentInv', [Next]_vars, NEW i \in Installations, Retry(i)
  PROVE  Promise!Retry(i)
<1>1. Underway' \subseteq Underway /\ Results' \subseteq Results
  <2>1. TypeOK /\ UNCHANGED hand /\ lease' = [lease EXCEPT ![i] = Unleased]
    BY DEF Retry, IntentInv
  <2>2. Unleased \in [by : Managers \cup {None}, live : {FALSE}]
    BY DEF Unleased
  <2> QED BY <2>1, <2>2, QuietRows, NothingBegun
<1>2. state[i] \in {"failed", "manual_intervention"}
  BY DEF Retry, IntentInv, PendingWrites
<1>3. [j \in Installations |-> DecidedReview(j)]' =
        [[j \in Installations |-> DecidedReview(j)] EXCEPT ![i] = None]
  <2>1. approval' = [approval EXCEPT ![i] = None]
    BY DEF Retry
  <2>2. \A j \in Installations :
          DecidedReview(j)' = IF j = i THEN None ELSE DecidedReview(j)
    BY <2>1 DEF DecidedReview, IntentInv, TypeOK
  <2> QED BY <2>2
<1> QED
  BY <1>1, <1>2, <1>3 DEF Retry, Promise!Retry, Promise!Becomes, Promise!Losing

LEMMA ClockPromised ==
  ASSUME IntentInv, IntentInv', [Next]_vars, NEW i \in Installations,
         Refuse(i) \/ ReviewExpires(i)
  PROVE  Promise!Fail(i) \/ Promise!Expire(i)
<1>1. Underway' \subseteq Underway /\ Results' \subseteq Results
  <2>1. TypeOK /\ UNCHANGED hand /\ (UNCHANGED lease \/ lease' = [lease EXCEPT ![i] = Unleased])
    BY DEF Refuse, ReviewExpires, IntentInv
  <2>2. Unleased \in [by : Managers \cup {None}, live : {FALSE}]
    BY DEF Unleased
  <2> QED BY <2>1, <2>2, QuietRows, NothingBegun
<1>2. UNCHANGED [j \in Installations |-> DecidedReview(j)]
  BY DEF Refuse, ReviewExpires, DecidedReview
<1>3. CASE Refuse(i)
  BY <1>1, <1>2, <1>3
  DEF Refuse, Offered, Eligible, claimableStates, Promise!Fail, Promise!Open,
      Promise!Becomes, Promise!Undecided, Promise!Losing
<1>4. CASE ReviewExpires(i)
  BY <1>1, <1>2, <1>4 DEF ReviewExpires, Promise!Expire, Promise!Losing
<1> QED
  BY <1>3, <1>4

\* A new review is offered for an intent that is not approved: an approval of
\* the review that is stored forbids another.
LEMMA OfferPromised ==
  ASSUME IntentInv, IntentInv', [Next]_vars, NEW m \in Managers, PublishNew(m)
  PROVE  Promise!Offer(hand[m].inst)
<1> DEFINE i == hand[m].inst
<1>1. /\ i \in Installations /\ Accepted(m) /\ TypeOK
      /\ revision' = [revision EXCEPT ![i] = @ + 1]
      /\ state' = [state EXCEPT ![i] = "awaiting_approval"]
      /\ review' = [review EXCEPT ![i] =
             [id |-> revision[i] + 1, approvable |-> hand[m].approvable, expired |-> FALSE]]
      /\ UNCHANGED approval
      /\ hand[m].approvable \in BOOLEAN
  BY DEF PublishNew, IntentInv, HandsKnown, TypeOK, Hand
<1>2. state[i] \in claimableStates \ {"approved"}
  <2>1. state[i] \in claimableStates
    BY DEF PublishNew, IntentInv, AcceptedIsClaimable
  <2>2. state[i] # "approved"
    BY <1>1 DEF PublishNew, IntentInv, ApprovalPinsReview
  <2> QED BY <2>1, <2>2
<1>3. Underway' \subseteq Underway /\ Results' \subseteq Results
  <2>1. lease' = lease \/ lease' = [lease EXCEPT ![i] = Unleased]
    BY DEF PublishNew
  <2>2. \A n \in Managers \ {m}, j \in Installations : Leads(n, j)' => Leads(n, j)
    BY <1>1, <2>1 DEF Leads, Unleased, TypeOK
  <2>3. Reviewed(m, revision[i] + 1, ~hand[m].approvable)
    BY DEF PublishNew
  <2>4. \A n \in Managers : Quiet(n)
    BY <1>1, <2>2, <2>3, QuietReviewed
  <2> QED BY <2>4, NothingBegun
<1>4. UNCHANGED [j \in Installations |-> DecidedReview(j)]
  BY <1>1 DEF DecidedReview
<1> HIDE DEF i
<1>5. Promise!Offer(i)
  BY <1>1, <1>2, <1>3, <1>4
  DEF claimableStates, Promise!Offer, Promise!Open, Promise!Becomes, Promise!Losing
<1> QED
  BY <1>5 DEF i

\* An accepted attempt is the only one: it holds the lease of the deployment.
LEMMA OnlyOneAccepted ==
  ASSUME IntentInv, NEW m \in Managers, NEW n \in Managers,
         hand[m].stage # "idle", hand[n].stage # "idle", Accepted(m), Accepted(n)
  PROVE  n = m
<1>1. hand[m].inst \in Installations /\ hand[n].inst \in Installations
  BY DEF IntentInv, HandsKnown
<1>2. /\ lease[hand[m].inst] = [by |-> m, live |-> TRUE]
      /\ lease[hand[n].inst] = [by |-> n, live |-> TRUE]
  BY DEF Accepted
<1>3. /\ admission = [inst |-> hand[m].inst, by |-> m, live |-> TRUE]
      /\ admission = [inst |-> hand[n].inst, by |-> n, live |-> TRUE]
  BY <1>1, <1>2 DEF IntentInv, LeaseHoldsDeployment
<1> QED
  BY <1>3

\* The step that begins: an attempt that holds its lease and has found a valid
\* approval of its review is the only one whose execution counts.
LEMMA BeginPromised ==
  ASSUME IntentInv, IntentInv', [Next]_vars, NEW m \in Managers, ReadApproval(m)
  PROVE  Promise!Lose \/ \E i \in Installations : Promise!Begin(i)
<1> DEFINE i == hand[m].inst
           f == [hand[m] EXCEPT !.stage = "reporting", !.outcome = "failed"]
<1>1. /\ TypeOK /\ i \in Installations /\ hand[m].stage = "polling"
      /\ UNCHANGED rows
  BY DEF ReadApproval, IntentInv, HandsKnown
<1>2. UNCHANGED <<state, revision, lease, review, approval>>
  BY <1>1 DEF rows
<1>3. ~Carries(f) /\ ~Carries(Idle)
  BY <1>1 DEF Carries, Idle, TypeOK, Hand
<1>4. \/ Goes(m, f) \/ Goes(m, Idle)
      \/ \E seen \in Nat :
           /\ hand[m].revision <= seen /\ seen <= revision[i]
           /\ Goes(m, Executing(m, seen))
           /\ approval[i] # None /\ approval[i].review = hand[m].review
           /\ review[i] # None => ~review[i].expired
  BY ApprovalRead DEF IntentInv, Ends, Reports
<1> HIDE DEF f
<1>5. CASE Goes(m, f) \/ Goes(m, Idle)
  <2>1. \A n \in Managers \ {m}, j \in Installations : Leads(n, j)' => Leads(n, j)
    BY <1>2 DEF Leads
  <2>2. \A n \in Managers : Quiet(n)
    BY <1>1, <1>3, <1>5, <2>1, QuietGoes
  <2> QED BY <1>2, <2>2, LosePromised
<1>6. ASSUME NEW seen \in Nat, hand[m].revision <= seen, seen <= revision[i],
             Goes(m, Executing(m, seen)),
             approval[i] # None, approval[i].review = hand[m].review,
             review[i] # None => ~review[i].expired
      PROVE  Promise!Lose \/ \E j \in Installations : Promise!Begin(j)
  <2> DEFINE e == Executing(m, seen)
  <2>1. /\ e.stage = "executing" /\ e.inst = i /\ e.review = hand[m].review
        /\ e.revision = seen
    BY <1>1, ExecutingFacts
  <2> HIDE DEF e
  <2>2. hand' = [n \in Managers |-> IF n = m THEN e ELSE hand[n]]
    BY <1>1, <1>6 DEF Goes, TypeOK, e
  <2>3. UNCHANGED [j \in Installations |-> DecidedReview(j)]
    BY <1>2 DEF DecidedReview
  <2>4. \A n \in Managers \ {m} : Accepted(n)' <=> Accepted(n)
    BY <1>2, <2>2 DEF Accepted
  <2>5. Accepted(m)' <=> Held(m) /\ seen = revision[i]
    BY <1>2, <2>1, <2>2 DEF Accepted, Held
  <2>6. CASE Held(m)
    <3>1. /\ state[i] = "approved" /\ approval[i].review = hand[m].review
          /\ revision[i] = hand[m].revision
      BY <1>1, <2>6 DEF IntentInv, HeldApproval, Carrying
    <3>2. seen = revision[i]
      BY <1>1, <1>6, <3>1, SeenIsNow
    <3>3. Accepted(m)
      BY <2>6, <3>1 DEF Accepted, Held
    <3>4. /\ review[i] # None /\ review[i].id = approval[i].review
      BY <1>1, <3>1 DEF IntentInv, ApprovalPinsReview
    <3>5. \A n \in Managers \ {m} : hand[n].stage # "idle" => ~Accepted(n)
      BY <1>1, <3>3, OnlyOneAccepted
    <3>6. Underway = {} /\ Results = {} /\ Results' = {}
      BY <1>1, <2>1, <2>2, <2>4, <3>5 DEF Underway, Results
    <3>7. Underway' = {<<i, hand[m].review>>}
      <4>1. \A n \in Managers : hand'[n].stage = "executing" /\ Accepted(n)' <=> n = m
        BY <1>1, <2>1, <2>2, <2>4, <2>5, <2>6, <3>5, <3>2
      <4> QED BY <2>1, <2>2, <4>1 DEF Underway
    <3>8. DecidedReview(i) = hand[m].review
      BY <1>6 DEF DecidedReview
    <3>9. Promise!Begin(i)
      BY <1>1, <1>2, <1>6, <2>3, <3>1, <3>4, <3>6, <3>7, <3>8 DEF Promise!Begin
    <3> QED BY <1>1, <3>9
  <2>7. CASE ~Held(m)
    <3>1. Underway' \subseteq Underway
      BY <2>1, <2>2, <2>4, <2>5, <2>7 DEF Underway
    <3>2. Results' \subseteq Results
      BY <2>1, <2>2, <2>4, <2>5, <2>7 DEF Results
    <3> QED
      BY <1>2, <2>3, <3>1, <3>2 DEF Promise!Lose, Promise!Undecided, Promise!Losing
  <2> QED BY <2>6, <2>7
<1> QED
  BY <1>4, <1>5, <1>6

\* An execution that ends leaves its result, which counts if the lease does.
LEMMA FinishPromised ==
  ASSUME IntentInv, IntentInv', [Next]_vars, NEW m \in Managers, Execute(m)
  PROVE  Promise!Finish \/ Promise!Lose
<1>1. /\ TypeOK /\ hand[m].stage = "executing"
      /\ UNCHANGED <<state, revision, lease, review, approval>>
  BY DEF Execute, IntentInv, rows
<1>2. PICK outcome \in {"ready", "failed", "manual_intervention"} : Reports(m, outcome)
  BY DEF Execute
<1> DEFINE h == [hand[m] EXCEPT !.stage = "reporting", !.outcome = outcome]
<1>3. /\ h.stage = "reporting" /\ h.outcome = outcome /\ h.inst = hand[m].inst
      /\ h.review = hand[m].review /\ h.revision = hand[m].revision
  BY <1>1 DEF TypeOK, Hand
<1>4. hand' = [n \in Managers |-> IF n = m THEN h ELSE hand[n]]
  BY <1>1, <1>2 DEF Reports, Goes, TypeOK
<1> HIDE DEF h
<1>5. \A n \in Managers : Accepted(n)' <=> Accepted(n)
  BY <1>1, <1>3, <1>4 DEF Accepted
<1>6. UNCHANGED [j \in Installations |-> DecidedReview(j)]
  BY <1>1 DEF DecidedReview
<1>7. Underway' \subseteq Underway
  BY <1>3, <1>4, <1>5 DEF Underway
<1>8. CASE outcome # "failed" /\ Accepted(m)
  <2>1. <<hand[m].inst, hand[m].review>> \in Underway
    BY <1>1, <1>8 DEF Underway
  <2>2. Results' \subseteq Results \cup {<<hand[m].inst, hand[m].review, outcome>>}
    BY <1>3, <1>4, <1>5 DEF Results
  <2>3. \E e \in Underway, o \in {"ready", "manual_intervention"} :
          Results' \subseteq Results \cup {<<e[1], e[2], o>>}
    <3>1. outcome \in {"ready", "manual_intervention"}
      BY <1>2, <1>8
    <3>2. Results' \subseteq Results \cup
            {<< <<hand[m].inst, hand[m].review>>[1], <<hand[m].inst, hand[m].review>>[2], outcome>>}
      BY <2>2
    <3> QED BY <2>1, <3>1, <3>2
  <2> QED
    BY <1>1, <1>6, <1>7, <2>3 DEF Promise!Finish
<1>9. CASE ~(outcome # "failed" /\ Accepted(m))
  <2>1. Results' \subseteq Results
    BY <1>3, <1>4, <1>5, <1>9 DEF Results
  <2> QED
    BY <1>1, <1>6, <1>7, <2>1 DEF Promise!Lose, Promise!Undecided, Promise!Losing
<1> QED
  BY <1>8, <1>9

\* The result that becomes the state is the one of the approved review.
LEMMA ReportPromised ==
  ASSUME IntentInv, IntentInv', [Next]_vars, NEW m \in Managers, Report(m)
  PROVE  \E i \in Installations :
           Promise!Install(i) \/ Promise!CallForHelp(i) \/ Promise!Fail(i)
<1> DEFINE i == hand[m].inst
<1>1. /\ TypeOK /\ i \in Installations /\ hand[m].stage = "reporting" /\ Accepted(m)
      /\ state[i] \in claimableStates
      /\ hand[m].outcome \in {"ready", "failed", "manual_intervention"}
  BY DEF Report, IntentInv, HandsKnown, AcceptedIsClaimable
<1>2. /\ state' = [state EXCEPT ![i] = hand[m].outcome]
      /\ revision' = [revision EXCEPT ![i] = @ + 1]
      /\ lease' = [lease EXCEPT ![i] = Unleased]
      /\ Goes(m, Idle) /\ UNCHANGED <<review, approval>>
  BY DEF Report, Ends
<1>3. Underway' \subseteq Underway /\ Results' \subseteq Results
  <2>1. \A n \in Managers \ {m}, j \in Installations : Leads(n, j)' => Leads(n, j)
    BY <1>1, <1>2 DEF Leads, Unleased, TypeOK
  <2>2. ~Carries(Idle)
    BY DEF Carries, Idle
  <2>3. \A n \in Managers : Quiet(n)
    BY <1>1, <1>2, <2>1, <2>2, QuietGoes
  <2> QED BY <2>3, NothingBegun
<1>4. UNCHANGED [j \in Installations |-> DecidedReview(j)]
  BY <1>2 DEF DecidedReview
<1>5. hand[m].outcome # "failed" =>
        state[i] = "approved" /\ <<i, DecidedReview(i), hand[m].outcome>> \in Results
  <2>1. SUFFICES ASSUME hand[m].outcome # "failed"
                 PROVE  state[i] = "approved" /\ <<i, DecidedReview(i), hand[m].outcome>> \in Results
    OBVIOUS
  <2>2. state[i] = "approved" /\ approval[i].review = hand[m].review
    BY <1>1, <2>1 DEF IntentInv, HeldApproval, Carrying, Held, Accepted
  <2>3. DecidedReview(i) = hand[m].review
    BY <1>1, <2>2 DEF DecidedReview, IntentInv, ApprovalPinsReview
  <2>4. <<i, hand[m].review, hand[m].outcome>> \in Results
    BY <1>1, <2>1 DEF Results
  <2> QED BY <2>2, <2>3, <2>4
<1> HIDE DEF i
<1>6. Promise!Install(i) \/ Promise!CallForHelp(i) \/ Promise!Fail(i)
  BY <1>1, <1>2, <1>3, <1>4, <1>5
  DEF claimableStates, Promise!Install, Promise!CallForHelp, Promise!Fail, Promise!Open,
      Promise!Becomes, Promise!Undecided, Promise!Losing
<1> QED
  BY <1>1, <1>6

\* Every step of the deployment is one of the promise, or a stutter of it.
LEMMA StepPromised ==
  ASSUME IntentInv, IntentInv', [Next]_vars
  PROVE  [Promise!ApprovalNext]_(Promise!approvalVars)
<1> DEFINE P == [Promise!ApprovalNext]_(Promise!approvalVars)
<1>1. ASSUME NEW i \in Installations, BeginCreate(i) \/ Create(i) \/ Lapse(i)
      PROVE  P
  BY <1>1, AskPromised DEF Promise!ApprovalNext
<1>2. ASSUME NEW i \in Installations, NEW page \in Pages(i),
             NEW decision \in {"approve", "reject"}, Approve(i, page, decision)
      PROVE  P
  BY <1>2, DecisionPromised DEF Promise!ApprovalNext
<1>3. ASSUME NEW i \in Installations, NEW page \in Pages(i),
             Cancel(i, page) \/ BeginRetry(i, page)
      PROVE  P
  BY <1>3, WithdrawalPromised DEF Promise!ApprovalNext
<1>4. ASSUME NEW i \in Installations, Retry(i)
      PROVE  P
  BY <1>4, RetryPromised DEF Promise!ApprovalNext
<1>5. ASSUME NEW i \in Installations, Refuse(i) \/ ReviewExpires(i)
      PROVE  P
  BY <1>5, ClockPromised DEF Promise!ApprovalNext
<1>6. ASSUME NEW m \in Managers,
             \/ Plan(m) \/ PlanFails(m) \/ PublishSame(m) \/ PublishRefused(m)
             \/ ReportRefused(m) \/ Abandon(m) \/ (\E i \in Installations : Claim(m, i))
      PROVE  P
  BY <1>6, AttemptPromised DEF Promise!ApprovalNext
<1>7. ASSUME NEW m \in Managers, PublishNew(m)
      PROVE  P
  <2>1. hand[m].inst \in Installations
    BY <1>7 DEF PublishNew, IntentInv, HandsKnown
  <2> QED BY <1>7, <2>1, OfferPromised DEF Promise!ApprovalNext
<1>8. ASSUME NEW m \in Managers, ReadApproval(m)
      PROVE  P
  BY <1>8, BeginPromised DEF Promise!ApprovalNext
<1>9. ASSUME NEW m \in Managers, Execute(m)
      PROVE  P
  BY <1>9, FinishPromised DEF Promise!ApprovalNext
<1>10. ASSUME NEW m \in Managers, Report(m)
      PROVE  P
  BY <1>10, ReportPromised DEF Promise!ApprovalNext
<1>11. ASSUME UNCHANGED vars PROVE P
  <2>1. UNCHANGED <<state, revision, lease, review, approval, hand>>
    BY <1>11 DEF vars, rows
  <2>2. UNCHANGED Underway /\ UNCHANGED Results
    BY <2>1 DEF Underway, Results, Accepted
  <2>3. UNCHANGED [j \in Installations |-> DecidedReview(j)]
    BY <2>1 DEF DecidedReview
  <2>4. UNCHANGED Promise!approvalVars
    BY <2>1, <2>2, <2>3 DEF Promise!approvalVars
  <2> QED
    BY <2>4
<1> HIDE DEF P
<1>12. ASSUME NEW i \in Installations, Administrator(i) PROVE P
  BY <1>1, <1>2, <1>3, <1>4, <1>12 DEF Administrator
<1>13. ASSUME NEW m \in Managers, Step(m) PROVE P
  BY <1>6, <1>7, <1>8, <1>9, <1>10, <1>13 DEF Step, Publish
<1>14. P
  BY <1>1, <1>5, <1>6, <1>11, <1>12, <1>13 DEF Next
<1> QED
  BY <1>14 DEF P

LEMMA InitPromised == Init => Promise!ApprovalInit
<1> SUFFICES ASSUME Init PROVE Promise!ApprovalInit
  OBVIOUS
<1>1. Underway = {} /\ Results = {}
  BY DEF Init, Idle, Underway, Results
<1>2. [i \in Installations |-> DecidedReview(i)] = [i \in Installations |-> None]
  BY DEF Init, DecidedReview
<1> QED
  BY <1>1, <1>2 DEF Init, Promise!ApprovalInit

\* The deployment keeps its promise to the administrator, however many installations
\* and managers there are and whatever is lost: ready is only what was approved.
THEOREM InstallsWhatWasApproved == Spec => ApprovalPromise
<1>1. IntentInv /\ IntentInv' /\ [Next]_vars => [Promise!ApprovalNext]_(Promise!approvalVars)
  BY StepPromised
<1> QED
  BY <1>1, InitPromised, IntentsHoldInvariant, PTL
  DEF Spec, ApprovalPromise, Promise!ApprovalSpec
=============================================================================
