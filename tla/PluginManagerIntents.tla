------------------------ MODULE PluginManagerIntents ------------------------
(***************************************************************************)
(* Plugin installations, from the request of an administrator to the       *)
(* result of a plugin manager: the intent rows, reviews, approvals and the *)
(* admission row of DatabasePluginManagerStoreV1, the administrator's      *)
(* routes, and NativePluginManagerV1.runOnce in every manager process.     *)
(*                                                                         *)
(* Time is not counted.  A lease is live until Lapse says it has expired,  *)
(* and a review is valid until ReviewExpires.  A renewal is the absence of *)
(* Lapse: it moves leaseExpiresAt of both rows and nothing else.  Every    *)
(* host that asks whether a lease is over gets the same answer: the clocks *)
(* of the replicas are taken to agree.                                     *)
(*                                                                         *)
(* A member of Managers is one attempt, one execution of runOnce.  The     *)
(* lease token of a claim is named by the attempt that drew it; a manager  *)
(* that restarts goes on as another member, and the calls of the attempt   *)
(* it left behind may still arrive.                                        *)
(***************************************************************************)
EXTENDS Naturals

CONSTANTS
    Installations,  \* installation ids, numbered in the order of creation
    Managers,       \* attempts
    LastRetried,    \* bound: the last revision an intent is retried from
    LastExpiry,     \* bound: the last revision at which a review expires
    None            \* an absent row, lease or holder

ASSUME InstallationsAssumption == Installations \subseteq Nat \ {0}
\* The columns of a review and of an approval that the calls compare.
ReviewRows == [id : Nat, approvable : BOOLEAN, expired : BOOLEAN]

ApprovalRows == [review : Nat, revision : Nat]

ASSUME NoneAssumption ==
    /\ None \notin Installations \cup Managers
    /\ None \notin ReviewRows \cup ApprovalRows
ASSUME BoundsAssumption == {LastRetried, LastExpiry} \subseteq Nat

VARIABLES
    state,      \* per installation: the intent's state, or "absent"
    revision,   \* per installation: the intent's revision
    lease,      \* per installation: [by, live] of leaseTokenHash and leaseExpiresAt
    review,     \* per installation: the stored review, or None
    approval,   \* per installation: the stored approval, or None
    admission,  \* the admission row: [inst, by, live]
    hand,       \* per attempt: where runOnce is and what it has read
    creating,   \* the intent createIntent is about to insert, or None
    retrying    \* the intents retry has read and is about to reset

rows == <<state, revision, lease, review, approval, admission>>
vars == <<rows, hand, creating, retrying>>

claimableStates == {"requested", "planning", "awaiting_approval", "approved"}

activeMutationStates == claimableStates \cup
    {"acquiring", "verified", "staged_disabled", "upgrading",
     "rollback_pending", "uninstalling"}

States == {"absent", "ready", "failed", "manual_intervention", "cancelled"}
              \cup activeMutationStates

Stages == {"idle", "claimed", "planned", "polling", "executing", "reporting"}

Unleased == [by |-> None, live |-> FALSE]

Unadmitted == [inst |-> None, by |-> None, live |-> FALSE]

\* A review a manager has generated and the host has not stored: its
\* generatedAt, and so its digest, is one no other review has.
Generated == 0

Idle == [stage |-> "idle", inst |-> None, revision |-> 0, review |-> None,
         approvable |-> FALSE, outcome |-> None]

Active(i) == state[i] \in activeMutationStates

\* The rows are locked with SELECT ... FOR UPDATE, and a call waits for them.
IntentFree(i) == i \notin retrying
AdmissionFree == creating = None

Init ==
    /\ state = [i \in Installations |-> "absent"]
    /\ revision = [i \in Installations |-> 0]
    /\ lease = [i \in Installations |-> Unleased]
    /\ review = [i \in Installations |-> None]
    /\ approval = [i \in Installations |-> None]
    /\ admission = Unadmitted
    /\ hand = [m \in Managers |-> Idle]
    /\ creating = None
    /\ retrying = {}

-----------------------------------------------------------------------------
(* The administrator.  The routes read the rows once, for the page, and     *)
(* again when the administrator acts on what the page shows.                *)

\* createIntent up to its insert: under the lock of the admission row it
\* finds no active intent.  A repeated idempotency key returns the intent
\* there is and changes nothing.
BeginCreate(i) ==
    /\ AdmissionFree
    /\ state[i] = "absent"
    /\ \A j \in Installations : j < i => state[j] # "absent"
    /\ \A j \in Installations : ~Active(j)
    /\ creating' = i
    /\ UNCHANGED <<rows, hand, retrying>>

\* The insert of createIntent, and the commit that releases the admission row.
Create(i) ==
    /\ creating = i
    /\ creating' = None
    /\ state' = [state EXCEPT ![i] = "requested"]
    /\ UNCHANGED <<revision, lease, review, approval, admission,
                   hand, retrying>>

\* What an administrator's page can show of an intent, now or for some time:
\* its revision and its review.  A page is not read again before it is used.
Pages(i) == [revision : 0..revision[i], review : 0..revision[i]]

\* Faulty variant: the page's revision is not compared.
ApprovableAtAnyRevision(i, page, decision) ==
    /\ approval[i] = None /\ state[i] = "awaiting_approval"
    /\ review[i] # None /\ review[i].id = page.review /\ ~review[i].expired
    /\ decision = "approve" => review[i].approvable

\* approve checks the page's revision and digest against the rows.
Approvable(i, page, decision) ==
    /\ approval[i] = None
    /\ revision[i] = page.revision
    /\ state[i] = "awaiting_approval"
    /\ review[i] # None
    /\ decision = "approve" => review[i].approvable
    /\ review[i].id = page.review
    /\ ~review[i].expired

\* The lease of a manager that holds the intent stays where it is.
Approve(i, page, decision) ==
    /\ IntentFree(i)
    /\ Approvable(i, page, decision)
    /\ approval' = [approval EXCEPT ![i] = page]
    /\ state' = [state EXCEPT ![i] =
           IF decision = "approve" THEN "approved" ELSE "cancelled"]
    /\ revision' = [revision EXCEPT ![i] = @ + 1]
    /\ UNCHANGED <<lease, review, admission, hand, creating, retrying>>

Cancellable(i, page) ==
    /\ revision[i] = page.revision
    /\ state[i] \in {"requested", "awaiting_approval",
                     "failed", "manual_intervention"}
    /\ ~lease[i].live

\* Faulty variant: an approved intent can be cancelled, manager or not.
CancelApproved(i, page) ==
    /\ IntentFree(i)
    /\ revision[i] = page.revision /\ state[i] \in claimableStates
    /\ state' = [state EXCEPT ![i] = "cancelled"]
    /\ revision' = [revision EXCEPT ![i] = @ + 1]
    /\ UNCHANGED <<lease, review, approval, admission, hand, creating, retrying>>

Cancel(i, page) ==
    /\ IntentFree(i)
    /\ Cancellable(i, page)
    /\ state' = [state EXCEPT ![i] = "cancelled"]
    /\ revision' = [revision EXCEPT ![i] = @ + 1]
    /\ lease' = [lease EXCEPT ![i] = Unleased]
    /\ UNCHANGED <<review, approval, admission, hand, creating, retrying>>

\* retry up to its writes: it holds the intent's row, not the admission row.
BeginRetry(i, page) ==
    /\ revision[i] <= LastRetried
    /\ IntentFree(i)
    /\ revision[i] = page.revision
    /\ state[i] \in {"failed", "manual_intervention"}
    /\ ~lease[i].live
    /\ \A j \in Installations : Active(j) => j = i
    /\ retrying' = retrying \cup {i}
    /\ UNCHANGED <<rows, hand, creating>>

\* The writes of retry and its commit.
Retry(i) ==
    /\ i \in retrying
    /\ retrying' = retrying \ {i}
    /\ state' = [state EXCEPT ![i] = "requested"]
    /\ revision' = [revision EXCEPT ![i] = @ + 1]
    /\ lease' = [lease EXCEPT ![i] = Unleased]
    /\ review' = [review EXCEPT ![i] = None]
    /\ approval' = [approval EXCEPT ![i] = None]
    /\ UNCHANGED <<admission, hand, creating>>

-----------------------------------------------------------------------------
(* A manager.  A call the host refuses makes runOnce throw, and the attempt *)
(* ends where it is: its lease stays until it lapses.                       *)

\* Faulty variants: the lease is not compared; nothing is.
AcceptedAtRevision(m) == revision[hand[m].inst] = hand[m].revision

AcceptedAlways(m) == TRUE

\* assertLease and the comparison of expectedRevision.
Accepted(m) ==
    LET i == hand[m].inst
    IN  /\ lease[i] = [by |-> m, live |-> TRUE]
        /\ revision[i] = hand[m].revision

Goes(m, h) == hand' = [hand EXCEPT ![m] = h]

Ends(m) == Goes(m, Idle)

Reports(m, outcome) ==
    Goes(m, [hand[m] EXCEPT !.stage = "reporting", !.outcome = outcome])

Eligible(i) == state[i] \in claimableStates /\ ~lease[i].live

\* Faulty variant: the admission row is not asked.
OfferedUnadmitted(i) ==
    AdmissionFree /\ IntentFree(i) /\ Eligible(i)

\* claim serves its candidates one transaction each, while nobody holds the
\* admission row, and asks again whether they are eligible.  It lists them in
\* the order of creation but before its transactions: an older intent that came
\* to be eligible since, or was held when its turn came, is passed over.
Offered(i) ==
    /\ AdmissionFree
    /\ IntentFree(i)
    /\ ~admission.live
    /\ Eligible(i)

Claim(m, i) ==
    /\ hand[m] = Idle
    /\ Offered(i)
    /\ lease' = [lease EXCEPT ![i] = [by |-> m, live |-> TRUE]]
    /\ admission' = [inst |-> i, by |-> m, live |-> TRUE]
    /\ Goes(m, [stage |-> "claimed", inst |-> i, revision |-> revision[i],
                review |-> IF review[i] = None THEN None ELSE review[i].id,
                approvable |-> review[i] # None /\ review[i].approvable,
                outcome |-> None])
    /\ UNCHANGED <<state, revision, review, approval, creating, retrying>>

\* The platform's revision has moved since the request, or the manager cannot
\* do what the intent asks: both are decided by rows outside this module.
Refuse(i) ==
    /\ Offered(i)
    /\ state' = [state EXCEPT ![i] = "failed"]
    /\ revision' = [revision EXCEPT ![i] = @ + 1]
    /\ lease' = [lease EXCEPT ![i] = Unleased]
    /\ UNCHANGED <<review, approval, admission, hand, creating, retrying>>

\* The review that came with the claim is used again if it has not expired;
\* otherwise the manager generates one.
Reusable(m) ==
    LET stored == review[hand[m].inst]
    IN  /\ hand[m].review # None
        /\ stored # None /\ stored.id = hand[m].review => ~stored.expired

Plan(m) ==
    /\ hand[m].stage = "claimed"
    /\ \/ /\ Reusable(m)
          /\ Goes(m, [hand[m] EXCEPT !.stage = "planned"])
       \/ /\ ~Reusable(m)
          /\ \E approvable \in BOOLEAN :
                Goes(m, [hand[m] EXCEPT !.stage = "planned",
                                        !.review = Generated,
                                        !.approvable = approvable])
    /\ UNCHANGED <<rows, creating, retrying>>

\* Faulty variant: the status of the run is published as the state.
PlanFailsBlocked(m) ==
    /\ hand[m].stage = "claimed"
    /\ Reports(m, "blocked")
    /\ UNCHANGED <<rows, creating, retrying>>

\* The release cannot be resolved, is another plugin's, or has no plan.
PlanFails(m) ==
    /\ hand[m].stage = "claimed"
    /\ Reports(m, "failed")
    /\ UNCHANGED <<rows, creating, retrying>>

\* Where runOnce goes with a review that was published as id.
Reviewed(m, id, retained) ==
    IF ~hand[m].approvable THEN
        Goes(m, [hand[m] EXCEPT !.stage = "reporting", !.outcome = "failed",
                                !.review = id,
                                !.revision = revision'[hand[m].inst]])
    ELSE IF retained THEN
        Goes(m, [hand[m] EXCEPT !.stage = "polling", !.review = id])
    ELSE Ends(m)

\* releaseAdmission: the transaction fails unless the row is this intent's.
Releases(i) ==
    /\ AdmissionFree
    /\ admission.inst = i
    /\ admission' = Unadmitted

SameReview(m) ==
    LET stored == review[hand[m].inst]
    IN  stored # None /\ stored.id = hand[m].review

\* Faulty variant: an approved intent gives its lease back as well.
PublishSameReleasing(m) ==
    LET i == hand[m].inst
    IN  /\ hand[m].stage = "planned"
        /\ IntentFree(i) /\ Accepted(m) /\ SameReview(m)
        /\ lease' = [lease EXCEPT ![i] = Unleased]
        /\ Releases(i)
        /\ UNCHANGED <<state, revision, review, approval, creating, retrying>>
        /\ Reviewed(m, hand[m].review, FALSE)

\* publishReview with the review that is stored: an intent that waits for its
\* approval gives the lease back, an approved one keeps it.
PublishSame(m) ==
    LET i == hand[m].inst
    IN  /\ hand[m].stage = "planned"
        /\ IntentFree(i) /\ Accepted(m) /\ SameReview(m)
        /\ IF state[i] = "awaiting_approval"
           THEN /\ lease' = [lease EXCEPT ![i] = Unleased]
                /\ Releases(i)
           ELSE UNCHANGED <<lease, admission>>
        /\ UNCHANGED <<state, revision, review, approval, creating, retrying>>
        /\ Reviewed(m, hand[m].review, state[i] # "awaiting_approval")

\* publishReview with a new one, which an approval of another forbids.
PublishNew(m) ==
    LET i == hand[m].inst
    IN  /\ hand[m].stage = "planned"
        /\ IntentFree(i) /\ Accepted(m) /\ ~SameReview(m)
        /\ review[i] # None => approval[i] = None
        /\ revision' = [revision EXCEPT ![i] = @ + 1]
        /\ state' = [state EXCEPT ![i] = "awaiting_approval"]
        /\ review' = [review EXCEPT ![i] =
               [id |-> revision[i] + 1, approvable |-> hand[m].approvable,
                expired |-> FALSE]]
        /\ IF hand[m].approvable
           THEN /\ lease' = [lease EXCEPT ![i] = Unleased]
                /\ Releases(i)
           ELSE UNCHANGED <<lease, admission>>
        /\ UNCHANGED <<approval, creating, retrying>>
        /\ Reviewed(m, revision[i] + 1, ~hand[m].approvable)

\* lease_invalid, revision_conflict or approval_conflict.
PublishRefused(m) ==
    LET i == hand[m].inst
    IN  /\ hand[m].stage = "planned"
        /\ IntentFree(i)
        /\ \/ ~Accepted(m)
           \/ ~SameReview(m) /\ review[i] # None /\ approval[i] # None
        /\ Ends(m)
        /\ UNCHANGED <<rows, creating, retrying>>

\* readApproval finds the approval of exactly this review, if there is one, and
\* reads the intent beside it, under no lock: the revision it returns may have
\* moved on by the time the approval is read.  (An approval that retry deletes
\* between the two reads is not found here; runOnce would report it as failed, at
\* a revision the host refuses.)  The approval found is never a rejection: the
\* attempt polls after an approved intent kept its lease, and the digest of a
\* review that was rejected is never published again.
\* approvalPollLimit is 1: with no approval the attempt ends, lease and all.
ReadApproval(m) ==
    LET i == hand[m].inst
        found == approval[i] # None /\ approval[i].review = hand[m].review
        valid(seen) == /\ approval[i].revision + 1 = seen
                       /\ review[i] # None => ~review[i].expired
    IN  /\ hand[m].stage = "polling"
        /\ \/ ~found /\ Ends(m)
           \/ /\ found
              /\ \E seen \in hand[m].revision..revision[i] :
                    \/ ~valid(seen) /\ Reports(m, "failed")
                    \/ /\ valid(seen)
                       /\ Goes(m, [hand[m] EXCEPT !.stage = "executing",
                                                  !.revision = seen])
        /\ UNCHANGED <<rows, creating, retrying>>

\* lifecycle.execute returns, or throws, or a renewal has failed meanwhile.
Execute(m) ==
    /\ hand[m].stage = "executing"
    /\ \E outcome \in {"ready", "failed", "manual_intervention"} :
           Reports(m, outcome)
    /\ UNCHANGED <<rows, creating, retrying>>

\* publishObservation: the result becomes the state of the intent.
Report(m) ==
    LET i == hand[m].inst
    IN  /\ hand[m].stage = "reporting"
        /\ IntentFree(i) /\ Accepted(m)
        /\ state' = [state EXCEPT ![i] = hand[m].outcome]
        /\ revision' = [revision EXCEPT ![i] = @ + 1]
        /\ lease' = [lease EXCEPT ![i] = Unleased]
        /\ Releases(i)
        /\ Ends(m)
        /\ UNCHANGED <<review, approval, creating, retrying>>

ReportRefused(m) ==
    /\ hand[m].stage = "reporting"
    /\ IntentFree(hand[m].inst) /\ ~Accepted(m)
    /\ Ends(m)
    /\ UNCHANGED <<rows, creating, retrying>>

\* The process dies, or a call to the host fails on the way.
Abandon(m) ==
    /\ hand[m] # Idle
    /\ Ends(m)
    /\ UNCHANGED <<rows, creating, retrying>>

-----------------------------------------------------------------------------
(* The clock.                                                               *)

\* Faulty variant: the admission row has no expiry of its own.
LapseIntentOnly(i) ==
    /\ lease[i].live
    /\ lease' = [lease EXCEPT ![i] = [by |-> lease[i].by, live |-> FALSE]]
    /\ UNCHANGED <<state, revision, review, approval, admission,
                   hand, creating, retrying>>

\* claim and renew give the intent and the admission row the same expiry.
Lapse(i) ==
    /\ lease[i].live
    /\ lease' = [lease EXCEPT ![i] = [by |-> lease[i].by, live |-> FALSE]]
    /\ admission' = IF admission.inst = i
                    THEN [admission EXCEPT !.live = FALSE] ELSE admission
    /\ UNCHANGED <<state, revision, review, approval, hand, creating, retrying>>

\* A review, and the approval that copies its expiry, is good for 15 minutes.
ReviewExpires(i) ==
    /\ revision[i] <= LastExpiry
    /\ review[i] # None /\ ~review[i].expired
    /\ review' = [review EXCEPT ![i] = [review[i] EXCEPT !.expired = TRUE]]
    /\ UNCHANGED <<state, revision, lease, approval, admission,
                   hand, creating, retrying>>

Administrator(i) ==
    \/ BeginCreate(i) \/ Create(i) \/ Retry(i)
    \/ \E page \in Pages(i) :
          \/ \E decision \in {"approve", "reject"} : Approve(i, page, decision)
          \/ Cancel(i, page) \/ BeginRetry(i, page)

Publish(m) == PublishSame(m) \/ PublishNew(m) \/ PublishRefused(m)

\* What an attempt does next once it has claimed an intent.
Step(m) ==
    \/ Plan(m) \/ PlanFails(m) \/ Publish(m) \/ ReadApproval(m)
    \/ Execute(m) \/ Report(m) \/ ReportRefused(m)

Next ==
    \/ \E i \in Installations :
          Administrator(i) \/ Refuse(i) \/ Lapse(i) \/ ReviewExpires(i)
    \/ \E m \in Managers :
          Step(m) \/ Abandon(m) \/ \E i \in Installations : Claim(m, i)

Spec == Init /\ [][Next]_vars

(* What the scheduling of the code guarantees.  A transaction that has taken *)
(* its locks commits.  Leases expire.  A manager polls every five seconds,   *)
(* and its process is started again, so it is not always out of luck: of the *)
(* calls it makes again and again, not every one is cut off by a crash or    *)
(* comes after a lease of thirty seconds that is renewed every ten.  The     *)
(* administrator and the expiry of reviews promise nothing.                  *)
InTime(m, A) == A /\ Accepted(m)

Fairness ==
    /\ \A i \in Installations :
          WF_vars(Create(i)) /\ WF_vars(Retry(i)) /\ WF_vars(Lapse(i))
    /\ \A m \in Managers :
          /\ WF_vars(Step(m))
          /\ SF_vars(\E i \in Installations : Claim(m, i))
          /\ SF_vars(InTime(m, Plan(m)))
          /\ SF_vars(InTime(m, Publish(m)))
          /\ SF_vars(InTime(m, ReadApproval(m)))
          /\ SF_vars(InTime(m, Execute(m)))
          /\ SF_vars(Report(m))

FairSpec == Spec /\ Fairness

-----------------------------------------------------------------------------
(* Properties.                                                              *)

Hand == [stage : Stages, inst : Installations \cup {None}, revision : Nat,
         review : Nat \cup {None}, approvable : BOOLEAN,
         outcome : States \cup {None}]

\* The columns of the rows and the variables of runOnce have their types.
TypeOK ==
    /\ state \in [Installations -> States]
    /\ revision \in [Installations -> Nat]
    /\ lease \in [Installations -> [by : Managers \cup {None}, live : BOOLEAN]]
    /\ review \in [Installations -> ReviewRows \cup {None}]
    /\ approval \in [Installations -> ApprovalRows \cup {None}]
    /\ admission \in [inst : Installations \cup {None},
                      by : Managers \cup {None}, live : BOOLEAN]
    /\ hand \in [Managers -> Hand]
    /\ creating \in Installations \cup {None}
    /\ retrying \subseteq Installations

\* The two rows a claim writes agree for as long as the lease lasts: nobody
\* ever holds a live lease on an intent without holding the deployment, so no
\* two attempts hold leases at once, on one intent or on two.
LeaseHoldsDeployment ==
    \A i \in Installations :
        /\ lease[i].live => admission = [inst |-> i, by |-> lease[i].by, live |-> TRUE]
        /\ admission.live /\ admission.inst = i => lease[i].live

\* An approved intent, and one that was installed or handed over, has the
\* approval of the review it stores; an approved one had it given at the revision
\* before its own: no call of a manager, the administrator or a second page
\* replaces the review or moves the revision under an approval.
ApprovalPinsReview ==
    \A i \in Installations :
        /\ state[i] \in {"approved", "ready", "manual_intervention"} =>
               /\ approval[i] # None /\ review[i] # None
               /\ approval[i].review = review[i].id
               /\ review[i].approvable
        /\ state[i] = "approved" => approval[i].revision + 1 = revision[i]

\* An attempt that executes and still holds its lease executes the review the
\* administrator approved, and nothing it read before has changed since.
HeldExecutionIsApproved ==
    \A m \in Managers :
        hand[m].stage = "executing" /\ lease[hand[m].inst] = [by |-> m, live |-> TRUE] =>
            /\ state[hand[m].inst] = "approved"
            /\ approval[hand[m].inst].review = hand[m].review
            /\ revision[hand[m].inst] = hand[m].revision

HolderOrClock(m, i) ==
    lease[i] = [by |-> m, live |-> TRUE] =>
        \/ lease'[i] = lease[i]
        \/ lease'[i] = [by |-> m, live |-> FALSE]
        \/ hand[m].inst = i /\ hand'[m] # hand[m]

\* A live lease ends by a step of its holder or by the clock, never by a late
\* call of another attempt or by the administrator.
LeaseEndsByHolderOrClock ==
    [][\A m \in Managers, i \in Installations : HolderOrClock(m, i)]_vars

Settles(i) ==
    /\ state[i] \in {"ready", "cancelled"} => state'[i] = state[i]
    /\ state[i] # "ready" /\ state'[i] = "ready" => state[i] = "approved"

\* An installed plugin was approved and a finished one stays finished: a late
\* result of an attempt that lost its lease never overwrites the state.
ResultsAreFinal == [][\A i \in Installations : Settles(i)]_vars

\* The executions and the results that the host would still take from an attempt.
Underway ==
    {<<hand[m].inst, hand[m].review>> :
        m \in {n \in Managers : hand[n].stage = "executing" /\ Accepted(n)}}

Results ==
    {<<hand[m].inst, hand[m].review, hand[m].outcome>> :
        m \in {n \in Managers : /\ hand[n].stage = "reporting"
                                /\ hand[n].outcome # "failed"
                                /\ Accepted(n)}}

DecidedReview(i) == IF approval[i] = None THEN None ELSE approval[i].review

Promise ==
    INSTANCE InstallationApproval
        WITH phase <- state, version <- revision, offer <- review,
             decided <- [i \in Installations |-> DecidedReview(i)],
             underway <- Underway, results <- Results

\* Whatever managers crash, leases lapse, pages are stale and calls arrive late,
\* what becomes ready is the review that was approved while it was valid, carried
\* out by one execution at a time, and decisions are about the review of the moment.
ApprovalPromise == Promise!ApprovalSpec

\* A request gets an answer: a manager that keeps crashing, losing its lease
\* or refusing never leaves it in its first state, unless a second intent
\* came to stand before it.
RequestsAreAnswered ==
    \A i \in Installations :
        state[i] = "requested" ~>
            state[i] # "requested" \/ \E j \in Installations : j # i /\ Active(j)

\* An approved installation is carried out, or fails, while its review is
\* valid: crashes and lost leases in the middle of it only delay the result.
ApprovalsAreCarriedOut ==
    \A i \in Installations :
        state[i] = "approved" ~>
            \/ state[i] # "approved"
            \/ review[i] # None /\ review[i].expired
            \/ \E j \in Installations : j # i /\ Active(j)
=============================================================================
