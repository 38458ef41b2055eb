------------------------ MODULE InstallationApproval ------------------------
(***************************************************************************)
(* What an administrator is promised about the installation of plugins.    *)
(* A plugin is reviewed before it is installed; what is installed is the   *)
(* review the administrator approved while it was valid, carried out by    *)
(* one execution at a time; every decision is about the offer of the       *)
(* moment, and an installation that is ready or withdrawn stays so.        *)
(* Managers, leases, admission, pages and lost calls do not appear:        *)
(* PluginManagerIntents implements this specification.                     *)
(***************************************************************************)
EXTENDS Naturals

CONSTANTS
  Installations,
  None

VARIABLES
  phase,     \* state of an installation
  version,   \* how often it has been moved
  offer,     \* the review on the table: [id, approvable, expired], or None
  decided,   \* the id of the review the administrator has decided on, or None
  underway,  \* <<installation, review>> some manager may still carry out
  results    \* <<installation, review, outcome>> some manager may still report

approvalVars == <<phase, version, offer, decided, underway, results>>

Open == {"requested", "planning", "awaiting_approval", "approved"}

ApprovalInit ==
  /\ phase = [i \in Installations |-> "absent"]
  /\ version = [i \in Installations |-> 0]
  /\ offer = [i \in Installations |-> None]
  /\ decided = [i \in Installations |-> None]
  /\ underway = {} /\ results = {}

Becomes(i, p) ==
  /\ phase' = [phase EXCEPT ![i] = p]
  /\ version' = [version EXCEPT ![i] = @ + 1]

\* An execution may lose its standing at any time, and with it its result.
Losing == underway' \subseteq underway /\ results' \subseteq results

Undecided == UNCHANGED <<offer, decided>> /\ Losing

Ask(i) ==
  /\ phase[i] = "absent"
  /\ phase' = [phase EXCEPT ![i] = "requested"]
  /\ UNCHANGED version /\ Undecided

\* A new review takes the place of the old one, unless that is approved.
Offer(i) ==
  /\ phase[i] \in Open \ {"approved"}
  /\ Becomes(i, "awaiting_approval")
  /\ \E good \in BOOLEAN :
       offer' = [offer EXCEPT ![i] =
         [id |-> version[i] + 1, approvable |-> good, expired |-> FALSE]]
  /\ UNCHANGED decided /\ Losing

OnTheTable(i) == phase[i] = "awaiting_approval" /\ offer[i] # None /\ ~offer[i].expired

Approve(i) ==
  /\ OnTheTable(i) /\ offer[i].approvable
  /\ Becomes(i, "approved")
  /\ decided' = [decided EXCEPT ![i] = offer[i].id]
  /\ UNCHANGED offer /\ Losing

Reject(i) ==
  /\ OnTheTable(i)
  /\ Becomes(i, "cancelled")
  /\ decided' = [decided EXCEPT ![i] = offer[i].id]
  /\ UNCHANGED offer /\ Losing

Expire(i) ==
  /\ offer[i] # None
  /\ offer' = [offer EXCEPT ![i] = [offer[i] EXCEPT !.expired = TRUE]]
  /\ UNCHANGED <<phase, version, decided>> /\ Losing

\* One execution at a time, of the review that was approved, while it is valid.
Begin(i) ==
  /\ phase[i] = "approved"
  /\ offer[i] # None /\ offer[i].id = decided[i] /\ ~offer[i].expired
  /\ underway = {} /\ results = {}
  /\ underway' = {<<i, decided[i]>>}
  /\ UNCHANGED <<phase, version, offer, decided, results>>

Finish ==
  /\ \E e \in underway, o \in {"ready", "manual_intervention"} :
       results' \subseteq results \cup {<<e[1], e[2], o>>}
  /\ underway' \subseteq underway
  /\ UNCHANGED <<phase, version, offer, decided>>

Install(i) ==
  /\ phase[i] = "approved" /\ <<i, decided[i], "ready">> \in results
  /\ Becomes(i, "ready") /\ Undecided

CallForHelp(i) ==
  /\ phase[i] = "approved" /\ <<i, decided[i], "manual_intervention">> \in results
  /\ Becomes(i, "manual_intervention") /\ Undecided

Fail(i) ==
  /\ phase[i] \in Open
  /\ Becomes(i, "failed") /\ Undecided

\* Never an approved one: its execution may be under way.
Withdraw(i) ==
  /\ phase[i] \in {"requested", "awaiting_approval", "failed", "manual_intervention"}
  /\ Becomes(i, "cancelled") /\ Undecided

Retry(i) ==
  /\ phase[i] \in {"failed", "manual_intervention"}
  /\ Becomes(i, "requested")
  /\ offer' = [offer EXCEPT ![i] = None]
  /\ decided' = [decided EXCEPT ![i] = None]
  /\ Losing

Lose == UNCHANGED <<phase, version>> /\ Undecided

ApprovalNext ==
  \/ \E i \in Installations :
       \/ Ask(i) \/ Offer(i) \/ Approve(i) \/ Reject(i) \/ Expire(i) \/ Begin(i)
       \/ Install(i) \/ CallForHelp(i) \/ Fail(i) \/ Withdraw(i) \/ Retry(i)
  \/ Finish \/ Lose

ApprovalSpec == ApprovalInit /\ [][ApprovalNext]_approvalVars
=============================================================================
