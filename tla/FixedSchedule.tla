---------------------------- MODULE FixedSchedule ----------------------------
(***************************************************************************)
(* What the owner of a fixed schedule is promised.  A job stands at one    *)
(* tick at a time.  It goes on to the next tick, at least an interval      *)
(* later, only when its plugin has answered for this one; a tick that was  *)
(* not answered is put off and tried again, within its budget of tries;    *)
(* then, or when the plugin refuses it, the job is paused, and only a      *)
(* decision starts it again.  Replicas, leases, cycles and clocks do not   *)
(* appear: PluginScheduleDispatcher implements this specification.         *)
(***************************************************************************)
EXTENDS Naturals

CONSTANTS
  Jobs, Commands,
  Interval,    \* the least time between two ticks of a job
  Budget       \* how often a tick may be tried

VARIABLES
  plan,       \* of every job: its phase, its tick, and how often it was tried
  sent,       \* <<job, tick>> that some call is still to answer
  answers,    \* <<job, tick, verdict>> not yet recorded
  obeyed      \* the commands carried out

scheduleVars == <<plan, sent, answers, obeyed>>

Verdicts == {"done", "refused", "later"}
Plan == [phase: {"none", "active", "paused", "cancelled"}, tick: Nat, tries: Nat]

ScheduleInit ==
  /\ plan = [j \in Jobs |-> [phase |-> "none", tick |-> 0, tries |-> 0]]
  /\ sent = {} /\ answers = {} /\ obeyed = {}

Active(j) == plan[j].phase = "active"
Stays(j) == plan'[j] = plan[j]

-----------------------------------------------------------------------------
(* What may become of one job without a decision                           *)

Tried(j) ==
  /\ Active(j) /\ plan[j].tries < Budget[j]
  /\ plan'[j] = [plan[j] EXCEPT !.tries = plan[j].tries + 1]

\* The tick is named by its time, so another try is made under another name.
PutOff(j) ==
  /\ Active(j) /\ plan[j].tries \in 1..(Budget[j] - 1)
  /\ plan'[j].tick > plan[j].tick
  /\ plan'[j] = [plan[j] EXCEPT !.tick = plan'[j].tick]

GivenUp(j) ==
  /\ Active(j) /\ plan[j].tries = Budget[j]
  /\ plan'[j] = [plan[j] EXCEPT !.phase = "paused"]

Dropped(j) ==
  /\ Active(j) /\ plan[j].tries > 0
  /\ plan'[j] = [plan[j] EXCEPT !.phase = "paused"]

GoneOn(j) ==
  /\ Active(j) /\ plan[j].tries > 0
  /\ plan'[j].tick >= plan[j].tick + Interval[j]
  /\ plan'[j] = [phase |-> "active", tick |-> plan'[j].tick, tries |-> 0]

-----------------------------------------------------------------------------
(* Decisions                                                               *)

Restarted(j) ==
  /\ plan'[j].phase = "active" /\ plan'[j].tries = 0
  /\ UNCHANGED <<sent, answers>>

Order(j, k) == k \notin obeyed /\ obeyed' = obeyed \cup {k} /\ Restarted(j)

Resume(j) == plan[j].phase \in {"active", "paused"} /\ Restarted(j) /\ UNCHANGED obeyed

Withdraw(j, k) ==
  /\ k \notin obeyed /\ obeyed' = obeyed \cup {k}
  /\ plan'[j] = [phase |-> "cancelled", tick |-> 0, tries |-> 0]
  /\ UNCHANGED <<sent, answers>>

Pause(j) ==
  /\ plan[j].phase \in {"active", "paused"}
  /\ plan'[j] = [plan[j] EXCEPT !.phase = "paused"]
  /\ UNCHANGED <<sent, answers, obeyed>>

-----------------------------------------------------------------------------

\* A replica tries some ticks, and puts off or gives up those whose try was lost.
Cycle ==
  /\ \A j \in Jobs : Stays(j) \/ Tried(j) \/ PutOff(j) \/ GivenUp(j)
  /\ sent' = sent \cup {<<j, plan[j].tick>> : j \in {i \in Jobs : Tried(i)}}
  /\ UNCHANGED <<answers, obeyed>>

\* An answer for the tick the job stands at is recorded.
Settle(j) ==
  /\ \/ <<j, plan[j].tick, "later">> \in answers /\ (PutOff(j) \/ GivenUp(j))
     \/ <<j, plan[j].tick, "refused">> \in answers /\ Dropped(j)
     \/ <<j, plan[j].tick, "done">> \in answers /\ GoneOn(j)
  /\ answers' \subseteq answers
  /\ UNCHANGED <<sent, obeyed>>

Decide(j) ==
  \/ Resume(j) \/ Pause(j)
  \/ \E k \in Commands : Order(j, k) \/ Withdraw(j, k)

\* The plugin answers for what it was sent ...
Answer ==
  /\ \E s \in sent : answers' \in {answers \cup {<<s[1], s[2], v>>} : v \in Verdicts}
  /\ sent' \subseteq sent
  /\ UNCHANGED <<plan, obeyed>>

\* ... and questions and answers may be lost.
Forget ==
  /\ sent' \subseteq sent /\ answers' \subseteq answers
  /\ UNCHANGED <<plan, obeyed>>

ScheduleNext ==
  \/ /\ plan' \in [Jobs -> Plan]
     /\ \/ Cycle
        \/ \E j \in Jobs : /\ Settle(j) \/ Decide(j)
                           /\ \A i \in Jobs \ {j} : Stays(i)
  \/ Answer \/ Forget

ScheduleSpec == ScheduleInit /\ [][ScheduleNext]_scheduleVars
=============================================================================
