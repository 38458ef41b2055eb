------------------------- MODULE ConfigBundleTasks -------------------------
(***************************************************************************)
(* What an apply of a configuration bundle leaves to be done, and how it   *)
(* is done: ConfigBundleApplyService.ts from the insert of its run to the  *)
(* result it writes, and the pollers and the start-up drain that work off  *)
(* the two kinds of tasks it queues.  Tasks of kind "runtime" materialize  *)
(* the engine sets and resources the apply changed, tasks of kind "replay" *)
(* go on replaying the stored identities of a provider, page by page,      *)
(* under the changed mappings - when the request asks for it: the mode of  *)
(* identity reconciliation may also be to preview the replay or to skip it.*)
(* All applies are about one provider: the tasks of different providers do *)
(* not touch each other.  A page stands for the identities one call        *)
(* replays.  There is no clock: a lease may lapse and a retry fall due at  *)
(* any time.                                                               *)
(***************************************************************************)
EXTENDS Integers

CONSTANTS
  Applies,    \* the apply runs
  Workers,    \* pollers of the replicas, and drains of a bootstrap
  Pages,      \* how many pages the identities of the provider fill
  Needs,      \* what the bundles may ask for: a set of [Applies -> SUBSET Asks]
  Serves,     \* the runs a worker looks for: a set of [Workers -> SUBSET Applies]
  MaxFaults,  \* bound on deaths, errors and leases that lapse under work
  Null

Kinds == {"runtime", "replay"}

\* identityReconciliationMode of a bundle that changes mappings ("apply", "preview",
\* "none"); a bundle that changes none has no mode.
Modes == {"replay", "preview", "skip"}
Asks  == {"runtime"} \cup Modes

ASSUME SettingAssumption ==
  /\ Pages \in Nat \ {0} /\ MaxFaults \in Nat
  /\ Needs \subseteq [Applies -> SUBSET Asks]
  /\ \A n \in Needs, a \in Applies : \A m, k \in n[a] \cap Modes : m = k
  /\ Serves \subseteq [Workers -> SUBSET Applies]
  /\ Null \notin Applies \cup Workers

VARIABLES
  needs,    \* what each bundle asks for
  serves,   \* the runs each worker looks for
  version,  \* how often the mappings of the provider were changed
  stamp,    \* page -> the version its memberships were last computed with
  made,     \* the runs whose changes were materialized after their commit
  run,      \* the rows of config_bundle_apply_runs
  apply,    \* where the request that applies a bundle stands
  task,     \* the rows of the two task tables
  sync,     \* the synchronisation runs of the replay tasks
  worker,   \* where each worker stands
  faults    \* how many faults occurred

vars == <<needs, serves, version, stamp, made, run, apply, task, sync, worker, faults>>

PageSet == 1..Pages

\* own is the part of the result only the apply writes, by its identity status;
\* runtime is runtimeReconciliation.status.  Both are "none" while resultJson is null.
Own == {"none", "not_needed", "completed", "truncated", "failed", "skipped", "previewed"}
Run == [status: {"none", "pending", "succeeded", "failed"}, own: Own,
        runtime: {"none", "not_needed", "queued", "completed", "failed"}]

\* seen: the version read before a page; failed: an identity of the first page failed,
\* replayed or previewed; lost: the pages after it were not queued, or the preview threw.
Apply == [pc: {"idle", "pending", "committed", "replaying", "paging", "starting",
               "cancelling", "inserting", "previewing", "finishing", "done", "dead"},
          version: Nat, seen: Nat, runtime: {"not_needed", "queued", "failed"},
          failed: BOOLEAN, lost: BOOLEAN]

\* due: nextAttemptAt is null or over; lapsed: leaseExpiresAt is over;
\* cursor: the pages behind it; failed: those of them with an identity that failed.
Task == [status: {"none", "queued", "running", "completed", "cancelled"},
         lease: Workers \cup {Null}, lapsed: BOOLEAN, due: BOOLEAN,
         cursor: 0..Pages, failed: SUBSET PageSet]

NoTask == [status |-> "none", lease |-> Null, lapsed |-> FALSE, due |-> FALSE,
           cursor |-> 0, failed |-> {}]

Active == {"queued", "running"}

Queued(cursor, failed) ==
  [NoTask EXCEPT !.status = "queued", !.due = TRUE, !.cursor = cursor, !.failed = failed]

\* candidates: the rows found, as they were then; on: the run whose task is claimed.
NoCandidates == [a \in Applies |-> Null]
IdleWorker == [pc |-> "idle", kind |-> "replay", candidates |-> NoCandidates, on |-> Null,
               seen |-> 0, failed |-> FALSE, outcome |-> "completed", own |-> "none"]

Init ==
  /\ needs \in Needs /\ serves \in Serves
  /\ version = 0
  /\ stamp = [p \in PageSet |-> 0]
  /\ made = {}
  /\ run = [a \in Applies |-> [status |-> "none", own |-> "none", runtime |-> "none"]]
  /\ apply = [a \in Applies |-> [pc |-> "idle", version |-> 0, seen |-> 0,
                                 runtime |-> "not_needed", failed |-> FALSE, lost |-> FALSE]]
  /\ task = [j \in Applies \X Kinds |-> NoTask]
  /\ sync = [a \in Applies |-> "none"]
  /\ worker = [w \in Workers |-> IdleWorker]
  /\ faults = 0

Fault == faults < MaxFaults /\ faults' = faults + 1

\* One page is replayed: each mapping row is claimed as it was read, so that nothing
\* is written for mappings that changed since.  (The rows of one change are taken
\* together: the code skips those that changed and writes the others.)
Replayed(p, seen) == IF seen = version THEN [stamp EXCEPT ![p] = version] ELSE stamp

-----------------------------------------------------------------------------
(* The request that applies a bundle                                        *)

At(a, pc) == apply[a].pc = pc
Move(a, pc) == apply' = [apply EXCEPT ![a].pc = pc]

Begin(a) ==
  /\ At(a, "idle")
  /\ run' = [run EXCEPT ![a].status = "pending"]
  /\ Move(a, "pending")
  /\ UNCHANGED <<needs, serves, version, stamp, made, task, sync, worker, faults>>

\* The stage after the transaction, and the one after the runtime task was queued.
Replaying(a) ==
  IF "replay" \in needs[a] THEN "replaying"
  ELSE IF "preview" \in needs[a] THEN "previewing" ELSE "finishing"

Committed(a) == IF "runtime" \in needs[a] THEN "committed" ELSE Replaying(a)

\* The transaction with every change of the bundle, the mappings in any mode.
Commit(a) ==
  /\ At(a, "pending")
  /\ version' = IF needs[a] \cap Modes # {} THEN version + 1 ELSE version
  /\ apply' = [apply EXCEPT ![a] = [@ EXCEPT !.pc = Committed(a), !.version = version']]
  /\ UNCHANGED <<needs, serves, stamp, made, run, task, sync, worker, faults>>

\* The transaction, or the last write of the request, fails.
Fail(a) ==
  /\ At(a, "pending") \/ At(a, "finishing")
  /\ Fault
  /\ run' = [run EXCEPT ![a].status = "failed"]
  /\ Move(a, "done")
  /\ UNCHANGED <<needs, serves, version, stamp, made, task, sync, worker>>

\* Faulty variant: the runtime task is queued before the transaction commits.
EnqueueRuntimeEarly(a) ==
  /\ At(a, "pending") /\ "runtime" \in needs[a] /\ task[<<a, "runtime">>] = NoTask
  /\ task' = [task EXCEPT ![<<a, "runtime">>] = Queued(0, {})]
  /\ UNCHANGED <<needs, serves, version, stamp, made, run, apply, sync, worker, faults>>

WithRuntime(a) == [task EXCEPT ![<<a, "runtime">>] = Queued(0, {})]

EnqueueRuntime(a) ==
  /\ At(a, "committed")
  /\ task' = WithRuntime(a)
  /\ apply' = [apply EXCEPT ![a] = [@ EXCEPT !.pc = Replaying(a), !.runtime = "queued"]]
  /\ UNCHANGED <<needs, serves, version, stamp, made, run, sync, worker, faults>>

\* The insert throws; it may have been carried out all the same.
EnqueueRuntimeFails(a) ==
  /\ At(a, "committed")
  /\ Fault
  /\ task' \in {task, WithRuntime(a)}
  /\ apply' = [apply EXCEPT ![a] = [@ EXCEPT !.pc = Replaying(a), !.runtime = "failed"]]
  /\ UNCHANGED <<needs, serves, version, stamp, made, run, sync, worker>>

\* previewMemberships reads one page and writes nothing.
Preview(a) ==
  /\ At(a, "previewing")
  /\ \/ Move(a, "finishing") /\ UNCHANGED faults
     \/ /\ Fault
        /\ \E thrown \in BOOLEAN :
             apply' = [apply EXCEPT ![a] =
                         [@ EXCEPT !.pc = "finishing", !.failed = ~thrown, !.lost = thrown]]
  /\ UNCHANGED <<needs, serves, version, stamp, made, run, task, sync, worker>>

BeginFirstPage(a) ==
  /\ At(a, "replaying")
  /\ apply' = [apply EXCEPT ![a] = [@ EXCEPT !.pc = "paging", !.seen = version]]
  /\ UNCHANGED <<needs, serves, version, stamp, made, run, task, sync, worker, faults>>

\* An identity that fails is counted and passed over.
FirstPage(a) ==
  LET after == IF Pages > 1 THEN "starting" ELSE "finishing" IN
  /\ At(a, "paging")
  /\ \/ /\ stamp' = Replayed(1, apply[a].seen)
        /\ Move(a, after)
        /\ UNCHANGED faults
     \/ /\ Fault
        /\ apply' = [apply EXCEPT ![a] = [@ EXCEPT !.pc = after, !.failed = TRUE]]
        /\ UNCHANGED stamp
  /\ UNCHANGED <<needs, serves, version, made, run, task, sync, worker>>

StartSync(a) ==
  /\ At(a, "starting")
  /\ sync' = [sync EXCEPT ![a] = "running"]
  /\ Move(a, "cancelling")
  /\ UNCHANGED <<needs, serves, version, stamp, made, run, task, worker, faults>>

Cancelled(t) ==
  IF t.status \in Active
  THEN [t EXCEPT !.status = "cancelled", !.lease = Null, !.lapsed = FALSE] ELSE t

\* Every active task of the provider is cancelled, whichever run it belongs to.
WithCancelled ==
  [j \in Applies \X Kinds |-> IF j[2] = "replay" THEN Cancelled(task[j]) ELSE task[j]]

CancelOlder(a) ==
  /\ At(a, "cancelling")
  /\ task' = WithCancelled
  /\ Move(a, "inserting")
  /\ UNCHANGED <<needs, serves, version, stamp, made, run, sync, worker, faults>>

\* Faulty variant: the task is inserted before the others are cancelled, itself included.
InsertAndCancel(a) ==
  /\ At(a, "inserting")
  /\ task' = [j \in Applies \X Kinds |->
                IF j = <<a, "replay">> THEN Cancelled(Queued(1, {})) ELSE task[j]]
  /\ Move(a, "finishing")
  /\ UNCHANGED <<needs, serves, version, stamp, made, run, sync, worker, faults>>

WithReplay(a) ==
  [task EXCEPT ![<<a, "replay">>] = Queued(1, IF apply[a].failed THEN {1} ELSE {})]

InsertReplay(a) ==
  /\ At(a, "inserting")
  /\ task' = WithReplay(a)
  /\ Move(a, "finishing")
  /\ UNCHANGED <<needs, serves, version, stamp, made, run, sync, worker, faults>>

\* The replay of the first page, or a statement of the enqueuing, throws; the statement
\* may have been carried out all the same.
ReplayLost(a) ==
  /\ apply[a].pc \in {"replaying", "paging", "starting", "cancelling", "inserting"}
  /\ Fault
  /\ \/ UNCHANGED <<task, sync>>
     \/ At(a, "starting") /\ sync' = [sync EXCEPT ![a] = "running"] /\ UNCHANGED task
     \/ At(a, "cancelling") /\ task' = WithCancelled /\ UNCHANGED sync
     \/ At(a, "inserting") /\ task' = WithReplay(a) /\ UNCHANGED sync
  /\ apply' = [apply EXCEPT ![a] = [@ EXCEPT !.pc = "finishing", !.lost = TRUE]]
  /\ UNCHANGED <<needs, serves, version, stamp, made, run, worker>>

\* identitySnapshot.status: a preview that was cut short says so before all else.
IdentityStatus(a) ==
  CASE "replay" \in needs[a] ->
         IF apply[a].failed \/ apply[a].lost THEN "failed"
         ELSE IF Pages > 1 THEN "truncated" ELSE "completed"
    [] "preview" \in needs[a] ->
         IF apply[a].lost THEN "failed"
         ELSE IF Pages > 1 THEN "truncated"
         ELSE IF apply[a].failed THEN "failed" ELSE "previewed"
    [] "skip" \in needs[a] -> "skipped"
    [] OTHER -> "not_needed"

\* The result is written whole, whatever a worker put there meanwhile.
Finish(a) ==
  /\ At(a, "finishing")
  /\ run' = [run EXCEPT ![a] = [status |-> "succeeded", own |-> IdentityStatus(a),
                                runtime |-> apply[a].runtime]]
  /\ Move(a, "done")
  /\ UNCHANGED <<needs, serves, version, stamp, made, task, sync, worker, faults>>

\* The process of the request ends; nothing takes the run up again.
Die(a) ==
  /\ apply[a].pc \notin {"idle", "done", "dead"}
  /\ Fault
  /\ Move(a, "dead")
  /\ UNCHANGED <<needs, serves, version, stamp, made, run, task, sync, worker>>

-----------------------------------------------------------------------------
(* runNext and runNextPage                                                  *)

Is(w, pc) == worker[w].pc = pc
Goes(w, pc) == worker' = [worker EXCEPT ![w].pc = pc]
Rests(w) == worker' = [worker EXCEPT ![w] = IdleWorker]
JobOf(w) == <<worker[w].on, worker[w].kind>>
Snapshot(w) == worker[w].candidates[worker[w].on]

\* Faulty variant: the row is updated by its id alone.
Unfenced(w, t) == [task EXCEPT ![JobOf(w)] = t]

\* The update every outcome is recorded with: only under the lease of the claim.
Fenced(w, t) == IF task[JobOf(w)].lease = w THEN [task EXCEPT ![JobOf(w)] = t] ELSE task

\* Faulty variant: a task whose worker died keeps its lease.
NotRequeued(t) == t

Requeued(t) ==
  IF t.status = "running" /\ t.lapsed
  THEN [t EXCEPT !.status = "queued", !.lease = Null, !.lapsed = FALSE] ELSE t

Requeue(w, k) ==
  /\ Is(w, "idle")
  /\ task' = [j \in Applies \X Kinds |->
                IF j[1] \in serves[w] /\ j[2] = k THEN Requeued(task[j]) ELSE task[j]]
  /\ worker' = [worker EXCEPT ![w] = [@ EXCEPT !.pc = "looking", !.kind = k]]
  /\ UNCHANGED <<needs, serves, version, stamp, made, run, apply, sync, faults>>

Find(w) ==
  LET ready == {a \in serves[w] : LET t == task[<<a, worker[w].kind>>]
                                  IN t.status = "queued" /\ t.due}
  IN
  /\ Is(w, "looking")
  /\ IF ready = {} THEN Rests(w)
     ELSE worker' = [worker EXCEPT ![w] = [@ EXCEPT !.pc = "claiming", !.candidates =
            [a \in Applies |-> IF a \in ready THEN task[<<a, worker[w].kind>>] ELSE Null]]]
  /\ UNCHANGED <<needs, serves, version, stamp, made, run, apply, task, sync, faults>>

\* The row is still queued; what it holds beyond that may have changed since.
Claim(w, a) ==
  LET j == <<a, worker[w].kind>> IN
  /\ Is(w, "claiming") /\ worker[w].candidates[a] # Null
  /\ task[j].status = "queued"
  /\ task' = [task EXCEPT ![j] = [@ EXCEPT !.status = "running", !.lease = w, !.lapsed = FALSE]]
  /\ worker' = [worker EXCEPT ![w] = [@ EXCEPT !.pc = "claimed", !.on = a,
                  !.candidates = [NoCandidates EXCEPT ![a] = worker[w].candidates[a]]]]
  /\ UNCHANGED <<needs, serves, version, stamp, made, run, apply, sync, faults>>

PassOver(w, a) ==
  LET others == [worker[w].candidates EXCEPT ![a] = Null] IN
  /\ Is(w, "claiming") /\ worker[w].candidates[a] # Null
  /\ task[<<a, worker[w].kind>>].status # "queued"
  /\ IF others = NoCandidates THEN Rests(w)
     ELSE worker' = [worker EXCEPT ![w].candidates = others]
  /\ UNCHANGED <<needs, serves, version, stamp, made, run, apply, task, sync, faults>>

BeginPage(w) ==
  /\ Is(w, "claimed") /\ worker[w].kind = "replay"
  /\ worker' = [worker EXCEPT ![w] = [@ EXCEPT !.pc = "paging", !.seen = version]]
  /\ UNCHANGED <<needs, serves, version, stamp, made, run, apply, task, sync, faults>>

ReplayPage(w) ==
  /\ Is(w, "paging")
  /\ \/ /\ stamp' = Replayed(Snapshot(w).cursor + 1, worker[w].seen)
        /\ worker' = [worker EXCEPT ![w] = [@ EXCEPT !.pc = "recording", !.seen = 0]]
        /\ UNCHANGED faults
     \/ /\ Fault
        /\ worker' = [worker EXCEPT ![w] = [@ EXCEPT !.pc = "recording", !.seen = 0, !.failed = TRUE]]
        /\ UNCHANGED stamp
  /\ UNCHANGED <<needs, serves, version, made, run, apply, task, sync>>

\* The engine sets and resources of the run are computed from what is committed now.
Materialize(w) ==
  /\ Is(w, "claimed") /\ worker[w].kind = "runtime"
  /\ made' = IF apply[worker[w].on].pc = "pending" THEN made ELSE made \cup {worker[w].on}
  /\ Goes(w, "recording")
  /\ UNCHANGED <<needs, serves, version, stamp, run, apply, task, sync, faults>>

\* The work throws, or the record, the synchronisation run or the receipt of its
\* success does.
WorkFails(w) ==
  /\ \/ worker[w].pc \in {"claimed", "paging", "recording"}
     \/ /\ worker[w].pc \in {"closing", "reading", "writing"}
        /\ worker[w].outcome = "completed"
  /\ Fault
  /\ worker' = [worker EXCEPT ![w] = [@ EXCEPT !.pc = "failing", !.seen = 0, !.outcome = "failed"]]
  /\ UNCHANGED <<needs, serves, version, stamp, made, run, apply, task, sync>>

\* Faulty variant: the task goes on after the last page.
AfterLastPage(w) ==
  [Snapshot(w) EXCEPT !.status = IF Snapshot(w).cursor >= Pages
                                 THEN "completed" ELSE "queued",
                      !.cursor = @ + 1, !.due = TRUE]

\* Faulty variant: the cursor moves on from where the row is now.
AfterPageOfRow(w) ==
  LET now == task[JobOf(w)]
      page == now.cursor + 1
  IN [now EXCEPT !.status = IF page >= Pages THEN "completed" ELSE "queued",
                 !.lease = Null, !.lapsed = FALSE, !.due = TRUE,
                 !.cursor = IF page > Pages THEN Pages ELSE page]

\* The task after its page: the cursor and the counts follow from the row as found.
AfterPage(w) ==
  LET found == Snapshot(w)
      page == found.cursor + 1
  IN [found EXCEPT !.status = IF page = Pages THEN "completed" ELSE "queued",
                   !.cursor = page, !.due = TRUE,
                   !.failed = IF worker[w].failed THEN found.failed \cup {page}
                             ELSE found.failed]

RecordPage(w) ==
  /\ Is(w, "recording") /\ worker[w].kind = "replay"
  /\ task' = Fenced(w, AfterPage(w))
  /\ IF AfterPage(w).status = "completed" THEN Goes(w, "closing") ELSE Rests(w)
  /\ UNCHANGED <<needs, serves, version, stamp, made, run, apply, sync, faults>>

RecordMaterialized(w) ==
  /\ Is(w, "recording") /\ worker[w].kind = "runtime"
  /\ task' = Fenced(w, [Snapshot(w) EXCEPT !.status = "completed"])
  /\ Goes(w, "reading")
  /\ UNCHANGED <<needs, serves, version, stamp, made, run, apply, sync, faults>>

RecordFailure(w) ==
  /\ Is(w, "failing")
  /\ task' = Fenced(w, [task[JobOf(w)] EXCEPT !.status = "queued", !.lease = Null,
                                             !.lapsed = FALSE, !.due = FALSE])
  /\ Goes(w, IF worker[w].kind = "replay" THEN "closing" ELSE "reading")
  /\ UNCHANGED <<needs, serves, version, stamp, made, run, apply, sync, faults>>

\* completeRun and failRun, by the id of the synchronisation run alone.
CloseSync(w) ==
  /\ Is(w, "closing")
  /\ sync' = [sync EXCEPT ![worker[w].on] = worker[w].outcome]
  /\ Rests(w)
  /\ UNCHANGED <<needs, serves, version, stamp, made, run, apply, task, faults>>

\* updateApplyRunReceipt: the result is read, and written back with one part replaced.
ReadReceipt(w) ==
  /\ Is(w, "reading")
  /\ worker' = [worker EXCEPT ![w] = [@ EXCEPT !.pc = "writing", !.own = run[worker[w].on].own]]
  /\ UNCHANGED <<needs, serves, version, stamp, made, run, apply, task, sync, faults>>

WriteReceipt(w) ==
  /\ Is(w, "writing")
  /\ run' = [run EXCEPT ![worker[w].on] = [@ EXCEPT !.own = worker[w].own,
                                                   !.runtime = worker[w].outcome]]
  /\ Rests(w)
  /\ UNCHANGED <<needs, serves, version, stamp, made, apply, task, sync, faults>>

\* The process of the worker ends and another takes its place, or what it does about an
\* error throws as well.
Crash(w) ==
  /\ ~Is(w, "idle")
  /\ Fault
  /\ Rests(w)
  /\ UNCHANGED <<needs, serves, version, stamp, made, run, apply, task, sync>>

-----------------------------------------------------------------------------
(* Time                                                                     *)

WorkedOn(j) == \E w \in Workers : /\ worker[w].on # Null /\ JobOf(w) = j
                                  /\ task[j].lease = w

\* A lease ends; under a worker that is still busy only as often as faults allow.
LeaseLapses(j) ==
  /\ task[j].status = "running" /\ ~task[j].lapsed
  /\ IF WorkedOn(j) THEN Fault ELSE UNCHANGED faults
  /\ task' = [task EXCEPT ![j].lapsed = TRUE]
  /\ UNCHANGED <<needs, serves, version, stamp, made, run, apply, sync, worker>>

RetryDue(j) ==
  /\ task[j].status = "queued" /\ ~task[j].due
  /\ task' = [task EXCEPT ![j].due = TRUE]
  /\ UNCHANGED <<needs, serves, version, stamp, made, run, apply, sync, worker, faults>>

Applying(a) ==
  \/ Begin(a) \/ Commit(a) \/ Fail(a) \/ EnqueueRuntime(a) \/ EnqueueRuntimeFails(a)
  \/ BeginFirstPage(a) \/ FirstPage(a) \/ StartSync(a) \/ CancelOlder(a) \/ InsertReplay(a)
  \/ ReplayLost(a) \/ Preview(a) \/ Finish(a) \/ Die(a)

\* What a worker does once it is looking, apart from its end.
Working(w) ==
  \/ Find(w) \/ BeginPage(w) \/ ReplayPage(w) \/ Materialize(w) \/ WorkFails(w)
  \/ RecordPage(w) \/ RecordMaterialized(w) \/ RecordFailure(w) \/ CloseSync(w)
  \/ ReadReceipt(w) \/ WriteReceipt(w)
  \/ \E a \in Applies : Claim(w, a) \/ PassOver(w, a)

Next ==
  \/ \E a \in Applies : Applying(a)
  \/ \E w \in Workers : (\E k \in Kinds : Requeue(w, k)) \/ Working(w) \/ Crash(w)
  \/ \E j \in Applies \X Kinds : LeaseLapses(j) \/ RetryDue(j)

Spec == Init /\ [][Next]_vars

\* Every poller fires again and again, on both tables; what it began it goes on with.
\* Nothing is assumed of the requests.
FairSpec ==
  /\ Spec
  /\ \A w \in Workers : WF_vars(Working(w)) /\ \A k \in Kinds : SF_vars(Requeue(w, k))
  /\ \A j \in Applies \X Kinds : WF_vars(LeaseLapses(j)) /\ WF_vars(RetryDue(j))

-----------------------------------------------------------------------------
(* Properties                                                               *)

Worker == [pc: {"idle", "looking", "claiming", "claimed", "paging", "recording", "failing",
                "closing", "reading", "writing"},
           kind: Kinds, candidates: [Applies -> Task \cup {Null}],
           on: Applies \cup {Null}, seen: Nat, failed: BOOLEAN,
           outcome: {"completed", "failed"}, own: Own]

\* Every part of the state has its type.
TypeOK ==
  /\ needs \in [Applies -> SUBSET Asks] /\ serves \in [Workers -> SUBSET Applies]
  /\ version \in Nat /\ stamp \in [PageSet -> Nat] /\ made \subseteq Applies
  /\ run \in [Applies -> Run] /\ apply \in [Applies -> Apply]
  /\ task \in [Applies \X Kinds -> Task]
  /\ sync \in [Applies -> {"none", "running", "completed", "failed"}]
  /\ worker \in [Workers -> Worker]
  /\ faults \in 0..MaxFaults

\* A task that was completed or cancelled is never taken up again, whatever workers
\* that found or claimed it earlier still write.
SettledStays ==
  [][\A j \in Applies \X Kinds :
       task[j].status \in {"completed", "cancelled"} =>
         task'[j].status = task[j].status]_vars

\* The pages behind the cursor of a task were replayed under the mappings of its run or
\* later ones, or are counted as failed; unless a later run replays them anew.
CursorCovers ==
  \A a \in Applies :
    LET t == task[<<a, "replay">>] IN
    t.status # "none" /\ version = apply[a].version =>
      \A p \in 1..t.cursor : stamp[p] = version \/ p \in t.failed

\* A runtime task is completed only when its run was materialized after its commit.
CompletedIsMade ==
  \A a \in Applies : task[<<a, "runtime">>].status = "completed" => a \in made

Quiet ==
  /\ \A w \in Workers : worker[w].pc = "idle"
  /\ \A a \in Applies : apply[a].pc \in {"idle", "done", "dead"}
  /\ \A j \in Applies \X Kinds : task[j].status \notin Active

\* A request for a replay that died after its commit, or reported its enqueuing as failed.
Lost(a) ==
  /\ "replay" \in needs[a]
  /\ apply[a].lost \/ (apply[a].pc = "dead" /\ apply[a].version > 0)

CountedFailed(p) ==
  \E a \in Applies : \/ p \in task[<<a, "replay">>].failed
                     \/ p = 1 /\ "replay" \in needs[a] /\ apply[a].failed

\* The newest change of the mappings is to be replayed: its bundle was not applied with
\* a preview in place of the replay, or with none, which leave memberships as they are.
ReplayAsked ==
  version = 0 \/ \E a \in Applies : "replay" \in needs[a] /\ apply[a].version = version

\* When nothing is left to do, every identity has the memberships of the mappings as
\* they are, though applies overlapped and cancelled each other's tasks, provided the
\* newest change asked for its replay.
QuietIsReplayed ==
  Quiet /\ ReplayAsked /\ (\A a \in Applies : ~Lost(a)) =>
    \A p \in PageSet : stamp[p] = version \/ CountedFailed(p)

\* Every task is completed or cancelled in the end.
TasksSettle ==
  \A a \in Applies, k \in Kinds :
    task[<<a, k>>].status \in Active ~> task[<<a, k>>].status \in {"completed", "cancelled"}

\* docs/how-to/deploy-authorization-config.md: "A matching completed apply replays its
\* receipt": parseStoredResult finds the part only the apply writes.
ReceiptReplayable == \A a \in Applies : run[a].status = "succeeded" => run[a].own # "none"
=============================================================================
