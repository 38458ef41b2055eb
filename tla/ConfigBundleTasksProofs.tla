----------------------- MODULE ConfigBundleTasksProofs -----------------------
(***************************************************************************)
(* Proofs about ConfigBundleTasks for any number of applies, workers and   *)
(* pages, whatever requests and workers die or fail: settled tasks stay    *)
(* settled, the cursors of replay tasks cover what they claim to cover, a  *)
(* completed runtime task was carried out, and when nothing is left to do, *)
(* and the newest change of the mappings asked for its replay, no identity *)
(* has stale memberships.                                                  *)
(***************************************************************************)
EXTENDS ConfigBundleTasks, TLAPS

-----------------------------------------------------------------------------
(* Rows and records                                                         *)

Jobs == Applies \X Kinds

LEMMA JobFacts ==
  /\ \A j \in Jobs : j[1] \in Applies /\ j[2] \in Kinds /\ j = <<j[1], j[2]>>
  /\ \A a \in Applies, k \in Kinds : <<a, k>> \in Jobs
  BY DEF Jobs

LEMMA NoTaskIsTask == NoTask \in Task
  BY SettingAssumption DEF NoTask, Task

LEMMA QueuedFacts ==
  ASSUME NEW c \in 0..Pages, NEW f \in SUBSET PageSet
  PROVE  LET t == Queued(c, f) IN
         /\ t \in Task /\ t.status = "queued" /\ t.lease = Null /\ t.cursor = c /\ t.failed = f
<1> DEFINE n == NoTask
<1>1. n \in Task /\ n.lease = Null
  BY NoTaskIsTask DEF NoTask
<1>2. Queued(c, f) = [n EXCEPT !.status = "queued", !.due = TRUE, !.cursor = c, !.failed = f]
  BY DEF Queued
<1> HIDE DEF n
<1> QED BY <1>1, <1>2 DEF Task

LEMMA IdleFacts ==
  /\ NoCandidates \in [Applies -> Task \cup {Null}] /\ \A a \in Applies : NoCandidates[a] = Null
  /\ IdleWorker \in Worker /\ IdleWorker.pc = "idle" /\ IdleWorker.candidates = NoCandidates
  /\ IdleWorker.on = Null
  BY DEF NoCandidates, IdleWorker, Worker, Kinds, Own

LEMMA CancelledFacts ==
  ASSUME NEW t \in Task
  PROVE  LET c == Cancelled(t) IN
         /\ c \in Task /\ c.cursor = t.cursor /\ c.failed = t.failed
         /\ \/ t.status \in Active /\ c.status = "cancelled" /\ c.lease = Null
            \/ t.status \notin Active /\ c = t
  BY DEF Cancelled, Task

LEMMA RequeuedFacts ==
  ASSUME NEW t \in Task
  PROVE  LET c == Requeued(t) IN
         /\ c \in Task /\ c.cursor = t.cursor /\ c.failed = t.failed
         /\ \/ t.status = "running" /\ c.status = "queued" /\ c.lease = Null
            \/ c = t
  BY DEF Requeued, Task

\* Only the record of w changes, and it becomes e.
LEMMA WorkerBecomes ==
  ASSUME TypeOK, NEW w \in Workers, NEW e \in Worker, worker' = [worker EXCEPT ![w] = e]
  PROVE  /\ worker' \in [Workers -> Worker] /\ worker'[w] = e
         /\ \A v \in Workers \ {w} : worker'[v] = worker[v]
  BY DEF TypeOK

LEMMA ApplyBecomes ==
  ASSUME TypeOK, NEW a \in Applies, NEW e \in Apply, apply' = [apply EXCEPT ![a] = e]
  PROVE  /\ apply' \in [Applies -> Apply] /\ apply'[a] = e
         /\ \A b \in Applies \ {a} : apply'[b] = apply[b]
  BY DEF TypeOK

LEMMA TaskBecomes ==
  ASSUME TypeOK, NEW j \in Jobs, NEW t \in Task, task' = [task EXCEPT ![j] = t]
  PROVE  /\ task' \in [Applies \X Kinds -> Task] /\ task'[j] = t
         /\ \A i \in Jobs : i # j => task'[i] = task[i]
  BY DEF TypeOK, Jobs

-----------------------------------------------------------------------------
(* The invariant                                                            *)

\* Where a replay task that the run a has not inserted yet cannot be.
BeforeRuntime == {"idle", "pending", "committed"}
BeforeReplay  == BeforeRuntime \cup {"replaying", "paging", "starting", "cancelling", "inserting"}
Paged         == {"starting", "cancelling", "inserting"}

\* The pages behind the cursor of t, for the mappings of the run a.
Covers(a, t) ==
  version = apply[a].version => \A p \in 1..t.cursor : stamp[p] = version \/ p \in t.failed

TaskOK(j) ==
  /\ task[j].status = "running" <=> task[j].lease # Null
  /\ task[j].status \in Active => task[j].cursor < Pages
  /\ j[2] = "replay" /\ task[j].status = "completed" => task[j].cursor = Pages
  /\ j[2] = "replay" /\ task[j].status # "none" => Covers(j[1], task[j])
  /\ j[2] = "runtime" /\ task[j].status = "completed" => j[1] \in made

ApplyOK(a) ==
  /\ apply[a].pc \in BeforeRuntime => task[<<a, "runtime">>].status = "none"
  /\ apply[a].pc \in BeforeReplay => task[<<a, "replay">>].status = "none"
  /\ apply[a].version <= version
  /\ apply[a].pc \in BeforeReplay \ BeforeRuntime => "replay" \in needs[a] /\ apply[a].version > 0
  /\ apply[a].pc = "committed" /\ "replay" \in needs[a] => apply[a].version > 0
  /\ apply[a].pc = "previewing" => "replay" \notin needs[a]
  /\ apply[a].pc = "paging" => apply[a].seen \in apply[a].version..version
  /\ apply[a].pc \in Paged => /\ Pages > 1
                              /\ apply[a].version = version => stamp[1] = version \/ apply[a].failed

Resting == {"idle", "looking"}
Holding == {"claimed", "paging", "recording"}

\* A row as a worker found it.
FoundOK(w, a) ==
  LET t == worker[w].candidates[a] IN
  t # Null =>
    /\ t.status = "queued" /\ t.lease = Null /\ t.cursor < Pages
    /\ task[<<a, worker[w].kind>>].status # "none"
    /\ worker[w].kind = "replay" => Covers(a, t)

WorkerOK(w) ==
  /\ \A a \in Applies : FoundOK(w, a)
  /\ worker[w].pc \in Resting => worker[w].candidates = NoCandidates
  /\ worker[w].pc \in Resting \cup {"claiming"} => worker[w].on = Null
  /\ worker[w].pc \notin Resting \cup {"claiming"} =>
       /\ worker[w].on \in Applies
       /\ task[JobOf(w)].status # "none"
  /\ worker[w].pc \in Holding => Snapshot(w) # Null
  /\ worker[w].pc = "paging" => /\ worker[w].kind = "replay"
                                /\ worker[w].seen \in apply[worker[w].on].version..version
  /\ worker[w].pc = "recording" /\ worker[w].kind = "replay"
       /\ apply[worker[w].on].version = version =>
       stamp[Snapshot(w).cursor + 1] = version \/ worker[w].failed
  /\ worker[w].pc = "recording" /\ worker[w].kind = "runtime" => worker[w].on \in made

BundleInv ==
  /\ TypeOK
  /\ \A j \in Applies \X Kinds : TaskOK(j)
  /\ \A a \in Applies : ApplyOK(a)
  /\ \A w \in Workers : WorkerOK(w)

-----------------------------------------------------------------------------
(* What a step leaves of the facts it does not change                       *)

\* Mappings only grow newer, and pages are only stamped with the newest; a run that has
\* a replay task has committed; rows and materializations do not go away.
Onward ==
  /\ version \in Nat /\ version' \in Nat /\ version <= version'
  /\ \A a \in Applies : task[<<a, "replay">>].status # "none" => apply'[a].version = apply[a].version
  /\ \A p \in PageSet : stamp'[p] = stamp[p] \/ stamp'[p] = version'
  /\ made \subseteq made'
  /\ \A j \in Jobs : task[j].status # "none" => task'[j].status # "none"
  /\ needs' = needs

LEMMA OnwardFacts ==
  ASSUME BundleInv, Onward, NEW a \in Applies
  PROVE  /\ version \in Nat /\ version' \in Nat /\ version <= version'
         /\ apply[a].version \in Nat /\ apply[a].seen \in Nat /\ apply[a].version <= version
         /\ apply[a].version <= version'
         /\ apply[a].version = version' => version' = version /\ apply[a].version = version
<1>1. apply[a].version \in Nat /\ apply[a].seen \in Nat /\ apply[a].version <= version
  BY DEF BundleInv, TypeOK, Apply, ApplyOK
<1>2. version \in Nat /\ version' \in Nat /\ version <= version'
  BY DEF Onward
<1> QED BY <1>1, <1>2

LEMMA CoversStays ==
  ASSUME BundleInv, Onward, NEW a \in Applies, NEW t \in Task,
         task[<<a, "replay">>].status # "none", Covers(a, t)
  PROVE  Covers(a, t)'
<1> SUFFICES ASSUME version' = apply'[a].version, NEW p \in 1..t.cursor
             PROVE  stamp'[p] = version' \/ p \in t.failed
  BY DEF Covers
<1>1. apply'[a].version = apply[a].version
  BY DEF Onward
<1>2. version' = version /\ apply[a].version = version
  BY <1>1, OnwardFacts
<1>3. p \in PageSet
  BY SettingAssumption DEF Task, PageSet
<1> QED BY <1>2, <1>3 DEF Covers, Onward

LEMMA TaskStays ==
  ASSUME BundleInv, Onward, NEW j \in Jobs, task'[j] = task[j]
  PROVE  TaskOK(j)'
<1>1. /\ j \in Applies \X Kinds /\ TaskOK(j) /\ task[j] \in Task
      /\ j[1] \in Applies /\ j = <<j[1], j[2]>>
  BY JobFacts DEF BundleInv, TypeOK, Jobs
<1>2. CASE j[2] = "replay" /\ task[j].status # "none"
  <2>1. Covers(j[1], task[j])'
    <3> DEFINE t == task[j]
    <3>1. t \in Task /\ task[<<j[1], "replay">>].status # "none" /\ Covers(j[1], t)
      BY <1>1, <1>2 DEF TaskOK
    <3> HIDE DEF t
    <3>2. \A s \in Task : Covers(j[1], s) => Covers(j[1], s)'
      BY <1>1, <3>1, CoversStays
    <3>3. \A s \in Task : s = task[j] => Covers(j[1], s)'
      BY <3>1, <3>2 DEF t
    <3> QED BY <1>1, <3>3 DEF Covers
  <2> QED BY <1>1, <1>2, <2>1 DEF TaskOK
<1>3. CASE ~(j[2] = "replay" /\ task[j].status # "none")
  BY <1>1, <1>3 DEF TaskOK, Onward
<1> QED BY <1>2, <1>3

LEMMA ApplyStays ==
  ASSUME BundleInv, Onward, NEW a \in Applies, apply'[a] = apply[a],
         \A k \in Kinds : task[<<a, k>>].status = "none" => task'[<<a, k>>].status = "none"
  PROVE  ApplyOK(a)'
<1>1. ApplyOK(a) /\ apply[a].version \in Nat /\ apply[a].seen \in Nat
  BY DEF BundleInv, TypeOK, Apply
<1>2. apply[a].version <= version' /\ (apply[a].seen <= version => apply[a].seen <= version')
  BY OnwardFacts
<1>3. apply[a].version = version' => version = version' /\ apply[a].version = version
  BY OnwardFacts
<1>4. 1 \in PageSet
  BY SettingAssumption DEF PageSet
<1>5. (apply[a].pc = "paging" => apply[a].seen \in apply[a].version..version)'
  BY <1>1, OnwardFacts DEF ApplyOK
<1>6. (apply[a].pc \in Paged => /\ Pages > 1
                                /\ apply[a].version = version => stamp[1] = version \/ apply[a].failed)'
  BY <1>1, <1>3, <1>4 DEF ApplyOK, Onward
<1>7. "runtime" \in Kinds /\ "replay" \in Kinds
  BY DEF Kinds
<1> QED BY <1>1, <1>2, <1>5, <1>6, <1>7 DEF ApplyOK, Onward

LEMMA FoundStays ==
  ASSUME BundleInv, Onward, NEW w \in Workers, NEW a \in Applies,
         worker'[w].candidates[a] = worker[w].candidates[a], worker'[w].kind = worker[w].kind
  PROVE  FoundOK(w, a)'
<1> DEFINE t == worker[w].candidates[a]
<1>1. FoundOK(w, a) /\ worker[w].kind \in Kinds /\ t \in Task \cup {Null}
  BY DEF BundleInv, WorkerOK, TypeOK, Worker
<1> SUFFICES ASSUME t # Null PROVE FoundOK(w, a)'
  BY DEF FoundOK
<1>2. /\ t \in Task /\ t.status = "queued" /\ t.lease = Null /\ t.cursor < Pages
      /\ task[<<a, worker[w].kind>>].status # "none"
      /\ worker[w].kind = "replay" => Covers(a, t)
  BY <1>1 DEF FoundOK
<1>3. task'[<<a, worker[w].kind>>].status # "none"
  BY <1>1, <1>2, JobFacts DEF Onward
<1>4. worker[w].kind = "replay" => \A s \in Task : Covers(a, s) => Covers(a, s)'
  BY <1>2, CoversStays
<1>5. worker[w].kind = "replay" => \A s \in Task : s = t => Covers(a, s)'
  BY <1>2, <1>4
<1>6. worker[w].kind = "replay" => Covers(a, worker[w].candidates[a])'
  BY <1>2, <1>5 DEF Covers
<1> QED BY <1>2, <1>3, <1>6 DEF FoundOK

LEMMA WorkerStays ==
  ASSUME BundleInv, Onward, NEW w \in Workers, worker'[w] = worker[w]
  PROVE  WorkerOK(w)'
<1>1. WorkerOK(w) /\ worker[w] \in Worker /\ \A a \in Applies : FoundOK(w, a)'
  BY FoundStays DEF BundleInv, TypeOK
<1>2. ASSUME worker[w].pc \notin Resting \cup {"claiming"}
      PROVE  worker[w].on \in Applies /\ task'[JobOf(w)].status # "none"
  <2>1. worker[w].on \in Applies /\ task[JobOf(w)].status # "none" /\ JobOf(w) \in Jobs
    BY <1>1, <1>2, JobFacts DEF WorkerOK, JobOf, Worker
  <2> QED BY <2>1 DEF Onward
<1>3. ASSUME worker[w].pc = "paging"
      PROVE  /\ worker[w].kind = "replay"
             /\ worker[w].seen \in apply'[worker[w].on].version..version'
  <2>1. /\ worker[w].kind = "replay" /\ worker[w].on \in Applies /\ worker[w].seen \in Nat
        /\ worker[w].seen \in apply[worker[w].on].version..version
        /\ task[<<worker[w].on, "replay">>].status # "none"
    BY <1>1, <1>3 DEF WorkerOK, Resting, JobOf, Worker
  <2>2. apply'[worker[w].on].version = apply[worker[w].on].version
    BY <2>1 DEF Onward
  <2>3. \A b \in Applies : /\ version \in Nat /\ version' \in Nat /\ version <= version'
                            /\ apply[b].version \in Nat
    BY OnwardFacts
  <2>4. worker[w].seen \in apply[worker[w].on].version..version'
    BY <2>1, <2>3
  <2> QED BY <2>1, <2>2, <2>4
<1>4. ASSUME worker[w].pc = "recording", worker[w].kind = "replay",
             apply'[worker[w].on].version = version'
      PROVE  stamp'[Snapshot(w).cursor + 1] = version' \/ worker[w].failed
  <2>1. /\ worker[w].on \in Applies /\ task[<<worker[w].on, "replay">>].status # "none"
        /\ Snapshot(w) # Null /\ Snapshot(w) \in Task /\ Snapshot(w).cursor < Pages
    BY <1>1, <1>4 DEF WorkerOK, Resting, Holding, JobOf, Worker, Snapshot, FoundOK
  <2>2. apply'[worker[w].on].version = apply[worker[w].on].version
    BY <2>1 DEF Onward
  <2>3. version' = version /\ apply[worker[w].on].version = version
    BY <1>4, <2>1, <2>2, OnwardFacts
  <2>4. Snapshot(w).cursor + 1 \in PageSet
    BY <2>1, SettingAssumption DEF Task, PageSet
  <2>5. stamp[Snapshot(w).cursor + 1] = version \/ worker[w].failed
    BY <1>1, <1>4, <2>3 DEF WorkerOK
  <2> QED BY <2>3, <2>4, <2>5 DEF Onward
<1>5. Snapshot(w)' = Snapshot(w) /\ JobOf(w)' = JobOf(w)
  BY DEF Snapshot, JobOf
<1> QED BY <1>1, <1>2, <1>3, <1>4, <1>5 DEF WorkerOK, Onward

\* A step of the request a, and one of the worker w.
LEMMA RequestStep ==
  ASSUME BundleInv, Onward, TypeOK', NEW a \in Applies, worker' = worker,
         \A b \in Applies \ {a} : apply'[b] = apply[b],
         \A j \in Jobs : task'[j] = task[j] \/ TaskOK(j)',
         \A b \in Applies \ {a}, k \in Kinds :
           task[<<b, k>>].status = "none" => task'[<<b, k>>].status = "none",
         ApplyOK(a)'
  PROVE  BundleInv'
<1>1. \A j \in Jobs : TaskOK(j)'
  BY TaskStays
<1>2. \A b \in Applies : ApplyOK(b)'
  BY ApplyStays
<1>3. \A w \in Workers : WorkerOK(w)'
  BY WorkerStays
<1> QED BY <1>1, <1>2, <1>3 DEF BundleInv, Jobs

LEMMA WorkStep ==
  ASSUME BundleInv, Onward, TypeOK', NEW w \in Workers, apply' = apply,
         \A v \in Workers \ {w} : worker'[v] = worker[v],
         \A j \in Jobs : task'[j] = task[j] \/ TaskOK(j)',
         \A j \in Jobs : task[j].status = "none" => task'[j].status = "none",
         WorkerOK(w)'
  PROVE  BundleInv'
<1>1. \A j \in Jobs : TaskOK(j)'
  BY TaskStays
<1>2. \A b \in Applies : ApplyOK(b)'
  BY ApplyStays, JobFacts
<1>3. \A v \in Workers : WorkerOK(v)'
  BY WorkerStays
<1> QED BY <1>1, <1>2, <1>3 DEF BundleInv, Jobs

-----------------------------------------------------------------------------
(* The steps of a request                                                   *)

LEMMA SameMappings ==
  ASSUME BundleInv, needs' = needs, version' = version, made \subseteq made',
         stamp' = stamp \/ \E p \in PageSet, s \in Nat : stamp' = Replayed(p, s),
         \A b \in Applies : apply'[b].version = apply[b].version,
         \A j \in Jobs : task[j].status # "none" => task'[j].status # "none"
  PROVE  Onward /\ version' \in Nat /\ stamp' \in [PageSet -> Nat]
<1>1. version \in Nat /\ stamp \in [PageSet -> Nat]
  BY DEF BundleInv, TypeOK
<1>2. \A p \in PageSet, s \in Nat : \A q \in PageSet :
        /\ Replayed(p, s) \in [PageSet -> Nat]
        /\ Replayed(p, s)[q] = stamp[q] \/ Replayed(p, s)[q] = version
  BY <1>1 DEF Replayed
<1>3. stamp' \in [PageSet -> Nat] /\ \A q \in PageSet : stamp'[q] = stamp[q] \/ stamp'[q] = version
  <2>1. CASE stamp' = stamp
    BY <1>1, <2>1
  <2>2. ASSUME NEW p \in PageSet, NEW s \in Nat, stamp' = Replayed(p, s)
        PROVE  /\ stamp' \in [PageSet -> Nat]
               /\ \A q \in PageSet : stamp'[q] = stamp[q] \/ stamp'[q] = version
    <3> DEFINE f == Replayed(p, s)
    <3>1. f \in [PageSet -> Nat] /\ \A q \in PageSet : f[q] = stamp[q] \/ f[q] = version
      BY <1>2
    <3> HIDE DEF f
    <3>2. stamp' = f
      BY <2>2 DEF f
    <3> QED BY <3>1, <3>2
  <2> QED BY <2>1, <2>2
<1>4. version <= version'
  BY <1>1
<1> QED BY <1>1, <1>3, <1>4 DEF Onward

LEMMA ApplyFacts ==
  ASSUME BundleInv, NEW a \in Applies
  PROVE  /\ TypeOK /\ apply[a] \in Apply /\ ApplyOK(a) /\ version \in Nat
         /\ \A k \in Kinds : <<a, k>> \in Jobs
  BY JobFacts DEF BundleInv, TypeOK

\* The request goes on to pc and changes nothing else of its record.
LEMMA Moves ==
  ASSUME BundleInv, NEW a \in Applies, NEW pc, Move(a, pc),
         pc \in {"idle", "pending", "committed", "replaying", "paging", "starting", "cancelling",
                 "inserting", "previewing", "finishing", "done", "dead"}
  PROVE  /\ apply' \in [Applies -> Apply]
         /\ apply'[a].pc = pc /\ apply'[a].version = apply[a].version
         /\ apply'[a].seen = apply[a].seen /\ apply'[a].failed = apply[a].failed
         /\ apply'[a].lost = apply[a].lost
         /\ \A b \in Applies \ {a} : apply'[b] = apply[b]
         /\ \A b \in Applies : apply'[b].version = apply[b].version
<1> DEFINE e == [apply[a] EXCEPT !.pc = pc]
<1>1. /\ e \in Apply /\ e.pc = pc /\ e.version = apply[a].version /\ e.seen = apply[a].seen
      /\ e.failed = apply[a].failed /\ e.lost = apply[a].lost
  BY ApplyFacts DEF Apply
<1>2. apply' = [apply EXCEPT ![a] = e]
  BY DEF Move
<1> HIDE DEF e
<1>3. /\ apply' \in [Applies -> Apply] /\ apply'[a] = e
      /\ \A b \in Applies \ {a} : apply'[b] = apply[b]
  BY <1>1, <1>2, ApplyFacts, ApplyBecomes
<1> QED BY <1>1, <1>3

\* A move past what the invariant speaks of, or one that leaves the mappings and the tasks.
LEMMA MoveStep ==
  ASSUME BundleInv, NEW a \in Applies, NEW pc, Move(a, pc), TypeOK', ApplyOK(a)',
         pc \in {"idle", "pending", "committed", "replaying", "paging", "starting", "cancelling",
                 "inserting", "previewing", "finishing", "done", "dead"},
         UNCHANGED <<needs, version, stamp, made, task, worker>>
  PROVE  BundleInv'
<1>1. /\ \A b \in Applies \ {a} : apply'[b] = apply[b]
      /\ \A b \in Applies : apply'[b].version = apply[b].version
  BY Moves
<1>2. Onward
  BY <1>1, SameMappings
<1> QED BY <1>1, <1>2, RequestStep

LEMMA BeginInv ==
  ASSUME BundleInv, NEW a \in Applies, Begin(a) PROVE BundleInv'
<1>1. /\ apply' \in [Applies -> Apply] /\ apply'[a].pc = "pending"
      /\ apply'[a].version = apply[a].version
  BY Moves DEF Begin
<1>2. TypeOK'
  BY <1>1 DEF BundleInv, TypeOK, Begin, Run
<1>3. ApplyOK(a)'
  BY <1>1, ApplyFacts DEF ApplyOK, Begin, At, BeforeRuntime, BeforeReplay, Paged
<1> QED BY <1>2, <1>3, MoveStep DEF Begin

LEMMA FaultFacts ==
  ASSUME TypeOK, Fault PROVE faults' \in 0..MaxFaults
  BY SettingAssumption DEF Fault, TypeOK

LEMMA CommitInv ==
  ASSUME BundleInv, NEW a \in Applies, Commit(a) PROVE BundleInv'
<1> DEFINE pc == Committed(a)
           e == [apply[a] EXCEPT !.pc = pc, !.version = version']
<1>1. /\ version' \in Nat /\ version <= version'
      /\ "replay" \in needs[a] => version' > 0
  BY ApplyFacts DEF Commit, Modes
<1>2. /\ pc \in {"committed", "replaying", "previewing", "finishing"}
      /\ pc = "replaying" => "replay" \in needs[a]
      /\ pc = "previewing" => "replay" \notin needs[a]
  BY DEF Committed, Replaying
<1>3. apply' = [apply EXCEPT ![a] = e]
  BY DEF Commit
<1> HIDE DEF pc
<1>4. e \in Apply /\ e.pc = pc /\ e.version = version'
  BY <1>1, <1>2, ApplyFacts DEF Apply
<1> HIDE DEF e
<1>5. /\ apply' \in [Applies -> Apply] /\ apply'[a] = e
      /\ \A b \in Applies \ {a} : apply'[b] = apply[b]
  BY <1>3, <1>4, ApplyFacts, ApplyBecomes
<1>6. TypeOK'
  BY <1>1, <1>5 DEF BundleInv, TypeOK, Commit
<1>7. task[<<a, "replay">>].status = "none" /\ task[<<a, "runtime">>].status = "none"
  BY ApplyFacts DEF ApplyOK, Commit, At, BeforeRuntime, BeforeReplay
<1>8. Onward
  BY <1>1, <1>5, <1>7, ApplyFacts DEF Onward, Commit
<1>9. ApplyOK(a)'
  <2>1. apply'[a].pc = pc /\ apply'[a].version = version'
    BY <1>4, <1>5
  <2>2. apply'[a].version <= version' /\ (pc # "finishing" /\ "replay" \in needs[a] => version' > 0)
    BY <1>1, <2>1
  <2> QED BY <1>2, <1>7, <2>1, <2>2 DEF ApplyOK, Commit, BeforeRuntime, BeforeReplay, Paged
<1> QED BY <1>5, <1>6, <1>8, <1>9, RequestStep DEF Commit

LEMMA FailInv ==
  ASSUME BundleInv, NEW a \in Applies, Fail(a) PROVE BundleInv'
<1>1. /\ apply' \in [Applies -> Apply] /\ apply'[a].pc = "done"
      /\ apply'[a].version = apply[a].version
  BY Moves DEF Fail
<1>2. faults' \in 0..MaxFaults
  BY ApplyFacts, FaultFacts DEF Fail
<1>3. TypeOK'
  BY <1>1, <1>2 DEF BundleInv, TypeOK, Fail, Run
<1>4. ApplyOK(a)'
  BY <1>1, ApplyFacts DEF ApplyOK, Fail, BeforeRuntime, BeforeReplay, Paged
<1> QED BY <1>3, <1>4, MoveStep DEF Fail

\* The record of the request becomes e, of the same mappings.
LEMMA ApplyStep ==
  ASSUME BundleInv, NEW a \in Applies, NEW e \in Apply, e.version = apply[a].version,
         apply' = [apply EXCEPT ![a] = e]
  PROVE  /\ apply' \in [Applies -> Apply] /\ apply'[a] = e
         /\ \A b \in Applies \ {a} : apply'[b] = apply[b]
         /\ \A b \in Applies : apply'[b].version = apply[b].version
<1>1. /\ apply' \in [Applies -> Apply] /\ apply'[a] = e
      /\ \A b \in Applies \ {a} : apply'[b] = apply[b]
  BY ApplyFacts, ApplyBecomes
<1> QED BY <1>1

LEMMA ReplayingFacts ==
  ASSUME NEW a \in Applies
  PROVE  /\ Replaying(a) \in {"replaying", "previewing", "finishing"}
         /\ Replaying(a) = "replaying" => "replay" \in needs[a]
         /\ Replaying(a) = "previewing" => "replay" \notin needs[a]
  BY DEF Replaying

\* The runtime task of the run is queued, or nothing is.
LEMMA RuntimeRow ==
  ASSUME BundleInv, NEW a \in Applies, task' \in {task, WithRuntime(a)}
  PROVE  /\ task' \in [Applies \X Kinds -> Task]
         /\ \A i \in Jobs : i # <<a, "runtime">> => task'[i] = task[i]
         /\ \A i \in Jobs : task[i].status # "none" => task'[i].status # "none"
         /\ \A i \in Jobs : task'[i] = task[i] \/ TaskOK(i)'
<1> DEFINE j == <<a, "runtime">>
           t == Queued(0, {})
<1>1. CASE task' = task
  BY <1>1, ApplyFacts DEF TypeOK, Jobs
<1>2. CASE task' = WithRuntime(a)
  <2>1. task' = [task EXCEPT ![j] = t]
    BY <1>2 DEF WithRuntime
  <2>2. t \in Task /\ t.status = "queued" /\ t.lease = Null /\ t.cursor = 0 /\ t.failed = {}
    BY QueuedFacts, SettingAssumption
  <2> HIDE DEF t
  <2>3. j \in Jobs /\ j[1] = a /\ j[2] = "runtime"
    BY DEF Jobs, Kinds
  <2> HIDE DEF j
  <2>4. /\ task' \in [Applies \X Kinds -> Task] /\ task'[j] = t
        /\ \A i \in Jobs : i # j => task'[i] = task[i]
    BY <2>1, <2>2, <2>3, ApplyFacts, TaskBecomes
  <2>5. TaskOK(j)'
    BY <2>2, <2>3, <2>4, SettingAssumption DEF TaskOK
  <2> QED BY <2>2, <2>4, <2>5 DEF j
<1> QED BY <1>1, <1>2

\* The request goes on from the queueing of the runtime task.
LEMMA RuntimeStep ==
  ASSUME BundleInv, NEW a \in Applies, NEW r \in {"queued", "failed"}, apply[a].pc = "committed",
         apply' = [apply EXCEPT ![a] = [@ EXCEPT !.pc = Replaying(a), !.runtime = r]],
         task' \in {task, WithRuntime(a)}, faults' \in 0..MaxFaults,
         UNCHANGED <<needs, serves, version, stamp, made, run, sync, worker>>
  PROVE  BundleInv'
<1> DEFINE pc == Replaying(a)
           e == [apply[a] EXCEPT !.pc = pc, !.runtime = r]
<1>1. apply' = [apply EXCEPT ![a] = e]
  OBVIOUS
<1>2. /\ pc \in {"replaying", "previewing", "finishing"}
      /\ pc = "replaying" => "replay" \in needs[a]
      /\ pc = "previewing" => "replay" \notin needs[a]
  BY ReplayingFacts
<1> HIDE DEF pc
<1>3. e \in Apply /\ e.pc = pc /\ e.version = apply[a].version
  BY <1>2, ApplyFacts DEF Apply
<1> HIDE DEF e
<1>4. /\ apply' \in [Applies -> Apply] /\ apply'[a] = e
      /\ \A b \in Applies \ {a} : apply'[b] = apply[b]
      /\ \A b \in Applies : apply'[b].version = apply[b].version
  BY <1>1, <1>3, ApplyStep
<1>5. /\ task' \in [Applies \X Kinds -> Task]
      /\ \A i \in Jobs : i # <<a, "runtime">> => task'[i] = task[i]
      /\ \A i \in Jobs : task[i].status # "none" => task'[i].status # "none"
      /\ \A i \in Jobs : task'[i] = task[i] \/ TaskOK(i)'
  BY RuntimeRow
<1>6. TypeOK'
  BY <1>4, <1>5 DEF BundleInv, TypeOK
<1>7. Onward
  BY <1>4, <1>5, SameMappings
<1>8. \A b \in Applies, k \in Kinds : b # a \/ k = "replay" => task'[<<b, k>>] = task[<<b, k>>]
  BY <1>5, JobFacts
<1>9. ApplyOK(a)'
  <2>1. apply'[a].pc = pc /\ apply'[a].version = apply[a].version
    BY <1>3, <1>4
  <2>2. task'[<<a, "replay">>].status = "none"
    BY <1>8, ApplyFacts DEF ApplyOK, BeforeRuntime, BeforeReplay, Kinds
  <2>3. apply[a].version <= version /\ ("replay" \in needs[a] => apply[a].version > 0)
    BY ApplyFacts DEF ApplyOK
  <2> QED BY <1>2, <2>1, <2>2, <2>3 DEF ApplyOK, BeforeRuntime, BeforeReplay, Paged
<1> QED BY <1>4, <1>5, <1>6, <1>7, <1>8, <1>9, RequestStep

LEMMA EnqueueRuntimeInv ==
  ASSUME BundleInv, NEW a \in Applies, EnqueueRuntime(a) PROVE BundleInv'
<1>1. faults' \in 0..MaxFaults
  BY ApplyFacts DEF EnqueueRuntime, TypeOK
<1> QED BY <1>1, RuntimeStep DEF EnqueueRuntime, At

LEMMA EnqueueRuntimeFailsInv ==
  ASSUME BundleInv, NEW a \in Applies, EnqueueRuntimeFails(a) PROVE BundleInv'
<1>1. faults' \in 0..MaxFaults
  BY ApplyFacts, FaultFacts DEF EnqueueRuntimeFails
<1> QED BY <1>1, RuntimeStep DEF EnqueueRuntimeFails, At

LEMMA PreviewInv ==
  ASSUME BundleInv, NEW a \in Applies, Preview(a) PROVE BundleInv'
<1>1. /\ apply' \in [Applies -> Apply]
      /\ apply'[a].pc = "finishing" /\ apply'[a].version = apply[a].version
      /\ \A b \in Applies \ {a} : apply'[b] = apply[b]
      /\ \A b \in Applies : apply'[b].version = apply[b].version
  <2>1. CASE Move(a, "finishing")
    BY <2>1, Moves
  <2>2. ASSUME NEW thrown \in BOOLEAN,
               apply' = [apply EXCEPT ![a] =
                           [@ EXCEPT !.pc = "finishing", !.failed = ~thrown, !.lost = thrown]]
        PROVE  /\ apply' \in [Applies -> Apply]
               /\ apply'[a].pc = "finishing" /\ apply'[a].version = apply[a].version
               /\ \A b \in Applies \ {a} : apply'[b] = apply[b]
               /\ \A b \in Applies : apply'[b].version = apply[b].version
    <3> DEFINE e == [apply[a] EXCEPT !.pc = "finishing", !.failed = ~thrown, !.lost = thrown]
    <3>1. e \in Apply /\ e.pc = "finishing" /\ e.version = apply[a].version
      BY ApplyFacts DEF Apply
    <3>2. apply' = [apply EXCEPT ![a] = e]
      BY <2>2
    <3> HIDE DEF e
    <3> QED BY <3>1, <3>2, ApplyStep
  <2> QED BY <2>1, <2>2 DEF Preview
<1>2. faults' \in 0..MaxFaults
  BY ApplyFacts, FaultFacts DEF Preview, TypeOK
<1>3. TypeOK'
  BY <1>1, <1>2 DEF BundleInv, TypeOK, Preview
<1>4. Onward
  BY <1>1, SameMappings DEF Preview
<1>5. ApplyOK(a)'
  BY <1>1, ApplyFacts DEF ApplyOK, Preview, BeforeRuntime, BeforeReplay, Paged
<1> QED BY <1>1, <1>3, <1>4, <1>5, RequestStep DEF Preview

LEMMA BeginFirstPageInv ==
  ASSUME BundleInv, NEW a \in Applies, BeginFirstPage(a) PROVE BundleInv'
<1> DEFINE e == [apply[a] EXCEPT !.pc = "paging", !.seen = version]
<1>1. /\ apply' = [apply EXCEPT ![a] = e] /\ apply[a].pc = "replaying"
      /\ UNCHANGED <<needs, serves, version, stamp, made, run, task, sync, worker, faults>>
  BY DEF BeginFirstPage, At
<1>2. e \in Apply /\ e.pc = "paging" /\ e.version = apply[a].version /\ e.seen = version
  BY ApplyFacts DEF Apply
<1> HIDE DEF e
<1>3. /\ apply' \in [Applies -> Apply] /\ apply'[a] = e
      /\ \A b \in Applies \ {a} : apply'[b] = apply[b]
      /\ \A b \in Applies : apply'[b].version = apply[b].version
  BY <1>1, <1>2, ApplyStep
<1>4. TypeOK'
  BY <1>1, <1>3 DEF BundleInv, TypeOK
<1>5. Onward
  BY <1>1, <1>3, SameMappings
<1>6. ApplyOK(a)'
  <2>1. /\ apply'[a].pc = "paging" /\ apply'[a].version = apply[a].version
        /\ apply'[a].seen = version
    BY <1>2, <1>3
  <2>2. /\ apply[a].version <= version /\ apply[a].version > 0 /\ "replay" \in needs[a]
        /\ task[<<a, "replay">>].status = "none"
    BY <1>1, ApplyFacts DEF ApplyOK, BeforeRuntime, BeforeReplay
  <2>3. version \in apply[a].version..version
    BY <2>2, ApplyFacts DEF Apply
  <2> QED BY <1>1, <2>1, <2>2, <2>3 DEF ApplyOK, BeforeRuntime, BeforeReplay, Paged
<1> QED BY <1>1, <1>3, <1>4, <1>5, <1>6, RequestStep

LEMMA FirstPageInv ==
  ASSUME BundleInv, NEW a \in Applies, FirstPage(a) PROVE BundleInv'
<1> DEFINE after == IF Pages > 1 THEN "starting" ELSE "finishing"
           e == [apply[a] EXCEPT !.pc = after, !.failed = TRUE]
<1>1. /\ after \in {"starting", "finishing"} /\ (after = "starting" => Pages > 1)
      /\ after \in {"idle", "pending", "committed", "replaying", "paging", "starting", "cancelling",
                 "inserting", "previewing", "finishing", "done", "dead"}
  OBVIOUS
<1>2. /\ apply[a].pc = "paging"
      /\ UNCHANGED <<needs, serves, version, made, run, task, sync, worker>>
      /\ \/ stamp' = Replayed(1, apply[a].seen) /\ Move(a, after) /\ UNCHANGED faults
         \/ Fault /\ apply' = [apply EXCEPT ![a] = e] /\ UNCHANGED stamp
  BY DEF FirstPage, At
<1> HIDE DEF after
<1>3. e \in Apply /\ e.pc = after /\ e.version = apply[a].version /\ e.failed = TRUE
  BY <1>1, ApplyFacts DEF Apply
<1> HIDE DEF e
<1>4. /\ apply[a].version \in Nat /\ apply[a].seen \in apply[a].version..version /\ version \in Nat
      /\ apply[a].version > 0 /\ apply[a].version <= version /\ "replay" \in needs[a]
      /\ task[<<a, "replay">>].status = "none" /\ apply[a].seen \in Nat
      /\ 1 \in PageSet /\ stamp \in [PageSet -> Nat] /\ faults \in 0..MaxFaults
  <2>1. /\ apply[a].version \in Nat /\ apply[a].seen \in Nat /\ version \in Nat
        /\ stamp \in [PageSet -> Nat] /\ faults \in 0..MaxFaults
    BY ApplyFacts DEF Apply, TypeOK
  <2>2. /\ apply[a].seen \in apply[a].version..version /\ apply[a].version <= version
        /\ apply[a].version > 0 /\ "replay" \in needs[a] /\ task[<<a, "replay">>].status = "none"
    BY <1>2, ApplyFacts DEF ApplyOK, BeforeRuntime, BeforeReplay
  <2>3. 1 \in PageSet
    BY SettingAssumption DEF PageSet
  <2> QED BY <2>1, <2>2, <2>3
<1>5. /\ apply' \in [Applies -> Apply] /\ apply'[a].pc = after
      /\ \A b \in Applies \ {a} : apply'[b] = apply[b]
      /\ \A b \in Applies : apply'[b].version = apply[b].version
  <2>1. CASE Move(a, after)
    BY <1>1, <2>1, Moves
  <2>2. CASE apply' = [apply EXCEPT ![a] = e]
    BY <1>3, <2>2, ApplyStep
  <2> QED BY <1>2, <2>1, <2>2
<1>6. apply[a].version = version => stamp'[1] = version \/ apply'[a].failed
  <2>1. CASE stamp' = Replayed(1, apply[a].seen)
    <3>1. apply[a].version = version => apply[a].seen = version
      BY <1>4
    <3> QED BY <1>4, <2>1, <3>1 DEF Replayed
  <2>2. CASE apply' = [apply EXCEPT ![a] = e]
    BY <1>3, <2>2, ApplyStep
  <2> QED BY <1>2, <2>1, <2>2
<1>7. Onward /\ version' \in Nat /\ stamp' \in [PageSet -> Nat]
  BY <1>2, <1>4, <1>5, SameMappings
<1>8. faults' \in 0..MaxFaults
  BY <1>2, <1>4, ApplyFacts, FaultFacts
<1>9. TypeOK'
  BY <1>2, <1>5, <1>7, <1>8 DEF BundleInv, TypeOK
<1>10. ApplyOK(a)'
  BY <1>1, <1>2, <1>4, <1>5, <1>6 DEF ApplyOK, BeforeRuntime, BeforeReplay, Paged
<1> QED BY <1>2, <1>5, <1>7, <1>9, <1>10, RequestStep

LEMMA StartSyncInv ==
  ASSUME BundleInv, NEW a \in Applies, StartSync(a) PROVE BundleInv'
<1>1. /\ apply' \in [Applies -> Apply] /\ apply'[a].pc = "cancelling"
      /\ apply'[a].version = apply[a].version /\ apply'[a].failed = apply[a].failed
  BY Moves DEF StartSync
<1>2. TypeOK'
  BY <1>1 DEF BundleInv, TypeOK, StartSync
<1>3. ApplyOK(a)'
  BY <1>1, ApplyFacts DEF ApplyOK, StartSync, At, BeforeRuntime, BeforeReplay, Paged
<1> QED BY <1>2, <1>3, MoveStep DEF StartSync

\* The replay tasks that were active are cancelled.
LEMMA CancelledRows ==
  ASSUME BundleInv, task' = WithCancelled, UNCHANGED <<needs, version, stamp, made>>,
         \A b \in Applies : apply'[b].version = apply[b].version
  PROVE  /\ task' \in [Applies \X Kinds -> Task]
         /\ \A j \in Jobs : task[j].status = "none" <=> task'[j].status = "none"
         /\ \A j \in Jobs : task'[j] = task[j] \/ TaskOK(j)'
         /\ Onward
<1>1. task' = [j \in Applies \X Kinds |-> IF j[2] = "replay" THEN Cancelled(task[j]) ELSE task[j]]
  BY DEF WithCancelled
<1>2. \A j \in Jobs :
        /\ task[j] \in Task /\ TaskOK(j) /\ j[1] \in Applies /\ j = <<j[1], j[2]>>
        /\ task'[j] = task[j] \/ (j[2] = "replay" /\ task'[j] = Cancelled(task[j]))
  BY <1>1, JobFacts DEF BundleInv, TypeOK, Jobs
<1>3. \A j \in Jobs : /\ task'[j] \in Task
                      /\ task'[j].cursor = task[j].cursor /\ task'[j].failed = task[j].failed
                      /\ \/ task'[j] = task[j]
                         \/ /\ j[2] = "replay" /\ task[j].status \in Active
                            /\ task'[j].status = "cancelled" /\ task'[j].lease = Null
  BY <1>2, CancelledFacts
<1>4. \A j \in Jobs : task[j].status = "none" <=> task'[j].status = "none"
  BY <1>3 DEF Active
<1>5. task' \in [Applies \X Kinds -> Task]
  BY <1>1, <1>3 DEF Jobs
<1>6. Onward
  BY <1>4, SameMappings
<1>7. ASSUME NEW j \in Jobs PROVE task'[j] = task[j] \/ TaskOK(j)'
  <2> SUFFICES ASSUME task'[j] # task[j] PROVE TaskOK(j)'
    OBVIOUS
  <2>1. /\ j[2] = "replay" /\ task[j].status # "none" /\ j[1] \in Applies /\ j = <<j[1], j[2]>>
        /\ task'[j].status = "cancelled" /\ task'[j].lease = Null /\ task[j] \in Task
        /\ Covers(j[1], task[j])
    BY <1>2, <1>3 DEF TaskOK, Active
  <2>2. \A t \in Task : Covers(j[1], t) => Covers(j[1], t)'
    BY <1>6, <2>1, CoversStays
  <2>3. Covers(j[1], task[j])' /\ task'[j].cursor = task[j].cursor /\ task'[j].failed = task[j].failed
    BY <1>3, <2>1, <2>2 DEF Covers
  <2> QED BY <2>1, <2>3 DEF TaskOK, Covers, Active
<1> QED BY <1>4, <1>5, <1>6, <1>7

\* The task that goes on after the first page is inserted.
LEMMA ReplayRow ==
  ASSUME BundleInv, NEW a \in Applies, apply[a].pc = "inserting", task' = WithReplay(a),
         UNCHANGED <<needs, version, stamp, made>>,
         \A b \in Applies : apply'[b].version = apply[b].version
  PROVE  /\ task' \in [Applies \X Kinds -> Task]
         /\ \A i \in Jobs : i # <<a, "replay">> => task'[i] = task[i]
         /\ TaskOK(<<a, "replay">>)'
         /\ Onward
<1> DEFINE f == IF apply[a].failed THEN {1} ELSE {}
           j == <<a, "replay">>
           t == Queued(1, f)
<1>1. task' = [task EXCEPT ![j] = t]
  BY DEF WithReplay
<1>2. /\ apply[a].version = version => stamp[1] = version \/ 1 \in f
      /\ Pages > 1
  BY ApplyFacts DEF ApplyOK, Paged
<1>3. f \in SUBSET PageSet /\ 1 \in 0..Pages
  BY SettingAssumption DEF PageSet
<1> HIDE DEF f
<1>4. t \in Task /\ t.status = "queued" /\ t.lease = Null /\ t.cursor = 1 /\ t.failed = f
  BY <1>3, QueuedFacts
<1>5. j \in Jobs /\ j[1] = a /\ j[2] = "replay"
  BY DEF Jobs, Kinds
<1> HIDE DEF t, j
<1>6. /\ task' \in [Applies \X Kinds -> Task] /\ task'[j] = t
      /\ \A i \in Jobs : i # j => task'[i] = task[i]
  BY <1>1, <1>4, <1>5, ApplyFacts, TaskBecomes
<1>7. Onward
  BY <1>4, <1>6, SameMappings
<1>8. TaskOK(j)'
  <2>1. version = apply[a].version => \A p \in 1..1 : stamp[p] = version \/ p \in f
    BY <1>2
  <2>2. Covers(j[1], task[j])'
    BY <1>4, <1>5, <1>6, <2>1 DEF Covers
  <2> QED BY <1>2, <1>4, <1>5, <1>6, <2>2 DEF TaskOK
<1> QED BY <1>6, <1>7, <1>8 DEF j

LEMMA CancelOlderInv ==
  ASSUME BundleInv, NEW a \in Applies, CancelOlder(a) PROVE BundleInv'
<1>1. /\ apply[a].pc = "cancelling" /\ Move(a, "inserting") /\ task' = WithCancelled
      /\ UNCHANGED <<needs, serves, version, stamp, made, run, sync, worker, faults>>
  BY DEF CancelOlder, At
<1>2. /\ apply' \in [Applies -> Apply] /\ apply'[a].pc = "inserting"
      /\ apply'[a].version = apply[a].version /\ apply'[a].failed = apply[a].failed
      /\ \A b \in Applies \ {a} : apply'[b] = apply[b]
      /\ \A b \in Applies : apply'[b].version = apply[b].version
  BY <1>1, Moves
<1>3. /\ task' \in [Applies \X Kinds -> Task] /\ Onward
      /\ \A j \in Jobs : task[j].status = "none" <=> task'[j].status = "none"
      /\ \A j \in Jobs : task'[j] = task[j] \/ TaskOK(j)'
  BY <1>1, <1>2, CancelledRows
<1>4. TypeOK'
  BY <1>1, <1>2, <1>3 DEF BundleInv, TypeOK
<1>5. \A b \in Applies, k \in Kinds : task[<<b, k>>].status = "none" => task'[<<b, k>>].status = "none"
  BY <1>3, JobFacts
<1>6. ApplyOK(a)'
  BY <1>1, <1>2, <1>5, ApplyFacts DEF ApplyOK, BeforeRuntime, BeforeReplay, Paged, Kinds
<1> QED BY <1>1, <1>2, <1>3, <1>4, <1>5, <1>6, RequestStep

LEMMA InsertReplayInv ==
  ASSUME BundleInv, NEW a \in Applies, InsertReplay(a) PROVE BundleInv'
<1>1. /\ apply[a].pc = "inserting" /\ Move(a, "finishing") /\ task' = WithReplay(a)
      /\ UNCHANGED <<needs, serves, version, stamp, made, run, sync, worker, faults>>
  BY DEF InsertReplay, At
<1>2. /\ apply' \in [Applies -> Apply] /\ apply'[a].pc = "finishing"
      /\ apply'[a].version = apply[a].version
      /\ \A b \in Applies \ {a} : apply'[b] = apply[b]
      /\ \A b \in Applies : apply'[b].version = apply[b].version
  BY <1>1, Moves
<1>3. /\ task' \in [Applies \X Kinds -> Task] /\ Onward
      /\ \A i \in Jobs : i # <<a, "replay">> => task'[i] = task[i]
      /\ TaskOK(<<a, "replay">>)'
  BY <1>1, <1>2, ReplayRow
<1>4. TypeOK'
  BY <1>1, <1>2, <1>3 DEF BundleInv, TypeOK
<1>5. ApplyOK(a)'
  BY <1>1, <1>2, ApplyFacts DEF ApplyOK, BeforeRuntime, BeforeReplay, Paged
<1>6. \A b \in Applies \ {a}, k \in Kinds : task'[<<b, k>>] = task[<<b, k>>]
  BY <1>3, JobFacts
<1>7. \A i \in Jobs : task'[i] = task[i] \/ TaskOK(i)'
  BY <1>3
<1> QED BY <1>1, <1>2, <1>3, <1>4, <1>5, <1>6, <1>7, RequestStep

\* What throws may have started the synchronisation run, cancelled the older tasks or
\* inserted the task before.
LEMMA ReplayLostInv ==
  ASSUME BundleInv, NEW a \in Applies, ReplayLost(a) PROVE BundleInv'
<1> DEFINE e == [apply[a] EXCEPT !.pc = "finishing", !.lost = TRUE]
<1>1. /\ apply' = [apply EXCEPT ![a] = e] /\ Fault
      /\ UNCHANGED <<needs, serves, version, stamp, made, run, worker>>
      /\ \/ task' = task
         \/ task' = WithCancelled
         \/ apply[a].pc = "inserting" /\ task' = WithReplay(a)
      /\ sync' = sync \/ sync' = [sync EXCEPT ![a] = "running"]
  BY DEF ReplayLost, At
<1>2. e \in Apply /\ e.pc = "finishing" /\ e.version = apply[a].version
  BY ApplyFacts DEF Apply
<1> HIDE DEF e
<1>3. /\ apply' \in [Applies -> Apply] /\ apply'[a] = e
      /\ \A b \in Applies \ {a} : apply'[b] = apply[b]
      /\ \A b \in Applies : apply'[b].version = apply[b].version
  BY <1>1, <1>2, ApplyStep
<1>4. faults' \in 0..MaxFaults
  BY <1>1, ApplyFacts, FaultFacts
<1>5. /\ task' \in [Applies \X Kinds -> Task] /\ Onward
      /\ \A j \in Jobs : task'[j] = task[j] \/ TaskOK(j)'
      /\ \A b \in Applies \ {a}, k \in Kinds :
           task[<<b, k>>].status = "none" => task'[<<b, k>>].status = "none"
  <2>1. CASE task' = task
    <3>1. Onward
      BY <1>1, <1>3, <2>1, SameMappings
    <3> QED BY <2>1, <3>1, ApplyFacts DEF TypeOK
  <2>2. CASE task' = WithCancelled
    BY <1>1, <1>3, <2>2, CancelledRows, JobFacts
  <2>3. CASE apply[a].pc = "inserting" /\ task' = WithReplay(a)
    <3>1. /\ task' \in [Applies \X Kinds -> Task] /\ Onward
          /\ \A i \in Jobs : i # <<a, "replay">> => task'[i] = task[i]
          /\ TaskOK(<<a, "replay">>)'
      BY <1>1, <1>3, <2>3, ReplayRow
    <3>2. \A b \in Applies \ {a}, k \in Kinds : task'[<<b, k>>] = task[<<b, k>>]
      BY <3>1, JobFacts
    <3> QED BY <3>1, <3>2
  <2> QED BY <1>1, <2>1, <2>2, <2>3
<1>6. TypeOK'
  <2>1. sync' \in [Applies -> {"none", "running", "completed", "failed"}]
    BY <1>1, ApplyFacts DEF TypeOK
  <2> QED BY <1>1, <1>3, <1>4, <1>5, <2>1 DEF BundleInv, TypeOK
<1>7. ApplyOK(a)'
  BY <1>1, <1>2, <1>3, ApplyFacts DEF ApplyOK, BeforeRuntime, BeforeReplay, Paged
<1> QED BY <1>1, <1>3, <1>5, <1>6, <1>7, RequestStep

LEMMA FinishInv ==
  ASSUME BundleInv, NEW a \in Applies, Finish(a) PROVE BundleInv'
<1> DEFINE i == IdentityStatus(a)
           r == [status |-> "succeeded", own |-> i, runtime |-> apply[a].runtime]
<1>1. i \in Own
  BY DEF IdentityStatus, Own
<1> HIDE DEF i
<1>2. r \in Run
  BY <1>1, ApplyFacts DEF Run, Apply
<1>3. run' = [run EXCEPT ![a] = r]
  BY DEF Finish, i
<1> HIDE DEF r
<1>4. /\ apply' \in [Applies -> Apply] /\ apply'[a].pc = "done"
      /\ apply'[a].version = apply[a].version
  BY Moves DEF Finish
<1>5. TypeOK'
  BY <1>2, <1>3, <1>4 DEF BundleInv, TypeOK, Finish
<1>6. ApplyOK(a)'
  BY <1>4, ApplyFacts DEF ApplyOK, Finish, BeforeRuntime, BeforeReplay, Paged
<1> QED BY <1>5, <1>6, MoveStep DEF Finish

LEMMA DieInv ==
  ASSUME BundleInv, NEW a \in Applies, Die(a) PROVE BundleInv'
<1>1. /\ apply' \in [Applies -> Apply] /\ apply'[a].pc = "dead"
      /\ apply'[a].version = apply[a].version
  BY Moves DEF Die
<1>2. faults' \in 0..MaxFaults
  BY ApplyFacts, FaultFacts DEF Die
<1>3. TypeOK'
  BY <1>1, <1>2 DEF BundleInv, TypeOK, Die
<1>4. ApplyOK(a)'
  BY <1>1, ApplyFacts DEF ApplyOK, Die, BeforeRuntime, BeforeReplay, Paged
<1> QED BY <1>3, <1>4, MoveStep DEF Die

LEMMA ApplyingInv ==
  ASSUME BundleInv, NEW a \in Applies, Applying(a) PROVE BundleInv'
  BY BeginInv, CommitInv, FailInv, EnqueueRuntimeInv, EnqueueRuntimeFailsInv, BeginFirstPageInv,
     FirstPageInv, StartSyncInv, CancelOlderInv, InsertReplayInv, ReplayLostInv, PreviewInv, FinishInv, DieInv
  DEF Applying

-----------------------------------------------------------------------------
(* The steps of a worker                                                    *)

WorkerPc == {"idle", "looking", "claiming", "claimed", "paging", "recording", "failing",
             "closing", "reading", "writing"}

LEMMA WorkerFacts ==
  ASSUME BundleInv, NEW w \in Workers
  PROVE  /\ TypeOK /\ worker[w] \in Worker /\ WorkerOK(w)
         /\ worker[w].kind \in Kinds /\ worker[w].on \in Applies \cup {Null}
         /\ worker[w].candidates \in [Applies -> Task \cup {Null}]
  BY DEF BundleInv, TypeOK, Worker

LEMMA RowFacts ==
  ASSUME BundleInv, NEW j \in Jobs
  PROVE  task[j] \in Task /\ TaskOK(j) /\ j[1] \in Applies /\ j[2] \in Kinds /\ j = <<j[1], j[2]>>
  BY JobFacts DEF BundleInv, TypeOK, Jobs

LEMMA HandFacts ==
  ASSUME BundleInv, NEW w \in Workers, worker[w].pc \notin Resting \cup {"claiming"}
  PROVE  /\ worker[w].on \in Applies /\ worker[w].kind \in Kinds
         /\ JobOf(w) \in Jobs /\ JobOf(w) = <<worker[w].on, worker[w].kind>>
         /\ JobOf(w)[1] = worker[w].on /\ JobOf(w)[2] = worker[w].kind
         /\ task[JobOf(w)] \in Task /\ TaskOK(JobOf(w)) /\ task[JobOf(w)].status # "none"
<1>1. /\ worker[w].on \in Applies /\ worker[w].kind \in Kinds /\ task[JobOf(w)].status # "none"
      /\ JobOf(w) = <<worker[w].on, worker[w].kind>>
  BY WorkerFacts DEF WorkerOK, JobOf
<1>2. JobOf(w) \in Jobs
  BY <1>1, JobFacts
<1> QED BY <1>1, <1>2, RowFacts

\* The row in the hand of a worker: queued, free and with pages left.
LEMMA SnapshotFacts ==
  ASSUME BundleInv, NEW w \in Workers, worker[w].pc \in Holding
  PROVE  /\ Snapshot(w) \in Task /\ Snapshot(w).status = "queued" /\ Snapshot(w).lease = Null
         /\ Snapshot(w).cursor < Pages /\ Snapshot(w).cursor + 1 \in PageSet
         /\ worker[w].kind = "replay" => Covers(worker[w].on, Snapshot(w))
<1>1. worker[w].on \in Applies /\ Snapshot(w) # Null /\ FoundOK(w, worker[w].on)
  BY WorkerFacts DEF WorkerOK, Holding, Resting
<1>2. Snapshot(w) \in Task
  BY <1>1, WorkerFacts DEF Snapshot
<1>3. /\ Snapshot(w).status = "queued" /\ Snapshot(w).lease = Null /\ Snapshot(w).cursor < Pages
      /\ worker[w].kind = "replay" => Covers(worker[w].on, Snapshot(w))
  BY <1>1 DEF FoundOK, Snapshot
<1>4. Snapshot(w).cursor + 1 \in PageSet
  BY <1>2, <1>3, SettingAssumption DEF Task, PageSet
<1> QED BY <1>2, <1>3, <1>4

\* What stays true of the row in hand while the worker only goes on to another stage.
LEMMA HandStays ==
  ASSUME BundleInv, Onward, NEW w \in Workers, worker[w].pc \notin Resting \cup {"claiming"},
         worker'[w].on = worker[w].on, worker'[w].kind = worker[w].kind,
         worker'[w].candidates = worker[w].candidates
  PROVE  /\ \A a \in Applies : FoundOK(w, a)'
         /\ JobOf(w)' = JobOf(w) /\ Snapshot(w)' = Snapshot(w)
         /\ (worker[w].on \in Applies)' /\ (task[JobOf(w)].status # "none")'
<1>1. \A a \in Applies : FoundOK(w, a)'
  BY FoundStays
<1>2. JobOf(w)' = JobOf(w) /\ Snapshot(w)' = Snapshot(w)
  BY DEF JobOf, Snapshot
<1>3. worker[w].on \in Applies /\ task'[JobOf(w)].status # "none"
  BY HandFacts DEF Onward
<1> QED BY <1>1, <1>2, <1>3

LEMMA WorkOnward ==
  ASSUME BundleInv, apply' = apply, needs' = needs, version' = version, made \subseteq made',
         stamp' = stamp \/ \E p \in PageSet, s \in Nat : stamp' = Replayed(p, s),
         \A j \in Jobs : task[j].status # "none" => task'[j].status # "none"
  PROVE  Onward /\ version' \in Nat /\ stamp' \in [PageSet -> Nat]
  BY SameMappings

\* The worker rests.
LEMMA RestFacts ==
  ASSUME BundleInv, NEW w \in Workers, Rests(w)
  PROVE  /\ worker' \in [Workers -> Worker] /\ WorkerOK(w)'
         /\ \A v \in Workers \ {w} : worker'[v] = worker[v]
<1> DEFINE e == IdleWorker
<1>1. /\ e \in Worker /\ e.pc = "idle" /\ e.candidates = NoCandidates /\ e.on = Null
      /\ \A a \in Applies : NoCandidates[a] = Null
  BY IdleFacts
<1>2. worker' = [worker EXCEPT ![w] = e]
  BY DEF Rests
<1> HIDE DEF e
<1>3. /\ worker' \in [Workers -> Worker] /\ worker'[w] = e
      /\ \A v \in Workers \ {w} : worker'[v] = worker[v]
  BY <1>1, <1>2, WorkerFacts, WorkerBecomes
<1>4. WorkerOK(w)'
  <2>1. NoCandidates' = NoCandidates
    BY DEF NoCandidates
  <2>2. \A a \in Applies : FoundOK(w, a)'
    BY <1>1, <1>3 DEF FoundOK
  <2> QED BY <1>1, <1>3, <2>1, <2>2 DEF WorkerOK, Resting, Holding
<1> QED BY <1>3, <1>4

\* The worker goes on to pc and changes nothing else of its record.
LEMMA GoesFacts ==
  ASSUME BundleInv, NEW w \in Workers, NEW pc \in WorkerPc, Goes(w, pc)
  PROVE  /\ worker' \in [Workers -> Worker] /\ worker'[w].pc = pc
         /\ worker'[w].on = worker[w].on /\ worker'[w].kind = worker[w].kind
         /\ worker'[w].candidates = worker[w].candidates
         /\ worker'[w].outcome = worker[w].outcome
         /\ \A v \in Workers \ {w} : worker'[v] = worker[v]
<1> DEFINE e == [worker[w] EXCEPT !.pc = pc]
<1>1. /\ e \in Worker /\ e.pc = pc /\ e.on = worker[w].on /\ e.kind = worker[w].kind
      /\ e.candidates = worker[w].candidates /\ e.outcome = worker[w].outcome
  BY WorkerFacts DEF Worker, WorkerPc
<1>2. worker' = [worker EXCEPT ![w] = e]
  BY DEF Goes
<1> HIDE DEF e
<1>3. /\ worker' \in [Workers -> Worker] /\ worker'[w] = e
      /\ \A v \in Workers \ {w} : worker'[v] = worker[v]
  BY <1>1, <1>2, WorkerFacts, WorkerBecomes
<1> QED BY <1>1, <1>3

\* The outcome t of the job of w is recorded, if w has its lease.
LEMMA FencedFacts ==
  ASSUME BundleInv, NEW w \in Workers, worker[w].pc \notin Resting \cup {"claiming"},
         NEW t \in Task, t.status # "none", task' = Fenced(w, t)
  PROVE  /\ task' \in [Applies \X Kinds -> Task]
         /\ \A i \in Jobs : \/ task'[i] = task[i]
                            \/ i = JobOf(w) /\ task[i].status = "running" /\ task'[i] = t
         /\ \A i \in Jobs : task[i].status = "none" <=> task'[i].status = "none"
<1> DEFINE j == JobOf(w)
<1>1. j \in Jobs /\ task[j] \in Task /\ TaskOK(j)
  BY HandFacts
<1> HIDE DEF j
<1>2. CASE task[j].lease = w
  <2>1. task' = [task EXCEPT ![j] = t]
    BY <1>2 DEF Fenced, j
  <2>2. /\ task' \in [Applies \X Kinds -> Task] /\ task'[j] = t
        /\ \A i \in Jobs : i # j => task'[i] = task[i]
    BY <1>1, <2>1, WorkerFacts, TaskBecomes
  <2>3. task[j].status = "running"
    BY <1>1, <1>2, SettingAssumption DEF TaskOK
  <2> QED BY <2>2, <2>3 DEF j
<1>3. CASE task[j].lease # w
  BY <1>3, WorkerFacts DEF Fenced, j, TypeOK
<1> QED BY <1>2, <1>3

LEMMA RequeueInv ==
  ASSUME BundleInv, NEW w \in Workers, NEW k \in Kinds, Requeue(w, k) PROVE BundleInv'
<1> DEFINE e == [worker[w] EXCEPT !.pc = "looking", !.kind = k]
<1>1. /\ worker[w].pc = "idle" /\ worker' = [worker EXCEPT ![w] = e]
      /\ task' = [j \in Applies \X Kinds |->
                    IF j[1] \in serves[w] /\ j[2] = k THEN Requeued(task[j]) ELSE task[j]]
      /\ UNCHANGED <<needs, serves, version, stamp, made, run, apply, sync, faults>>
  BY DEF Requeue, Is
<1>2. /\ e \in Worker /\ e.pc = "looking" /\ e.on = worker[w].on
      /\ e.candidates = worker[w].candidates
  BY WorkerFacts DEF Worker
<1> HIDE DEF e
<1>3. /\ worker' \in [Workers -> Worker] /\ worker'[w] = e
      /\ \A v \in Workers \ {w} : worker'[v] = worker[v]
  BY <1>1, <1>2, WorkerFacts, WorkerBecomes
<1>4. \A j \in Jobs : task[j] \in Task /\ (task'[j] = task[j] \/ task'[j] = Requeued(task[j]))
  BY <1>1, RowFacts DEF Jobs
<1>5. \A j \in Jobs : /\ task'[j] \in Task
                      /\ task'[j].cursor = task[j].cursor /\ task'[j].failed = task[j].failed
                      /\ \/ task'[j] = task[j]
                         \/ /\ task[j].status = "running"
                            /\ task'[j].status = "queued" /\ task'[j].lease = Null
  BY <1>4, RequeuedFacts
<1>6. \A j \in Jobs : task[j].status = "none" <=> task'[j].status = "none"
  BY <1>5
<1>7. task' \in [Applies \X Kinds -> Task]
  BY <1>1, <1>5 DEF Jobs
<1>8. TypeOK'
  BY <1>1, <1>3, <1>7 DEF BundleInv, TypeOK
<1>9. Onward
  BY <1>1, <1>6, WorkOnward
<1>10. ASSUME NEW j \in Jobs PROVE task'[j] = task[j] \/ TaskOK(j)'
  <2> SUFFICES ASSUME task'[j] # task[j] PROVE TaskOK(j)'
    OBVIOUS
  <2>1. /\ task[j].status = "running" /\ task'[j].status = "queued" /\ task'[j].lease = Null
        /\ task'[j].cursor = task[j].cursor /\ task'[j].failed = task[j].failed
    BY <1>5
  <2>2. task[j] \in Task /\ TaskOK(j) /\ j[1] \in Applies /\ j = <<j[1], j[2]>>
    BY RowFacts
  <2>3. \A t \in Task, a \in Applies : task[<<a, "replay">>].status # "none" =>
          (Covers(a, t) => Covers(a, t)')
    BY <1>9, CoversStays
  <2>4. j[2] = "replay" => Covers(j[1], task[j])'
    <3> SUFFICES ASSUME j[2] = "replay" PROVE Covers(j[1], task[j])'
      OBVIOUS
    <3>1. Covers(j[1], task[j]) /\ task[<<j[1], "replay">>].status # "none"
      BY <2>1, <2>2 DEF TaskOK
    <3> DEFINE t == task[j]
    <3>2. t \in Task /\ Covers(j[1], t)
      BY <2>2, <3>1
    <3> HIDE DEF t
    <3>3. \A s \in Task : s = t => Covers(j[1], s)'
      BY <2>2, <2>3, <3>1, <3>2
    <3> QED BY <1>1, <2>1, <2>2, <3>3 DEF Covers, t
  <2> QED BY <2>1, <2>2, <2>4 DEF TaskOK, Active
<1>11. WorkerOK(w)'
  <2>1. /\ worker[w].candidates = NoCandidates /\ worker[w].on = Null
        /\ \A a \in Applies : NoCandidates[a] = Null
        /\ NoCandidates' = NoCandidates
    BY <1>1, WorkerFacts, IdleFacts DEF WorkerOK, Resting, NoCandidates
  <2>2. worker'[w].pc = "looking" /\ worker'[w].candidates = NoCandidates /\ worker'[w].on = Null
    BY <1>2, <1>3, <2>1
  <2>3. \A a \in Applies : FoundOK(w, a)'
    BY <2>1, <2>2 DEF FoundOK
  <2> QED BY <2>1, <2>2, <2>3 DEF WorkerOK, Resting, Holding
<1> QED BY <1>1, <1>3, <1>6, <1>8, <1>9, <1>10, <1>11, WorkStep

LEMMA FindInv ==
  ASSUME BundleInv, NEW w \in Workers, Find(w) PROVE BundleInv'
<1> DEFINE k == worker[w].kind
           ready == {a \in serves[w] : task[<<a, k>>].status = "queued" /\ task[<<a, k>>].due}
           found == [a \in Applies |-> IF a \in ready THEN task[<<a, k>>] ELSE Null]
           e == [worker[w] EXCEPT !.pc = "claiming", !.candidates = found]
<1>1. /\ worker[w].pc = "looking"
      /\ Rests(w) \/ worker' = [worker EXCEPT ![w] = e]
      /\ UNCHANGED <<needs, serves, version, stamp, made, run, apply, task, sync, faults>>
  BY DEF Find, Is
<1>2. Onward
  BY <1>1, WorkOnward
<1>3. k \in Kinds /\ \A a \in Applies : <<a, k>> \in Jobs /\ task[<<a, k>>] \in Task
  BY WorkerFacts, JobFacts, RowFacts
<1>4. /\ found \in [Applies -> Task \cup {Null}]
      /\ \A a \in Applies : found[a] # Null =>
           found[a] = task[<<a, k>>] /\ task[<<a, k>>].status = "queued"
  BY <1>3
<1>5. worker' \in [Workers -> Worker] /\ WorkerOK(w)' /\ \A v \in Workers \ {w} : worker'[v] = worker[v]
  <2>1. CASE Rests(w)
    BY <2>1, RestFacts
  <2>2. CASE worker' = [worker EXCEPT ![w] = e]
    <3> HIDE DEF found
    <3>1. e \in Worker /\ e.pc = "claiming" /\ e.kind = k /\ e.candidates = found /\ e.on = Null
      BY <1>1, <1>4, WorkerFacts DEF Worker, WorkerOK, Resting
    <3> HIDE DEF e
    <3>2. /\ worker' \in [Workers -> Worker] /\ worker'[w] = e
          /\ \A v \in Workers \ {w} : worker'[v] = worker[v]
      BY <2>2, <3>1, WorkerFacts, WorkerBecomes
    <3>3. ASSUME NEW a \in Applies PROVE FoundOK(w, a)'
      <4> DEFINE t == task[<<a, k>>]
      <4> SUFFICES ASSUME found[a] # Null PROVE FoundOK(w, a)'
        BY <3>1, <3>2 DEF FoundOK
      <4>1. found[a] = t /\ t.status = "queued" /\ t \in Task
        BY <1>3, <1>4
      <4>2. /\ t.lease = Null /\ t.cursor < Pages
            /\ k = "replay" => Covers(a, t)
        BY <1>3, <4>1, RowFacts DEF TaskOK, Active
      <4>3. worker'[w].candidates[a] = t /\ worker'[w].kind = k /\ task' = task
        BY <1>1, <3>1, <3>2, <4>1
      <4>4. k = "replay" => Covers(a, worker[w].candidates[a])'
        BY <1>1, <4>2, <4>3 DEF Covers
      <4> QED BY <4>1, <4>2, <4>3, <4>4 DEF FoundOK
    <3> QED BY <3>1, <3>2, <3>3 DEF WorkerOK, Resting, Holding
  <2> QED BY <1>1, <2>1, <2>2
<1>6. TypeOK'
  BY <1>1, <1>5 DEF BundleInv, TypeOK
<1> QED BY <1>1, <1>2, <1>5, <1>6, WorkStep

LEMMA ClaimInv ==
  ASSUME BundleInv, NEW w \in Workers, NEW a \in Applies, Claim(w, a) PROVE BundleInv'
<1>0. PICK k \in Kinds : k = worker[w].kind
  BY WorkerFacts
<1> DEFINE j == <<a, k>>
           t == [task[j] EXCEPT !.status = "running", !.lease = w, !.lapsed = FALSE]
           c == worker[w].candidates
           only == [NoCandidates EXCEPT ![a] = c[a]]
           e == [worker[w] EXCEPT !.pc = "claimed", !.on = a, !.candidates = only]
<1>1. /\ worker[w].pc = "claiming" /\ c[a] # Null /\ task[j].status = "queued"
      /\ task' = [task EXCEPT ![j] = t] /\ worker' = [worker EXCEPT ![w] = e]
      /\ UNCHANGED <<needs, serves, version, stamp, made, run, apply, sync, faults>>
  BY <1>0 DEF Claim, Is
<1>2. k \in Kinds /\ j \in Jobs /\ task[j] \in Task /\ TaskOK(j) /\ j[1] = a /\ j[2] = k
  BY <1>0, JobFacts, RowFacts
<1>3. /\ only \in [Applies -> Task \cup {Null}] /\ only[a] = c[a]
      /\ \A b \in Applies : only[b] # Null => b = a
  BY WorkerFacts, IdleFacts
<1> HIDE DEF j, only
<1>4. /\ t \in Task /\ t.status = "running" /\ t.lease = w
      /\ t.cursor = task[j].cursor /\ t.failed = task[j].failed
  BY <1>2 DEF Task
<1>5. e \in Worker /\ e.pc = "claimed" /\ e.kind = k /\ e.candidates = only /\ e.on = a
  BY <1>0, <1>3, WorkerFacts DEF Worker
<1> HIDE DEF t, e
<1>6. /\ task' \in [Applies \X Kinds -> Task] /\ task'[j] = t
      /\ \A i \in Jobs : i # j => task'[i] = task[i]
  BY <1>1, <1>2, <1>4, WorkerFacts, TaskBecomes
<1>7. /\ worker' \in [Workers -> Worker] /\ worker'[w] = e
      /\ \A v \in Workers \ {w} : worker'[v] = worker[v]
  BY <1>1, <1>5, WorkerFacts, WorkerBecomes
<1>8. TypeOK'
  BY <1>1, <1>6, <1>7 DEF BundleInv, TypeOK
<1>9. \A i \in Jobs : task[i].status = "none" <=> task'[i].status = "none"
  BY <1>1, <1>4, <1>6
<1>10. Onward
  BY <1>1, <1>9, WorkOnward
<1>11. TaskOK(j)'
  <2>1. k = "replay" => Covers(a, task[j]) /\ task[<<a, "replay">>].status # "none"
    BY <1>1, <1>2 DEF TaskOK, j
  <2>2. k = "replay" => Covers(a, task[j])'
    BY <1>1, <1>4, <1>6, <2>1 DEF Covers
  <2>3. w # Null
    BY SettingAssumption
  <2> QED BY <1>1, <1>2, <1>4, <1>6, <2>2, <2>3 DEF TaskOK, Active
<1>12. WorkerOK(w)'
  <2>1. /\ worker'[w].pc = "claimed" /\ worker'[w].on = a /\ worker'[w].kind = k
        /\ worker'[w].candidates = only
    BY <1>5, <1>7
  <2>2. FoundOK(w, a)'
    <3> DEFINE s == c[a]
    <3>1. /\ s \in Task /\ s.status = "queued" /\ s.lease = Null /\ s.cursor < Pages
          /\ k = "replay" => Covers(a, s)
      BY <1>0, <1>1, WorkerFacts DEF WorkerOK, FoundOK
    <3>2. worker'[w].candidates[a] = s /\ task'[<<a, k>>].status # "none"
      BY <1>3, <1>4, <1>6, <2>1 DEF j
    <3>3. k = "replay" => Covers(a, worker[w].candidates[a])'
      BY <1>1, <3>1, <3>2 DEF Covers
    <3> QED BY <2>1, <3>1, <3>2, <3>3 DEF FoundOK
  <2>3. \A b \in Applies : FoundOK(w, b)'
    BY <1>3, <2>1, <2>2 DEF FoundOK
  <2>4. (JobOf(w) = j)' /\ Snapshot(w)' = c[a]
    BY <1>3, <2>1 DEF JobOf, Snapshot, j
  <2>5. (task[JobOf(w)].status # "none")'
    BY <1>4, <1>6, <2>4 DEF j, JobOf
  <2> QED BY <1>1, <2>1, <2>3, <2>4, <2>5 DEF WorkerOK, Resting, Holding
<1> QED BY <1>1, <1>6, <1>7, <1>8, <1>9, <1>10, <1>11, <1>12, WorkStep

LEMMA PassOverInv ==
  ASSUME BundleInv, NEW w \in Workers, NEW a \in Applies, PassOver(w, a) PROVE BundleInv'
<1> DEFINE others == [worker[w].candidates EXCEPT ![a] = Null]
           e == [worker[w] EXCEPT !.candidates = others]
<1>1. /\ worker[w].pc = "claiming"
      /\ Rests(w) \/ worker' = [worker EXCEPT ![w] = e]
      /\ UNCHANGED <<needs, serves, version, stamp, made, run, apply, task, sync, faults>>
  BY DEF PassOver, Is
<1>2. Onward
  BY <1>1, WorkOnward
<1>3. /\ others \in [Applies -> Task \cup {Null}]
      /\ \A b \in Applies : others[b] # Null => others[b] = worker[w].candidates[b]
  BY WorkerFacts
<1>4. worker' \in [Workers -> Worker] /\ WorkerOK(w)' /\ \A v \in Workers \ {w} : worker'[v] = worker[v]
  <2>1. CASE Rests(w)
    BY <2>1, RestFacts
  <2>2. CASE worker' = [worker EXCEPT ![w] = e]
    <3> HIDE DEF others
    <3>1. /\ e \in Worker /\ e.pc = "claiming" /\ e.kind = worker[w].kind /\ e.candidates = others
          /\ e.on = Null
      BY <1>1, <1>3, WorkerFacts DEF Worker, WorkerOK, Resting
    <3> HIDE DEF e
    <3>2. /\ worker' \in [Workers -> Worker] /\ worker'[w] = e
          /\ \A v \in Workers \ {w} : worker'[v] = worker[v]
      BY <2>2, <3>1, WorkerFacts, WorkerBecomes
    <3>3. ASSUME NEW b \in Applies PROVE FoundOK(w, b)'
      <4>1. CASE others[b] = Null
        BY <3>1, <3>2, <4>1 DEF FoundOK
      <4>2. CASE others[b] # Null
        BY <1>2, <1>3, <3>1, <3>2, <4>2, FoundStays
      <4> QED BY <4>1, <4>2
    <3> QED BY <3>1, <3>2, <3>3 DEF WorkerOK, Resting, Holding
  <2> QED BY <1>1, <2>1, <2>2
<1>5. TypeOK'
  BY <1>1, <1>4 DEF BundleInv, TypeOK
<1> QED BY <1>1, <1>2, <1>4, <1>5, WorkStep

LEMMA BeginPageInv ==
  ASSUME BundleInv, NEW w \in Workers, BeginPage(w) PROVE BundleInv'
<1> DEFINE e == [worker[w] EXCEPT !.pc = "paging", !.seen = version]
<1>1. /\ worker[w].pc = "claimed" /\ worker[w].kind = "replay" /\ worker' = [worker EXCEPT ![w] = e]
      /\ UNCHANGED <<needs, serves, version, stamp, made, run, apply, task, sync, faults>>
  BY DEF BeginPage, Is
<1>2. Onward
  BY <1>1, WorkOnward
<1>3. /\ e \in Worker /\ e.pc = "paging" /\ e.seen = version /\ e.on = worker[w].on
      /\ e.kind = worker[w].kind /\ e.candidates = worker[w].candidates
  BY WorkerFacts DEF Worker, TypeOK
<1> HIDE DEF e
<1>4. /\ worker' \in [Workers -> Worker] /\ worker'[w] = e
      /\ \A v \in Workers \ {w} : worker'[v] = worker[v]
  BY <1>1, <1>3, WorkerFacts, WorkerBecomes
<1>5. TypeOK'
  BY <1>1, <1>4 DEF BundleInv, TypeOK
<1>6. WorkerOK(w)'
  <2>1. /\ worker'[w].pc = "paging" /\ worker'[w].kind = "replay" /\ worker'[w].seen = version
        /\ worker'[w].on = worker[w].on /\ worker'[w].candidates = worker[w].candidates
    BY <1>1, <1>3, <1>4
  <2>2. /\ \A a \in Applies : FoundOK(w, a)'
        /\ Snapshot(w)' = Snapshot(w)
        /\ (worker[w].on \in Applies)' /\ (task[JobOf(w)].status # "none")'
    BY <1>1, <1>2, <2>1, HandStays DEF Resting
  <2>3. version \in apply[worker[w].on].version..version
    <3>1. \A b \in Applies : version \in Nat /\ apply[b].version \in Nat /\ apply[b].version <= version
      BY <1>2, OnwardFacts
    <3> QED BY <2>1, <2>2, <3>1
  <2>4. Snapshot(w) # Null
    BY <1>1, WorkerFacts DEF WorkerOK, Holding
  <2> QED BY <1>1, <2>1, <2>2, <2>3, <2>4 DEF WorkerOK, Resting, Holding
<1> QED BY <1>1, <1>2, <1>4, <1>5, <1>6, WorkStep

\* The record of the worker becomes e, of the same job in a later stage.
LEMMA StageFacts ==
  ASSUME BundleInv, Onward, NEW w \in Workers, worker[w].pc \notin Resting \cup {"claiming"},
         NEW e \in Worker, worker' = [worker EXCEPT ![w] = e],
         e.on = worker[w].on, e.kind = worker[w].kind, e.candidates = worker[w].candidates,
         e.pc \notin Resting \cup {"claiming", "claimed", "paging"},
         e.pc = "recording" =>
           /\ worker[w].pc \in Holding
           /\ e.kind = "replay" => stamp'[Snapshot(w).cursor + 1] = version' \/ e.failed
                                   \/ apply'[e.on].version # version'
           /\ e.kind = "runtime" => e.on \in made'
  PROVE  /\ worker' \in [Workers -> Worker] /\ WorkerOK(w)'
         /\ \A v \in Workers \ {w} : worker'[v] = worker[v]
<1>1. /\ worker' \in [Workers -> Worker] /\ worker'[w] = e
      /\ \A v \in Workers \ {w} : worker'[v] = worker[v]
  BY WorkerFacts, WorkerBecomes
<1>2. /\ \A a \in Applies : FoundOK(w, a)'
      /\ Snapshot(w)' = Snapshot(w)
      /\ (worker[w].on \in Applies)' /\ (task[JobOf(w)].status # "none")'
  BY <1>1, HandStays
<1>3. worker[w].pc \in Holding => Snapshot(w) # Null
  BY WorkerFacts DEF WorkerOK
<1> QED BY <1>1, <1>2, <1>3 DEF WorkerOK, Resting, Holding

LEMMA ReplayPageInv ==
  ASSUME BundleInv, NEW w \in Workers, ReplayPage(w) PROVE BundleInv'
<1> DEFINE p == Snapshot(w).cursor + 1
           e == [worker[w] EXCEPT !.pc = "recording", !.seen = 0]
           f == [worker[w] EXCEPT !.pc = "recording", !.seen = 0, !.failed = TRUE]
<1>1. /\ worker[w].pc = "paging"
      /\ \/ stamp' = Replayed(p, worker[w].seen) /\ worker' = [worker EXCEPT ![w] = e]
            /\ UNCHANGED faults
         \/ stamp' = stamp /\ worker' = [worker EXCEPT ![w] = f] /\ Fault
      /\ UNCHANGED <<needs, serves, version, made, run, apply, task, sync>>
  BY DEF ReplayPage, Is
<1>2. /\ worker[w].kind = "replay" /\ worker[w].on \in Applies /\ worker[w].seen \in Nat
      /\ worker[w].seen \in apply[worker[w].on].version..version
  BY <1>1, WorkerFacts DEF WorkerOK, Resting, Worker
<1>3. p \in PageSet
  BY <1>1, SnapshotFacts DEF Holding
<1> HIDE DEF p
<1>4. /\ e \in Worker /\ e.pc = "recording" /\ e.on = worker[w].on /\ e.kind = worker[w].kind
      /\ e.candidates = worker[w].candidates
      /\ f \in Worker /\ f.pc = "recording" /\ f.on = worker[w].on /\ f.kind = worker[w].kind
      /\ f.candidates = worker[w].candidates /\ f.failed
  BY WorkerFacts DEF Worker
<1> HIDE DEF e, f
<1>5. Onward /\ version' \in Nat /\ stamp' \in [PageSet -> Nat]
  BY <1>1, <1>2, <1>3, WorkOnward
<1>6. worker' \in [Workers -> Worker] /\ WorkerOK(w)' /\ \A v \in Workers \ {w} : worker'[v] = worker[v]
  <2>1. CASE stamp' = Replayed(p, worker[w].seen) /\ worker' = [worker EXCEPT ![w] = e]
    <3>1. stamp'[p] = version \/ apply[worker[w].on].version # version
      <4>1. \A b \in Applies : apply[b].version \in Nat /\ version \in Nat
        BY <1>5, OnwardFacts
      <4>2. apply[worker[w].on].version = version => worker[w].seen = version
        BY <1>2, <4>1
      <4>3. stamp \in [PageSet -> Nat]
        BY WorkerFacts DEF TypeOK
      <4> QED BY <1>3, <2>1, <4>2, <4>3 DEF Replayed
    <3> QED BY <1>1, <1>2, <1>4, <1>5, <2>1, <3>1, StageFacts DEF Resting, Holding, p
  <2>2. CASE worker' = [worker EXCEPT ![w] = f]
    BY <1>1, <1>2, <1>4, <1>5, <2>2, StageFacts DEF Resting, Holding
  <2> QED BY <1>1, <2>1, <2>2
<1>7. faults' \in 0..MaxFaults
  BY <1>1, WorkerFacts, FaultFacts DEF TypeOK
<1>8. TypeOK'
  BY <1>1, <1>5, <1>6, <1>7 DEF BundleInv, TypeOK
<1> QED BY <1>1, <1>5, <1>6, <1>8, WorkStep

LEMMA MaterializeInv ==
  ASSUME BundleInv, NEW w \in Workers, Materialize(w) PROVE BundleInv'
<1> DEFINE e == [worker[w] EXCEPT !.pc = "recording"]
<1>1. /\ worker[w].pc = "claimed" /\ worker[w].kind = "runtime" /\ worker' = [worker EXCEPT ![w] = e]
      /\ made' = IF apply[worker[w].on].pc = "pending" THEN made ELSE made \cup {worker[w].on}
      /\ UNCHANGED <<needs, serves, version, stamp, run, apply, task, sync, faults>>
  BY DEF Materialize, Goes, Is
<1>2. worker[w].on \in Applies /\ task[<<worker[w].on, "runtime">>].status # "none"
  BY <1>1, HandFacts DEF Resting
<1>3. apply[worker[w].on].pc # "pending"
  BY <1>2, ApplyFacts DEF ApplyOK, BeforeRuntime
<1>4. made' = made \cup {worker[w].on}
  BY <1>1, <1>3
<1>5. Onward
  BY <1>1, <1>4, WorkOnward
<1>6. /\ e \in Worker /\ e.pc = "recording" /\ e.on = worker[w].on /\ e.kind = worker[w].kind
      /\ e.candidates = worker[w].candidates
  BY WorkerFacts DEF Worker
<1> HIDE DEF e
<1>7. worker' \in [Workers -> Worker] /\ WorkerOK(w)' /\ \A v \in Workers \ {w} : worker'[v] = worker[v]
  BY <1>1, <1>4, <1>5, <1>6, StageFacts DEF Resting, Holding
<1>8. TypeOK'
  BY <1>1, <1>2, <1>4, <1>7 DEF BundleInv, TypeOK
<1> QED BY <1>1, <1>5, <1>7, <1>8, WorkStep

LEMMA WorkFailsInv ==
  ASSUME BundleInv, NEW w \in Workers, WorkFails(w) PROVE BundleInv'
<1> DEFINE e == [worker[w] EXCEPT !.pc = "failing", !.seen = 0, !.outcome = "failed"]
<1>1. /\ worker[w].pc \in {"claimed", "paging", "recording", "closing", "reading", "writing"}
      /\ worker' = [worker EXCEPT ![w] = e] /\ Fault
      /\ UNCHANGED <<needs, serves, version, stamp, made, run, apply, task, sync>>
  BY DEF WorkFails, Is
<1>2. Onward
  BY <1>1, WorkOnward
<1>3. /\ e \in Worker /\ e.pc = "failing" /\ e.on = worker[w].on /\ e.kind = worker[w].kind
      /\ e.candidates = worker[w].candidates
  BY WorkerFacts DEF Worker
<1> HIDE DEF e
<1>4. worker' \in [Workers -> Worker] /\ WorkerOK(w)' /\ \A v \in Workers \ {w} : worker'[v] = worker[v]
  BY <1>1, <1>2, <1>3, StageFacts DEF Resting, Holding
<1>5. faults' \in 0..MaxFaults
  BY <1>1, WorkerFacts, FaultFacts
<1>6. TypeOK'
  BY <1>1, <1>4, <1>5 DEF BundleInv, TypeOK
<1> QED BY <1>1, <1>2, <1>4, <1>6, WorkStep

\* What follows when only the job of w may have changed, to t.
LEMMA RecordStep ==
  ASSUME BundleInv, NEW w \in Workers, worker[w].pc \notin Resting \cup {"claiming"},
         NEW t \in Task, t.status # "none", task' = Fenced(w, t),
         UNCHANGED <<needs, serves, version, stamp, made, run, apply, sync, faults>>,
         Rests(w) \/ Goes(w, "closing") \/ Goes(w, "reading"),
         t.status = "running" <=> t.lease # Null,
         t.status \in Active => t.cursor < Pages,
         worker[w].kind = "replay" => /\ t.status = "completed" => t.cursor = Pages
                                      /\ Covers(worker[w].on, t),
         worker[w].kind = "runtime" /\ t.status = "completed" => worker[w].on \in made
  PROVE  BundleInv'
<1> DEFINE j == JobOf(w)
<1>1. PICK k \in Kinds, a \in Applies : k = worker[w].kind /\ a = worker[w].on
  BY HandFacts
<1>2. JobOf(w) = <<a, k>> /\ <<a, k>> \in Jobs /\ <<a, k>>[1] = a /\ <<a, k>>[2] = k
  BY <1>1, HandFacts
<1>3. /\ task' \in [Applies \X Kinds -> Task]
      /\ \A i \in Jobs : \/ task'[i] = task[i]
                         \/ i = <<a, k>> /\ task'[i] = t
      /\ \A i \in Jobs : task[i].status = "none" <=> task'[i].status = "none"
  <2>1. /\ task' \in [Applies \X Kinds -> Task]
        /\ \A i \in Jobs : \/ task'[i] = task[i]
                           \/ i = JobOf(w) /\ task[i].status = "running" /\ task'[i] = t
        /\ \A i \in Jobs : task[i].status = "none" <=> task'[i].status = "none"
    BY FencedFacts
  <2> QED BY <1>2, <2>1
<1>4. Onward
  BY <1>3, WorkOnward
<1>5. worker' \in [Workers -> Worker] /\ WorkerOK(w)' /\ \A v \in Workers \ {w} : worker'[v] = worker[v]
  <2>1. CASE Rests(w)
    BY <2>1, RestFacts
  <2>2. ASSUME NEW pc \in {"closing", "reading"}, Goes(w, pc)
        PROVE  /\ worker' \in [Workers -> Worker] /\ WorkerOK(w)'
               /\ \A v \in Workers \ {w} : worker'[v] = worker[v]
    <3> DEFINE e == [worker[w] EXCEPT !.pc = pc]
    <3>1. /\ e \in Worker /\ e.pc = pc /\ e.on = worker[w].on /\ e.kind = worker[w].kind
          /\ e.candidates = worker[w].candidates
      BY WorkerFacts DEF Worker
    <3>2. worker' = [worker EXCEPT ![w] = e]
      BY <2>2 DEF Goes
    <3> HIDE DEF e
    <3> QED BY <1>4, <3>1, <3>2, StageFacts DEF Resting
  <2> QED BY <2>1, <2>2
<1>6. TypeOK'
  BY <1>3, <1>5 DEF BundleInv, TypeOK
<1>7. ASSUME NEW i \in Jobs, task'[i] # task[i] PROVE TaskOK(i)'
  <2>1. i = <<a, k>> /\ task'[i] = t /\ i[1] = a /\ i[2] = k
    BY <1>2, <1>3, <1>7
  <2>2. k = "replay" => Covers(a, task[i])'
    BY <1>1, <2>1 DEF Covers
  <2> QED BY <1>1, <2>1, <2>2 DEF TaskOK
<1> QED BY <1>3, <1>4, <1>5, <1>6, <1>7, WorkStep

\* The task after its page.
LEMMA AfterPageFacts ==
  ASSUME BundleInv, NEW w \in Workers, worker[w].pc = "recording", worker[w].kind = "replay"
  PROVE  LET t == AfterPage(w) IN
         /\ t \in Task /\ t.status \in {"queued", "completed"} /\ t.lease = Null
         /\ t.cursor = Snapshot(w).cursor + 1
         /\ t.status = "completed" <=> t.cursor = Pages
         /\ Snapshot(w).failed \subseteq t.failed
         /\ worker[w].failed => t.cursor \in t.failed
<1> DEFINE found == Snapshot(w)
           page == found.cursor + 1
           st == IF page = Pages THEN "completed" ELSE "queued"
           fl == IF worker[w].failed THEN found.failed \cup {page} ELSE found.failed
           e == [found EXCEPT !.status = st, !.cursor = page, !.due = TRUE, !.failed = fl]
<1>1. AfterPage(w) = e
  BY DEF AfterPage
<1>2. found \in Task /\ found.lease = Null /\ page \in PageSet
  BY SnapshotFacts DEF Holding
<1>3. fl \subseteq PageSet /\ found.failed \subseteq fl /\ (worker[w].failed => page \in fl)
  BY <1>2 DEF Task
<1>4. page \in 0..Pages
  BY <1>2, SettingAssumption DEF PageSet
<1>5. st \in {"queued", "completed"} /\ (st = "completed" <=> page = Pages)
  OBVIOUS
<1> HIDE DEF found, page, st, fl
<1>6. /\ e \in Task /\ e.status = st /\ e.lease = found.lease /\ e.cursor = page /\ e.failed = fl
  BY <1>2, <1>3, <1>4, <1>5 DEF Task
<1> HIDE DEF e
<1> QED BY <1>1, <1>2, <1>3, <1>5, <1>6 DEF found, page

LEMMA RecordPageInv ==
  ASSUME BundleInv, NEW w \in Workers, RecordPage(w) PROVE BundleInv'
<1> DEFINE t == AfterPage(w)
           a == worker[w].on
<1>1. /\ worker[w].pc = "recording" /\ worker[w].kind = "replay" /\ task' = Fenced(w, t)
      /\ Rests(w) \/ Goes(w, "closing")
      /\ UNCHANGED <<needs, serves, version, stamp, made, run, apply, sync, faults>>
  BY DEF RecordPage, Is
<1>2. /\ t \in Task /\ t.status \in {"queued", "completed"} /\ t.lease = Null
      /\ t.cursor = Snapshot(w).cursor + 1
      /\ t.status = "completed" <=> t.cursor = Pages
      /\ Snapshot(w).failed \subseteq t.failed
      /\ worker[w].failed => t.cursor \in t.failed
  BY <1>1, AfterPageFacts
<1> HIDE DEF t
<1>3. /\ Snapshot(w) \in Task /\ Snapshot(w).cursor < Pages /\ Covers(a, Snapshot(w))
      /\ Snapshot(w).cursor + 1 \in PageSet
  BY <1>1, SnapshotFacts DEF Holding
<1>4. t.cursor <= Pages /\ t.cursor \in Nat
  BY <1>2, <1>3, SettingAssumption DEF PageSet
<1>5. Covers(a, t)
  <2> SUFFICES ASSUME version = apply[a].version, NEW p \in 1..t.cursor
               PROVE  stamp[p] = version \/ p \in t.failed
    BY DEF Covers
  <2>1. CASE p = t.cursor
    <3>1. stamp[Snapshot(w).cursor + 1] = version \/ worker[w].failed
      BY <1>1, WorkerFacts DEF WorkerOK
    <3> QED BY <1>2, <2>1, <3>1
  <2>2. CASE p # t.cursor
    <3>1. p \in 1..Snapshot(w).cursor
      BY <1>2, <1>3, <1>4, <2>2, SettingAssumption DEF Task
    <3> QED BY <1>2, <1>3, <3>1 DEF Covers
  <2> QED BY <2>1, <2>2
<1>6. worker[w].pc \notin Resting \cup {"claiming"}
  BY <1>1 DEF Resting
<1>7. t.status \in Active => t.cursor < Pages
  BY <1>2, <1>4, SettingAssumption DEF Active
<1>8. worker[w].kind # "runtime"
  BY <1>1
<1> QED BY <1>1, <1>2, <1>5, <1>6, <1>7, <1>8, RecordStep

LEMMA RecordMaterializedInv ==
  ASSUME BundleInv, NEW w \in Workers, RecordMaterialized(w) PROVE BundleInv'
<1> DEFINE s == Snapshot(w)
           t == [s EXCEPT !.status = "completed"]
<1>1. /\ worker[w].pc = "recording" /\ worker[w].kind = "runtime" /\ task' = Fenced(w, t)
      /\ Goes(w, "reading")
      /\ UNCHANGED <<needs, serves, version, stamp, made, run, apply, sync, faults>>
  BY DEF RecordMaterialized, Is
<1>2. s \in Task /\ s.lease = Null
  BY <1>1, SnapshotFacts DEF Holding
<1> HIDE DEF s
<1>3. t \in Task /\ t.status = "completed" /\ t.lease = Null
  BY <1>2 DEF Task
<1> HIDE DEF t
<1>4. worker[w].on \in made /\ worker[w].pc \notin Resting \cup {"claiming"}
  BY <1>1, WorkerFacts DEF WorkerOK, Resting
<1> QED BY <1>1, <1>3, <1>4, RecordStep DEF Active

LEMMA RecordFailureInv ==
  ASSUME BundleInv, NEW w \in Workers, RecordFailure(w) PROVE BundleInv'
<1> DEFINE j == JobOf(w)
           s == task[j]
           t == [s EXCEPT !.status = "queued", !.lease = Null, !.lapsed = FALSE, !.due = FALSE]
<1>1. /\ worker[w].pc = "failing" /\ task' = Fenced(w, t)
      /\ Goes(w, "closing") \/ Goes(w, "reading")
      /\ UNCHANGED <<needs, serves, version, stamp, made, run, apply, sync, faults>>
  BY DEF RecordFailure, Is
<1>2. /\ s \in Task /\ TaskOK(j) /\ s.status # "none" /\ j[1] = worker[w].on /\ j[2] = worker[w].kind
      /\ worker[w].pc \notin Resting \cup {"claiming"}
  BY <1>1, HandFacts DEF Resting
<1>3. /\ s.status = "running" <=> s.lease # Null
      /\ s.status \in Active => s.cursor < Pages
      /\ worker[w].kind = "replay" => /\ s.status = "completed" => s.cursor = Pages
                                      /\ Covers(worker[w].on, s)
      /\ worker[w].kind = "runtime" /\ s.status = "completed" => worker[w].on \in made
  BY <1>2 DEF TaskOK
<1>4. CASE s.lease = w
  <2> HIDE DEF s
  <2>1. /\ t \in Task /\ t.status = "queued" /\ t.lease = Null /\ t.cursor = s.cursor
        /\ t.failed = s.failed
    BY <1>2 DEF Task
  <2> HIDE DEF t
  <2>2. s.cursor < Pages
    BY <1>3, <1>4, SettingAssumption DEF Active
  <2>3. worker[w].kind = "replay" => Covers(worker[w].on, t)
    BY <1>3, <2>1 DEF Covers
  <2> QED BY <1>1, <1>2, <2>1, <2>2, <2>3, RecordStep
<1>5. CASE s.lease # w
  <2>1. task' = Fenced(w, s)
    BY <1>1, <1>5 DEF Fenced
  <2> HIDE DEF s
  <2> QED BY <1>1, <1>2, <1>3, <2>1, RecordStep
<1> QED BY <1>4, <1>5

\* A step of the worker that leaves the tasks and what they were computed with.
LEMMA LateStep ==
  ASSUME BundleInv, NEW w \in Workers,
         UNCHANGED <<needs, serves, version, stamp, made, apply, task>>, TypeOK',
         WorkerOK(w)' \/ Rests(w), \A v \in Workers \ {w} : worker'[v] = worker[v]
  PROVE  BundleInv'
<1>1. Onward
  BY WorkOnward
<1>2. WorkerOK(w)'
  BY RestFacts
<1> QED BY <1>1, <1>2, WorkStep

LEMMA CloseSyncInv ==
  ASSUME BundleInv, NEW w \in Workers, CloseSync(w) PROVE BundleInv'
<1>1. worker' \in [Workers -> Worker] /\ \A v \in Workers \ {w} : worker'[v] = worker[v]
  BY RestFacts DEF CloseSync
<1>2. TypeOK'
  BY <1>1, WorkerFacts DEF BundleInv, TypeOK, CloseSync, Worker
<1> QED BY <1>1, <1>2, LateStep DEF CloseSync

LEMMA ReadReceiptInv ==
  ASSUME BundleInv, NEW w \in Workers, ReadReceipt(w) PROVE BundleInv'
<1> DEFINE o == run[worker[w].on].own
           e == [worker[w] EXCEPT !.pc = "writing", !.own = o]
<1>1. /\ worker[w].pc = "reading" /\ worker' = [worker EXCEPT ![w] = e]
      /\ UNCHANGED <<needs, serves, version, stamp, made, run, apply, task, sync, faults>>
  BY DEF ReadReceipt, Is
<1>2. worker[w].on \in Applies /\ worker[w].pc \notin Resting \cup {"claiming"}
  BY <1>1, HandFacts DEF Resting
<1>3. o \in Own
  BY <1>2, WorkerFacts DEF TypeOK, Run
<1> HIDE DEF o
<1>4. /\ e \in Worker /\ e.pc = "writing" /\ e.on = worker[w].on /\ e.kind = worker[w].kind
      /\ e.candidates = worker[w].candidates
  BY <1>3, WorkerFacts DEF Worker
<1> HIDE DEF e
<1>5. Onward
  BY <1>1, WorkOnward
<1>6. worker' \in [Workers -> Worker] /\ WorkerOK(w)' /\ \A v \in Workers \ {w} : worker'[v] = worker[v]
  BY <1>1, <1>2, <1>4, <1>5, StageFacts DEF Resting
<1>7. TypeOK'
  BY <1>1, <1>6 DEF BundleInv, TypeOK
<1> QED BY <1>1, <1>6, <1>7, LateStep

LEMMA WriteReceiptInv ==
  ASSUME BundleInv, NEW w \in Workers, WriteReceipt(w) PROVE BundleInv'
<1> DEFINE a == worker[w].on
           o == worker[w].own
           u == worker[w].outcome
           e == [run[a] EXCEPT !.own = o, !.runtime = u]
<1>1. /\ worker[w].pc = "writing" /\ run' = [run EXCEPT ![a] = e] /\ Rests(w)
      /\ UNCHANGED <<needs, serves, version, stamp, made, apply, task, sync, faults>>
  BY DEF WriteReceipt, Is
<1>2. a \in Applies
  BY <1>1, HandFacts DEF Resting
<1>3. o \in Own /\ u \in {"completed", "failed"}
  BY WorkerFacts DEF Worker
<1>4. run \in [Applies -> Run]
  BY WorkerFacts DEF TypeOK
<1> HIDE DEF a, o, u
<1>5. e \in Run
  BY <1>2, <1>3, <1>4 DEF Run
<1> HIDE DEF e
<1>6. worker' \in [Workers -> Worker] /\ \A v \in Workers \ {w} : worker'[v] = worker[v]
  BY <1>1, RestFacts
<1>7. TypeOK'
  BY <1>1, <1>4, <1>5, <1>6 DEF BundleInv, TypeOK
<1> QED BY <1>1, <1>6, <1>7, LateStep

LEMMA CrashInv ==
  ASSUME BundleInv, NEW w \in Workers, Crash(w) PROVE BundleInv'
<1>1. worker' \in [Workers -> Worker] /\ \A v \in Workers \ {w} : worker'[v] = worker[v]
  BY RestFacts DEF Crash
<1>2. faults' \in 0..MaxFaults
  BY WorkerFacts, FaultFacts DEF Crash
<1>3. TypeOK'
  BY <1>1, <1>2 DEF BundleInv, TypeOK, Crash
<1> QED BY <1>1, <1>3, LateStep DEF Crash

LEMMA WorkingInv ==
  ASSUME BundleInv, NEW w \in Workers, Working(w) PROVE BundleInv'
  BY FindInv, BeginPageInv, ReplayPageInv, MaterializeInv, WorkFailsInv, RecordPageInv,
     RecordMaterializedInv, RecordFailureInv, CloseSyncInv, ReadReceiptInv, WriteReceiptInv,
     ClaimInv, PassOverInv DEF Working

-----------------------------------------------------------------------------
(* Time, and the specification                                              *)

\* The row j becomes t: what it says of the work done is kept.
LEMMA TimeStep ==
  ASSUME BundleInv, NEW j \in Jobs, NEW t \in Task, task' = [task EXCEPT ![j] = t],
         t.status = task[j].status, t.lease = task[j].lease, t.cursor = task[j].cursor,
         t.failed = task[j].failed,
         UNCHANGED <<needs, serves, version, stamp, made, run, apply, sync, worker>>,
         faults' \in 0..MaxFaults
  PROVE  BundleInv'
<1>1. task[j] \in Task /\ TaskOK(j)
  BY RowFacts
<1>2. /\ task' \in [Applies \X Kinds -> Task] /\ task'[j] = t
      /\ \A i \in Jobs : i # j => task'[i] = task[i]
  BY TaskBecomes DEF BundleInv
<1>3. \A i \in Jobs : task[i].status = "none" <=> task'[i].status = "none"
  BY <1>2
<1>4. Onward
  BY <1>3, WorkOnward
<1>5. TypeOK'
  BY <1>2 DEF BundleInv, TypeOK
<1>6. TaskOK(j)'
  BY <1>1, <1>2 DEF TaskOK, Covers
<1>7. \A i \in Jobs : TaskOK(i)'
  BY <1>2, <1>4, <1>6, TaskStays
<1>8. \A b \in Applies : ApplyOK(b)'
  BY <1>3, <1>4, ApplyStays, JobFacts
<1>9. \A w \in Workers : WorkerOK(w)'
  BY <1>4, WorkerStays
<1> QED BY <1>5, <1>7, <1>8, <1>9 DEF BundleInv, Jobs

LEMMA LeaseLapsesInv ==
  ASSUME BundleInv, NEW j \in Jobs, LeaseLapses(j) PROVE BundleInv'
<1> DEFINE t == [task[j] EXCEPT !.lapsed = TRUE]
<1>1. /\ task' = [task EXCEPT ![j] = t]
      /\ Fault \/ UNCHANGED faults
      /\ UNCHANGED <<needs, serves, version, stamp, made, run, apply, sync, worker>>
  BY DEF LeaseLapses
<1>2. /\ t \in Task /\ t.status = task[j].status /\ t.lease = task[j].lease
      /\ t.cursor = task[j].cursor /\ t.failed = task[j].failed
  BY RowFacts DEF Task
<1> HIDE DEF t
<1>3. faults' \in 0..MaxFaults
  BY <1>1, FaultFacts DEF BundleInv, TypeOK
<1> QED BY <1>1, <1>2, <1>3, TimeStep

LEMMA RetryDueInv ==
  ASSUME BundleInv, NEW j \in Jobs, RetryDue(j) PROVE BundleInv'
<1> DEFINE t == [task[j] EXCEPT !.due = TRUE]
<1>1. /\ task' = [task EXCEPT ![j] = t]
      /\ UNCHANGED <<needs, serves, version, stamp, made, run, apply, sync, worker, faults>>
  BY DEF RetryDue
<1>2. /\ t \in Task /\ t.status = task[j].status /\ t.lease = task[j].lease
      /\ t.cursor = task[j].cursor /\ t.failed = task[j].failed
  BY RowFacts DEF Task
<1> HIDE DEF t
<1>3. faults' \in 0..MaxFaults
  BY <1>1 DEF BundleInv, TypeOK
<1> QED BY <1>1, <1>2, <1>3, TimeStep

LEMMA InitInv == Init => BundleInv
<1> SUFFICES ASSUME Init PROVE BundleInv
  OBVIOUS
<1> DEFINE r == [status |-> "none", own |-> "none", runtime |-> "none"]
           e == [pc |-> "idle", version |-> 0, seen |-> 0, runtime |-> "not_needed",
                 failed |-> FALSE, lost |-> FALSE]
<1>1. r \in Run /\ e \in Apply /\ e.pc = "idle" /\ e.version = 0
  BY DEF Run, Own, Apply
<1>2. /\ NoTask \in Task /\ NoTask.status = "none" /\ NoTask.lease = Null
      /\ IdleWorker \in Worker /\ IdleWorker.pc = "idle"
      /\ IdleWorker.candidates = NoCandidates /\ IdleWorker.on = Null
      /\ \A a \in Applies : NoCandidates[a] = Null
  BY NoTaskIsTask, IdleFacts DEF NoTask
<1>3. /\ run = [a \in Applies |-> r] /\ apply = [a \in Applies |-> e]
      /\ task = [j \in Applies \X Kinds |-> NoTask] /\ worker = [w \in Workers |-> IdleWorker]
      /\ sync = [a \in Applies |-> "none"] /\ stamp = [p \in PageSet |-> 0]
      /\ needs \in Needs /\ serves \in Serves /\ version = 0 /\ made = {} /\ faults = 0
  BY DEF Init
<1> HIDE DEF r, e
<1>4. /\ needs \in [Applies -> SUBSET Asks] /\ serves \in [Workers -> SUBSET Applies]
      /\ faults \in 0..MaxFaults
  BY <1>3, SettingAssumption
<1>5. TypeOK
  BY <1>1, <1>2, <1>3, <1>4 DEF TypeOK
<1>6. \A j \in Applies \X Kinds : TaskOK(j)
  BY <1>2, <1>3 DEF TaskOK, Active
<1>7. \A a \in Applies : ApplyOK(a)
  <2> SUFFICES ASSUME NEW a \in Applies PROVE ApplyOK(a)
    OBVIOUS
  <2>1. apply[a].pc = "idle" /\ apply[a].version = 0
    BY <1>1, <1>3
  <2>2. \A k \in Kinds : task[<<a, k>>].status = "none"
    BY <1>2, <1>3
  <2> QED BY <1>3, <2>1, <2>2 DEF ApplyOK, BeforeRuntime, BeforeReplay, Paged, Kinds
<1>8. \A w \in Workers : WorkerOK(w)
  BY <1>2, <1>3 DEF WorkerOK, FoundOK, Resting, Holding
<1> QED BY <1>5, <1>6, <1>7, <1>8 DEF BundleInv

LEMMA NextInv == BundleInv /\ [Next]_vars => BundleInv'
<1> SUFFICES ASSUME BundleInv, [Next]_vars PROVE BundleInv'
  OBVIOUS
<1>1. ASSUME NEW a \in Applies, Applying(a) PROVE BundleInv'
  BY <1>1, ApplyingInv
<1>2. ASSUME NEW w \in Workers, (\E k \in Kinds : Requeue(w, k)) \/ Working(w) \/ Crash(w)
      PROVE  BundleInv'
  BY <1>2, RequeueInv, WorkingInv, CrashInv
<1>3. ASSUME NEW j \in Applies \X Kinds, LeaseLapses(j) \/ RetryDue(j) PROVE BundleInv'
  BY <1>3, LeaseLapsesInv, RetryDueInv DEF Jobs
<1>4. CASE UNCHANGED vars
  BY <1>4 DEF vars, BundleInv, TypeOK, TaskOK, ApplyOK, WorkerOK, FoundOK, Covers, JobOf, Snapshot,
              NoCandidates
<1> QED BY <1>1, <1>2, <1>3, <1>4 DEF Next

\* BundleInv holds for any number of applies, workers and pages, whatever fails.
THEOREM BundleInvariant == Spec => []BundleInv
<1>1. BundleInv /\ [Next]_vars => BundleInv'
  BY NextInv
<1> QED BY InitInv, <1>1, PTL DEF Spec

\* Every part of the state of applies, tasks and workers has its type.
THEOREM TypesHold == Spec => []TypeOK
<1>1. BundleInv => TypeOK
  BY DEF BundleInv
<1> QED BY BundleInvariant, <1>1, PTL

\* The pages behind the cursor of a replay task (runNextPage, cursorIdentityId) were
\* replayed under the mappings of its run or later ones, or are counted as failed.
THEOREM CursorsCover == Spec => []CursorCovers
<1>1. BundleInv => CursorCovers
  <2> SUFFICES ASSUME BundleInv, NEW a \in Applies PROVE
        task[<<a, "replay">>].status # "none" => Covers(a, task[<<a, "replay">>])
    BY DEF CursorCovers, Covers
  <2>1. /\ <<a, "replay">> \in Jobs /\ TaskOK(<<a, "replay">>)
    BY JobFacts, RowFacts DEF Kinds
  <2> QED BY <2>1 DEF TaskOK
<1> QED BY BundleInvariant, <1>1, PTL

\* A runtime task is completed (runNext) only when its run was materialized after the
\* transaction of the apply committed.
THEOREM CompletedIsCarriedOut == Spec => []CompletedIsMade
<1>1. BundleInv => CompletedIsMade
  <2> SUFFICES ASSUME BundleInv, NEW a \in Applies, task[<<a, "runtime">>].status = "completed"
               PROVE  a \in made
    BY DEF CompletedIsMade
  <2>1. /\ <<a, "runtime">> \in Jobs /\ TaskOK(<<a, "runtime">>)
    BY JobFacts, RowFacts DEF Kinds
  <2> QED BY <2>1 DEF TaskOK
<1> QED BY BundleInvariant, <1>1, PTL

-----------------------------------------------------------------------------
(* Settled tasks                                                            *)

Settled == {"completed", "cancelled"}

\* What a request may do to the rows of the tasks.
LEMMA RequestRows ==
  ASSUME NEW a \in Applies, Applying(a)
  PROVE  \/ task' = task
         \/ apply[a].pc = "committed" /\ task' = WithRuntime(a)
         \/ (CancelOlder(a) \/ ReplayLost(a)) /\ task' = WithCancelled
         \/ /\ InsertReplay(a) \/ ReplayLost(a)
            /\ apply[a].pc = "inserting" /\ task' = WithReplay(a)
  BY DEF Applying, Begin, Commit, Fail, EnqueueRuntime, EnqueueRuntimeFails, BeginFirstPage,
         FirstPage, StartSync, CancelOlder, InsertReplay, ReplayLost, Preview, Finish, Die, At

LEMMA RequestSettled ==
  ASSUME BundleInv, NEW a \in Applies, Applying(a), NEW j \in Jobs, task[j].status \in Settled
  PROVE  task'[j] = task[j]
<1> DEFINE r == <<a, "runtime">>
           s == <<a, "replay">>
<1>1. /\ r \in Jobs /\ s \in Jobs /\ task[j].status \notin Active /\ task[j].status # "none"
      /\ task \in [Jobs -> Task]
  BY JobFacts DEF Kinds, Settled, Active, BundleInv, TypeOK, Jobs
<1>2. CASE apply[a].pc = "committed" /\ task' = WithRuntime(a)
  <2>1. task[r].status = "none"
    BY <1>2, ApplyFacts DEF ApplyOK, BeforeRuntime
  <2>2. PICK t : task' = [task EXCEPT ![r] = t]
    BY <1>2 DEF WithRuntime
  <2> HIDE DEF r
  <2> QED BY <1>1, <2>1, <2>2
<1>3. CASE task' = WithCancelled
  <2>1. task' = [i \in Jobs |-> IF i[2] = "replay" THEN Cancelled(task[i]) ELSE task[i]]
    BY <1>3 DEF WithCancelled, Jobs
  <2>2. Cancelled(task[j]) = task[j]
    BY <1>1 DEF Cancelled
  <2> QED BY <2>1, <2>2
<1>4. CASE apply[a].pc = "inserting" /\ task' = WithReplay(a)
  <2>1. task[s].status = "none"
    BY <1>4, ApplyFacts DEF ApplyOK, BeforeReplay
  <2>2. PICK t : task' = [task EXCEPT ![s] = t]
    BY <1>4 DEF WithReplay
  <2> HIDE DEF s
  <2> QED BY <1>1, <2>1, <2>2
<1> QED BY <1>2, <1>3, <1>4, RequestRows

\* What a worker records changes only a row that is running, and only its own job.
LEMMA FencedSettled ==
  ASSUME BundleInv, NEW w \in Workers, worker[w].pc \notin Resting \cup {"claiming"},
         NEW t, task' = Fenced(w, t), NEW j \in Jobs, task[j].status \in Settled
  PROVE  task'[j] = task[j]
<1> DEFINE i == JobOf(w)
<1>1. i \in Jobs /\ TaskOK(i) /\ task \in [Jobs -> Task]
  BY HandFacts DEF BundleInv, TypeOK, Jobs
<1> HIDE DEF i
<1>2. CASE task[i].lease = w
  <2>1. task[i].status = "running"
    BY <1>1, <1>2, SettingAssumption DEF TaskOK
  <2>2. task' = [task EXCEPT ![i] = t]
    BY <1>2 DEF Fenced, i
  <2> QED BY <1>1, <2>1, <2>2 DEF Settled
<1>3. CASE task[i].lease # w
  BY <1>3 DEF Fenced, i
<1> QED BY <1>2, <1>3

LEMMA WorkSettled ==
  ASSUME BundleInv, NEW w \in Workers, NEW j \in Jobs, task[j].status \in Settled,
         (\E k \in Kinds : Requeue(w, k)) \/ Working(w) \/ Crash(w)
  PROVE  task'[j] = task[j]
<1>1. ASSUME NEW k \in Kinds, Requeue(w, k) PROVE task'[j] = task[j]
  <2>1. task' = [i \in Jobs |->
                   IF i[1] \in serves[w] /\ i[2] = k THEN Requeued(task[i]) ELSE task[i]]
    BY <1>1 DEF Requeue, Jobs
  <2>2. Requeued(task[j]) = task[j]
    BY DEF Requeued, Settled
  <2> QED BY <2>1, <2>2
<1>2. ASSUME NEW a \in Applies, Claim(w, a) PROVE task'[j] = task[j]
  <2>1. PICK k \in Kinds : k = worker[w].kind
    BY WorkerFacts
  <2> DEFINE i == <<a, k>>
  <2>2. PICK t : task' = [task EXCEPT ![i] = t] /\ task[i].status = "queued"
    BY <1>2, <2>1 DEF Claim
  <2>3. i \in Jobs /\ task \in [Jobs -> Task]
    BY JobFacts DEF BundleInv, TypeOK, Jobs
  <2> HIDE DEF i
  <2> QED BY <2>2, <2>3 DEF Settled
<1>3. CASE RecordPage(w)
  BY <1>3, FencedSettled DEF RecordPage, Is, Resting
<1>4. CASE RecordMaterialized(w)
  BY <1>4, FencedSettled DEF RecordMaterialized, Is, Resting
<1>5. CASE RecordFailure(w)
  BY <1>5, FencedSettled DEF RecordFailure, Is, Resting
<1>6. CASE \/ Find(w) \/ BeginPage(w) \/ ReplayPage(w) \/ Materialize(w) \/ WorkFails(w)
           \/ CloseSync(w) \/ ReadReceipt(w) \/ WriteReceipt(w) \/ Crash(w)
           \/ \E a \in Applies : PassOver(w, a)
  BY <1>6 DEF Find, BeginPage, ReplayPage, Materialize, WorkFails, CloseSync, ReadReceipt,
              WriteReceipt, Crash, PassOver
<1> QED BY <1>1, <1>2, <1>3, <1>4, <1>5, <1>6 DEF Working

LEMMA SettledStep ==
  ASSUME BundleInv, [Next]_vars, NEW j \in Jobs, task[j].status \in Settled
  PROVE  task'[j] = task[j]
<1>1. ASSUME NEW i \in Jobs, LeaseLapses(i) \/ RetryDue(i) PROVE task'[j] = task[j]
  <2>1. task[i].status \in Active /\ i # j
    BY <1>1 DEF LeaseLapses, RetryDue, Active, Settled
  <2>2. task \in [Jobs -> Task]
    BY DEF BundleInv, TypeOK, Jobs
  <2> QED BY <1>1, <2>1, <2>2 DEF LeaseLapses, RetryDue
<1>2. CASE UNCHANGED vars
  BY <1>2 DEF vars
<1> QED BY <1>1, <1>2, RequestSettled, WorkSettled DEF Next, Jobs

\* No late worker takes a completed or cancelled task up again (updateTaskForLease).
THEOREM SettledStay == Spec => SettledStays
<1>1. BundleInv /\ [Next]_vars =>
        [\A j \in Applies \X Kinds :
           task[j].status \in {"completed", "cancelled"} =>
             task'[j].status = task[j].status]_vars
  BY SettledStep DEF Settled, Jobs
<1> QED BY BundleInvariant, <1>1, PTL DEF Spec, SettledStays

-----------------------------------------------------------------------------
(* When all is quiet                                                        *)

FirstFailed == \E a \in Applies : "replay" \in needs[a] /\ apply[a].failed

Fresh(p) == stamp[p] = version \/ (p = 1 /\ FirstFailed)

CoversNow(t) == \A p \in 1..t.cursor : Fresh(p) \/ p \in t.failed

\* A run with the newest mappings has yet to cancel the tasks of the others.
WillCancel(a) ==
  /\ apply[a].version = version /\ "replay" \in needs[a]
  /\ apply[a].pc \in {"committed", "replaying", "paging", "starting", "cancelling"}

\* Every page is fresh, or counted as failed in a row that no longer changes.
AllFresh ==
  \A p \in PageSet :
    \/ Fresh(p)
    \/ \E a \in Applies : /\ task[<<a, "replay">>].status = "completed"
                          /\ p \in task[<<a, "replay">>].failed

\* A worker with the task of a in hand works under the newest mappings.
WorksNow(w, a) ==
  worker[w].kind = "replay" =>
    /\ worker[w].candidates[a] # Null => CoversNow(worker[w].candidates[a])
    /\ worker[w].on = a /\ worker[w].pc = "paging" => worker[w].seen = version
    /\ worker[w].on = a /\ worker[w].pc = "recording" =>
         stamp[Snapshot(w).cursor + 1] = version \/ worker[w].failed

ActiveAreFresh ==
  \A a \in Applies : task[<<a, "replay">>].status \in Active =>
    CoversNow(task[<<a, "replay">>]) /\ \A w \in Workers : WorksNow(w, a)

InHand == \E a \in Applies : At(a, "inserting") \/ task[<<a, "replay">>].status \in Active

\* No replay is asked for, or a request is lost, or one will cancel all the others, or all is done, or what is still
\* to be done goes on from pages that are fresh.
Settling ==
  \/ ~ReplayAsked
  \/ \E a \in Applies : Lost(a)
  \/ \E a \in Applies : WillCancel(a)
  \/ AllFresh
  \/ Fresh(1) /\ ActiveAreFresh /\ InHand

\* A step that leaves the mappings, and stamps pages with the newest version only.
Steady ==
  /\ needs' = needs /\ version' = version
  /\ \A p \in PageSet : stamp'[p] = stamp[p] \/ stamp'[p] = version
  /\ \A a \in Applies : "replay" \in needs[a] /\ apply[a].failed => apply'[a].failed
  /\ \A j \in Jobs : task[j].status \in Settled => task'[j] = task[j]

LEMMA FreshStays ==
  ASSUME Steady, NEW p \in PageSet, Fresh(p) PROVE Fresh(p)'
  BY DEF Steady, Fresh, FirstFailed

LEMMA CoversNowStays ==
  ASSUME Steady, NEW t \in Task, CoversNow(t) PROVE CoversNow(t)'
<1> SUFFICES ASSUME NEW p \in 1..t.cursor PROVE Fresh(p)' \/ p \in t.failed
  BY DEF CoversNow
<1>1. p \in PageSet
  BY SettingAssumption DEF Task, PageSet
<1> QED BY <1>1, FreshStays DEF CoversNow

LEMMA AllFreshStays ==
  ASSUME Steady, AllFresh PROVE AllFresh'
<1> SUFFICES ASSUME NEW p \in PageSet, ~Fresh(p)'
             PROVE  \E a \in Applies : /\ task'[<<a, "replay">>].status = "completed"
                                       /\ p \in task'[<<a, "replay">>].failed
  BY DEF AllFresh, PageSet
<1>1. PICK a \in Applies : /\ task[<<a, "replay">>].status = "completed"
                           /\ p \in task[<<a, "replay">>].failed
  BY FreshStays DEF AllFresh
<1>2. task'[<<a, "replay">>] = task[<<a, "replay">>]
  BY <1>1, JobFacts DEF Steady, Settled, Kinds
<1> QED BY <1>1, <1>2

LEMMA WorksNowStays ==
  ASSUME BundleInv, Steady, NEW w \in Workers, NEW a \in Applies, WorksNow(w, a),
         worker'[w] = worker[w]
  PROVE  WorksNow(w, a)'
<1> SUFFICES ASSUME worker[w].kind = "replay" PROVE WorksNow(w, a)'
  BY DEF WorksNow
<1>1. ASSUME worker[w].candidates[a] # Null PROVE CoversNow(worker[w].candidates[a])'
  <2>1. /\ worker[w].candidates[a] \in Task /\ CoversNow(worker[w].candidates[a])
    BY <1>1, WorkerFacts DEF WorksNow
  <2>2. \A t \in Task : CoversNow(t) => CoversNow(t)'
    BY CoversNowStays
  <2>3. \A t \in Task : t = worker[w].candidates[a] => CoversNow(t)'
    BY <2>1, <2>2
  <2> QED BY <2>1, <2>3 DEF CoversNow
<1>2. worker[w].pc = "recording" => Snapshot(w).cursor + 1 \in PageSet
  BY SnapshotFacts DEF Holding
<1>3. Snapshot(w)' = Snapshot(w)
  BY DEF Snapshot
<1> QED BY <1>1, <1>2, <1>3 DEF WorksNow, Steady

\* Active rows stay fresh when none becomes active but those that are, and what the
\* workers have in hand is as it was, or fresh.
LEMMA ActiveStayFresh ==
  ASSUME BundleInv, Steady, ActiveAreFresh,
         \A a \in Applies : task'[<<a, "replay">>].status \in Active =>
            /\ task[<<a, "replay">>].status \in Active
            /\ \/ /\ task'[<<a, "replay">>].cursor = task[<<a, "replay">>].cursor
                  /\ task'[<<a, "replay">>].failed = task[<<a, "replay">>].failed
               \/ CoversNow(task[<<a, "replay">>])'
            /\ \A w \in Workers : worker'[w] = worker[w] \/ WorksNow(w, a)'
  PROVE  ActiveAreFresh'
<1> SUFFICES ASSUME NEW a \in Applies, task'[<<a, "replay">>].status \in Active
             PROVE  /\ CoversNow(task[<<a, "replay">>])'
                    /\ \A w \in Workers : WorksNow(w, a)'
  BY DEF ActiveAreFresh, Active
<1>1. /\ task[<<a, "replay">>].status \in Active
      /\ CoversNow(task[<<a, "replay">>]) /\ \A w \in Workers : WorksNow(w, a)
      /\ task[<<a, "replay">>] \in Task
  BY JobFacts, RowFacts DEF ActiveAreFresh, Kinds
<1>2. CoversNow(task[<<a, "replay">>])'
  <2>1. CASE /\ task'[<<a, "replay">>].cursor = task[<<a, "replay">>].cursor
             /\ task'[<<a, "replay">>].failed = task[<<a, "replay">>].failed
    <3>1. \A t \in Task : CoversNow(t) => CoversNow(t)'
      BY CoversNowStays
    <3>2. \A t \in Task : t = task[<<a, "replay">>] => CoversNow(t)'
      BY <1>1, <3>1
    <3> QED BY <1>1, <2>1, <3>2 DEF CoversNow
  <2> QED BY <2>1
<1>3. \A w \in Workers : WorksNow(w, a)'
  BY <1>1, WorksNowStays
<1> QED BY <1>2, <1>3

\* What every step of a request keeps.
LEMMA RequestFacts ==
  ASSUME BundleInv, NEW a \in Applies, Applying(a)
  PROVE  /\ worker' = worker /\ needs' = needs
         /\ \A b \in Applies \ {a} : apply'[b] = apply[b]
         /\ apply[a].pc # "dead"
         /\ "replay" \in needs[a] /\ apply[a].failed => apply'[a].failed
         /\ "replay" \in needs[a] /\ apply[a].lost => apply'[a].lost
         /\ apply'[a].version = apply[a].version \/ Commit(a)
         /\ version' = version \/ (Commit(a) /\ needs[a] \cap Modes # {})
<1>1. /\ worker' = worker /\ needs' = needs /\ apply[a].pc # "dead"
      /\ version' = version \/ (Commit(a) /\ needs[a] \cap Modes # {})
  BY DEF Applying, Begin, Commit, Fail, EnqueueRuntime, EnqueueRuntimeFails, BeginFirstPage,
         FirstPage, StartSync, CancelOlder, InsertReplay, ReplayLost, Preview, Finish, Die, At
<1> DEFINE Kept(e) == /\ "replay" \in needs[a] /\ apply[a].failed => e.failed
                      /\ "replay" \in needs[a] /\ apply[a].lost => e.lost
                      /\ e.version = apply[a].version \/ Commit(a)
<1>2. ASSUME NEW pc \in {"idle", "pending", "committed", "replaying", "paging", "starting",
                         "cancelling", "inserting", "previewing", "finishing", "done", "dead"},
             Move(a, pc)
      PROVE  /\ \A b \in Applies \ {a} : apply'[b] = apply[b]
             /\ Kept(apply'[a])
  BY <1>2, Moves
<1>3. ASSUME NEW e, Kept(e), apply' = [apply EXCEPT ![a] = e]
      PROVE  /\ \A b \in Applies \ {a} : apply'[b] = apply[b]
             /\ Kept(apply'[a])
  BY <1>3, ApplyFacts DEF TypeOK
<1>4. apply[a] \in Apply
  BY ApplyFacts
<1>5. CASE Begin(a) \/ Fail(a) \/ StartSync(a) \/ CancelOlder(a) \/ InsertReplay(a)
           \/ Finish(a) \/ Die(a)
  BY <1>1, <1>2, <1>5 DEF Begin, Fail, StartSync, CancelOlder, InsertReplay, Finish, Die
<1>6. CASE Commit(a)
  <2> DEFINE pc == Committed(a)
             e == [apply[a] EXCEPT !.pc = pc, !.version = version']
  <2>1. apply' = [apply EXCEPT ![a] = e]
    BY <1>6 DEF Commit
  <2> HIDE DEF pc
  <2>2. e.failed = apply[a].failed /\ e.lost = apply[a].lost
    BY <1>4 DEF Apply
  <2> HIDE DEF e
  <2> QED BY <1>1, <1>3, <1>6, <2>1, <2>2
<1>7. CASE EnqueueRuntime(a) \/ EnqueueRuntimeFails(a)
  <2>1. PICK r \in {"queued", "failed"}, pc \in {Replaying(a)} :
          apply' = [apply EXCEPT ![a] = [@ EXCEPT !.pc = pc, !.runtime = r]]
    BY <1>7 DEF EnqueueRuntime, EnqueueRuntimeFails
  <2> DEFINE e == [apply[a] EXCEPT !.pc = pc, !.runtime = r]
  <2>2. apply' = [apply EXCEPT ![a] = e]
    BY <2>1
  <2>3. e.failed = apply[a].failed /\ e.lost = apply[a].lost /\ e.version = apply[a].version
    BY <1>4 DEF Apply
  <2> HIDE DEF e
  <2> QED BY <1>1, <1>3, <2>2, <2>3
<1>8. CASE BeginFirstPage(a)
  <2> DEFINE e == [apply[a] EXCEPT !.pc = "paging", !.seen = version]
  <2>1. apply' = [apply EXCEPT ![a] = e]
    BY <1>8 DEF BeginFirstPage
  <2>2. e.failed = apply[a].failed /\ e.lost = apply[a].lost /\ e.version = apply[a].version
    BY <1>4 DEF Apply
  <2> HIDE DEF e
  <2> QED BY <1>1, <1>3, <2>1, <2>2
<1>9. CASE FirstPage(a)
  <2> DEFINE after == IF Pages > 1 THEN "starting" ELSE "finishing"
             e == [apply[a] EXCEPT !.pc = after, !.failed = TRUE]
  <2>1. Move(a, after) \/ apply' = [apply EXCEPT ![a] = e]
    BY <1>9 DEF FirstPage
  <2>2. after \in {"starting", "finishing"}
    OBVIOUS
  <2> HIDE DEF after
  <2>3. e.failed /\ e.lost = apply[a].lost /\ e.version = apply[a].version
    BY <1>4 DEF Apply
  <2> HIDE DEF e
  <2> QED BY <1>1, <1>2, <1>3, <2>1, <2>2, <2>3
<1>10. CASE ReplayLost(a)
  <2> DEFINE e == [apply[a] EXCEPT !.pc = "finishing", !.lost = TRUE]
  <2>1. apply' = [apply EXCEPT ![a] = e]
    BY <1>10 DEF ReplayLost
  <2>2. e.failed = apply[a].failed /\ e.lost /\ e.version = apply[a].version
    BY <1>4 DEF Apply
  <2> HIDE DEF e
  <2> QED BY <1>1, <1>3, <2>1, <2>2
<1>11. CASE Preview(a)
  <2>1. "replay" \notin needs[a]
    BY <1>11, ApplyFacts DEF Preview, At, ApplyOK
  <2>2. CASE Move(a, "finishing")
    BY <1>1, <1>2, <2>2
  <2>3. ASSUME NEW thrown \in BOOLEAN,
               apply' = [apply EXCEPT ![a] =
                           [@ EXCEPT !.pc = "finishing", !.failed = ~thrown, !.lost = thrown]]
        PROVE  /\ \A b \in Applies \ {a} : apply'[b] = apply[b]
               /\ Kept(apply'[a])
    <3> DEFINE e == [apply[a] EXCEPT !.pc = "finishing", !.failed = ~thrown, !.lost = thrown]
    <3>1. apply' = [apply EXCEPT ![a] = e]
      BY <2>3
    <3>2. e.version = apply[a].version
      BY <1>4 DEF Apply
    <3> HIDE DEF e
    <3> QED BY <1>3, <2>1, <3>1, <3>2
  <2> QED BY <1>1, <1>11, <2>2, <2>3 DEF Preview
<1> QED BY <1>5, <1>6, <1>7, <1>8, <1>9, <1>10, <1>11 DEF Applying

\* What the steps of workers, and time, keep.
LEMMA WorkFacts ==
  ASSUME BundleInv, NEW w \in Workers,
         (\E k \in Kinds : Requeue(w, k)) \/ Working(w) \/ Crash(w)
  PROVE  apply' = apply /\ needs' = needs /\ version' = version
  BY DEF Requeue, Working, Crash, Find, Claim, PassOver, BeginPage, ReplayPage, Materialize,
         WorkFails, RecordPage, RecordMaterialized, RecordFailure, CloseSync, ReadReceipt,
         WriteReceipt

LEMMA TimeFacts ==
  ASSUME NEW j \in Jobs, LeaseLapses(j) \/ RetryDue(j)
  PROVE  UNCHANGED <<needs, version, stamp, apply, worker>>
  BY DEF LeaseLapses, RetryDue

LEMMA StampStep ==
  ASSUME BundleInv, [Next]_vars, NEW q \in PageSet
  PROVE  stamp'[q] = stamp[q] \/ stamp'[q] = version
<1>1. stamp \in [PageSet -> Nat]
  BY DEF BundleInv, TypeOK
<1>2. ASSUME NEW p, NEW s, stamp' = Replayed(p, s) PROVE stamp'[q] = stamp[q] \/ stamp'[q] = version
  BY <1>1, <1>2 DEF Replayed
<1>3. ASSUME NEW a \in Applies, Applying(a) PROVE stamp'[q] = stamp[q] \/ stamp'[q] = version
  BY <1>2, <1>3
  DEF Applying, Begin, Commit, Fail, EnqueueRuntime, EnqueueRuntimeFails, BeginFirstPage,
      FirstPage, StartSync, CancelOlder, InsertReplay, ReplayLost, Preview, Finish, Die
<1>4. ASSUME NEW w \in Workers, (\E k \in Kinds : Requeue(w, k)) \/ Working(w) \/ Crash(w)
      PROVE  stamp'[q] = stamp[q] \/ stamp'[q] = version
  BY <1>2, <1>4
  DEF Requeue, Working, Crash, Find, Claim, PassOver, BeginPage, ReplayPage, Materialize,
      WorkFails, RecordPage, RecordMaterialized, RecordFailure, CloseSync, ReadReceipt,
      WriteReceipt
<1> QED BY <1>3, <1>4, TimeFacts DEF Next, Jobs, vars

LEMMA StepSteady ==
  ASSUME BundleInv, [Next]_vars, version' = version PROVE Steady
<1>1. \A j \in Jobs : task[j].status \in Settled => task'[j] = task[j]
  BY SettledStep
<1>2. \A p \in PageSet : stamp'[p] = stamp[p] \/ stamp'[p] = version
  BY StampStep
<1>3. /\ needs' = needs
      /\ \A a \in Applies : "replay" \in needs[a] /\ apply[a].failed => apply'[a].failed
  BY RequestFacts, WorkFacts, TimeFacts DEF Next, Jobs, vars
<1> QED BY <1>1, <1>2, <1>3 DEF Steady

LEMMA LostStays ==
  ASSUME BundleInv, [Next]_vars, NEW a \in Applies, Lost(a) PROVE Lost(a)'
<1>1. ASSUME NEW b \in Applies, Applying(b) PROVE Lost(a)'
  BY <1>1, RequestFacts DEF Lost
<1> QED BY <1>1, WorkFacts, TimeFacts DEF Next, Jobs, vars, Lost

\* Only a commit makes the newest change one that is to be replayed.
LEMMA UnaskedStays ==
  ASSUME BundleInv, [Next]_vars, version' = version, ~ReplayAsked PROVE ~ReplayAsked'
<1> SUFFICES ASSUME NEW b \in Applies, "replay" \in needs'[b], apply'[b].version = version
             PROVE  FALSE
  BY DEF ReplayAsked
<1>1. needs' = needs /\ (apply'[b].version = apply[b].version \/ Commit(b))
  BY RequestFacts, WorkFacts, TimeFacts DEF Next, Jobs, vars
<1>2. CASE Commit(b)
  <2>1. version' = version + 1 /\ version \in Nat
    BY <1>1, <1>2, ApplyFacts DEF Commit, Modes
  <2> QED BY <2>1
<1>3. CASE apply'[b].version = apply[b].version
  BY <1>1, <1>3 DEF ReplayAsked
<1> QED BY <1>1, <1>2, <1>3

\* A change whose bundle asks for a preview, or for no replay.
LEMMA CommitUnasked ==
  ASSUME BundleInv, NEW a \in Applies, Commit(a), needs[a] \cap Modes # {},
         "replay" \notin needs[a]
  PROVE  ~ReplayAsked'
<1>1. /\ needs' = needs /\ version' = version + 1 /\ version \in Nat
      /\ \A b \in Applies \ {a} : apply'[b] = apply[b]
  BY ApplyFacts, RequestFacts DEF Applying, Commit
<1>2. ASSUME NEW b \in Applies \ {a} PROVE apply'[b].version # version'
  <2>1. apply[b].version \in Nat /\ apply[b].version <= version
    BY ApplyFacts DEF ApplyOK, Apply
  <2>2. apply[b].version # version + 1
    BY <1>1, <2>1
  <2> QED BY <1>1, <2>2
<1> QED BY <1>1, <1>2 DEF ReplayAsked

LEMMA CommitSettling ==
  ASSUME BundleInv, NEW a \in Applies, Commit(a), "replay" \in needs[a]
  PROVE  Settling'
<1> DEFINE pc == Committed(a)
           e == [apply[a] EXCEPT !.pc = pc, !.version = version']
<1>1. apply' = [apply EXCEPT ![a] = e] /\ needs' = needs
  BY DEF Commit
<1>2. pc \in {"committed", "replaying"}
  BY DEF Committed, Replaying
<1> HIDE DEF pc
<1>3. e.pc = pc /\ e.version = version'
  BY ApplyFacts DEF Apply
<1> HIDE DEF e
<1>4. apply'[a] = e
  BY <1>1, ApplyFacts DEF TypeOK
<1>5. WillCancel(a)'
  BY <1>1, <1>2, <1>3, <1>4 DEF WillCancel
<1> QED BY <1>5 DEF Settling

\* A request that dies, or reports its enqueuing as failed.
LEMMA LosingStep ==
  ASSUME BundleInv, NEW a \in Applies, apply[a].version > 0, "replay" \in needs[a],
         Die(a) \/ ReplayLost(a)
  PROVE  Lost(a)'
<1>1. needs' = needs
  BY DEF Die, ReplayLost
<1>2. CASE Die(a)
  <2>1. apply'[a].pc = "dead" /\ apply'[a].version = apply[a].version
    BY <1>2, Moves DEF Die
  <2> QED BY <1>1, <2>1 DEF Lost
<1>3. CASE ReplayLost(a)
  <2> DEFINE e == [apply[a] EXCEPT !.pc = "finishing", !.lost = TRUE]
  <2>1. apply' = [apply EXCEPT ![a] = e]
    BY <1>3 DEF ReplayLost
  <2>2. e.lost
    BY ApplyFacts DEF Apply
  <2> HIDE DEF e
  <2>3. apply'[a] = e
    BY <2>1, ApplyFacts DEF TypeOK
  <2> QED BY <1>1, <2>2, <2>3 DEF Lost
<1> QED BY <1>2, <1>3

\* After the cancelling no replay task is active, and the newest run has page 1 behind it.
LEMMA CancelSettling ==
  ASSUME BundleInv, Steady, NEW a \in Applies, CancelOlder(a), Fresh(1)
  PROVE  Fresh(1)' /\ ActiveAreFresh' /\ InHand'
<1>1. apply'[a].pc = "inserting"
  BY Moves DEF CancelOlder
<1>2. ASSUME NEW b \in Applies PROVE task'[<<b, "replay">>].status \notin Active
  <2> DEFINE j == <<b, "replay">>
  <2>1. j \in Jobs /\ j[2] = "replay"
    BY JobFacts DEF Kinds
  <2>2. task'[j] = Cancelled(task[j])
    BY <2>1 DEF CancelOlder, WithCancelled, Jobs
  <2> HIDE DEF j
  <2>3. task[j] \in Task
    BY <2>1, RowFacts
  <2>4. Cancelled(task[j]).status \notin Active
    BY <2>3, CancelledFacts DEF Active
  <2> QED BY <2>2, <2>4 DEF j
<1>3. 1 \in PageSet
  BY SettingAssumption DEF PageSet
<1>4. ActiveAreFresh' /\ InHand'
  BY <1>1, <1>2 DEF ActiveAreFresh, InHand, At, Active
<1> QED BY <1>3, <1>4, FreshStays

LEMMA WillCancelSettling ==
  ASSUME BundleInv, Steady, NEW a \in Applies, WillCancel(a), Applying(a) PROVE Settling'
<1>1. /\ apply[a].version = version /\ "replay" \in needs[a] /\ apply[a].version > 0
      /\ apply[a] \in Apply
      /\ apply[a].pc \in {"committed", "replaying", "paging", "starting", "cancelling"}
  BY ApplyFacts DEF WillCancel, ApplyOK, BeforeRuntime, BeforeReplay
<1>2. ASSUME apply'[a].version = version,
             apply'[a].pc \in {"committed", "replaying", "paging", "starting", "cancelling"}
      PROVE  Settling'
  BY <1>1, <1>2 DEF Settling, WillCancel, Steady
<1>3. CASE Die(a) \/ ReplayLost(a)
  BY <1>1, <1>3, LosingStep DEF Settling
<1>4. CASE EnqueueRuntime(a) \/ EnqueueRuntimeFails(a)
  <2>1. PICK r \in {"queued", "failed"} :
          apply' = [apply EXCEPT ![a] = [@ EXCEPT !.pc = Replaying(a), !.runtime = r]]
    BY <1>4 DEF EnqueueRuntime, EnqueueRuntimeFails
  <2> DEFINE e == [apply[a] EXCEPT !.pc = "replaying", !.runtime = r]
  <2>2. apply' = [apply EXCEPT ![a] = e]
    BY <1>1, <2>1 DEF Replaying
  <2>3. e.pc = "replaying" /\ e.version = apply[a].version
    BY <1>1 DEF Apply
  <2> HIDE DEF e
  <2>4. apply'[a] = e
    BY <2>2, ApplyFacts DEF TypeOK
  <2> QED BY <1>1, <1>2, <2>3, <2>4
<1>5. CASE BeginFirstPage(a)
  <2> DEFINE e == [apply[a] EXCEPT !.pc = "paging", !.seen = version]
  <2>1. apply' = [apply EXCEPT ![a] = e]
    BY <1>5 DEF BeginFirstPage
  <2>2. e.pc = "paging" /\ e.version = apply[a].version
    BY <1>1 DEF Apply
  <2> HIDE DEF e
  <2>3. apply'[a] = e
    BY <2>1, ApplyFacts DEF TypeOK
  <2> QED BY <1>1, <1>2, <2>2, <2>3
<1>6. CASE FirstPage(a)
  <2> DEFINE after == IF Pages > 1 THEN "starting" ELSE "finishing"
             e == [apply[a] EXCEPT !.pc = after, !.failed = TRUE]
  <2>1. \/ stamp' = Replayed(1, apply[a].seen) /\ Move(a, after)
        \/ apply' = [apply EXCEPT ![a] = e]
    BY <1>6 DEF FirstPage
  <2>2. after \in {"starting", "finishing"} /\ (after = "finishing" => ~(Pages > 1))
    OBVIOUS
  <2> HIDE DEF after
  <2>3. e.pc = after /\ e.version = apply[a].version /\ e.failed
    BY <1>1 DEF Apply
  <2> HIDE DEF e
  <2>4. CASE apply' = [apply EXCEPT ![a] = e]
    <3>1. apply'[a] = e
      BY <2>4, ApplyFacts DEF TypeOK
    <3>2. Fresh(1)'
      BY <1>1, <2>3, <3>1 DEF Fresh, FirstFailed, Steady
    <3> QED
      <4>1. CASE after = "starting"
        BY <1>1, <1>2, <2>3, <3>1, <4>1
      <4>2. CASE after = "finishing"
        <5>1. \A p \in PageSet : p = 1
          BY <2>2, <4>2, SettingAssumption DEF PageSet
        <5>2. \A p \in PageSet : Fresh(p)'
          BY <3>2, <5>1
        <5> QED BY <5>2 DEF Settling, AllFresh, PageSet
      <4> QED BY <2>2, <4>1, <4>2
  <2>5. CASE stamp' = Replayed(1, apply[a].seen) /\ Move(a, after)
    <3>1. apply'[a].pc = after /\ apply'[a].version = apply[a].version
      BY <2>2, <2>5, Moves
    <3>2. apply[a].seen = version
      <4>1. apply[a].seen \in version..version /\ version \in Nat
        BY <1>1, <1>6, ApplyFacts DEF ApplyOK, FirstPage, At
      <4> QED BY <4>1
    <3>3. Fresh(1)'
      <4>1. 1 \in PageSet /\ stamp \in [PageSet -> Nat]
        BY SettingAssumption, ApplyFacts DEF PageSet, TypeOK
      <4>2. stamp'[1] = version /\ version' = version
        BY <2>5, <3>2, <4>1 DEF Replayed, Steady
      <4> QED BY <4>2 DEF Fresh
    <3> QED
      <4>1. CASE after = "starting"
        BY <1>1, <1>2, <3>1, <4>1
      <4>2. CASE after = "finishing"
        <5>1. \A p \in PageSet : p = 1
          BY <2>2, <4>2, SettingAssumption DEF PageSet
        <5>2. \A p \in PageSet : Fresh(p)'
          BY <3>3, <5>1
        <5> QED BY <5>2 DEF Settling, AllFresh, PageSet
      <4> QED BY <2>2, <4>1, <4>2
  <2> QED BY <2>1, <2>4, <2>5
<1>7. CASE StartSync(a)
  <2>1. apply'[a].pc = "cancelling" /\ apply'[a].version = apply[a].version
    BY <1>7, Moves DEF StartSync
  <2> QED BY <1>1, <1>2, <2>1
<1>8. CASE CancelOlder(a)
  <2>1. stamp[1] = version \/ apply[a].failed
    BY <1>1, <1>8, ApplyFacts DEF CancelOlder, At, ApplyOK, Paged
  <2>2. Fresh(1)
    BY <1>1, <2>1 DEF Fresh, FirstFailed
  <2> QED BY <1>8, <2>2, CancelSettling DEF Settling
<1>9. CASE Begin(a) \/ Commit(a) \/ Fail(a) \/ InsertReplay(a) \/ Preview(a) \/ Finish(a)
  BY <1>1, <1>9 DEF Begin, Commit, Fail, InsertReplay, Preview, Finish, At
<1> QED BY <1>3, <1>4, <1>5, <1>6, <1>7, <1>8, <1>9 DEF Applying

LEMMA RequestFreshWork ==
  ASSUME BundleInv, Steady, NEW a \in Applies, Applying(a), Fresh(1), ActiveAreFresh, InHand
  PROVE  Settling'
<1>1. /\ worker' = worker /\ \A b \in Applies \ {a} : apply'[b] = apply[b]
      /\ apply[a] \in Apply /\ ApplyOK(a)
  BY RequestFacts, ApplyFacts
<1>2. Fresh(1)'
  BY SettingAssumption, FreshStays DEF PageSet
<1>3. CASE apply[a].version > 0 /\ "replay" \in needs[a] /\ (Die(a) \/ ReplayLost(a))
  BY <1>3, LosingStep DEF Settling
<1>4. CASE CancelOlder(a)
  BY <1>4, CancelSettling DEF Settling
<1>5. CASE InsertReplay(a)
  <2> DEFINE f == IF apply[a].failed THEN {1} ELSE {}
             j == <<a, "replay">>
             t == Queued(1, f)
  <2>1. task' = [task EXCEPT ![j] = t] /\ apply[a].pc = "inserting"
    BY <1>5 DEF InsertReplay, WithReplay, At
  <2>2. f \in SUBSET PageSet /\ 1 \in 0..Pages /\ 1 \in PageSet
    BY SettingAssumption DEF PageSet
  <2> HIDE DEF f
  <2>3. t \in Task /\ t.status = "queued" /\ t.cursor = 1
    BY <2>2, QueuedFacts
  <2>4. j \in Jobs /\ task[j].status = "none"
    BY <1>1, <2>1, JobFacts DEF ApplyOK, BeforeReplay, Kinds
  <2> HIDE DEF t
  <2>5. task'[j] = t /\ \A i \in Jobs : i # j => task'[i] = task[i]
    BY <2>1, <2>3, <2>4, TaskBecomes DEF BundleInv
  <2>6. CoversNow(task[j])'
    <3>1. \A p \in 1..1 : Fresh(p)'
      BY <1>2
    <3> QED BY <2>3, <2>5, <3>1 DEF CoversNow
  <2>7. ASSUME NEW w \in Workers PROVE WorksNow(w, a)'
    <3> SUFFICES ASSUME worker[w].kind = "replay" PROVE WorksNow(w, a)'
      BY <1>1 DEF WorksNow
    <3>1. worker[w].candidates[a] = Null
      BY <2>4, WorkerFacts DEF WorkerOK, FoundOK
    <3>2. worker[w].pc \in {"paging", "recording"} => worker[w].on # a
      BY <2>4, HandFacts DEF Resting
    <3> QED BY <1>1, <3>1, <3>2 DEF WorksNow
  <2>8. ASSUME NEW b \in Applies \ {a}, task'[<<b, "replay">>].status \in Active
        PROVE  CoversNow(task[<<b, "replay">>])' /\ \A w \in Workers : WorksNow(w, b)'
    <3> DEFINE s == task[<<b, "replay">>]
    <3>1. <<b, "replay">> \in Jobs /\ <<b, "replay">> # j
      BY JobFacts DEF Kinds
    <3>2. task'[<<b, "replay">>] = s
      BY <2>5, <3>1
    <3>3. s \in Task /\ CoversNow(s) /\ \A w \in Workers : WorksNow(w, b)
      BY <2>8, <3>1, <3>2, RowFacts DEF ActiveAreFresh
    <3>4. \A u \in Task : CoversNow(u) => CoversNow(u)'
      BY CoversNowStays
    <3>5. \A u \in Task : u = s => CoversNow(u)'
      BY <3>3, <3>4
    <3> QED BY <1>1, <3>2, <3>3, <3>5, WorksNowStays DEF CoversNow
  <2>9. ActiveAreFresh'
    BY <2>6, <2>7, <2>8 DEF ActiveAreFresh, Active, j
  <2>10. InHand'
    BY <2>3, <2>5 DEF InHand, Active, j
  <2> QED BY <1>2, <2>9, <2>10 DEF Settling
<1>6. CASE \/ Begin(a) \/ Commit(a) \/ Fail(a) \/ EnqueueRuntime(a) \/ EnqueueRuntimeFails(a)
           \/ BeginFirstPage(a) \/ FirstPage(a) \/ StartSync(a) \/ Preview(a) \/ Finish(a)
           \/ Die(a) /\ ~(apply[a].version > 0 /\ "replay" \in needs[a])
  <2>1. task' = task \/ task' = WithRuntime(a)
    BY <1>6 DEF Begin, Commit, Fail, EnqueueRuntime, EnqueueRuntimeFails, BeginFirstPage,
                FirstPage, StartSync, Preview, Finish, Die
  <2>2. \A b \in Applies : task'[<<b, "replay">>] = task[<<b, "replay">>]
    <3>1. \A b \in Applies : <<b, "replay">> # <<a, "runtime">> /\ <<b, "replay">> \in Jobs
      BY JobFacts DEF Kinds
    <3> QED BY <2>1, <3>1, RuntimeRow
  <2>3. ~At(a, "inserting")
    BY <1>1, <1>6 DEF Begin, Commit, Fail, EnqueueRuntime, EnqueueRuntimeFails, BeginFirstPage,
                      FirstPage, StartSync, Preview, Finish, Die, At, ApplyOK, BeforeReplay,
                      BeforeRuntime
  <2>4. ActiveAreFresh'
    BY <1>1, <2>2, ActiveStayFresh
  <2>5. InHand'
    BY <1>1, <2>2, <2>3 DEF InHand, At
  <2> QED BY <1>2, <2>4, <2>5 DEF Settling
<1>7. ReplayLost(a) => apply[a].version > 0 /\ "replay" \in needs[a]
  BY <1>1 DEF ReplayLost, ApplyOK, BeforeReplay, BeforeRuntime
<1> QED BY <1>3, <1>4, <1>5, <1>6, <1>7 DEF Applying

LEMMA RestWorks ==
  ASSUME BundleInv, NEW w \in Workers, NEW a \in Applies, Rests(w) PROVE WorksNow(w, a)'
<1> DEFINE e == IdleWorker
<1>1. /\ e \in Worker /\ e.candidates[a] = Null /\ e.on = Null
  BY IdleFacts
<1>2. worker' = [worker EXCEPT ![w] = e]
  BY DEF Rests
<1> HIDE DEF e
<1>3. worker'[w] = e
  BY <1>1, <1>2, WorkerFacts, WorkerBecomes
<1>4. a # Null
  BY SettingAssumption
<1> QED BY <1>1, <1>3, <1>4 DEF WorksNow

\* A worker that goes on with the same row, to no page.
LEMMA LaterWorks ==
  ASSUME BundleInv, Steady, NEW w \in Workers, NEW a \in Applies, WorksNow(w, a),
         NEW e \in Worker, worker' = [worker EXCEPT ![w] = e],
         e.kind = worker[w].kind, e.candidates[a] \in {worker[w].candidates[a], Null},
         e.kind = "replay" => e.pc \notin {"paging", "recording"}
  PROVE  WorksNow(w, a)'
<1> SUFFICES ASSUME e.kind = "replay" PROVE WorksNow(w, a)'
  BY WorkerFacts, WorkerBecomes DEF WorksNow
<1>1. worker'[w] = e
  BY WorkerFacts, WorkerBecomes
<1>2. ASSUME e.candidates[a] # Null PROVE CoversNow(worker[w].candidates[a])'
  <2>1. /\ worker[w].candidates[a] \in Task /\ CoversNow(worker[w].candidates[a])
        /\ e.candidates[a] = worker[w].candidates[a]
    BY <1>2, WorkerFacts DEF WorksNow
  <2>2. \A t \in Task : CoversNow(t) => CoversNow(t)'
    BY CoversNowStays
  <2>3. \A t \in Task : t = worker[w].candidates[a] => CoversNow(t)'
    BY <2>1, <2>2
  <2> QED BY <1>1, <2>1, <2>3 DEF CoversNow
<1> QED BY <1>1, <1>2 DEF WorksNow

\* A step of the worker w that leaves the rows of replay tasks what they say.
LEMMA RowsKept ==
  ASSUME BundleInv, Steady, Fresh(1), ActiveAreFresh, InHand, NEW w \in Workers, apply' = apply,
         \A a \in Applies :
           /\ task[<<a, "replay">>].status \in Active <=> task'[<<a, "replay">>].status \in Active
           /\ task'[<<a, "replay">>].cursor = task[<<a, "replay">>].cursor
           /\ task'[<<a, "replay">>].failed = task[<<a, "replay">>].failed
           /\ task[<<a, "replay">>].status \in Active => WorksNow(w, a)',
         \A v \in Workers \ {w} : worker'[v] = worker[v]
  PROVE  Settling'
<1>1. Fresh(1)'
  BY SettingAssumption, FreshStays DEF PageSet
<1>2. ActiveAreFresh'
  BY ActiveStayFresh
<1>3. InHand'
  BY DEF InHand, At, Active
<1> QED BY <1>1, <1>2, <1>3 DEF Settling

LEMMA RequeueFresh ==
  ASSUME BundleInv, Steady, Fresh(1), ActiveAreFresh, InHand,
         NEW w \in Workers, NEW k \in Kinds, Requeue(w, k)
  PROVE  Settling'
<1> DEFINE e == [worker[w] EXCEPT !.pc = "looking", !.kind = k]
<1>1. /\ worker[w].pc = "idle" /\ worker' = [worker EXCEPT ![w] = e] /\ apply' = apply
      /\ task' = [j \in Jobs |-> IF j[1] \in serves[w] /\ j[2] = k THEN Requeued(task[j]) ELSE task[j]]
  BY DEF Requeue, Is, Jobs
<1>2. /\ e \in Worker /\ e.pc = "looking" /\ e.candidates = NoCandidates
  BY <1>1, WorkerFacts DEF Worker, WorkerOK, Resting
<1> HIDE DEF e
<1>3. worker'[w] = e /\ \A v \in Workers \ {w} : worker'[v] = worker[v]
  BY <1>1, <1>2, WorkerFacts, WorkerBecomes
<1>4. \A a \in Applies : WorksNow(w, a)'
  BY <1>2, <1>3, IdleFacts DEF WorksNow
<1>5. \A j \in Jobs : task[j] \in Task /\ (task'[j] = task[j] \/ task'[j] = Requeued(task[j]))
  BY <1>1, RowFacts
<1>6. \A j \in Jobs : /\ task'[j].cursor = task[j].cursor /\ task'[j].failed = task[j].failed
                      /\ task[j].status \in Active <=> task'[j].status \in Active
  BY <1>5, RequeuedFacts DEF Active
<1>7. \A a \in Applies : <<a, "replay">> \in Jobs
  BY JobFacts DEF Kinds
<1> QED BY <1>1, <1>3, <1>4, <1>6, <1>7, RowsKept

LEMMA FindFresh ==
  ASSUME BundleInv, Steady, Fresh(1), ActiveAreFresh, InHand, NEW w \in Workers, Find(w)
  PROVE  Settling'
<1> DEFINE k == worker[w].kind
           ready == {a \in serves[w] : task[<<a, k>>].status = "queued" /\ task[<<a, k>>].due}
           found == [a \in Applies |-> IF a \in ready THEN task[<<a, k>>] ELSE Null]
           e == [worker[w] EXCEPT !.pc = "claiming", !.candidates = found]
<1>1. /\ worker[w].pc = "looking" /\ task' = task /\ apply' = apply /\ stamp' = stamp
      /\ Rests(w) \/ worker' = [worker EXCEPT ![w] = e]
  BY DEF Find, Is
<1>2. k \in Kinds /\ \A a \in Applies : <<a, k>> \in Jobs /\ task[<<a, k>>] \in Task
  BY WorkerFacts, JobFacts, RowFacts
<1>3. /\ found \in [Applies -> Task \cup {Null}]
      /\ \A a \in Applies : found[a] # Null => found[a] = task[<<a, k>>]
  BY <1>2
<1> HIDE DEF found
<1>4. e \in Worker /\ e.pc = "claiming" /\ e.kind = k /\ e.candidates = found
  BY <1>3, WorkerFacts DEF Worker
<1> HIDE DEF e
<1>5. ASSUME worker' = [worker EXCEPT ![w] = e], NEW a \in Applies,
             task[<<a, "replay">>].status \in Active
      PROVE  WorksNow(w, a)'
  <2>1. worker'[w] = e
    BY <1>4, <1>5, WorkerFacts, WorkerBecomes
  <2>2. CoversNow(task[<<a, "replay">>])
    BY <1>5 DEF ActiveAreFresh
  <2>3. apply' = apply /\ version' = version /\ needs' = needs
    BY <1>1 DEF Steady
  <2>4. CoversNow(task[<<a, "replay">>])'
    BY <1>1, <2>2, <2>3 DEF CoversNow, Fresh, FirstFailed
  <2>5. k = "replay" /\ found[a] # Null => CoversNow(worker[w].candidates[a])'
    BY <1>1, <1>3, <1>4, <2>1, <2>4 DEF CoversNow
  <2> QED BY <1>4, <2>1, <2>5 DEF WorksNow
<1>6. \A v \in Workers \ {w} : worker'[v] = worker[v]
  BY <1>1, <1>4, RestFacts, WorkerFacts, WorkerBecomes
<1> QED BY <1>1, <1>5, <1>6, RestWorks, RowsKept

LEMMA ClaimFresh ==
  ASSUME BundleInv, Steady, Fresh(1), ActiveAreFresh, InHand,
         NEW w \in Workers, NEW a \in Applies, Claim(w, a)
  PROVE  Settling'
<1>0. PICK k \in Kinds : k = worker[w].kind
  BY WorkerFacts
<1> DEFINE j == <<a, k>>
           t == [task[j] EXCEPT !.status = "running", !.lease = w, !.lapsed = FALSE]
           c == worker[w].candidates
           only == [NoCandidates EXCEPT ![a] = c[a]]
           e == [worker[w] EXCEPT !.pc = "claimed", !.on = a, !.candidates = only]
<1>1. /\ task[j].status = "queued" /\ apply' = apply
      /\ task' = [task EXCEPT ![j] = t] /\ worker' = [worker EXCEPT ![w] = e]
  BY <1>0 DEF Claim, Is
<1>2. j \in Jobs /\ task[j] \in Task
  BY JobFacts, RowFacts
<1>3. /\ only \in [Applies -> Task \cup {Null}] /\ \A b \in Applies : only[b] \in {c[b], Null}
  BY WorkerFacts, IdleFacts
<1> HIDE DEF j, only
<1>4. /\ t \in Task /\ t.status = "running" /\ t.cursor = task[j].cursor /\ t.failed = task[j].failed
  BY <1>2 DEF Task
<1>5. e \in Worker /\ e.pc = "claimed" /\ e.kind = worker[w].kind /\ e.candidates = only
  BY <1>3, WorkerFacts DEF Worker
<1> HIDE DEF t, e
<1>6. task'[j] = t /\ \A i \in Jobs : i # j => task'[i] = task[i]
  BY <1>1, <1>2, <1>4, WorkerFacts, TaskBecomes
<1>7. \A v \in Workers \ {w} : worker'[v] = worker[v]
  BY <1>1, <1>5, WorkerFacts, WorkerBecomes
<1>8. ASSUME NEW b \in Applies, task[<<b, "replay">>].status \in Active PROVE WorksNow(w, b)'
  <2>1. WorksNow(w, b)
    BY <1>8 DEF ActiveAreFresh
  <2> QED BY <1>1, <1>3, <1>5, <2>1, LaterWorks
<1>9. \A b \in Applies : <<b, "replay">> \in Jobs
  BY JobFacts DEF Kinds
<1> QED BY <1>1, <1>4, <1>6, <1>7, <1>8, <1>9, RowsKept DEF Active

LEMMA PassOverFresh ==
  ASSUME BundleInv, Steady, Fresh(1), ActiveAreFresh, InHand,
         NEW w \in Workers, NEW a \in Applies, PassOver(w, a)
  PROVE  Settling'
<1> DEFINE others == [worker[w].candidates EXCEPT ![a] = Null]
           e == [worker[w] EXCEPT !.candidates = others]
<1>1. /\ worker[w].pc = "claiming" /\ task' = task /\ apply' = apply
      /\ Rests(w) \/ worker' = [worker EXCEPT ![w] = e]
  BY DEF PassOver, Is
<1>2. /\ others \in [Applies -> Task \cup {Null}]
      /\ \A b \in Applies : others[b] \in {worker[w].candidates[b], Null}
  BY WorkerFacts
<1> HIDE DEF others
<1>3. e \in Worker /\ e.pc = "claiming" /\ e.kind = worker[w].kind /\ e.candidates = others
  BY <1>1, <1>2, WorkerFacts DEF Worker
<1> HIDE DEF e
<1>4. \A v \in Workers \ {w} : worker'[v] = worker[v]
  BY <1>1, <1>3, RestFacts, WorkerFacts, WorkerBecomes
<1>5. ASSUME NEW b \in Applies, task[<<b, "replay">>].status \in Active PROVE WorksNow(w, b)'
  <2>1. WorksNow(w, b)
    BY <1>5 DEF ActiveAreFresh
  <2> QED BY <1>1, <1>2, <1>3, <2>1, LaterWorks, RestWorks
<1> QED BY <1>1, <1>4, <1>5, RowsKept

\* A worker that goes on to a page, or past one, has the same rows in hand.
LEMMA PageWorks ==
  ASSUME BundleInv, Steady, ActiveAreFresh, task' = task, apply' = apply,
         NEW w \in Workers, NEW e \in Worker, worker' = [worker EXCEPT ![w] = e],
         worker[w].pc \in Holding,
         e.on = worker[w].on, e.kind = worker[w].kind, e.candidates = worker[w].candidates,
         e.kind = "replay" /\ e.pc = "paging" => e.seen = version,
         e.kind = "replay" /\ e.pc = "recording" /\ task[<<e.on, "replay">>].status \in Active =>
            stamp'[Snapshot(w).cursor + 1] = version \/ e.failed,
         Fresh(1), InHand
  PROVE  Settling'
<1>1. worker'[w] = e /\ \A v \in Workers \ {w} : worker'[v] = worker[v]
  BY WorkerFacts, WorkerBecomes
<1>2. ASSUME NEW a \in Applies, task[<<a, "replay">>].status \in Active PROVE WorksNow(w, a)'
  <2> SUFFICES ASSUME e.kind = "replay" PROVE WorksNow(w, a)'
    BY <1>1 DEF WorksNow
  <2>1. ASSUME worker[w].candidates[a] # Null PROVE CoversNow(worker[w].candidates[a])'
    <3>1. /\ worker[w].candidates[a] \in Task /\ CoversNow(worker[w].candidates[a])
      BY <1>2, <2>1, WorkerFacts DEF ActiveAreFresh, WorksNow
    <3>2. \A t \in Task : CoversNow(t) => CoversNow(t)'
      BY CoversNowStays
    <3>3. \A t \in Task : t = worker[w].candidates[a] => CoversNow(t)'
      BY <3>1, <3>2
    <3> QED BY <1>1, <3>1, <3>3 DEF CoversNow
  <2>2. Snapshot(w)' = Snapshot(w)
    BY <1>1 DEF Snapshot
  <2> QED BY <1>1, <1>2, <2>1, <2>2 DEF WorksNow, Steady
<1> QED BY <1>1, <1>2, RowsKept

LEMMA BeginPageFresh ==
  ASSUME BundleInv, Steady, Fresh(1), ActiveAreFresh, InHand, NEW w \in Workers, BeginPage(w)
  PROVE  Settling'
<1> DEFINE e == [worker[w] EXCEPT !.pc = "paging", !.seen = version]
<1>1. /\ worker[w].pc = "claimed" /\ worker' = [worker EXCEPT ![w] = e]
      /\ task' = task /\ apply' = apply
  BY DEF BeginPage, Is
<1>2. /\ e \in Worker /\ e.pc = "paging" /\ e.seen = version /\ e.on = worker[w].on
      /\ e.kind = worker[w].kind /\ e.candidates = worker[w].candidates
  BY WorkerFacts DEF Worker, TypeOK
<1> HIDE DEF e
<1> QED BY <1>1, <1>2, PageWorks DEF Holding

LEMMA ReplayPageFresh ==
  ASSUME BundleInv, Steady, Fresh(1), ActiveAreFresh, InHand, NEW w \in Workers, ReplayPage(w)
  PROVE  Settling'
<1> DEFINE p == Snapshot(w).cursor + 1
           e == [worker[w] EXCEPT !.pc = "recording", !.seen = 0]
           f == [worker[w] EXCEPT !.pc = "recording", !.seen = 0, !.failed = TRUE]
<1>1. /\ task' = task /\ apply' = apply /\ worker[w].pc = "paging"
      /\ \/ stamp' = Replayed(p, worker[w].seen) /\ worker' = [worker EXCEPT ![w] = e]
         \/ worker' = [worker EXCEPT ![w] = f]
  BY DEF ReplayPage, Is
<1>2. p \in PageSet /\ stamp \in [PageSet -> Nat]
  BY <1>1, SnapshotFacts, WorkerFacts DEF Holding, TypeOK
<1> HIDE DEF p
<1>3. /\ e \in Worker /\ e.pc = "recording" /\ e.on = worker[w].on
      /\ e.kind = worker[w].kind /\ e.candidates = worker[w].candidates
      /\ f \in Worker /\ f.pc = "recording" /\ f.on = worker[w].on /\ f.failed
      /\ f.kind = worker[w].kind /\ f.candidates = worker[w].candidates
  BY WorkerFacts DEF Worker
<1> HIDE DEF e, f
<1>4. CASE stamp' = Replayed(p, worker[w].seen) /\ worker' = [worker EXCEPT ![w] = e]
  <2>1. worker[w].kind = "replay" /\ worker[w].on \in Applies
    BY <1>1, WorkerFacts DEF WorkerOK, Resting
  <2>2. ASSUME task[<<e.on, "replay">>].status \in Active PROVE stamp'[p] = version
    <3>1. worker[w].seen = version
      BY <1>1, <1>3, <2>1, <2>2 DEF ActiveAreFresh, WorksNow
    <3> QED BY <1>2, <1>4, <3>1 DEF Replayed
  <2> QED BY <1>1, <1>3, <1>4, <2>2, PageWorks DEF Holding, p
<1>5. CASE worker' = [worker EXCEPT ![w] = f]
  BY <1>1, <1>3, <1>5, PageWorks DEF Holding
<1> QED BY <1>1, <1>4, <1>5

\* The steps of a worker that leave the tasks, and take it to no page.
LEMMA OtherFresh ==
  ASSUME BundleInv, Steady, Fresh(1), ActiveAreFresh, InHand, NEW w \in Workers,
         \/ Materialize(w) \/ WorkFails(w) \/ CloseSync(w) \/ ReadReceipt(w)
         \/ WriteReceipt(w) \/ Crash(w)
  PROVE  Settling'
<1>1. task' = task /\ apply' = apply
  BY DEF Materialize, WorkFails, CloseSync, ReadReceipt, WriteReceipt, Crash
<1>2. CASE Rests(w)
  <2>1. \A v \in Workers \ {w} : worker'[v] = worker[v]
    BY <1>2, RestFacts
  <2> QED BY <1>1, <1>2, <2>1, RestWorks, RowsKept
<1>3. ASSUME NEW e \in Worker, worker' = [worker EXCEPT ![w] = e],
             e.kind = worker[w].kind, e.candidates = worker[w].candidates,
             e.kind = "replay" => e.pc \notin {"paging", "recording"}
      PROVE  Settling'
  <2>1. \A v \in Workers \ {w} : worker'[v] = worker[v]
    BY <1>3, WorkerFacts, WorkerBecomes
  <2>2. ASSUME NEW a \in Applies, task[<<a, "replay">>].status \in Active PROVE WorksNow(w, a)'
    <3>1. WorksNow(w, a)
      BY <2>2 DEF ActiveAreFresh
    <3> QED BY <1>3, <3>1, LaterWorks
  <2> QED BY <1>1, <2>1, <2>2, RowsKept
<1>4. CASE Materialize(w)
  <2> DEFINE e == [worker[w] EXCEPT !.pc = "recording"]
  <2>1. worker' = [worker EXCEPT ![w] = e] /\ worker[w].kind = "runtime"
    BY <1>4 DEF Materialize, Goes
  <2>2. e \in Worker /\ e.kind = worker[w].kind /\ e.candidates = worker[w].candidates
    BY WorkerFacts DEF Worker
  <2> HIDE DEF e
  <2> QED BY <1>3, <2>1, <2>2
<1>5. CASE WorkFails(w)
  <2> DEFINE e == [worker[w] EXCEPT !.pc = "failing", !.seen = 0, !.outcome = "failed"]
  <2>1. worker' = [worker EXCEPT ![w] = e]
    BY <1>5 DEF WorkFails
  <2>2. /\ e \in Worker /\ e.pc = "failing" /\ e.kind = worker[w].kind
        /\ e.candidates = worker[w].candidates
    BY WorkerFacts DEF Worker
  <2> HIDE DEF e
  <2> QED BY <1>3, <2>1, <2>2
<1>6. CASE ReadReceipt(w)
  <2> DEFINE o == run[worker[w].on].own
             e == [worker[w] EXCEPT !.pc = "writing", !.own = o]
  <2>1. worker' = [worker EXCEPT ![w] = e] /\ worker[w].pc = "reading"
    BY <1>6 DEF ReadReceipt, Is
  <2>2. o \in Own
    BY <2>1, HandFacts, WorkerFacts DEF Resting, TypeOK, Run
  <2> HIDE DEF o
  <2>3. /\ e \in Worker /\ e.pc = "writing" /\ e.kind = worker[w].kind
        /\ e.candidates = worker[w].candidates
    BY <2>2, WorkerFacts DEF Worker
  <2> HIDE DEF e
  <2> QED BY <1>3, <2>1, <2>3
<1>7. CloseSync(w) \/ WriteReceipt(w) \/ Crash(w) => Rests(w)
  BY DEF CloseSync, WriteReceipt, Crash
<1> QED BY <1>2, <1>4, <1>5, <1>6, <1>7

\* A worker that rests, or goes on to close what it did, works on no page.
LEMMA EndWorks ==
  ASSUME BundleInv, Steady, ActiveAreFresh, NEW w \in Workers,
         Rests(w) \/ Goes(w, "closing") \/ Goes(w, "reading"),
         NEW a \in Applies, task[<<a, "replay">>].status \in Active
  PROVE  WorksNow(w, a)' /\ \A v \in Workers \ {w} : worker'[v] = worker[v]
<1>1. CASE Rests(w)
  BY <1>1, RestFacts, RestWorks
<1>2. ASSUME NEW pc \in {"closing", "reading"}, Goes(w, pc)
      PROVE  WorksNow(w, a)' /\ \A v \in Workers \ {w} : worker'[v] = worker[v]
  <2> DEFINE e == [worker[w] EXCEPT !.pc = pc]
  <2>1. worker' = [worker EXCEPT ![w] = e]
    BY <1>2 DEF Goes
  <2>2. /\ e \in Worker /\ e.pc = pc /\ e.kind = worker[w].kind
        /\ e.candidates = worker[w].candidates
    BY WorkerFacts DEF Worker
  <2> HIDE DEF e
  <2>3. WorksNow(w, a)
    BY DEF ActiveAreFresh
  <2> QED BY <2>1, <2>2, <2>3, LaterWorks, WorkerFacts, WorkerBecomes
<1> QED BY <1>1, <1>2

LEMMA EndFacts ==
  ASSUME BundleInv, NEW w \in Workers,
         Rests(w) \/ Goes(w, "closing") \/ Goes(w, "reading")
  PROVE  \A v \in Workers \ {w} : worker'[v] = worker[v]
  BY RestFacts, GoesFacts DEF WorkerPc

\* An outcome that keeps the cursor and the count of an active replay task, or is about
\* a runtime task.
LEMMA RecordKept ==
  ASSUME BundleInv, Steady, Fresh(1), ActiveAreFresh, InHand, NEW w \in Workers,
         worker[w].pc \notin Resting \cup {"claiming"}, apply' = apply,
         NEW t \in Task, t.status # "none", task' = Fenced(w, t),
         Rests(w) \/ Goes(w, "closing") \/ Goes(w, "reading"),
         \/ worker[w].kind = "runtime"
         \/ /\ t.status \in Active /\ t.cursor = task[JobOf(w)].cursor
            /\ t.failed = task[JobOf(w)].failed
  PROVE  Settling'
<1>1. /\ \A i \in Jobs : \/ task'[i] = task[i]
                         \/ i = JobOf(w) /\ task[i].status = "running" /\ task'[i] = t
      /\ JobOf(w) = <<worker[w].on, worker[w].kind>>
  BY FencedFacts, HandFacts
<1>2. ASSUME NEW a \in Applies
      PROVE  /\ task[<<a, "replay">>].status \in Active <=> task'[<<a, "replay">>].status \in Active
             /\ task'[<<a, "replay">>].cursor = task[<<a, "replay">>].cursor
             /\ task'[<<a, "replay">>].failed = task[<<a, "replay">>].failed
  <2> DEFINE j == <<a, "replay">>
  <2>1. j \in Jobs /\ (j = JobOf(w) => worker[w].kind = "replay")
    <3>1. j = JobOf(w) => j[2] = worker[w].kind
      BY <1>1
    <3> QED BY <3>1, JobFacts DEF Kinds
  <2>2. CASE task'[j] = task[j]
    BY <2>2
  <2>3. CASE j = JobOf(w) /\ task[j].status = "running" /\ task'[j] = t
    BY <2>1, <2>3 DEF Active
  <2> QED BY <1>1, <2>1, <2>2, <2>3
<1> QED BY <1>2, EndWorks, EndFacts, RowsKept

LEMMA RecordPageFresh ==
  ASSUME BundleInv, Steady, Fresh(1), ActiveAreFresh, InHand, NEW w \in Workers, RecordPage(w)
  PROVE  Settling'
<1>0. PICK a \in Applies : a = worker[w].on
  BY HandFacts DEF RecordPage, Is, Resting
<1> DEFINE j == <<a, "replay">>
<1>1. /\ worker[w].pc = "recording" /\ worker[w].kind = "replay"
      /\ task' = Fenced(w, AfterPage(w))
      /\ Rests(w) \/ Goes(w, "closing")
      /\ apply' = apply /\ stamp' = stamp
  BY DEF RecordPage, Is
<1>2. PICK t \in Task :
        /\ t = AfterPage(w) /\ t.status \in {"queued", "completed"}
        /\ t.cursor = Snapshot(w).cursor + 1
        /\ t.status = "completed" <=> t.cursor = Pages
        /\ Snapshot(w).failed \subseteq t.failed
        /\ worker[w].failed => t.cursor \in t.failed
  BY <1>1, AfterPageFacts
<1>3. /\ \A i \in Jobs : \/ task'[i] = task[i]
                         \/ i = JobOf(w) /\ task[i].status = "running" /\ task'[i] = t
      /\ JobOf(w) = j /\ j \in Jobs
  BY <1>0, <1>1, <1>2, FencedFacts, HandFacts DEF Resting
<1>4. \A b \in Applies : <<b, "replay">> \in Jobs /\ (<<b, "replay">> = j <=> b = a)
  BY JobFacts DEF Kinds
<1>5. CASE \A b \in Applies : task'[<<b, "replay">>] = task[<<b, "replay">>]
  BY <1>1, <1>5, EndWorks, EndFacts, RowsKept
<1>6. CASE ~\A b \in Applies : task'[<<b, "replay">>] = task[<<b, "replay">>]
  <2>1. /\ task[j].status = "running" /\ task'[j] = t
        /\ \A b \in Applies : b # a => task'[<<b, "replay">>] = task[<<b, "replay">>]
    BY <1>3, <1>4, <1>6
  <2>2. CoversNow(Snapshot(w)) /\ (stamp[Snapshot(w).cursor + 1] = version \/ worker[w].failed)
    <3>1. WorksNow(w, a) /\ Snapshot(w) # Null /\ Snapshot(w) = worker[w].candidates[a]
      BY <1>0, <1>1, <2>1, WorkerFacts
      DEF ActiveAreFresh, Active, WorkerOK, Holding, Snapshot
    <3> QED BY <1>0, <1>1, <3>1 DEF WorksNow
  <2>3. CoversNow(t)
    <3> SUFFICES ASSUME NEW p \in 1..t.cursor PROVE Fresh(p) \/ p \in t.failed
      BY DEF CoversNow
    <3>1. CASE p = t.cursor
      BY <1>2, <2>2, <3>1 DEF Fresh
    <3>2. CASE p # t.cursor
      <4>1. p \in 1..Snapshot(w).cursor
        <5>1. Snapshot(w) \in Task
          BY <1>1, SnapshotFacts DEF Holding
        <5>2. Snapshot(w).cursor \in Nat
          BY <5>1, SettingAssumption DEF Task
        <5> QED BY <1>2, <3>2, <5>2
      <4> QED BY <1>2, <2>2, <4>1 DEF CoversNow
    <3> QED BY <3>1, <3>2
  <2>4. CoversNow(t)'
    BY <2>3, CoversNowStays
  <2>5. CASE t.status = "queued"
    <3>1. CoversNow(task[j])'
      BY <2>1, <2>4 DEF CoversNow
    <3>2. ASSUME NEW b \in Applies, task'[<<b, "replay">>].status \in Active
          PROVE  /\ task[<<b, "replay">>].status \in Active
                 /\ \/ /\ task'[<<b, "replay">>].cursor = task[<<b, "replay">>].cursor
                       /\ task'[<<b, "replay">>].failed = task[<<b, "replay">>].failed
                    \/ CoversNow(task[<<b, "replay">>])'
                 /\ \A v \in Workers : worker'[v] = worker[v] \/ WorksNow(v, b)'
      <4>1. task[<<b, "replay">>].status \in Active
        BY <2>1, <3>2 DEF Active
      <4>2. \A v \in Workers : worker'[v] = worker[v] \/ WorksNow(v, b)'
        BY <1>1, <4>1, EndWorks
      <4>3. b # a => task'[<<b, "replay">>] = task[<<b, "replay">>]
        BY <2>1
      <4>4. b = a => CoversNow(task[<<b, "replay">>])'
        BY <3>1
      <4> QED BY <4>1, <4>2, <4>3, <4>4
    <3>3. ActiveAreFresh'
      BY <3>2, ActiveStayFresh
    <3>4. InHand'
      BY <2>1, <2>5 DEF InHand, Active
    <3>5. Fresh(1)'
      BY SettingAssumption, FreshStays DEF PageSet
    <3> QED BY <3>3, <3>4, <3>5 DEF Settling
  <2>6. CASE t.status = "completed"
    <3>1. \A p \in PageSet : Fresh(p)' \/ p \in t.failed
      BY <1>2, <2>4, <2>6 DEF CoversNow, PageSet
    <3>2. AllFresh'
      BY <2>1, <2>6, <3>1 DEF AllFresh, PageSet
    <3> QED BY <3>2 DEF Settling
  <2> QED BY <1>2, <2>5, <2>6
<1> QED BY <1>5, <1>6

LEMMA RecordMaterializedFresh ==
  ASSUME BundleInv, Steady, Fresh(1), ActiveAreFresh, InHand,
         NEW w \in Workers, RecordMaterialized(w)
  PROVE  Settling'
<1> DEFINE s == Snapshot(w)
           t == [s EXCEPT !.status = "completed"]
<1>1. /\ worker[w].pc = "recording" /\ worker[w].kind = "runtime" /\ task' = Fenced(w, t)
      /\ Goes(w, "reading") /\ apply' = apply
  BY DEF RecordMaterialized, Is
<1>2. s \in Task
  BY <1>1, SnapshotFacts DEF Holding
<1> HIDE DEF s
<1>3. t \in Task /\ t.status = "completed"
  BY <1>2 DEF Task
<1> HIDE DEF t
<1> QED BY <1>1, <1>3, RecordKept DEF Resting

LEMMA RecordFailureFresh ==
  ASSUME BundleInv, Steady, Fresh(1), ActiveAreFresh, InHand,
         NEW w \in Workers, RecordFailure(w)
  PROVE  Settling'
<1> DEFINE s == task[JobOf(w)]
           t == [s EXCEPT !.status = "queued", !.lease = Null, !.lapsed = FALSE, !.due = FALSE]
<1>1. /\ worker[w].pc = "failing" /\ task' = Fenced(w, t)
      /\ Goes(w, "closing") \/ Goes(w, "reading")
      /\ apply' = apply
  BY DEF RecordFailure, Is
<1>2. s \in Task
  BY <1>1, HandFacts DEF Resting
<1>3. /\ t \in Task /\ t.status = "queued" /\ t.cursor = s.cursor /\ t.failed = s.failed
  <2> HIDE DEF s
  <2> QED BY <1>2 DEF Task
<1> HIDE DEF t
<1> QED BY <1>1, <1>3, RecordKept DEF Resting, Active

LEMMA WorkFresh ==
  ASSUME BundleInv, Steady, Fresh(1), ActiveAreFresh, InHand, NEW w \in Workers,
         (\E k \in Kinds : Requeue(w, k)) \/ Working(w) \/ Crash(w)
  PROVE  Settling'
  BY RequeueFresh, FindFresh, ClaimFresh, PassOverFresh, BeginPageFresh, ReplayPageFresh,
     RecordPageFresh, RecordMaterializedFresh, RecordFailureFresh, OtherFresh DEF Working

LEMMA TimeFresh ==
  ASSUME BundleInv, Steady, Fresh(1), ActiveAreFresh, InHand, NEW j \in Jobs,
         LeaseLapses(j) \/ RetryDue(j)
  PROVE  Settling'
<1>1. /\ task[j] \in Task /\ worker' = worker /\ apply' = apply
      /\ \/ task' = [task EXCEPT ![j].lapsed = TRUE]
         \/ task' = [task EXCEPT ![j].due = TRUE]
  BY RowFacts DEF LeaseLapses, RetryDue
<1> DEFINE d == [task[j] EXCEPT !.lapsed = TRUE]
           e == [task[j] EXCEPT !.due = TRUE]
<1>2. task' = [task EXCEPT ![j] = d] \/ task' = [task EXCEPT ![j] = e]
  BY <1>1
<1>3. /\ d \in Task /\ d.status = task[j].status /\ d.cursor = task[j].cursor
      /\ d.failed = task[j].failed
  BY <1>1 DEF Task
<1>4. /\ e \in Task /\ e.status = task[j].status /\ e.cursor = task[j].cursor
      /\ e.failed = task[j].failed
  BY <1>1 DEF Task
<1> HIDE DEF d, e
<1>5. \A i \in Jobs : task'[i].status = task[i].status /\ task'[i].cursor = task[i].cursor
                      /\ task'[i].failed = task[i].failed
  BY <1>2, <1>3, <1>4, TaskBecomes DEF BundleInv
<1>6. \A a \in Applies : <<a, "replay">> \in Jobs
  BY JobFacts DEF Kinds
<1>7. ActiveAreFresh'
  BY <1>1, <1>5, <1>6, ActiveStayFresh
<1>8. InHand'
  BY <1>1, <1>5, <1>6 DEF InHand, At, Active
<1>9. Fresh(1)'
  BY SettingAssumption, FreshStays DEF PageSet
<1> QED BY <1>7, <1>8, <1>9 DEF Settling

LEMMA InitSettling == Init => Settling
<1>1. Init => \A p \in PageSet : stamp[p] = version
  BY DEF Init
<1> QED BY <1>1 DEF Settling, AllFresh, Fresh

LEMMA NextSettling == BundleInv /\ Settling /\ [Next]_vars => Settling'
<1> SUFFICES ASSUME BundleInv, Settling, [Next]_vars PROVE Settling'
  OBVIOUS
<1>1. ASSUME version' # version PROVE Settling'
  <2>1. PICK a \in Applies : Commit(a) /\ needs[a] \cap Modes # {}
    BY <1>1, RequestFacts, WorkFacts, TimeFacts DEF Next, Jobs, vars
  <2>2. CASE "replay" \in needs[a]
    BY <2>1, <2>2, CommitSettling
  <2>3. CASE "replay" \notin needs[a]
    BY <2>1, <2>3, CommitUnasked DEF Settling
  <2> QED BY <2>2, <2>3
<1>2. ASSUME version' = version PROVE Settling'
  <2>1. Steady
    BY <1>2, StepSteady
  <2>2. CASE \E a \in Applies : Lost(a)
    BY <2>2, LostStays DEF Settling
  <2>3. ASSUME NEW a \in Applies, WillCancel(a) PROVE Settling'
    <3>1. CASE Applying(a)
      BY <2>1, <2>3, <3>1, WillCancelSettling
    <3>2. CASE apply'[a] = apply[a]
      BY <2>1, <2>3, <3>2 DEF Settling, WillCancel, Steady
    <3>3. Applying(a) \/ apply'[a] = apply[a]
      BY RequestFacts, WorkFacts, TimeFacts DEF Next, Jobs, vars
    <3> QED BY <3>1, <3>2, <3>3
  <2>4. CASE AllFresh
    BY <2>1, <2>4, AllFreshStays DEF Settling
  <2>5. CASE Fresh(1) /\ ActiveAreFresh /\ InHand
    <3>1. CASE UNCHANGED vars
      BY <2>5, <3>1 DEF vars, Settling, Fresh, FirstFailed, ActiveAreFresh, InHand, CoversNow,
                        WorksNow, At, Snapshot, Active
    <3> QED BY <2>1, <2>5, <3>1, RequestFreshWork, WorkFresh, TimeFresh DEF Next, Jobs
  <2>6. CASE ~ReplayAsked
    BY <1>2, <2>6, UnaskedStays DEF Settling
  <2> QED BY <2>2, <2>3, <2>4, <2>5, <2>6 DEF Settling
<1> QED BY <1>1, <1>2

\* When no apply and no worker has anything left to do, no request was lost and the newest
\* change of the mappings asked for its replay (identityReconciliationMode), every identity
\* has the memberships of the newest mappings or is counted as failed, however many applies
\* overlapped, previewed, skipped and cancelled each other's replays (the insert of
\* enqueueReplay, runNextPage and the claim of a mapping row).
THEOREM NothingForgotten == Spec => []QuietIsReplayed
<1>1. BundleInv /\ Settling => QuietIsReplayed
  <2> SUFFICES ASSUME BundleInv, Settling, Quiet, ReplayAsked, \A a \in Applies : ~Lost(a),
                      NEW p \in PageSet
               PROVE  stamp[p] = version \/ CountedFailed(p)
    BY DEF QuietIsReplayed
  <2>1. \A a \in Applies : ~WillCancel(a) \/ Lost(a)
    <3>1. \A a \in Applies : apply[a].pc \in {"idle", "done", "dead"}
      BY DEF Quiet
    <3> QED BY <3>1 DEF WillCancel
  <2>2. ~InHand
    BY JobFacts DEF Quiet, InHand, At, Kinds, Jobs
  <2>3. AllFresh
    BY <2>1, <2>2 DEF Settling
  <2> QED BY <2>3 DEF AllFresh, Fresh, FirstFailed, CountedFailed
<1>2. BundleInv /\ Settling /\ [Next]_vars => (BundleInv /\ Settling)'
  BY NextInv, NextSettling
<1>3. Init => BundleInv /\ Settling
  BY InitInv, InitSettling
<1> QED BY <1>1, <1>2, <1>3, PTL DEF Spec
=============================================================================
