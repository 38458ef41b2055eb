---------------------------- MODULE PluginGateway ----------------------------
(***************************************************************************)
(* Admission of interactive plugin operations: the database-backed rate    *)
(* and concurrency limits of                                               *)
(* packages/backend-host/src/plugins/pluginGatewayAdmissionStore.ts, the   *)
(* circuit breaker each host replica keeps in memory                       *)
(* (packages/plugin-runtime/src/gateway.ts) and the requests that go       *)
(* through both (invokePluginOperation of pluginRuntime.ts).               *)
(*                                                                         *)
(* One plugin.  A request reads the time when it arrives and may then wait *)
(* for the row that serialises the plugin's admissions.                    *)
(***************************************************************************)
EXTENDS Integers, FiniteSets

CONSTANTS
  Requests,        \* what the replicas handle at a time; a slot serves one request after another
  Hosts,           \* host replicas
  Operations,      \* operations of the plugin
  Subjects,        \* subject and tenant of a request
  HostOf, OpsOf, SubjectOf, \* of a slot; it serves requests of the operations in OpsOf
  Null,
  Skew,            \* how far the clock of a replica runs ahead of the slowest
  WindowTime,      \* policy.windowMs
  MaxPerPlugin,    \* policy.maxRequestsPerPlugin
  MaxPerSubject,   \* policy.maxRequestsPerSubjectOperation
  MaxConcurrent,   \* policy.maxConcurrentPerOperation
  MaxBuckets,      \* policy.maxTrackedBuckets
  LeaseTime,       \* leaseTtlMs
  MaxAttempts,     \* MAX_ACQUIRE_ATTEMPTS
  Threshold,       \* failureThreshold of the circuit
  OpenTime,        \* openMs of the circuit
  MaxTracked,      \* maxTrackedOperations of the circuit
  Leases,          \* bound of the model: the rows of the lease table
  MaxClock         \* bound of the model: the last instant

ASSUME GatewayAssumption ==
  /\ HostOf \in [Requests -> Hosts]
  /\ OpsOf \in [Requests -> SUBSET Operations]
  /\ SubjectOf \in [Requests -> Subjects]
  /\ Skew \in [Hosts -> Nat]
  /\ {WindowTime, MaxPerPlugin, MaxPerSubject, MaxConcurrent, MaxBuckets, LeaseTime,
      MaxAttempts, Threshold, OpenTime, MaxTracked} \subseteq Nat \ {0}
  /\ MaxClock \in Nat
  /\ IsFiniteSet(Leases)
  /\ Null \notin Nat \cup Leases \cup Operations

VARIABLES
  clock,     \* real time
  window,    \* plugin_gateway_admission_state: the window counted last and its count
  bucket,    \* plugin_gateway_subject_buckets
  lease,     \* plugin_gateway_concurrency_leases
  circuit,   \* the circuit breakers, in the memory of each replica
  request    \* where each request is

vars == <<clock, window, bucket, lease, circuit, request>>

Now(h) == clock + Skew[h]

Stages == {"idle", "waiting", "admitted", "calling", "releasing"}

\* now is the time the request read on arrival; lease and expiresAt are those of the
\* row it holds, probe whether the circuit let it through as the probe.
Request == [stage: Stages, op: Operations \cup {Null}, now: Nat, attempt: 0..MaxAttempts,
            lease: Leases \cup {Null}, expiresAt: Nat, probe: BOOLEAN]
NoRequest == [stage |-> "idle", op |-> Null, now |-> 0, attempt |-> 0,
              lease |-> Null, expiresAt |-> 0, probe |-> FALSE]

Lease == [op: Operations, expiresAt: Nat]
Bucket == [window: Nat, count: Nat, updatedAt: Nat]
\* Consecutive failures beyond the threshold are not told apart.
Circuit == [failures: 0..Threshold, openedAt: Nat \cup {Null}, probeInFlight: BOOLEAN]
NewCircuit == [failures |-> 0, openedAt |-> Null, probeInFlight |-> FALSE]

ASSUME RowAssumption == Null \notin Lease /\ Null \notin Bucket /\ Null \notin Circuit

Init ==
  /\ clock = 0
  /\ window = [at |-> 0, count |-> 0]
  /\ bucket = [b \in Operations \X Subjects |-> Null]
  /\ lease = [l \in Leases |-> Null]
  /\ circuit = [h \in Hosts |-> [o \in Operations |-> Null]]
  /\ request = [r \in Requests |-> NoRequest]

-----------------------------------------------------------------------------
(* acquire: one transaction that holds the state row of the plugin          *)

Arrive(r) ==
  /\ request[r].stage = "idle"
  /\ \E o \in OpsOf[r] :
       request' = [request EXCEPT ![r] =
         [NoRequest EXCEPT !.stage = "waiting", !.op = o, !.now = Now(HostOf[r]), !.attempt = 1]]
  /\ UNCHANGED <<clock, window, bucket, lease, circuit>>

WindowOf(r) == request[r].now \div WindowTime
BucketOf(r) == <<request[r].op, SubjectOf[r]>>

\* What the transaction of r leaves of the buckets and leases: those that its own time
\* says are not over.
LiveBuckets(r) ==
  [b \in Operations \X Subjects |->
     IF bucket[b] # Null /\ bucket[b].updatedAt <= (WindowOf(r) - 1) * WindowTime
     THEN Null ELSE bucket[b]]
LiveLeases(r) ==
  [l \in Leases |->
     IF lease[l] # Null /\ lease[l].expiresAt <= request[r].now THEN Null ELSE lease[l]]

PluginCount(r) == IF window.at = WindowOf(r) THEN window.count ELSE 0
SubjectCount(r) ==
  LET b == LiveBuckets(r)[BucketOf(r)]
  IN IF b # Null /\ b.window = WindowOf(r) THEN b.count ELSE 0
Concurrent(r) ==
  Cardinality({l \in Leases : LiveLeases(r)[l] # Null /\ LiveLeases(r)[l].op = request[r].op})
Tracked(r) == Cardinality({b \in Operations \X Subjects : LiveBuckets(r)[b] # Null})

\* Faulty variant: the limit of concurrent requests is compared one late.
AdmitsOneMore(r) ==
  /\ PluginCount(r) < MaxPerPlugin
  /\ SubjectCount(r) < MaxPerSubject
  /\ Concurrent(r) <= MaxConcurrent
  /\ LiveBuckets(r)[BucketOf(r)] = Null => Tracked(r) < MaxBuckets

Admits(r) ==
  /\ PluginCount(r) < MaxPerPlugin
  /\ SubjectCount(r) < MaxPerSubject
  /\ Concurrent(r) < MaxConcurrent
  /\ LiveBuckets(r)[BucketOf(r)] = Null => Tracked(r) < MaxBuckets

\* rate_limited and concurrency_limited end the request; the transaction is rolled back.
Refuse(r) ==
  /\ request[r].stage = "waiting"
  /\ ~Admits(r)
  /\ request' = [request EXCEPT ![r] = NoRequest]
  /\ UNCHANGED <<clock, window, bucket, lease, circuit>>

\* A lease id is new: no row has it and no request remembers it.
Unused(l) == lease[l] = Null /\ \A r \in Requests : request[r].lease # l

Commit(r, l) ==
  /\ Admits(r)
  /\ Unused(l)
  /\ window' = [at |-> WindowOf(r), count |-> PluginCount(r) + 1]
  /\ bucket' = [LiveBuckets(r) EXCEPT ![BucketOf(r)] =
       [window |-> WindowOf(r), count |-> SubjectCount(r) + 1, updatedAt |-> request[r].now]]
  /\ lease' = [LiveLeases(r) EXCEPT ![l] =
       [op |-> request[r].op, expiresAt |-> request[r].now + LeaseTime]]
  /\ UNCHANGED <<clock, circuit>>

Acquire(r) ==
  /\ request[r].stage = "waiting"
  /\ \E l \in Leases :
       /\ Commit(r, l)
       /\ request' = [request EXCEPT ![r] =
            [@ EXCEPT !.stage = "admitted", !.attempt = 0, !.lease = l,
                      !.expiresAt = request[r].now + LeaseTime]]

\* Faulty variant: the attempts are not limited.
RetriedForever(r) ==
  request' = [request EXCEPT ![r] = [@ EXCEPT !.attempt = request[r].attempt + 1]]

\* The transaction fails, or commits and its answer is lost: the request tries again
\* with the time it read first.
Retried(r) ==
  request' = [request EXCEPT ![r] =
    IF request[r].attempt < MaxAttempts
    THEN [@ EXCEPT !.attempt = request[r].attempt + 1] ELSE NoRequest]

AcquireFails(r) ==
  /\ request[r].stage = "waiting"
  /\ Retried(r)
  /\ UNCHANGED <<clock, window, bucket, lease, circuit>>

AcquireUnanswered(r) ==
  /\ request[r].stage = "waiting"
  /\ \E l \in Leases : Commit(r, l)
  /\ Retried(r)

-----------------------------------------------------------------------------
(* The circuit breaker of the replica                                       *)

Breaker(r) == circuit[HostOf[r]][request[r].op]
WithBreaker(r, c) ==
  circuit' = [circuit EXCEPT ![HostOf[r]] = [@ EXCEPT ![request[r].op] = c]]

TrackedBy(h) == {o \in Operations : circuit[h][o] # Null}
\* Faulty variant: every circuit may be.
EvictableAll(h) == TrackedBy(h)

\* Faulty variant: the entry is made whether or not one can go.
EvictableNone(h) == {Null}

\* Circuits that may be forgotten to make room.  (The code takes the oldest.)
Evictable(h) == {o \in TrackedBy(h) : /\ circuit[h][o].openedAt = Null
                                      /\ ~circuit[h][o].probeInFlight}

IsOpen(c) == c # Null /\ c.openedAt # Null
Blocks(c, now) == IsOpen(c) /\ (now < c.openedAt + OpenTime \/ c.probeInFlight)

Calling(r, probe) ==
  request' = [request EXCEPT ![r] = [@ EXCEPT !.stage = "calling", !.probe = probe]]

\* A circuit that is known and lets the request through.
Enter(r) ==
  /\ request[r].stage = "admitted"
  /\ Breaker(r) # Null
  /\ ~Blocks(Breaker(r), Now(HostOf[r]))
  /\ IF IsOpen(Breaker(r))
     THEN WithBreaker(r, [Breaker(r) EXCEPT !.probeInFlight = TRUE])
     ELSE UNCHANGED circuit
  /\ Calling(r, IsOpen(Breaker(r)))
  /\ UNCHANGED <<clock, window, bucket, lease>>

\* A circuit that is not: there is room for its state, or room is made.
EnterNew(r) ==
  LET h == HostOf[r]
      full == Cardinality(TrackedBy(h)) >= MaxTracked
  IN
  /\ request[r].stage = "admitted"
  /\ Breaker(r) = Null
  /\ \E evicted \in IF full THEN Evictable(h) ELSE {Null} :
       circuit' = [circuit EXCEPT ![h] =
         [o \in Operations |-> IF o = request[r].op THEN NewCircuit
                               ELSE IF o = evicted THEN Null ELSE circuit[h][o]]]
  /\ Calling(r, FALSE)
  /\ UNCHANGED <<clock, window, bucket, lease>>

\* The payload or the caller is not accepted, or the circuit does not let it through.
TurnAway(r) ==
  /\ request[r].stage = "admitted"
  /\ request' = [request EXCEPT ![r] = [@ EXCEPT !.stage = "releasing"]]
  /\ UNCHANGED <<clock, window, bucket, lease, circuit>>

Completes(r) ==
  /\ request[r].stage = "calling"
  /\ request' = [request EXCEPT ![r] = [@ EXCEPT !.stage = "releasing", !.probe = FALSE]]
  /\ UNCHANGED <<clock, window, bucket, lease>>

Succeed(r) ==
  /\ Completes(r)
  /\ WithBreaker(r, Null)

\* Faulty variant: the failure leaves the flag of the probe set.
FailedCircuitKeepsProbe(r) ==
  [failures |-> Threshold, probeInFlight |-> Breaker(r).probeInFlight,
   openedAt |-> Now(HostOf[r])]

\* The breaker of today counts it, whichever circuit let the request through.
FailedCircuit(r) ==
  LET c == Breaker(r)
      failures == IF c.failures < Threshold THEN c.failures + 1 ELSE Threshold
  IN [failures |-> failures, probeInFlight |-> FALSE,
      openedAt |-> IF request[r].probe \/ failures = Threshold
                   THEN Now(HostOf[r]) ELSE c.openedAt]

Fail(r) ==
  /\ Completes(r)
  /\ IF Breaker(r) = Null THEN UNCHANGED circuit ELSE WithBreaker(r, FailedCircuit(r))

-----------------------------------------------------------------------------
(* Release, crashes and time                                                *)

\* The lease row is deleted, or the database does not answer and it is left to expire.
Release(r) ==
  /\ request[r].stage = "releasing"
  /\ \/ lease' = [lease EXCEPT ![request[r].lease] = Null]
     \/ UNCHANGED lease
  /\ request' = [request EXCEPT ![r] = NoRequest]
  /\ UNCHANGED <<clock, window, bucket, circuit>>

Crash(h) ==
  /\ request' = [r \in Requests |-> IF HostOf[r] = h THEN NoRequest ELSE request[r]]
  /\ circuit' = [circuit EXCEPT ![h] = [o \in Operations |-> Null]]
  /\ UNCHANGED <<clock, window, bucket, lease>>

Tick ==
  /\ clock < MaxClock
  /\ clock' = clock + 1
  /\ UNCHANGED <<window, bucket, lease, circuit, request>>

Next ==
  \/ \E r \in Requests :
       \/ Arrive(r) \/ Refuse(r) \/ Acquire(r) \/ AcquireFails(r) \/ AcquireUnanswered(r)
       \/ Enter(r) \/ EnterNew(r) \/ TurnAway(r) \/ Succeed(r) \/ Fail(r) \/ Release(r)
  \/ \E h \in Hosts : Crash(h)
  \/ Tick

Spec == Init /\ [][Next]_vars

-----------------------------------------------------------------------------
(* Properties                                                               *)

\* Every part of the state has its type.
TypeOK ==
  /\ clock \in Nat
  /\ window \in [at: Nat, count: Nat]
  /\ bucket \in [Operations \X Subjects -> Bucket \cup {Null}]
  /\ lease \in [Leases -> Lease \cup {Null}]
  /\ circuit \in [Hosts -> [Operations -> Circuit \cup {Null}]]
  /\ request \in [Requests -> Request]

\* A request that was admitted and whose lease no replica takes for expired yet.
Holds(r) ==
  /\ request[r].stage \in {"admitted", "calling", "releasing"}
  /\ \A h \in Hosts : Now(h) < request[r].expiresAt

\* No more requests of an operation are under way than the policy allows, on all
\* replicas together, as long as none of them outlives its lease.
ConcurrencyLimit ==
  \A o \in Operations :
    Cardinality({r \in Requests : request[r].op = o /\ Holds(r)}) <= MaxConcurrent

\* Whatever answers are lost, requests repeated and clocks set apart, no count goes
\* beyond the policy, and the tables and each replica's memory stay within their room.
WithinPolicy ==
  /\ window.count <= MaxPerPlugin
  /\ \A b \in Operations \X Subjects : bucket[b] # Null => bucket[b].count <= MaxPerSubject
  /\ Cardinality({b \in Operations \X Subjects : bucket[b] # Null}) <= MaxBuckets
  /\ \A o \in Operations :
       Cardinality({l \in Leases : lease[l] # Null /\ lease[l].op = o}) <= MaxConcurrent
  /\ \A h \in Hosts : Cardinality(TrackedBy(h)) <= MaxTracked

\* A circuit that waits for its probe has one: it is never closed to everybody for good.
ProbeFlagHasProbe ==
  \A h \in Hosts, o \in Operations :
    circuit[h][o] # Null /\ circuit[h][o].probeInFlight =>
      \E r \in Requests : /\ HostOf[r] = h /\ request[r].op = o
                          /\ request[r].stage = "calling" /\ request[r].probe

\* An open circuit is forgotten on a success or with its replica, never to make room.
OpenCircuitKept ==
  [][\A h \in Hosts, o \in Operations :
       IsOpen(circuit[h][o]) /\ ~IsOpen(circuit'[h][o]) =>
         \/ \E r \in Requests : HostOf[r] = h /\ request[r].op = o /\ Succeed(r)
         \/ Crash(h)]_vars
=============================================================================
