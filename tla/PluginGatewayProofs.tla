------------------------ MODULE PluginGatewayProofs ------------------------
(***************************************************************************)
(* For any number of replicas, requests and operations and whatever their  *)
(* clocks show: no more requests of an operation are under way on all      *)
(* replicas together than the policy allows, as long as none outlives its  *)
(* lease; a circuit that waits for its probe has one; an open circuit is   *)
(* not forgotten to make room; and the counts of the admission table and   *)
(* the tables of the circuit breakers stay within the policy.              *)
(***************************************************************************)
EXTENDS PluginGateway, FiniteSetTheorems, TLAPS

-----------------------------------------------------------------------------
(* How one request moves                                                    *)

\* The stages in which a request has a lease.
Leased == {"admitted", "calling", "releasing"}

\* What is known of a request by itself.
RequestKnown(r) ==
  /\ request[r].stage \in Leased => request[r].lease \in Leases
  /\ request[r].stage \notin Leased => request[r].lease = Null
  /\ request[r].stage # "idle" => request[r].op \in Operations
  /\ request[r].stage = "waiting" => request[r].now <= Now(HostOf[r])

RequestsKnown == \A r \in Requests : RequestKnown(r)

Waits(r) ==
  /\ request'[r].stage = "waiting" /\ request'[r].lease = Null
  /\ request'[r].op \in Operations /\ request'[r].now <= Now(HostOf[r])

Proceeds(r) ==
  /\ request[r].stage \in Leased /\ request'[r].stage \in Leased
  /\ request'[r].op = request[r].op /\ request'[r].lease = request[r].lease
  /\ request'[r].expiresAt = request[r].expiresAt

Admitted(r, l) ==
  /\ request[r].stage = "waiting" /\ request'[r].stage = "admitted"
  /\ request'[r].op = request[r].op /\ request'[r].lease = l
  /\ request'[r].expiresAt = request[r].now + LeaseTime

\* A step of r changes the request of r alone; it may commit a lease, which is its own
\* when the answer arrives, and delete the lease it had.
Frame(r) ==
  /\ request' \in [Requests -> Request]
  /\ \A q \in Requests : q # r => request'[q] = request[q]
  /\ clock' = clock
  /\ \/ /\ request'[r] = NoRequest \/ Waits(r) \/ Proceeds(r)
        /\ lease' = lease
     \/ \E l \in Leases : /\ request[r].stage = "waiting" /\ Commit(r, l)
                          /\ request'[r] = NoRequest \/ Waits(r) \/ Admitted(r, l)
     \/ /\ request[r].stage = "releasing" /\ request'[r] = NoRequest
        /\ lease' = [lease EXCEPT ![request[r].lease] = Null]

RequestStep(r) ==
  \/ Arrive(r) \/ Refuse(r) \/ Acquire(r) \/ AcquireFails(r) \/ AcquireUnanswered(r)
  \/ Enter(r) \/ EnterNew(r) \/ TurnAway(r) \/ Succeed(r) \/ Fail(r) \/ Release(r)

LEMMA NowIsNat == \A r \in Requests : TypeOK => Now(HostOf[r]) \in Nat
  BY GatewayAssumption DEF TypeOK, Now

LEMMA NoRequestIsRequest == NoRequest \in Request
<1>1. 0 \in 0..MaxAttempts
  BY GatewayAssumption
<1> QED BY <1>1 DEF NoRequest, Request, Stages

\* The request of r alone changes, and it becomes e.
Becomes(r, e) == request' = [request EXCEPT ![r] = e]

LEMMA BecomesFacts ==
  ASSUME TypeOK, NEW r \in Requests, NEW e \in Request, Becomes(r, e)
  PROVE  /\ request' \in [Requests -> Request]
         /\ request'[r] = e
         /\ \A q \in Requests : q # r => request'[q] = request[q]
  BY DEF TypeOK, Becomes

LEMMA RetriedFacts ==
  ASSUME TypeOK, RequestsKnown, NEW r \in Requests, request[r].stage = "waiting", Retried(r)
  PROVE  /\ request' \in [Requests -> Request]
         /\ request'[r] = NoRequest \/ Waits(r)
         /\ \A q \in Requests : q # r => request'[q] = request[q]
<1>1. request[r] \in Request /\ RequestKnown(r)
  BY DEF TypeOK, RequestsKnown
<1>2. CASE request[r].attempt < MaxAttempts
  <2> DEFINE e == [request[r] EXCEPT !.attempt = request[r].attempt + 1]
  <2>1. request[r].attempt + 1 \in 0..MaxAttempts
    BY <1>1, <1>2, GatewayAssumption DEF Request
  <2>2. /\ e \in Request /\ e.stage = "waiting" /\ e.lease = request[r].lease
        /\ e.op = request[r].op /\ e.now = request[r].now
    BY <1>1, <2>1 DEF Request
  <2>3. Becomes(r, e)
    BY <1>2 DEF Retried, Becomes
  <2> HIDE DEF e
  <2> QED BY <1>1, <2>2, <2>3, BecomesFacts DEF Waits, RequestKnown, Leased
<1>3. CASE ~(request[r].attempt < MaxAttempts)
  <2>1. Becomes(r, NoRequest)
    BY <1>3 DEF Retried, Becomes
  <2> QED BY <2>1, BecomesFacts, NoRequestIsRequest
<1> QED BY <1>2, <1>3

\* The request of r goes on to a stage in which it still has its lease.
LEMMA ProceedsFacts ==
  ASSUME TypeOK, NEW r \in Requests, request[r].stage \in Leased,
         NEW stage \in Leased, NEW probe \in BOOLEAN,
         request' = [request EXCEPT ![r] = [@ EXCEPT !.stage = stage, !.probe = probe]]
  PROVE  /\ request' \in [Requests -> Request]
         /\ Proceeds(r)
         /\ request'[r].stage = stage /\ request'[r].probe = probe
         /\ \A q \in Requests : q # r => request'[q] = request[q]
<1> DEFINE e == [request[r] EXCEPT !.stage = stage, !.probe = probe]
<1>1. request[r] \in Request /\ stage \in Stages
  BY DEF TypeOK, Leased, Stages
<1>2. /\ e \in Request /\ e.stage = stage /\ e.probe = probe /\ e.lease = request[r].lease
      /\ e.op = request[r].op /\ e.expiresAt = request[r].expiresAt
  BY <1>1 DEF Request
<1>3. Becomes(r, e)
  BY DEF Becomes
<1> HIDE DEF e
<1> QED BY <1>2, <1>3, BecomesFacts DEF Proceeds

LEMMA CallingFacts ==
  ASSUME TypeOK, NEW r \in Requests, request[r].stage = "admitted",
         NEW probe \in BOOLEAN, Calling(r, probe)
  PROVE  /\ request' \in [Requests -> Request]
         /\ Proceeds(r)
         /\ request'[r].stage = "calling" /\ request'[r].probe = probe
         /\ \A q \in Requests : q # r => request'[q] = request[q]
  BY ProceedsFacts DEF Calling, Leased

LEMMA CompletesFacts ==
  ASSUME TypeOK, NEW r \in Requests, Completes(r)
  PROVE  /\ request' \in [Requests -> Request]
         /\ Proceeds(r)
         /\ request'[r].stage = "releasing"
         /\ \A q \in Requests : q # r => request'[q] = request[q]
  BY ProceedsFacts DEF Completes, Leased

LEMMA TurnAwayFacts ==
  ASSUME TypeOK, NEW r \in Requests, TurnAway(r)
  PROVE  /\ request' \in [Requests -> Request]
         /\ Proceeds(r)
         /\ \A q \in Requests : q # r => request'[q] = request[q]
<1> DEFINE e == [request[r] EXCEPT !.stage = "releasing"]
<1>1. request[r] \in Request /\ request[r].stage = "admitted"
  BY DEF TypeOK, TurnAway
<1>2. /\ e \in Request /\ e.stage = "releasing" /\ e.lease = request[r].lease
      /\ e.op = request[r].op /\ e.expiresAt = request[r].expiresAt
  BY <1>1 DEF Request, Stages
<1>3. Becomes(r, e)
  BY DEF TurnAway, Becomes
<1> HIDE DEF e
<1> QED BY <1>1, <1>2, <1>3, BecomesFacts DEF Proceeds, Leased

\* Every step of a request is within the frame.
LEMMA StepFrame ==
  ASSUME TypeOK, RequestsKnown, NEW r \in Requests, RequestStep(r) PROVE Frame(r)
<1>0. request \in [Requests -> Request] /\ request[r] \in Request /\ RequestKnown(r)
  BY DEF TypeOK, RequestsKnown
<1>1. CASE Arrive(r)
  <2>1. PICK o \in OpsOf[r] : request' = [request EXCEPT ![r] =
          [NoRequest EXCEPT !.stage = "waiting", !.op = o, !.now = Now(HostOf[r]), !.attempt = 1]]
    BY <1>1 DEF Arrive
  <2> DEFINE e == [NoRequest EXCEPT !.stage = "waiting", !.op = o, !.now = Now(HostOf[r]),
                                    !.attempt = 1]
  <2>2. o \in Operations /\ 1 \in 0..MaxAttempts /\ Now(HostOf[r]) \in Nat
    BY NowIsNat, GatewayAssumption
  <2>3. /\ e \in Request /\ e.stage = "waiting" /\ e.lease = Null
        /\ e.op = o /\ e.now = Now(HostOf[r])
    BY <2>2 DEF NoRequest, Request, Stages
  <2>4. Becomes(r, e)
    BY <2>1 DEF Becomes
  <2> HIDE DEF e
  <2>5. Waits(r) /\ request' \in [Requests -> Request]
        /\ \A q \in Requests : q # r => request'[q] = request[q]
    BY <2>2, <2>3, <2>4, BecomesFacts DEF Waits
  <2> QED BY <1>1, <2>5 DEF Arrive, Frame
<1>2. CASE Refuse(r)
  <2>1. Becomes(r, NoRequest)
    BY <1>2 DEF Refuse, Becomes
  <2> QED BY <1>2, <2>1, BecomesFacts, NoRequestIsRequest DEF Refuse, Frame
<1>3. CASE Acquire(r)
  <2>1. PICK l \in Leases :
          /\ Commit(r, l)
          /\ request' = [request EXCEPT ![r] =
               [@ EXCEPT !.stage = "admitted", !.attempt = 0, !.lease = l,
                         !.expiresAt = request[r].now + LeaseTime]]
    BY <1>3 DEF Acquire
  <2> DEFINE e == [request[r] EXCEPT !.stage = "admitted", !.attempt = 0, !.lease = l,
                                     !.expiresAt = request[r].now + LeaseTime]
  <2>2. 0 \in 0..MaxAttempts /\ request[r].now + LeaseTime \in Nat
    BY <1>0, GatewayAssumption DEF Request
  <2>3. /\ e \in Request /\ e.stage = "admitted" /\ e.lease = l
        /\ e.op = request[r].op /\ e.expiresAt = request[r].now + LeaseTime
    BY <1>0, <2>2 DEF Request, Stages
  <2>4. Becomes(r, e)
    BY <2>1 DEF Becomes
  <2> HIDE DEF e
  <2>5. Admitted(r, l) /\ request' \in [Requests -> Request]
        /\ \A q \in Requests : q # r => request'[q] = request[q]
    BY <1>3, <2>3, <2>4, BecomesFacts DEF Acquire, Admitted
  <2> QED BY <1>3, <2>1, <2>5 DEF Acquire, Commit, Frame
<1>4. CASE AcquireFails(r)
  BY <1>4, RetriedFacts DEF AcquireFails, Frame
<1>5. CASE AcquireUnanswered(r)
  BY <1>5, RetriedFacts DEF AcquireUnanswered, Commit, Frame
<1>6. CASE Enter(r)
  BY <1>6, CallingFacts DEF Enter, IsOpen, Frame
<1>7. CASE EnterNew(r)
  BY <1>7, CallingFacts DEF EnterNew, Frame
<1>8. CASE TurnAway(r)
  BY <1>8, TurnAwayFacts DEF TurnAway, Frame
<1>9. CASE Succeed(r) \/ Fail(r)
  BY <1>9, CompletesFacts DEF Succeed, Fail, Completes, Frame
<1>10. CASE Release(r)
  <2>1. Becomes(r, NoRequest)
    BY <1>10 DEF Release, Becomes
  <2> QED BY <1>10, <2>1, BecomesFacts, NoRequestIsRequest DEF Release, Frame
<1> QED BY <1>1, <1>2, <1>3, <1>4, <1>5, <1>6, <1>7, <1>8, <1>9, <1>10 DEF RequestStep

-----------------------------------------------------------------------------
(* Types                                                                    *)

\* What a transaction writes has its type.
LEMMA CommitTyped ==
  ASSUME TypeOK, NEW r \in Requests, request[r].op \in Operations, NEW l \in Leases, Commit(r, l)
  PROVE  /\ window' \in [at: Nat, count: Nat]
         /\ bucket' \in [Operations \X Subjects -> Bucket \cup {Null}]
         /\ lease' \in [Leases -> Lease \cup {Null}]
         /\ UNCHANGED <<clock, circuit>>
<1>0. /\ request[r] \in Request /\ request[r].now \in Nat /\ window \in [at: Nat, count: Nat]
      /\ bucket \in [Operations \X Subjects -> Bucket \cup {Null}]
      /\ lease \in [Leases -> Lease \cup {Null}]
      /\ WindowTime \in Nat \ {0} /\ LeaseTime \in Nat
  BY GatewayAssumption DEF TypeOK, Request
<1>1. WindowOf(r) \in Nat
  BY <1>0 DEF WindowOf
<1>2. window' \in [at: Nat, count: Nat]
  <2>1. PluginCount(r) + 1 \in Nat
    BY <1>0 DEF PluginCount
  <2> QED BY <1>1, <2>1 DEF Commit
<1>3. bucket' \in [Operations \X Subjects -> Bucket \cup {Null}]
  <2>1. LiveBuckets(r) \in [Operations \X Subjects -> Bucket \cup {Null}]
    BY <1>0 DEF LiveBuckets
  <2>2. BucketOf(r) \in Operations \X Subjects
    BY GatewayAssumption DEF BucketOf
  <2>3. SubjectCount(r) + 1 \in Nat
    <3>1. LiveBuckets(r)[BucketOf(r)] \in Bucket \cup {Null}
      BY <2>1, <2>2
    <3> QED BY <3>1 DEF SubjectCount, Bucket
  <2>4. [window |-> WindowOf(r), count |-> SubjectCount(r) + 1, updatedAt |-> request[r].now]
          \in Bucket
    BY <1>0, <1>1, <2>3 DEF Bucket
  <2> QED BY <2>1, <2>4 DEF Commit
<1>4. lease' \in [Leases -> Lease \cup {Null}]
  <2>1. LiveLeases(r) \in [Leases -> Lease \cup {Null}]
    BY <1>0 DEF LiveLeases
  <2>2. [op |-> request[r].op, expiresAt |-> request[r].now + LeaseTime] \in Lease
    BY <1>0 DEF Lease
  <2> QED BY <2>1, <2>2 DEF Commit
<1> QED BY <1>2, <1>3, <1>4 DEF Commit

\* The circuit of an operation on a replica is replaced.
LEMMA BreakerTyped ==
  ASSUME TypeOK, NEW r \in Requests, request[r].op \in Operations,
         NEW c \in Circuit \cup {Null}, WithBreaker(r, c)
  PROVE  /\ circuit' \in [Hosts -> [Operations -> Circuit \cup {Null}]]
         /\ circuit'[HostOf[r]][request[r].op] = c
         /\ \A h \in Hosts, o \in Operations :
              ~(h = HostOf[r] /\ o = request[r].op) => circuit'[h][o] = circuit[h][o]
<1> DEFINE f == [circuit[HostOf[r]] EXCEPT ![request[r].op] = c]
<1>1. /\ circuit \in [Hosts -> [Operations -> Circuit \cup {Null}]] /\ HostOf[r] \in Hosts
      /\ circuit[HostOf[r]] \in [Operations -> Circuit \cup {Null}]
  BY GatewayAssumption DEF TypeOK
<1>2. /\ f \in [Operations -> Circuit \cup {Null}] /\ f[request[r].op] = c
      /\ \A o \in Operations : o # request[r].op => f[o] = circuit[HostOf[r]][o]
  BY <1>1
<1>3. circuit' = [circuit EXCEPT ![HostOf[r]] = f]
  BY DEF WithBreaker
<1> HIDE DEF f
<1> QED BY <1>1, <1>2, <1>3

\* How the steps of a request change the circuits.
LEMMA CircuitFacts ==
  ASSUME TypeOK, RequestsKnown, NEW r \in Requests, RequestStep(r)
  PROVE  /\ circuit' \in [Hosts -> [Operations -> Circuit \cup {Null}]]
         /\ \A h \in Hosts, o \in Operations :
              ~(h = HostOf[r] /\ o = request[r].op) =>
                \/ circuit'[h][o] = circuit[h][o]
                \/ circuit'[h][o] = Null /\ ~IsOpen(circuit[h][o])
         /\ \/ Succeed(r) /\ circuit'[HostOf[r]][request[r].op] = Null
            \/ Fail(r) /\ (circuit'[HostOf[r]][request[r].op] # Null =>
                             ~circuit'[HostOf[r]][request[r].op].probeInFlight)
            \/ circuit' = circuit /\ ~Succeed(r) /\ ~Fail(r)
            \/ /\ request[r].stage = "admitted" /\ Enter(r)
               /\ request'[r].stage = "calling" /\ request'[r].probe
            \/ /\ request[r].stage = "admitted" /\ EnterNew(r)
               /\ ~circuit'[HostOf[r]][request[r].op].probeInFlight
         /\ IsOpen(circuit[HostOf[r]][request[r].op]) /\ request[r].stage # "idle" =>
              IsOpen(circuit'[HostOf[r]][request[r].op]) \/ Succeed(r)
<1>0. /\ request[r] \in Request /\ RequestKnown(r) /\ HostOf[r] \in Hosts
      /\ circuit \in [Hosts -> [Operations -> Circuit \cup {Null}]]
      /\ Now(HostOf[r]) \in Nat /\ Null \notin Nat
  BY GatewayAssumption, NowIsNat DEF TypeOK, RequestsKnown
<1>1. CASE Arrive(r) \/ Refuse(r) \/ Acquire(r) \/ AcquireFails(r) \/ AcquireUnanswered(r)
           \/ TurnAway(r) \/ Release(r)
  <2>1. circuit' = circuit /\ request[r].stage # "calling"
    BY <1>1 DEF Arrive, Refuse, Acquire, AcquireFails, AcquireUnanswered, Commit, TurnAway, Release
  <2>2. ~Succeed(r) /\ ~Fail(r)
    BY <2>1 DEF Succeed, Fail, Completes
  <2> QED BY <1>0, <2>1, <2>2
<1>2. ASSUME request[r].stage # "idle"
      PROVE  /\ request[r].op \in Operations
             /\ Breaker(r) \in Circuit \cup {Null}
             /\ Breaker(r) = circuit[HostOf[r]][request[r].op]
  BY <1>0, <1>2 DEF RequestKnown, Breaker
<1>3. CASE Enter(r)
  <2> DEFINE c == [Breaker(r) EXCEPT !.probeInFlight = TRUE]
  <2>0. request[r].stage = "admitted" /\ Breaker(r) # Null
        /\ Calling(r, IsOpen(Breaker(r)))
    BY <1>3 DEF Enter
  <2>1. CASE IsOpen(Breaker(r))
    <3>1. WithBreaker(r, c)
      BY <1>3, <2>1 DEF Enter
    <3>2. c \in Circuit /\ c # Null /\ c.openedAt # Null
      <4>1. Breaker(r) \in Circuit /\ Breaker(r).openedAt # Null
        BY <1>2, <2>0, <2>1 DEF IsOpen
      <4>2. c \in Circuit /\ c.openedAt = Breaker(r).openedAt
        BY <4>1 DEF Circuit
      <4> QED BY <4>1, <4>2, RowAssumption
    <3>3. request'[r].stage = "calling" /\ request'[r].probe
      BY <2>0, <2>1, CallingFacts DEF IsOpen
    <3> HIDE DEF c
    <3> QED BY <1>2, <1>3, <2>0, <3>1, <3>2, <3>3, BreakerTyped DEF IsOpen
  <2>2. CASE ~IsOpen(Breaker(r))
    <3>1. circuit' = circuit
      BY <1>3, <2>2 DEF Enter
    <3>2. ~Succeed(r) /\ ~Fail(r)
      BY <2>0 DEF Succeed, Fail, Completes
    <3> QED BY <1>0, <3>1, <3>2
  <2> QED BY <2>1, <2>2
<1>4. CASE EnterNew(r)
  <2> DEFINE h == HostOf[r]
             full == Cardinality(TrackedBy(h)) >= MaxTracked
  <2>0. request[r].stage = "admitted" /\ Breaker(r) = Null
    BY <1>4 DEF EnterNew
  <2>1. PICK evicted \in IF full THEN Evictable(h) ELSE {Null} :
          circuit' = [circuit EXCEPT ![h] =
            [o \in Operations |-> IF o = request[r].op THEN NewCircuit
                                  ELSE IF o = evicted THEN Null ELSE circuit[h][o]]]
    BY <1>4 DEF EnterNew
  <2> DEFINE f == [o \in Operations |-> IF o = request[r].op THEN NewCircuit
                                        ELSE IF o = evicted THEN Null ELSE circuit[h][o]]
  <2>2. NewCircuit \in Circuit
    BY GatewayAssumption DEF NewCircuit, Circuit
  <2>3. circuit[h] \in [Operations -> Circuit \cup {Null}]
    BY <1>0
  <2>4. f \in [Operations -> Circuit \cup {Null}]
    BY <2>2, <2>3
  <2>5. f[request[r].op] = NewCircuit
    BY <1>2, <2>0
  <2>6. ASSUME NEW o \in Operations, o # request[r].op
        PROVE  f[o] = circuit[h][o] \/ (f[o] = Null /\ ~IsOpen(circuit[h][o]))
    <3>1. CASE o = evicted
      <4>1. o \in Evictable(h)
        BY <2>1, <3>1, GatewayAssumption
      <4> QED BY <2>6, <3>1, <4>1 DEF Evictable, IsOpen
    <3> QED BY <2>6, <3>1
  <2>7. circuit' = [circuit EXCEPT ![h] = f]
    BY <2>1
  <2> HIDE DEF f
  <2>8. circuit'[h] = f /\ \A g \in Hosts : g # h => circuit'[g] = circuit[g]
    BY <1>0, <2>7
  <2>9. circuit' \in [Hosts -> [Operations -> Circuit \cup {Null}]]
    BY <1>0, <2>4, <2>7
  <2>10. ~circuit'[h][request[r].op].probeInFlight
    BY <2>5, <2>8 DEF NewCircuit
  <2>11. ~IsOpen(circuit[HostOf[r]][request[r].op])
    BY <1>2, <2>0 DEF IsOpen
  <2>12. ASSUME NEW g \in Hosts, NEW o \in Operations, ~(g = HostOf[r] /\ o = request[r].op)
         PROVE  \/ circuit'[g][o] = circuit[g][o]
                \/ circuit'[g][o] = Null /\ ~IsOpen(circuit[g][o])
    BY <2>6, <2>8, <2>12
  <2> QED BY <1>4, <2>0, <2>9, <2>10, <2>11, <2>12
<1>5. CASE Succeed(r)
  BY <1>2, <1>5, BreakerTyped DEF Succeed, Completes
<1>6. CASE Fail(r)
  <2>0. request[r].stage = "calling"
    BY <1>6 DEF Fail, Completes
  <2>1. CASE Breaker(r) = Null
    BY <1>0, <1>2, <1>6, <2>0, <2>1 DEF Fail, IsOpen
  <2>2. CASE Breaker(r) # Null
    <3> DEFINE c == FailedCircuit(r)
               n == IF Breaker(r).failures < Threshold THEN Breaker(r).failures + 1 ELSE Threshold
    <3>1. Breaker(r) \in Circuit
      BY <1>2, <2>0, <2>2
    <3>2. n \in 0..Threshold
      BY <3>1, GatewayAssumption DEF Circuit
    <3>3. /\ c = [failures |-> n, probeInFlight |-> FALSE,
                  openedAt |-> IF request[r].probe \/ n = Threshold
                               THEN Now(HostOf[r]) ELSE Breaker(r).openedAt]
      BY DEF FailedCircuit
    <3> HIDE DEF n, c
    <3>4. c \in Circuit /\ ~c.probeInFlight
      BY <1>0, <3>1, <3>2, <3>3 DEF Circuit
    <3>5. IsOpen(Breaker(r)) => IsOpen(c)
      <4>1. Breaker(r).openedAt # Null => c.openedAt # Null
        BY <1>0, <3>3
      <4>2. c # Null
        BY <3>4, RowAssumption
      <4> QED BY <4>1, <4>2 DEF IsOpen
    <3>6. WithBreaker(r, c)
      BY <1>6, <2>2 DEF Fail, c
    <3> QED BY <1>2, <1>6, <2>0, <3>4, <3>5, <3>6, BreakerTyped
  <2> QED BY <2>1, <2>2
<1> QED BY <1>1, <1>3, <1>4, <1>5, <1>6 DEF RequestStep

-----------------------------------------------------------------------------
(* The leases of the requests under way                                     *)

\* No two requests have one lease, and a request that is under way within its lease has
\* the row that says so.
LeasesOwn ==
  \A r, q \in Requests : r # q /\ request[r].lease # Null => request[r].lease # request[q].lease

RowsHeld ==
  \A r \in Requests :
    Holds(r) => lease[request[r].lease] = [op |-> request[r].op,
                                           expiresAt |-> request[r].expiresAt]

Holding(o) == {r \in Requests : request[r].op = o /\ Holds(r)}

Counted == \A o \in Operations : IsFiniteSet(Holding(o))
                                 /\ Cardinality(Holding(o)) <= MaxConcurrent

GatewayInv ==
  TypeOK /\ RequestsKnown /\ LeasesOwn /\ RowsHeld /\ Counted /\ ProbeFlagHasProbe

LEMMA InitGateway == Init => GatewayInv
<1> SUFFICES ASSUME Init PROVE GatewayInv
  OBVIOUS
<1>1. TypeOK
  BY NoRequestIsRequest DEF Init, TypeOK
<1>2. RequestsKnown
  BY DEF Init, RequestsKnown, RequestKnown, NoRequest, Leased
<1>3. LeasesOwn /\ RowsHeld
  BY DEF Init, LeasesOwn, RowsHeld, Holds, NoRequest
<1>4. Counted
  <2>1. \A o \in Operations : Holding(o) = {}
    BY DEF Init, Holding, Holds, NoRequest
  <2>2. IsFiniteSet({}) /\ Cardinality({}) = 0 /\ 0 <= MaxConcurrent
    BY FS_EmptySet, GatewayAssumption
  <2> QED BY <2>1, <2>2 DEF Counted
<1>5. ProbeFlagHasProbe
  BY DEF Init, ProbeFlagHasProbe
<1> QED BY <1>1, <1>2, <1>3, <1>4, <1>5 DEF GatewayInv

\* A request that held its lease before a step of r either is r or holds it as before.
LEMMA StillHolds ==
  ASSUME NEW r \in Requests, NEW q \in Requests, q # r, Frame(r), Holds(q)'
  PROVE  Holds(q) /\ request'[q] = request[q]
  BY DEF Frame, Holds, Now

\* What every replica takes for live at its time is left by the transaction of r.
LEMMA LiveRowLeft ==
  ASSUME GatewayInv, NEW r \in Requests, NEW q \in Requests, Holds(q),
         request[r].stage = "waiting"
  PROVE  /\ request[q].lease \in Leases
         /\ LiveLeases(r)[request[q].lease] = lease[request[q].lease]
         /\ LiveLeases(r)[request[q].lease] # Null
         /\ LiveLeases(r)[request[q].lease].op = request[q].op
<1>1. request[q].lease \in Leases
  BY DEF GatewayInv, RequestsKnown, RequestKnown, Holds, Leased
<1>2. lease[request[q].lease] = [op |-> request[q].op, expiresAt |-> request[q].expiresAt]
  BY DEF GatewayInv, RowsHeld
<1>3. lease[request[q].lease] # Null
  <2>1. request[q].stage # "idle" /\ request[q] \in Request
    BY DEF Holds, GatewayInv, TypeOK
  <2>2. request[q].op \in Operations /\ request[q].expiresAt \in Nat
    BY <2>1 DEF GatewayInv, RequestsKnown, RequestKnown, Request
  <2>3. lease[request[q].lease] \in Lease
    BY <1>2, <2>2 DEF Lease
  <2> QED BY <2>3, RowAssumption
<1>4. ~(lease[request[q].lease].expiresAt <= request[r].now)
  <2>1. request[r].now <= Now(HostOf[r]) /\ request[r].now \in Nat
    BY DEF GatewayInv, RequestsKnown, RequestKnown, TypeOK, Request
  <2>2. HostOf[r] \in Hosts /\ Now(HostOf[r]) \in Nat
    BY NowIsNat, GatewayAssumption DEF GatewayInv
  <2>3. Now(HostOf[r]) < request[q].expiresAt /\ request[q].expiresAt \in Nat
    BY <2>2 DEF Holds, GatewayInv, TypeOK, Request
  <2>4. lease[request[q].lease].expiresAt = request[q].expiresAt
    BY <1>2
  <2> QED BY <2>1, <2>2, <2>3, <2>4
<1> QED BY <1>1, <1>2, <1>3, <1>4 DEF LiveLeases

\* Within the limit the transaction of r saw, the holders of its operation are counted.
LEMMA HoldersWithinRows ==
  ASSUME GatewayInv, NEW r \in Requests, request[r].stage = "waiting", Admits(r)
  PROVE  Cardinality(Holding(request[r].op)) < MaxConcurrent
<1> DEFINE S == Holding(request[r].op)
           T == {l \in Leases : LiveLeases(r)[l] # Null /\ LiveLeases(r)[l].op = request[r].op}
           f == [q \in S |-> request[q].lease]
<1>1. IsFiniteSet(T) /\ Cardinality(T) = Concurrent(r)
  BY FS_Subset, GatewayAssumption DEF Concurrent
<1>2. \A q \in S : q \in Requests /\ f[q] \in T
  BY LiveRowLeft DEF Holding
<1>3. ASSUME NEW p \in S, NEW q \in S, f[p] = f[q] PROVE p = q
  <2>1. request[p].lease \in Leases /\ request[p].lease = request[q].lease
    BY <1>2, <1>3
  <2>2. request[p].lease # Null
    BY <2>1, GatewayAssumption
  <2> QED BY <1>2, <2>1, <2>2 DEF GatewayInv, LeasesOwn
<1>4. f \in Injection(S, T)
  BY <1>2, <1>3 DEF Injection, IsInjective
<1>5. Cardinality(S) <= Cardinality(T)
  BY <1>1, <1>4, FS_Injection
<1>6. Cardinality(T) < MaxConcurrent
  BY <1>1 DEF Admits
<1>7. IsFiniteSet(S)
  BY <1>1, <1>4, FS_Injection
<1>8. Cardinality(S) \in Nat /\ Cardinality(T) \in Nat /\ MaxConcurrent \in Nat
  BY <1>1, <1>7, FS_CardinalityType, GatewayAssumption
<1> HIDE DEF S, T, f
<1>9. Cardinality(S) < MaxConcurrent
  BY <1>5, <1>6, <1>8
<1> QED BY <1>9 DEF S

-----------------------------------------------------------------------------
(* Every step keeps the invariant                                           *)

LEMMA RequestKeepsLeases ==
  ASSUME GatewayInv, NEW r \in Requests, Frame(r)
  PROVE  RequestsKnown' /\ LeasesOwn' /\ RowsHeld' /\ Counted'
<1>0. /\ \A q \in Requests : RequestKnown(q) /\ request[q] \in Request
      /\ \A q \in Requests : q # r => request'[q] = request[q]
      /\ clock' = clock /\ Null \notin Leases
      /\ lease \in [Leases -> Lease \cup {Null}] /\ HostOf[r] \in Hosts
  BY GatewayAssumption DEF GatewayInv, RequestsKnown, TypeOK, Frame
<1>1. \/ request'[r] = NoRequest
      \/ Waits(r)
      \/ Proceeds(r)
      \/ \E l \in Leases : Commit(r, l) /\ Admitted(r, l)
  BY DEF Frame
<1>2. RequestsKnown'
  <2>1. RequestKnown(r)'
    <3>1. CASE request'[r] = NoRequest
      BY <3>1 DEF NoRequest, RequestKnown, Leased
    <3>2. CASE Waits(r)
      BY <1>0, <3>2 DEF Waits, RequestKnown, Leased, Now
    <3>3. CASE Proceeds(r)
      BY <1>0, <3>3 DEF Proceeds, RequestKnown, Leased
    <3>4. CASE \E l \in Leases : Commit(r, l) /\ Admitted(r, l)
      BY <1>0, <3>4 DEF Admitted, RequestKnown, Leased
    <3> QED BY <1>1, <3>1, <3>2, <3>3, <3>4
  <2>2. ASSUME NEW q \in Requests, q # r PROVE RequestKnown(q)'
    BY <1>0, <2>2 DEF RequestKnown, Now
  <2> QED BY <2>1, <2>2 DEF RequestsKnown
<1>3. LeasesOwn'
  <2>1. \/ request'[r].lease = Null
        \/ request'[r].lease = request[r].lease
        \/ \A q \in Requests : request[q].lease # request'[r].lease
    BY <1>1 DEF NoRequest, Waits, Proceeds, Admitted, Commit, Unused
  <2> QED BY <1>0, <2>1 DEF GatewayInv, LeasesOwn
<1>4. RowsHeld'
  <2> SUFFICES ASSUME NEW q \in Requests, Holds(q)'
               PROVE  lease'[request'[q].lease] = [op |-> request'[q].op,
                                                   expiresAt |-> request'[q].expiresAt]
    BY DEF RowsHeld
  <2>1. CASE q # r
    <3>1. Holds(q) /\ request'[q] = request[q]
      BY <2>1, StillHolds
    <3>2. /\ lease[request[q].lease] = [op |-> request[q].op, expiresAt |-> request[q].expiresAt]
          /\ request[q].lease \in Leases
      BY <1>0, <3>1 DEF GatewayInv, RowsHeld, RequestKnown, Holds, Leased
    <3>3. CASE lease' = lease
      BY <3>1, <3>2, <3>3
    <3>4. ASSUME NEW l \in Leases, request[r].stage = "waiting", Commit(r, l)
          PROVE  lease'[request[q].lease] = lease[request[q].lease]
      <4>1. l # request[q].lease
        BY <3>4 DEF Commit, Unused
      <4>2. LiveLeases(r)[request[q].lease] = lease[request[q].lease]
        BY <3>1, <3>4, LiveRowLeft
      <4> QED BY <3>2, <3>4, <4>1, <4>2 DEF Commit, LiveLeases
    <3>5. CASE lease' = [lease EXCEPT ![request[r].lease] = Null]
      <4>1. request[q].lease # request[r].lease
        BY <1>0, <2>1, <3>2 DEF GatewayInv, LeasesOwn
      <4> QED BY <1>0, <3>1, <3>2, <3>5, <4>1
    <3> QED BY <3>1, <3>2, <3>3, <3>4, <3>5 DEF Frame
  <2>2. CASE q = r
    <3>1. request'[r].stage \in Leased
      BY <2>2 DEF Holds, Leased
    <3>2. CASE Proceeds(r) /\ lease' = lease
      <4>1. Holds(r)
        BY <1>0, <2>2, <3>2 DEF Proceeds, Holds, Leased, Now
      <4> QED BY <2>2, <3>2, <4>1 DEF GatewayInv, RowsHeld, Proceeds
    <3>3. ASSUME NEW l \in Leases, Commit(r, l), Admitted(r, l)
          PROVE  lease'[request'[r].lease] = [op |-> request'[r].op,
                                              expiresAt |-> request'[r].expiresAt]
      BY <3>3 DEF Commit, Admitted, LiveLeases
    <3> QED BY <2>2, <3>1, <3>2, <3>3 DEF Frame, NoRequest, Waits, Leased
  <2> QED BY <2>1, <2>2
<1>5. Counted'
  <2> SUFFICES ASSUME NEW o \in Operations
               PROVE  IsFiniteSet(Holding(o)') /\ Cardinality(Holding(o)') <= MaxConcurrent
    BY DEF Counted
  <2>0. IsFiniteSet(Holding(o)) /\ Cardinality(Holding(o)) <= MaxConcurrent
    BY DEF GatewayInv, Counted
  <2>1. \A q \in Holding(o)' : q # r => q \in Holding(o)
    BY StillHolds DEF Holding
  <2>2. CASE Holding(o)' \subseteq Holding(o)
    <3>1. IsFiniteSet(Holding(o)') /\ Cardinality(Holding(o)') <= Cardinality(Holding(o))
      BY <2>0, <2>2, FS_Subset
    <3>2. Cardinality(Holding(o)') \in Nat /\ Cardinality(Holding(o)) \in Nat
          /\ MaxConcurrent \in Nat
      BY <2>0, <3>1, FS_CardinalityType, GatewayAssumption
    <3> QED BY <2>0, <3>1, <3>2
  <2>3. CASE ~(Holding(o)' \subseteq Holding(o))
    <3>1. r \in Holding(o)' /\ r \notin Holding(o)
      BY <2>1, <2>3
    <3>2. request'[r].stage \in Leased /\ request'[r].op = o /\ Holds(r)'
      BY <3>1 DEF Holding, Holds, Leased
    <3>3. ~Proceeds(r)
      BY <1>0, <3>1, <3>2 DEF Proceeds, Holding, Holds, Leased, Now
    <3>4. PICK l \in Leases : Commit(r, l) /\ Admitted(r, l)
      BY <1>1, <3>2, <3>3 DEF NoRequest, Waits, Leased
    <3>5. Cardinality(Holding(o)) < MaxConcurrent
      BY <3>2, <3>4, HoldersWithinRows DEF Admitted, Commit
    <3>6. Holding(o)' \subseteq Holding(o) \cup {r}
      BY <2>1
    <3>7. /\ IsFiniteSet(Holding(o) \cup {r})
          /\ Cardinality(Holding(o) \cup {r}) = Cardinality(Holding(o)) + 1
      BY <2>0, <3>1, FS_AddElement
    <3>8. /\ IsFiniteSet(Holding(o)')
          /\ Cardinality(Holding(o)') <= Cardinality(Holding(o) \cup {r})
      BY <3>6, <3>7, FS_Subset
    <3>9. /\ Cardinality(Holding(o)') \in Nat /\ Cardinality(Holding(o)) \in Nat
          /\ MaxConcurrent \in Nat
      BY <2>0, <3>8, FS_CardinalityType, GatewayAssumption
    <3> QED BY <3>5, <3>7, <3>8, <3>9
  <2> QED BY <2>2, <2>3
<1> QED BY <1>2, <1>3, <1>4, <1>5

\* The replica, or nobody, takes requests away; the others hold what they held.
LEMMA FewerHold ==
  ASSUME GatewayInv, UNCHANGED lease, clock' \in Nat, clock <= clock',
         \A r \in Requests : request'[r] = request[r] \/ request'[r] = NoRequest
  PROVE  RequestsKnown' /\ LeasesOwn' /\ RowsHeld' /\ Counted'
<1>1. \A r \in Requests : RequestKnown(r) /\ request[r] \in Request
  BY DEF GatewayInv, RequestsKnown, TypeOK
<1>2. \A h \in Hosts : Now(h) \in Nat /\ Now(h)' \in Nat /\ Now(h) <= Now(h)'
  BY GatewayAssumption DEF Now, GatewayInv, TypeOK
<1>3. RequestsKnown'
  <2> SUFFICES ASSUME NEW r \in Requests PROVE RequestKnown(r)'
    BY DEF RequestsKnown
  <2>1. CASE request'[r] = NoRequest
    BY <2>1 DEF RequestKnown, NoRequest, Leased
  <2>2. CASE request'[r] = request[r]
    <3>1. HostOf[r] \in Hosts /\ request[r].now \in Nat
      BY <1>1, GatewayAssumption DEF Request
    <3> QED BY <1>1, <1>2, <2>2, <3>1 DEF RequestKnown, Leased
  <2> QED BY <2>1, <2>2
<1>4. LeasesOwn'
  BY DEF GatewayInv, LeasesOwn, NoRequest
<1>5. ASSUME NEW r \in Requests, Holds(r)' PROVE Holds(r) /\ request'[r] = request[r]
  <2>1. request'[r] = request[r]
    BY <1>5 DEF Holds, NoRequest
  <2>2. ASSUME NEW h \in Hosts PROVE Now(h) < request[r].expiresAt
    <3>1. Now(h)' < request[r].expiresAt /\ request[r].expiresAt \in Nat
      BY <1>1, <1>5, <2>1 DEF Holds, Request
    <3> QED BY <1>2, <3>1
  <2> QED BY <1>5, <2>1, <2>2 DEF Holds
<1>6. RowsHeld'
  BY <1>5 DEF GatewayInv, RowsHeld
<1>7. Counted'
  <2> SUFFICES ASSUME NEW o \in Operations
               PROVE  IsFiniteSet(Holding(o)') /\ Cardinality(Holding(o)') <= MaxConcurrent
    BY DEF Counted
  <2>1. IsFiniteSet(Holding(o)) /\ Cardinality(Holding(o)) <= MaxConcurrent
    BY DEF GatewayInv, Counted
  <2>2. Holding(o)' \subseteq Holding(o)
    BY <1>5 DEF Holding
  <2>3. IsFiniteSet(Holding(o)') /\ Cardinality(Holding(o)') <= Cardinality(Holding(o))
    BY <2>1, <2>2, FS_Subset
  <2>4. Cardinality(Holding(o)') \in Nat /\ Cardinality(Holding(o)) \in Nat
        /\ MaxConcurrent \in Nat
    BY <2>1, <2>3, FS_CardinalityType, GatewayAssumption
  <2> QED BY <2>1, <2>3, <2>4
<1> QED BY <1>3, <1>4, <1>6, <1>7

\* The types after a step of a request.
LEMMA RequestKeepsTypes ==
  ASSUME GatewayInv, NEW r \in Requests, RequestStep(r) PROVE TypeOK'
<1>0. TypeOK /\ RequestsKnown /\ RequestKnown(r) /\ request[r] \in Request
  BY DEF GatewayInv, RequestsKnown, TypeOK
<1>1. request' \in [Requests -> Request] /\ clock' = clock
  BY <1>0, StepFrame DEF Frame
<1>2. circuit' \in [Hosts -> [Operations -> Circuit \cup {Null}]]
  BY <1>0, CircuitFacts
<1>3. /\ window' \in [at: Nat, count: Nat]
      /\ bucket' \in [Operations \X Subjects -> Bucket \cup {Null}]
      /\ lease' \in [Leases -> Lease \cup {Null}]
  <2>1. CASE UNCHANGED <<window, bucket, lease>>
    BY <1>0, <2>1 DEF TypeOK
  <2>2. CASE Acquire(r) \/ AcquireUnanswered(r)
    <3>1. request[r].op \in Operations
      BY <1>0, <2>2 DEF Acquire, AcquireUnanswered, RequestKnown
    <3> QED BY <1>0, <2>2, <3>1, CommitTyped DEF Acquire, AcquireUnanswered
  <2>3. CASE Release(r)
    BY <1>0, <2>3 DEF Release, TypeOK
  <2> QED BY <2>1, <2>2, <2>3
          DEF RequestStep, Arrive, Refuse, AcquireFails, Enter, EnterNew, TurnAway, Succeed, Fail,
              Completes
<1> QED BY <1>0, <1>1, <1>2, <1>3 DEF TypeOK

\* A step of a request leaves no circuit waiting for a probe that is not under way.
LEMMA RequestKeepsProbes ==
  ASSUME GatewayInv, NEW r \in Requests, RequestStep(r) PROVE ProbeFlagHasProbe'
<1>0. /\ TypeOK /\ RequestsKnown
      /\ \A q \in Requests : q # r => request'[q] = request[q]
  BY StepFrame DEF GatewayInv, Frame
<1> SUFFICES ASSUME NEW h \in Hosts, NEW o \in Operations,
                    circuit'[h][o] # Null, circuit'[h][o].probeInFlight
             PROVE  \E q \in Requests : /\ HostOf[q] = h /\ request'[q].op = o
                                        /\ request'[q].stage = "calling" /\ request'[q].probe
  BY DEF ProbeFlagHasProbe
<1>1. ASSUME circuit'[h][o] = circuit[h][o]
      PROVE  \E q \in Requests : /\ HostOf[q] = h /\ request[q].op = o
                                 /\ request[q].stage = "calling" /\ request[q].probe
  BY <1>1 DEF GatewayInv, ProbeFlagHasProbe
<1>2. request[r].stage = "calling" => Succeed(r) \/ Fail(r)
  BY DEF RequestStep, Arrive, Refuse, Acquire, AcquireFails, AcquireUnanswered, Enter, EnterNew,
         TurnAway, Release
<1>3. CASE ~(h = HostOf[r] /\ o = request[r].op)
  <2>1. circuit'[h][o] = circuit[h][o]
    BY <1>0, <1>3, CircuitFacts
  <2> QED BY <1>0, <1>1, <1>3, <2>1
<1>4. CASE h = HostOf[r] /\ o = request[r].op
  <2>1. CASE circuit' = circuit /\ ~Succeed(r) /\ ~Fail(r)
    BY <1>0, <1>1, <1>2, <2>1
  <2>2. CASE request[r].stage = "admitted" /\ Enter(r)
             /\ request'[r].stage = "calling" /\ request'[r].probe
    <3>1. Proceeds(r)
      BY <1>0, <2>2, CallingFacts DEF Enter, IsOpen
    <3> QED BY <1>4, <2>2, <3>1 DEF Proceeds
  <2> QED BY <1>0, <1>4, <2>1, <2>2, CircuitFacts
<1> QED BY <1>3, <1>4

LEMMA CrashKeeps ==
  ASSUME GatewayInv, NEW h \in Hosts, Crash(h) PROVE GatewayInv'
<1>0. /\ TypeOK /\ clock \in Nat
      /\ circuit \in [Hosts -> [Operations -> Circuit \cup {Null}]]
  BY DEF GatewayInv, TypeOK
<1>1. request' = [r \in Requests |-> IF HostOf[r] = h THEN NoRequest ELSE request[r]]
  BY DEF Crash
<1>2. /\ request' \in [Requests -> Request]
      /\ \A r \in Requests : request'[r] = request[r] \/ request'[r] = NoRequest
      /\ \A r \in Requests : HostOf[r] # h => request'[r] = request[r]
  BY <1>0, <1>1, NoRequestIsRequest DEF TypeOK
<1> DEFINE f == [o \in Operations |-> Null]
<1>3. circuit' = [circuit EXCEPT ![h] = f]
  BY DEF Crash
<1>4. f \in [Operations -> Circuit \cup {Null}] /\ \A o \in Operations : f[o] = Null
  OBVIOUS
<1> HIDE DEF f
<1>5. /\ circuit' \in [Hosts -> [Operations -> Circuit \cup {Null}]]
      /\ circuit'[h] = f /\ \A g \in Hosts : g # h => circuit'[g] = circuit[g]
  BY <1>0, <1>3, <1>4
<1>6. TypeOK'
  BY <1>0, <1>2, <1>5 DEF Crash, TypeOK
<1>7. RequestsKnown' /\ LeasesOwn' /\ RowsHeld' /\ Counted'
  <2>1. UNCHANGED lease /\ clock' \in Nat /\ clock <= clock'
    BY <1>0 DEF Crash
  <2> QED BY <1>2, <2>1, FewerHold
<1>8. ProbeFlagHasProbe'
  <2> SUFFICES ASSUME NEW g \in Hosts, NEW o \in Operations,
                      circuit'[g][o] # Null, circuit'[g][o].probeInFlight
               PROVE  \E q \in Requests : /\ HostOf[q] = g /\ request'[q].op = o
                                          /\ request'[q].stage = "calling" /\ request'[q].probe
    BY DEF ProbeFlagHasProbe
  <2>1. g # h /\ circuit'[g][o] = circuit[g][o]
    BY <1>4, <1>5
  <2>2. PICK q \in Requests : /\ HostOf[q] = g /\ request[q].op = o
                              /\ request[q].stage = "calling" /\ request[q].probe
    BY <2>1 DEF GatewayInv, ProbeFlagHasProbe
  <2> QED BY <1>2, <2>1, <2>2
<1> QED BY <1>6, <1>7, <1>8 DEF GatewayInv

LEMMA NextGateway == GatewayInv /\ [Next]_vars => GatewayInv'
<1> SUFFICES ASSUME GatewayInv, [Next]_vars PROVE GatewayInv'
  OBVIOUS
<1>0. TypeOK /\ RequestsKnown /\ clock \in Nat
  BY DEF GatewayInv, TypeOK
<1>1. ASSUME NEW r \in Requests, RequestStep(r) PROVE GatewayInv'
  <2>1. RequestsKnown' /\ LeasesOwn' /\ RowsHeld' /\ Counted'
    BY <1>0, <1>1, StepFrame, RequestKeepsLeases
  <2> QED BY <1>1, <2>1, RequestKeepsTypes, RequestKeepsProbes DEF GatewayInv
<1>2. ASSUME NEW h \in Hosts, Crash(h) PROVE GatewayInv'
  BY <1>2, CrashKeeps
<1>3. CASE Tick \/ UNCHANGED vars
  <2>1. UNCHANGED <<window, bucket, lease, circuit, request>>
        /\ clock' \in Nat /\ clock <= clock'
    BY <1>0, <1>3 DEF Tick, vars
  <2>2. TypeOK'
    BY <1>0, <2>1 DEF TypeOK
  <2>3. RequestsKnown' /\ LeasesOwn' /\ RowsHeld' /\ Counted'
    BY <2>1, FewerHold
  <2>4. ProbeFlagHasProbe'
    BY <2>1 DEF GatewayInv, ProbeFlagHasProbe
  <2> QED BY <2>2, <2>3, <2>4 DEF GatewayInv
<1> QED BY <1>1, <1>2, <1>3 DEF Next, RequestStep

THEOREM GatewayInvariant == Spec => []GatewayInv
<1> QED BY InitGateway, NextGateway, PTL DEF Spec

\* Type correctness of the rows, the circuits and the requests.
THEOREM TypesHold == Spec => []TypeOK
<1>1. GatewayInv => TypeOK
  BY DEF GatewayInv
<1> QED BY <1>1, GatewayInvariant, PTL

\* On all replicas together no more requests of an operation are under way than
\* maxConcurrentPerOperation, as long as none of them outlives its lease
\* (acquireInTransaction of pluginGatewayAdmissionStore.ts).
THEOREM LimitHolds == Spec => []ConcurrencyLimit
<1>1. GatewayInv => ConcurrencyLimit
  BY DEF GatewayInv, Counted, ConcurrencyLimit, Holding
<1> QED BY <1>1, GatewayInvariant, PTL

\* A circuit that lets nobody through but its probe has one under way: the answers of
\* requests that an earlier circuit let through do not strand it (gateway.ts).
THEOREM ProbesHold == Spec => []ProbeFlagHasProbe
<1>1. GatewayInv => ProbeFlagHasProbe
  BY DEF GatewayInv
<1> QED BY <1>1, GatewayInvariant, PTL

\* Making room never forgets an open circuit (the eviction of gateway.ts).
THEOREM OpenCircuitsKept == Spec => OpenCircuitKept
<1> DEFINE A == \A h \in Hosts, o \in Operations :
                  IsOpen(circuit[h][o]) /\ ~IsOpen(circuit'[h][o]) =>
                    \/ \E r \in Requests : HostOf[r] = h /\ request[r].op = o /\ Succeed(r)
                    \/ Crash(h)
<1>1. GatewayInv /\ [Next]_vars => [A]_vars
  <2> SUFFICES ASSUME GatewayInv, [Next]_vars, NEW h \in Hosts, NEW o \in Operations,
                      IsOpen(circuit[h][o]), ~IsOpen(circuit'[h][o])
               PROVE  \/ \E r \in Requests : HostOf[r] = h /\ request[r].op = o /\ Succeed(r)
                      \/ Crash(h)
    OBVIOUS
  <2>0. TypeOK /\ RequestsKnown
    BY DEF GatewayInv
  <2>1. ASSUME NEW r \in Requests, RequestStep(r)
        PROVE  HostOf[r] = h /\ request[r].op = o /\ Succeed(r)
    <3>1. h = HostOf[r] /\ o = request[r].op
      BY <2>0, <2>1, CircuitFacts
    <3>2. CASE request[r].stage # "idle"
      BY <2>0, <2>1, <3>1, <3>2, CircuitFacts
    <3>3. CASE request[r].stage = "idle"
      <4>1. circuit' = circuit
        BY <2>1, <3>3 DEF RequestStep, Arrive, Refuse, Acquire, AcquireFails, AcquireUnanswered,
                          Enter, EnterNew, TurnAway, Succeed, Fail, Completes, Release
      <4> QED BY <4>1
    <3> QED BY <3>2, <3>3
  <2>2. ASSUME NEW g \in Hosts, Crash(g) PROVE g = h
    <3>1. circuit \in [Hosts -> [Operations -> Circuit \cup {Null}]]
      BY <2>0 DEF TypeOK
    <3>2. g # h => circuit'[h] = circuit[h]
      BY <2>2, <3>1 DEF Crash
    <3> QED BY <3>2
  <2>3. CASE Tick \/ UNCHANGED vars
    BY <2>3 DEF Tick, vars
  <2> QED BY <2>1, <2>2, <2>3 DEF Next, RequestStep
<1>2. Spec => [][A]_vars
  BY <1>1, GatewayInvariant, PTL DEF Spec
<1> QED BY <1>2 DEF OpenCircuitKept

-----------------------------------------------------------------------------
(* The room of the tables and of the breakers                               *)

Within(S, n) == IsFiniteSet(S) /\ Cardinality(S) <= n

Kept == {b \in Operations \X Subjects : bucket[b] # Null}
RowsOf(o) == {l \in Leases : lease[l] # Null /\ lease[l].op = o}

CountsWithin ==
  /\ window.count <= MaxPerPlugin
  /\ \A b \in Operations \X Subjects : bucket[b] # Null => bucket[b].count <= MaxPerSubject
BucketsWithin == Within(Kept, MaxBuckets)
RowsWithin == \A o \in Operations : Within(RowsOf(o), MaxConcurrent)
CircuitsWithin == \A h \in Hosts : Within(TrackedBy(h), MaxTracked)

PolicyInv == CountsWithin /\ BucketsWithin /\ RowsWithin /\ CircuitsWithin

LEMMA FewerWithin ==
  ASSUME NEW n \in Nat, NEW S, Within(S, n), NEW T \in SUBSET S
  PROVE  Within(T, n)
<1>1. IsFiniteSet(T) /\ Cardinality(T) <= Cardinality(S) /\ IsFiniteSet(S) /\ Cardinality(S) <= n
  BY FS_Subset DEF Within
<1>2. Cardinality(S) \in Nat /\ Cardinality(T) \in Nat
  BY <1>1, FS_CardinalityType
<1> QED BY <1>1, <1>2 DEF Within

LEMMA OneMoreWithin ==
  ASSUME NEW n \in Nat, NEW S, IsFiniteSet(S), Cardinality(S) < n, NEW x
  PROVE  Within(S \cup {x}, n)
<1>1. /\ IsFiniteSet(S \cup {x})
      /\ Cardinality(S \cup {x}) = IF x \in S THEN Cardinality(S) ELSE Cardinality(S) + 1
  BY FS_AddElement
<1>2. Cardinality(S) \in Nat
  BY FS_CardinalityType
<1> QED BY <1>1, <1>2 DEF Within

\* One goes and one comes.
LEMMA SwapWithin ==
  ASSUME NEW n \in Nat, NEW S, Within(S, n), NEW x \in S, NEW y
  PROVE  Within((S \ {x}) \cup {y}, n)
<1>1. IsFiniteSet(S) /\ Cardinality(S) <= n /\ Cardinality(S) \in Nat
  BY FS_CardinalityType DEF Within
<1>2. IsFiniteSet(S \ {x}) /\ Cardinality(S \ {x}) = Cardinality(S) - 1
  BY <1>1, FS_RemoveElement
<1>3. Cardinality(S \ {x}) < n
  BY <1>1, <1>2
<1> QED BY <1>2, <1>3, OneMoreWithin

LEMMA InitWithin == Init => PolicyInv
<1> SUFFICES ASSUME Init PROVE PolicyInv
  OBVIOUS
<1>1. \A n \in Nat : Within({}, n)
  BY FS_EmptySet DEF Within
<1>2. /\ Kept = {} /\ (\A o \in Operations : RowsOf(o) = {})
      /\ \A h \in Hosts : TrackedBy(h) = {}
  BY DEF Init, Kept, RowsOf, TrackedBy
<1>3. CountsWithin
  BY GatewayAssumption DEF Init, CountsWithin
<1> QED
  BY <1>1, <1>2, <1>3, GatewayAssumption
  DEF PolicyInv, BucketsWithin, RowsWithin, CircuitsWithin

\* A transaction deletes what is over before it counts, and adds one of each.
LEMMA CommitWithin ==
  ASSUME TypeOK, PolicyInv, NEW r \in Requests, request[r].op \in Operations,
         NEW l \in Leases, Commit(r, l)
  PROVE  CountsWithin' /\ BucketsWithin' /\ RowsWithin'
<1>0. /\ {MaxPerPlugin, MaxPerSubject, MaxConcurrent, MaxBuckets} \subseteq Nat
      /\ BucketOf(r) \in Operations \X Subjects
      /\ window \in [at: Nat, count: Nat] /\ request[r] \in Request
      /\ bucket \in [Operations \X Subjects -> Bucket \cup {Null}]
      /\ lease \in [Leases -> Lease \cup {Null}]
      /\ LiveBuckets(r) \in [Operations \X Subjects -> Bucket \cup {Null}]
      /\ LiveLeases(r) \in [Leases -> Lease \cup {Null}]
  BY GatewayAssumption DEF BucketOf, TypeOK, LiveBuckets, LiveLeases
<1>1. Admits(r)
  BY DEF Commit
<1> DEFINE new == [window |-> WindowOf(r), count |-> SubjectCount(r) + 1,
                   updatedAt |-> request[r].now]
           row == [op |-> request[r].op, expiresAt |-> request[r].now + LeaseTime]
<1>2. /\ bucket' = [LiveBuckets(r) EXCEPT ![BucketOf(r)] = new]
      /\ lease' = [LiveLeases(r) EXCEPT ![l] = row]
      /\ window' = [at |-> WindowOf(r), count |-> PluginCount(r) + 1]
  BY DEF Commit
<1>3. CountsWithin'
  <2>1. PluginCount(r) + 1 <= MaxPerPlugin
    <3>1. PluginCount(r) \in Nat /\ PluginCount(r) < MaxPerPlugin
      BY <1>0, <1>1 DEF PluginCount, Admits
    <3> QED BY <1>0, <3>1
  <2>2. SubjectCount(r) + 1 <= MaxPerSubject
    <3>1. LiveBuckets(r)[BucketOf(r)] \in Bucket \cup {Null}
      BY <1>0
    <3>2. SubjectCount(r) \in Nat
      BY <3>1 DEF SubjectCount, Bucket
    <3>3. SubjectCount(r) < MaxPerSubject
      BY <1>1 DEF Admits
    <3> QED BY <1>0, <3>2, <3>3
  <2>3. ASSUME NEW b \in Operations \X Subjects, bucket'[b] # Null
        PROVE  bucket'[b].count <= MaxPerSubject
    <3>1. CASE b = BucketOf(r)
      <4>1. bucket'[b] = new
        BY <1>0, <1>2, <3>1
      <4> QED BY <2>2, <4>1
    <3>2. CASE b # BucketOf(r)
      <4>1. bucket'[b] = LiveBuckets(r)[b]
        BY <1>0, <1>2, <3>2
      <4>2. bucket'[b] = bucket[b]
        BY <2>3, <4>1 DEF LiveBuckets
      <4> QED BY <2>3, <4>2 DEF PolicyInv, CountsWithin
    <3> QED BY <3>1, <3>2
  <2>4. window'.count <= MaxPerPlugin
    BY <1>2, <2>1
  <2> QED BY <2>3, <2>4 DEF CountsWithin
<1>4. BucketsWithin'
  <2> DEFINE L == {b \in Operations \X Subjects : LiveBuckets(r)[b] # Null}
  <2>1. L \subseteq Kept
    BY DEF LiveBuckets, Kept
  <2>2. Within(L, MaxBuckets) /\ IsFiniteSet(L)
    <3>1. Within(L, MaxBuckets)
      BY <1>0, <2>1, FewerWithin DEF PolicyInv, BucketsWithin
    <3> QED BY <3>1 DEF Within
  <2>3. Kept' \subseteq L \cup {BucketOf(r)}
    BY <1>0, <1>2 DEF Kept
  <2>4. Within(L \cup {BucketOf(r)}, MaxBuckets)
    <3>1. CASE LiveBuckets(r)[BucketOf(r)] = Null
      <4>1. Cardinality(L) < MaxBuckets
        BY <1>1, <3>1 DEF Admits, Tracked
      <4> HIDE DEF L
      <4> QED BY <1>0, <2>2, <4>1, OneMoreWithin
    <3>2. CASE LiveBuckets(r)[BucketOf(r)] # Null
      <4>1. L \cup {BucketOf(r)} = L
        BY <1>0, <3>2
      <4> HIDE DEF L
      <4> QED BY <2>2, <4>1
    <3> QED BY <3>1, <3>2
  <2> HIDE DEF L
  <2> QED BY <1>0, <2>3, <2>4, FewerWithin DEF BucketsWithin
<1>5. ASSUME NEW o \in Operations PROVE Within(RowsOf(o)', MaxConcurrent)
  <2> DEFINE L == {k \in Leases : LiveLeases(r)[k] # Null /\ LiveLeases(r)[k].op = o}
  <2>1. L \subseteq RowsOf(o)
    BY DEF LiveLeases, RowsOf
  <2>2. Within(L, MaxConcurrent) /\ IsFiniteSet(L)
    <3>1. Within(L, MaxConcurrent)
      BY <1>0, <2>1, FewerWithin DEF PolicyInv, RowsWithin
    <3> QED BY <3>1 DEF Within
  <2>3. \A k \in Leases : lease'[k] = IF k = l THEN row ELSE LiveLeases(r)[k]
    BY <1>0, <1>2
  <2>4. CASE o = request[r].op
    <3>1. RowsOf(o)' \subseteq L \cup {l}
      BY <2>3 DEF RowsOf
    <3>2. Cardinality(L) < MaxConcurrent
      BY <1>1, <2>4 DEF Admits, Concurrent
    <3> HIDE DEF L
    <3>3. Within(L \cup {l}, MaxConcurrent)
      BY <1>0, <2>2, <3>2, OneMoreWithin
    <3> QED BY <1>0, <3>1, <3>3, FewerWithin
  <2>5. CASE o # request[r].op
    <3>1. RowsOf(o)' \subseteq L
      BY <2>3, <2>5 DEF RowsOf
    <3> HIDE DEF L
    <3> QED BY <1>0, <2>2, <3>1, FewerWithin
  <2> QED BY <2>4, <2>5
<1> QED BY <1>3, <1>4, <1>5 DEF RowsWithin

\* A breaker makes an entry only where there is room, or where one goes for it.
LEMMA BreakersWithin ==
  ASSUME TypeOK, RequestsKnown, PolicyInv, NEW r \in Requests, RequestStep(r)
  PROVE  CircuitsWithin'
<1>0. /\ HostOf[r] \in Hosts /\ MaxTracked \in Nat /\ Null \notin Operations
      /\ circuit \in [Hosts -> [Operations -> Circuit \cup {Null}]]
      /\ \A h \in Hosts : Within(TrackedBy(h), MaxTracked)
  BY GatewayAssumption DEF TypeOK, PolicyInv, CircuitsWithin
<1>1. ASSUME \A h \in Hosts : TrackedBy(h)' \subseteq TrackedBy(h) PROVE CircuitsWithin'
  BY <1>0, <1>1, FewerWithin DEF CircuitsWithin
<1>2. CASE EnterNew(r)
  <2> DEFINE H == HostOf[r]
             T == TrackedBy(H)
             full == Cardinality(T) >= MaxTracked
  <2>1. PICK evicted \in IF full THEN Evictable(H) ELSE {Null} :
          circuit' = [circuit EXCEPT ![H] =
            [o \in Operations |-> IF o = request[r].op THEN NewCircuit
                                  ELSE IF o = evicted THEN Null ELSE circuit[H][o]]]
    BY <1>2 DEF EnterNew
  <2>2. /\ \A h \in Hosts : h # H => circuit'[h] = circuit[h]
        /\ \A o \in Operations : o # request[r].op =>
             circuit'[H][o] = IF o = evicted THEN Null ELSE circuit[H][o]
    BY <1>0, <2>1
  <2>3. ASSUME NEW h \in Hosts, h # H PROVE Within(TrackedBy(h)', MaxTracked)
    <3>1. TrackedBy(h)' = TrackedBy(h)
      BY <2>2, <2>3 DEF TrackedBy
    <3> QED BY <1>0, <3>1
  <2>4. TrackedBy(H)' \subseteq (T \ {evicted}) \cup {request[r].op}
    BY <2>2 DEF TrackedBy
  <2>5. Within((T \ {evicted}) \cup {request[r].op}, MaxTracked)
    <3>1. CASE full
      <4>1. evicted \in T
        BY <2>1, <3>1 DEF Evictable
      <4>2. Within(T, MaxTracked)
        BY <1>0
      <4> HIDE DEF T
      <4> QED BY <1>0, <4>1, <4>2, SwapWithin
    <3>2. CASE ~full
      <4>1. IsFiniteSet(T) /\ Cardinality(T) \in Nat /\ Cardinality(T) < MaxTracked
        <5>1. IsFiniteSet(T)
          BY <1>0 DEF Within
        <5>2. Cardinality(T) \in Nat
          BY <5>1, FS_CardinalityType
        <5> QED BY <1>0, <3>2, <5>1, <5>2
      <4>2. (T \ {evicted}) \cup {request[r].op} \subseteq T \cup {request[r].op}
        OBVIOUS
      <4> HIDE DEF T
      <4>3. Within(T \cup {request[r].op}, MaxTracked)
        BY <1>0, <4>1, OneMoreWithin
      <4> QED BY <1>0, <4>2, <4>3, FewerWithin
    <3> QED BY <3>1, <3>2
  <2>6. Within(TrackedBy(H)', MaxTracked)
    <3> HIDE DEF T, H
    <3> QED BY <1>0, <2>4, <2>5, FewerWithin
  <2> QED BY <2>3, <2>6 DEF CircuitsWithin
<1>3. CASE Enter(r) \/ Fail(r) \/ Succeed(r)
  <2>1. \/ UNCHANGED circuit
        \/ \E c : WithBreaker(r, c) /\ (Breaker(r) # Null \/ c = Null)
    BY <1>3 DEF Enter, Fail, Succeed
  <2>2. CASE UNCHANGED circuit
    BY <1>1, <2>2 DEF TrackedBy
  <2>3. CASE \E c : WithBreaker(r, c) /\ (Breaker(r) # Null \/ c = Null)
    <3>1. PICK c : WithBreaker(r, c) /\ (Breaker(r) # Null \/ c = Null)
      BY <2>3
    <3>2. \A h \in Hosts, o \in Operations :
            circuit'[h][o] = IF h = HostOf[r] /\ o = request[r].op THEN c ELSE circuit[h][o]
      BY <1>0, <3>1 DEF WithBreaker
    <3>3. \A h \in Hosts : TrackedBy(h)' \subseteq TrackedBy(h)
      BY <3>1, <3>2 DEF TrackedBy, Breaker
    <3> QED BY <1>1, <3>3
  <2> QED BY <2>1, <2>2, <2>3
<1>4. CASE \/ Arrive(r) \/ Refuse(r) \/ Acquire(r) \/ AcquireFails(r) \/ AcquireUnanswered(r)
           \/ TurnAway(r) \/ Release(r)
  <2>1. UNCHANGED circuit
    BY <1>4 DEF Arrive, Refuse, Acquire, AcquireFails, AcquireUnanswered, TurnAway, Release, Commit
  <2> QED BY <1>1, <2>1 DEF TrackedBy
<1> QED BY <1>2, <1>3, <1>4 DEF RequestStep

\* Where no transaction commits, rows can only go.
LEMMA RowsOnlyGo ==
  ASSUME TypeOK, PolicyInv, UNCHANGED <<window, bucket>>,
         UNCHANGED lease \/ \E k : lease' = [lease EXCEPT ![k] = Null]
  PROVE  CountsWithin' /\ BucketsWithin' /\ RowsWithin'
<1>1. CountsWithin' /\ BucketsWithin'
  BY DEF PolicyInv, CountsWithin, BucketsWithin, Kept
<1>2. \A k \in Leases : lease'[k] = lease[k] \/ lease'[k] = Null
  BY DEF TypeOK
<1>3. \A o \in Operations : RowsOf(o)' \subseteq RowsOf(o)
  BY <1>2 DEF RowsOf
<1> QED
  BY <1>1, <1>3, FewerWithin, GatewayAssumption DEF PolicyInv, RowsWithin

LEMMA NextWithin ==
  ASSUME GatewayInv, PolicyInv, [Next]_vars PROVE PolicyInv'
<1>0. TypeOK /\ RequestsKnown
  BY DEF GatewayInv
<1>1. ASSUME NEW r \in Requests, RequestStep(r) PROVE PolicyInv'
  <2>1. CircuitsWithin'
    BY <1>0, <1>1, BreakersWithin
  <2>2. CASE \E l \in Leases : Commit(r, l) /\ request[r].stage = "waiting"
    <3>1. request[r].op \in Operations
      BY <1>0, <2>2 DEF RequestsKnown, RequestKnown
    <3> QED BY <1>0, <2>1, <2>2, <3>1, CommitWithin DEF PolicyInv
  <2>3. CASE UNCHANGED <<window, bucket>> /\
             (UNCHANGED lease \/ \E k : lease' = [lease EXCEPT ![k] = Null])
    BY <1>0, <2>1, <2>3, RowsOnlyGo DEF PolicyInv
  <2> QED
    BY <1>1, <2>2, <2>3
    DEF RequestStep, Arrive, Refuse, Acquire, AcquireFails, AcquireUnanswered,
        Enter, EnterNew, TurnAway, Succeed, Fail, Completes, Release
<1>2. ASSUME NEW h \in Hosts, Crash(h) PROVE PolicyInv'
  <2>1. UNCHANGED <<window, bucket, lease>>
    BY <1>2 DEF Crash
  <2>2. \A g \in Hosts : TrackedBy(g)' \subseteq TrackedBy(g)
    BY <1>0, <1>2 DEF Crash, TrackedBy, TypeOK
  <2>3. CircuitsWithin'
    BY <2>2, FewerWithin, GatewayAssumption DEF PolicyInv, CircuitsWithin
  <2> QED BY <1>0, <2>1, <2>3, RowsOnlyGo DEF PolicyInv
<1>3. CASE Tick \/ UNCHANGED vars
  <2>1. UNCHANGED <<window, bucket, lease, circuit>>
    BY <1>3 DEF Tick, vars
  <2>2. CircuitsWithin'
    BY <2>1 DEF PolicyInv, CircuitsWithin, TrackedBy
  <2> QED BY <1>0, <2>1, <2>2, RowsOnlyGo DEF PolicyInv
<1> QED BY <1>1, <1>2, <1>3 DEF Next, RequestStep

\* Counts never pass the limits of the policy, and neither the buckets, nor the
\* concurrency rows of an operation, nor the circuits of a replica outgrow their room,
\* whatever answers are lost and clocks differ (acquireInTransaction, gateway.ts).
THEOREM RoomHolds == Spec => []WithinPolicy
<1>1. Init => PolicyInv
  BY InitWithin
<1>2. GatewayInv /\ PolicyInv /\ [Next]_vars => PolicyInv'
  BY NextWithin
<1>3. PolicyInv => WithinPolicy
  BY DEF PolicyInv, CountsWithin, BucketsWithin, RowsWithin, CircuitsWithin, Within, Kept,
         RowsOf, WithinPolicy
<1> QED BY <1>1, <1>2, <1>3, GatewayInvariant, PTL DEF Spec
=============================================================================
