----------------------------- MODULE ServingProofs -----------------------------
(***************************************************************************)
(* A deployment of any number of workers and connections: the lockout's    *)
(* overshoot is bounded, no answer is staler than the cache's lifetime,    *)
(* and the schema is built once while requests are served.                 *)
(***************************************************************************)
EXTENDS Serving, FiniteSetTheorems, TLAPS

(* Start-up.  The advisory lock makes a section of everything between      *)
(* reading the revision and leaving the upgrade: what a worker read of the *)
(* schema stays true until it acts on it, because whoever changes the      *)
(* schema holds the lock too, or has lost it, which unguarded records.     *)

\* Whoever reads or writes holds the lock; a COMMIT outlives its worker unguarded.
LockInv ==
    /\ \A w \in Workers :
          /\ boot[w].phase \in {"reading", "listing"} => lock = w
          /\ boot[w].phase \in Writing => lock = w \/ unguarded
    /\ orphans # {} => unguarded
    /\ "stamp" \in orphans => "cases" \in tables

\* What a worker decided on is still so; that there is nothing to collide with
\* only where nobody writes unguarded.
PlanInv ==
    \A w \in Workers :
        /\ boot[w].phase = "listing" => (boot[w].version = Baseline => revision = Baseline)
        /\ boot[w].phase = "stamping" => "cases" \in tables
        /\ boot[w].phase \in {"planning", "upgrading"} =>
              ("cases" \in tables => revision = Baseline)
        /\ boot[w].phase = "upgrading" =>
              /\ boot[w].version = Baseline => revision = Baseline
              /\ boot[w].version = NULL /\ ~unguarded => "cases" \notin tables

StartInv == StartTypeOK /\ LockInv /\ PlanInv /\ SchemaBuiltOnce
-----------------------------------------------------------------------------
\* A step keeps the invariant: a worker outside the section changes no table, and
\* one inside is alone there or unguarded.
LEMMA StartStep ==
    ASSUME StartInv, [StartNext]_startVars
    PROVE  StartInv'
<1> USE NullAssumption
    DEF StartInv, StartTypeOK, LockInv, PlanInv, SchemaBuiltOnce, Writing,
        Lifespan, Phases, Files, Down, To, End, Baseline, schemaVars
<1>1. ASSUME NEW w \in Workers, Launch(w) PROVE StartInv'
  BY <1>1 DEF Launch
<1>2. ASSUME NEW w \in Workers, ApplyConstraints(w) PROVE StartInv'
  <2>1. constrained' \in BOOLEAN /\ To(w, "locking")
    BY <1>2 DEF ApplyConstraints
  <2>. QED
    BY <1>2, <2>1 DEF ApplyConstraints
<1>3. ASSUME NEW w \in Workers, Acquire(w) PROVE StartInv'
  BY <1>3 DEF Acquire
<1>4. ASSUME NEW w \in Workers, ReadRevision(w) PROVE StartInv'
  <2> DEFINE l == [boot[w] EXCEPT !.phase = "listing", !.version = revision]
  <2>1. l \in Lifespan /\ l.phase = "listing" /\ l.version = revision /\ l.outcome = boot[w].outcome
    OBVIOUS
  <2>2. boot' = [boot EXCEPT ![w] = l] /\ boot[w].phase = "reading"
    BY <1>4 DEF ReadRevision
  <2>3. UNCHANGED <<tables, revision, orphans, constrained, lock, unguarded>>
    BY <1>4 DEF ReadRevision
  <2> HIDE DEF l
  <2>. QED
    BY <2>1, <2>2, <2>3
<1>5. ASSUME NEW w \in Workers, ListTables(w) PROVE StartInv'
  BY <1>5 DEF ListTables
<1>6. ASSUME NEW w \in Workers, Stamp(w) PROVE StartInv'
  BY <1>6 DEF Stamp
<1>7. ASSUME NEW w \in Workers, PlanUpgrade(w) PROVE StartInv'
  <2> DEFINE l == [boot[w] EXCEPT !.phase = "upgrading", !.version = revision]
  <2>1. /\ l \in Lifespan /\ l.phase = "upgrading" /\ l.version = revision
        /\ l.outcome = boot[w].outcome
    OBVIOUS
  <2>2. boot' = [boot EXCEPT ![w] = l] /\ boot[w].phase = "planning"
    BY <1>7 DEF PlanUpgrade
  <2>3. UNCHANGED <<tables, revision, orphans, constrained, lock, unguarded>>
    BY <1>7 DEF PlanUpgrade
  <2> HIDE DEF l
  <2>4. StartTypeOK'
    BY <2>1, <2>2, <2>3
  <2>5. LockInv' /\ SchemaBuiltOnce'
    BY <2>1, <2>2, <2>3
  <2>6. PlanInv'
    BY <2>1, <2>2, <2>3
  <2>. QED
    BY <2>4, <2>5, <2>6
<1>8. ASSUME NEW w \in Workers, Upgrade(w) PROVE StartInv'
  BY <1>8 DEF Upgrade
<1>9. ASSUME NEW w \in Workers, UpgradeCollides(w) PROVE StartInv'
  BY <1>9 DEF UpgradeCollides
<1>10. ASSUME NEW w \in Workers, Deferred(w) PROVE StartInv'
  <2>1. ASSUME ConnectFails(w) PROVE StartInv'
    BY <2>1 DEF ConnectFails
  <2>2. ASSUME MigrationFails(w) PROVE StartInv'
    BY <2>2 DEF MigrationFails
  <2>3. ASSUME ReadFails(w) PROVE StartInv'
    BY <2>3 DEF ReadFails
  <2>. QED
    BY <1>10, <2>1, <2>2, <2>3 DEF Deferred
<1>11. ASSUME NEW w \in Workers, Unlock(w) PROVE StartInv'
  BY <1>11 DEF Unlock
<1>12. ASSUME NEW w \in Workers, LockSessionEnds(w) PROVE StartInv'
  <2>1. /\ lock = w /\ lock' = NULL /\ UNCHANGED <<tables, revision, orphans, constrained>>
        /\ unguarded' = (unguarded \/ boot[w].phase \in Writing)
    BY <1>12 DEF LockSessionEnds
  <2>2. \A v \in Workers \ {w} : boot'[v] = boot[v]
    BY <1>12 DEF LockSessionEnds
  <2>3. CASE boot[w].phase \in {"reading", "listing"}
    <3>1. End(w, "serving", "deferred")
      BY <1>12, <2>3 DEF LockSessionEnds
    <3>2. StartTypeOK'
      BY <2>1, <3>1
    <3>3. LockInv' /\ PlanInv' /\ SchemaBuiltOnce'
      BY <2>1, <2>3, <3>1
    <3>. QED
      BY <3>2, <3>3
  <2>4. CASE boot[w].phase \notin {"reading", "listing"}
    <3>1. UNCHANGED boot
      BY <1>12, <2>4 DEF LockSessionEnds
    <3>2. StartTypeOK'
      BY <2>1, <3>1
    <3>3. LockInv' /\ PlanInv' /\ SchemaBuiltOnce'
      BY <2>1, <2>4, <3>1
    <3>. QED
      BY <3>2, <3>3
  <2>. QED
    BY <2>3, <2>4
<1>13. ASSUME NEW w \in Workers, Die(w) PROVE StartInv'
  BY <1>13 DEF Die, Sent
<1>14. ASSUME NEW k \in orphans, OrphanCommits(k) PROVE StartInv'
  BY <1>14 DEF OrphanCommits
<1>15. CASE UNCHANGED startVars
  BY <1>15 DEF startVars
<1>. QED
  BY <1>1, <1>2, <1>3, <1>4, <1>5, <1>6, <1>7, <1>8, <1>9, <1>10, <1>11, <1>12, <1>13,
     <1>14, <1>15
  DEF StartNext, Migrate

\* Every kind of database a deployment may meet is safe to begin with.
LEMMA StartBegins == StartInit => StartInv
<1> SUFFICES ASSUME StartInit PROVE StartInv
  OBVIOUS
<1> USE NullAssumption DEF StartInit, Writing, Files, Down
<1>1. StartTypeOK
  <2>1. tables \subseteq Files /\ revision \in {NULL, Baseline}
    OBVIOUS
  <2>. QED
    BY <2>1 DEF StartTypeOK, Lifespan, Phases
<1>2. LockInv
  BY DEF LockInv
<1>3. PlanInv /\ SchemaBuiltOnce
  BY DEF PlanInv, SchemaBuiltOnce
<1>. QED
  BY <1>1, <1>2, <1>3 DEF StartInv

\* Tables, lock and workers keep their shape.
THEOREM StartTypeCorrect == StartSpec => []StartTypeOK
  BY StartBegins, StartStep, PTL DEF StartSpec, StartInv

\* However many workers start, fail and die together, the baseline is never
\* applied to a schema that exists, unless one that writes lost its lock.
THEOREM SchemaIsBuiltOnce == StartSpec => []SchemaBuiltOnce
  BY StartBegins, StartStep, PTL DEF StartSpec, StartInv

-----------------------------------------------------------------------------
(* Serving. *)

\* A request under way knows its worker, and a sign-in past its check the counter
\* that let it in; only a sign-in fails with a 401.
RequestInv ==
    \A s \in Slots :
        /\ request[s].phase # "idle" => request[s].worker \in Workers
        /\ request[s].phase \in {"running", "failed"} /\ request[s].kind = "login" =>
              request[s].checked \in Counters
        /\ request[s].phase = "failed" => request[s].kind = "login"

\* The sign-ins that counter c let in and whose end is open.
InFlight(c) ==
    {s \in Slots : /\ request[s].phase \in {"running", "failed"}
                   /\ request[s].kind = "login" /\ request[s].checked = c}

\* Each of them may still become a failure of c.
LockoutInv ==
    \A c \in Counters :
        counter[c].failures + Cardinality(InFlight(c))
            < AuthFailures + Cardinality(Slots) + counter[c].strays

\* An entry's age and what it has left never exceed its lifetime and the delay
\* with which it was put.
FreshInv ==
    /\ cache # NULL => cache.age + cache.left <= TTL + MaxDelay
    /\ \A s \in Slots :
          /\ fetch[s].phase = "got" => fetch[s].age <= MaxDelay
          /\ fetch[s].phase = "answered" => fetch[s].age < TTL + MaxDelay

LimitInv == LimitTypeOK /\ RequestInv
-----------------------------------------------------------------------------
(* The shape of a step, as far as requests and calls see it. *)

LEMMA ServingSteps ==
    ASSUME [Next]_vars
    PROVE  \/ UNCHANGED <<limitVars, gatewayVars>>
           \/ \E w \in Workers :
                 /\ Forget(w)
                 /\ fetch' = [s \in Slots |-> IF request[s].worker = w THEN NoCall ELSE fetch[s]]
                 /\ UNCHANGED cache
           \/ /\ UNCHANGED gatewayVars
              /\ \/ \E s \in Slots, w \in Workers, kind \in clients : Accept(s, w, kind)
                 \/ \E s \in Slots : Dispatch(s) \/ SignInEnds(s)
                 \/ RedisFlips
                 \/ \E c \in Counters : WindowEnds(c)
           \/ UNCHANGED <<redisUp, counter>> /\ \E s \in Slots : Fetch(s)
           \/ UNCHANGED <<redisUp, counter>> /\ Tick
<1>1. CASE \E w \in Workers : Boot(w) \/ LocksSchema(w) \/ Starts(w) \/ Falters(w)
  BY <1>1 DEF Boot, LocksSchema, Starts, Falters
<1>2. CASE \E w \in Workers : Crash(w)
  BY <1>2 DEF Crash
<1>3. CASE \E s \in Slots : Arrive(s)
  BY <1>3 DEF Arrive
<1>4. CASE \E s \in Slots : Serve(s)
  BY <1>4 DEF Serve, LoginRuns, TraceRuns, Fetch
<1>5. CASE Surroundings
  BY <1>5 DEF Surroundings, Stall, LateCommit
<1>6. CASE UNCHANGED vars
  BY <1>6 DEF vars
<1>. QED
  BY <1>1, <1>2, <1>3, <1>4, <1>5, <1>6 DEF Next

LEMMA ServingStarts ==
    ASSUME [Next]_vars
    PROVE  [StartNext]_startVars /\ UNCHANGED clients
<1>1. CASE \E w \in Workers : Boot(w) \/ LocksSchema(w) \/ Starts(w) \/ Falters(w) \/ Crash(w)
  BY <1>1 DEF Boot, LocksSchema, Starts, Falters, Crash, StartNext
<1>2. CASE (\E s \in Slots : Arrive(s) \/ Serve(s)) \/ UNCHANGED vars
  BY <1>2 DEF Arrive, Serve, LoginRuns, TraceRuns, vars
<1>3. CASE Surroundings
  BY <1>3 DEF Surroundings, Stall, LateCommit, StartNext
<1>. QED
  BY <1>1, <1>2, <1>3 DEF Next

LEMMA ServingStalls ==
    ASSUME [Next]_vars, stalled \in Peers \cup {NULL}
    PROVE  stalled' \in Peers \cup {NULL}
<1>1. CASE \E w \in Workers : Boot(w) \/ LocksSchema(w) \/ Starts(w) \/ Falters(w) \/ Crash(w)
  BY <1>1 DEF Boot, LocksSchema, Starts, Falters, Crash
<1>2. CASE (\E s \in Slots : Arrive(s) \/ Serve(s)) \/ UNCHANGED vars
  BY <1>2 DEF Arrive, Serve, LoginRuns, TraceRuns, vars
<1>3. CASE Surroundings
  BY <1>3 DEF Surroundings, Stall, LateCommit
<1>. QED
  BY <1>1, <1>2, <1>3 DEF Next

-----------------------------------------------------------------------------
(* Types. *)

LEMMA CurrentIsCounter == ASSUME NEW w \in Workers PROVE Current(w) \in Counters
  BY DEF Current, Counters

\* A failure is counted once, on one counter, and as a stray if another counter
\* had let the sign-in through.
LEMMA CountedOnce ==
    ASSUME LimitInv, NEW s \in Slots, CountFailure(s)
    PROVE  \E c \in Counters, n \in Count :
              /\ counter' = [counter EXCEPT ![c] = n]
              /\ n.failures = counter[c].failures + 1
              /\ n.strays = IF request[s].checked = c THEN counter[c].strays
                            ELSE counter[c].strays + 1
<1> DEFINE c == Current(request[s].worker)
           strays == IF request[s].checked = c THEN counter[c].strays ELSE counter[c].strays + 1
           n == [failures |-> counter[c].failures + 1, strays |-> strays]
<1>1. c \in Counters
  BY CurrentIsCounter DEF CountFailure, LimitInv, LimitTypeOK, RequestInv
<1>2. counter[c] \in Count
  BY <1>1 DEF LimitInv, LimitTypeOK
<1>3. n \in Count
  BY <1>2 DEF Count
<1>4. counter' = [counter EXCEPT ![c] = n]
  BY DEF CountFailure
<1>. QED
  BY <1>1, <1>3, <1>4

LEMMA LimitStep ==
    ASSUME LimitInv, [Next]_vars, clients \in Clients
    PROVE  LimitInv'
<1> USE DEF LimitInv, LimitTypeOK, RequestInv, Request, NoRequest
<1>0. ASSUME NEW s \in Slots, NEW w \in Workers, NEW kind \in clients, Accept(s, w, kind)
      PROVE  LimitInv'
  <2>1. kind \in {"login", "trace"}
    BY ClientsAssumption
  <2> DEFINE r == [phase |-> "arrived", kind |-> kind, worker |-> w, checked |-> NULL]
  <2>2. request' = [request EXCEPT ![s] = r] /\ UNCHANGED <<redisUp, counter>>
    BY <1>0 DEF Accept
  <2>3. r \in Request /\ r.phase = "arrived" /\ r.worker \in Workers
    BY <2>1
  <2> HIDE DEF r
  <2>. QED
    BY <2>2, <2>3
<1>1. ASSUME NEW s \in Slots, Admit(s) PROVE LimitInv'
  <2> DEFINE c == Current(request[s].worker)
             r == [request[s] EXCEPT !.phase = "running",
                                     !.checked = IF request[s].kind = "login" THEN c ELSE NULL]
  <2>1. request[s].phase = "arrived" /\ UNCHANGED <<redisUp, counter>>
    BY <1>1 DEF Admit, Passes
  <2>2. request' = [request EXCEPT ![s] = r]
    BY <1>1 DEF Admit, Passes
  <2>3. c \in Counters
    BY <2>1, CurrentIsCounter
  <2>4. /\ r \in Request /\ r.phase = "running" /\ r.worker \in Workers
        /\ r.kind = "login" => r.checked \in Counters
    BY <2>1, <2>3
  <2> HIDE DEF r
  <2>. QED
    BY <2>1, <2>2, <2>4
<1>2. ASSUME NEW s \in Slots, Respond(s), UNCHANGED <<redisUp, counter>> PROVE LimitInv'
  BY <1>2 DEF Respond
<1>3. ASSUME NEW s \in Slots, WrongPassword(s) PROVE LimitInv'
  BY <1>3 DEF WrongPassword
<1>4. ASSUME NEW s \in Slots, CountFailure(s) PROVE LimitInv'
  <2>1. PICK c \in Counters, n \in Count : counter' = [counter EXCEPT ![c] = n]
    BY <1>4, CountedOnce
  <2>2. Respond(s) /\ UNCHANGED redisUp
    BY <1>4 DEF CountFailure
  <2>. QED
    BY <2>1, <2>2 DEF Respond
<1>5. ASSUME NEW c \in Counters, WindowEnds(c) PROVE LimitInv'
  BY <1>5 DEF WindowEnds, NoCount, Count
<1>6. ASSUME NEW w \in Workers, Forget(w) PROVE LimitInv'
  BY <1>6 DEF Forget, NoCount, Count
<1>7. CASE RedisFlips
  BY <1>7 DEF RedisFlips
<1>8. ASSUME UNCHANGED <<redisUp, counter, request>> PROVE LimitInv'
  BY <1>8
<1>9. ASSUME NEW s \in Slots, Fetch(s), UNCHANGED <<redisUp, counter>> PROVE LimitInv'
  BY <1>2, <1>8, <1>9
  DEF Fetch, CacheStep, IndexerStep, Begin, Lookup, Retry, Fail, Receive, Put, Answer
<1>. QED
  BY <1>0, <1>1, <1>2, <1>3, <1>4, <1>5, <1>6, <1>7, <1>8, <1>9, ServingSteps
  DEF limitVars, Dispatch, Refuse, SignInEnds, SignIn, Tick

\* A tick adds one to an age.
LEMMA OlderIsAge ==
    ASSUME NEW age \in Ages
    PROVE  Older(age) \in Ages /\ Older(age) <= age + 1
  BY GatewayAssumption DEF Ages, Older

LEMMA GatewayStep ==
    ASSUME GatewayTypeOK, FreshInv, [Next]_vars
    PROVE  GatewayTypeOK' /\ FreshInv'
<1> USE GatewayAssumption DEF GatewayTypeOK, FreshInv
<1>0. NoCall \in Call /\ NoCall.phase = "none"
  BY DEF NoCall, Call, Ages
<1>1. ASSUME NEW w \in Workers, UNCHANGED cache,
             fetch' = [s \in Slots |-> IF request[s].worker = w THEN NoCall ELSE fetch[s]]
      PROVE  GatewayTypeOK' /\ FreshInv'
  BY <1>0, <1>1
<1>2. ASSUME NEW s \in Slots, Begin(s) PROVE GatewayTypeOK' /\ FreshInv'
  BY <1>2 DEF Begin, Call
<1>3. ASSUME NEW s \in Slots, Lookup(s) PROVE GatewayTypeOK' /\ FreshInv'
  <2>1. CASE Hit /\ fetch' = [fetch EXCEPT ![s] =
                                   [@ EXCEPT !.phase = "answered", !.age = cache.age]]
    <3>1. cache \in Entry /\ cache.age + cache.left <= TTL + MaxDelay
      BY <2>1 DEF Hit
    <3>2. cache.age \in Ages /\ cache.age < TTL + MaxDelay
      BY <3>1 DEF Entry, Ages
    <3> DEFINE k == [fetch[s] EXCEPT !.phase = "answered", !.age = cache.age]
    <3>3. k \in Call /\ k.phase = "answered" /\ k.age = cache.age
      BY <3>2 DEF Call
    <3>4. fetch' = [fetch EXCEPT ![s] = k] /\ UNCHANGED cache
      BY <1>3, <2>1 DEF Lookup
    <3> HIDE DEF k
    <3>. QED
      BY <3>2, <3>3, <3>4
  <2>2. CASE fetch' = [fetch EXCEPT ![s] = [@ EXCEPT !.phase = "asking", !.attempt = 1]]
    <3>1. UNCHANGED cache
      BY <1>3 DEF Lookup
    <3> DEFINE k == [fetch[s] EXCEPT !.phase = "asking", !.attempt = 1]
    <3>2. k \in Call /\ k.phase = "asking"
      <4>1. fetch[s] \in Call /\ 1 \in 0..MaxAttempts
        OBVIOUS
      <4>. QED
        BY <4>1 DEF Call
    <3>3. fetch' = [fetch EXCEPT ![s] = k]
      BY <2>2
    <3> HIDE DEF k
    <3>. QED
      BY <3>1, <3>2, <3>3
  <2>. QED
    BY <1>3, <2>1, <2>2 DEF Lookup
<1>4. ASSUME NEW s \in Slots, Retry(s) PROVE GatewayTypeOK' /\ FreshInv'
  BY <1>4 DEF Retry, Call
<1>5. ASSUME NEW s \in Slots, Fail(s) \/ Answer(s) PROVE GatewayTypeOK' /\ FreshInv'
  BY <1>0, <1>5 DEF Fail, Answer
<1>6. ASSUME NEW s \in Slots, Receive(s) PROVE GatewayTypeOK' /\ FreshInv'
  <2> DEFINE k == [fetch[s] EXCEPT !.phase = "got", !.age = 0]
  <2>1. k \in Call /\ k.phase = "got" /\ k.age = 0
    <3>1. fetch[s] \in Call /\ 0 \in Ages
      BY DEF Ages
    <3>. QED
      BY <3>1 DEF Call
  <2>2. fetch' = [fetch EXCEPT ![s] = k] /\ UNCHANGED cache
    BY <1>6 DEF Receive
  <2> HIDE DEF k
  <2>. QED
    BY <2>1, <2>2
<1>7. ASSUME NEW s \in Slots, Put(s) PROVE GatewayTypeOK' /\ FreshInv'
  <2> DEFINE k == [fetch[s] EXCEPT !.phase = "answered"]
             e == [age |-> fetch[s].age, left |-> TTL]
  <2>1. fetch[s] \in Call /\ fetch[s].phase = "got" /\ fetch[s].age <= MaxDelay
    BY <1>7 DEF Put
  <2>2. fetch[s].age \in Ages /\ fetch[s].age \in Nat
    BY <2>1 DEF Call, Ages
  <2>3. k \in Call /\ k.phase = "answered" /\ k.age < TTL + MaxDelay
    BY <2>1, <2>2 DEF Call
  <2>4. e \in Entry /\ e.age + e.left <= TTL + MaxDelay
    BY <2>1, <2>2 DEF Entry
  <2>5. fetch' = [fetch EXCEPT ![s] = k] /\ cache' \in {cache, e}
    BY <1>7 DEF Put
  <2> HIDE DEF k, e
  <2>. QED
    BY <2>3, <2>4, <2>5
<1>8. CASE Tick
  <2>1. GatewayTypeOK' /\ (\A s \in Slots : /\ fetch'[s].phase = "got" => fetch'[s].age <= MaxDelay
                                            /\ fetch'[s].phase = "answered" =>
                                                  fetch'[s].age < TTL + MaxDelay)
                       /\ (cache' # NULL => cache'.age + cache'.left <= TTL + MaxDelay)
    <3>1. ASSUME NEW s \in Slots
          PROVE  \/ fetch'[s] = fetch[s] /\ fetch[s].phase # "got"
                 \/ /\ fetch[s].phase = "got" /\ fetch[s].age < MaxDelay
                    /\ fetch'[s] = [fetch[s] EXCEPT !.age = Older(@)]
      BY <1>8 DEF Tick
    <3>2. ASSUME NEW s \in Slots
          PROVE  /\ fetch'[s] \in Call
                 /\ fetch'[s].phase = "got" => fetch'[s].age <= MaxDelay
                 /\ fetch'[s].phase = "answered" => fetch'[s].age < TTL + MaxDelay
      <4>1. CASE fetch'[s] = fetch[s] /\ fetch[s].phase # "got"
        BY <4>1
      <4>2. CASE /\ fetch[s].phase = "got" /\ fetch[s].age < MaxDelay
                 /\ fetch'[s] = [fetch[s] EXCEPT !.age = Older(@)]
        <5>1. fetch[s].age \in Ages /\ fetch[s].age \in Nat
          BY DEF Call, Ages
        <5> DEFINE a == Older(fetch[s].age)
        <5>2. a \in Ages /\ a \in Nat /\ a <= fetch[s].age + 1
          BY <5>1, OlderIsAge DEF Ages
        <5>3. fetch'[s] = [fetch[s] EXCEPT !.age = a]
          BY <4>2
        <5> HIDE DEF a
        <5>4. fetch'[s] \in Call /\ fetch'[s].phase = "got" /\ fetch'[s].age = a
          BY <4>2, <5>2, <5>3 DEF Call
        <5>. QED
          BY <4>2, <5>1, <5>2, <5>4
      <4>. QED
        BY <3>1, <4>1, <4>2
    <3>3. DOMAIN fetch' = Slots /\ fetch' = [s \in Slots |-> fetch'[s]]
      BY <1>8 DEF Tick
    <3>4. \/ cache' = NULL
          \/ /\ cache \in Entry /\ cache.left # 1 /\ cache # NULL
             /\ cache' = [age |-> Older(cache.age), left |-> cache.left - 1]
      BY <1>8 DEF Tick
    <3>5. /\ cache' \in Entry \cup {NULL}
          /\ cache' # NULL => cache'.age + cache'.left <= TTL + MaxDelay
      <4>1. CASE /\ cache \in Entry /\ cache.left # 1 /\ cache # NULL
                 /\ cache' = [age |-> Older(cache.age), left |-> cache.left - 1]
        <5> DEFINE a == Older(cache.age)
                   n == cache.left - 1
        <5>1. cache.age \in Ages /\ cache.age \in Nat /\ cache.left \in 1..TTL
          BY <4>1 DEF Entry, Ages
        <5>2. a \in Ages /\ a \in Nat /\ a <= cache.age + 1
          BY <5>1, OlderIsAge DEF Ages
        <5>3. n \in 1..TTL /\ n + 1 = cache.left
          BY <4>1, <5>1
        <5>4. cache' = [age |-> a, left |-> n]
          BY <4>1
        <5> HIDE DEF a, n
        <5>5. cache' \in Entry /\ cache'.age = a /\ cache'.left = n
          BY <5>2, <5>3, <5>4 DEF Entry
        <5>6. cache.age + cache.left <= TTL + MaxDelay
          BY <4>1
        <5>. QED
          BY <5>1, <5>2, <5>3, <5>5, <5>6
      <4>. QED
        BY <3>4, <4>1
    <3>. QED
      BY <3>2, <3>3, <3>5
  <2>. QED
    BY <2>1
<1>9. CASE UNCHANGED gatewayVars
  BY <1>9 DEF gatewayVars
<1>. QED
  BY <1>1, <1>2, <1>3, <1>4, <1>5, <1>6, <1>7, <1>8, <1>9, ServingSteps
  DEF Fetch, CacheStep, IndexerStep

-----------------------------------------------------------------------------
(* The lockout. *)

\* Sets of connections are finite, and a smaller one has no more of them.
LEMMA SlotCount ==
    ASSUME NEW T \in SUBSET Slots, NEW S \in SUBSET T
    PROVE  /\ Cardinality(S) \in Nat /\ Cardinality(T) \in Nat /\ Cardinality(Slots) \in Nat
           /\ Cardinality(S) <= Cardinality(T) /\ Cardinality(T) <= Cardinality(Slots)
           /\ \A s \in T \ S : Cardinality(S) < Cardinality(T)
<1>1. IsFiniteSet(T) /\ IsFiniteSet(Slots)
  BY LimitAssumption, FS_Subset
<1>2. /\ Cardinality(S) \in Nat /\ Cardinality(T) \in Nat /\ Cardinality(Slots) \in Nat
      /\ Cardinality(S) <= Cardinality(T) /\ Cardinality(T) <= Cardinality(Slots)
  BY <1>1, FS_Subset, FS_CardinalityType
<1>3. ASSUME NEW s \in T \ S PROVE Cardinality(S) < Cardinality(T)
  BY <1>1, <1>2, <1>3, FS_Subset
<1>. QED
  BY <1>2, <1>3

\* A step that counts nothing and lets nobody in leaves the bound alone.
LEMMA FewerInFlight ==
    ASSUME LimitInv, LockoutInv, UNCHANGED counter,
           \A s \in Slots :
              request'[s] = request[s] \/ request'[s].phase \in {"idle", "arrived"}
    PROVE  LockoutInv'
<1>1. ASSUME NEW c \in Counters
      PROVE  InFlight(c)' \subseteq InFlight(c) /\ InFlight(c) \subseteq Slots
  BY DEF InFlight
<1>2. \A c \in Counters : counter[c].failures \in Nat /\ counter[c].strays \in Nat
  BY DEF LimitInv, LimitTypeOK, Count
<1>. QED
  BY <1>1, <1>2, SlotCount, LimitAssumption DEF LockoutInv

LEMMA LockoutStep ==
    ASSUME LimitInv, LockoutInv, [Next]_vars, clients \in Clients
    PROVE  LockoutInv'
<1>0. /\ \A c \in Counters : counter[c].failures \in Nat /\ counter[c].strays \in Nat
      /\ request \in [Slots -> Request]
  BY DEF LimitInv, LimitTypeOK, Count
<1>a. \A c \in Counters : InFlight(c) \in SUBSET Slots /\ InFlight(c)' \in SUBSET Slots
  BY DEF InFlight
<1>b. ASSUME NEW s \in Slots, NEW w \in Workers, NEW kind \in clients, Accept(s, w, kind)
      PROVE  LockoutInv'
  BY <1>0, <1>b, FewerInFlight DEF Accept
<1>1. ASSUME NEW s \in Slots, Admit(s) PROVE LockoutInv'
  <2> DEFINE d == Current(request[s].worker)
             r == [request[s] EXCEPT !.phase = "running",
                                     !.checked = IF request[s].kind = "login" THEN d ELSE NULL]
  <2>1. /\ request[s].phase = "arrived" /\ UNCHANGED counter
        /\ request[s].kind = "login" => counter[d].failures < AuthFailures
    BY <1>1 DEF Admit, Passes
  <2>2. request' = [request EXCEPT ![s] = r]
    BY <1>1 DEF Admit, Passes
  <2>3. r.kind = request[s].kind /\ (r.kind = "login" => r.checked = d)
    BY <1>0 DEF Request
  <2> HIDE DEF r, d
  <2> SUFFICES ASSUME NEW c \in Counters
               PROVE  counter[c].failures + Cardinality(InFlight(c)')
                          < AuthFailures + Cardinality(Slots) + counter[c].strays
    BY <2>1 DEF LockoutInv
  <2>4. CASE request[s].kind = "login" /\ d = c
    BY <1>0, <1>a, <2>1, <2>4, SlotCount, LimitAssumption
  <2>5. CASE ~(request[s].kind = "login" /\ d = c)
    <3>1. InFlight(c)' = InFlight(c)
      BY <1>0, <2>1, <2>2, <2>3, <2>5 DEF InFlight
    <3>. QED
      BY <3>1 DEF LockoutInv
  <2>. QED
    BY <2>4, <2>5
<1>2. ASSUME NEW s \in Slots, Respond(s), UNCHANGED counter PROVE LockoutInv'
  BY <1>0, <1>2, FewerInFlight DEF Respond, NoRequest
<1>3. ASSUME NEW s \in Slots, WrongPassword(s) PROVE LockoutInv'
  <2>1. \A c \in Counters : InFlight(c)' = InFlight(c)
    BY <1>0, <1>3 DEF WrongPassword, InFlight, Request
  <2>. QED
    BY <1>3, <2>1 DEF WrongPassword, LockoutInv
<1>4. ASSUME NEW s \in Slots, CountFailure(s) PROVE LockoutInv'
  <2>1. PICK d \in Counters, n \in Count :
           /\ counter' = [counter EXCEPT ![d] = n]
           /\ n.failures = counter[d].failures + 1
           /\ n.strays = IF request[s].checked = d THEN counter[d].strays
                         ELSE counter[d].strays + 1
    BY <1>4, CountedOnce
  <2>2. request' = [request EXCEPT ![s] = NoRequest]
    BY <1>4 DEF CountFailure, Respond
  <2>3. request[s].phase = "failed" /\ request[s].kind = "login"
    BY <1>4 DEF CountFailure, LimitInv, RequestInv
  <2>4. ASSUME NEW c \in Counters
        PROVE  /\ InFlight(c)' \subseteq InFlight(c)
               /\ request[s].checked = c => s \in InFlight(c) \ InFlight(c)'
    BY <1>0, <2>2, <2>3 DEF InFlight, NoRequest
  <2> SUFFICES ASSUME NEW c \in Counters
               PROVE  counter'[c].failures + Cardinality(InFlight(c)')
                          < AuthFailures + Cardinality(Slots) + counter'[c].strays
    BY DEF LockoutInv
  <2>5. /\ Cardinality(InFlight(c)') \in Nat /\ Cardinality(InFlight(c)) \in Nat
        /\ Cardinality(Slots) \in Nat
        /\ Cardinality(InFlight(c)') <= Cardinality(InFlight(c))
        /\ request[s].checked = c => Cardinality(InFlight(c)') < Cardinality(InFlight(c))
    BY <1>a, <2>4, SlotCount
  <2>6. counter[c].failures + Cardinality(InFlight(c))
            < AuthFailures + Cardinality(Slots) + counter[c].strays
    BY DEF LockoutInv
  <2>7. CASE c = d
    <3>1. counter'[c] = n
      BY <2>1, <2>7 DEF LimitInv, LimitTypeOK
    <3>. QED
      BY <1>0, <2>1, <2>5, <2>6, <2>7, <3>1, LimitAssumption
  <2>8. CASE c # d
    <3>1. counter'[c] = counter[c]
      BY <2>1, <2>8 DEF LimitInv, LimitTypeOK
    <3>. QED
      BY <1>0, <2>5, <2>6, <3>1, LimitAssumption
  <2>. QED
    BY <2>7, <2>8
<1>5. ASSUME NEW d \in Counters, WindowEnds(d) PROVE LockoutInv'
  <2>1. \A c \in Counters : InFlight(c)' = InFlight(c)
    BY <1>5 DEF WindowEnds, InFlight
  <2>2. \A c \in Counters : counter'[c] = IF c = d THEN NoCount ELSE counter[c]
    BY <1>5 DEF WindowEnds, LimitInv, LimitTypeOK
  <2>3. \A c \in Counters : Cardinality(InFlight(c)) <= Cardinality(Slots)
                            /\ Cardinality(InFlight(c)) \in Nat /\ Cardinality(Slots) \in Nat
    BY <1>a, SlotCount
  <2>. QED
    BY <2>1, <2>2, <2>3, LimitAssumption DEF LockoutInv, NoCount
<1>6. ASSUME NEW w \in Workers, Forget(w) PROVE LockoutInv'
  <2>1. \A c \in Counters : InFlight(c)' \subseteq InFlight(c)
    BY <1>0, <1>6 DEF Forget, InFlight, NoRequest
  <2>2. \A c \in Counters : counter'[c] = IF c = w THEN NoCount ELSE counter[c]
    BY <1>6 DEF Forget, LimitInv, LimitTypeOK
  <2>3. \A c \in Counters :
           /\ Cardinality(InFlight(c)') \in Nat /\ Cardinality(InFlight(c)) \in Nat
           /\ Cardinality(InFlight(c)') <= Cardinality(InFlight(c))
           /\ Cardinality(InFlight(c)') <= Cardinality(Slots) /\ Cardinality(Slots) \in Nat
    BY <1>a, <2>1, SlotCount
  <2>. QED
    BY <1>0, <2>2, <2>3, LimitAssumption DEF LockoutInv, NoCount
<1>7. ASSUME UNCHANGED <<counter, request>> PROVE LockoutInv'
  BY <1>7 DEF LockoutInv, InFlight
<1>8. ASSUME NEW s \in Slots, Fetch(s), UNCHANGED <<redisUp, counter>> PROVE LockoutInv'
  BY <1>2, <1>7, <1>8
  DEF Fetch, CacheStep, IndexerStep, Begin, Lookup, Retry, Fail, Receive, Put, Answer
<1>. QED
  BY <1>b, <1>1, <1>2, <1>3, <1>4, <1>5, <1>6, <1>7, <1>8, ServingSteps
  DEF limitVars, Dispatch, Refuse, SignInEnds, SignIn, RedisFlips, Tick

-----------------------------------------------------------------------------
(* The theorems. *)

ServingInv ==
    /\ clients \in Clients /\ stalled \in Peers \cup {NULL}
    /\ StartInv
    /\ LimitInv /\ LockoutInv
    /\ GatewayTypeOK /\ FreshInv

LEMMA ServingBegins == Init => ServingInv
<1> SUFFICES ASSUME Init PROVE ServingInv
  OBVIOUS
<1>1. StartInv
  <2>1. CASE clients = {}
    BY <2>1, StartBegins DEF Init
  <2>2. CASE clients # {}
    BY <2>2, NullAssumption
    DEF Init, StartInv, StartTypeOK, LockInv, PlanInv, SchemaBuiltOnce, Writing, Lifespan,
        Phases, Files, Down, Baseline
  <2>. QED
    BY <2>1, <2>2
<1>2. LimitInv
  BY DEF Init, LimitInit, LimitInv, LimitTypeOK, RequestInv, Request, NoRequest, Count, NoCount
<1>3. LockoutInv
  <2>1. ASSUME NEW c \in Counters
        PROVE  /\ InFlight(c) = {}
               /\ counter[c].failures = 0 /\ counter[c].strays = 0
    BY DEF Init, LimitInit, InFlight, NoRequest, NoCount
  <2>2. Cardinality({}) = 0 /\ Cardinality(Slots) \in Nat
    BY FS_EmptySet, FS_CardinalityType, LimitAssumption
  <2>. QED
    BY <2>1, <2>2, LimitAssumption DEF LockoutInv
<1>4. GatewayTypeOK /\ FreshInv
  BY GatewayAssumption DEF Init, GatewayInit, GatewayTypeOK, FreshInv, NoCall, Call, Ages
<1>. QED
  BY <1>1, <1>2, <1>3, <1>4 DEF Init, ServingInv

LEMMA ServingKeeps == ServingInv /\ [Next]_vars => ServingInv'
  BY ServingStarts, ServingStalls, StartStep, LimitStep, LockoutStep, GatewayStep DEF ServingInv

LEMMA ServingInvariant == Spec => []ServingInv
  BY ServingBegins, ServingKeeps, PTL DEF Spec

\* Every variable keeps its shape, for any number of workers and connections.
THEOREM TypeCorrect == Spec => []TypeOK
<1>1. ServingInv => TypeOK
  BY DEF ServingInv, StartInv, LimitInv, TypeOK
<1>. QED
  BY <1>1, ServingInvariant, PTL

\* The schema is built once also while workers serve and crash and peers stall.
THEOREM SchemaStaysBuiltOnce == Spec => []SchemaBuiltOnce
<1>1. ServingInv => SchemaBuiltOnce
  BY DEF ServingInv, StartInv
<1>. QED
  BY <1>1, ServingInvariant, PTL

\* With any number of connections, failed sign-ins overshoot the lockout by at
\* most that number and the strays of Redis outages.
THEOREM LockoutIsBounded == Spec => []LockoutHolds
<1>1. ServingInv => LockoutHolds
  <2> SUFFICES ASSUME ServingInv, NEW c \in Counters
               PROVE  counter[c].failures < AuthFailures + Cardinality(Slots) + counter[c].strays
    BY DEF LockoutHolds
  <2>1. /\ Cardinality(InFlight(c)) \in Nat /\ Cardinality(Slots) \in Nat
        /\ counter[c].failures \in Nat /\ counter[c].strays \in Nat
    BY SlotCount DEF InFlight, ServingInv, LimitInv, LimitTypeOK, Count
  <2>. QED
    BY <2>1, LimitAssumption DEF ServingInv, LockoutInv
<1>. QED
  BY <1>1, ServingInvariant, PTL

\* No request, in no mix of hits, retries and outages, is answered with what the
\* indexer has not said within the cache's lifetime and the delay of a SETEX.
THEOREM AnswersStayFresh == Spec => []AnswersAreFresh
<1>1. ServingInv => AnswersAreFresh
  BY DEF ServingInv, FreshInv, AnswersAreFresh
<1>. QED
  BY <1>1, ServingInvariant, PTL
=============================================================================
