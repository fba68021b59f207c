-------------------------------- MODULE Serving --------------------------------
(***************************************************************************)
(* A deployment from its start to the answers it gives: workers migrate    *)
(* the database, then serve; requests pass the lockout, sign in or trace.  *)
(* Redis comes and goes, a worker may die, is launched again, and takes    *)
(* its requests and its own counters with it.  And a peer may fall silent: *)
(* neither the Redis client nor the PostgreSQL engine nor a Neo4j query    *)
(* has a time-out, so who calls it waits, and dispatch, which calls Redis  *)
(* on the event loop, keeps every other request of its worker waiting too. *)
(***************************************************************************)
EXTENDS Gateway

CONSTANT Clients    \* bound: the sets of request kinds that one run mixes

ASSUME ClientsAssumption == Clients \subseteq SUBSET {"login", "trace"}

VARIABLES
    clients,    \* the kinds of request that arrive in this run
    stalled     \* the peer that does not answer; bound: one at a time

vars == <<startVars, limitVars, gatewayVars, clients, stalled>>

Peers == {"redis", "postgres", "neo4j"}

-----------------------------------------------------------------------------
\* Bound: a run with clients has one worker down or starting, or one silent peer.
Calm == clients = {} \/ (stalled = NULL /\ \A w \in Workers : boot[w].phase = "serving")

\* A request of w is in _Counter.hit, which is not awaited.
LoopBlocked(w) ==
    /\ stalled = "redis"
    /\ \E s \in Slots : request[s].worker = w /\ request[s].phase \in {"arrived", "failed"}

LocksSchema(w) ==
    /\ Acquire(w)
    /\ stalled # "postgres"
    /\ UNCHANGED <<limitVars, gatewayVars, clients, stalled>>

\* lifespan goes on.
Starts(w) ==
    /\ \/ ApplyConstraints(w) /\ stalled # "neo4j"
       \/ Migrate(w) /\ stalled # "postgres"
    /\ UNCHANGED <<limitVars, gatewayVars, clients, stalled>>

\* uvicorn launches a worker, or launches it again.
Boot(w) == Launch(w) /\ UNCHANGED <<limitVars, gatewayVars, clients, stalled>>

\* A start-up meets an error; bound: not in a run with clients.
Falters(w) ==
    /\ clients = {}
    /\ Deferred(w) \/ LockSessionEnds(w)
    /\ UNCHANGED <<limitVars, gatewayVars, clients, stalled>>

Crash(w) ==
    /\ Calm
    /\ Die(w)
    /\ Forget(w)
    /\ fetch' = [s \in Slots |-> IF request[s].worker = w THEN NoCall ELSE fetch[s]]
    /\ UNCHANGED <<cache, clients, stalled>>

LateCommit ==
    /\ \E k \in orphans : OrphanCommits(k)
    /\ stalled # "postgres"
    /\ UNCHANGED <<limitVars, gatewayVars, clients, stalled>>

Arrive(s) ==
    /\ \E w \in Workers, kind \in clients : Accept(s, w, kind) /\ ~LoopBlocked(w)
    /\ UNCHANGED <<startVars, gatewayVars, clients, stalled>>

LoginRuns(s) ==
    /\ \/ Dispatch(s) /\ stalled # "redis"
       \/ SignInEnds(s) /\ stalled # "postgres" /\ ~LoopBlocked(request[s].worker)
    /\ UNCHANGED <<startVars, gatewayVars, clients, stalled>>

\* The officer is looked up before the call, and the session ends after it.
TraceRuns(s) ==
    /\ \/ CacheStep(s) /\ stalled # "redis"
       \/ IndexerStep(s)
       \/ /\ Begin(s) \/ Fail(s) \/ Answer(s)
          /\ stalled # "postgres" /\ ~LoopBlocked(request[s].worker)
    /\ UNCHANGED <<startVars, redisUp, counter, clients, stalled>>

\* A peer falls silent, or answers again.
Stall ==
    /\ \/ stalled = NULL /\ Calm /\ stalled' \in Peers
       \/ stalled # NULL /\ stalled' = NULL
    /\ UNCHANGED <<startVars, limitVars, gatewayVars, clients>>

Surroundings ==
    \/ /\ RedisFlips \/ \E c \in Counters : WindowEnds(c)
       /\ UNCHANGED <<startVars, gatewayVars, clients, stalled>>
    \/ Tick /\ UNCHANGED <<startVars, redisUp, counter, clients, stalled>>
    \/ Stall
    \/ LateCommit

-----------------------------------------------------------------------------
\* A run without clients starts from every kind of database; with clients, from
\* a deployment that is up over a migrated one.
Init ==
    /\ clients \in Clients
    /\ stalled = NULL
    /\ IF clients = {}
       THEN StartInit
       ELSE /\ tables = Files
            /\ revision = Baseline
            /\ lock = NULL
            /\ orphans = {}
            /\ constrained = TRUE
            /\ boot = [w \in Workers |-> [Down EXCEPT !.phase = "serving", !.outcome = "migrated"]]
            /\ unguarded = FALSE
    /\ LimitInit
    /\ GatewayInit

Serve(s) == LoginRuns(s) \/ TraceRuns(s)

Next ==
    \/ \E w \in Workers : Boot(w) \/ LocksSchema(w) \/ Starts(w) \/ Falters(w) \/ Crash(w)
    \/ \E s \in Slots : Arrive(s) \/ Serve(s)
    \/ Surroundings

\* A thread that waits for nobody runs on, and so does one whose peer answers; a
\* call of the indexer has a time-out; sessions that wait for the lock get it in
\* the order they came; a COMMIT that was sent arrives.  That a peer answers
\* again is not assumed.
Fairness ==
    /\ \A w \in Workers : SF_vars(LocksSchema(w)) /\ WF_vars(Starts(w))
    /\ \A s \in Slots : WF_vars(Serve(s))
    /\ WF_vars(LateCommit)

Spec == Init /\ [][Next]_vars /\ Fairness

-----------------------------------------------------------------------------
(* Properties *)

\* Every variable has the shape its definition says.
TypeOK ==
    /\ StartTypeOK /\ LimitTypeOK /\ GatewayTypeOK
    /\ clients \in Clients /\ stalled \in Peers \cup {NULL}

\* The pool of a serving worker has the session that holds the migration lock.
LockKept == \E w \in Workers : lock = w /\ boot[w].outcome = "aborted"

\* Two things hang a deployment and nothing else does: a peer that stays silent,
\* and a session that a failed read left in the pool with the migration lock.
\* Short of these every request ends, whatever retries, Retry-After and outages
\* it meets, or dies with its worker; and no worker waits for the lock for good,
\* whether the others succeed, fail or die while they hold it.
NothingHangs ==
    <>[](stalled = NULL) /\ []<>~LockKept =>
        /\ \A s \in Slots : []<>(request[s].phase = "idle")
        /\ \A w \in Workers : []<>(boot[w].phase \in {"serving", "down"})
=============================================================================
