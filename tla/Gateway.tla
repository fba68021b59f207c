-------------------------------- MODULE Gateway --------------------------------
(***************************************************************************)
(* One indexer call of a trace request: get_json (services/connectors/     *)
(* http.py) behind the live connectors, with its cache in Redis, its       *)
(* bounded retries and the errors that are not retried.                    *)
(*                                                                         *)
(* One URL is enough, entries of two share nothing.  What an indexer sends *)
(* is known by its age: the ticks since it was what the indexer would say. *)
(* A tick is a unit of the cache's lifetime.                               *)
(***************************************************************************)
EXTENDS RateLimit

CONSTANTS
    TTL,            \* connector_cache_ttl_seconds, in ticks
    MaxAttempts,    \* connector_max_attempts
    MaxDelay        \* bound: the ticks a response may wait for its SETEX

ASSUME GatewayAssumption ==
    TTL \in Nat \ {0} /\ MaxAttempts \in Nat \ {0} /\ MaxDelay \in Nat

VARIABLES
    cache,      \* the cached response, NULL if there is none
    fetch       \* [Slots -> the get_json call of the request]

gatewayVars == <<cache, fetch>>

-----------------------------------------------------------------------------
Ages == 0..(TTL + MaxDelay)

\* A 200, whether transactions or the provider's own error message in a JSON body.
Entry == [age : Ages, left : 1..TTL]

\* age: of the response, until get_json returns it.
Call ==
    [phase : {"none", "lookup", "asking", "got", "answered"}, attempt : 0..MaxAttempts, age : Ages]

NoCall == [phase |-> "none", attempt |-> 0, age |-> 0]

Older(age) == IF age < TTL + MaxDelay THEN age + 1 ELSE age

-----------------------------------------------------------------------------
\* The handler of an admitted trace request calls its connector.
Begin(s) ==
    /\ request[s].phase = "running"
    /\ request[s].kind = "trace"
    /\ fetch[s].phase = "none"
    /\ fetch' = [fetch EXCEPT ![s].phase = "lookup"]
    /\ UNCHANGED <<cache, request>>

Hit == redisUp /\ cache # NULL

\* Slip: an expiry that every use pushes back.
LookupRenews(s) ==
    /\ fetch[s].phase = "lookup"
    /\ \/ /\ Hit
          /\ cache' = [cache EXCEPT !.left = TTL]
          /\ fetch' = [fetch EXCEPT ![s] = [@ EXCEPT !.phase = "answered", !.age = cache.age]]
       \/ /\ ~Hit
          /\ fetch' = [fetch EXCEPT ![s] = [@ EXCEPT !.phase = "asking", !.attempt = 1]]
          /\ UNCHANGED cache
    /\ UNCHANGED request

\* _cache_get: an outage is a miss.
Lookup(s) ==
    /\ fetch[s].phase = "lookup"
    /\ \/ /\ Hit
          /\ fetch' = [fetch EXCEPT ![s] = [@ EXCEPT !.phase = "answered", !.age = cache.age]]
       \/ /\ ~Hit
          /\ fetch' = [fetch EXCEPT ![s] = [@ EXCEPT !.phase = "asking", !.attempt = 1]]
    /\ UNCHANGED <<cache, request>>

\* Slip: counting retries where the code counts attempts.
RetryOnceMore(s) ==
    /\ fetch[s].phase = "asking"
    /\ fetch[s].attempt <= MaxAttempts
    /\ fetch' = [fetch EXCEPT ![s].attempt = @ + 1]
    /\ UNCHANGED <<cache, request>>

\* A timeout, a reset or a RETRY_STATUS, with an attempt left.
Retry(s) ==
    /\ fetch[s].phase = "asking"
    /\ fetch[s].attempt < MaxAttempts
    /\ fetch' = [fetch EXCEPT ![s].attempt = @ + 1]
    /\ UNCHANGED <<cache, request>>

\* ConnectorError: the last attempt failed, Retry-After is past
\* MAX_RETRY_AFTER_SECONDS, the status is not one to retry, or it is no JSON.
Fail(s) ==
    /\ fetch[s].phase = "asking"
    /\ fetch' = [fetch EXCEPT ![s] = NoCall]
    /\ Respond(s)
    /\ UNCHANGED cache

Receive(s) ==
    /\ fetch[s].phase = "asking"
    /\ fetch' = [fetch EXCEPT ![s] = [@ EXCEPT !.phase = "got", !.age = 0]]
    /\ UNCHANGED <<cache, request>>

\* _cache_put: SETEX, whatever the body says and whatever is there by now.
Put(s) ==
    /\ fetch[s].phase = "got"
    /\ cache' = IF redisUp THEN [age |-> fetch[s].age, left |-> TTL] ELSE cache
    /\ fetch' = [fetch EXCEPT ![s].phase = "answered"]
    /\ UNCHANGED request

\* get_transactions reads the body: transactions, or a ConnectorError.
Answer(s) ==
    /\ fetch[s].phase = "answered"
    /\ fetch' = [fetch EXCEPT ![s] = NoCall]
    /\ Respond(s)
    /\ UNCHANGED cache

\* Time passes for a response on its way to the cache, and for the cache.
Tick ==
    LET waiting == {s \in Slots : fetch[s].phase = "got"} IN
    /\ cache # NULL \/ waiting # {}
    /\ \A s \in waiting : fetch[s].age < MaxDelay
    /\ fetch' = [s \in Slots |->
          IF s \in waiting THEN [fetch[s] EXCEPT !.age = Older(@)] ELSE fetch[s]]
    /\ cache' = IF cache = NULL \/ cache.left = 1 THEN NULL
                ELSE [age |-> Older(cache.age), left |-> cache.left - 1]
    /\ UNCHANGED request

-----------------------------------------------------------------------------
GatewayInit == cache = NULL /\ fetch = [s \in Slots |-> NoCall]

\* The steps of a call that wait for Redis, and those that wait for the indexer.
CacheStep(s) == Lookup(s) \/ Put(s)

IndexerStep(s) == Retry(s) \/ Receive(s)

Fetch(s) == Begin(s) \/ CacheStep(s) \/ IndexerStep(s) \/ Fail(s) \/ Answer(s)

-----------------------------------------------------------------------------
(* Properties *)

\* Every variable has the shape its definition says.
GatewayTypeOK ==
    /\ cache \in Entry \cup {NULL}
    /\ fetch \in [Slots -> Call]

\* Whichever of the requests filled the cache, and however often it was hit or
\* written over since, also by a response that is older than the one it replaces:
\* get_json returns nothing that the indexer has not said within the last TTL,
\* or as much longer as a response waited for its SETEX.
AnswersAreFresh ==
    \A s \in Slots : fetch[s].phase = "answered" => fetch[s].age < TTL + MaxDelay
=============================================================================
