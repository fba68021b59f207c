------------------------------- MODULE RateLimit -------------------------------
(***************************************************************************)
(* The lockout of RateLimitMiddleware (middleware.py) around a sign-in:    *)
(* the failures of the window are read before the request, and a 401 is    *)
(* counted after it.  The count is kept in Redis for all workers; whenever *)
(* a Redis call fails, that one call uses the worker's own dictionary.     *)
(*                                                                         *)
(* One client is enough: the counters of two clients share nothing.  The   *)
(* general ceiling is kept the same way and compared after an atomic INCR: *)
(* here it may refuse any request.                                         *)
(***************************************************************************)
EXTENDS Startup, Naturals

CONSTANTS
    Slots,          \* connections of the client, one request at a time on each
    AuthFailures,   \* failed sign-ins a window allows
    Shared,         \* the counter in Redis
    MaxStrays       \* bound: Redis does not flip once a counter has as many strays

ASSUME LimitAssumption ==
    AuthFailures \in Nat \ {0} /\ MaxStrays \in Nat /\ IsFiniteSet(Slots)
ASSUME SharedAssumption == Shared \notin Workers

VARIABLES
    redisUp,    \* whether Redis answers
    counter,    \* [Counters -> the failures of the current window]
    request     \* [Slots -> the request under way]

limitVars == <<redisUp, counter, request>>

-----------------------------------------------------------------------------
Counters == Workers \cup {Shared}

\* strays: how many of the failures were let in by a look at another counter.
Count == [failures : Nat, strays : Nat]

NoCount == [failures |-> 0, strays |-> 0]

\* arrived: in the first Redis calls of dispatch; failed: in the one after a 401.
\* checked: the counter that let the sign-in through.
Request ==
    [phase : {"idle", "arrived", "running", "failed"}, kind : {"login", "trace"},
     worker : Workers \cup {NULL}, checked : Counters \cup {NULL}]

NoRequest == [phase |-> "idle", kind |-> "login", worker |-> NULL, checked |-> NULL]

\* The counter a call of _Counter.hit by worker w uses now.
Current(w) == IF redisUp THEN Shared ELSE w

-----------------------------------------------------------------------------
\* The event loop of worker w enters dispatch.
Accept(s, w, kind) ==
    /\ request[s].phase = "idle"
    /\ boot[w].phase = "serving"
    /\ request' = [request EXCEPT ![s] =
          [phase |-> "arrived", kind |-> kind, worker |-> w, checked |-> NULL]]
    /\ UNCHANGED <<redisUp, counter>>

Passes(s, c) ==
    /\ request' = [request EXCEPT ![s] = [@ EXCEPT
          !.phase = "running", !.checked = IF request[s].kind = "login" THEN c ELSE NULL]]
    /\ UNCHANGED <<redisUp, counter>>

\* Slip: letting the failure that reaches the limit through once more.
AdmitPast(s) ==
    LET c == Current(request[s].worker) IN
    /\ request[s].phase = "arrived"
    /\ request[s].kind = "login" => counter[c].failures <= AuthFailures
    /\ Passes(s, c)

\* dispatch up to call_next.
Admit(s) ==
    LET c == Current(request[s].worker) IN
    /\ request[s].phase = "arrived"
    /\ request[s].kind = "login" => counter[c].failures < AuthFailures
    /\ Passes(s, c)

\* The response leaves and the slot is free for the next request.
Respond(s) == request' = [request EXCEPT ![s] = NoRequest]

\* A 429, of the lockout or of the general ceiling: nothing is counted here.
Refuse(s) ==
    /\ request[s].phase = "arrived"
    /\ Respond(s)
    /\ UNCHANGED <<redisUp, counter>>

SignIn(s) ==
    /\ request[s].phase = "running"
    /\ request[s].kind = "login"
    /\ Respond(s)
    /\ UNCHANGED <<redisUp, counter>>

\* authenticate raised AuthError: call_next returns a 401.
WrongPassword(s) ==
    /\ request[s].phase = "running"
    /\ request[s].kind = "login"
    /\ request' = [request EXCEPT ![s].phase = "failed"]
    /\ UNCHANGED <<redisUp, counter>>

\* INCR and EXPIRE NX in one pipeline, or the dictionary.
CountFailure(s) ==
    LET c == Current(request[s].worker) IN
    /\ request[s].phase = "failed"
    /\ counter' = [counter EXCEPT ![c] =
          [failures |-> @.failures + 1,
           strays   |-> IF request[s].checked = c THEN @.strays ELSE @.strays + 1]]
    /\ Respond(s)
    /\ UNCHANGED redisUp

\* The key expires, or the dictionary's window is over at its next use.
WindowEnds(c) ==
    /\ counter[c].failures > 0
    /\ counter' = [counter EXCEPT ![c] = NoCount]
    /\ UNCHANGED <<redisUp, request>>

\* Redis stops; it comes back with its keys.
RedisFlips ==
    /\ \A c \in Counters : counter[c].strays < MaxStrays
    /\ redisUp' = ~redisUp
    /\ UNCHANGED <<counter, request>>

\* With a worker die its requests and its dictionary.
Forget(w) ==
    /\ counter' = [counter EXCEPT ![w] = NoCount]
    /\ request' = [s \in Slots |-> IF request[s].worker = w THEN NoRequest ELSE request[s]]
    /\ UNCHANGED redisUp

-----------------------------------------------------------------------------
LimitInit ==
    /\ redisUp \in BOOLEAN
    /\ counter = [c \in Counters |-> NoCount]
    /\ request = [s \in Slots |-> NoRequest]

\* The steps of dispatch that wait for Redis on the event loop, and the handler.
Dispatch(s) == Admit(s) \/ Refuse(s) \/ CountFailure(s)

SignInEnds(s) == SignIn(s) \/ WrongPassword(s)

-----------------------------------------------------------------------------
(* Properties *)

\* Every variable has the shape its definition says.
LimitTypeOK ==
    /\ redisUp \in BOOLEAN
    /\ counter \in [Counters -> Count]
    /\ request \in [Slots -> Request]

\* The lockout is checked before the request and counted after its 401, so
\* requests in flight together overshoot it, but by no more than there are
\* connections; only failures let in on one counter and counted on another,
\* as Redis came or went in between, come on top.
LockoutHolds ==
    \A c \in Counters :
        counter[c].failures < AuthFailures + Cardinality(Slots) + counter[c].strays
=============================================================================
