----------------------------- MODULE AlertStream -----------------------------
(***************************************************************************)
(* The alert channel: publish_alert writes an alert to a capped Redis      *)
(* stream and mirrors it into PostgreSQL (services/alerts.py); every       *)
(* dashboard holds one WebSocket whose handler replays the recent backlog  *)
(* and then forwards what stream_alerts reads (api/v1/ws.py).              *)
(*                                                                         *)
(* The handler blocks in XREAD on a thread, publishers run on others and   *)
(* Redis may be unreachable at any call, so every Redis call, every frame  *)
(* sent and every commit is an action of its own.                          *)
(***************************************************************************)
EXTENDS Naturals, Sequences, FiniteSets

CONSTANTS
    Alerts,     \* alerts ever raised; their number bounds the stream
    Sockets,    \* dashboard connections ever opened, each used once
    MaxLen,     \* STREAM_MAXLEN: trimming keeps at least this many entries
    Backlog,    \* entries replayed on connect
    Count,      \* entries one XREAD returns at most
    NewOnly     \* the cursor "$": only what arrives from now on

ASSUME AlertsAssumption == IsFiniteSet(Alerts)
ASSUME SizesAssumption ==
    MaxLen \in Nat \ {0} /\ Backlog \in Nat /\ Count \in Nat \ {0}
ASSUME CursorAssumption == NewOnly \notin Nat

VARIABLES
    redisUp,    \* whether Redis answers
    officer,    \* the account behind the sockets: "active" or "disabled"
    alert,      \* [Alerts -> how far publish_alert has got with it]
    stream,     \* the Redis stream: ids first..last; older ones are trimmed
    socket,     \* [Sockets -> the alert_socket handler]
    sent        \* [Sockets -> the ids of the alert frames sent, in order]

vars == <<redisUp, officer, alert, stream, socket, sent>>

-----------------------------------------------------------------------------
Stored == stream.first..stream.last

\* The entries with an id above k, oldest first, at most n of them.
After(k, n) ==
    LET from == IF k + 1 > stream.first THEN k + 1 ELSE stream.first
        size == IF from > stream.last THEN 0 ELSE stream.last - from + 1
    IN  [i \in 1..(IF size < n THEN size ELSE n) |-> from + i - 1]

\* read_alerts, reversed by its caller: the newest n entries, oldest first.
\* It swallows an error and answers nothing.
Recent(n) ==
    IF redisUp
    THEN After(IF stream.last > n THEN stream.last - n ELSE 0, n)
    ELSE <<>>

Phases == {"new", "accepted", "replaying", "asking", "waiting", "sending", "closed"}

\* batch: entries read and not yet sent; cursor: what the next XREAD names;
\* blockedAt: the id Redis resolved the cursor to when the XREAD began.
Handler ==
    [phase : Phases, batch : Seq(Nat), cursor : Nat \cup {NewOnly}, blockedAt : Nat]

NewHandler == [phase |-> "new", batch |-> <<>>, cursor |-> NewOnly, blockedAt |-> 0]

-----------------------------------------------------------------------------
(* publish_alert *)

\* analyse_wallet reached a Medium or High score.
Raise(a) ==
    /\ alert[a] = "none"
    /\ alert' = [alert EXCEPT ![a] = "raised"]
    /\ UNCHANGED <<redisUp, officer, stream, socket, sent>>

\* XADD ... MAXLEN ~: Redis drops any number of old entries that leaves MaxLen.
Add(a) ==
    LET id == stream.last + 1 IN
    /\ alert[a] = "raised"
    /\ redisUp
    /\ \E f \in stream.first..id :
          /\ f # stream.first => id - f + 1 >= MaxLen
          /\ stream' = [first |-> f, last |-> id]
    /\ alert' = [alert EXCEPT ![a] = "added"]
    /\ UNCHANGED <<redisUp, officer, socket, sent>>

\* Slip: returning when Redis does not take the alert.
GiveUp(a) ==
    /\ alert[a] = "raised"
    /\ ~redisUp
    /\ alert' = [alert EXCEPT ![a] = "dropped"]
    /\ UNCHANGED <<redisUp, officer, stream, socket, sent>>

\* The error is logged; the row will carry no stream id.
AddFails(a) ==
    /\ alert[a] = "raised"
    /\ ~redisUp
    /\ alert' = [alert EXCEPT ![a] = "added"]
    /\ UNCHANGED <<redisUp, officer, stream, socket, sent>>

\* The row of the alerts table is committed.
File(a) ==
    /\ alert[a] = "added"
    /\ alert' = [alert EXCEPT ![a] = "filed"]
    /\ UNCHANGED <<redisUp, officer, stream, socket, sent>>

\* The commit is refused and rolled back, or the process dies before it.
FileFails(a) ==
    /\ alert[a] = "added"
    /\ alert' = [alert EXCEPT ![a] = "lost"]
    /\ UNCHANGED <<redisUp, officer, stream, socket, sent>>

-----------------------------------------------------------------------------
(* alert_socket.  Step(s, h) is a step of s's handler to state h. *)

Step(s, h) ==
    /\ socket' = [socket EXCEPT ![s] = h]
    /\ UNCHANGED <<redisUp, officer, alert, stream>>

\* _authenticate_socket, accept and the hello frame, or the close before it.
Connect(s) ==
    /\ socket[s].phase = "new"
    /\ Step(s, [socket[s] EXCEPT !.phase = IF officer = "active" THEN "accepted" ELSE "closed"])
    /\ UNCHANGED sent

ReadBacklog(s) ==
    /\ socket[s].phase = "accepted"
    /\ Step(s, [socket[s] EXCEPT !.phase = "replaying", !.batch = Recent(Backlog)])
    /\ UNCHANGED sent

SendReplay(s) ==
    LET h == socket[s] IN
    /\ h.phase = "replaying"
    /\ h.batch # <<>>
    /\ Step(s, [h EXCEPT !.batch = Tail(h.batch)])
    /\ sent' = [sent EXCEPT ![s] = Append(@, Head(h.batch))]

\* Slip: starting from the beginning of the stream, to miss nothing.
StartFromZero(s) ==
    LET h == socket[s] IN
    /\ h.phase = "replaying"
    /\ h.batch = <<>>
    /\ Step(s, [h EXCEPT !.phase = "asking", !.cursor = 0])
    /\ UNCHANGED sent

\* The generator is created with the cursor "$".
StartLive(s) ==
    LET h == socket[s] IN
    /\ h.phase = "replaying"
    /\ h.batch = <<>>
    /\ Step(s, [h EXCEPT !.phase = "asking", !.cursor = NewOnly])
    /\ UNCHANGED sent

\* XREAD BLOCK begins; Redis resolves "$" now, on every call that still uses it.
Ask(s) ==
    LET h == socket[s] IN
    /\ h.phase = "asking"
    /\ redisUp
    /\ Step(s, [h EXCEPT !.phase = "waiting",
                         !.blockedAt = IF h.cursor = NewOnly THEN stream.last ELSE h.cursor])
    /\ UNCHANGED sent

Answer(s) ==
    LET h == socket[s] IN
    /\ h.phase = "waiting"
    /\ redisUp
    /\ After(h.blockedAt, Count) # <<>>
    /\ Step(s, [h EXCEPT !.phase = "sending", !.batch = After(h.blockedAt, Count)])
    /\ UNCHANGED sent

\* block_ms elapsed with nothing to read: a ping, and the same cursor again.
Timeout(s) ==
    LET h == socket[s] IN
    /\ h.phase = "waiting"
    /\ redisUp
    /\ After(h.blockedAt, Count) = <<>>
    /\ Step(s, [h EXCEPT !.phase = "asking"])
    /\ UNCHANGED sent

\* The read failed: the generator returns and the endpoint ends.
ReadFails(s) ==
    /\ socket[s].phase \in {"asking", "waiting"}
    /\ ~redisUp
    /\ Step(s, [NewHandler EXCEPT !.phase = "closed"])
    /\ UNCHANGED sent

\* Slip: a cursor that follows the stream instead of what was forwarded.
SendAndSkip(s) ==
    LET h == socket[s] IN
    /\ h.phase = "sending"
    /\ Step(s, [h EXCEPT !.cursor = stream.last,
                         !.batch = Tail(h.batch),
                         !.phase = IF Len(h.batch) = 1 THEN "asking" ELSE "sending"])
    /\ sent' = [sent EXCEPT ![s] = Append(@, Head(h.batch))]

\* One entry of the batch: the cursor moves to it and it is sent.
SendLive(s) ==
    LET h == socket[s] IN
    /\ h.phase = "sending"
    /\ Step(s, [h EXCEPT !.cursor = Head(h.batch),
                         !.batch = Tail(h.batch),
                         !.phase = IF Len(h.batch) = 1 THEN "asking" ELSE "sending"])
    /\ sent' = [sent EXCEPT ![s] = Append(@, Head(h.batch))]

\* The browser leaves, the network drops or the process is stopped.
Disconnect(s) ==
    /\ socket[s].phase \notin {"new", "closed"}
    /\ Step(s, [NewHandler EXCEPT !.phase = "closed"])
    /\ UNCHANGED sent

-----------------------------------------------------------------------------
(* The surroundings *)

RedisStops ==
    /\ redisUp
    /\ redisUp' = FALSE
    /\ UNCHANGED <<officer, alert, stream, socket, sent>>

RedisReturns ==
    /\ ~redisUp
    /\ redisUp' = TRUE
    /\ UNCHANGED <<officer, alert, stream, socket, sent>>

\* manage_users.py deactivate
Deactivate ==
    /\ officer = "active"
    /\ officer' = "disabled"
    /\ UNCHANGED <<redisUp, alert, stream, socket, sent>>

-----------------------------------------------------------------------------
Init ==
    /\ redisUp = TRUE
    /\ officer = "active"
    /\ alert = [a \in Alerts |-> "none"]
    /\ stream = [first |-> 1, last |-> 0]
    /\ socket = [s \in Sockets |-> NewHandler]
    /\ sent = [s \in Sockets |-> <<>>]

Publish(a) == Add(a) \/ AddFails(a) \/ File(a) \/ FileFails(a)

Serve(s) ==
    \/ ReadBacklog(s) \/ SendReplay(s) \/ StartLive(s)
    \/ Ask(s) \/ Answer(s) \/ Timeout(s) \/ ReadFails(s) \/ SendLive(s)

Next ==
    \/ \E a \in Alerts : Raise(a) \/ Publish(a)
    \/ \E s \in Sockets : Connect(s) \/ Serve(s) \/ Disconnect(s)
    \/ RedisStops
    \/ RedisReturns
    \/ Deactivate

\* A handler that has begun is run to its end by the event loop or its thread:
\* nothing is assumed of officers, of Redis or of new analyses.
Fairness ==
    /\ \A a \in Alerts : WF_vars(Publish(a))
    /\ \A s \in Sockets : WF_vars(Serve(s))

Spec == Init /\ [][Next]_vars /\ Fairness

-----------------------------------------------------------------------------
(* Properties *)

\* Every variable has the shape its definition says.
TypeOK ==
    /\ redisUp \in BOOLEAN
    /\ officer \in {"active", "disabled"}
    /\ alert \in [Alerts -> {"none", "raised", "added", "filed", "lost"}]
    /\ stream \in [first : Nat \ {0}, last : Nat]
    /\ socket \in [Sockets -> Handler]
    /\ sent \in [Sockets -> Seq(Nat)]

\* "in the order they actually happened": a socket never sends an alert twice
\* or an older one after a newer one, across the replay, the live reads and
\* the idle reads that resolve "$" again.
SentInOrder ==
    \A s \in Sockets : \A i, j \in 1..Len(sent[s]) : i < j => sent[s][i] < sent[s][j]

SentTo(s) == {sent[s][i] : i \in 1..Len(sent[s])}

\* The cursor never passes an alert that was neither forwarded nor trimmed by
\* Redis, whatever is added or trimmed between two reads and while a batch is
\* sent: reading after an id closes the gap between two reads that "$" leaves.
NoGapOnceLive ==
    [][\A s \in Sockets :
          LET h == socket[s]
              c == IF h.cursor = NewOnly THEN h.blockedAt ELSE h.cursor
              d == socket'[s].cursor
          IN  d \in Nat /\ d # h.cursor =>
                  \A k \in (c + 1)..d : k < stream.first \/ k \in SentTo(s)']_<<socket, sent>>

\* An entry that arrives while a handler is blocked in XREAD is forwarded,
\* unless Redis trims it first or the connection ends; and "a Redis outage must
\* not lose the case record": every alert raised gets its row, unless PostgreSQL
\* refuses it or the process dies.
AlertsArrive ==
    /\ \A s \in Sockets, k \in 1..Cardinality(Alerts) :
          socket[s].phase = "waiting" /\ socket[s].blockedAt < k /\ k \in Stored
              ~> k \in SentTo(s) \/ k < stream.first \/ socket[s].phase = "closed"
    /\ \A a \in Alerts : alert[a] = "raised" ~> alert[a] \in {"filed", "lost"}

-----------------------------------------------------------------------------
(* What the documentation says and the code does not do. *)

\* "the backlog above covered history": when a handler blocks for the first
\* time, each of the newest Backlog entries it will not read was replayed.
BacklogCoversHistory ==
    \A s \in Sockets :
        socket[s].phase = "waiting" /\ socket[s].cursor = NewOnly =>
            \A k \in Stored :
                k <= socket[s].blockedAt /\ k + Backlog > socket[s].blockedAt => k \in SentTo(s)
=============================================================================
