------------------------------ MODULE AlertFeed ------------------------------
(***************************************************************************)
(* The Alerts page in the browser (components/useAlerts.js over            *)
(* api/client.js), on top of the alert channel of AlertStream.  A page     *)
(* opens one socket and never reconnects; every 15 seconds, while the      *)
(* socket is not open, it asks GET /alerts/recent instead, whether or not  *)
(* an earlier answer is still under way.  Frames and poll answers reach the*)
(* same add() in whatever order they arrive.                               *)
(***************************************************************************)
EXTENDS AlertStream

CONSTANTS
    Limit,      \* alerts kept on the page, and asked for by one poll
    MaxPolls    \* bound on answers under way at once

ASSUME LimitAssumption == Limit \in Nat \ {0} /\ MaxPolls \in Nat \ {0}

VARIABLE page       \* [Sockets -> the page that owns the socket]

feedVars == <<vars, page>>

\* ready: the browser's view of the socket ("none": not mounted yet, "gone":
\* unmounted); got: frames received; seen: seenRef; screen: the alerts state,
\* top first; polls: the answers under way, each newest first, those
\* left out that add nothing: an empty one, and a second one with the same alerts.
Page ==
    [ready : {"none", "connecting", "open", "closed", "gone"}, got : Nat,
     seen : SUBSET Nat, screen : Seq(Nat), polls : SUBSET Seq(Nat)]

NewPage == [ready |-> "none", got |-> 0, seen |-> {}, screen |-> <<>>, polls |-> {}]

Mounted(s) == page[s].ready \notin {"none", "gone"}

-----------------------------------------------------------------------------
Top(screen) == SubSeq(screen, 1, IF Len(screen) < Limit THEN Len(screen) ELSE Limit)

\* Slip: no seenRef, as if every alert arrived on one path only.
AddUnseen(p, id) == [p EXCEPT !.screen = Top(<<id>> \o @)]

\* add(): skip what was seen, else put it on top and cut the list at Limit.
Add1(p, id) ==
    IF id \in p.seen THEN p
    ELSE [p EXCEPT !.seen = @ \cup {id}, !.screen = Top(<<id>> \o @)]

\* (data.alerts || []).forEach(add)
AddAll(p, ids) ==
    LET upTo[n \in 0..Len(ids)] == IF n = 0 THEN p ELSE Add1(upTo[n - 1], ids[n])
    IN  upTo[Len(ids)]

Newest(n) == LET r == Recent(n) IN [i \in 1..Len(r) |-> r[Len(r) + 1 - i]]

-----------------------------------------------------------------------------
PageStep(s, p) == page' = [page EXCEPT ![s] = p] /\ UNCHANGED vars

Mount(s) ==
    /\ page[s].ready = "none"
    /\ PageStep(s, [page[s] EXCEPT !.ready = "connecting"])

\* onopen: the server accepted, and may since have closed.
Opened(s) ==
    /\ page[s].ready = "connecting"
    /\ socket[s].phase # "new"
    /\ socket[s].phase = "closed" => sent[s] # <<>>
    /\ PageStep(s, [page[s] EXCEPT !.ready = "open"])

\* onclose: frames still under way may be lost with the connection.
Closed(s) ==
    /\ page[s].ready \in {"connecting", "open"}
    /\ socket[s].phase = "closed"
    /\ PageStep(s, [page[s] EXCEPT !.ready = "closed"])

Receive(s) ==
    LET p == page[s] IN
    /\ p.ready = "open"
    /\ p.got < Len(sent[s])
    /\ PageStep(s, [Add1(p, sent[s][p.got + 1]) EXCEPT !.got = p.got + 1])

\* fetchRecentAlerts: one more answer on its way.
Asks(s) ==
    /\ Cardinality(page[s].polls) < MaxPolls
    /\ PageStep(s, [page[s] EXCEPT !.polls = @ \cup ({Newest(Limit)} \ {<<>>})])

\* Slip: polling only until the socket has opened once.
PollWhileConnecting(s) ==
    /\ page[s].ready = "connecting"
    /\ officer = "active"
    /\ Asks(s)

\* The interval fires and recent_alerts reads the stream; a disabled officer
\* gets 401 and the feed is left as it is.
Poll(s) ==
    /\ page[s].ready \in {"connecting", "closed"}
    /\ officer = "active"
    /\ Asks(s)

\* An answer arrives, in any order, whatever became of the socket meanwhile.
PollArrives(s) ==
    /\ Mounted(s)
    /\ \E ids \in page[s].polls :
          PageStep(s, [AddAll(page[s], ids) EXCEPT !.polls = @ \ {ids}])

\* The request fails: "leave the feed as-is".
PollFails(s) ==
    /\ Mounted(s)
    /\ \E ids \in page[s].polls : PageStep(s, [page[s] EXCEPT !.polls = @ \ {ids}])

Leave(s) ==
    /\ Mounted(s)
    /\ PageStep(s, [NewPage EXCEPT !.ready = "gone"])

-----------------------------------------------------------------------------
FeedInit == Init /\ page = [s \in Sockets |-> NewPage]

\* A socket exists once its page has asked for it.
ServerStep ==
    /\ Next
    /\ \A s \in Sockets : ~Mounted(s) /\ socket[s].phase = "new" => socket'[s].phase = "new"
    /\ UNCHANGED page

FeedNext ==
    \/ ServerStep
    \/ \E s \in Sockets :
          \/ Mount(s) \/ Opened(s) \/ Closed(s) \/ Leave(s)
          \/ Receive(s) \/ Poll(s) \/ PollArrives(s) \/ PollFails(s)

\* The browser keeps its interval, and requests keep being answered often enough
\* for one of them to get through.
FeedSpec ==
    /\ FeedInit /\ [][FeedNext]_feedVars /\ Fairness
    /\ \A s \in Sockets : WF_feedVars(Poll(s)) /\ SF_feedVars(PollArrives(s))

-----------------------------------------------------------------------------
\* The channel and every page have the shape their definitions say.
FeedTypeOK == TypeOK /\ page \in [Sockets -> Page] /\ \A s \in Sockets : Len(page[s].screen) <= Limit

\* The screen never shows an alert twice, although the replay, the live frames
\* and late poll answers overlap.
ShownOnce ==
    \A s \in Sockets : \A i, j \in 1..Len(page[s].screen) :
        i # j => page[s].screen[i] # page[s].screen[j]

\* "a blocked WebSocket degrades to stale-but-present": once the socket is
\* closed, and Redis answers an active officer again, each of the newest Limit
\* entries is picked up by a poll before newer ones or the trimming displace it.
PollingCatchesUp ==
    <>[](redisUp /\ officer = "active") =>
        \A s \in Sockets, k \in 1..Cardinality(Alerts) :
            page[s].ready = "closed" /\ k \in Stored
                ~> \/ k \in page[s].seen \/ page[s].ready = "gone"
                   \/ k \notin Stored \/ k + Limit <= stream.last
=============================================================================
