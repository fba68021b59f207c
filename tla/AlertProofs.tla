------------------------------ MODULE AlertProofs ------------------------------
(***************************************************************************)
(* Order and gaps of the alert channel, for any number of alerts, sockets  *)
(* and pages and any sizes of the stream, the replay and the batches.      *)
(***************************************************************************)
EXTENDS AlertFeed, Integers, WellFoundedInduction, TLAPS

Stream == [first : Nat \ {0}, last : Nat]

Ascending(q) == \A i, j \in 1..Len(q) : i < j => q[i] < q[j]

Consecutive(q) == \A i \in 1..Len(q) : q[i] = q[1] + i - 1

UpTo(q, n) == \A i \in 1..Len(q) : q[i] <= n

\* The id up to which a handler has read.
Read(h) == IF h.cursor = NewOnly THEN h.blockedAt ELSE h.cursor

\* A handler h that has sent q of stream st: what it sent is in order and not
\* past where it has read, what it is about to send is a run of ids after that,
\* and what the run leaves out before it was trimmed.
Line(h, q, st) ==
    /\ Ascending(q) /\ UpTo(q, st.last)
    /\ Consecutive(h.batch) /\ UpTo(h.batch, st.last)
    /\ h.phase \in {"new", "accepted"} => q = <<>>
    /\ h.phase \in {"new", "accepted", "replaying"} => h.cursor = NewOnly
    /\ h.phase = "replaying" /\ h.batch # <<>> => UpTo(q, h.batch[1] - 1)
    /\ h.cursor \in Nat => UpTo(q, h.cursor)
    /\ h.phase = "waiting" => UpTo(q, h.blockedAt) /\ h.blockedAt = Read(h)
    /\ h.phase = "sending" =>
          /\ h.batch # <<>>
          /\ UpTo(q, Read(h)) /\ Read(h) < h.batch[1]
          /\ \A k \in (Read(h) + 1)..(h.batch[1] - 1) : k < st.first

ChannelInv == TypeOK /\ \A s \in Sockets : Line(socket[s], sent[s], stream)

-----------------------------------------------------------------------------
(* What a read returns. *)

LEMMA AfterShape ==
    ASSUME stream \in Stream, NEW k \in Nat, NEW n \in Nat
    PROVE  /\ After(k, n) \in Seq(Nat)
           /\ Consecutive(After(k, n)) /\ UpTo(After(k, n), stream.last)
           /\ After(k, n) # <<>> =>
                 /\ k < After(k, n)[1]
                 /\ \A j \in (k + 1)..(After(k, n)[1] - 1) : j < stream.first
<1> DEFINE from == IF k + 1 > stream.first THEN k + 1 ELSE stream.first
           size == IF from > stream.last THEN 0 ELSE stream.last - from + 1
           len  == IF size < n THEN size ELSE n
           q    == [i \in 1..len |-> from + i - 1]
<1>1. from \in Nat /\ from > k /\ (from > k + 1 => from = stream.first)
  BY DEF Stream
<1>2. size \in Nat /\ (size # 0 => from + size - 1 = stream.last)
  BY <1>1 DEF Stream
<1>3. len \in Nat /\ len <= size
  BY <1>2
<1>4. \A i \in 1..len : from + i - 1 \in Nat /\ from + i - 1 <= stream.last
  BY <1>1, <1>2, <1>3 DEF Stream
<1> HIDE DEF from, size, len
<1>5. q \in Seq(Nat) /\ Len(q) = len /\ \A i \in 1..len : q[i] = from + i - 1
  BY <1>3, <1>4
<1>6. After(k, n) = q
  BY DEF After, from, size, len
<1> HIDE DEF q
<1>7. Consecutive(q) /\ UpTo(q, stream.last)
  <2>1. \A i \in 1..Len(q) : 1 \in 1..len /\ i \in 1..len
    BY <1>3, <1>5
  <2>2. \A i \in 1..Len(q) : q[i] = q[1] + i - 1
    BY <2>1, <1>1, <1>5
  <2>3. \A i \in 1..Len(q) : q[i] <= stream.last
    BY <1>4, <1>5
  <2>. QED
    BY <2>2, <2>3 DEF Consecutive, UpTo
<1>8. q # <<>> => q[1] = from
  BY <1>1, <1>3, <1>5
<1>9. \A j \in (k + 1)..(from - 1) : j < stream.first
  BY <1>1 DEF Stream
<1>. QED
  BY <1>1, <1>5, <1>6, <1>7, <1>8, <1>9

LEMMA RecentShape ==
    ASSUME stream \in Stream, NEW n \in Nat
    PROVE  Recent(n) \in Seq(Nat) /\ Consecutive(Recent(n)) /\ UpTo(Recent(n), stream.last)
<1> DEFINE k == IF stream.last > n THEN stream.last - n ELSE 0
<1>1. k \in Nat
  BY DEF Stream
<1>2. CASE redisUp
  BY <1>1, <1>2, AfterShape DEF Recent
<1>3. CASE ~redisUp
  BY <1>3 DEF Recent, Consecutive, UpTo
<1>. QED
  BY <1>2, <1>3

-----------------------------------------------------------------------------
(* What sending the first entry of a batch does. *)

LEMMA SendKeepsOrder ==
    ASSUME NEW q \in Seq(Nat), NEW b \in Seq(Nat), b # <<>>, NEW n \in Nat,
           Ascending(q), UpTo(q, b[1] - 1), Consecutive(b), UpTo(b, n), UpTo(q, n)
    PROVE  /\ Append(q, b[1]) \in Seq(Nat) /\ Tail(b) \in Seq(Nat) /\ b[1] \in Nat
           /\ Ascending(Append(q, b[1])) /\ UpTo(Append(q, b[1]), n)
           /\ UpTo(Append(q, b[1]), b[1])
           /\ Consecutive(Tail(b)) /\ UpTo(Tail(b), n)
           /\ Tail(b) # <<>> => Tail(b)[1] = b[1] + 1
           /\ Len(b) # 1 => Tail(b) # <<>>
<1>1. b[1] \in Nat /\ Len(b) \in Nat \ {0}
  OBVIOUS
<1>2. /\ Append(q, b[1]) \in Seq(Nat)
      /\ Len(Append(q, b[1])) = Len(q) + 1
      /\ \A i \in 1..Len(q) : Append(q, b[1])[i] = q[i]
      /\ Append(q, b[1])[Len(q) + 1] = b[1]
  BY <1>1
<1>3. /\ Tail(b) \in Seq(Nat) /\ Len(Tail(b)) = Len(b) - 1
      /\ \A i \in 1..(Len(b) - 1) : Tail(b)[i] = b[i + 1]
  BY <1>1
<1>4. Ascending(Append(q, b[1])) /\ UpTo(Append(q, b[1]), n) /\ UpTo(Append(q, b[1]), b[1])
  BY <1>1, <1>2 DEF Ascending, UpTo
<1>5. Consecutive(Tail(b)) /\ UpTo(Tail(b), n)
  BY <1>1, <1>3 DEF Consecutive, UpTo
<1>6. Tail(b) # <<>> => Tail(b)[1] = b[1] + 1
  BY <1>1, <1>3 DEF Consecutive
<1>7. Len(b) # 1 => Tail(b) # <<>>
  <2>1. Len(<<>>) = 0
    OBVIOUS
  <2>2. Len(b) # 1 => Len(Tail(b)) # 0
    BY <1>1, <1>3
  <2>. QED
    BY <2>1, <2>2, Zenon
<1>. QED
  BY <1>1, <1>2, <1>3, <1>4, <1>5, <1>6, <1>7

\* The stream only grows at its end and shrinks at its beginning.
LEMMA LineOutlivesTrim ==
    ASSUME NEW h \in Handler, NEW q \in Seq(Nat), NEW st \in Stream, NEW to \in Stream,
           Line(h, q, st), st.first <= to.first, st.last <= to.last
    PROVE  Line(h, q, to)
<1>1. UpTo(q, to.last) /\ UpTo(h.batch, to.last)
  BY DEF Line, UpTo, Handler, Stream
<1>2. h.phase = "sending" => \A k \in (Read(h) + 1)..(h.batch[1] - 1) : k < to.first
  <2> SUFFICES ASSUME h.phase = "sending", NEW k \in (Read(h) + 1)..(h.batch[1] - 1)
               PROVE  k < to.first
    OBVIOUS
  <2>1. Read(h) \in Nat /\ h.batch \in Seq(Nat) /\ h.batch # <<>>
    BY CursorAssumption DEF Handler, Read, Line
  <2>2. k < st.first /\ k \in Int
    BY <2>1 DEF Line
  <2>. QED
    BY <2>2 DEF Stream
<1>. QED
  BY <1>1, <1>2 DEF Line

-----------------------------------------------------------------------------
(* The handler of one socket. *)

Handles(s) == Connect(s) \/ Serve(s) \/ Disconnect(s)

\* The new state of handler s, and what it has sent.
Becomes(s, h, q) ==
    /\ socket' = [socket EXCEPT ![s] = h]
    /\ sent' = [sent EXCEPT ![s] = q]
    /\ UNCHANGED <<redisUp, officer, alert, stream>>

\* What NoGapOnceLive says of one socket that goes from state h to cursor d.
NoGap(h, d, q) ==
    d \in Nat /\ d # h.cursor =>
        \A k \in (Read(h) + 1)..d : k < stream.first \/ k \in {q[i] : i \in 1..Len(q)}

LEMMA HandlerStep ==
    ASSUME TypeOK, NEW s \in Sockets, Line(socket[s], sent[s], stream), Handles(s)
    PROVE  \E h \in Handler, q \in Seq(Nat) :
              Becomes(s, h, q) /\ Line(h, q, stream) /\ NoGap(socket[s], h.cursor, q)
<1> DEFINE g == socket[s]
           p == sent[s]
           Goal == \E h \in Handler, q \in Seq(Nat) :
                      Becomes(s, h, q) /\ Line(h, q, stream) /\ NoGap(g, h.cursor, q)
<1>1. g \in Handler /\ p \in Seq(Nat) /\ stream \in Stream /\ NewOnly \notin Nat
  BY CursorAssumption DEF TypeOK, Stream
<1>2. ASSUME NEW h \in Handler, NEW q \in Seq(Nat), Step(s, h),
             sent' = [sent EXCEPT ![s] = q], Line(h, q, stream), NoGap(g, h.cursor, q)
      PROVE  Goal
  BY <1>2 DEF Step, Becomes
<1>3. ASSUME NEW h \in Handler, Step(s, h), UNCHANGED sent, Line(h, p, stream),
             h.cursor \in {g.cursor, NewOnly}
      PROVE  Goal
  <2>1. sent' = [sent EXCEPT ![s] = p]
    BY <1>3 DEF TypeOK
  <2>2. NoGap(g, h.cursor, p)
    BY <1>1, <1>3 DEF NoGap
  <2>. QED
    BY <1>1, <1>2, <1>3, <2>1, <2>2
<1> SUFFICES Goal
  OBVIOUS
<1> HIDE DEF Goal
<1>4. CASE Connect(s)
  <2> DEFINE h == [g EXCEPT !.phase = IF officer = "active" THEN "accepted" ELSE "closed"]
  <2>1. Step(s, h) /\ UNCHANGED sent /\ g.phase = "new"
    BY <1>4 DEF Connect
  <2>2. h \in Handler
    BY <1>1 DEF Handler, Phases
  <2>3. Line(h, p, stream)
    BY <1>1, <2>1 DEF Line, Handler
  <2>. QED
    BY <1>1, <1>3, <2>1, <2>2, <2>3 DEF Handler
<1>5. CASE Disconnect(s) \/ ReadFails(s)
  <2> DEFINE h == [NewHandler EXCEPT !.phase = "closed"]
  <2>1. Step(s, h) /\ UNCHANGED sent
    BY <1>5 DEF Disconnect, ReadFails
  <2>2. h \in Handler /\ h.cursor = NewOnly
    <3>1. <<>> \in Seq(Nat)
      OBVIOUS
    <3>2. NewHandler \in Handler
      BY <3>1 DEF Handler, Phases, NewHandler
    <3>. QED
      BY <3>2 DEF Handler, Phases, NewHandler
  <2>3. Line(h, p, stream)
    BY <1>1 DEF Line, NewHandler, Consecutive, UpTo
  <2>. QED
    BY <1>3, <2>1, <2>2, <2>3
<1>6. CASE ReadBacklog(s)
  <2> DEFINE h == [g EXCEPT !.phase = "replaying", !.batch = Recent(Backlog)]
  <2>1. Step(s, h) /\ UNCHANGED sent /\ g.phase = "accepted"
    BY <1>6 DEF ReadBacklog
  <2>2. Recent(Backlog) \in Seq(Nat) /\ Consecutive(Recent(Backlog)) /\ UpTo(Recent(Backlog), stream.last)
    BY <1>1, SizesAssumption, RecentShape
  <2>3. h \in Handler
    BY <1>1, <2>2 DEF Handler, Phases
  <2>4. p = <<>>
    BY <2>1 DEF Line
  <2>5. Line(h, p, stream)
    BY <1>1, <2>1, <2>2, <2>4 DEF Line, Handler, UpTo
  <2>. QED
    BY <1>1, <1>3, <2>1, <2>3, <2>5 DEF Handler
<1>7. CASE SendReplay(s)
  <2> DEFINE b == g.batch
             h == [g EXCEPT !.batch = Tail(b)]
             q == Append(p, b[1])
  <2>1. Step(s, h) /\ sent' = [sent EXCEPT ![s] = q] /\ g.phase = "replaying" /\ b # <<>>
    BY <1>1, <1>7 DEF SendReplay, TypeOK
  <2>2. /\ b \in Seq(Nat) /\ stream.last \in Nat
        /\ Ascending(p) /\ UpTo(p, b[1] - 1) /\ Consecutive(b) /\ UpTo(b, stream.last)
        /\ UpTo(p, stream.last) /\ g.cursor = NewOnly
    BY <1>1, <2>1 DEF Line, Handler, Stream
  <2> HIDE DEF b
  <2>3. /\ q \in Seq(Nat) /\ Tail(b) \in Seq(Nat) /\ b[1] \in Nat
        /\ Ascending(q) /\ UpTo(q, stream.last) /\ UpTo(q, b[1])
        /\ Consecutive(Tail(b)) /\ UpTo(Tail(b), stream.last)
        /\ Tail(b) # <<>> => Tail(b)[1] = b[1] + 1
    BY <1>1, <2>1, <2>2, SendKeepsOrder
  <2> HIDE DEF q
  <2>4. h \in Handler
    BY <1>1, <2>3 DEF Handler
  <2>5. h.phase = "replaying" /\ h.cursor = NewOnly /\ h.batch = Tail(b)
    BY <1>1, <2>1, <2>2 DEF Handler
  <2> HIDE DEF h
  <2>6. Line(h, q, stream)
    <3>1. Tail(b) # <<>> => UpTo(q, Tail(b)[1] - 1)
      BY <2>3
    <3>. QED
      BY <1>1, <2>3, <2>5, <3>1 DEF Line
  <2>7. NoGap(g, h.cursor, q)
    BY <1>1, <2>5 DEF NoGap
  <2>. QED
    BY <1>2, <2>1, <2>3, <2>4, <2>6, <2>7
<1>8. CASE StartLive(s)
  <2> DEFINE h == [g EXCEPT !.phase = "asking", !.cursor = NewOnly]
  <2>1. Step(s, h) /\ UNCHANGED sent
    BY <1>8 DEF StartLive
  <2>2. h \in Handler /\ h.cursor = NewOnly
    BY <1>1 DEF Handler, Phases
  <2>3. Line(h, p, stream)
    BY <1>1 DEF Line, Handler
  <2>. QED
    BY <1>3, <2>1, <2>2, <2>3
<1>9. CASE Ask(s)
  <2> DEFINE h == [g EXCEPT !.phase = "waiting",
                            !.blockedAt = IF g.cursor = NewOnly THEN stream.last ELSE g.cursor]
  <2>1. Step(s, h) /\ UNCHANGED sent
    BY <1>9 DEF Ask
  <2>2. h \in Handler
    BY <1>1 DEF Handler, Phases, Stream
  <2>3. /\ h.phase = "waiting" /\ h.cursor = g.cursor /\ h.batch = g.batch
        /\ h.blockedAt = IF g.cursor = NewOnly THEN stream.last ELSE g.cursor
    BY <1>1 DEF Handler
  <2>4. Line(h, p, stream)
    BY <1>1, <2>3 DEF Line, Handler, Read
  <2>. QED
    BY <1>3, <2>1, <2>2, <2>3, <2>4
<1>10. CASE Answer(s)
  <2> DEFINE b == After(g.blockedAt, Count)
             h == [g EXCEPT !.phase = "sending", !.batch = b]
  <2>1. Step(s, h) /\ UNCHANGED sent /\ g.phase = "waiting" /\ b # <<>>
    BY <1>10 DEF Answer
  <2>2. /\ b \in Seq(Nat) /\ Consecutive(b) /\ UpTo(b, stream.last)
        /\ g.blockedAt < b[1]
        /\ \A j \in (g.blockedAt + 1)..(b[1] - 1) : j < stream.first
    BY <1>1, <2>1, SizesAssumption, AfterShape DEF Handler
  <2> HIDE DEF b
  <2>3. h \in Handler
    BY <1>1, <2>2 DEF Handler, Phases
  <2>4. h.phase = "sending" /\ h.cursor = g.cursor /\ h.batch = b /\ h.blockedAt = g.blockedAt
    BY <1>1 DEF Handler
  <2>5. Read(h) = g.blockedAt /\ UpTo(p, g.blockedAt)
    BY <2>1, <2>4 DEF Line, Read
  <2>6. Line(h, p, stream)
    BY <2>1, <2>2, <2>4, <2>5 DEF Line
  <2>. QED
    BY <1>3, <2>1, <2>3, <2>4, <2>6
<1>11. CASE Timeout(s)
  <2> DEFINE h == [g EXCEPT !.phase = "asking"]
  <2>1. Step(s, h) /\ UNCHANGED sent
    BY <1>11 DEF Timeout
  <2>2. h \in Handler /\ h.cursor = g.cursor
    BY <1>1 DEF Handler, Phases
  <2>3. Line(h, p, stream)
    BY <1>1 DEF Line, Handler
  <2>. QED
    BY <1>3, <2>1, <2>2, <2>3
<1>12. CASE SendLive(s)
  <2> DEFINE b == g.batch
             h == [g EXCEPT !.cursor = b[1], !.batch = Tail(b),
                            !.phase = IF Len(b) = 1 THEN "asking" ELSE "sending"]
             q == Append(p, b[1])
  <2>1. Step(s, h) /\ sent' = [sent EXCEPT ![s] = q] /\ g.phase = "sending" /\ b # <<>>
    BY <1>1, <1>12 DEF SendLive, TypeOK, Line
  <2>2. /\ b \in Seq(Nat) /\ stream.last \in Nat /\ Read(g) \in Nat
        /\ Ascending(p) /\ UpTo(p, Read(g)) /\ Read(g) < b[1]
        /\ Consecutive(b) /\ UpTo(b, stream.last) /\ UpTo(p, stream.last)
        /\ \A k \in (Read(g) + 1)..(b[1] - 1) : k < stream.first
    BY <1>1, <2>1 DEF Line, Handler, Stream, Read
  <2>3. g.phase = "sending" /\ h.batch = Tail(b) /\ h.cursor = b[1]
        /\ h.phase = IF Len(b) = 1 THEN "asking" ELSE "sending"
    BY <1>1, <2>1 DEF Handler
  <2>4. b[1] \in Nat /\ Len(b) \in Nat
    BY <2>1, <2>2
  <2>6. h \in Handler <=> Tail(b) \in Seq(Nat)
    BY <1>1, <2>4 DEF Handler, Phases
  <2> HIDE DEF b, h
  <2>5. UpTo(p, b[1] - 1)
    <3>1. p \in Seq(Nat)
      BY <1>1
    <3>2. \A i \in 1..Len(p) : p[i] <= Read(g)
      BY <2>2 DEF UpTo
    <3> HIDE DEF p
    <3>3. \A i \in 1..Len(p) : p[i] <= b[1] - 1
      BY <2>2, <2>4, <3>1, <3>2
    <3>. QED
      BY <3>3 DEF UpTo
  <2>7. /\ q \in Seq(Nat) /\ Tail(b) \in Seq(Nat)
        /\ Ascending(q) /\ UpTo(q, stream.last) /\ UpTo(q, b[1])
        /\ Consecutive(Tail(b)) /\ UpTo(Tail(b), stream.last)
        /\ Tail(b) # <<>> => Tail(b)[1] = b[1] + 1
        /\ Len(b) # 1 => Tail(b) # <<>>
    BY <1>1, <2>1, <2>2, <2>5, SendKeepsOrder
  <2>8. Read(h) = b[1]
    BY <1>1, <2>3, <2>4 DEF Read
  <2>9. h.phase = "sending" => Tail(b) # <<>>
    BY <2>3, <2>7
  <2>10. b[1] \in {q[i] : i \in 1..Len(q)}
    <3>1. Len(q) \in Nat /\ Len(q) >= 1 /\ q[Len(q)] = b[1]
      BY <1>1, <2>4
    <3>. QED
      BY <3>1
  <2> HIDE DEF q
  <2>11. Line(h, q, stream)
    <3>1. h.phase = "sending" =>
             /\ UpTo(q, Read(h)) /\ Read(h) < Tail(b)[1]
             /\ \A k \in (Read(h) + 1)..(Tail(b)[1] - 1) : k < stream.first
      <4> DEFINE n == b[1]
                 t == Tail(b)[1]
      <4>1. n \in Nat /\ Read(h) = n /\ UpTo(q, n)
        BY <2>4, <2>7, <2>8
      <4>2. h.phase = "sending" => t = n + 1
        BY <2>7, <2>9
      <4> HIDE DEF n, t
      <4>3. h.phase = "sending" => n < t /\ \A k \in (n + 1)..(t - 1) : k < stream.first
        BY <4>1, <4>2
      <4>. QED
        BY <4>1, <4>3 DEF t
    <3>2. h.phase \in {"asking", "sending"}
      BY <2>3
    <3>. QED
      BY <2>3, <2>7, <2>9, <3>1, <3>2 DEF Line
  <2>12. NoGap(g, h.cursor, q)
    BY <2>2, <2>3, <2>4, <2>10 DEF NoGap
  <2>. QED
    BY <1>2, <2>1, <2>6, <2>7, <2>11, <2>12
<1>. QED
  BY <1>4, <1>5, <1>6, <1>7, <1>8, <1>9, <1>10, <1>11, <1>12 DEF Handles, Serve, Goal

-----------------------------------------------------------------------------
(* The channel. *)

\* The action of NoGapOnceLive.
GapFree ==
    \A s \in Sockets :
        LET h == socket[s]
            c == IF h.cursor = NewOnly THEN h.blockedAt ELSE h.cursor
            d == socket'[s].cursor
        IN  d \in Nat /\ d # h.cursor =>
                \A k \in (c + 1)..d : k < stream.first \/ k \in SentTo(s)'

LEMMA ChannelBegins == Init => ChannelInv
<1> SUFFICES ASSUME Init PROVE ChannelInv
  OBVIOUS
<1>1. <<>> \in Seq(Nat)
  OBVIOUS
<1>2. NewHandler \in Handler
  BY <1>1 DEF NewHandler, Handler, Phases
<1>3. TypeOK
  BY <1>1, <1>2 DEF Init, TypeOK
<1>4. ASSUME NEW s \in Sockets PROVE Line(socket[s], sent[s], stream)
  BY DEF Init, Line, NewHandler, Ascending, Consecutive, UpTo
<1>. QED
  BY <1>3, <1>4 DEF ChannelInv

\* A publisher, Redis and the officer move no handler.
LEMMA SurroundingsStep ==
    ASSUME ChannelInv,
           \/ \E a \in Alerts : Raise(a) \/ Publish(a)
           \/ RedisStops \/ RedisReturns \/ Deactivate
    PROVE  ChannelInv' /\ UNCHANGED <<socket, sent>>
<1>1. UNCHANGED <<socket, sent>>
  BY DEF Raise, Publish, Add, AddFails, File, FileFails, RedisStops, RedisReturns, Deactivate
<1>2. /\ stream' \in Stream /\ stream.first <= stream'.first /\ stream.last <= stream'.last
      /\ TypeOK'
  <2> USE DEF ChannelInv, TypeOK, Stream
  <2>0. UNCHANGED stream =>
           stream' \in Stream /\ stream.first <= stream'.first /\ stream.last <= stream'.last
    OBVIOUS
  <2>1. CASE \E a \in Alerts : Add(a)
    <3>1. PICK a \in Alerts, f \in stream.first..(stream.last + 1) :
             /\ stream' = [first |-> f, last |-> stream.last + 1]
             /\ alert' = [alert EXCEPT ![a] = "added"]
             /\ UNCHANGED <<redisUp, officer, socket, sent>>
      BY <2>1 DEF Add
    <3>. QED
      BY <3>1
  <2>2. CASE \E a \in Alerts : Raise(a) \/ AddFails(a) \/ File(a) \/ FileFails(a)
    <3>1. PICK a \in Alerts, status \in {"raised", "added", "filed", "lost"} :
             /\ alert' = [alert EXCEPT ![a] = status]
             /\ UNCHANGED <<redisUp, officer, stream, socket, sent>>
      BY <2>2 DEF Raise, AddFails, File, FileFails
    <3>2. TypeOK'
      BY <3>1
    <3>. QED
      BY <2>0, <3>1, <3>2
  <2>3. CASE RedisStops \/ RedisReturns \/ Deactivate
    <3>1. TypeOK' /\ UNCHANGED stream
      BY <2>3 DEF RedisStops, RedisReturns, Deactivate
    <3>. QED
      BY <2>0, <3>1
  <2>. QED
    BY <2>1, <2>2, <2>3 DEF Publish
<1>3. ASSUME NEW s \in Sockets PROVE Line(socket[s], sent[s], stream')
  BY <1>2, LineOutlivesTrim DEF ChannelInv, TypeOK, Stream
<1>. QED
  BY <1>1, <1>2, <1>3 DEF ChannelInv

LEMMA HandlersStep ==
    ASSUME ChannelInv, NEW s \in Sockets, Handles(s)
    PROVE  ChannelInv' /\ GapFree
<1>1. PICK h \in Handler, q \in Seq(Nat) :
         Becomes(s, h, q) /\ Line(h, q, stream) /\ NoGap(socket[s], h.cursor, q)
  BY HandlerStep DEF ChannelInv
<1>2. /\ socket' = [socket EXCEPT ![s] = h] /\ sent' = [sent EXCEPT ![s] = q]
      /\ UNCHANGED <<redisUp, officer, alert, stream>> /\ TypeOK
  BY <1>1 DEF Becomes, ChannelInv
<1>3. TypeOK'
  BY <1>2 DEF TypeOK
<1>4. ASSUME NEW t \in Sockets PROVE Line(socket'[t], sent'[t], stream)
  BY <1>1, <1>2 DEF ChannelInv, TypeOK
<1>5. GapFree
  BY <1>1, <1>2 DEF GapFree, NoGap, Read, SentTo, TypeOK
<1>. QED
  BY <1>2, <1>3, <1>4, <1>5 DEF ChannelInv

LEMMA ChannelStep == ChannelInv /\ [Next]_vars => ChannelInv' /\ [GapFree]_<<socket, sent>>
<1> SUFFICES ASSUME ChannelInv, [Next]_vars
             PROVE  ChannelInv' /\ [GapFree]_<<socket, sent>>
  OBVIOUS
<1>1. CASE UNCHANGED vars
  BY <1>1 DEF vars, ChannelInv, TypeOK
<1>2. CASE \/ \E a \in Alerts : Raise(a) \/ Publish(a)
           \/ RedisStops \/ RedisReturns \/ Deactivate
  BY <1>2, SurroundingsStep
<1>3. CASE \E s \in Sockets : Handles(s)
  BY <1>3, HandlersStep
<1>. QED
  BY <1>1, <1>2, <1>3 DEF Next, Handles

LEMMA ChannelInvariant == Init /\ [][Next]_vars => [](ChannelInv /\ SentInOrder)
<1>1. ChannelInv => SentInOrder
  BY DEF ChannelInv, Line, Ascending, SentInOrder
<1>. QED
  BY <1>1, ChannelBegins, ChannelStep, PTL

-----------------------------------------------------------------------------
(* The channel with its pages. *)

\* A page never steps for the server: under any pages the channel is the channel.
LEMMA FeedIsChannel ==
    /\ FeedInit => Init
    /\ [FeedNext]_feedVars => [Next]_vars
  BY DEF FeedInit, FeedNext, ServerStep, feedVars, Mount, Opened, Closed, Leave, Receive, Poll,
         Asks, PollArrives, PollFails, PageStep

\* alerts.py, ws.py: stream, sockets, officers and Redis keep their shape (TypeOK).
THEOREM ChannelTypeCorrect == FeedSpec => []TypeOK
<1>1. ChannelInv => TypeOK
  BY DEF ChannelInv
<1>. QED
  BY <1>1, FeedIsChannel, ChannelInvariant, PTL DEF FeedSpec

\* ws.py, the replay and the read loop: no socket is ever sent an alert twice or
\* out of order, through replay, live reads, trims and outages.
THEOREM SentAlwaysInOrder == FeedSpec => []SentInOrder
  BY FeedIsChannel, ChannelInvariant, PTL DEF FeedSpec

\* ws.py, the cursor of the read loop: it never passes an alert that was neither
\* sent nor trimmed.
THEOREM NeverAGapOnceLive == FeedSpec => NoGapOnceLive
<1>1. [][GapFree]_<<socket, sent>> => NoGapOnceLive
  BY PTL DEF NoGapOnceLive, GapFree
<1>. QED
  BY <1>1, FeedIsChannel, ChannelStep, ChannelInvariant, PTL DEF FeedSpec

-----------------------------------------------------------------------------
(* The pages.  A set closed under successor holds every natural number. *)

LEMMA NatInduct ==
    ASSUME NEW T, 0 \in T, \A n \in Nat : n \in T => n + 1 \in T
    PROVE  Nat \subseteq T
<1> DEFINE less == {ss \in Nat \X Nat : ss[1] < ss[2]}
<1>1. IsWellFoundedOn(less, Nat)
  BY NatLessThanWellFounded, Zenon DEF OpToRel
<1>2. \A x, y \in Nat : <<y, x>> \in less <=> y < x
  OBVIOUS
<1> HIDE DEF less
<1>3. ASSUME Nat \ T # {} PROVE FALSE
  <2>1. PICK x \in Nat \ T : \A y \in Nat \ T : ~ (<<y, x>> \in less)
    BY <1>1, <1>3, WFMin
  <2>2. x # 0 /\ x - 1 \in Nat /\ x - 1 < x /\ (x - 1) + 1 = x
    BY <2>1
  <2>3. x - 1 \in T
    BY <1>2, <2>1, <2>2
  <2>. QED
    BY <2>1, <2>2, <2>3
<1>. QED
  BY <1>3

\* The function AddAll builds exists, by induction on its domain.
LEMMA AddAllUnfolds ==
    ASSUME NEW p, NEW ids
    PROVE  \A m \in Nat : \E f : f = [n \in 0..m |-> IF n = 0 THEN p ELSE Add1(f[n - 1], ids[n])]
<1> DEFINE T == {m \in Nat : \E f : f = [n \in 0..m |-> IF n = 0 THEN p ELSE Add1(f[n - 1], ids[n])]}
<1>1. 0 \in T
  <2> DEFINE f == [n \in 0..0 |-> p]
  <2>1. f = [n \in 0..0 |-> IF n = 0 THEN p ELSE Add1(f[n - 1], ids[n])]
    OBVIOUS
  <2>. QED
    BY <2>1
<1>2. ASSUME NEW m \in Nat, m \in T PROVE m + 1 \in T
  <2>1. PICK g : g = [n \in 0..m |-> IF n = 0 THEN p ELSE Add1(g[n - 1], ids[n])]
    BY <1>2
  <2> DEFINE f == [n \in 0..(m + 1) |-> IF n = m + 1 THEN Add1(g[m], ids[m + 1]) ELSE g[n]]
  <2>2. ASSUME NEW n \in 0..(m + 1)
        PROVE  f[n] = IF n = 0 THEN p ELSE Add1(f[n - 1], ids[n])
    <3>1. CASE n = m + 1
      <4>1. f[n - 1] = g[m] /\ n # 0
        BY <3>1
      <4>. QED
        BY <3>1, <4>1
    <3>2. CASE n \in 0..m
      <4>1. f[n] = g[n] /\ (n # 0 => f[n - 1] = g[n - 1])
        BY <3>2
      <4>2. g[n] = IF n = 0 THEN p ELSE Add1(g[n - 1], ids[n])
        BY <2>1, <3>2
      <4>. QED
        BY <4>1, <4>2
    <3>. QED
      BY <3>1, <3>2
  <2>3. f = [n \in 0..(m + 1) |-> IF n = 0 THEN p ELSE Add1(f[n - 1], ids[n])]
    <3>1. f = [n \in 0..(m + 1) |-> f[n]]
      OBVIOUS
    <3> HIDE DEF f
    <3>. QED
      BY <2>2, <3>1
  <2> HIDE DEF f
  <2>. QED
    BY <2>3
<1> HIDE DEF T
<1>3. Nat \subseteq T
  BY <1>1, <1>2, NatInduct
<1>. QED
  BY <1>3 DEF T

\* AddAll applies add() to one id after the other.
LEMMA AddAllIs ==
    ASSUME NEW p, NEW ids, Len(ids) \in Nat
    PROVE  \E f : /\ f = [n \in 0..Len(ids) |-> IF n = 0 THEN p ELSE Add1(f[n - 1], ids[n])]
                  /\ AddAll(p, ids) = f[Len(ids)]
<1> DEFINE f == CHOOSE g : g = [n \in 0..Len(ids) |-> IF n = 0 THEN p ELSE Add1(g[n - 1], ids[n])]
<1>1. f = [n \in 0..Len(ids) |-> IF n = 0 THEN p ELSE Add1(f[n - 1], ids[n])]
  BY AddAllUnfolds
<1>2. AddAll(p, ids) = f[Len(ids)]
  BY DEF AddAll
<1> HIDE DEF f
<1>. QED
  BY <1>1, <1>2

\* A page whose screen shows what was seen, each alert once, and no more than Limit.
Tidy(p) ==
    /\ p.seen \subseteq Nat /\ p.screen \in Seq(p.seen) /\ Len(p.screen) <= Limit
    /\ \A i, j \in 1..Len(p.screen) : i # j => p.screen[i] # p.screen[j]

\* What add() leaves alone.
Alike(p, q) == q.ready = p.ready /\ q.got = p.got /\ q.polls = p.polls

LEMMA Add1KeepsTidy ==
    ASSUME NEW p \in Page, Tidy(p), NEW id \in Nat
    PROVE  Add1(p, id) \in Page /\ Tidy(Add1(p, id)) /\ Alike(p, Add1(p, id))
<1>1. CASE id \in p.seen
  BY <1>1 DEF Add1, Alike
<1>2. CASE id \notin p.seen
  <2> DEFINE old  == p.screen
             long == <<id>> \o old
             k    == IF Len(long) < Limit THEN Len(long) ELSE Limit
             new  == SubSeq(long, 1, k)
             seen == p.seen \cup {id}
  <2>1. old \in Seq(p.seen) /\ old \in Seq(seen) /\ Len(old) \in Nat /\ seen \subseteq Nat
    BY DEF Tidy
  <2>2. /\ long \in Seq(seen) /\ Len(long) = Len(old) + 1 /\ long[1] = id
        /\ \A i \in 1..Len(old) : long[i + 1] = old[i]
    BY <2>1
  <2>3. k \in 1..Len(long) /\ k <= Limit
    BY <2>1, <2>2, LimitAssumption
  <2> HIDE DEF k, long
  <2>4. new \in Seq(seen) /\ Len(new) = k /\ \A i \in 1..k : new[i] = long[i]
    BY <2>2, <2>3
  <2>5. \A i \in 1..Len(long) : \/ i = 1 /\ long[i] = id
                                \/ i - 1 \in 1..Len(old) /\ long[i] = old[i - 1]
    <3> TAKE i \in 1..Len(long)
    <3>1. i = 1 \/ i - 1 \in 1..Len(old)
      BY <2>1, <2>2
    <3>2. i - 1 \in 1..Len(old) => long[(i - 1) + 1] = old[i - 1]
      BY <2>2
    <3>. QED
      BY <2>2, <3>1, <3>2
  <2>6. \A i \in 1..Len(old) : old[i] # id
    BY <1>2, <2>1
  <2>7. ASSUME NEW i \in 1..k, NEW j \in 1..k, i # j
        PROVE  new[i] # new[j]
    <3>1. i \in 1..Len(long) /\ j \in 1..Len(long) /\ new[i] = long[i] /\ new[j] = long[j]
      BY <2>2, <2>3, <2>4
    <3>a. i - 1 # j - 1
      BY <2>3, <2>7
    <3>2. i - 1 \in 1..Len(old) /\ j - 1 \in 1..Len(old) => old[i - 1] # old[j - 1]
      BY <3>a DEF Tidy
    <3>. QED
      BY <2>5, <2>6, <2>7, <3>1, <3>2
  <2> HIDE DEF new
  <2>8. Add1(p, id) = [p EXCEPT !.seen = seen, !.screen = new]
    BY <1>2 DEF Add1, Top, new, k, long
  <2>9. new \in Seq(Nat) /\ seen \in SUBSET Nat
    BY <2>1, <2>4
  <2> HIDE DEF seen
  <2>. QED
    BY <2>1, <2>3, <2>4, <2>7, <2>8, <2>9 DEF Page, Tidy, Alike
<1>. QED
  BY <1>1, <1>2

LEMMA AddAllKeepsTidy ==
    ASSUME NEW p \in Page, Tidy(p), NEW ids \in Seq(Nat)
    PROVE  AddAll(p, ids) \in Page /\ Tidy(AddAll(p, ids)) /\ Alike(p, AddAll(p, ids))
<1>0. Len(ids) \in Nat
  OBVIOUS
<1>1. PICK f : /\ f = [n \in 0..Len(ids) |-> IF n = 0 THEN p ELSE Add1(f[n - 1], ids[n])]
               /\ AddAll(p, ids) = f[Len(ids)]
  BY <1>0, AddAllIs
<1> DEFINE T == {n \in Nat : n <= Len(ids) => f[n] \in Page /\ Tidy(f[n]) /\ Alike(p, f[n])}
<1>2. 0 \in T
  <2>1. f[0] = p
    BY <1>1
  <2>. QED
    BY <2>1 DEF Alike
<1>3. ASSUME NEW n \in Nat, n \in T PROVE n + 1 \in T
  <2>1. CASE n + 1 <= Len(ids)
    <3>1. f[n + 1] = Add1(f[n], ids[n + 1]) /\ ids[n + 1] \in Nat
      <4>1. n + 1 \in 1..Len(ids) /\ (n + 1) - 1 = n
        BY <2>1
      <4>. QED
        BY <1>1, <4>1
    <3>2. f[n] \in Page /\ Tidy(f[n]) /\ Alike(p, f[n])
      BY <1>3, <2>1
    <3>3. /\ Add1(f[n], ids[n + 1]) \in Page /\ Tidy(Add1(f[n], ids[n + 1]))
          /\ Alike(f[n], Add1(f[n], ids[n + 1]))
      BY <3>1, <3>2, Add1KeepsTidy
    <3>4. f[n + 1] \in Page /\ Tidy(f[n + 1]) /\ Alike(p, f[n + 1])
      BY <3>1, <3>2, <3>3 DEF Alike
    <3>. QED
      BY <3>4
  <2>2. CASE ~ (n + 1 <= Len(ids))
    BY <2>2
  <2>. QED
    BY <2>1, <2>2
<1> HIDE DEF T
<1>4. Len(ids) \in T
  BY <1>2, <1>3, NatInduct
<1>. QED
  BY <1>1, <1>4 DEF T

-----------------------------------------------------------------------------
(* The pages next to the channel. *)

FeedInv ==
    /\ ChannelInv
    /\ page \in [Sockets -> Page]
    /\ \A s \in Sockets : Tidy(page[s])

LEMMA NewPageIsTidy == NewPage \in Page /\ Tidy(NewPage)
<1>1. <<>> \in Seq(Nat) /\ <<>> \in Seq({}) /\ Len(<<>>) = 0
  OBVIOUS
<1>2. NewPage \in Page
  BY <1>1 DEF NewPage, Page
<1>3. NewPage.seen = {} /\ NewPage.screen = <<>>
  BY DEF NewPage
<1>4. 0 <= Limit
  BY LimitAssumption
<1>5. Tidy(NewPage)
  BY <1>1, <1>3, <1>4 DEF Tidy
<1>. QED
  BY <1>2, <1>5

LEMMA FeedBegins == FeedInit => FeedInv
  BY NewPageIsTidy, ChannelBegins DEF FeedInit, FeedInv

\* A poll is answered with ids.
LEMMA NewestShape ==
    ASSUME stream \in Stream, NEW n \in Nat
    PROVE  Newest(n) \in Seq(Nat)
<1> DEFINE r == Recent(n)
<1>1. r \in Seq(Nat) /\ Len(r) \in Nat
  BY RecentShape
<1> HIDE DEF r
<1>2. \A i \in 1..Len(r) : r[Len(r) + 1 - i] \in Nat
  BY <1>1
<1>3. [i \in 1..Len(r) |-> r[Len(r) + 1 - i]] \in Seq(Nat)
  BY <1>1, <1>2
<1>. QED
  BY <1>3 DEF Newest, r

LEMMA PageKept ==
    ASSUME FeedInv, NEW s \in Sockets, NEW p \in Page, Tidy(p), PageStep(s, p)
    PROVE  FeedInv'
<1>1. page' = [page EXCEPT ![s] = p] /\ UNCHANGED vars
  BY DEF PageStep
<1>2. ChannelInv'
  BY <1>1, ChannelStep DEF FeedInv
<1>3. page' \in [Sockets -> Page] /\ \A t \in Sockets : Tidy(page'[t])
  BY <1>1 DEF FeedInv
<1>. QED
  BY <1>2, <1>3 DEF FeedInv, Tidy

LEMMA PagesStep ==
    ASSUME FeedInv, NEW s \in Sockets,
           \/ Mount(s) \/ Opened(s) \/ Closed(s) \/ Leave(s)
           \/ Receive(s) \/ Poll(s) \/ PollArrives(s) \/ PollFails(s)
    PROVE  FeedInv'
<1> DEFINE p == page[s]
<1>1. p \in Page /\ Tidy(p) /\ stream \in Stream /\ sent[s] \in Seq(Nat)
  BY DEF FeedInv, ChannelInv, TypeOK, Stream
<1>2. CASE Mount(s) \/ Opened(s) \/ Closed(s)
  <2>1. PICK r \in {"connecting", "open", "closed"} : PageStep(s, [p EXCEPT !.ready = r])
    BY <1>2 DEF Mount, Opened, Closed
  <2>2. [p EXCEPT !.ready = r] \in Page /\ Tidy([p EXCEPT !.ready = r])
    BY <1>1 DEF Page, Tidy
  <2>. QED
    BY <2>1, <2>2, PageKept
<1>3. CASE Leave(s)
  <2>1. PageStep(s, [NewPage EXCEPT !.ready = "gone"])
    BY <1>3 DEF Leave
  <2>2. [NewPage EXCEPT !.ready = "gone"] \in Page /\ Tidy([NewPage EXCEPT !.ready = "gone"])
    BY NewPageIsTidy DEF Page, Tidy
  <2>. QED
    BY <2>1, <2>2, PageKept
<1>4. CASE Receive(s)
  <2> DEFINE q == Add1(p, sent[s][p.got + 1])
             n == [q EXCEPT !.got = p.got + 1]
  <2>1. PageStep(s, n) /\ p.got < Len(sent[s])
    BY <1>4 DEF Receive
  <2>2. sent[s][p.got + 1] \in Nat
    <3>1. p.got \in Nat
      BY <1>1 DEF Page
    <3>. QED
      BY <1>1, <2>1, <3>1
  <2>3. q \in Page /\ Tidy(q)
    BY <1>1, <2>2, Add1KeepsTidy
  <2>4. p.got + 1 \in Nat
    BY <1>1 DEF Page
  <2> HIDE DEF q
  <2>5. n \in Page /\ Tidy(n)
    BY <2>3, <2>4 DEF Page, Tidy
  <2>. QED
    BY <2>1, <2>5, PageKept
<1>5. CASE Poll(s)
  <2> DEFINE ids == p.polls \cup ({Newest(Limit)} \ {<<>>})
             n   == [p EXCEPT !.polls = ids]
  <2>1. PageStep(s, n)
    BY <1>5 DEF Poll, Asks
  <2>2. ids \subseteq Seq(Nat)
    BY <1>1, NewestShape, LimitAssumption DEF Page
  <2> HIDE DEF ids
  <2>3. n \in Page /\ Tidy(n)
    BY <1>1, <2>2 DEF Page, Tidy
  <2>. QED
    BY <2>1, <2>3, PageKept
<1>6. CASE PollArrives(s)
  <2>1. PICK ids \in p.polls : PageStep(s, [AddAll(p, ids) EXCEPT !.polls = p.polls \ {ids}])
    <3>1. PICK ids \in p.polls : PageStep(s, [AddAll(p, ids) EXCEPT !.polls = @ \ {ids}])
      BY <1>6 DEF PollArrives
    <3>2. ids \in Seq(Nat)
      BY <1>1 DEF Page
    <3>3. AddAll(p, ids).polls = p.polls
      BY <1>1, <3>2, AddAllKeepsTidy DEF Alike
    <3>. QED
      BY <3>1, <3>3
  <2>2. ids \in Seq(Nat)
    BY <1>1 DEF Page
  <2> DEFINE q == AddAll(p, ids)
             left == p.polls \ {ids}
             n == [q EXCEPT !.polls = left]
  <2>3. q \in Page /\ Tidy(q) /\ left \subseteq Seq(Nat)
    BY <1>1, <2>2, AddAllKeepsTidy DEF Page
  <2>4. PageStep(s, n)
    BY <2>1
  <2> HIDE DEF q, left
  <2>5. n \in Page /\ Tidy(n)
    BY <2>3 DEF Page, Tidy
  <2>. QED
    BY <2>4, <2>5, PageKept
<1>7. CASE PollFails(s)
  <2>1. PICK left \in SUBSET Seq(Nat) : PageStep(s, [p EXCEPT !.polls = left])
    <3>1. PICK ids \in p.polls : PageStep(s, [p EXCEPT !.polls = p.polls \ {ids}])
      BY <1>7 DEF PollFails
    <3>2. p.polls \ {ids} \subseteq Seq(Nat)
      BY <1>1 DEF Page
    <3>. QED
      BY <3>1, <3>2
  <2>2. [p EXCEPT !.polls = left] \in Page /\ Tidy([p EXCEPT !.polls = left])
    BY <1>1 DEF Page, Tidy
  <2>. QED
    BY <2>1, <2>2, PageKept
<1>. QED
  BY <1>2, <1>3, <1>4, <1>5, <1>6, <1>7

LEMMA FeedStep == FeedInv /\ [FeedNext]_feedVars => FeedInv'
<1> SUFFICES ASSUME FeedInv, [FeedNext]_feedVars
             PROVE  FeedInv'
  OBVIOUS
<1>1. CASE ServerStep \/ UNCHANGED feedVars
  <2>1. [Next]_vars /\ UNCHANGED page
    BY <1>1 DEF ServerStep, feedVars
  <2>. QED
    BY <2>1, ChannelStep DEF FeedInv, Tidy
<1>2. CASE \E s \in Sockets :
              \/ Mount(s) \/ Opened(s) \/ Closed(s) \/ Leave(s)
              \/ Receive(s) \/ Poll(s) \/ PollArrives(s) \/ PollFails(s)
  BY <1>2, PagesStep
<1>. QED
  BY <1>1, <1>2 DEF FeedNext

LEMMA FeedInvariant == FeedSpec => []FeedInv
  BY FeedBegins, FeedStep, PTL DEF FeedSpec

\* useAlerts.js: seenRef, the list, the answers under way and the socket's frames
\* keep their shape, and the list stays within Limit (FeedTypeOK).
THEOREM FeedTypeCorrect == FeedSpec => []FeedTypeOK
<1>1. FeedInv => FeedTypeOK
  BY DEF FeedInv, ChannelInv, FeedTypeOK, Tidy
<1>. QED
  BY <1>1, FeedInvariant, PTL

\* useAlerts.js, add(): the page never shows an alert twice, in whatever order
\* the replay, the live frames and late poll answers of any length arrive.
THEOREM NeverShownTwice == FeedSpec => []ShownOnce
<1>1. FeedInv => ShownOnce
  BY DEF FeedInv, ShownOnce, Tidy
<1>. QED
  BY <1>1, FeedInvariant, PTL
=============================================================================
