----------------------------- MODULE IntakeProofs -----------------------------
(***************************************************************************)
(* Proofs about Intake, for any number of complaints, wallets and workers. *)
(***************************************************************************)
EXTENDS Intake, FiniteSetTheorems, TLAPS

\* A call in flight files a complaint.
CallInv == \A w \in Workers : call[w].phase # "idle" => call[w].complaint \in Complaints

\* A number read is one that was free when it was read; an open case holds the
\* only number that is free.
NumbersInv ==
    \A w \in Workers :
        /\ call[w].phase = "opening" => call[w].number \in 1..(Len(cases) + 1)
        /\ Open(w) => call[w].number = Len(cases) + 1

\* Of the transactions that hold a case number there is one at most.
OneTransaction == \A v, w \in Workers : Open(v) /\ Open(w) => v = w

\* The inductive invariant.
Inv == TypeOK /\ CallInv /\ SequentialNumbers /\ NumbersInv /\ OneTransaction

-----------------------------------------------------------------------------
\* The count of a wallet's cases is a number.
LEMMA CaseCountType ==
    ASSUME NEW a, cases \in Seq(Case)
    PROVE  CaseCount(a) \in Nat
<1>1. IsFiniteSet(1..Len(cases))  BY FS_Interval
<1>2. IsFiniteSet({i \in 1..Len(cases) : Suspect[cases[i].complaint] = a})
  BY <1>1, FS_Subset
<1>3. QED  BY <1>2, FS_CardinalityType DEF CaseCount

\* An idle call is a call.
LEMMA IdleType == Idle \in Call
  BY DEF Idle, Call, Phases, TracePhases

\* A call of the trace goes to another phase of the trace or to its end, and
\* keeps its complaint and its number.
Traces(w) ==
    /\ call[w].phase \in TracePhases
    /\ \E c \in Call :
          /\ c.phase \in TracePhases \cup {"traced", "failed"}
          /\ c.complaint = call[w].complaint
          /\ c.number = call[w].number
          /\ c.lost = call[w].lost
          /\ Become(w, c)
    /\ UNCHANGED <<complaint, wallets, cases, calls>>

TraceStep(w) ==
    \/ Expand(w) \/ ExpandFails(w) \/ WriteTransactions(w) \/ LinkCase(w)
    \/ CheckMixer(w) \/ RunClustering(w) \/ GraphFails(w)

\* What the graph steps do to everything but the graph.
LEMMA TraceSteps ==
    ASSUME NEW w \in Workers, TypeOK, TraceStep(w)
    PROVE  Traces(w)
<1>1. call[w] \in Call  BY DEF TypeOK
<1> DEFINE ends == TracePhases \cup {"traced", "failed"}
<1>2. ASSUME NEW c \in Call, c.phase \in ends, c.complaint = call[w].complaint,
             c.number = call[w].number, c.lost = call[w].lost, Become(w, c), call[w].phase \in TracePhases,
             UNCHANGED <<complaint, wallets, cases, calls>>
      PROVE  Traces(w)
  BY <1>2 DEF Traces
<1>3. ASSUME NEW next \in ends
      PROVE  /\ [call[w] EXCEPT !.phase = next] \in Call
             /\ [call[w] EXCEPT !.phase = next].phase = next
             /\ [call[w] EXCEPT !.phase = next].complaint = call[w].complaint
             /\ [call[w] EXCEPT !.phase = next].number = call[w].number
             /\ [call[w] EXCEPT !.phase = next].lost = call[w].lost
  BY <1>1, <1>3 DEF Call, Phases, TracePhases
<1>4. ASSUME NEW next \in ends, Become(w, [call[w] EXCEPT !.phase = next]),
             call[w].phase \in TracePhases, UNCHANGED <<complaint, wallets, cases, calls>>
      PROVE  Traces(w)
  <2>1. PICK c \in Call : c = [call[w] EXCEPT !.phase = next]  BY <1>3
  <2>2. QED  BY <1>2, <1>3, <1>4, <2>1
<1>5. CASE Expand(w)
  BY <1>4, <1>5 DEF Expand, TracePhases, graph
<1>6. CASE ExpandFails(w)
  <2>1. PICK c \in Call : c = [call[w] EXCEPT !.phase = "failed", !.bound = FALSE]
    BY <1>1 DEF Call, Phases
  <2>2. /\ c.phase = "failed" /\ c.complaint = call[w].complaint
        /\ c.number = call[w].number /\ c.lost = call[w].lost
    BY <1>1, <2>1 DEF Call
  <2>3. QED  BY <1>2, <1>6, <2>1, <2>2 DEF ExpandFails, TracePhases, graph
<1>7. CASE WriteTransactions(w)
  BY <1>4, <1>7 DEF WriteTransactions, TracePhases
<1>8. CASE LinkCase(w)
  BY <1>4, <1>8 DEF LinkCase, TracePhases
<1>9. CASE CheckMixer(w)
  BY <1>4, <1>9 DEF CheckMixer, TracePhases, graph
<1>10. CASE RunClustering(w)
  BY <1>4, <1>10 DEF RunClustering, TracePhases, graph
<1>11. CASE GraphFails(w)
  BY <1>4, <1>11 DEF GraphFails, TracePhases, graph
<1>12. QED  BY <1>5, <1>6, <1>7, <1>8, <1>9, <1>10, <1>11 DEF TraceStep

-----------------------------------------------------------------------------
\* Changing one call to a call that files a complaint.
LEMMA CallsStayTyped ==
    ASSUME TypeOK, CallInv, NEW w \in Workers, NEW c \in Call, Become(w, c),
           c.phase # "idle" => c.complaint \in Complaints
    PROVE  call' \in [Workers -> Call] /\ CallInv'
BY DEF TypeOK, CallInv, Become

\* A step that commits no case and leaves its own call neither open nor about
\* to open keeps the numbers as they are.
LEMMA ClosedSteps ==
    ASSUME Inv, NEW w \in Workers, NEW c \in Call, Become(w, c), cases' = cases,
           c.phase \notin TracePhases \cup {"traced", "failed", "opening"}
    PROVE  SequentialNumbers' /\ NumbersInv' /\ OneTransaction'
<1>1. \A v \in Workers : call'[v] = IF v = w THEN c ELSE call[v]
  BY DEF Inv, TypeOK, Become
<1>2. \A v \in Workers : Open(v)' => Open(v) /\ call'[v] = call[v]
  BY <1>1 DEF PastInsert, Open
<1>3. \A v \in Workers : call'[v].phase = "opening" => call'[v] = call[v]
  BY <1>1
<1>4. SequentialNumbers'  BY DEF Inv, SequentialNumbers
<1>5. NumbersInv'  BY <1>2, <1>3 DEF Inv, NumbersInv
<1>6. OneTransaction'  BY <1>2 DEF Inv, OneTransaction
<1>7. QED  BY <1>4, <1>5, <1>6

\* A number read is at most one more than the cases committed.
LEMMA NumberingSteps ==
    ASSUME Inv, NEW w \in Workers, NextCaseNumber(w)
    PROVE  SequentialNumbers' /\ NumbersInv' /\ OneTransaction'
<1>1. Len(cases) \in Nat  BY DEF Inv, TypeOK
<1>2. PICK c \in Call : /\ Become(w, c) /\ c.phase = "opening"
                        /\ c.number = Len(cases) + 1
  <2>1. call[w] \in Call  BY DEF Inv, TypeOK
  <2>2. PICK n \in Nat : n = Len(cases) + 1  BY <1>1
  <2>3. PICK c \in Call : c = [call[w] EXCEPT !.phase = "opening", !.number = n]
    BY <2>1 DEF Call, Phases
  <2>4. c.phase = "opening" /\ c.number = n  BY <2>1, <2>3 DEF Call
  <2>5. QED  BY <2>2, <2>3, <2>4 DEF NextCaseNumber
<1>3. \A v \in Workers : call'[v] = IF v = w THEN c ELSE call[v]
  BY <1>2 DEF Inv, TypeOK, Become
<1>4. cases' = cases  BY DEF NextCaseNumber
<1>5. \A v \in Workers : Open(v)' => Open(v) /\ call'[v] = call[v]
  BY <1>2, <1>3 DEF PastInsert, Open, TracePhases
<1>6. SequentialNumbers'  BY <1>4 DEF Inv, SequentialNumbers
<1>7. NumbersInv'  BY <1>1, <1>2, <1>3, <1>4, <1>5 DEF Inv, NumbersInv
<1>8. OneTransaction'  BY <1>5 DEF Inv, OneTransaction
<1>9. QED  BY <1>6, <1>7, <1>8

\* The unique index lets a case be opened only under the one number that is
\* neither committed nor held, so nobody else has a case open.
LEMMA OpeningSteps ==
    ASSUME Inv, NEW w \in Workers, OpenCase(w)
    PROVE  SequentialNumbers' /\ NumbersInv' /\ OneTransaction'
<1>1. Len(cases) \in Nat  BY DEF Inv, TypeOK
<1>2. call[w].number = Len(cases) + 1
  <2>1. call[w].number \in 1..(Len(cases) + 1)
    BY DEF Inv, NumbersInv, OpenCase
  <2>2. call[w].number \notin 1..Len(cases)
    BY DEF Inv, SequentialNumbers, OpenCase, Numbered
  <2>3. QED  BY <1>1, <2>1, <2>2
<1>3. \A v \in Workers : ~Open(v)
  BY <1>2 DEF Inv, NumbersInv, OpenCase
<1>4. PICK c \in Call : /\ Become(w, c) /\ c.phase = "expanding"
                        /\ c.number = call[w].number
  <2>1. call[w] \in Call  BY DEF Inv, TypeOK
  <2>2. PICK c \in Call : c = [call[w] EXCEPT !.phase = "expanding"]
    BY <2>1 DEF Call, Phases, TracePhases
  <2>3. c.phase = "expanding" /\ c.number = call[w].number  BY <2>1, <2>2 DEF Call
  <2>4. QED  BY <2>2, <2>3 DEF OpenCase
<1>5. \A v \in Workers : call'[v] = IF v = w THEN c ELSE call[v]
  BY <1>4 DEF Inv, TypeOK, Become
<1>6. cases' = cases  BY DEF OpenCase
<1>7. \A v \in Workers : Open(v)' => v = w
  BY <1>3, <1>5 DEF PastInsert, Open
<1>8. SequentialNumbers'  BY <1>6 DEF Inv, SequentialNumbers
<1>9. NumbersInv'  BY <1>2, <1>4, <1>5, <1>6, <1>7 DEF Inv, NumbersInv
<1>10. OneTransaction'  BY <1>7 DEF OneTransaction
<1>11. QED  BY <1>8, <1>9, <1>10

\* A step of the trace keeps its case open under its number.
LEMMA TracingSteps ==
    ASSUME Inv, NEW w \in Workers, Traces(w)
    PROVE  SequentialNumbers' /\ NumbersInv' /\ OneTransaction'
<1>1. PICK c \in Call : /\ c.phase \in TracePhases \cup {"traced", "failed"}
                        /\ c.number = call[w].number
                        /\ c.lost = call[w].lost
                        /\ Become(w, c)
  BY DEF Traces
<1>2. \A v \in Workers : call'[v] = IF v = w THEN c ELSE call[v]
  BY <1>1 DEF Inv, TypeOK, Become
<1>3. cases' = cases /\ PastInsert(w)  BY DEF Traces, PastInsert, Open
<1>4. \A v \in Workers : Open(v)' => Open(v) /\ call'[v].number = call[v].number
  BY <1>1, <1>2, <1>3 DEF PastInsert, Open
<1>5. \A v \in Workers : call'[v].phase = "opening" => call'[v] = call[v]
  BY <1>1, <1>2 DEF TracePhases
<1>6. SequentialNumbers'  BY <1>3 DEF Inv, SequentialNumbers
<1>7. NumbersInv'  BY <1>3, <1>4, <1>5 DEF Inv, NumbersInv
<1>8. OneTransaction'  BY <1>4 DEF Inv, OneTransaction
<1>9. QED  BY <1>6, <1>7, <1>8

\* A commit adds the next number; nobody else has a case open to disagree.
LEMMA CommittingSteps ==
    ASSUME Inv, NEW w \in Workers, CommitCase(w)
    PROVE  SequentialNumbers' /\ NumbersInv' /\ OneTransaction'
<1> DEFINE row == [id |-> call[w].id, number |-> call[w].number,
                   complaint |-> call[w].complaint, status |-> CaseStatus(call[w].phase)]
<1>1. cases \in Seq(Case) /\ cases' = Append(cases, row)  BY DEF Inv, TypeOK, CommitCase
<1>2. Len(cases) \in Nat  BY <1>1
<1>3. Len(cases') = Len(cases) + 1 /\ \A i \in 1..Len(cases) : cases'[i] = cases[i]
  BY <1>1
<1>4. cases'[Len(cases) + 1].number = call[w].number  BY <1>1, <1>2
<1>5. Open(w)  BY DEF CommitCase, PastInsert, Open
<1>6. call[w].number = Len(cases) + 1  BY <1>5 DEF Inv, NumbersInv
<1>7. \A v \in Workers : v # w => ~Open(v)  BY <1>5 DEF Inv, OneTransaction
<1>8. PICK c : Become(w, c) /\ c.phase = "answering"
  <2>1. call[w] \in Call  BY DEF Inv, TypeOK
  <2>2. PICK c : c = [call[w] EXCEPT !.phase = "answering"]  OBVIOUS
  <2>3. c.phase = "answering"  BY <2>1, <2>2 DEF Call
  <2>4. QED  BY <2>2, <2>3 DEF CommitCase
<1>9. \A v \in Workers : call'[v] = IF v = w THEN c ELSE call[v]
  BY <1>8 DEF Inv, TypeOK, Become
<1>10. \A v \in Workers : ~Open(v)'
  BY <1>7, <1>8, <1>9 DEF PastInsert, Open, TracePhases
<1>11. SequentialNumbers'
  BY <1>2, <1>3, <1>4, <1>6 DEF Inv, SequentialNumbers
<1>12. NumbersInv'
  <2>1. \A v \in Workers : call'[v].phase = "opening" => call'[v] = call[v]
    BY <1>8, <1>9
  <2>2. QED  BY <1>2, <1>3, <1>10, <2>1 DEF Inv, NumbersInv
<1>13. OneTransaction'  BY <1>10 DEF OneTransaction
<1>14. QED  BY <1>11, <1>12, <1>13

\* A transaction that is rolled back gives its number back.
LEMMA LosingSteps ==
    ASSUME Inv, NEW w \in Workers, LoseSession(w)
    PROVE  SequentialNumbers' /\ NumbersInv' /\ OneTransaction'
<1>1. PICK c : Become(w, c) /\ c.phase = call[w].phase /\ c.lost
  <2>1. call[w] \in Call  BY DEF Inv, TypeOK
  <2>2. PICK c : c = [call[w] EXCEPT !.lost = TRUE]  OBVIOUS
  <2>3. c.phase = call[w].phase /\ c.lost  BY <2>1, <2>2 DEF Call
  <2>4. QED  BY <2>2, <2>3 DEF LoseSession
<1>2. \A v \in Workers : call'[v] = IF v = w THEN c ELSE call[v]
  BY <1>1 DEF Inv, TypeOK, Become
<1>3. cases' = cases /\ call[w].phase # "opening"
  BY DEF LoseSession, Open, PastInsert, TracePhases
<1>4. \A v \in Workers : Open(v)' => Open(v) /\ call'[v] = call[v]
  BY <1>1, <1>2 DEF Open, PastInsert
<1>5. \A v \in Workers : call'[v].phase = "opening" => call'[v] = call[v]
  BY <1>1, <1>2, <1>3
<1>6. SequentialNumbers'  BY <1>3 DEF Inv, SequentialNumbers
<1>7. NumbersInv'  BY <1>3, <1>4, <1>5 DEF Inv, NumbersInv
<1>8. OneTransaction'  BY <1>4 DEF Inv, OneTransaction
<1>9. QED  BY <1>6, <1>7, <1>8
-----------------------------------------------------------------------------
\* A failing call leaves an idle worker and tells its client.
LEMMA FailingTypes ==
    ASSUME TypeOK, CallInv, NEW w \in Workers, Fails(w)
    PROVE  /\ call' \in [Workers -> Call] /\ CallInv'
           /\ complaint' \in [Complaints -> {"unfiled", "sent", "accepted", "error"}]
<1>1. Idle \in Call /\ Idle.phase = "idle"  BY IdleType DEF Idle
<1>2. PICK c \in Call : c = Idle  BY <1>1
<1>3. Become(w, c)  BY <1>2 DEF Fails
<1>4. call' \in [Workers -> Call] /\ CallInv'  BY <1>1, <1>2, <1>3, CallsStayTyped
<1>5. QED  BY <1>4 DEF Fails, TypeOK

\* A call goes to another phase and nothing else of it changes.
LEMMA PhaseTypes ==
    ASSUME TypeOK, CallInv, NEW w \in Workers, NEW next \in Phases, call[w].phase # "idle",
           Become(w, [call[w] EXCEPT !.phase = next])
    PROVE  call' \in [Workers -> Call] /\ CallInv'
<1>1. call[w] \in Call /\ call[w].complaint \in Complaints  BY DEF TypeOK, CallInv
<1>2. PICK c \in Call : c = [call[w] EXCEPT !.phase = next]  BY <1>1 DEF Call
<1>3. c.complaint \in Complaints  BY <1>1, <1>2 DEF Call
<1>4. QED  BY <1>2, <1>3, CallsStayTyped

\* The steps before the case is opened keep the types.
LEMMA PreparingTypes ==
    ASSUME TypeOK, CallInv, NEW w \in Workers,
           \/ Resolve(w) \/ CreateWallet(w) \/ WalletTaken(w) \/ FindPriorCases(w)
           \/ NextCaseNumber(w) \/ OpenCase(w) \/ NumberTaken(w)
    PROVE  TypeOK' /\ CallInv'
<1>1. call[w] \in Call  BY DEF TypeOK
<1>2. Len(cases) \in Nat /\ cases \in Seq(Case)  BY DEF TypeOK
<1>3. ASSUME NEW c \in Call, Become(w, c), c.complaint = call[w].complaint,
             call[w].phase # "idle", UNCHANGED <<complaint, wallets, cases, graph, calls>>
      PROVE  TypeOK' /\ CallInv'
  <2>1. c.complaint \in Complaints  BY <1>3 DEF CallInv
  <2>2. call' \in [Workers -> Call] /\ CallInv'  BY <1>3, <2>1, CallsStayTyped
  <2>3. QED  BY <1>3, <2>2 DEF TypeOK, graph
<1>4. ASSUME Fails(w), UNCHANGED <<wallets, cases, graph, calls>>
      PROVE  TypeOK' /\ CallInv'
  BY <1>4, FailingTypes DEF TypeOK, graph
<1>5. CASE Resolve(w)
  <2>1. call[w].complaint \in Complaints  BY <1>5 DEF Resolve, CallInv
  <2>2. Address(w) \in Addresses  BY <2>1, SuspectAssumption DEF Address
  <2>3. PICK next \in {"deduping", "creating"}, n \in Nat :
            Become(w, [call[w] EXCEPT !.phase = next, !.count = n])
    BY <1>5, <2>2 DEF Resolve, TypeOK
  <2>4. PICK c \in Call : c = [call[w] EXCEPT !.phase = next, !.count = n]
    BY <1>1 DEF Call, Phases
  <2>5. c.complaint = call[w].complaint  BY <1>1, <2>4 DEF Call
  <2>6. QED  BY <1>3, <1>5, <2>3, <2>4, <2>5 DEF Resolve
<1>6. CASE CreateWallet(w)
  <2>1. PICK c \in Call : c = [call[w] EXCEPT !.phase = "deduping", !.created = TRUE]
    BY <1>1 DEF Call, Phases
  <2>2. c.complaint = call[w].complaint  BY <1>1, <2>1 DEF Call
  <2>3. QED  BY <1>3, <1>6, <2>1, <2>2 DEF CreateWallet
<1>7. CASE FindPriorCases(w)
  <2>1. PICK n \in Nat : n = CaseCount(Address(w))  BY <1>2, CaseCountType
  <2>2. PICK c \in Call : c = [call[w] EXCEPT !.phase = "numbering", !.prior = n]
    BY <1>1 DEF Call, Phases
  <2>3. c.complaint = call[w].complaint  BY <1>1, <2>2 DEF Call
  <2>4. QED  BY <1>3, <1>7, <2>1, <2>2, <2>3 DEF FindPriorCases
<1>8. CASE NextCaseNumber(w)
  <2>1. PICK n \in Nat : n = Len(cases) + 1  BY <1>2
  <2>2. PICK c \in Call : c = [call[w] EXCEPT !.phase = "opening", !.number = n]
    BY <1>1 DEF Call, Phases
  <2>3. c.complaint = call[w].complaint  BY <1>1, <2>2 DEF Call
  <2>4. QED  BY <1>3, <1>8, <2>1, <2>2, <2>3 DEF NextCaseNumber
<1>9. CASE OpenCase(w)
  <2>1. PICK c \in Call : c = [call[w] EXCEPT !.phase = "expanding"]
    BY <1>1 DEF Call, Phases, TracePhases
  <2>2. c.complaint = call[w].complaint  BY <1>1, <2>1 DEF Call
  <2>3. QED  BY <1>3, <1>9, <2>1, <2>2 DEF OpenCase
<1>10. CASE WalletTaken(w)  BY <1>4, <1>10 DEF WalletTaken
<1>11. CASE NumberTaken(w)  BY <1>4, <1>11 DEF NumberTaken
<1>12. QED  BY <1>5, <1>6, <1>7, <1>8, <1>9, <1>10, <1>11

\* The steps of the trace keep the types, of the graph too.
LEMMA TracingTypes ==
    ASSUME TypeOK, CallInv, NEW w \in Workers, TraceStep(w)
    PROVE  TypeOK' /\ CallInv'
<1>1. PICK c \in Call : /\ c.complaint = call[w].complaint /\ Become(w, c)
                        /\ call[w].phase \in TracePhases
                        /\ UNCHANGED <<complaint, wallets, cases, calls>>
  BY TraceSteps DEF Traces
<1>2. call[w].complaint \in Complaints  BY <1>1 DEF CallInv, TracePhases
<1>3. call' \in [Workers -> Call] /\ CallInv'  BY <1>1, <1>2, CallsStayTyped
<1>4. Address(w) \in Addresses  BY <1>2, SuspectAssumption DEF Address
<1>5. traced' \subseteq Addresses /\ caseNodes' \subseteq CaseNode
  <2>1. traced \subseteq Addresses /\ caseNodes \subseteq CaseNode  BY DEF TypeOK
  <2>2. CASE WriteTransactions(w)  BY <1>4, <2>1, <2>2 DEF WriteTransactions
  <2>3. CASE LinkCase(w)
    <3>1. call[w].id \in Nat /\ call[w].number \in Nat  BY DEF TypeOK, Call
    <3>2. PICK a \in Addresses \cup {NULL} :
              a = IF Address(w) \in traced THEN Address(w) ELSE NULL
      BY <1>4
    <3>3. [id |-> call[w].id, number |-> call[w].number, reported |-> a] \in CaseNode
      BY <3>1 DEF CaseNode
    <3>4. QED  BY <2>1, <2>3, <3>2, <3>3 DEF LinkCase
  <2>4. CASE UNCHANGED graph  BY <2>1, <2>4 DEF graph
  <2>5. QED
    BY <2>2, <2>3, <2>4
    DEF TraceStep, Expand, ExpandFails, CheckMixer, RunClustering, GraphFails
<1>6. QED  BY <1>1, <1>3, <1>5 DEF TypeOK

\* The end of a call keeps the types.
LEMMA EndingTypes ==
    ASSUME TypeOK, CallInv, NEW w \in Workers,
           \/ CommitCase(w) \/ CommitFails(w) \/ Answer(w) \/ AnswerFails(w)
           \/ LoseSession(w) \/ Abort(w)
    PROVE  TypeOK' /\ CallInv'
<1>1. call[w] \in Call  BY DEF TypeOK
<1>2. CASE CommitCase(w)
  <2>1. call[w].complaint \in Complaints  BY <1>2 DEF CommitCase, CallInv
  <2>2. Address(w) \in Addresses  BY <2>1, SuspectAssumption DEF Address
  <2>3. call' \in [Workers -> Call] /\ CallInv'
    BY <1>2, PhaseTypes DEF CommitCase, Phases
  <2>4. cases' \in Seq(Case)
    <3>1. PICK st \in {"analysed", "open"} : st = CaseStatus(call[w].phase)
      BY DEF CaseStatus
    <3>2. [id |-> call[w].id, number |-> call[w].number,
           complaint |-> call[w].complaint, status |-> st] \in Case
      BY <1>1, <2>1 DEF Call, Case
    <3>3. cases \in Seq(Case)  BY DEF TypeOK
    <3>4. QED  BY <1>2, <3>1, <3>2, <3>3 DEF CommitCase
  <2>5. wallets' \in [Addresses -> [exists : BOOLEAN, report_count : Nat]]
    <3>1. call[w].prior \in Nat  BY <1>1 DEF Call
    <3>2. PICK n \in Nat : n = IF call[w].prior + 1 = call[w].count
                               THEN wallets[Address(w)].report_count ELSE call[w].prior + 1
      BY <2>2, <3>1 DEF TypeOK
    <3>3. [exists |-> TRUE, report_count |-> n] \in [exists : BOOLEAN, report_count : Nat]
      OBVIOUS
    <3>4. wallets' = [wallets EXCEPT ![Address(w)] = [exists |-> TRUE, report_count |-> n]]
      BY <1>2, <2>2, <3>2 DEF CommitCase, TypeOK
    <3>5. QED  BY <3>3, <3>4 DEF TypeOK
  <2>6. QED  BY <1>2, <2>3, <2>4, <2>5 DEF CommitCase, TypeOK, graph
<1>3. CASE Answer(w)
  <2>1. PICK c \in Call : c = Idle /\ c.phase = "idle"  BY IdleType DEF Idle
  <2>2. call' \in [Workers -> Call] /\ CallInv'  BY <1>3, <2>1, CallsStayTyped DEF Answer
  <2>3. QED  BY <1>3, <2>2 DEF Answer, TypeOK, graph
<1>4. CASE AnswerFails(w)  BY <1>4, FailingTypes DEF AnswerFails, TypeOK, graph
<1>5. CASE Abort(w)  BY <1>5, FailingTypes DEF Abort, TypeOK, graph
<1>6. CASE CommitFails(w)  BY <1>6, FailingTypes DEF CommitFails, TypeOK, graph
<1>7. CASE LoseSession(w)
  <2>1. call[w].complaint \in Complaints  BY <1>7 DEF LoseSession, Open, PastInsert, TracePhases, CallInv
  <2>2. PICK c \in Call : c = [call[w] EXCEPT !.lost = TRUE]  BY <1>1 DEF Call
  <2>3. c.complaint = call[w].complaint  BY <1>1, <2>2 DEF Call
  <2>4. call' \in [Workers -> Call] /\ CallInv'
    BY <1>7, <2>1, <2>2, <2>3, CallsStayTyped DEF LoseSession
  <2>5. QED  BY <1>7, <2>4 DEF LoseSession, TypeOK, graph
<1>8. QED  BY <1>2, <1>3, <1>4, <1>5, <1>6, <1>7

\* A new call keeps the types.
LEMMA StartingTypes ==
    ASSUME TypeOK, CallInv, NEW w \in Workers, NEW c \in Complaints, Start(w, c)
    PROVE  /\ TypeOK' /\ CallInv'
           /\ \E k \in Call : Become(w, k) /\ k.phase = "resolving"
<1>1. calls' \in Nat  BY DEF Start, TypeOK
<1>2. PICK n \in Nat : n = calls'  BY <1>1
<1>3. PICK k \in Call : k = [Idle EXCEPT !.phase = "resolving", !.complaint = c, !.id = n]
  BY DEF Idle, Call, Phases
<1>4. k.phase = "resolving" /\ k.complaint = c  BY <1>3 DEF Idle
<1>5. Become(w, k)  BY <1>2, <1>3 DEF Start
<1>6. call' \in [Workers -> Call] /\ CallInv'  BY <1>4, <1>5, CallsStayTyped
<1>7. QED  BY <1>1, <1>4, <1>5, <1>6 DEF Start, TypeOK, graph
-----------------------------------------------------------------------------
\* Initially nothing is committed and nobody calls.
LEMMA InitInv == Init => Inv
<1> SUFFICES ASSUME Init PROVE Inv  OBVIOUS
<1>1. \A w \in Workers : call[w].phase = "idle"  BY DEF Init, Idle
<1>2. TypeOK
  <2>1. call \in [Workers -> Call]  BY IdleType DEF Init
  <2>2. cases \in Seq(Case)  BY DEF Init
  <2>3. QED  BY <2>1, <2>2 DEF Init, TypeOK
<1>3. CallInv  BY <1>1 DEF CallInv
<1>4. SequentialNumbers  BY DEF Init, SequentialNumbers
<1>5. NumbersInv  BY <1>1 DEF NumbersInv, PastInsert, Open, TracePhases
<1>6. OneTransaction  BY <1>1 DEF OneTransaction, PastInsert, Open, TracePhases
<1>7. QED  BY <1>2, <1>3, <1>4, <1>5, <1>6 DEF Inv

\* A step that ends with its call in a phase outside the open ones, written as
\* the call it becomes.
LEMMA OtherSteps ==
    ASSUME Inv, NEW w \in Workers,
           \/ \E c \in Complaints : Start(w, c)
           \/ Resolve(w) \/ CreateWallet(w) \/ WalletTaken(w) \/ FindPriorCases(w)
           \/ NumberTaken(w) \/ CommitFails(w) \/ Answer(w) \/ AnswerFails(w) \/ Abort(w)
    PROVE  SequentialNumbers' /\ NumbersInv' /\ OneTransaction'
<1> DEFINE closed == {"idle", "resolving", "creating", "deduping", "numbering"}
<1>1. TypeOK /\ CallInv  BY DEF Inv
<1>2. call[w] \in Call  BY <1>1 DEF TypeOK
<1>3. PICK k \in Call : Idle = k /\ k.phase = "idle"  BY IdleType DEF Idle
<1>4. ASSUME NEW after \in Call, Become(w, after), cases' = cases, after.phase \in closed
      PROVE  SequentialNumbers' /\ NumbersInv' /\ OneTransaction'
  BY <1>4, ClosedSteps DEF TracePhases
<1>5. CASE \E c \in Complaints : Start(w, c)
  <2>1. PICK c \in Complaints : Start(w, c)  BY <1>5
  <2>2. QED  BY <1>1, <1>4, <2>1, StartingTypes DEF Start
<1>6. CASE Resolve(w)
  <2>1. call'[w] \in Call  BY <1>1, <1>6, PreparingTypes DEF TypeOK
  <2>2. PICK after \in Call : after = call'[w]  BY <2>1
  <2>3. Become(w, after) /\ after.phase \in closed
    BY <1>1, <1>2, <1>6, <2>2 DEF Resolve, Become, TypeOK, Call
  <2>4. QED  BY <1>4, <1>6, <2>3 DEF Resolve
<1>7. CASE CreateWallet(w)
  <2>1. call'[w] \in Call  BY <1>1, <1>7, PreparingTypes DEF TypeOK
  <2>2. PICK after \in Call : after = call'[w]  BY <2>1
  <2>3. Become(w, after) /\ after.phase \in closed
    BY <1>1, <1>2, <1>7, <2>2 DEF CreateWallet, Become, TypeOK, Call
  <2>4. QED  BY <1>4, <1>7, <2>3 DEF CreateWallet
<1>8. CASE FindPriorCases(w)
  <2>1. call'[w] \in Call  BY <1>1, <1>8, PreparingTypes DEF TypeOK
  <2>2. PICK after \in Call : after = call'[w]  BY <2>1
  <2>3. Become(w, after) /\ after.phase \in closed
    BY <1>1, <1>2, <1>8, <2>2 DEF FindPriorCases, Become, TypeOK, Call
  <2>4. QED  BY <1>4, <1>8, <2>3 DEF FindPriorCases
<1>9. CASE WalletTaken(w) \/ NumberTaken(w) \/ CommitFails(w) \/ Answer(w) \/ AnswerFails(w) \/ Abort(w)
  BY <1>3, <1>4, <1>9 DEF WalletTaken, NumberTaken, CommitFails, Answer, AnswerFails, Abort, Fails
<1>10. QED  BY <1>5, <1>6, <1>7, <1>8, <1>9

\* Every step keeps the inductive invariant.
LEMMA NextInv == Inv /\ [Next]_vars => Inv'
<1> SUFFICES ASSUME Inv, [Next]_vars PROVE Inv'  OBVIOUS
<1>1. TypeOK /\ CallInv  BY DEF Inv
<1>2. CASE UNCHANGED vars
  <2>1. UNCHANGED <<complaint, wallets, cases, traced, caseNodes, call, calls>>
    BY <1>2 DEF vars
  <2>2. \A w \in Workers : Open(w)' <=> Open(w)  BY <2>1 DEF PastInsert, Open
  <2>3. QED
    BY <2>1, <2>2
    DEF Inv, TypeOK, CallInv, SequentialNumbers, NumbersInv, OneTransaction
<1>3. CASE Next
  <2>1. PICK w \in Workers : (\E c \in Complaints : Start(w, c)) \/ Run(w) \/ LoseSession(w) \/ Abort(w)
    BY <1>3 DEF Next
  <2>2. TypeOK' /\ CallInv'
    BY <1>1, <2>1, StartingTypes, PreparingTypes, TracingTypes, EndingTypes DEF Run, TraceStep
  <2>3. CASE NextCaseNumber(w)  BY <2>2, <2>3, NumberingSteps DEF Inv
  <2>4. CASE OpenCase(w)  BY <2>2, <2>4, OpeningSteps DEF Inv
  <2>5. CASE TraceStep(w)  BY <1>1, <2>2, <2>5, TraceSteps, TracingSteps DEF Inv
  <2>6. CASE CommitCase(w)  BY <2>2, <2>6, CommittingSteps DEF Inv
  <2>7. CASE \/ \E c \in Complaints : Start(w, c)
             \/ Resolve(w) \/ CreateWallet(w) \/ WalletTaken(w) \/ FindPriorCases(w)
             \/ NumberTaken(w) \/ CommitFails(w) \/ Answer(w) \/ AnswerFails(w) \/ Abort(w)
    BY <2>2, <2>7, OtherSteps DEF Inv
  <2>8. CASE LoseSession(w)  BY <2>2, <2>8, LosingSteps DEF Inv
  <2>9. QED  BY <2>1, <2>3, <2>4, <2>5, <2>6, <2>7, <2>8 DEF Run, TraceStep
<1>4. QED  BY <1>2, <1>3

\* The invariant holds of every behaviour.
THEOREM Invariance == Spec => []Inv
<1>1. QED  BY InitInv, NextInv, PTL DEF Spec

\* Every variable keeps its shape (TypeOK).
THEOREM TypeCorrect == Spec => []TypeOK
<1>1. Inv => TypeOK  BY DEF Inv
<1>2. QED  BY <1>1, Invariance, PTL

\* ingest.py, next_case_number: the committed case numbers are 1, 2, 3, ... in
\* commit order, for any number of workers and whatever is rolled back.
THEOREM NumbersAreSequential == Spec => []SequentialNumbers
<1>1. Inv => SequentialNumbers  BY DEF Inv
<1>2. QED  BY <1>1, Invariance, PTL

\* ingest.py, intake_wallet: of two calls between the INSERT of their cases and
\* their commits, one has lost its transaction and does not know it.
THEOREM OverlapNeedsALostSession == Spec => []OneOpenCase
<1>1. Inv => OneOpenCase  BY DEF Inv, OneTransaction, OneOpenCase, Open
<1>2. QED  BY <1>1, Invariance, PTL
-----------------------------------------------------------------------------
(* What is recorded: the case table and the graph, the wallet's count and its  *)
(* cases.                                                                      *)

Linked == {"checking", "clustering", "traced"}

\* What a call c knows is still so: its node is in the graph, and what it
\* counted was not more than there is.
Known(c) ==
    /\ c.phase \in Linked => \E k \in caseNodes : k.id = c.id /\ k.number = c.number
    /\ c.phase # "idle" =>
          c.count <= CaseCount(Suspect[c.complaint]) /\ c.prior <= CaseCount(Suspect[c.complaint])

RecordInv == RecordsAgree /\ \A w \in Workers : Known(call[w])

\* A step that commits nothing leaves the records alone; only its own call can
\* know less than before.
LEMMA QuietSteps ==
    ASSUME Inv, RecordInv, NEW w \in Workers, NEW c \in Call, Become(w, c),
           UNCHANGED <<wallets, cases>>, caseNodes \subseteq caseNodes', Known(c)'
    PROVE  RecordInv'
<1>1. \A v \in Workers : call'[v] = IF v = w THEN c ELSE call[v]
  BY DEF Inv, TypeOK, Become
<1>2. \A a : CaseCount(a)' = CaseCount(a)
  BY DEF CaseCount
<1>3. AnalysedIsInGraph'
  BY DEF RecordInv, RecordsAgree, AnalysedIsInGraph
<1>4. ReportCountBounded'
  BY <1>2 DEF RecordInv, RecordsAgree, ReportCountBounded
<1>5. ASSUME NEW v \in Workers PROVE Known(call[v])'
  <2>1. CASE v = w
    BY <1>1, <2>1 DEF Known, CaseCount
  <2>2. CASE v # w
    BY <1>1, <1>2, <2>2 DEF Known, RecordInv
  <2>. QED
    BY <2>1, <2>2
<1>. QED
  BY <1>3, <1>4, <1>5 DEF RecordInv, RecordsAgree

\* A call that goes on with what it knows, and claims no node it has not linked.
LEMMA SteadySteps ==
    ASSUME Inv, RecordInv, NEW w \in Workers, NEW c \in Call, Become(w, c),
           UNCHANGED <<wallets, cases>>, caseNodes \subseteq caseNodes',
           call[w].phase # "idle",
           c.complaint = call[w].complaint, c.count = call[w].count, c.prior = call[w].prior,
           \/ c.phase \notin Linked
           \/ /\ call[w].phase \in Linked
              /\ c.id = call[w].id /\ c.number = call[w].number
    PROVE  RecordInv'
<1>1. \A a : CaseCount(a)' = CaseCount(a)
  BY DEF CaseCount
<1>2. Known(call[w])
  BY DEF RecordInv
<1>3. Known(c)'
  BY <1>1, <1>2 DEF Known
<1>. QED
  BY <1>3, QuietSteps

\* A call that is over knows nothing.
LEMMA IdleSteps ==
    ASSUME Inv, RecordInv, NEW w \in Workers, Become(w, Idle),
           UNCHANGED <<wallets, cases, caseNodes>>
    PROVE  RecordInv'
<1>1. PICK c \in Call : c = Idle
  BY IdleType
<1>2. Known(c)'
  BY <1>1 DEF Known, Idle, Linked
<1>. QED
  BY <1>1, <1>2, QuietSteps

LEMMA PreparingRecords ==
    ASSUME Inv, RecordInv, NEW w \in Workers,
           \/ \E c \in Complaints : Start(w, c)
           \/ Resolve(w) \/ CreateWallet(w) \/ FindPriorCases(w) \/ NextCaseNumber(w) \/ OpenCase(w)
    PROVE  RecordInv'
<1>1. call[w] \in Call /\ cases \in Seq(Case) /\ Len(cases) \in Nat /\ TypeOK /\ CallInv
  BY DEF Inv, TypeOK
<1>2. \A a : CaseCount(a) \in Nat /\ (UNCHANGED cases => CaseCount(a)' = CaseCount(a))
  BY <1>1, CaseCountType DEF CaseCount
<1>3. Known(call[w])
  BY DEF RecordInv
<1>4. CASE \E c \in Complaints : Start(w, c)
  <2>1. PICK c \in Complaints : Start(w, c)
    BY <1>4
  <2>b. calls \in Nat
    BY <1>1 DEF TypeOK
  <2>c. calls' = calls + 1
    BY <2>1 DEF Start
  <2>2. calls' \in Nat
    BY <2>b, <2>c
  <2>a. PICK n \in Nat : n = calls'
    BY <2>2
  <2>3. PICK k \in Call : k = [Idle EXCEPT !.phase = "resolving", !.complaint = c, !.id = n]
    BY DEF Idle, Call, Phases
  <2>4. k.phase = "resolving" /\ k.count = 0 /\ k.prior = 0
    BY <2>3 DEF Idle
  <2>5. Become(w, k) /\ UNCHANGED <<wallets, cases, caseNodes>>
    BY <2>1, <2>a, <2>3 DEF Start, graph
  <2>6. Known(k)'
    BY <1>2, <2>4, <2>5 DEF Known, Linked
  <2>. QED
    BY <2>5, <2>6, QuietSteps
<1>5. CASE Resolve(w)
  <2>1. call[w].complaint \in Complaints /\ Address(w) \in Addresses
    BY <1>1, <1>5, SuspectAssumption DEF Resolve, CallInv, Address
  <2>2. PICK n \in Nat : n = wallets[Address(w)].report_count
    BY <1>1, <2>1 DEF TypeOK
  <2>3. n <= CaseCount(Address(w))
    BY <2>1, <2>2 DEF RecordInv, RecordsAgree, ReportCountBounded
  <2>4. PICK next \in {"deduping", "creating"} :
           Become(w, [call[w] EXCEPT !.phase = next, !.count = n])
    BY <1>5, <2>2 DEF Resolve
  <2>5. PICK c \in Call : c = [call[w] EXCEPT !.phase = next, !.count = n]
    BY <1>1 DEF Call, Phases
  <2>6. /\ c.phase = next /\ c.count = n /\ c.prior = call[w].prior
        /\ c.complaint = call[w].complaint
    BY <1>1, <2>5 DEF Call
  <2>7. UNCHANGED <<wallets, cases, caseNodes>> /\ call[w].phase # "idle"
    BY <1>5 DEF Resolve, graph
  <2>8. Known(c)'
    BY <1>2, <1>3, <2>3, <2>6, <2>7 DEF Known, Linked, Address
  <2>. QED
    BY <2>4, <2>5, <2>7, <2>8, QuietSteps
<1>6. CASE FindPriorCases(w)
  <2>1. PICK n \in Nat : n = CaseCount(Address(w))
    BY <1>2
  <2>2. PICK c \in Call : c = [call[w] EXCEPT !.phase = "numbering", !.prior = n]
    BY <1>1 DEF Call, Phases
  <2>3. /\ c.phase = "numbering" /\ c.prior = n /\ c.count = call[w].count
        /\ c.complaint = call[w].complaint
    BY <1>1, <2>2 DEF Call
  <2>4. Become(w, c) /\ UNCHANGED <<wallets, cases, caseNodes>> /\ call[w].phase # "idle"
    BY <1>6, <2>1, <2>2 DEF FindPriorCases, graph
  <2>5. Known(c)'
    BY <1>2, <1>3, <2>1, <2>3, <2>4 DEF Known, Linked, Address
  <2>. QED
    BY <2>4, <2>5, QuietSteps
<1>7. CASE NextCaseNumber(w)
  <2>1. PICK n \in Nat : n = Len(cases) + 1
    BY <1>1
  <2>2. PICK c \in Call : c = [call[w] EXCEPT !.phase = "opening", !.number = n]
    BY <1>1 DEF Call, Phases
  <2>3. /\ c.phase = "opening" /\ c.prior = call[w].prior /\ c.count = call[w].count
        /\ c.complaint = call[w].complaint
    BY <1>1, <2>2 DEF Call
  <2>4. Become(w, c) /\ UNCHANGED <<wallets, cases, caseNodes>> /\ call[w].phase # "idle"
    BY <1>7, <2>1, <2>2 DEF NextCaseNumber, graph
  <2>. QED
    BY <2>3, <2>4, SteadySteps DEF Linked
<1>8. CASE CreateWallet(w) \/ OpenCase(w)
  <2>1. PICK c \in Call : /\ Become(w, c) /\ c.phase \notin Linked /\ c.prior = call[w].prior
                          /\ c.count = call[w].count /\ c.complaint = call[w].complaint
    <3>1. CASE CreateWallet(w)
      <4>1. PICK c \in Call : c = [call[w] EXCEPT !.phase = "deduping", !.created = TRUE]
        BY <1>1 DEF Call, Phases
      <4>2. /\ c.phase = "deduping" /\ c.prior = call[w].prior /\ c.count = call[w].count
            /\ c.complaint = call[w].complaint
        BY <1>1, <4>1 DEF Call
      <4>. QED
        BY <3>1, <4>1, <4>2 DEF CreateWallet, Linked
    <3>2. CASE OpenCase(w)
      <4>1. PICK c \in Call : c = [call[w] EXCEPT !.phase = "expanding"]
        BY <1>1 DEF Call, Phases, TracePhases
      <4>2. /\ c.phase = "expanding" /\ c.prior = call[w].prior /\ c.count = call[w].count
            /\ c.complaint = call[w].complaint
        BY <1>1, <4>1 DEF Call
      <4>. QED
        BY <3>2, <4>1, <4>2 DEF OpenCase, Linked
    <3>. QED
      BY <1>8, <3>1, <3>2
  <2>2. UNCHANGED <<wallets, cases, caseNodes>> /\ call[w].phase # "idle"
    BY <1>8 DEF CreateWallet, OpenCase, graph
  <2>. QED
    BY <2>1, <2>2, SteadySteps
<1>. QED
  BY <1>4, <1>5, <1>6, <1>7, <1>8

LEMMA TracingRecords ==
    ASSUME Inv, RecordInv, NEW w \in Workers, TraceStep(w)
    PROVE  RecordInv'
<1>1. call[w] \in Call
  BY DEF Inv, TypeOK
<1>2. UNCHANGED <<wallets, cases>> /\ caseNodes \subseteq caseNodes'
  BY DEF TraceStep, Expand, ExpandFails, WriteTransactions, LinkCase, CheckMixer, RunClustering,
         GraphFails, graph
<1>3. ASSUME NEW next \in Phases, NEW b \in BOOLEAN, call[w].phase # "idle",
             Become(w, [call[w] EXCEPT !.phase = next, !.bound = b]),
             next \in Linked => call[w].phase \in Linked
      PROVE  RecordInv'
  <2>1. PICK c \in Call : c = [call[w] EXCEPT !.phase = next, !.bound = b]
    BY <1>1 DEF Call
  <2>2. /\ c.phase = next /\ c.prior = call[w].prior /\ c.count = call[w].count
        /\ c.complaint = call[w].complaint /\ c.id = call[w].id /\ c.number = call[w].number
    BY <1>1, <2>1 DEF Call
  <2>. QED
    BY <1>2, <1>3, <2>1, <2>2, SteadySteps
<1>4. ASSUME NEW next \in Phases, call[w].phase # "idle",
             Become(w, [call[w] EXCEPT !.phase = next]),
             next \in Linked => call[w].phase \in Linked
      PROVE  RecordInv'
  <2>1. PICK b \in BOOLEAN : b = call[w].bound
    BY <1>1 DEF Call
  <2>2. [call[w] EXCEPT !.phase = next] = [call[w] EXCEPT !.phase = next, !.bound = b]
    BY <1>1, <2>1 DEF Call
  <2>. QED
    BY <1>3, <1>4, <2>2
<1>5. CASE Expand(w)
  <2>1. PICK next \in {"writing", "linking"} : Become(w, [call[w] EXCEPT !.phase = next])
    BY <1>5 DEF Expand
  <2>. QED
    BY <1>4, <1>5, <2>1 DEF Expand, Phases, TracePhases, Linked
<1>6. CASE ExpandFails(w)
  BY <1>3, <1>6 DEF ExpandFails, Phases, Linked
<1>7. CASE WriteTransactions(w)
  <2>1. PICK next \in {"linking", "failed"} : Become(w, [call[w] EXCEPT !.phase = next])
    BY <1>7 DEF WriteTransactions
  <2>. QED
    BY <1>4, <1>7, <2>1 DEF WriteTransactions, Phases, TracePhases, Linked
<1>8. CASE LinkCase(w)
  <2>1. PICK c \in Call : c = [call[w] EXCEPT !.phase = "checking"]
    BY <1>1 DEF Call, Phases, TracePhases
  <2>2. /\ c.phase = "checking" /\ c.prior = call[w].prior /\ c.count = call[w].count
        /\ c.complaint = call[w].complaint /\ c.id = call[w].id /\ c.number = call[w].number
    BY <1>1, <2>1 DEF Call
  <2> DEFINE node == [id |-> call[w].id, number |-> call[w].number,
                      reported |-> IF Address(w) \in traced THEN Address(w) ELSE NULL]
  <2>a. node \in caseNodes' /\ caseNodes \subseteq caseNodes'
    BY <1>8 DEF LinkCase
  <2>b. node.id = c.id /\ node.number = c.number
    BY <2>2
  <2>3. \E k \in caseNodes' : k.id = c.id /\ k.number = c.number
    BY <2>a, <2>b
  <2>4. \A a : CaseCount(a)' = CaseCount(a)
    BY <1>2 DEF CaseCount
  <2>5. Known(c)'
    BY <1>8, <2>2, <2>3, <2>4 DEF Known, RecordInv, LinkCase
  <2>. QED
    BY <1>2, <1>8, <2>1, <2>5, QuietSteps DEF LinkCase
<1>9. CASE CheckMixer(w)
  <2>1. PICK next \in {"clustering", "traced"} : Become(w, [call[w] EXCEPT !.phase = next])
    BY <1>9 DEF CheckMixer
  <2>. QED
    BY <1>4, <1>9, <2>1 DEF CheckMixer, Phases, TracePhases, Linked
<1>10. CASE RunClustering(w)
  BY <1>4, <1>10 DEF RunClustering, Phases, Linked
<1>11. CASE GraphFails(w)
  BY <1>4, <1>11 DEF GraphFails, Phases, TracePhases, Linked
<1>. QED
  BY <1>5, <1>6, <1>7, <1>8, <1>9, <1>10, <1>11 DEF TraceStep

\* A committed case counts once for its wallet and for no other.
LEMMA CommitCounts ==
    ASSUME cases \in Seq(Case), NEW row, cases' = Append(cases, row), NEW a
    PROVE  CaseCount(a)' = IF Suspect[row.complaint] = a THEN CaseCount(a) + 1 ELSE CaseCount(a)
<1> DEFINE n  == Len(cases)
           of == {i \in 1..n : Suspect[cases[i].complaint] = a}
<1>1. n \in Nat
  OBVIOUS
<1>2. /\ Len(cases') = n + 1 /\ cases'[n + 1] = row
      /\ \A i \in 1..n : cases'[i] = cases[i]
  OBVIOUS
<1> HIDE DEF n
<1>3. IsFiniteSet(of) /\ n + 1 \notin of
  <2>1. IsFiniteSet(1..n)
    BY <1>1, FS_Interval
  <2>2. of \subseteq 1..n
    OBVIOUS
  <2>3. n + 1 \notin 1..n
    BY <1>1
  <2>. QED
    BY <2>1, <2>2, <2>3, FS_Subset
<1>4. {i \in 1..(n + 1) : Suspect[cases'[i].complaint] = a} =
         IF Suspect[row.complaint] = a THEN of \cup {n + 1} ELSE of
  BY <1>1, <1>2
<1>5. CaseCount(a)' = Cardinality({i \in 1..(n + 1) : Suspect[cases'[i].complaint] = a})
  BY <1>2 DEF CaseCount
<1>6. CaseCount(a) = Cardinality(of)
  BY DEF CaseCount, n
<1> HIDE DEF of
<1>7. Cardinality(of \cup {n + 1}) = Cardinality(of) + 1
  BY <1>3, FS_AddElement
<1>. QED
  BY <1>4, <1>5, <1>6, <1>7

LEMMA CommittingRecords ==
    ASSUME Inv, RecordInv, NEW w \in Workers, CommitCase(w)
    PROVE  RecordInv'
<1> DEFINE c   == call[w]
           a   == Address(w)
           row == [id |-> c.id, number |-> c.number, complaint |-> c.complaint,
                   status |-> CaseStatus(c.phase)]
<1>1. /\ TypeOK /\ c \in Call /\ cases \in Seq(Case) /\ Len(cases) \in Nat
      /\ c.complaint \in Complaints /\ a \in Addresses
  BY SuspectAssumption DEF Inv, TypeOK, CallInv, CommitCase, Address
<1>2. cases' = Append(cases, row) /\ UNCHANGED caseNodes /\ c.phase \in {"traced", "failed"}
  BY DEF CommitCase, graph
<1>3. \A b : /\ CaseCount(b) \in Nat
             /\ CaseCount(b)' = IF b = a THEN CaseCount(b) + 1 ELSE CaseCount(b)
  <2>1. row.complaint = c.complaint
    OBVIOUS
  <2>. QED
    BY <1>1, <1>2, <2>1, CommitCounts, CaseCountType DEF Address
<1>4. Known(c) /\ c.count \in Nat /\ c.prior \in Nat
  BY <1>1 DEF RecordInv, Call
<1>5. c.count <= CaseCount(a) /\ c.prior <= CaseCount(a)
  BY <1>2, <1>4 DEF Known, Address
<1>6. AnalysedIsInGraph'
  <2>1. /\ Len(cases') = Len(cases) + 1 /\ cases'[Len(cases) + 1] = row
        /\ \A i \in 1..Len(cases) : cases'[i] = cases[i]
    BY <1>1, <1>2
  <2>2. row.status = "analysed" => \E k \in caseNodes : k.id = row.id /\ k.number = row.number
    BY <1>2, <1>4 DEF Known, Linked, CaseStatus
  <2>3. AnalysedIsInGraph
    BY DEF RecordInv, RecordsAgree
  <2> HIDE DEF row
  <2>4. ASSUME NEW i \in 1..Len(cases'), cases'[i].status = "analysed"
        PROVE  \E k \in caseNodes : k.id = cases'[i].id /\ k.number = cases'[i].number
    <3>1. CASE i = Len(cases) + 1
      BY <2>1, <2>2, <2>4, <3>1
    <3>2. CASE i \in 1..Len(cases)
      BY <2>1, <2>3, <2>4, <3>2 DEF AnalysedIsInGraph
    <3>. QED
      BY <1>1, <2>1, <3>1, <3>2
  <2>. QED
    BY <1>2, <2>4 DEF AnalysedIsInGraph
<1>7. ReportCountBounded'
  <2>1. ReportCountBounded
    BY DEF RecordInv, RecordsAgree
  <2>2. PICK n : n = IF c.prior + 1 = c.count THEN wallets[a].report_count ELSE c.prior + 1
    OBVIOUS
  <2>3. /\ wallets'[a].report_count = n
        /\ \A b \in Addresses : b # a => wallets'[b] = wallets[b]
    BY <1>1, <2>2 DEF CommitCase, TypeOK
  <2>4. n <= CaseCount(a) + 1 /\ n >= 1
    <3>1. CASE c.prior + 1 = c.count
      <4>1. CaseCount(a) >= 1
        BY <1>3, <1>4, <1>5, <3>1
      <4>2. wallets[a].report_count \in Nat
        BY <1>1 DEF TypeOK
      <4>. QED
        BY <1>1, <1>3, <2>1, <2>2, <3>1, <4>1, <4>2 DEF ReportCountBounded
    <3>2. CASE c.prior + 1 # c.count
      BY <1>3, <1>4, <1>5, <2>2, <3>2
    <3>. QED
      BY <3>1, <3>2
  <2>. QED
    BY <1>1, <1>3, <2>1, <2>3, <2>4 DEF ReportCountBounded
<1>8. ASSUME NEW v \in Workers PROVE Known(call[v])'
  <2>1. call[v] \in Call /\ Known(call[v])
    BY <1>1 DEF RecordInv, TypeOK
  <2>2. /\ call'[v].complaint = call[v].complaint
        /\ call'[v].count = call[v].count /\ call'[v].prior = call[v].prior
        /\ call'[v].id = call[v].id /\ call'[v].number = call[v].number
        /\ call'[v].phase = IF v = w THEN "answering" ELSE call[v].phase
    BY <1>1, <2>1 DEF CommitCase, Become, TypeOK, Call
  <2>3. call[v].count \in Nat /\ call[v].prior \in Nat /\ call[w].phase # "idle"
    BY <1>2, <2>1 DEF Call
  <2>4. \A b : CaseCount(b) \in Nat /\ CaseCount(b)' \in Nat /\ CaseCount(b) <= CaseCount(b)'
    BY <1>3
  <2>5. call'[v].phase \in Linked => call[v].phase \in Linked
    BY <2>2 DEF Linked
  <2>6. call'[v].phase # "idle" => call[v].phase # "idle"
    BY <2>2, <2>3
  <2>b. PICK b : b = Suspect[call[v].complaint]
    OBVIOUS
  <2>7. call[v].phase # "idle" => call[v].count <= CaseCount(b)' /\ call[v].prior <= CaseCount(b)'
    <3>1. CaseCount(b) \in Nat /\ CaseCount(b)' \in Nat /\ CaseCount(b) <= CaseCount(b)'
      BY <2>4
    <3>2. call[v].phase # "idle" => call[v].count <= CaseCount(b) /\ call[v].prior <= CaseCount(b)
      BY <2>1, <2>b DEF Known
    <3>. QED
      BY <2>3, <3>1, <3>2
  <2>8. call[v].phase \in Linked =>
           \E k \in caseNodes' : k.id = call[v].id /\ k.number = call[v].number
    BY <1>2, <2>1 DEF Known
  <2>. QED
    BY <2>2, <2>5, <2>6, <2>7, <2>8, <2>b DEF Known
<1>. QED
  BY <1>6, <1>7, <1>8 DEF RecordInv, RecordsAgree

LEMMA RecordStep == Inv /\ RecordInv /\ [Next]_vars => RecordInv'
<1> SUFFICES ASSUME Inv, RecordInv, [Next]_vars PROVE RecordInv'
  OBVIOUS
<1>1. CASE UNCHANGED vars
  BY <1>1 DEF vars, RecordInv, RecordsAgree, AnalysedIsInGraph, ReportCountBounded, Known, CaseCount
<1>2. CASE Next
  <2>1. PICK w \in Workers : (\E c \in Complaints : Start(w, c)) \/ Run(w) \/ LoseSession(w) \/ Abort(w)
    BY <1>2 DEF Next
  <2>2. CASE WalletTaken(w) \/ NumberTaken(w) \/ CommitFails(w) \/ Answer(w) \/ AnswerFails(w) \/ Abort(w)
    BY <2>2, IdleSteps DEF WalletTaken, NumberTaken, CommitFails, Answer, AnswerFails, Abort, Fails, graph
  <2>3. CASE LoseSession(w)
    <3>1. PICK c \in Call : c = [call[w] EXCEPT !.lost = TRUE]
      BY DEF Inv, TypeOK, Call
    <3>2. /\ c.phase = call[w].phase /\ c.prior = call[w].prior /\ c.count = call[w].count
          /\ c.complaint = call[w].complaint /\ c.id = call[w].id /\ c.number = call[w].number
      BY <3>1 DEF Inv, TypeOK, Call
    <3>3. /\ Become(w, c) /\ UNCHANGED <<wallets, cases, caseNodes>> /\ call[w].phase # "idle"
      BY <2>3, <3>1 DEF LoseSession, Open, PastInsert, TracePhases, graph
    <3>. QED
      BY <3>2, <3>3, SteadySteps
  <2>. QED
    BY <2>1, <2>2, <2>3, PreparingRecords, TracingRecords, CommittingRecords DEF Run, TraceStep
<1>. QED
  BY <1>1, <1>2

\* ingest.py, intake_wallet: an analysed case is in the graph under its number,
\* and report_count is at least 1 and at most the cases there are, however many
\* intakes of one wallet overlap, fail and are retried.
THEOREM RecordsAlwaysAgree == Spec => []RecordsAgree
<1>1. Init => RecordInv
  <2> SUFFICES ASSUME Init PROVE RecordInv
    OBVIOUS
  <2>1. Inv
    BY InitInv
  <2>2. \A a : CaseCount(a) = 0
    <3>1. ASSUME NEW a PROVE {i \in 1..Len(cases) : Suspect[cases[i].complaint] = a} = {}
      BY DEF Init
    <3>. QED
      BY <3>1, FS_EmptySet DEF CaseCount
  <2>. QED
    BY <2>2 DEF Init, Idle, RecordInv, RecordsAgree, AnalysedIsInGraph, ReportCountBounded,
                Known, Linked
<1>2. RecordInv => RecordsAgree
  BY DEF RecordInv
<1>. QED
  BY <1>1, <1>2, InitInv, NextInv, RecordStep, PTL DEF Spec
=============================================================================
