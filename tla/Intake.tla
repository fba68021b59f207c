-------------------------------- MODULE Intake --------------------------------
(***************************************************************************)
(* Filing a complaint: intake_wallet (services/ingest.py), called by POST  *)
(* /wallets and POST /ncrp/intake.  One call is one PostgreSQL transaction *)
(* that stays open while the money flow is fetched, written to Neo4j and   *)
(* clustered; Neo4j commits at every step, PostgreSQL once, at the end.    *)
(*                                                                         *)
(* Calls run on several threads and processes.  Their transactions meet in *)
(* two unique indexes, wallets (chain, address_norm) and cases             *)
(* (case_number): an INSERT waits while another open transaction holds its *)
(* key and fails once that one has committed.  Between the INSERT of its   *)
(* case and its commit the handler sends PostgreSQL nothing, so a session  *)
(* lost in between is noticed only at the commit: its transaction is rolled*)
(* back and its keys are free, while the handler goes on tracing.          *)
(***************************************************************************)
EXTENDS Naturals, Sequences, FiniteSets

CONSTANTS
    Complaints,     \* reports citizens make
    Addresses,      \* normalised wallet addresses
    Suspect,        \* [Complaints -> Addresses]
    Workers,        \* handler threads
    MaxCalls,       \* bound on calls of intake_wallet
    NULL

ASSUME SuspectAssumption == Suspect \in [Complaints -> Addresses]
ASSUME MaxCallsAssumption == MaxCalls \in Nat
ASSUME NullAssumption == NULL \notin Complaints /\ NULL \notin Addresses

VARIABLES
    complaint,  \* [Complaints -> what the reporting client was told last]
    wallets,    \* committed rows: [Addresses -> [exists, report_count]]
    cases,      \* committed rows of cases, trace_runs and case_wallets
    traced,     \* :Address nodes a trace has written to the graph
    caseNodes,  \* :Case nodes, with the address REPORTED points to
    call,       \* [Workers -> the call the worker is running]
    calls       \* calls begun so far; the next case id

vars == <<complaint, wallets, cases, traced, caseNodes, call, calls>>
graph == <<traced, caseNodes>>

-----------------------------------------------------------------------------
(* Tables, nodes and calls *)

Case ==
    [id : Nat, number : Nat, complaint : Complaints, status : {"analysed", "open"}]

CaseNode == [id : Nat, number : Nat, reported : Addresses \cup {NULL}]

TracePhases == {"expanding", "writing", "linking", "checking", "clustering"}

Phases ==
    {"idle", "resolving", "creating", "deduping", "numbering", "opening"}
      \cup TracePhases \cup {"traced", "failed", "answering"}

\* created: this call inserted the wallet row; count: report_count as loaded;
\* prior: cases found for the wallet; bound: whether the variable the answer
\* is built from was assigned; lost: PostgreSQL has rolled the transaction back
\* and the handler does not know.
Call ==
    [phase : Phases, complaint : Complaints \cup {NULL}, id : Nat, created : BOOLEAN,
     count : Nat, prior : Nat, number : Nat, bound : BOOLEAN, lost : BOOLEAN]

Idle ==
    [phase |-> "idle", complaint |-> NULL, id |-> 0, created |-> FALSE,
     count |-> 0, prior |-> 0, number |-> 0, bound |-> TRUE, lost |-> FALSE]

Address(w) == Suspect[call[w].complaint]

\* The number of committed cases that name an address.
CaseCount(a) == Cardinality({i \in 1..Len(cases) : Suspect[cases[i].complaint] = a})

\* The handler has inserted its case and not yet committed.
PastInsert(w) == call[w].phase \in TracePhases \cup {"traced", "failed"}

\* Its transaction is still there and holds the case number.
Open(w) == PastInsert(w) /\ ~call[w].lost

\* The call's transaction has inserted the wallet row and not yet committed.
HoldsWallet(w, a) ==
    /\ call[w].created
    /\ ~call[w].lost
    /\ call[w].phase # "answering"
    /\ Address(w) = a

-----------------------------------------------------------------------------
(* Steps.  Become(w, c) makes c the state of w's call. *)

Become(w, c) == call' = [call EXCEPT ![w] = c]

\* The endpoint answers an error and get_db rolls the transaction back.
Fails(w) ==
    /\ Become(w, Idle)
    /\ complaint' = [complaint EXCEPT ![call[w].complaint] = "error"]

\* A client files a complaint, or files it again after an error.
Start(w, c) ==
    /\ calls < MaxCalls
    /\ call[w].phase = "idle"
    /\ complaint[c] \in {"unfiled", "error"}
    /\ complaint' = [complaint EXCEPT ![c] = "sent"]
    /\ calls' = calls + 1
    /\ Become(w, [Idle EXCEPT !.phase = "resolving", !.complaint = c, !.id = calls'])
    /\ UNCHANGED <<wallets, cases, graph>>

\* resolve_or_create_wallet: the SELECT ...
Resolve(w) ==
    LET row == wallets[Address(w)] IN
    /\ call[w].phase = "resolving"
    /\ Become(w, [call[w] EXCEPT !.phase = IF row.exists THEN "deduping" ELSE "creating",
                                 !.count = row.report_count])
    /\ UNCHANGED <<complaint, wallets, cases, graph, calls>>

\* ... and the INSERT, which waits for a transaction inserting the same row.
CreateWallet(w) ==
    /\ call[w].phase = "creating"
    /\ \A v \in Workers : ~HoldsWallet(v, Address(w))
    /\ ~wallets[Address(w)].exists
    /\ Become(w, [call[w] EXCEPT !.phase = "deduping", !.created = TRUE])
    /\ UNCHANGED <<complaint, wallets, cases, graph, calls>>

\* IntegrityError on uq_wallet_chain_addr.
WalletTaken(w) ==
    /\ call[w].phase = "creating"
    /\ wallets[Address(w)].exists
    /\ Fails(w)
    /\ UNCHANGED <<wallets, cases, graph, calls>>

\* Slip: counting after the case and its link were inserted.
FindOwnCase(w) ==
    /\ call[w].phase = "deduping"
    /\ Become(w, [call[w] EXCEPT !.phase = "numbering", !.prior = CaseCount(Address(w)) + 1])
    /\ UNCHANGED <<complaint, wallets, cases, graph, calls>>

\* What is committed by now; the transaction's own case is not inserted yet.
FindPriorCases(w) ==
    /\ call[w].phase = "deduping"
    /\ Become(w, [call[w] EXCEPT !.phase = "numbering", !.prior = CaseCount(Address(w))])
    /\ UNCHANGED <<complaint, wallets, cases, graph, calls>>

\* Slip: a number taken from a sequence, which a rollback does not give back.
NumberFromSequence(w) ==
    /\ call[w].phase = "numbering"
    /\ Become(w, [call[w] EXCEPT !.phase = "opening", !.number = call[w].id])
    /\ UNCHANGED <<complaint, wallets, cases, graph, calls>>

\* next_case_number: a count of what is committed, plus one.
NextCaseNumber(w) ==
    /\ call[w].phase = "numbering"
    /\ Become(w, [call[w] EXCEPT !.phase = "opening", !.number = Len(cases) + 1])
    /\ UNCHANGED <<complaint, wallets, cases, graph, calls>>

Numbered(n) == \E i \in 1..Len(cases) : cases[i].number = n

\* INSERT INTO cases, and the links and the trace run with it.
OpenCase(w) ==
    /\ call[w].phase = "opening"
    /\ \A v \in Workers : Open(v) => call[v].number # call[w].number
    /\ ~Numbered(call[w].number)
    /\ Become(w, [call[w] EXCEPT !.phase = "expanding"])
    /\ UNCHANGED <<complaint, wallets, cases, graph, calls>>

\* Slip: trying the same number again.
TryNumberAgain(w) ==
    /\ call[w].phase = "opening"
    /\ Numbered(call[w].number)
    /\ UNCHANGED vars

\* IntegrityError on cases.case_number.
NumberTaken(w) ==
    /\ call[w].phase = "opening"
    /\ Numbered(call[w].number)
    /\ Fails(w)
    /\ UNCHANGED <<wallets, cases, graph, calls>>

-----------------------------------------------------------------------------
(* The trace, outside PostgreSQL *)

\* expand_money_flow returns, with or without transactions.
Expand(w) ==
    /\ call[w].phase = "expanding"
    /\ \E next \in {"writing", "linking"} : Become(w, [call[w] EXCEPT !.phase = next])
    /\ UNCHANGED <<complaint, wallets, cases, graph, calls>>

\* It raises something other than ConnectorError: expansion stays unassigned.
ExpandFails(w) ==
    /\ call[w].phase = "expanding"
    /\ Become(w, [call[w] EXCEPT !.phase = "failed", !.bound = FALSE])
    /\ UNCHANGED <<complaint, wallets, cases, graph, calls>>

\* write_transactions: batches, any prefix of which may be all that is written.
WriteTransactions(w) ==
    /\ call[w].phase = "writing"
    /\ traced' = traced \cup {Address(w)}
    /\ \E next \in {"linking", "failed"} : Become(w, [call[w] EXCEPT !.phase = next])
    /\ UNCHANGED <<complaint, wallets, cases, caseNodes, calls>>

\* MERGE (:Case), then MATCH the address: no node, no edge, and no error.
LinkCase(w) ==
    /\ call[w].phase = "linking"
    /\ caseNodes' = caseNodes \cup
          {[id |-> call[w].id, number |-> call[w].number,
            reported |-> IF Address(w) \in traced THEN Address(w) ELSE NULL]}
    /\ Become(w, [call[w] EXCEPT !.phase = "checking"])
    /\ UNCHANGED <<complaint, wallets, cases, traced, calls>>

\* detect_mixer_interaction; the trace is complete.  Clustering is skipped if
\* there were no transactions or the caller asked for none.
CheckMixer(w) ==
    /\ call[w].phase = "checking"
    /\ \E next \in {"clustering", "traced"} : Become(w, [call[w] EXCEPT !.phase = next])
    /\ UNCHANGED <<complaint, wallets, cases, graph, calls>>

RunClustering(w) ==
    /\ call[w].phase = "clustering"
    /\ Become(w, [call[w] EXCEPT !.phase = "traced"])
    /\ UNCHANGED <<complaint, wallets, cases, graph, calls>>

\* Slip: treating a graph error after the expansion as a finished trace.
GraphErrorIgnored(w) ==
    /\ call[w].phase \in TracePhases \ {"expanding"}
    /\ Become(w, [call[w] EXCEPT !.phase = "traced"])
    /\ UNCHANGED <<complaint, wallets, cases, graph, calls>>

\* A Neo4j call fails: "keep the case; record the failure honestly".
GraphFails(w) ==
    /\ call[w].phase \in TracePhases \ {"expanding"}
    /\ Become(w, [call[w] EXCEPT !.phase = "failed"])
    /\ UNCHANGED <<complaint, wallets, cases, graph, calls>>

-----------------------------------------------------------------------------
(* The end of a call *)

\* Slip: the trace's status in place of the case's.
TraceStatus(phase) == IF phase = "traced" THEN "complete" ELSE "failed"

CaseStatus(phase) == IF phase = "traced" THEN "analysed" ELSE "open"

\* The unit of work writes report_count only when it differs from the value
\* loaded; the default of a row this call created is 0.
CommitCase(w) ==
    LET c == call[w] IN
    /\ c.phase \in {"traced", "failed"}
    /\ ~c.lost
    /\ cases' = Append(cases,
          [id |-> c.id, number |-> c.number, complaint |-> c.complaint,
           status |-> CaseStatus(c.phase)])
    /\ wallets' = [wallets EXCEPT ![Address(w)] =
          [exists |-> TRUE,
           report_count |-> IF c.prior + 1 = c.count THEN @.report_count ELSE c.prior + 1]]
    /\ Become(w, [c EXCEPT !.phase = "answering"])
    /\ UNCHANGED <<complaint, graph, calls>>

\* The session is gone: the first the handler hears of it.
CommitFails(w) ==
    /\ call[w].phase \in {"traced", "failed"}
    /\ call[w].lost
    /\ Fails(w)
    /\ UNCHANGED <<wallets, cases, graph, calls>>

\* get_cluster_for_address, and the answer.
Answer(w) ==
    /\ call[w].phase = "answering"
    /\ call[w].bound
    /\ Become(w, Idle)
    /\ complaint' = [complaint EXCEPT ![call[w].complaint] = "accepted"]
    /\ UNCHANGED <<wallets, cases, graph, calls>>

\* Neo4j fails here, expansion is unassigned, or the process dies: the client
\* sees an error, the case stays.
AnswerFails(w) ==
    /\ call[w].phase = "answering"
    /\ Fails(w)
    /\ UNCHANGED <<wallets, cases, graph, calls>>

\* PostgreSQL ends the transaction of a handler that is busy with the trace: a
\* restart, a lost connection.  Nothing tells the handler, which goes on.
LoseSession(w) ==
    /\ Open(w)
    /\ Become(w, [call[w] EXCEPT !.lost = TRUE])
    /\ UNCHANGED <<complaint, wallets, cases, graph, calls>>

\* The process dies, or a statement before the trace or the commit is refused.
Abort(w) ==
    /\ call[w].phase \notin {"idle", "answering"}
    /\ Fails(w)
    /\ UNCHANGED <<wallets, cases, graph, calls>>

-----------------------------------------------------------------------------
Init ==
    /\ complaint = [c \in Complaints |-> "unfiled"]
    /\ wallets = [a \in Addresses |-> [exists |-> FALSE, report_count |-> 0]]
    /\ cases = <<>>
    /\ traced = {}
    /\ caseNodes = {}
    /\ call = [w \in Workers |-> Idle]
    /\ calls = 0

Run(w) ==
    \/ Resolve(w) \/ CreateWallet(w) \/ WalletTaken(w) \/ FindPriorCases(w)
    \/ NextCaseNumber(w) \/ OpenCase(w) \/ NumberTaken(w)
    \/ Expand(w) \/ ExpandFails(w) \/ WriteTransactions(w) \/ LinkCase(w)
    \/ CheckMixer(w) \/ RunClustering(w) \/ GraphFails(w)
    \/ CommitCase(w) \/ CommitFails(w) \/ Answer(w) \/ AnswerFails(w)

Next ==
    \E w \in Workers :
        \/ \E c \in Complaints : Start(w, c)
        \/ Run(w)
        \/ LoseSession(w)
        \/ Abort(w)

\* A call that can take its next step takes it.  Requests to indexers have a
\* time-out; that every call of Neo4j and PostgreSQL returns or fails is an
\* assumption about them, as no time-out is configured for either.
Spec == Init /\ [][Next]_vars /\ \A w \in Workers : WF_vars(Run(w))

-----------------------------------------------------------------------------
(* Properties *)

\* Every variable has the shape its definition says.
TypeOK ==
    /\ complaint \in [Complaints -> {"unfiled", "sent", "accepted", "error"}]
    /\ wallets \in [Addresses -> [exists : BOOLEAN, report_count : Nat]]
    /\ cases \in Seq(Case)
    /\ traced \subseteq Addresses
    /\ caseNodes \subseteq CaseNode
    /\ call \in [Workers -> Call]
    /\ calls \in Nat

\* "Sequential" case numbers: the n-th case committed has number n, although
\* numbers are only counts of what other calls have committed.
SequentialNumbers == \A i \in 1..Len(cases) : cases[i].number = i

\* Two intakes trace, link and cluster at the same time only if one of them
\* has lost its transaction without knowing: of all others in the deployment
\* one is past the INSERT of its case, and the rest wait on the unique index
\* for the length of its trace and fail if it commits.
OneOpenCase ==
    \A v, w \in Workers :
        v # w /\ PastInsert(v) /\ PastInsert(w) => call[v].lost \/ call[w].lost

\* PostgreSQL calls a case analysed only if Neo4j has its :Case node, under
\* the number the case was committed with.
AnalysedIsInGraph ==
    \A i \in 1..Len(cases) :
        cases[i].status = "analysed" =>
            \E k \in caseNodes : k.id = cases[i].id /\ k.number = cases[i].number

\* report_count never exceeds the cases that name the wallet, and is not 0
\* once there is one, whatever two calls write over each other.
ReportCountBounded ==
    \A a \in Addresses :
        /\ wallets[a].report_count <= CaseCount(a)
        /\ CaseCount(a) >= 1 => wallets[a].report_count >= 1

\* What concurrent, failing and retried intakes leave behind fits together: the
\* case table and the graph, and the wallet's count and its cases.
RecordsAgree == AnalysedIsInGraph /\ ReportCountBounded

\* No call waits for ever: the wallet row is always taken before the case
\* number, so the waits never form a cycle.
EveryCallEnds == \A w \in Workers : call[w].phase # "idle" ~> call[w].phase = "idle"

-----------------------------------------------------------------------------
(* What the documentation says and the code does not keep. *)

\* score_entity adds one contribution for every :Case node with a REPORTED
\* edge whose number is that of a case in PostgreSQL.
Contributions == {k \in caseNodes : k.reported # NULL /\ Numbered(k.number)}

\* "One row per case that pushed the score up".
OneContributionPerCase ==
    \A j, k \in Contributions : j.number = k.number => j = k
=============================================================================
