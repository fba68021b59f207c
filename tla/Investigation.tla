----------------------------- MODULE Investigation -----------------------------
(***************************************************************************)
(* An officer's question about a reported address - GET /analysis/wallet   *)
(* (api/v1/wallet_analysis.py) or GET /exposure (api/v1/exposure.py) -     *)
(* while intakes go on: each handler asks the graph several times, and     *)
(* between two questions transactions are written, cases are linked,       *)
(* committed or rolled back, and clusters are computed anew.               *)
(*                                                                         *)
(* Each Cypher query and each SQL transaction is one step.                 *)
(***************************************************************************)
EXTENDS TransferPairs, Tracing, Exposure

CONSTANTS
    Addresses,
    Root,           \* the address asked about
    Cases,          \* intakes, each with a case of its own
    CaseRoot,       \* [Cases -> the address it reports]
    Txids,
    Ledgers,        \* bound: the sequences of transactions intakes may write
    TagSets,        \* bound: the tags seed_tags.py may have loaded
    Clusterings,    \* bound: the outcomes of a clustering pass
    Depth,          \* trace_max_depth, and max_hops
    MaxNodes,       \* max_nodes, and max_paths
    NULL

ASSUME CasesAssumption == IsFiniteSet(Cases)
ASSUME RootAssumption == Root \in Addresses /\ CaseRoot \in [Cases -> Addresses]
ASSUME BoundsAssumption == Depth \in 1..8 /\ MaxNodes \in Nat \ {0}
ASSUME TagsAssumption ==
    \A tagSet \in TagSets :
        /\ IsFiniteSet(tagSet)
        /\ \A t \in tagSet :
              t.address \in Addresses /\ t.name # NULL /\ t.type \in ServiceTypes \cup {"unknown"}
ASSUME LedgersAssumption ==
    LET Entries == Seq([address : Addresses, value : Nat])
    IN  Ledgers \subseteq Seq([txid : Txids, status : STRING, inputs : Entries, outputs : Entries])

\* The addresses that m puts into the cluster of a.
Together(m, a) == {b \in Addresses : m[a] # NULL /\ m[b] = m[a]}

\* A cluster's key is its smallest member: the same members, the same key.
ASSUME ClusteringsAssumption ==
    /\ Clusterings \subseteq [Addresses -> Addresses \cup {NULL}]
    /\ \A m, n \in Clusterings : (\A a \in Addresses : Together(m, a) = Together(n, a)) => m = n

ASSUME NullAssumption == NULL # "none"

VARIABLES
    ledger,     \* transactions still to be written
    edges,      \* TRANSFERRED
    paid,       \* outputs of the transactions written, for the properties
    tags,       \* TAGGED_AS
    member,     \* MEMBER_OF: [Addresses -> cluster_key]
    case,       \* [Cases -> its row, its case_number and whether it has a node]
    request,    \* the handler's local variables
    saved       \* what it stored: risk_scores or service_exposures

graphVars == <<ledger, edges, paid, tags, member, case>>
vars == <<graphVars, request, saved>>

-----------------------------------------------------------------------------
A == INSTANCE Attribution
R == INSTANCE Risk

\* phase: "lost" is a row that was rolled back; node: whether :Case was written.
Case == [phase : {"none", "open", "committed", "lost"}, number : Nat, node : BOOLEAN]

Nodes ==
    {[case |-> k, number |-> case[k].number, root |-> CaseRoot[k]] :
        k \in {c \in Cases : case[c].node}}

Committed == {k \in Cases : case[k].phase = "committed"}

Rows == {[case |-> k, number |-> case[k].number] : k \in Committed}

\* The graph and the cases of both stores, as they were when the handler began.
Now == [edges |-> edges, member |-> member, cases |-> {k \in Committed : case[k].node}]

WalletPhases ==
    {"traced", "unreached", "targeted", "unnamed", "attributed", "hit", "scored", "stored", "failed"}
ExposurePhases == {"undirected", "serviced", "found", "filed"}

Names == {t.name : t \in tags}

Features == PathFeatures(Names, Addresses)

\* A row of risk_scores with its risk_contributions: entity or cluster, or both.
RiskScore ==
    [name : Names \cup {NULL}, key : Addresses \cup {NULL},
     contributions : SUBSET [case : Cases, node : Cases, terminal : Addresses]]

\* A row of service_exposures with its exposure_paths.
ServiceExposureRecord ==
    [kind : {"direct", "indirect", "none"}, candidates : SUBSET Features]

Idle ==
    [phase |-> "idle", began |-> NULL, trace |-> NULL, target |-> NULL, attribution |-> NULL,
     hits |-> {}, kind |-> NULL, rows |-> {}, candidates |-> {}]

-----------------------------------------------------------------------------
(* Intakes, as far as an analysis can see them *)

WriteTransaction ==
    /\ ledger # <<>>
    /\ ledger' = Tail(ledger)
    /\ edges' = Merged(edges, Head(ledger))
    /\ paid' = [a \in Addresses |->
          IF MovedValue(Head(ledger)) THEN paid[a] + Sum(Head(ledger).outputs, a) ELSE paid[a]]
    /\ UNCHANGED <<tags, member, case, request, saved>>

CaseStep(k, c) ==
    /\ case' = [case EXCEPT ![k] = c]
    /\ UNCHANGED <<ledger, edges, paid, tags, member, request, saved>>

\* The row is inserted under the next number; the unique index lets one
\* transaction at a time hold it (OneOpenCase in module Intake).
OpenCase(k) ==
    /\ case[k].phase = "none"
    /\ \A j \in Cases : case[j].phase # "open"
    /\ CaseStep(k, [phase |-> "open", number |-> Cardinality(Committed) + 1, node |-> FALSE])

\* link_case writes the :Case node before the row is committed, and after it
\* was rolled back where the handler has not noticed.
LinkCase(k) ==
    /\ case[k].phase \in {"open", "lost"}
    /\ CaseStep(k, [case[k] EXCEPT !.node = TRUE])

\* A case whose trace failed is committed without a node.
CommitCase(k) ==
    /\ case[k].phase = "open"
    /\ CaseStep(k, [case[k] EXCEPT !.phase = "committed"])

\* The row is rolled back; its node stays, and the next case has its number.
AbandonCase(k) ==
    /\ case[k].phase = "open"
    /\ CaseStep(k, [case[k] EXCEPT !.phase = "lost"])

\* A clustering pass merges clusters and may change their keys.
Recluster ==
    /\ \E m \in Clusterings :
          /\ \A a \in Addresses : Together(member, a) \subseteq Together(m, a)
          /\ member' = m
    /\ member' # member
    /\ UNCHANGED <<ledger, edges, paid, tags, case, request, saved>>

-----------------------------------------------------------------------------
(* analyse_wallet *)

Asks(r) == request' = r /\ UNCHANGED <<graphVars, saved>>

\* The request ends with an error, and nothing of it is left.
Fails == Asks([Idle EXCEPT !.phase = "failed"])

TracePath ==
    /\ request.phase = "idle"
    /\ \E t \in Traces(edges, tags, Root, Depth, MaxNodes) :
          Asks([request EXCEPT !.phase = "traced", !.began = Now, !.trace = t])

\* The nearest tagged terminal, or the reported address itself.
FindTerminals ==
    LET found == Terminals(edges, tags, Root, Depth) IN
    /\ request.phase = "traced"
    /\ ~Refused(tags, Root)
    /\ \/ \E a \in found : Asks([request EXCEPT !.phase = "targeted", !.target = a])
       \/ /\ found = {}
          /\ request.trace.hops # {}
          /\ Asks([request EXCEPT !.phase = "targeted", !.target = Root])
       \/ /\ found = {}
          /\ request.trace.hops = {}
          /\ Asks([request EXCEPT !.phase = "unreached"])

\* Neo4j's error is a 500.
FindTerminalsFails ==
    /\ request.phase = "traced"
    /\ Refused(tags, Root)
    /\ Fails

\* Without flow, 404 for a wallet that no intake has committed.
FindWallet ==
    /\ request.phase = "unreached"
    /\ IF \E k \in Committed : CaseRoot[k] = Root
       THEN Asks([request EXCEPT !.phase = "targeted", !.target = Root])
       ELSE Fails

LookUpTags ==
    LET found == A!LookupTags(tags, member, request.target) IN
    /\ request.phase = "targeted"
    /\ \/ \E t \in A!BestTags(found) :
             Asks([request EXCEPT !.phase = "attributed",
                                  !.attribution = A!Tagged(t, member[request.target])])
       \/ found = {} /\ Asks([request EXCEPT !.phase = "unnamed"])

ClassifyBehaviour ==
    /\ request.phase = "unnamed"
    /\ Asks([request EXCEPT !.phase = "attributed",
                            !.attribution = A!Classified(edges, member, request.target)])

FindHits ==
    LET at == R!Target(tags, member, request.attribution.key, request.attribution.name) IN
    /\ request.phase = "attributed"
    /\ \E h \in R!Hits(edges, at, Nodes) : Asks([request EXCEPT !.phase = "hit", !.hits = h])

ReadCases ==
    /\ request.phase = "hit"
    /\ Asks([request EXCEPT !.phase = "scored", !.hits = R!Contributions(@, Rows)])

\* _persist: one transaction, and nothing to score without a name or a cluster.
PersistScore ==
    /\ request.phase = "scored"
    /\ request' = [request EXCEPT !.phase = "stored"]
    /\ saved' = IF request.attribution.name = NULL /\ request.attribution.key = NULL
                THEN saved
                ELSE saved \cup {[name |-> request.attribution.name, key |-> request.attribution.key,
                                  contributions |-> request.hits]}
    /\ UNCHANGED graphVars

\* Another analysis inserted the same Entity or Cluster first, or the database
\* refuses: the request ends with a 500.
PersistFails ==
    /\ request.phase = "scored"
    /\ Fails

-----------------------------------------------------------------------------
(* get_exposure *)

DetectDirect ==
    LET found == DirectRows(edges, tags, Root) IN
    /\ request.phase = "idle"
    /\ Asks([request EXCEPT
          !.began = Now,
          !.phase = IF found = {} THEN "undirected" ELSE "found",
          !.kind  = IF found = {} THEN NULL ELSE "direct",
          !.candidates = {[service |-> r.tag.name, addresses |-> {r.edge.to}, hop |-> 1,
                           volume |-> r.edge.attributed, counterparties |-> {Root}] : r \in found}])

FindServices ==
    /\ request.phase = "undirected"
    /\ \E listed \in Limited(Reached(edges, Root, SearchDepth(Depth)), MaxNodes) :
          LET rows == ServiceRows(edges, tags, Root, SearchDepth(Depth), listed)
          IN  Asks([request EXCEPT !.phase = IF rows = {} THEN "found" ELSE "serviced",
                                   !.kind  = IF rows = {} THEN "none" ELSE "indirect",
                                   !.rows  = rows])

CollectArrivals ==
    /\ request.phase = "serviced"
    /\ Asks([request EXCEPT !.phase = "found", !.rows = {},
                            !.candidates = Candidates(edges, Root, SearchDepth(Depth), request.rows)])

\* _persist; a failure is logged and the officer has the answer all the same.
PersistExposure ==
    /\ request.phase = "found"
    /\ request' = [request EXCEPT !.phase = "filed"]
    /\ saved' \in {saved, saved \cup {[kind |-> request.kind, candidates |-> request.candidates]}}
    /\ UNCHANGED graphVars

-----------------------------------------------------------------------------
Init ==
    /\ ledger \in Ledgers
    /\ edges = {}
    /\ paid = [a \in Addresses |-> 0]
    /\ tags \in TagSets
    /\ member = [a \in Addresses |-> NULL]
    /\ case = [k \in Cases |-> [phase |-> "none", number |-> 0, node |-> FALSE]]
    /\ request = Idle
    /\ saved = {}

Intakes ==
    \/ WriteTransaction
    \/ \E k \in Cases : OpenCase(k) \/ LinkCase(k) \/ CommitCase(k) \/ AbandonCase(k)
    \/ Recluster

AnalyseWallet ==
    \/ TracePath \/ FindTerminals \/ FindTerminalsFails \/ FindWallet
    \/ LookUpTags \/ ClassifyBehaviour \/ FindHits \/ ReadCases \/ PersistScore \/ PersistFails

GetExposure == DetectDirect \/ FindServices \/ CollectArrivals \/ PersistExposure

Next == Intakes \/ AnalyseWallet \/ GetExposure

Spec == Init /\ [][Next]_vars

-----------------------------------------------------------------------------
(* Properties *)

\* Every variable has the shape its definition says, a stored score has a target
\* and a stored exposure has candidates unless there are none.
TypeOK ==
    /\ \A e \in edges : e.from \in Addresses /\ e.to \in Addresses \ {e.from} /\ e.attributed \in Nat
    /\ \A e, f \in edges : SameEdge(e, f) => e = f
    /\ paid \in [Addresses -> Nat]
    /\ member \in [Addresses -> Addresses \cup {NULL}]
    /\ case \in [Cases -> Case]
    /\ request.phase \in {"idle"} \cup WalletPhases \cup ExposurePhases
    /\ request.attribution # NULL =>
          request.attribution \in
              A!AttributionResult(Names, ServiceTypes \cup {"unknown"}, Addresses)
    /\ request.candidates \subseteq Features
    /\ Cardinality(saved) <= 1
    /\ \A row \in saved :
          \/ row \in RiskScore /\ (row.name # NULL \/ row.key # NULL)
          \/ row \in ServiceExposureRecord /\ (row.kind = "none" <=> row.candidates = {})

\* A trace that does not say it was cut lists every address whose money could
\* be followed when the handler began, and flags a mixer that has no other
\* label; and what the next query attributes is a terminal as near as any the
\* trace lists, although the graph grew in between.
TraceCoversReach ==
    LET t == request.trace IN
    t # NULL =>
        /\ ~t.truncated =>
              /\ {h.address : h \in t.hops} = Reached(request.began.edges, Root, Depth)
              /\ t.mixer \/ \A h \in t.hops :
                    TagsOn(tags, h.address) = {}
                    \/ \E u \in TagsOn(tags, h.address) : u.type # "mixer"
        /\ request.target # NULL => \A h \in t.hops :
              (\E u \in TagsOn(tags, h.address) : u.type \in TerminalTypes)
                  => /\ request.target # Root
                     /\ Hop(edges, Root, Depth, request.target) <= h.hop

\* A name comes from a curated tag of the cluster and from nothing else, an
\* address that has a tag of its own is never left without a name or named by a
\* weaker one, and this stays so when clusters merge later.
NamesAreCurated ==
    LET n == request.attribution IN
    n # NULL =>
        /\ n.name # NULL => \E t \in tags :
              /\ t.name = n.name /\ t.address = n.matched
              /\ t.address \in A!MembersOf(member, request.target)
              /\ \A u \in TagsOn(tags, request.target) : u.confidence <= t.confidence
        /\ n.name = NULL => TagsOn(tags, request.target) = {}

\* Every contribution names a committed case, and money that reaches its terminal
\* address: the case's own, or that of a rolled-back intake which had the same
\* number and left its node.  No committed case whose own money reached the
\* entity when the handler began is missing, unless the clusters were computed
\* anew in between.
ScoreNamesItsCases ==
    LET n      == request.attribution
        began  == request.began
        target == R!Target(tags, began.member, n.key, n.name)
    IN  request.phase \in {"scored", "stored"} =>
        /\ \A h \in request.hits :
              /\ case[h.case].phase = "committed"
              /\ \/ h.node = h.case
                 \/ case[h.node].phase = "lost" /\ case[h.node].number = case[h.case].number
              /\ h.terminal \in Within(edges, CaseRoot[h.node], R!ReachDepth)
        /\ member = began.member =>
              \A k \in began.cases :
                  R!Ends(began.edges, target, CaseRoot[k]) # {}
                      => \E h \in request.hits : h.case = k /\ h.node = k

\* The volume of a candidate is never more than its addresses were paid, and
\* every payer within reach when the handler began is counted, however labels
\* repeat, paths converge and transfers arrive between the two queries.
VolumeIsConserved ==
    \A c \in request.candidates :
        /\ c.volume <= SumFunctionOnSet(paid, c.addresses)
        /\ request.kind = "indirect" =>
              {e.from : e \in UNION {Arrivals(request.began.edges, Root, Depth, a) : a \in c.addresses}}
                  \subseteq c.counterparties

\* "No service exposure found within the searched depth" is so, as long as the
\* limit on paths, which counts addresses of every kind, was not reached.
NoneMeansNone ==
    request.kind = "none" /\ Cardinality(Reached(edges, Root, Depth)) <= MaxNodes
        => \A a \in Reached(request.began.edges, Root, Depth) : ServiceTags(tags, a) = {}
=============================================================================
