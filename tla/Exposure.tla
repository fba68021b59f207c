------------------------------- MODULE Exposure -------------------------------
(* Direct exposure, and the candidates of an indirect one                  *)
(* (services/exposure.py).  Prices, timing and the weighted ranking of the *)
(* candidates are left out: a candidate is what was found and measured.    *)
EXTENDS ChainGraph, Functions

ServiceTypes ==
    {"exchange", "mixer", "sanctioned", "payment_processor", "gambling", "darknet"}

ServiceTags(tags, a) == {t \in tags : t.address = a /\ t.type \in ServiceTypes}

\* Slip: an exclusive upper bound.
SearchDepthExclusive(maxHops) == IF maxHops > 8 THEN 8 ELSE IF maxHops < 2 THEN 1 ELSE maxHops - 1

\* max(1, min(max_hops, 8))
SearchDepth(maxHops) == IF maxHops > 8 THEN 8 ELSE IF maxHops < 1 THEN 1 ELSE maxHops

\* _DIRECT: transfers from root to a labelled service, one row for each label.
DirectRows(edges, tags, root) ==
    {[edge |-> p[1], tag |-> p[2]] :
        p \in {q \in edges \X tags : q[1].from = root /\ q[2] \in ServiceTags(tags, q[1].to)}}

\* _INDIRECT: the limit counts addresses of every kind, the label comes after it.
ServiceRows(edges, tags, root, depth, listed) ==
    {[address |-> t.address, service |-> t.name, source |-> t.source,
      hop |-> Hop(edges, root, depth, t.address)] :
        t \in {u \in tags : u.address \in listed /\ u.type \in ServiceTypes}}

\* _ARRIVALS: transfers onto the service from root or what it reaches.
Arrivals(edges, root, depth, address) ==
    {e \in edges : e.to = address /\ e.from \in Within(edges, root, depth)}

\* Slip: no _terminal_transfers, each row bringing its own arrivals.
VolumePerRow(rows, arrivals) ==
    SumFunction([r \in rows |->
        SumFunction([e \in {f \in arrivals : f.to = r.address} |-> e.attributed])])

\* total_volume: _terminal_transfers lets each transfer count once.
Volume(rows, arrivals) ==
    SumFunction([e \in {f \in arrivals : \E r \in rows : f.to = r.address} |-> e.attributed])

\* What is kept of a candidate: no prices, no times, no score.
PathFeatures(services, addresses) ==
    [service : services, addresses : SUBSET addresses, hop : 1..8, volume : Nat,
     counterparties : SUBSET addresses]

\* extract_path_features for the rows of one service.
Candidate(service, rows, arrivals) ==
    [service       |-> service,
     addresses     |-> {r.address : r \in rows},
     hop           |-> CHOOSE n \in {r.hop : r \in rows} : \A r \in rows : n <= r.hop,
     volume        |-> Volume(rows, arrivals),
     counterparties |-> {e.from : e \in {f \in arrivals : \E r \in rows : f.to = r.address}}]

\* group_by_service over the rows of one query and the arrivals of the next.
Candidates(edges, root, depth, rows) ==
    LET arrivals == UNION {Arrivals(edges, root, depth, r.address) : r \in rows}
    IN  {Candidate(s, {r \in rows : r.service = s}, arrivals) : s \in {r.service : r \in rows}}
=============================================================================
