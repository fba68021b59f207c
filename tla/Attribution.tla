----------------------------- MODULE Attribution -----------------------------
(* attribute: curated tags of the cluster first, then a category without a *)
(* name from how the cluster behaves (services/attribution.py).            *)
EXTENDS Naturals, FiniteSets

CONSTANT NULL

AttributionResult(names, types, addresses) ==
    [name : names \cup {NULL}, type : types, matched : addresses \cup {NULL},
     key : addresses \cup {NULL}]

\* The addresses of a's cluster; of an address in none, itself.
MembersOf(member, a) ==
    IF member[a] = NULL THEN {a} ELSE {b \in DOMAIN member : member[b] = member[a]}

\* Slip: an address outside every cluster has no members to look at.
LookupClustersOnly(tags, member, a) ==
    {t \in tags : member[t.address] # NULL /\ member[t.address] = member[a]}

LookupTags(tags, member, a) == {t \in tags : t.address \in MembersOf(member, a)}

\* tags[0]: the best confidence; names decide a tie, here any may come first.
BestTags(found) == {t \in found : \A u \in found : u.confidence <= t.confidence}

Tagged(t, key) ==
    [name |-> t.name, type |-> t.type, matched |-> t.address, key |-> key]

ExchangeMinCounterparties == 8
ExchangeMinTx == 10

\* classify_category
Category(senders, receivers, incoming) ==
    IF senders >= ExchangeMinCounterparties /\ incoming >= ExchangeMinTx THEN "exchange"
    ELSE IF senders + receivers >= ExchangeMinCounterparties THEN "payment_processor"
    ELSE "unknown"

\* behavioural_features, then the category: never a name.
Classified(edges, member, a) ==
    LET of   == MembersOf(member, a)
        into == {e \in edges : e.to \in of}
        out  == {e \in edges : e.from \in of}
    IN  [name    |-> NULL,
         type    |-> Category(Cardinality({e.from : e \in into}),
                              Cardinality({e.to : e \in out}), Cardinality(into)),
         matched |-> NULL, key |-> member[a]]
=============================================================================
