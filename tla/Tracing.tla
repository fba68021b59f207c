------------------------------- MODULE Tracing -------------------------------
(* trace_path and terminal_attributions (services/tracing.py).            *)
EXTENDS ChainGraph, Functions

TagsOn(tags, a) == {t \in tags : t.address = a}

\* Slip: a list as long as the limit taken for the whole one.
TruncatedPast(rows, maxNodes) == rows > maxNodes

\* truncated: len(rows) >= max_nodes, which more than one tag can only raise.
Truncated(rows, maxNodes) == rows >= maxNodes

\* One row for each address and tag, or without a tag.
RowCount(tags, listed) ==
    SumFunction([a \in listed |-> LET n == Cardinality(TagsOn(tags, a)) IN IF n = 0 THEN 1 ELSE n])

\* nodes.setdefault keeps the first row of an address, and the rows of one
\* address are in no order: with two tags either may be the one that is seen.
MixerHits(tags, listed) ==
    {hit \in BOOLEAN :
        IF hit THEN \E a \in listed : \E t \in TagsOn(tags, a) : t.type = "mixer"
        ELSE \A a \in listed : TagsOn(tags, a) = {} \/ \E t \in TagsOn(tags, a) : t.type # "mixer"}

\* Every answer trace_path may give.
Traces(edges, tags, root, depth, maxNodes) ==
    UNION {{[hops      |-> {[address |-> a, hop |-> Hop(edges, root, depth, a)] : a \in listed},
             truncated |-> Truncated(RowCount(tags, listed), maxNodes),
             mixer     |-> hit] : hit \in MixerHits(tags, listed)} :
           listed \in Limited(Reached(edges, root, depth), maxNodes)}

TerminalTypes == {"exchange", "sanctioned", "payment_processor", "gambling"}

\* terminal_attributions asks for a shortestPath to every address that carries
\* such a tag, and Neo4j refuses one whose ends are the same address.
Refused(tags, root) == \E t \in TagsOn(tags, root) : t.type \in TerminalTypes

\* terminal_attributions, as far as its caller looks: the rows at its top.
Terminals(edges, tags, root, depth) ==
    Nearest(edges, root, depth,
        {a \in Reached(edges, root, depth) :
            \E t \in TagsOn(tags, a) : t.type \in TerminalTypes})
=============================================================================
