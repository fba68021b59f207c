------------------------------ MODULE ChainGraph ------------------------------
(***************************************************************************)
(* What the Cypher queries of the analysis services ask of the graph: who  *)
(* is within reach of an address, and how far away.  Edges are records     *)
(* with the fields from and to; shortestPath never returns to its start.   *)
(***************************************************************************)
EXTENDS Naturals, FiniteSets

\* The addresses on a path of at most d transfers from root, root included.
Within(edges, root, d) ==
    LET Further(near) == near \cup {e.to : e \in {f \in edges : f.from \in near}}
        upTo[n \in 0..d] == IF n = 0 THEN {root} ELSE Further(upTo[n - 1])
    IN  upTo[d]

\* Those a shortestPath query with *1..d finds.
Reached(edges, root, d) == Within(edges, root, d) \ {root}

\* length(p) of the shortest path, for an address within d.
Hop(edges, root, d, a) ==
    CHOOSE n \in 0..d :
        /\ a \in Within(edges, root, n)
        /\ n > 0 => a \notin Within(edges, root, n - 1)

\* LIMIT n without an ORDER BY: any n of them, or all.
Limited(found, n) ==
    {some \in SUBSET found :
        Cardinality(some) = IF Cardinality(found) <= n THEN Cardinality(found) ELSE n}

\* The nearest of a set of addresses within d; any of them may be the first row.
Nearest(edges, root, d, some) ==
    {a \in some : \A b \in some : Hop(edges, root, d, a) <= Hop(edges, root, d, b)}
=============================================================================
