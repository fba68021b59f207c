--------------------------------- MODULE Risk ---------------------------------
(* score_entity (services/risk.py): which cases' money reaches an entity,  *)
(* asked of the graph, and what of them the case table knows.  Age and     *)
(* decay, the saturation curve and the classifier's advisory points only   *)
(* weigh what is found here.                                               *)
EXTENDS ChainGraph

CONSTANT NULL

\* The reachability query looks this far, whatever depth the trace had.
ReachDepth == 8

\* The addresses that belong to the cluster, or carry the entity's name.
Target(tags, member, key, name) ==
    {a \in DOMAIN member :
        \/ key # NULL /\ member[a] = key
        \/ name # NULL /\ \E t \in tags : t.address = a /\ t.name = name}

\* Where the money reported at root, or root itself, meets the target.
Ends(edges, target, root) == Within(edges, root, ReachDepth) \cap target

\* Slip: the LIMIT 1 of the subquery on the whole query.
HitsOfOne(edges, target, nodes) ==
    LET found == {k \in nodes : Ends(edges, target, k.root) # {}}
    IN  IF found = {} THEN {{}}
        ELSE {{[node |-> k.case, number |-> k.number,
                terminal |-> CHOOSE a \in Ends(edges, target, k.root) : TRUE]} : k \in found}

\* cases_terminating_at: every reported case that meets it, with one of the
\* addresses where it does.  All the answers the query may give.
Hits(edges, target, nodes) ==
    LET found == {k \in nodes : Ends(edges, target, k.root) # {}}
    IN  {{[node |-> k.case, number |-> k.number, terminal |-> pick[k]] : k \in found} :
            pick \in {f \in [found -> target] : \A k \in found : f[k] \in Ends(edges, target, k.root)}}

\* A hit contributes to the row that has its number, whichever intake wrote the
\* node; without such a row it is dropped.
Contributions(hits, rows) ==
    {[case |-> p[2].case, node |-> p[1].node, terminal |-> p[1].terminal] :
        p \in {q \in hits \X rows : q[1].number = q[2].number}}
=============================================================================
