------------------------------ MODULE Clustering ------------------------------
(***************************************************************************)
(* Address clustering (services/clustering.py) over the graph that         *)
(* services/graph_writer.py grows one intake at a time.                    *)
(*                                                                         *)
(* A pass asserts SAME_OWNER relationships by two heuristics, projects     *)
(* them into a named GDS graph, reads its connected components back, and   *)
(* writes them as :Cluster nodes and MEMBER_OF relationships.  Every query *)
(* is a transaction of its own: a failure or a restart of Neo4j between    *)
(* two of them leaves the earlier ones done.                               *)
(*                                                                         *)
(* Passes follow one another, which is an assumption: a pass is part of an *)
(* intake, and an intake holds its case number until it commits, as long   *)
(* as PostgreSQL does not end its session (OneOpenCase in module Intake).  *)
(***************************************************************************)
EXTENDS Naturals, Sequences, FiniteSets

CONSTANTS
    Addresses,  \* address_norm values; their order is the lexicographic one
    Tagged,     \* addresses the tag seed may create before they are traced
    Ledgers     \* chains considered: sequences of [chain, time, inputs, outputs]

\* Addresses are strings of bounded length, in their lexicographic order.
ASSUME AddressAssumption ==
    Addresses \subseteq Nat /\ IsFiniteSet(Addresses) /\ Tagged \subseteq Addresses
ASSUME LedgersAssumption ==
    \A l \in Ledgers : \A t \in DOMAIN l :
        /\ l[t].time \in Nat
        /\ l[t].inputs \in Seq(Addresses) /\ l[t].outputs \in Seq(Addresses)

UTXO_CHAINS == {"BTC"}

VARIABLES
    ledger,     \* the chain this deployment looks at; never changes
    written,    \* transactions in the graph
    seeded,     \* addresses the tag seed created: their first_seen is null
    counted,    \* addresses with tx_count > 0
    owner,      \* SAME_OWNER relationships: <<from, to, heuristic>>
    projection, \* the GDS catalogue under "sameOwnerGraph": no graph or one
    components, \* what the running pass read from gds.wcc.stream
    cluster,    \* :Cluster nodes: [key, size]
    member,     \* MEMBER_OF relationships: <<address, key>>
    pc          \* step of the running pass

vars == <<ledger, written, seeded, counted, owner, projection, components,
          cluster, member, pc>>

Steps == <<"written", "counted", "paired", "linked", "cleared", "projected",
           "streamed", "resolved", "stored">>
Running == {Steps[i] : i \in 1..Len(Steps)}
Resting == {"idle", "done", "failed"}

-----------------------------------------------------------------------------
(* The graph *)

Items(s) == {s[i] : i \in 1..Len(s)}
Inputs(t)  == Items(ledger[t].inputs)
Outputs(t) == Items(ledger[t].outputs)
Involves(t, a) == a \in Inputs(t) \cup Outputs(t)

Seen == {a \in Addresses : \E t \in written : Involves(t, a)}
Nodes == Seen \cup seeded

\* Address.first_seen is the earliest timestamp the writer met, and stays null
\* on a node the tag seed created first: `null > x` is not true.
HasFirstSeen(a) == a \in Seen \ seeded
Debut(a, t) ==      \* a.first_seen >= t.timestamp
    HasFirstSeen(a) /\ \A u \in written : Involves(u, a) => ledger[u].time >= ledger[t].time

Utxo == ledger[1].chain \in UTXO_CHAINS

Init ==
    /\ ledger \in Ledgers
    /\ written = {} /\ seeded = {} /\ counted = {}
    /\ owner = {} /\ projection = {} /\ components = {}
    /\ cluster = {} /\ member = {}
    /\ pc = "idle"

\* ml/src/seed_tags.py: MERGE creates the nodes that are not there yet.
SeedTags ==
    /\ ~(Tagged \subseteq Nodes)
    /\ seeded' = seeded \cup (Tagged \ Seen)
    /\ UNCHANGED <<ledger, written, counted, owner, projection, components,
                   cluster, member, pc>>

\* write_transactions: MERGE of one batch, known transactions included.
WriteTransactions(batch) ==
    /\ pc \in Resting
    /\ written' = written \cup batch
    /\ pc' = "written"
    /\ UNCHANGED <<ledger, seeded, counted, owner, projection, components,
                   cluster, member>>

\* _REFRESH_TX_COUNT: count(*) over an OPTIONAL MATCH counts the empty row, so
\* every node of the chain, traced or not, ends with tx_count >= 2.
RefreshTxCount ==
    /\ pc = "written"
    /\ counted' = Nodes
    /\ pc' = "counted"
    /\ UNCHANGED <<ledger, written, seeded, owner, projection, components,
                   cluster, member>>

-----------------------------------------------------------------------------
(* The two heuristics *)

\* _COMMON_INPUT: the addresses that sign one transaction.
CoSpent == {p \in Addresses \X Addresses :
                p[1] < p[2] /\ \E t \in written : {p[1], p[2]} \subseteq Inputs(t)}

\* One row of _CHANGE_ADDRESS per output, and per input its address also has.
Spends(t, a) == Cardinality({i \in 1..Len(ledger[t].inputs) : ledger[t].inputs[i] = a})
OneRowEach(t) == \A i \in 1..2 : Spends(t, ledger[t].outputs[i]) <= 1

Fresh(t, i) == LET o == ledger[t].outputs[i] IN Debut(o, t) /\ o \notin Inputs(t)

\* A slip: the first fresh output is taken, whatever the other one is.
IsFirstFresh(t, i) ==
    Len(ledger[t].outputs) = 2 /\ OneRowEach(t) /\ Fresh(t, i)

\* The output of t that is its change: the only fresh one of two.
IsChange(t, i) ==
    /\ Len(ledger[t].outputs) = 2 /\ OneRowEach(t)
    /\ Fresh(t, i) /\ ~Fresh(t, 3 - i)

Change == {p \in Addresses \X Addresses :
               \E t \in written, i \in 1..2 :
                   IsChange(t, i) /\ p[1] \in Inputs(t) /\ p[2] = ledger[t].outputs[i]}

Asserted(pairs, heuristic) == owner \cup {<<p[1], p[2], heuristic>> : p \in pairs}

ApplyCommonInput ==
    /\ pc = "counted" /\ Utxo
    /\ owner' = Asserted(CoSpent, "common_input_ownership")
    /\ pc' = "paired"
    /\ UNCHANGED <<ledger, written, seeded, counted, projection, components, cluster, member>>

ApplyChangeAddress ==
    /\ pc = "paired"
    /\ owner' = Asserted(Change, "change_address")
    /\ pc' = "linked"
    /\ UNCHANGED <<ledger, written, seeded, counted, projection, components, cluster, member>>

-----------------------------------------------------------------------------
(* resolve_clusters *)

\* A slip: the graph a dead pass left in the catalogue stays there.
KeepStale ==
    /\ pc = "linked"
    /\ pc' = "cleared"
    /\ UNCHANGED <<ledger, written, seeded, counted, owner, projection, components,
                   cluster, member>>

DropStale ==
    /\ pc = "linked"
    /\ projection' = {}
    /\ pc' = "cleared"
    /\ UNCHANGED <<ledger, written, seeded, counted, owner, components, cluster, member>>

\* gds.graph.project refuses a name that is taken.
Project ==
    /\ pc = "cleared" /\ projection = {}
    /\ projection' = {{<<e[1], e[2]>> : e \in owner}}
    /\ pc' = "projected"
    /\ UNCHANGED <<ledger, written, seeded, counted, owner, components, cluster, member>>

\* Weakly connected components: b is with a when no set of addresses separates
\* them without an edge across it.
Closed(S, edges) == \A e \in edges : e[1] \in S <=> e[2] \in S
Component(a, edges) ==
    {b \in Addresses : \A S \in SUBSET Addresses : Closed(S, edges) /\ a \in S => b \in S}

\* Only addresses "actually seen": tx_count > 0, or a relationship.
Eligible == counted \cup Seen

StreamComponents ==
    /\ pc = "projected"
    /\ \E edges \in projection :
          components' = {Component(a, edges) \cap Eligible : a \in Eligible}
    /\ pc' = "streamed"
    /\ UNCHANGED <<ledger, written, seeded, counted, owner, projection, cluster, member>>

\* A slip: old memberships are cleared ahead of the write, in their own query.
ClearMemberships ==
    /\ pc = "streamed"
    /\ projection' = {}
    /\ member' = {m \in member : \A S \in components : m[1] \notin S}
    /\ pc' = "resolved"
    /\ UNCHANGED <<ledger, written, seeded, counted, owner, components, cluster>>

DropProjection ==
    /\ pc = "streamed"
    /\ projection' = {}
    /\ pc' = "resolved"
    /\ UNCHANGED <<ledger, written, seeded, counted, owner, components, cluster, member>>

Smallest(S) == CHOOSE a \in S : \A b \in S : a <= b

\* A slip: the other members are counted.
SizedByOthers(S, n) == [key |-> Smallest(S), size |-> n - 1]

Sized(S, n) == [key |-> Smallest(S), size |-> n]
Rekeyed == {c \in cluster : \A S \in components : c.key # Smallest(S)}
Joined == UNION {S \X {Smallest(S)} : S \in components}

\* A slip: stale memberships are not deleted.
WriteKeepingOld ==
    /\ pc = "resolved"
    /\ cluster' = Rekeyed \cup {Sized(S, Cardinality(S)) : S \in components}
    /\ member' = member \cup Joined
    /\ components' = {} /\ pc' = "stored"
    /\ UNCHANGED <<ledger, written, seeded, counted, owner, projection>>

\* _WRITE_CLUSTERS: each component under its smallest member's key, and each
\* member out of any other cluster.
WriteClusters ==
    /\ pc = "resolved"
    /\ cluster' = Rekeyed \cup {Sized(S, Cardinality(S)) : S \in components}
    /\ member' = {m \in member : \A S \in components : m[1] \in S => m[2] = Smallest(S)}
                    \cup Joined
    /\ components' = {} /\ pc' = "stored"
    /\ UNCHANGED <<ledger, written, seeded, counted, owner, projection>>

\* A slip: emptied clusters are left.
PruneNothing ==
    /\ pc = "stored"
    /\ pc' = "done"
    /\ UNCHANGED <<ledger, written, seeded, counted, owner, projection, components,
                   cluster, member>>

\* _PRUNE_EMPTY_CLUSTERS
Prune ==
    /\ pc = "stored"
    /\ cluster' = {c \in cluster : \E m \in member : m[2] = c.key}
    /\ pc' = "done"
    /\ UNCHANGED <<ledger, written, seeded, counted, owner, projection, components, member>>

\* Account chains: one cluster per address, one query.
ResolveAccounts ==
    /\ pc = "counted" /\ ~Utxo
    /\ cluster' = cluster \cup {[key |-> a, size |-> 1] : a \in Eligible}
    /\ member' = member \cup {<<a, a>> : a \in Eligible}
    /\ pc' = "done"
    /\ UNCHANGED <<ledger, written, seeded, counted, owner, projection, components>>

\* A query fails or its process dies; the intake notes a failed trace and its
\* case stands.  The projection lives in Neo4j's memory: it survives the
\* process, not a restart of Neo4j, and `finally` drops it if it can.
Fail ==
    /\ pc \in Running
    /\ projection' \in {projection, {}}
    /\ components' = {}
    /\ pc' = "failed"
    /\ UNCHANGED <<ledger, written, seeded, counted, owner, cluster, member>>

Pass ==
    \/ RefreshTxCount \/ ApplyCommonInput \/ ApplyChangeAddress
    \/ DropStale \/ Project \/ StreamComponents \/ DropProjection
    \/ WriteClusters \/ Prune \/ ResolveAccounts

Next ==
    \/ SeedTags
    \/ \E batch \in (SUBSET (1..Len(ledger))) \ {{}} : WriteTransactions(batch)
    \/ Pass
    \/ Fail

\* A running pass goes on to its next query; nothing obliges a new intake.
Spec == Init /\ [][Next]_vars /\ WF_vars(Pass)

-----------------------------------------------------------------------------
TypeOK ==
    /\ written \subseteq 1..Len(ledger)
    /\ seeded \subseteq Tagged /\ counted \subseteq Addresses
    /\ owner \subseteq Addresses \X Addresses \X {"common_input_ownership", "change_address"}
    /\ projection \subseteq SUBSET (Addresses \X Addresses) /\ Cardinality(projection) <= 1
    /\ components \subseteq SUBSET Addresses
    /\ cluster \subseteq [key : Addresses, size : 1..Cardinality(Addresses)]
    /\ member \subseteq Addresses \X Addresses
    /\ pc \in Running \cup Resting

\* "No address may belong to two clusters" (test_clustering.py): not while a
\* pass runs, nor after one that failed half-way, nor when a smaller address
\* joins and the cluster's key changes.
OneClusterPerAddress ==
    \A m, n \in member : m[1] = n[1] => m[2] = n[2]

Together(a, b) == \E k \in Addresses : <<a, k>> \in member /\ <<b, k>> \in member

\* No address is ever in two clusters, and after a completed pass
\* the clusters are the connected components of what the
\* two heuristics assert, whatever earlier passes left behind, each under its
\* smallest member, with its true size, and none is empty.
ClustersAreComponents ==
    /\ OneClusterPerAddress
    /\ pc = "done" =>
          /\ \A a, b \in Seen :
                Together(a, b) <=>
                    \A S \in SUBSET Addresses : Closed(S, owner) => (a \in S <=> b \in S)
          /\ \A c \in cluster :
                LET mine == {a \in Addresses : <<a, c.key>> \in member}
                IN  mine # {} /\ c.key = Smallest(mine) /\ c.size = Cardinality(mine)

\* Two addresses once attributed to one owner are never taken apart again by a
\* later pass, finished or not.
NeverSplit ==
    [][\A a, b \in Addresses : Together(a, b) => Together(a, b)']_vars

\* "abstains when ambiguous" (docs/architecture.md:93): a change output was
\* chosen only over an output known from before, spent from in the same
\* transaction or created by the tag seed; never over another debut.
AbstainsWhenAmbiguous ==
    \A e \in owner : e[3] = "change_address" =>
        \E t \in written, i \in 1..2 :
            /\ Len(ledger[t].outputs) = 2
            /\ e[1] \in Inputs(t) /\ e[2] = ledger[t].outputs[i] /\ e[2] \notin Inputs(t)
            /\ LET other == ledger[t].outputs[3 - i]
               IN  \/ other \in seeded \cup Inputs(t)
                   \/ \E u \in written : Involves(u, other) /\ ledger[u].time < ledger[t].time

\* A pass ends, also after one that died and left its projection behind.
EveryPassEnds == pc \in Running ~> pc \in Resting
=============================================================================
