---------------------------- MODULE ClusteringProofs ----------------------------
(***************************************************************************)
(* What a clustering pass leaves behind, for every chain, every order of   *)
(* passes and every point at which one fails.                              *)
(***************************************************************************)
EXTENDS Clustering, FiniteSetTheorems, WellFoundedInduction, TLAPS

\* No set of addresses tells a from b without an assertion across its edge.
SameOwner(a, b) ==
    \A S \in SUBSET Addresses : Closed(S, owner) => (a \in S <=> b \in S)

Edges == {<<e[1], e[2]>> : e \in owner}

\* The component of a, as far as it is in the graph.
Part(a) == {b \in Eligible : SameOwner(a, b)}

Mine(k) == {a \in Addresses : <<a, k>> \in member}

Shape ==
    /\ ledger \in Ledgers
    /\ seeded \subseteq Addresses /\ counted \subseteq Nodes
    /\ owner \subseteq Addresses \X Addresses \X {"common_input_ownership", "change_address"}
    /\ member \subseteq Addresses \X Addresses

\* The pass works on the components of what is asserted now.
PassInv ==
    /\ pc = "projected" => projection = {Edges}
    /\ pc \in {"streamed", "resolved"} => components = {Part(a) : a \in Eligible}

\* An address is with its key, and keys are addresses of the graph.
MemberInv == \A m \in member : m[1] \in Eligible /\ m[2] \in Eligible /\ SameOwner(m[1], m[2])

\* Account chains: nothing is asserted, and a cluster is one address.
AccountInv ==
    ~Utxo =>
        /\ owner = {}
        /\ pc \notin {"paired", "linked", "cleared", "projected", "streamed", "resolved", "stored"}
        /\ \A c \in cluster : c.size = 1 /\ <<c.key, c.key>> \in member

\* Once the clusters are written: one owner, one cluster, and a cluster that has
\* members has the key and the size of what it holds.
StoredInv ==
    pc \in {"stored", "done"} =>
        /\ \A a, b \in Eligible : SameOwner(a, b) => Together(a, b)
        /\ \A c \in cluster : Mine(c.key) # {} =>
               c.key = Smallest(Mine(c.key)) /\ c.size = Cardinality(Mine(c.key))

PrunedInv == pc = "done" => \A c \in cluster : Mine(c.key) # {}

Inv == Shape /\ PassInv /\ MemberInv /\ AccountInv /\ OneClusterPerAddress /\ StoredInv /\ PrunedInv

-----------------------------------------------------------------------------
(* Sets of addresses *)

LEMMA SmallestIsLeast ==
    ASSUME NEW S, S \subseteq Nat, S # {}
    PROVE  Smallest(S) \in S /\ \A b \in S : Smallest(S) <= b
<1> DEFINE less == {ss \in Nat \X Nat : ss[1] < ss[2]}
<1>1. IsWellFoundedOn(less, Nat)
  BY NatLessThanWellFounded, Zenon DEF OpToRel
<1>2. \A x, y \in Nat : <<y, x>> \in less <=> y < x
  OBVIOUS
<1> HIDE DEF less
<1>3. PICK x \in S : \A y \in S : ~ (<<y, x>> \in less)
  BY <1>1, WFMin
<1>4. \A y \in S : x <= y
  <2>1. ASSUME NEW y \in S PROVE x \in Nat /\ y \in Nat /\ ~ (y < x)
    BY <1>2, <1>3
  <2>. QED
    BY <2>1
<1>. QED
  BY <1>4 DEF Smallest

LEMMA SmallestOfOne ==
    ASSUME NEW a \in Nat
    PROVE  Smallest({a}) = a
  BY SmallestIsLeast

-----------------------------------------------------------------------------
(* Having one owner is an equivalence, and grows with what is asserted. *)

LEMMA SameOwnerIsEquivalence ==
    /\ \A a : SameOwner(a, a)
    /\ \A a, b : SameOwner(a, b) => SameOwner(b, a)
    /\ \A a, b, c : SameOwner(a, b) /\ SameOwner(b, c) => SameOwner(a, c)
  BY DEF SameOwner

LEMMA ClosedByEdges == \A S : Closed(S, Edges) <=> Closed(S, owner)
<1>1. \A e \in owner : <<e[1], e[2]>> \in Edges /\ <<e[1], e[2]>>[1] = e[1] /\ <<e[1], e[2]>>[2] = e[2]
  BY DEF Edges
<1>2. \A d \in Edges : \E e \in owner : d[1] = e[1] /\ d[2] = e[2]
  BY DEF Edges
<1>. QED
  BY <1>1, <1>2 DEF Closed

\* The components that GDS streams.
LEMMA ComponentIsOwner ==
    ASSUME Shape, NEW a \in Addresses
    PROVE  Component(a, Edges) = {b \in Addresses : SameOwner(a, b)}
<1>1. ASSUME NEW b \in Addresses, SameOwner(a, b)
      PROVE  b \in Component(a, Edges)
  BY <1>1, ClosedByEdges DEF SameOwner, Component
<1>2. ASSUME NEW b \in Component(a, Edges), NEW S \in SUBSET Addresses, Closed(S, owner), b \in S
      PROVE  a \in S
  <2>1. Closed(Addresses \ S, owner)
    BY <1>2 DEF Closed, Shape
  <2>2. a \in Addresses \ S => b \in Addresses \ S
    BY <1>2, <2>1, ClosedByEdges DEF Component
  <2>. QED
    BY <1>2, <2>2
<1>3. ASSUME NEW b \in Component(a, Edges), NEW S \in SUBSET Addresses, Closed(S, owner), a \in S
      PROVE  b \in S
  BY <1>3, ClosedByEdges DEF Component
<1>4. \A b \in Component(a, Edges) : b \in Addresses /\ SameOwner(a, b)
  BY <1>2, <1>3 DEF SameOwner, Component
<1>. QED
  BY <1>1, <1>4

LEMMA OwnerGrows ==
    ASSUME owner \subseteq owner', NEW a, NEW b, SameOwner(a, b)
    PROVE  SameOwner(a, b)'
<1>1. \A S : Closed(S, owner') => Closed(S, owner)
  BY DEF Closed
<1>. QED
  BY <1>1 DEF SameOwner

\* Nothing asserted: everyone is alone.
LEMMA AloneWithoutOwners ==
    ASSUME owner = {}, NEW a \in Addresses, NEW b, SameOwner(a, b)
    PROVE  a = b
<1>1. {a} \in SUBSET Addresses /\ Closed({a}, owner)
  BY DEF Closed
<1>. QED
  BY <1>1 DEF SameOwner

-----------------------------------------------------------------------------
(* The parts *)

LEMMA EligibleIsAddress == Shape => Eligible \subseteq Addresses
  BY DEF Shape, Eligible, Seen, Nodes

LEMMA PartsPartition ==
    ASSUME Shape
    PROVE  /\ \A a \in Eligible : a \in Part(a)
           /\ \A a, b \in Eligible : \A x : x \in Part(a) /\ x \in Part(b) => Part(a) = Part(b)
           /\ \A a \in Eligible : Part(a) \subseteq Nat /\ Part(a) # {} /\ Smallest(Part(a)) \in Part(a)
<1>1. \A a \in Eligible : a \in Part(a)
  BY SameOwnerIsEquivalence DEF Part
<1>2. \A a, b \in Eligible : \A x : x \in Part(a) /\ x \in Part(b) => Part(a) = Part(b)
  BY SameOwnerIsEquivalence DEF Part
<1>3. \A a \in Eligible : Part(a) \subseteq Nat /\ Part(a) # {}
  BY <1>1, EligibleIsAddress, AddressAssumption DEF Part
<1>. QED
  BY <1>1, <1>2, <1>3, SmallestIsLeast

\* What _WRITE_CLUSTERS leaves, whatever was there before.
LEMMA WritingReplaces ==
    ASSUME Shape, PassInv, MemberInv, pc = "resolved", WriteClusters
    PROVE  member' = {<<a, Smallest(Part(a))>> : a \in Eligible}
<1>1. components = {Part(a) : a \in Eligible}
  BY DEF PassInv
<1>2. \A a \in Eligible : a \in Part(a)
  BY PartsPartition
<1>3. ASSUME NEW S \in components, NEW a \in S
      PROVE  a \in Eligible /\ S = Part(a)
  <2>1. PICK b \in Eligible : S = Part(b)
    BY <1>1, <1>3
  <2>2. a \in Eligible
    BY <1>3, <2>1 DEF Part
  <2>. QED
    BY <1>2, <2>1, <2>2, PartsPartition
<1>4. ASSUME NEW m \in Joined
      PROVE  \E a \in Eligible : m = <<a, Smallest(Part(a))>>
  <2>1. PICK S \in components : m \in S \X {Smallest(S)}
    BY <1>4 DEF Joined
  <2>2. m[1] \in S /\ m = <<m[1], Smallest(S)>>
    BY <2>1
  <2>. QED
    BY <1>3, <2>2
<1>5. ASSUME NEW a \in Eligible
      PROVE  <<a, Smallest(Part(a))>> \in Joined
  BY <1>1, <1>2 DEF Joined
<1>6. ASSUME NEW m \in member, \A S \in components : m[1] \in S => m[2] = Smallest(S)
      PROVE  \E a \in Eligible : m = <<a, Smallest(Part(a))>>
  <2>1. m[1] \in Eligible /\ m = <<m[1], m[2]>>
    BY <1>6 DEF MemberInv, Shape
  <2>2. m[2] = Smallest(Part(m[1]))
    BY <1>1, <1>2, <1>6, <2>1
  <2>. QED
    BY <2>1, <2>2
<1>7. member' = {m \in member : \A S \in components : m[1] \in S => m[2] = Smallest(S)} \cup Joined
  BY DEF WriteClusters
<1>. QED
  BY <1>4, <1>5, <1>6, <1>7

LEMMA WritingSteps ==
    ASSUME Inv, WriteClusters
    PROVE  Inv' /\ \A a, b \in Addresses : Together(a, b) => Together(a, b)'
<1> DEFINE key(a) == Smallest(Part(a))
<1>1. /\ UNCHANGED <<ledger, written, seeded, counted, owner>>
      /\ pc = "resolved" /\ pc' = "stored" /\ components' = {}
      /\ cluster' = Rekeyed \cup {Sized(S, Cardinality(S)) : S \in components}
  BY DEF WriteClusters
<1>2. Shape /\ PassInv /\ MemberInv /\ components = {Part(a) : a \in Eligible}
  BY <1>1 DEF Inv, PassInv
<1>3. member' = {<<a, key(a)>> : a \in Eligible}
  BY <1>1, <1>2, WritingReplaces
<1>4. Eligible \subseteq Addresses /\ Eligible' = Eligible /\ Utxo' = Utxo
  BY <1>1, <1>2, EligibleIsAddress DEF Eligible, Seen, Involves, Inputs, Outputs, Utxo
<1>5. \A a, b : SameOwner(a, b)' <=> SameOwner(a, b)
  BY <1>1 DEF SameOwner
<1>6. /\ \A a \in Eligible : a \in Part(a) /\ key(a) \in Part(a)
      /\ \A a, b \in Eligible : \A x : x \in Part(a) /\ x \in Part(b) => Part(a) = Part(b)
  BY <1>2, PartsPartition
<1>7. \A a \in Eligible : key(a) \in Eligible /\ SameOwner(a, key(a))
  BY <1>6 DEF Part
<1>8. \A a, b \in Eligible : key(a) = key(b) <=> Part(a) = Part(b)
  BY <1>6
<1>9. \A a, b \in Eligible : SameOwner(a, b) => Part(a) = Part(b)
  <2>1. \A a, b \in Eligible : SameOwner(a, b) => b \in Part(a)
    BY DEF Part
  <2>. QED
    BY <1>6, <2>1
<1> HIDE DEF key
<1>10. Utxo
  BY <1>1 DEF Inv, AccountInv
<1>11. Shape'
  BY <1>1, <1>2, <1>3, <1>4, <1>7 DEF Shape, Nodes, Seen, Involves, Inputs, Outputs
<1>12. MemberInv'
  BY <1>3, <1>4, <1>5, <1>7 DEF MemberInv
<1>13. OneClusterPerAddress'
  BY <1>3 DEF OneClusterPerAddress
<1>14. \A a, b \in Eligible : SameOwner(a, b) => Together(a, b)'
  <2>1. ASSUME NEW a \in Eligible, NEW b \in Eligible, SameOwner(a, b)
        PROVE  <<a, key(a)>> \in member' /\ <<b, key(a)>> \in member' /\ key(a) \in Addresses
    BY <1>3, <1>4, <1>7, <1>8, <1>9, <2>1
  <2>. QED
    BY <2>1 DEF Together
<1>15. \A a \in Eligible : \A k : k = key(a) => Mine(k)' = Part(a)
  <2>1. ASSUME NEW a \in Eligible, NEW b \in Addresses
        PROVE  <<b, key(a)>> \in member' <=> b \in Part(a)
    <3>1. <<b, key(a)>> \in member' <=> b \in Eligible /\ key(a) = key(b)
      BY <1>3
    <3>2. b \in Eligible => (Part(a) = Part(b) <=> b \in Part(a))
      BY <1>6, <2>1
    <3>3. b \in Part(a) => b \in Eligible
      BY DEF Part
    <3>. QED
      BY <1>8, <2>1, <3>1, <3>2, <3>3
  <2>2. \A a \in Eligible : Part(a) \subseteq Addresses
    BY <1>4 DEF Part
  <2>3. ASSUME NEW a \in Eligible, NEW b
        PROVE  b \in {c \in Addresses : <<c, key(a)>> \in member'} <=> b \in Part(a)
    BY <2>1, <2>2
  <2>4. \A k : Mine(k)' = {c \in Addresses : <<c, k>> \in member'}
    BY DEF Mine
  <2>. QED
    BY <2>3, <2>4
<1>16. ASSUME NEW c \in cluster', NEW a, <<a, c.key>> \in member'
       PROVE  c.key = Smallest(Mine(c.key)') /\ c.size = Cardinality(Mine(c.key)')
  <2>1. a \in Eligible /\ c.key = key(a)
    BY <1>3, <1>16
  <2>2. CASE c \in Rekeyed
    BY <1>2, <2>1, <2>2 DEF Rekeyed, key
  <2>3. CASE \E S \in components : c = Sized(S, Cardinality(S))
    <3>1. PICK b \in Eligible : c = Sized(Part(b), Cardinality(Part(b)))
      BY <1>2, <2>3
    <3>2. c.key = key(b) /\ c.size = Cardinality(Part(b))
      BY <3>1 DEF Sized, key
    <3>3. Part(b) = Part(a)
      BY <1>8, <2>1, <3>2
    <3>4. Mine(c.key)' = Part(a)
      BY <1>15, <2>1
    <3>. QED
      BY <2>1, <3>2, <3>3, <3>4 DEF key
  <2>. QED
    BY <1>1, <1>16, <2>2, <2>3
<1>17. StoredInv'
  <2>1. \A c \in cluster' : Mine(c.key)' # {} => \E a : <<a, c.key>> \in member'
    BY DEF Mine
  <2>. QED
    BY <1>4, <1>5, <1>14, <1>16, <2>1 DEF StoredInv
<1>18. PassInv' /\ AccountInv' /\ PrunedInv'
  BY <1>1, <1>4, <1>10 DEF PassInv, AccountInv, PrunedInv
<1>19. ASSUME NEW a \in Addresses, NEW b \in Addresses, Together(a, b)
       PROVE  Together(a, b)'
  <2>1. PICK k \in Addresses : <<a, k>> \in member /\ <<b, k>> \in member
    BY <1>19 DEF Together
  <2>2. a \in Eligible /\ b \in Eligible /\ SameOwner(a, k) /\ SameOwner(b, k)
    BY <1>2, <2>1 DEF MemberInv
  <2>. QED
    BY <1>14, <2>2, SameOwnerIsEquivalence
<1>. QED
  BY <1>11, <1>12, <1>13, <1>17, <1>18, <1>19 DEF Inv

-----------------------------------------------------------------------------
(* The other steps *)

UtxoSteps == {"paired", "linked", "cleared", "projected", "streamed", "resolved", "stored"}

\* A step that assigns no cluster: what is asserted and known may grow.
LEMMA GrowingSteps ==
    ASSUME Inv, UNCHANGED <<ledger, member, cluster>>, Shape', PassInv',
           owner \subseteq owner', Eligible \subseteq Eligible',
           Utxo \/ (owner' = {} /\ pc' \notin UtxoSteps),
           \/ pc' \notin {"stored", "done"}
           \/ UNCHANGED <<owner, pc>> /\ Eligible' = Eligible
    PROVE  Inv' /\ \A a, b \in Addresses : Together(a, b) => Together(a, b)'
<1>1. MemberInv'
  BY OwnerGrows DEF Inv, MemberInv
<1>2. OneClusterPerAddress' /\ \A a, b : Together(a, b)' <=> Together(a, b)
  BY DEF Inv, OneClusterPerAddress, Together
<1>3. AccountInv'
  BY DEF Inv, AccountInv, UtxoSteps, Utxo
<1>4. StoredInv' /\ PrunedInv'
  <2>1. CASE pc' \notin {"stored", "done"}
    BY <2>1 DEF StoredInv, PrunedInv
  <2>2. CASE UNCHANGED <<owner, pc>> /\ Eligible' = Eligible
    <3>1. \A a, b : SameOwner(a, b)' <=> SameOwner(a, b)
      BY <2>2 DEF SameOwner
    <3>2. \A k : Mine(k)' = Mine(k)
      BY DEF Mine
    <3>. QED
      BY <1>2, <2>2, <3>1, <3>2 DEF Inv, StoredInv, PrunedInv
  <2>. QED
    BY <2>1, <2>2
<1>. QED
  BY <1>1, <1>2, <1>3, <1>4 DEF Inv

\* Intakes and the tag seed only add to the graph.
LEMMA GraphGrows ==
    ASSUME UNCHANGED ledger, written \subseteq written', seeded \subseteq seeded'
    PROVE  Seen \subseteq Seen' /\ Nodes \subseteq Nodes'
  BY DEF Seen, Nodes, Involves, Inputs, Outputs

LEMMA NodesAreAddresses == Shape => Nodes \subseteq Addresses
  BY DEF Shape, Nodes, Seen

LEMMA AssertionsAreOwners ==
    ASSUME Shape, NEW pairs, pairs \subseteq Addresses \X Addresses,
           NEW h \in {"common_input_ownership", "change_address"}
    PROVE  /\ Asserted(pairs, h) \subseteq
                 Addresses \X Addresses \X {"common_input_ownership", "change_address"}
           /\ owner \subseteq Asserted(pairs, h)
  BY DEF Asserted, Shape

LEMMA GraphSteps ==
    ASSUME Inv, SeedTags \/ (\E batch \in SUBSET (1..Len(ledger)) : WriteTransactions(batch))
                         \/ RefreshTxCount
    PROVE  Inv' /\ \A a, b \in Addresses : Together(a, b) => Together(a, b)'
<1>1. /\ UNCHANGED <<ledger, member, cluster, owner>>
      /\ written \subseteq written' /\ seeded \subseteq seeded' /\ counted \subseteq counted'
  BY DEF SeedTags, WriteTransactions, RefreshTxCount, Inv, Shape
<1>2. Seen \subseteq Seen' /\ Nodes \subseteq Nodes' /\ Eligible \subseteq Eligible'
  BY <1>1, GraphGrows DEF Eligible
<1>3. CASE SeedTags
  <2>1. Shape'
    BY <1>1, <1>2, <1>3, AddressAssumption DEF SeedTags, Inv, Shape
  <2>2. Eligible' = Eligible
    BY <1>3 DEF SeedTags, Eligible, Seen, Involves, Inputs, Outputs
  <2>3. PassInv'
    BY <1>1, <1>3, <2>2 DEF SeedTags, Inv, PassInv, Edges, Part, SameOwner
  <2>4. Utxo \/ (owner' = {} /\ pc' \notin UtxoSteps)
    BY <1>3 DEF SeedTags, Inv, AccountInv, UtxoSteps
  <2>. QED
    BY <1>1, <1>2, <1>3, <2>1, <2>2, <2>3, <2>4, GrowingSteps DEF SeedTags
<1>4. CASE \E batch \in SUBSET (1..Len(ledger)) : WriteTransactions(batch)
  <2>1. pc' = "written" /\ UNCHANGED <<seeded, counted>>
    BY <1>4 DEF WriteTransactions
  <2>2. Shape' /\ PassInv'
    BY <1>1, <1>2, <2>1 DEF Inv, Shape, PassInv
  <2>3. Utxo \/ (owner' = {} /\ pc' \notin UtxoSteps)
    BY <1>1, <2>1 DEF Inv, AccountInv, UtxoSteps
  <2>. QED
    BY <1>1, <1>2, <2>1, <2>2, <2>3, GrowingSteps
<1>5. CASE RefreshTxCount
  <2>1. pc' = "counted" /\ UNCHANGED <<seeded, written>> /\ counted' = Nodes
    BY <1>5 DEF RefreshTxCount
  <2>2. Shape' /\ PassInv'
    BY <1>1, <1>2, <2>1 DEF Inv, Shape, PassInv
  <2>3. Utxo \/ (owner' = {} /\ pc' \notin UtxoSteps)
    BY <1>1, <2>1 DEF Inv, AccountInv, UtxoSteps
  <2>. QED
    BY <1>1, <1>2, <2>1, <2>2, <2>3, GrowingSteps
<1>. QED
  BY <1>3, <1>4, <1>5

LEMMA PassSteps ==
    ASSUME Inv, ApplyCommonInput \/ ApplyChangeAddress \/ DropStale \/ Project
                \/ StreamComponents \/ DropProjection \/ Fail
    PROVE  Inv' /\ \A a, b \in Addresses : Together(a, b) => Together(a, b)'
<1>1. UNCHANGED <<ledger, written, seeded, counted, member, cluster>>
  BY DEF ApplyCommonInput, ApplyChangeAddress, DropStale, Project, StreamComponents,
         DropProjection, Fail
<1>2. Eligible' = Eligible /\ Nodes' = Nodes
  BY <1>1 DEF Eligible, Nodes, Seen, Involves, Inputs, Outputs
<1>3. pc' \notin {"stored", "done"}
  BY DEF ApplyCommonInput, ApplyChangeAddress, DropStale, Project, StreamComponents,
         DropProjection, Fail
<1>4. /\ owner \subseteq owner'
      /\ owner' \subseteq Addresses \X Addresses \X {"common_input_ownership", "change_address"}
  <2>1. Shape /\ CoSpent \subseteq Addresses \X Addresses /\ Change \subseteq Addresses \X Addresses
    BY DEF Inv, CoSpent, Change
  <2>2. \/ UNCHANGED owner
        \/ owner' = Asserted(CoSpent, "common_input_ownership")
        \/ owner' = Asserted(Change, "change_address")
    BY DEF ApplyCommonInput, ApplyChangeAddress, DropStale, Project, StreamComponents,
           DropProjection, Fail
  <2>. QED
    BY <2>1, <2>2, AssertionsAreOwners DEF Shape
<1>5. Shape'
  BY <1>1, <1>2, <1>4 DEF Inv, Shape
<1>6. Utxo \/ (owner' = {} /\ pc' \notin UtxoSteps)
  BY DEF Inv, AccountInv, UtxoSteps, ApplyCommonInput, ApplyChangeAddress, DropStale, Project,
         StreamComponents, DropProjection, Fail
<1>7. UNCHANGED owner => Edges' = Edges /\ \A a : Part(a)' = Part(a)
  BY <1>2 DEF Edges, Part, SameOwner
<1>8. PassInv'
  <2>1. CASE ApplyCommonInput \/ ApplyChangeAddress \/ DropStale \/ Fail
    BY <2>1 DEF ApplyCommonInput, ApplyChangeAddress, DropStale, Fail, PassInv
  <2>2. CASE Project
    BY <1>7, <2>2 DEF Project, PassInv, Edges
  <2>3. CASE StreamComponents
    <3>1. projection = {Edges} /\ pc' = "streamed" /\ UNCHANGED owner
      BY <2>3 DEF StreamComponents, Inv, PassInv
    <3>2. components' = {Component(a, Edges) \cap Eligible : a \in Eligible}
      BY <2>3, <3>1 DEF StreamComponents
    <3>3. \A a \in Eligible : Component(a, Edges) \cap Eligible = Part(a)
      BY ComponentIsOwner, EligibleIsAddress DEF Inv, Part
    <3>4. components' = {Part(a) : a \in Eligible}
      BY <3>2, <3>3
    <3>5. {Part(a) : a \in Eligible}' = {Part(a) : a \in Eligible}
      BY <1>2, <1>7, <3>1
    <3>. QED
      BY <3>1, <3>4, <3>5 DEF PassInv
  <2>4. CASE DropProjection
    <3>1. pc = "streamed" /\ pc' = "resolved" /\ UNCHANGED <<owner, components>>
      BY <2>4 DEF DropProjection
    <3>2. {Part(a) : a \in Eligible}' = {Part(a) : a \in Eligible}
      BY <1>2, <1>7, <3>1
    <3>. QED
      BY <3>1, <3>2 DEF Inv, PassInv
  <2>. QED
    BY <2>1, <2>2, <2>3, <2>4
<1>. QED
  BY <1>1, <1>2, <1>3, <1>4, <1>5, <1>6, <1>8, GrowingSteps

LEMMA PruneStep ==
    ASSUME Inv, Prune
    PROVE  Inv' /\ \A a, b \in Addresses : Together(a, b) => Together(a, b)'
<1>1. /\ UNCHANGED <<ledger, written, seeded, counted, owner, member>>
      /\ pc = "stored" /\ pc' = "done"
      /\ cluster' = {c \in cluster : \E m \in member : m[2] = c.key}
  BY DEF Prune
<1>2. Eligible' = Eligible /\ Nodes' = Nodes /\ Utxo' = Utxo
  BY <1>1 DEF Eligible, Nodes, Seen, Involves, Inputs, Outputs, Utxo
<1>3. (\A a, b : SameOwner(a, b)' <=> SameOwner(a, b)) /\ (\A k : Mine(k)' = Mine(k))
      /\ (\A a, b : Together(a, b)' <=> Together(a, b))
  BY <1>1 DEF SameOwner, Mine, Together
<1>4. Shape' /\ PassInv' /\ MemberInv' /\ OneClusterPerAddress'
  BY <1>1, <1>2, <1>3 DEF Inv, Shape, PassInv, MemberInv, OneClusterPerAddress
<1>5. AccountInv' /\ StoredInv'
  BY <1>1, <1>2, <1>3 DEF Inv, AccountInv, StoredInv
<1>6. ASSUME NEW c \in cluster' PROVE Mine(c.key)' # {}
  <2>1. PICK m \in member : m[2] = c.key
    BY <1>1, <1>6
  <2>2. m = <<m[1], c.key>> /\ m[1] \in Addresses
    BY <2>1 DEF Inv, Shape
  <2>3. m[1] \in Mine(c.key)
    BY <2>1, <2>2 DEF Mine
  <2>. QED
    BY <1>3, <2>3
<1>. QED
  BY <1>3, <1>4, <1>5, <1>6 DEF Inv, PrunedInv

LEMMA AccountStep ==
    ASSUME Inv, ResolveAccounts
    PROVE  Inv' /\ \A a, b \in Addresses : Together(a, b) => Together(a, b)'
<1>1. /\ UNCHANGED <<ledger, written, seeded, counted, owner>>
      /\ pc' = "done" /\ ~Utxo
      /\ cluster' = cluster \cup {[key |-> a, size |-> 1] : a \in Eligible}
      /\ member' = member \cup {<<a, a>> : a \in Eligible}
  BY DEF ResolveAccounts
<1>2. Eligible' = Eligible /\ Nodes' = Nodes /\ Utxo' = Utxo
  BY <1>1 DEF Eligible, Nodes, Seen, Involves, Inputs, Outputs, Utxo
<1>3. Eligible \subseteq Addresses /\ owner = {}
  BY <1>1, EligibleIsAddress DEF Inv, AccountInv
<1>4. \A m \in member : m[1] = m[2]
  BY <1>3, AloneWithoutOwners DEF Inv, MemberInv
<1>5. \A a, b : SameOwner(a, b)' <=> SameOwner(a, b)
  BY <1>1 DEF SameOwner
<1>6. Shape' /\ PassInv' /\ MemberInv'
  BY <1>1, <1>2, <1>3, <1>5, SameOwnerIsEquivalence DEF Inv, Shape, PassInv, MemberInv
<1>7. \A m \in member' : m[1] = m[2]
  BY <1>1, <1>4
<1>8. ASSUME NEW c \in cluster'
      PROVE  c.size = 1 /\ <<c.key, c.key>> \in member'
  <2>1. CASE c \in cluster
    BY <1>1, <2>1 DEF Inv, AccountInv
  <2>2. CASE \E a \in Eligible : c = [key |-> a, size |-> 1]
    BY <1>1, <2>2
  <2>. QED
    BY <1>1, <1>8, <2>1, <2>2
<1>9. AccountInv' /\ OneClusterPerAddress'
  BY <1>1, <1>2, <1>3, <1>7, <1>8 DEF AccountInv, OneClusterPerAddress
<1>10. ASSUME NEW c \in cluster'
       PROVE  Mine(c.key)' = {c.key} /\ c.key \in Nat
  <2>1. <<c.key, c.key>> \in member' /\ <<c.key, c.key>>[1] = c.key
    BY <1>8
  <2>2. c.key \in Addresses
    BY <1>6, <2>1 DEF Shape
  <2>3. \A a \in Addresses : <<a, c.key>> \in member' <=> a = c.key
    BY <1>7, <2>1
  <2>. QED
    BY <2>2, <2>3, AddressAssumption DEF Mine
<1>11. ASSUME NEW c \in cluster'
       PROVE  c.key = Smallest(Mine(c.key)') /\ c.size = Cardinality(Mine(c.key)')
  BY <1>8, <1>10, SmallestOfOne, FS_Singleton
<1>12. \A a, b \in Eligible : SameOwner(a, b) => Together(a, b)'
  <2>1. ASSUME NEW a \in Eligible, NEW b \in Eligible, SameOwner(a, b)
        PROVE  a = b /\ <<a, a>> \in member' /\ a \in Addresses
    BY <1>1, <1>3, <2>1, AloneWithoutOwners
  <2>. QED
    BY <2>1 DEF Together
<1>13. StoredInv' /\ PrunedInv'
  BY <1>1, <1>2, <1>5, <1>10, <1>11, <1>12 DEF StoredInv, PrunedInv
<1>14. \A a, b \in Addresses : Together(a, b) => Together(a, b)'
  BY <1>1 DEF Together
<1>. QED
  BY <1>6, <1>9, <1>13, <1>14 DEF Inv

-----------------------------------------------------------------------------
LEMMA Begins == Init => Inv
<1> SUFFICES ASSUME Init PROVE Inv
  OBVIOUS
<1>1. Shape /\ PassInv
  BY DEF Init, Shape, PassInv
<1>2. MemberInv /\ AccountInv /\ OneClusterPerAddress /\ StoredInv /\ PrunedInv
  BY DEF Init, MemberInv, AccountInv, OneClusterPerAddress, StoredInv, PrunedInv
<1>. QED
  BY <1>1, <1>2 DEF Inv

LEMMA NextKeeps ==
    ASSUME Inv, [Next]_vars
    PROVE  Inv' /\ \A a, b \in Addresses : Together(a, b) => Together(a, b)'
<1>1. CASE UNCHANGED vars
  <2>1. UNCHANGED <<ledger, written, seeded, counted, owner, projection, components, cluster,
                    member, pc>>
    BY <1>1 DEF vars
  <2>2. Eligible' = Eligible /\ Nodes' = Nodes
    BY <2>1 DEF Eligible, Nodes, Seen, Involves, Inputs, Outputs
  <2>3. Edges' = Edges /\ {Part(a) : a \in Eligible}' = {Part(a) : a \in Eligible}
    BY <2>1, <2>2 DEF Edges, Part, SameOwner
  <2>4. Shape' /\ PassInv'
    BY <2>1, <2>2, <2>3 DEF Inv, Shape, PassInv
  <2>5. Utxo \/ (owner' = {} /\ pc' \notin UtxoSteps)
    BY <2>1 DEF Inv, AccountInv, UtxoSteps
  <2>. QED
    BY <2>1, <2>2, <2>4, <2>5, GrowingSteps
<1>2. CASE SeedTags \/ (\E batch \in SUBSET (1..Len(ledger)) : WriteTransactions(batch))
           \/ RefreshTxCount
  BY <1>2, GraphSteps
<1>3. CASE ApplyCommonInput \/ ApplyChangeAddress \/ DropStale \/ Project
           \/ StreamComponents \/ DropProjection \/ Fail
  BY <1>3, PassSteps
<1>4. CASE WriteClusters
  BY <1>4, WritingSteps
<1>5. CASE Prune
  BY <1>5, PruneStep
<1>6. CASE ResolveAccounts
  BY <1>6, AccountStep
<1>. QED
  BY <1>1, <1>2, <1>3, <1>4, <1>5, <1>6 DEF Next, Pass

LEMMA Invariance == Spec => []Inv
  BY Begins, NextKeeps, PTL DEF Spec

-----------------------------------------------------------------------------
\* clustering.py, resolve_clusters: no address is ever in two clusters, and after
\* a completed pass the clusters are the connected components of what the two
\* heuristics assert, each under its smallest member and with its true size.
THEOREM ClustersAlwaysComponents == Spec => []ClustersAreComponents
<1>1. ASSUME Inv PROVE ClustersAreComponents
  <2>1. OneClusterPerAddress /\ Shape
    BY <1>1 DEF Inv
  <2>2. ASSUME NEW a, NEW b, Together(a, b) PROVE SameOwner(a, b)
    <3>1. PICK k \in Addresses : <<a, k>> \in member /\ <<b, k>> \in member
      BY <2>2 DEF Together
    <3>2. SameOwner(a, k) /\ SameOwner(b, k)
      BY <1>1, <3>1 DEF Inv, MemberInv
    <3>. QED
      BY <3>2, SameOwnerIsEquivalence
  <2>3. ASSUME pc = "done", NEW a \in Seen, NEW b \in Seen
        PROVE  Together(a, b) <=> SameOwner(a, b)
    BY <1>1, <2>2, <2>3 DEF Inv, StoredInv, Eligible
  <2>4. ASSUME pc = "done", NEW c \in cluster
        PROVE  /\ Mine(c.key) # {}
               /\ c.key = Smallest(Mine(c.key)) /\ c.size = Cardinality(Mine(c.key))
    BY <1>1, <2>4 DEF Inv, StoredInv, PrunedInv
  <2>. QED
    BY <2>1, <2>3, <2>4 DEF ClustersAreComponents, SameOwner, Mine
<1>. QED
  BY <1>1, Invariance, PTL

\* clustering.py, _WRITE_CLUSTERS: two addresses once attributed to one owner are
\* never taken apart, whatever later passes find and wherever they stop.
THEOREM NeverTakenApart == Spec => NeverSplit
<1>1. Inv /\ [Next]_vars =>
         [\A a, b \in Addresses : Together(a, b) => Together(a, b)']_vars
  BY NextKeeps
<1>. QED
  BY <1>1, Invariance, PTL DEF Spec, NeverSplit

-----------------------------------------------------------------------------
(* Shapes *)

LEMMA RunningIs ==
    Running = {"written", "counted", "paired", "linked", "cleared", "projected", "streamed",
               "resolved", "stored"}
<1>1. Len(Steps) = 9
  BY DEF Steps
<1>2. /\ Steps[1] = "written" /\ Steps[2] = "counted" /\ Steps[3] = "paired" /\ Steps[4] = "linked"
      /\ Steps[5] = "cleared" /\ Steps[6] = "projected" /\ Steps[7] = "streamed"
      /\ Steps[8] = "resolved" /\ Steps[9] = "stored"
  BY DEF Steps
<1>3. \A i : i \in 1..9 <=> i \in {1, 2, 3, 4, 5, 6, 7, 8, 9}
  OBVIOUS
<1>. QED
  BY <1>1, <1>2, <1>3 DEF Running

LEMMA SizesAreBounded ==
    ASSUME NEW S, S \subseteq Addresses, S # {}
    PROVE  Sized(S, Cardinality(S)) \in [key : Addresses, size : 1..Cardinality(Addresses)]
<1>1. Smallest(S) \in Addresses
  BY AddressAssumption, SmallestIsLeast
<1>2. /\ Cardinality(Addresses) \in Nat /\ Cardinality(S) \in Nat
      /\ Cardinality(S) <= Cardinality(Addresses) /\ Cardinality(S) # 0
  BY AddressAssumption, FS_Subset, FS_CardinalityType, FS_EmptySet
<1>. QED
  BY <1>1, <1>2 DEF Sized

LEMMA TypeStep ==
    ASSUME Inv, Inv', TypeOK, [Next]_vars
    PROVE  TypeOK'
<1>1. counted' \subseteq Addresses /\ Shape /\ Shape'
  BY NodesAreAddresses DEF Inv, Shape, Nodes, Seen
<1>2. CASE SeedTags \/ UNCHANGED vars
  BY <1>1, <1>2 DEF SeedTags, vars, TypeOK, Shape
<1>3. CASE \E batch \in (SUBSET (1..Len(ledger))) \ {{}} : WriteTransactions(batch)
  BY <1>1, <1>3, RunningIs DEF WriteTransactions, TypeOK
<1>4. CASE RefreshTxCount \/ ApplyCommonInput \/ ApplyChangeAddress
  <2>1. pc' \in Running
    BY <1>4, RunningIs DEF RefreshTxCount, ApplyCommonInput, ApplyChangeAddress
  <2>. QED
    BY <1>1, <1>4, <2>1 DEF RefreshTxCount, ApplyCommonInput, ApplyChangeAddress, TypeOK, Shape
<1>5. CASE DropStale \/ Project \/ DropProjection \/ Fail
  <2>1. pc' \in Running \cup Resting
    BY <1>5, RunningIs DEF DropStale, Project, DropProjection, Fail, Resting
  <2>2. projection' \in {projection, {}, {Edges}}
    BY <1>5 DEF DropStale, Project, DropProjection, Fail, Edges
  <2>3. Edges \in SUBSET (Addresses \X Addresses)
    BY <1>1 DEF Edges, Shape
  <2>4. projection' \subseteq SUBSET (Addresses \X Addresses) /\ Cardinality(projection') <= 1
    <3>1. Cardinality({}) = 0 /\ Cardinality({Edges}) = 1
      BY FS_EmptySet, FS_Singleton
    <3>2. projection \subseteq SUBSET (Addresses \X Addresses) /\ Cardinality(projection) <= 1
      BY DEF TypeOK
    <3>3. {Edges} \subseteq SUBSET (Addresses \X Addresses)
      BY <2>3
    <3>4. CASE projection' = projection
      BY <3>2, <3>4
    <3>5. CASE projection' = {}
      BY <3>1, <3>5
    <3>6. CASE projection' = {Edges}
      BY <3>1, <3>3, <3>6
    <3>. QED
      BY <2>2, <3>4, <3>5, <3>6
  <2>5. UNCHANGED <<ledger, written, seeded, counted, owner, cluster, member>>
        /\ components' \in {components, {}}
    BY <1>5 DEF DropStale, Project, DropProjection, Fail
  <2>. QED
    BY <2>1, <2>4, <2>5 DEF TypeOK
<1>6. CASE StreamComponents
  <2>1. pc' \in Running
    BY <1>6, RunningIs DEF StreamComponents
  <2>2. components' \subseteq SUBSET Addresses
    BY <1>6 DEF StreamComponents, Component
  <2>. QED
    BY <1>6, <2>1, <2>2 DEF StreamComponents, TypeOK
<1>7. CASE WriteClusters
  <2>1. pc' \in Running /\ pc = "resolved"
    BY <1>7, RunningIs DEF WriteClusters
  <2>2. \A S \in components : S \subseteq Addresses /\ S # {}
    <3>1. components = {Part(a) : a \in Eligible}
      BY <2>1 DEF Inv, PassInv
    <3>2. \A a \in Eligible : Part(a) # {} /\ Part(a) \subseteq Addresses
      BY <1>1, PartsPartition, EligibleIsAddress DEF Part
    <3>. QED
      BY <3>1, <3>2
  <2>3. cluster' \subseteq [key : Addresses, size : 1..Cardinality(Addresses)]
    BY <1>7, <2>2, SizesAreBounded DEF WriteClusters, Rekeyed, TypeOK
  <2>. QED
    BY <1>1, <1>7, <2>1, <2>3 DEF WriteClusters, TypeOK, Shape
<1>8. CASE Prune
  BY <1>8 DEF Prune, TypeOK, Resting
<1>9. CASE ResolveAccounts
  <2>1. ASSUME NEW a \in Eligible
        PROVE  [key |-> a, size |-> 1] \in [key : Addresses, size : 1..Cardinality(Addresses)]
    <3>1. a \in Addresses
      BY <1>1, EligibleIsAddress
    <3>2. Cardinality({a}) = 1 /\ Smallest({a}) = a
      BY <3>1, AddressAssumption, FS_Singleton, SmallestOfOne
    <3>3. Sized({a}, Cardinality({a})) = [key |-> a, size |-> 1]
      BY <3>2 DEF Sized
    <3>. QED
      BY <3>1, <3>3, SizesAreBounded
  <2>2. cluster' \subseteq [key : Addresses, size : 1..Cardinality(Addresses)]
    BY <1>9, <2>1 DEF ResolveAccounts, TypeOK
  <2>. QED
    BY <1>1, <1>9, <2>2 DEF ResolveAccounts, TypeOK, Shape, Resting
<1>. QED
  BY <1>2, <1>3, <1>4, <1>5, <1>6, <1>7, <1>8, <1>9 DEF Next, Pass

\* Graph, catalogue and pass keep their shape (TypeOK); a cluster's size is at
\* least 1 and at most the number of addresses.
THEOREM ClusteringTypeCorrect == Spec => []TypeOK
<1>1. Init => TypeOK
  BY FS_EmptySet DEF Init, TypeOK, Resting
<1>. QED
  BY <1>1, TypeStep, Invariance, PTL DEF Spec

-----------------------------------------------------------------------------
(* Change addresses *)

\* What was so when change_address was asserted of an output i of t, and stays so.
Settled(t, i) ==
    LET other == ledger[t].outputs[3 - i] IN
    \/ other \in seeded \cup Inputs(t)
    \/ \E u \in written : Involves(u, other) /\ ledger[u].time < ledger[t].time

LEMMA OnlyFreshIsSettled ==
    ASSUME TypeOK, ledger \in Ledgers, NEW t \in written, NEW i \in 1..2, IsChange(t, i)
    PROVE  Settled(t, i)
<1> DEFINE o == ledger[t].outputs[3 - i]
<1>1. Len(ledger[t].outputs) = 2 /\ ~Fresh(t, 3 - i)
  BY DEF IsChange
<1>2. \A u \in written : ledger[u].time \in Nat
  BY LedgersAssumption DEF TypeOK
<1>3. ledger[t].outputs \in Seq(Addresses)
  BY LedgersAssumption DEF TypeOK
<1>4. 3 - i \in 1..Len(ledger[t].outputs)
  BY <1>1
<1>5. o \in Addresses /\ o \in Outputs(t)
  BY <1>3, <1>4 DEF Outputs, Items
<1>6. o \in Seen
  BY <1>5 DEF Seen, Involves
<1>7. o \in Inputs(t) \/ ~Debut(o, t)
  BY <1>1 DEF Fresh
<1> HIDE DEF o
<1>8. ~Debut(o, t) => o \in seeded \/ \E u \in written : Involves(u, o) /\ ledger[u].time < ledger[t].time
  BY <1>2, <1>6 DEF Debut, HasFirstSeen
<1>. QED
  BY <1>7, <1>8 DEF Settled, o

LEMMA AbstentionStep ==
    ASSUME Inv, TypeOK, AbstainsWhenAmbiguous, [Next]_vars
    PROVE  AbstainsWhenAmbiguous'
<1>1. UNCHANGED ledger /\ written \subseteq written' /\ seeded \subseteq seeded'
  BY DEF Next, Pass, vars, SeedTags, WriteTransactions, RefreshTxCount, ApplyCommonInput,
         ApplyChangeAddress, DropStale, Project, StreamComponents, DropProjection, WriteClusters,
         Prune, ResolveAccounts, Fail
<1>2. UNCHANGED owner \/ ApplyCommonInput \/ ApplyChangeAddress
  BY DEF Next, Pass, vars, SeedTags, WriteTransactions, RefreshTxCount, DropStale, Project,
         StreamComponents, DropProjection, WriteClusters, Prune, ResolveAccounts, Fail
<1>3. \A t : Inputs(t)' = Inputs(t) /\ (\A a : Involves(t, a)' <=> Involves(t, a))
  BY <1>1 DEF Involves, Inputs, Outputs
<1>4. \A t, i : Settled(t, i) => Settled(t, i)'
  BY <1>1, <1>3 DEF Settled
<1>5. ASSUME NEW e \in owner', e[3] = "change_address"
      PROVE  \E t \in written, i \in 1..2 :
                 /\ Len(ledger[t].outputs) = 2
                 /\ e[1] \in Inputs(t) /\ e[2] = ledger[t].outputs[i] /\ e[2] \notin Inputs(t)
                 /\ Settled(t, i)
  <2>1. CASE e \in owner
    BY <1>5, <2>1 DEF AbstainsWhenAmbiguous, Settled
  <2>2. CASE e \notin owner
    <3>1. ApplyChangeAddress
      BY <1>2, <1>5, <2>2 DEF ApplyCommonInput, Asserted
    <3>2. PICK p \in Change : e = <<p[1], p[2], "change_address">>
      BY <1>5, <2>2, <3>1 DEF ApplyChangeAddress, Asserted
    <3>3. PICK t \in written, i \in 1..2 :
             IsChange(t, i) /\ p[1] \in Inputs(t) /\ p[2] = ledger[t].outputs[i]
      BY <3>2 DEF Change
    <3>4. Len(ledger[t].outputs) = 2 /\ p[2] \notin Inputs(t)
      BY <3>3 DEF IsChange, Fresh
    <3>5. Settled(t, i)
      BY <3>3, OnlyFreshIsSettled DEF Inv, Shape
    <3>. QED
      BY <3>2, <3>3, <3>4, <3>5
  <2>. QED
    BY <2>1, <2>2
<1>6. ASSUME NEW e \in owner', e[3] = "change_address"
      PROVE  \E t \in written', i \in 1..2 :
                 /\ Len(ledger'[t].outputs) = 2
                 /\ e[1] \in Inputs(t)' /\ e[2] = ledger'[t].outputs[i] /\ e[2] \notin Inputs(t)'
                 /\ Settled(t, i)'
  BY <1>1, <1>3, <1>4, <1>5, <1>6
<1>. QED
  BY <1>6 DEF AbstainsWhenAmbiguous, Settled

\* clustering.py, _CHANGE_ADDRESS: a change output is only ever asserted over an
\* output known from before, spent from in the same transaction or tagged.
THEOREM AbstentionHolds == Spec => []AbstainsWhenAmbiguous
<1>1. Init => AbstainsWhenAmbiguous
  BY DEF Init, AbstainsWhenAmbiguous
<1>. QED
  BY <1>1, AbstentionStep, ClusteringTypeCorrect, Invariance, PTL DEF Spec
=============================================================================
