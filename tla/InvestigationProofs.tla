-------------------------- MODULE InvestigationProofs --------------------------
(***************************************************************************)
(* For any ledgers, tags, clusterings and bounds: what an analysis or an   *)
(* exposure answers is true of the graph it was asked of, while intakes    *)
(* and clustering passes change that graph between its queries.            *)
(*                                                                         *)
(* First the theory of the operators the queries are built from - sums     *)
(* over finite sets, reachability, the split of a transaction - then one   *)
(* invariant for each part of the state, and the step lemma of each.       *)
(*                                                                         *)
(* The prover knows a recursive function only as a CHOOSE, so each is      *)
(* first shown to exist (FoldExists, Iterates) and then followed by        *)
(* induction over a set of numbers (NatInduct).                            *)
(***************************************************************************)
EXTENDS Investigation, Integers, FiniteSetTheorems, WellFoundedInduction, TLAPS

\* A set that holds 0 and is closed under successor holds every natural number.
LEMMA NatInduct ==
    ASSUME NEW T, 0 \in T, \A n \in Nat : n \in T => n + 1 \in T
    PROVE  Nat \subseteq T
<1> DEFINE less == {ss \in Nat \X Nat : ss[1] < ss[2]}
<1>1. IsWellFoundedOn(less, Nat)
  BY NatLessThanWellFounded, Zenon DEF OpToRel
<1>2. \A x, y \in Nat : <<y, x>> \in less <=> y < x
  OBVIOUS
<1> HIDE DEF less
<1>3. ASSUME Nat \ T # {} PROVE FALSE
  <2>1. PICK x \in Nat \ T : \A y \in Nat \ T : ~ (<<y, x>> \in less)
    BY <1>1, <1>3, WFMin
  <2>2. x # 0 /\ x - 1 \in Nat /\ x - 1 < x /\ (x - 1) + 1 = x
    BY <2>1
  <2>3. x - 1 \in T
    BY <1>2, <2>1, <2>2
  <2>. QED
    BY <2>1, <2>2, <2>3
<1>. QED
  BY <1>3

\* A family of sets that holds the empty one, and with a set the set with one more
\* of S, holds S.
LEMMA SetInduct ==
    ASSUME NEW S, IsFiniteSet(S), NEW T, {} \in T,
           \A s \in SUBSET S : \A x \in S \ s : s \in T => s \cup {x} \in T
    PROVE  S \in T
<1> DEFINE U == {n \in Nat : \A s \in SUBSET S : Cardinality(s) = n => s \in T}
<1>1. ASSUME NEW s \in SUBSET S PROVE IsFiniteSet(s) /\ Cardinality(s) \in Nat
  BY FS_Subset, FS_CardinalityType
<1>2. 0 \in U
  BY <1>1, FS_EmptySet
<1>3. ASSUME NEW n \in Nat, n \in U PROVE n + 1 \in U
  <2> SUFFICES ASSUME NEW s \in SUBSET S, Cardinality(s) = n + 1 PROVE s \in T
    OBVIOUS
  <2>1. s # {}
    <3>1. Cardinality({}) = 0 /\ n + 1 # 0
      BY FS_EmptySet
    <3>. QED
      BY <3>1
  <2>2. PICK x \in s : TRUE
    BY <2>1
  <2>3. IsFiniteSet(s \ {x}) /\ Cardinality(s \ {x}) = Cardinality(s) - 1
    BY <1>1, <2>2, FS_RemoveElement
  <2>4. s \ {x} \in T /\ s \ {x} \in SUBSET S /\ x \in S \ (s \ {x})
    BY <1>3, <2>2, <2>3
  <2>5. (s \ {x}) \cup {x} = s
    BY <2>2
  <2>. QED
    BY <2>4, <2>5
<1> HIDE DEF U
<1>4. Cardinality(S) \in U
  BY <1>1, <1>2, <1>3, NatInduct
<1>. QED
  BY <1>4 DEF U

-----------------------------------------------------------------------------
(* Sums over a finite set *)

\* g sums f up over the subsets of S.
IsFold(g, f, S) ==
    g = [s \in SUBSET S |-> IF s = {} THEN 0
                            ELSE f[CHOOSE x \in s : TRUE] + g[s \ {CHOOSE x \in s : TRUE}]]

Weighs(f, S) == \A x \in S : f[x] \in Nat

\* Such a function exists, and its values are natural numbers.
LEMMA FoldExists ==
    ASSUME NEW S, IsFiniteSet(S), NEW f, Weighs(f, S)
    PROVE  \E g \in [SUBSET S -> Nat] : IsFold(g, f, S)
<1> DEFINE Some(s) == CHOOSE x \in s : TRUE
           Fits(g, s) == g[s] = IF s = {} THEN 0 ELSE f[Some(s)] + g[s \ {Some(s)}]
           U == {n \in Nat : \E g \in [SUBSET S -> Nat] :
                    \A s \in SUBSET S : Cardinality(s) <= n => Fits(g, s)}
<1>1. ASSUME NEW s \in SUBSET S
      PROVE  /\ Cardinality(s) \in Nat /\ Cardinality(s) <= Cardinality(S)
             /\ Cardinality(s) = 0 <=> s = {}
             /\ s # {} => /\ Some(s) \in S /\ s \ {Some(s)} \in SUBSET S
                          /\ Cardinality(s \ {Some(s)}) = Cardinality(s) - 1
  <2>1. IsFiniteSet(s) /\ Cardinality(s) \in Nat /\ Cardinality(s) <= Cardinality(S)
    BY FS_Subset, FS_CardinalityType
  <2>2. Cardinality(s) = 0 <=> s = {}
    BY <2>1, FS_EmptySet
  <2>3. s # {} => Some(s) \in s
    OBVIOUS
  <2> HIDE DEF Some
  <2>4. s # {} => Cardinality(s \ {Some(s)}) = Cardinality(s) - 1
    BY <2>1, <2>3, FS_RemoveElement
  <2>. QED
    BY <2>1, <2>2, <2>3, <2>4
<1> HIDE DEF Some
<1>10. \A s \in SUBSET S : Cardinality(s) \in Nat /\ (Cardinality(s) = 0 <=> s = {})
  BY <1>1
<1>2. 0 \in U
  <2> DEFINE g == [s \in SUBSET S |-> 0]
  <2>1. ASSUME NEW s \in SUBSET S, Cardinality(s) <= 0 PROVE Fits(g, s)
    <3>1. Cardinality(s) = 0
      BY <1>10, <2>1
    <3>2. s = {}
      BY <1>10, <3>1
    <3>. QED
      BY <3>2
  <2>2. g \in [SUBSET S -> Nat]
    OBVIOUS
  <2> HIDE DEF g, Fits
  <2>. QED
    BY <2>1, <2>2
<1>3. ASSUME NEW n \in Nat, n \in U PROVE n + 1 \in U
  <2>1. PICK g \in [SUBSET S -> Nat] : \A s \in SUBSET S : Cardinality(s) <= n => Fits(g, s)
    BY <1>3
  <2> DEFINE h == [s \in SUBSET S |-> IF Cardinality(s) = n + 1
                                      THEN f[Some(s)] + g[s \ {Some(s)}] ELSE g[s]]
  <2>2. h \in [SUBSET S -> Nat]
    <3> SUFFICES ASSUME NEW s \in SUBSET S, Cardinality(s) = n + 1
                 PROVE  f[Some(s)] + g[s \ {Some(s)}] \in Nat
      OBVIOUS
    <3>1. s # {} /\ Some(s) \in S /\ s \ {Some(s)} \in SUBSET S
      BY <1>1
    <3>2. f[Some(s)] \in Nat /\ g[s \ {Some(s)}] \in Nat
      BY <2>1, <3>1 DEF Weighs
    <3>. QED
      BY <3>2
  <2>3. ASSUME NEW s \in SUBSET S, Cardinality(s) <= n + 1 PROVE Fits(h, s)
    <3>1. CASE s = {}
      <4>1. Cardinality(s) = 0 /\ n + 1 # 0 /\ 0 <= n
        BY <1>10, <3>1
      <4>2. h[s] = g[s] /\ Fits(g, s)
        BY <2>1, <4>1
      <4> HIDE DEF h
      <4>. QED
        BY <3>1, <4>2
    <3>2. CASE s # {}
      <4> DEFINE r == s \ {Some(s)}
      <4>1. r \in SUBSET S /\ Cardinality(r) = Cardinality(s) - 1 /\ Cardinality(s) \in Nat
        BY <1>1, <3>2
      <4> HIDE DEF r
      <4>2. h[r] = g[r]
        BY <2>3, <4>1
      <4>3. h[s] = f[Some(s)] + g[r]
        <5>1. CASE Cardinality(s) = n + 1
          BY <5>1 DEF r
        <5>2. CASE Cardinality(s) # n + 1
          <6>1. Cardinality(s) <= n /\ h[s] = g[s]
            BY <2>3, <4>1, <5>2
          <6>. QED
            BY <2>1, <3>2, <6>1 DEF r
        <5>. QED
          BY <5>1, <5>2
      <4> HIDE DEF h
      <4>. QED
        BY <3>2, <4>2, <4>3 DEF r
    <3>. QED
      BY <3>1, <3>2
  <2> HIDE DEF h, Fits
  <2>. QED
    BY <2>2, <2>3
<1>4. Cardinality(S) \in Nat
  BY <1>1
<1> HIDE DEF U
<1>5. Cardinality(S) \in U
  BY <1>2, <1>3, <1>4, NatInduct
<1>6. PICK g \in [SUBSET S -> Nat] : \A s \in SUBSET S : Cardinality(s) <= Cardinality(S) => Fits(g, s)
  BY <1>5 DEF U
<1>7. \A s \in SUBSET S : Fits(g, s)
  BY <1>1, <1>6
<1>8. g = [s \in SUBSET S |-> g[s]]
  OBVIOUS
<1>9. IsFold(g, f, S)
  BY <1>7, <1>8 DEF IsFold, Some
<1>. QED
  BY <1>9

\* SumFunctionOnSet is one.
LEMMA FoldIs ==
    ASSUME NEW S, IsFiniteSet(S), NEW f, Weighs(f, S)
    PROVE  \E g : IsFold(g, f, S) /\ SumFunctionOnSet(f, S) = g[S]
<1> DEFINE g == CHOOSE h : IsFold(h, f, S)
<1>1. SumFunctionOnSet(f, S) = g[S]
  BY DEF SumFunctionOnSet, FoldFunctionOnSet, MapThenFoldSet, IsFold
<1>2. IsFold(g, f, S)
  BY FoldExists
<1> HIDE DEF g
<1>. QED
  BY <1>1, <1>2

\* A fold depends only on what f gives the members of the set.
LEMMA FoldsAgree ==
    ASSUME NEW S, NEW T, IsFiniteSet(S), NEW f, NEW h, NEW g, NEW k,
           IsFold(g, f, S), IsFold(k, h, T), \A x \in S \cap T : f[x] = h[x]
    PROVE  \A s \in SUBSET (S \cap T) : g[s] = k[s]
<1> DEFINE Some(s) == CHOOSE x \in s : TRUE
           U == {n \in Nat : \A s \in SUBSET (S \cap T) : Cardinality(s) = n => g[s] = k[s]}
<1>1. ASSUME NEW s \in SUBSET (S \cap T)
      PROVE  /\ IsFiniteSet(s) /\ Cardinality(s) \in Nat
             /\ Cardinality(s) = 0 <=> s = {}
             /\ s # {} => /\ Some(s) \in S \cap T /\ s \ {Some(s)} \in SUBSET (S \cap T)
                          /\ Cardinality(s \ {Some(s)}) = Cardinality(s) - 1
  <2>1. IsFiniteSet(s) /\ Cardinality(s) \in Nat
    BY FS_Subset, FS_CardinalityType
  <2>2. Cardinality(s) = 0 <=> s = {}
    BY <2>1, FS_EmptySet
  <2>3. s # {} => Some(s) \in s
    OBVIOUS
  <2> HIDE DEF Some
  <2>4. s # {} => Cardinality(s \ {Some(s)}) = Cardinality(s) - 1
    BY <2>1, <2>3, FS_RemoveElement
  <2>. QED
    BY <2>1, <2>2, <2>3, <2>4
<1>2. ASSUME NEW s \in SUBSET (S \cap T)
      PROVE  /\ g[s] = IF s = {} THEN 0 ELSE f[Some(s)] + g[s \ {Some(s)}]
             /\ k[s] = IF s = {} THEN 0 ELSE h[Some(s)] + k[s \ {Some(s)}]
  <2>1. s \in SUBSET S /\ s \in SUBSET T
    OBVIOUS
  <2>2. g[s] = IF s = {} THEN 0 ELSE f[Some(s)] + g[s \ {Some(s)}]
    BY <2>1, Zenon DEF IsFold
  <2>3. k[s] = IF s = {} THEN 0 ELSE h[Some(s)] + k[s \ {Some(s)}]
    BY <2>1, Zenon DEF IsFold
  <2>. QED
    BY <2>2, <2>3
<1> HIDE DEF Some
<1>3. 0 \in U
  BY <1>1, <1>2
<1>4. ASSUME NEW n \in Nat, n \in U PROVE n + 1 \in U
  <2> SUFFICES ASSUME NEW s \in SUBSET (S \cap T), Cardinality(s) = n + 1 PROVE g[s] = k[s]
    OBVIOUS
  <2>1. /\ s # {} /\ Some(s) \in S \cap T /\ s \ {Some(s)} \in SUBSET (S \cap T)
        /\ Cardinality(s \ {Some(s)}) = n
    BY <1>1
  <2>2. g[s \ {Some(s)}] = k[s \ {Some(s)}] /\ f[Some(s)] = h[Some(s)]
    BY <1>4, <2>1
  <2>. QED
    BY <1>2, <2>1, <2>2
<1> HIDE DEF U
<1>5. Nat \subseteq U
  BY <1>3, <1>4, NatInduct
<1>. QED
  BY <1>1, <1>5 DEF U

LEMMA SumEmpty == ASSUME NEW f PROVE SumFunctionOnSet(f, {}) = 0
<1>1. PICK g : IsFold(g, f, {}) /\ SumFunctionOnSet(f, {}) = g[{}]
  BY FoldIs, FS_EmptySet DEF Weighs
<1>2. {} \in SUBSET {}
  OBVIOUS
<1>3. g[{}] = 0
  BY <1>1, <1>2, Zenon DEF IsFold
<1>. QED
  BY <1>1, <1>3

LEMMA SumIsNat ==
    ASSUME NEW S, IsFiniteSet(S), NEW f, Weighs(f, S)
    PROVE  SumFunctionOnSet(f, S) \in Nat
<1>1. PICK g : IsFold(g, f, S) /\ SumFunctionOnSet(f, S) = g[S]
  BY FoldIs
<1>2. PICK h \in [SUBSET S -> Nat] : IsFold(h, f, S)
  BY FoldExists
<1>3. g[S] = h[S]
  <2>1. S \in SUBSET (S \cap S)
    OBVIOUS
  <2>. QED
    BY <1>1, <1>2, <2>1, FoldsAgree
<1>. QED
  BY <1>1, <1>2, <1>3

LEMMA SumSame ==
    ASSUME NEW S, IsFiniteSet(S), NEW f, NEW h, Weighs(f, S), \A x \in S : f[x] = h[x]
    PROVE  SumFunctionOnSet(f, S) = SumFunctionOnSet(h, S)
<1>1. PICK g : IsFold(g, f, S) /\ SumFunctionOnSet(f, S) = g[S]
  BY FoldIs
<1>2. Weighs(h, S)
  BY DEF Weighs
<1>3. PICK k : IsFold(k, h, S) /\ SumFunctionOnSet(h, S) = k[S]
  BY <1>2, FoldIs
<1>4. g[S] = k[S]
  <2>1. \A x \in S \cap S : f[x] = h[x]
    OBVIOUS
  <2>2. \A s \in SUBSET (S \cap S) : g[s] = k[s]
    BY <1>1, <1>3, <2>1, FoldsAgree
  <2>. QED
    BY <2>2
<1>. QED
  BY <1>1, <1>3, <1>4

\* A sum is one summand, whichever, and the rest.
LEMMA SumTakes ==
    ASSUME NEW S, IsFiniteSet(S), NEW f, Weighs(f, S), NEW x \in S
    PROVE  SumFunctionOnSet(f, S) = f[x] + SumFunctionOnSet(f, S \ {x})
<1> DEFINE Some(s) == CHOOSE y \in s : TRUE
           U == {n \in Nat : \A s \in SUBSET S : Cardinality(s) = n =>
                    \A y \in s : SumFunctionOnSet(f, s) = f[y] + SumFunctionOnSet(f, s \ {y})}
<1>1. ASSUME NEW s \in SUBSET S
      PROVE  IsFiniteSet(s) /\ Cardinality(s) \in Nat /\ Weighs(f, s)
  BY FS_Subset, FS_CardinalityType DEF Weighs
<1>2. ASSUME NEW s \in SUBSET S, s # {}
      PROVE  /\ Some(s) \in s
             /\ SumFunctionOnSet(f, s) = f[Some(s)] + SumFunctionOnSet(f, s \ {Some(s)})
  <2>1. Some(s) \in s
    BY <1>2
  <2>2. PICK g : IsFold(g, f, s) /\ SumFunctionOnSet(f, s) = g[s]
    BY <1>1, FoldIs
  <2>3. s \in SUBSET s
    OBVIOUS
  <2>4. g[s] = f[Some(s)] + g[s \ {Some(s)}]
    BY <1>2, <2>2, <2>3, Zenon DEF IsFold
  <2> DEFINE r == s \ {Some(s)}
  <2>5. r \in SUBSET S
    OBVIOUS
  <2>6. PICK k : IsFold(k, f, r) /\ SumFunctionOnSet(f, r) = k[r]
    BY <1>1, <2>5, FoldIs
  <2>7. k[r] = g[r]
    <3>1. r \in SUBSET (r \cap s) /\ IsFiniteSet(r)
      BY <1>1, <2>5
    <3>. QED
      BY <2>2, <2>6, <3>1, FoldsAgree
  <2>. QED
    BY <2>1, <2>2, <2>4, <2>6, <2>7
<1> HIDE DEF Some
<1>3. 0 \in U
  BY <1>1, FS_EmptySet
<1>4. ASSUME NEW n \in Nat, n \in U PROVE n + 1 \in U
  <2> SUFFICES ASSUME NEW s \in SUBSET S, Cardinality(s) = n + 1, NEW y \in s
               PROVE  SumFunctionOnSet(f, s) = f[y] + SumFunctionOnSet(f, s \ {y})
    OBVIOUS
  <2> DEFINE c == Some(s)
  <2>1. c \in s /\ SumFunctionOnSet(f, s) = f[c] + SumFunctionOnSet(f, s \ {c})
    BY <1>2
  <2> HIDE DEF c
  <2>2. CASE y = c
    BY <2>1, <2>2
  <2>3. CASE y # c
    <3>1. /\ s \ {c} \in SUBSET S /\ Cardinality(s \ {c}) = n /\ y \in s \ {c}
          /\ s \ {y} \in SUBSET S /\ Cardinality(s \ {y}) = n /\ c \in s \ {y}
      BY <1>1, <2>1, <2>3, FS_RemoveElement
    <3>2. /\ SumFunctionOnSet(f, s \ {c}) = f[y] + SumFunctionOnSet(f, (s \ {c}) \ {y})
          /\ SumFunctionOnSet(f, s \ {y}) = f[c] + SumFunctionOnSet(f, (s \ {y}) \ {c})
      BY <1>4, <3>1
    <3>3. (s \ {c}) \ {y} = (s \ {y}) \ {c}
      OBVIOUS
    <3>4. (s \ {y}) \ {c} \in SUBSET S
      OBVIOUS
    <3>5. SumFunctionOnSet(f, (s \ {y}) \ {c}) \in Nat /\ f[c] \in Nat /\ f[y] \in Nat
      BY <1>1, <2>1, <3>4, SumIsNat DEF Weighs
    <3>. QED
      BY <2>1, <3>2, <3>3, <3>5
  <2>. QED
    BY <2>2, <2>3
<1> HIDE DEF U
<1>5. Nat \subseteq U
  BY <1>3, <1>4, NatInduct
<1>6. S \in SUBSET S
  OBVIOUS
<1>. QED
  BY <1>1, <1>5, <1>6 DEF U

\* A set with one member more.
LEMMA SumAdds ==
    ASSUME NEW s, IsFiniteSet(s), NEW x, x \notin s, NEW f, Weighs(f, s \cup {x})
    PROVE  /\ SumFunctionOnSet(f, s \cup {x}) = f[x] + SumFunctionOnSet(f, s)
           /\ SumFunctionOnSet(f, s) \in Nat /\ f[x] \in Nat
<1>1. IsFiniteSet(s \cup {x}) /\ (s \cup {x}) \ {x} = s
  BY FS_AddElement
<1>2. SumFunctionOnSet(f, s \cup {x}) = f[x] + SumFunctionOnSet(f, (s \cup {x}) \ {x})
  BY <1>1, SumTakes
<1>3. Weighs(f, s) /\ f[x] \in Nat
  BY DEF Weighs
<1>. QED
  BY <1>1, <1>2, <1>3, SumIsNat

\* Summand by summand, sum by sum.
LEMMA SumAtMost ==
    ASSUME NEW S, IsFiniteSet(S), NEW f, NEW g, Weighs(f, S), Weighs(g, S),
           \A x \in S : f[x] <= g[x]
    PROVE  SumFunctionOnSet(f, S) <= SumFunctionOnSet(g, S)
<1> DEFINE T == {s \in SUBSET S : SumFunctionOnSet(f, s) <= SumFunctionOnSet(g, s)}
<1>1. {} \in T
  BY SumEmpty
<1>2. ASSUME NEW s \in SUBSET S, NEW x \in S \ s, s \in T PROVE s \cup {x} \in T
  <2>1. IsFiniteSet(s) /\ Weighs(f, s \cup {x}) /\ Weighs(g, s \cup {x})
    BY FS_Subset DEF Weighs
  <2>2. /\ SumFunctionOnSet(f, s \cup {x}) = f[x] + SumFunctionOnSet(f, s)
        /\ SumFunctionOnSet(f, s) \in Nat /\ f[x] \in Nat
    BY <2>1, SumAdds
  <2>3. /\ SumFunctionOnSet(g, s \cup {x}) = g[x] + SumFunctionOnSet(g, s)
        /\ SumFunctionOnSet(g, s) \in Nat /\ g[x] \in Nat
    BY <2>1, SumAdds
  <2>4. f[x] <= g[x] /\ SumFunctionOnSet(f, s) <= SumFunctionOnSet(g, s)
    BY <1>2
  <2>5. SumFunctionOnSet(f, s \cup {x}) <= SumFunctionOnSet(g, s \cup {x})
    BY <2>2, <2>3, <2>4
  <2>. QED
    BY <2>5
<1> HIDE DEF T
<1>3. S \in T
  BY <1>1, <1>2, SetInduct
<1>. QED
  BY <1>3 DEF T

\* Of two disjoint sets.
LEMMA SumOfTwo ==
    ASSUME NEW S, NEW P, IsFiniteSet(S), IsFiniteSet(P), S \cap P = {}, NEW f, Weighs(f, S \cup P)
    PROVE  SumFunctionOnSet(f, S \cup P) = SumFunctionOnSet(f, S) + SumFunctionOnSet(f, P)
<1> DEFINE T == {s \in SUBSET P :
                    SumFunctionOnSet(f, S \cup s) = SumFunctionOnSet(f, S) + SumFunctionOnSet(f, s)}
<1>0. SumFunctionOnSet(f, S) \in Nat
  BY SumIsNat DEF Weighs
<1>1. {} \in T
  <2>1. S \cup {} = S
    OBVIOUS
  <2>. QED
    BY <1>0, <2>1, SumEmpty
<1>2. ASSUME NEW s \in SUBSET P, NEW x \in P \ s, s \in T PROVE s \cup {x} \in T
  <2>1. IsFiniteSet(s) /\ Weighs(f, s \cup {x})
    BY FS_Subset DEF Weighs
  <2>2. IsFiniteSet(S \cup s) /\ x \notin S \cup s /\ Weighs(f, (S \cup s) \cup {x})
    BY <2>1, FS_Union DEF Weighs
  <2>3. /\ SumFunctionOnSet(f, s \cup {x}) = f[x] + SumFunctionOnSet(f, s)
        /\ SumFunctionOnSet(f, s) \in Nat /\ f[x] \in Nat
    BY <2>1, SumAdds
  <2>4. SumFunctionOnSet(f, (S \cup s) \cup {x}) = f[x] + SumFunctionOnSet(f, S \cup s)
    BY <2>2, SumAdds
  <2>5. (S \cup s) \cup {x} = S \cup (s \cup {x})
    OBVIOUS
  <2>6. SumFunctionOnSet(f, S \cup s) = SumFunctionOnSet(f, S) + SumFunctionOnSet(f, s)
    BY <1>2
  <2>7. SumFunctionOnSet(f, S \cup (s \cup {x}))
           = SumFunctionOnSet(f, S) + SumFunctionOnSet(f, s \cup {x})
    <3> DEFINE a == SumFunctionOnSet(f, S)
               b == SumFunctionOnSet(f, s)
               c == SumFunctionOnSet(f, S \cup (s \cup {x}))
               d == SumFunctionOnSet(f, s \cup {x})
    <3>1. c = f[x] + (a + b)
      BY <2>4, <2>5, <2>6, Zenon
    <3>2. d = f[x] + b /\ a \in Nat /\ b \in Nat /\ f[x] \in Nat
      BY <1>0, <2>3
    <3> HIDE DEF a, b, c, d
    <3>3. c = a + d
      BY <3>1, <3>2
    <3>. QED
      BY <3>3 DEF a, c, d
  <2>. QED
    BY <2>7
<1> HIDE DEF T
<1>3. P \in T
  BY <1>1, <1>2, SetInduct
<1>. QED
  BY <1>3 DEF T

\* A part sums up to no more than the whole.
LEMMA SumOfPart ==
    ASSUME NEW S, IsFiniteSet(S), NEW P \in SUBSET S, NEW f, Weighs(f, S)
    PROVE  SumFunctionOnSet(f, P) <= SumFunctionOnSet(f, S)
<1>1. IsFiniteSet(P) /\ IsFiniteSet(S \ P) /\ P \cap (S \ P) = {} /\ P \cup (S \ P) = S
  BY FS_Subset
<1>2. SumFunctionOnSet(f, P \cup (S \ P)) = SumFunctionOnSet(f, P) + SumFunctionOnSet(f, S \ P)
  BY <1>1, SumOfTwo
<1>3. Weighs(f, P) /\ Weighs(f, S \ P)
  BY DEF Weighs
<1>4. SumFunctionOnSet(f, P) \in Nat /\ SumFunctionOnSet(f, S \ P) \in Nat
  BY <1>1, <1>3, SumIsNat
<1>5. SumFunctionOnSet(f, S) = SumFunctionOnSet(f, P) + SumFunctionOnSet(f, S \ P)
  BY <1>1, <1>2, Zenon
<1>. QED
  BY <1>4, <1>5

\* Summing over the values of h, each met once, or over what h is applied to.
LEMMA SumAlong ==
    ASSUME NEW Q, IsFiniteSet(Q), NEW h, \A p, q \in Q : h[p] = h[q] => p = q,
           NEW f, NEW g, \A p \in Q : g[p] = f[h[p]] /\ g[p] \in Nat
    PROVE  /\ IsFiniteSet({h[p] : p \in Q})
           /\ SumFunctionOnSet(f, {h[p] : p \in Q}) = SumFunctionOnSet(g, Q)
<1> DEFINE At(s) == {h[p] : p \in s}
           T == {s \in SUBSET Q : /\ IsFiniteSet(At(s))
                                  /\ SumFunctionOnSet(f, At(s)) = SumFunctionOnSet(g, s)}
<1>1. {} \in T
  <2>1. At({}) = {}
    OBVIOUS
  <2> HIDE DEF At
  <2>. QED
    BY <2>1, SumEmpty, FS_EmptySet
<1>2. ASSUME NEW s \in SUBSET Q, NEW x \in Q \ s, s \in T PROVE s \cup {x} \in T
  <2>1. IsFiniteSet(s) /\ Weighs(g, s \cup {x})
    BY FS_Subset DEF Weighs
  <2>2. h[x] \notin At(s) /\ At(s \cup {x}) = At(s) \cup {h[x]}
    OBVIOUS
  <2>3. Weighs(f, At(s) \cup {h[x]})
    BY DEF Weighs
  <2>4. IsFiniteSet(At(s)) /\ SumFunctionOnSet(f, At(s)) = SumFunctionOnSet(g, s)
    BY <1>2
  <2> HIDE DEF At
  <2>5. /\ IsFiniteSet(At(s) \cup {h[x]})
        /\ SumFunctionOnSet(f, At(s) \cup {h[x]}) = f[h[x]] + SumFunctionOnSet(f, At(s))
    BY <2>2, <2>3, <2>4, SumAdds, FS_AddElement
  <2>6. SumFunctionOnSet(g, s \cup {x}) = g[x] + SumFunctionOnSet(g, s)
    BY <2>1, SumAdds
  <2>7. SumFunctionOnSet(f, At(s \cup {x})) = SumFunctionOnSet(g, s \cup {x})
    BY <2>2, <2>4, <2>5, <2>6
  <2>. QED
    BY <2>2, <2>5, <2>7
<1> HIDE DEF T
<1>3. Q \in T
  BY <1>1, <1>2, SetInduct
<1>. QED
  BY <1>3 DEF T

\* Summing class by class.
Class(E, k, a) == {e \in E : k[e] = a}

LEMMA SumByClass ==
    ASSUME NEW E, IsFiniteSet(E), NEW Q, IsFiniteSet(Q), NEW k, \A e \in E : k[e] \in Q,
           NEW f, Weighs(f, E),
           NEW g, \A a \in Q : g[a] = SumFunctionOnSet(f, Class(E, k, a))
    PROVE  SumFunctionOnSet(f, E) = SumFunctionOnSet(g, Q)
<1> DEFINE Of(s) == {e \in E : k[e] \in s}
           T == {s \in SUBSET Q : SumFunctionOnSet(f, Of(s)) = SumFunctionOnSet(g, s)}
<1>0. ASSUME NEW P \in SUBSET E PROVE IsFiniteSet(P) /\ Weighs(f, P) /\ SumFunctionOnSet(f, P) \in Nat
  <2>1. IsFiniteSet(P) /\ Weighs(f, P)
    BY FS_Subset DEF Weighs
  <2>. QED
    BY <2>1, SumIsNat
<1>1. {} \in T
  <2>1. Of({}) = {}
    OBVIOUS
  <2> HIDE DEF Of
  <2>. QED
    BY <2>1, SumEmpty
<1>2. ASSUME NEW s \in SUBSET Q, NEW x \in Q \ s, s \in T PROVE s \cup {x} \in T
  <2> DEFINE new == Class(E, k, x)
  <2>1. Of(s) \in SUBSET E /\ new \in SUBSET E /\ Of(s) \cap new = {}
        /\ Of(s \cup {x}) = Of(s) \cup new
    BY DEF Class
  <2> HIDE DEF Of
  <2>2. g[x] = SumFunctionOnSet(f, new) /\ SumFunctionOnSet(f, Of(s)) = SumFunctionOnSet(g, s)
    BY <1>2
  <2> HIDE DEF new
  <2>3. Of(s) \cup new \in SUBSET E
    BY <2>1
  <2>4. SumFunctionOnSet(f, Of(s) \cup new) = SumFunctionOnSet(f, Of(s)) + SumFunctionOnSet(f, new)
    BY <1>0, <2>1, <2>3, SumOfTwo
  <2>5. IsFiniteSet(s) /\ Weighs(g, s \cup {x})
    <3>1. \A a \in Q : Class(E, k, a) \in SUBSET E
      BY DEF Class
    <3>. QED
      BY <1>0, <3>1, FS_Subset DEF Weighs
  <2>6. SumFunctionOnSet(g, s \cup {x}) = g[x] + SumFunctionOnSet(g, s)
    BY <2>5, SumAdds
  <2>7. SumFunctionOnSet(f, Of(s \cup {x})) = SumFunctionOnSet(g, s \cup {x})
    <3> DEFINE a == SumFunctionOnSet(g, s)
               b == SumFunctionOnSet(f, Of(s \cup {x}))
               c == SumFunctionOnSet(g, s \cup {x})
               d == SumFunctionOnSet(f, new)
    <3>1. a \in Nat /\ d \in Nat
      BY <1>0, <2>1, <2>2
    <3>2. b = a + d
      BY <2>1, <2>2, <2>4, Zenon
    <3>3. c = d + a
      BY <2>2, <2>6, Zenon
    <3> HIDE DEF a, b, c, d
    <3>4. b = c
      BY <3>1, <3>2, <3>3
    <3>. QED
      BY <3>4 DEF b, c
  <2>. QED
    BY <2>7
<1> HIDE DEF T
<1>3. Q \in T
  BY <1>1, <1>2, SetInduct
<1>4. Of(Q) = E
  OBVIOUS
<1>. QED
  BY <1>3, <1>4 DEF T

\* Summands of 1 and more.
LEMMA SumAtLeastSize ==
    ASSUME NEW S, IsFiniteSet(S), NEW f, \A x \in S : f[x] \in Nat /\ f[x] >= 1
    PROVE  Cardinality(S) <= SumFunctionOnSet(f, S)
<1> DEFINE T == {s \in SUBSET S : Cardinality(s) <= SumFunctionOnSet(f, s)}
<1>1. {} \in T
  BY SumEmpty, FS_EmptySet
<1>2. ASSUME NEW s \in SUBSET S, NEW x \in S \ s, s \in T PROVE s \cup {x} \in T
  <2>1. IsFiniteSet(s) /\ Weighs(f, s \cup {x}) /\ f[x] >= 1
    BY FS_Subset DEF Weighs
  <2>2. /\ SumFunctionOnSet(f, s \cup {x}) = f[x] + SumFunctionOnSet(f, s)
        /\ SumFunctionOnSet(f, s) \in Nat /\ f[x] \in Nat
    BY <2>1, SumAdds
  <2>3. Cardinality(s \cup {x}) = Cardinality(s) + 1 /\ Cardinality(s) \in Nat
    BY <2>1, FS_AddElement, FS_CardinalityType
  <2>4. Cardinality(s) <= SumFunctionOnSet(f, s)
    BY <1>2
  <2>5. Cardinality(s \cup {x}) <= SumFunctionOnSet(f, s \cup {x})
    BY <2>1, <2>2, <2>3, <2>4
  <2>. QED
    BY <2>5
<1> HIDE DEF T
<1>3. S \in T
  BY <1>1, <1>2, SetInduct
<1>. QED
  BY <1>3 DEF T

\* Rounded down, a part of v in proportion to x in all.
LEMMA ShareBound ==
    ASSUME NEW v \in Nat, NEW x \in Nat, NEW t \in Nat \ {0}
    PROVE  (v * x) \div t \in Nat /\ ((v * x) \div t) * t <= v * x
<1>1. v * x \in Nat
  OBVIOUS
<1> DEFINE m == v * x
<1> HIDE DEF m
<1>2. m \in Nat
  BY <1>1 DEF m
<1>3. m \div t \in Nat /\ (m \div t) * t <= m
  BY <1>2
<1>. QED
  BY <1>3 DEF m

\* The rounded shares of v fit into v.
LEMMA SumOfShares ==
    ASSUME NEW P, IsFiniteSet(P), NEW x, Weighs(x, P), NEW v \in Nat, NEW t \in Nat \ {0},
           NEW g, \A p \in P : g[p] = (v * x[p]) \div t
    PROVE  /\ Weighs(g, P)
           /\ SumFunctionOnSet(g, P) * t <= v * SumFunctionOnSet(x, P)
<1>0. \A p \in P : g[p] \in Nat /\ x[p] \in Nat /\ g[p] * t <= v * x[p]
  BY ShareBound DEF Weighs
<1> DEFINE T == {s \in SUBSET P : SumFunctionOnSet(g, s) * t <= v * SumFunctionOnSet(x, s)}
<1>1. {} \in T
  BY SumEmpty
<1>2. ASSUME NEW s \in SUBSET P, NEW p \in P \ s, s \in T PROVE s \cup {p} \in T
  <2>1. IsFiniteSet(s) /\ Weighs(g, s \cup {p}) /\ Weighs(x, s \cup {p})
    BY <1>0, FS_Subset DEF Weighs
  <2>2. /\ SumFunctionOnSet(g, s \cup {p}) = g[p] + SumFunctionOnSet(g, s)
        /\ SumFunctionOnSet(g, s) \in Nat
    BY <2>1, SumAdds
  <2>3. /\ SumFunctionOnSet(x, s \cup {p}) = x[p] + SumFunctionOnSet(x, s)
        /\ SumFunctionOnSet(x, s) \in Nat
    BY <2>1, SumAdds
  <2> DEFINE a == SumFunctionOnSet(g, s)
             b == SumFunctionOnSet(x, s)
  <2>4. a * t <= v * b
    BY <1>2
  <2>5. a \in Nat /\ b \in Nat /\ g[p] \in Nat /\ x[p] \in Nat /\ g[p] * t <= v * x[p]
    BY <1>0, <2>2, <2>3
  <2> HIDE DEF a, b
  <2>6. (g[p] + a) * t = g[p] * t + a * t /\ v * (x[p] + b) = v * x[p] + v * b
    BY <2>5
  <2>7. (g[p] + a) * t <= v * (x[p] + b)
    <3>1. g[p] * t \in Nat /\ a * t \in Nat /\ v * x[p] \in Nat /\ v * b \in Nat
      BY <2>5
    <3>. QED
      BY <2>4, <2>5, <2>6, <3>1
  <2>8. SumFunctionOnSet(g, s \cup {p}) * t <= v * SumFunctionOnSet(x, s \cup {p})
    BY <2>2, <2>3, <2>7 DEF a, b
  <2>. QED
    BY <2>8
<1> HIDE DEF T
<1>3. P \in T
  BY <1>1, <1>2, SetInduct
<1>. QED
  BY <1>0, <1>3 DEF T, Weighs

\* An even split, rounded down.
LEMMA SumOfEqual ==
    ASSUME NEW P, IsFiniteSet(P), NEW c \in Nat, NEW g, \A p \in P : g[p] = c
    PROVE  SumFunctionOnSet(g, P) = Cardinality(P) * c
<1> DEFINE T == {s \in SUBSET P : SumFunctionOnSet(g, s) = Cardinality(s) * c}
<1>1. {} \in T
  BY SumEmpty, FS_EmptySet
<1>2. ASSUME NEW s \in SUBSET P, NEW p \in P \ s, s \in T PROVE s \cup {p} \in T
  <2>1. IsFiniteSet(s) /\ Weighs(g, s \cup {p}) /\ g[p] = c
    BY FS_Subset DEF Weighs
  <2>2. SumFunctionOnSet(g, s \cup {p}) = g[p] + SumFunctionOnSet(g, s)
    BY <2>1, SumAdds
  <2>3. Cardinality(s \cup {p}) = Cardinality(s) + 1 /\ Cardinality(s) \in Nat
    BY <2>1, FS_AddElement, FS_CardinalityType
  <2>4. (Cardinality(s) + 1) * c = c + Cardinality(s) * c
    BY <2>3
  <2>5. SumFunctionOnSet(g, s \cup {p}) = Cardinality(s \cup {p}) * c
    BY <1>2, <2>1, <2>2, <2>3, <2>4
  <2>. QED
    BY <2>5
<1> HIDE DEF T
<1>3. P \in T
  BY <1>1, <1>2, SetInduct
<1>. QED
  BY <1>3 DEF T
\* f applies step n = 1, 2, ... to what the step before made of base.
Runs(f, base, step, size) == f[0] = base /\ \A n \in 1..size : f[n] = step[n][f[n - 1]]

\* Such a function exists, in whatever set the steps stay in.
LEMMA Iterates ==
    ASSUME NEW V, NEW base \in V, NEW step \in [Nat -> [V -> V]], NEW size \in Nat
    PROVE  \E f \in [0..size -> V] : Runs(f, base, step, size)
<1> DEFINE T == {m \in Nat : \E f \in [0..m -> V] : Runs(f, base, step, m)}
<1>1. 0 \in T
  <2> DEFINE f == [n \in 0..0 |-> base]
  <2>1. f \in [0..0 -> V] /\ Runs(f, base, step, 0)
    BY DEF Runs
  <2>. QED
    BY <2>1
<1>2. ASSUME NEW m \in Nat, m \in T PROVE m + 1 \in T
  <2>1. PICK g \in [0..m -> V] : Runs(g, base, step, m)
    BY <1>2
  <2> DEFINE last == step[m + 1][g[m]]
             f == [n \in 0..(m + 1) |-> IF n = m + 1 THEN last ELSE g[n]]
  <2>2. last \in V /\ \A n \in 0..m : g[n] \in V
    <3>1. m \in 0..m /\ m + 1 \in Nat
      OBVIOUS
    <3>2. g[m] \in V /\ step[m + 1] \in [V -> V]
      BY <3>1
    <3>. QED
      BY <3>2
  <2>3. f \in [0..(m + 1) -> V]
    BY <2>2
  <2>4. f[0] = base
    BY <2>1 DEF Runs
  <2>5. ASSUME NEW n \in 1..(m + 1) PROVE f[n] = step[n][f[n - 1]]
    <3>1. CASE n = m + 1
      <4>1. f[n] = last /\ f[n - 1] = g[m]
        BY <3>1
      <4>. QED
        BY <3>1, <4>1
    <3>2. CASE n \in 1..m
      <4>1. f[n] = g[n] /\ f[n - 1] = g[n - 1]
        BY <3>2
      <4>2. g[n] = step[n][g[n - 1]]
        BY <2>1, <3>2 DEF Runs
      <4>. QED
        BY <4>1, <4>2
    <3>. QED
      BY <3>1, <3>2
  <2> HIDE DEF f
  <2>6. Runs(f, base, step, m + 1)
    BY <2>4, <2>5 DEF Runs
  <2>. QED
    BY <2>3, <2>6
<1> HIDE DEF T
<1>3. Nat \subseteq T
  BY <1>1, <1>2, NatInduct
<1>. QED
  BY <1>3 DEF T

-----------------------------------------------------------------------------
(* Who is within reach *)

\* near, and what one more transfer of E reaches.
Onward(E, near) == near \cup {e.to : e \in {g \in E : g.from \in near}}

\* f counts Within up, transfer by transfer.
IsReach(f, E, r, d) ==
    f = [n \in 0..d |-> IF n = 0 THEN {r} ELSE Onward(E, f[n - 1])]

\* The same, entry by entry.
Steps(f, E, r, d) == f[0] = {r} /\ \A n \in 1..d : f[n] = Onward(E, f[n - 1])

\* Within is one.
LEMMA ReachIs ==
    ASSUME NEW E, NEW r, NEW d \in Nat
    PROVE  \E f : IsReach(f, E, r, d) /\ Within(E, r, d) = f[d]
<1> DEFINE f == CHOOSE g : IsReach(g, E, r, d)
<1>1. Within(E, r, d) = f[d]
  BY DEF Within, IsReach, Onward
<1>2. \E g : IsReach(g, E, r, d)
  <2> DEFINE V == SUBSET ({r} \cup {e.to : e \in E})
             one == [v \in V |-> Onward(E, v)]
             step == [n \in Nat |-> one]
  <2>1. \A v \in V : Onward(E, v) \in V
    BY DEF Onward
  <2>2. one \in [V -> V]
    BY <2>1
  <2>3. step \in [Nat -> [V -> V]]
    BY <2>2
  <2>4. {r} \in V
    OBVIOUS
  <2> HIDE DEF step
  <2>5. PICK g \in [0..d -> V] : Runs(g, {r}, step, d)
    BY <2>3, <2>4, Iterates
  <2>6. \A n \in 1..d : g[n] = Onward(E, g[n - 1])
    <3> SUFFICES ASSUME NEW n \in 1..d
                 PROVE  g[n] = Onward(E, g[n - 1])
      OBVIOUS
    <3>1. n - 1 \in 0..d /\ n \in Nat
      OBVIOUS
    <3>2. g[n - 1] \in V /\ g[n] = step[n][g[n - 1]]
      BY <2>5, <3>1 DEF Runs
    <3>. QED
      BY <3>1, <3>2 DEF step
  <2>7. g[0] = {r}
    BY <2>5 DEF Runs
  <2> HIDE DEF V
  <2>8. IsReach(g, E, r, d)
    BY <2>5, <2>6, <2>7 DEF IsReach
  <2>. QED
    BY <2>8
<1>3. IsReach(f, E, r, d)
  BY <1>2
<1>. QED
  BY <1>1, <1>3

LEMMA ReachAt ==
    ASSUME NEW E, NEW r, NEW d \in Nat, NEW f, IsReach(f, E, r, d)
    PROVE  Steps(f, E, r, d)
<1>1. 0 \in 0..d
  OBVIOUS
<1>2. f[0] = {r}
  BY <1>1, Zenon DEF IsReach
<1>3. ASSUME NEW n \in 1..d
      PROVE  f[n] = Onward(E, f[n - 1])
  <2>1. n \in 0..d /\ n # 0
    OBVIOUS
  <2>. QED
    BY <2>1, Zenon DEF IsReach
<1>. QED
  BY <1>2, <1>3 DEF Steps

\* Looking further does not change what is near.
LEMMA ReachAgrees ==
    ASSUME NEW E, NEW r, NEW c \in Nat, NEW d \in Nat, c <= d,
           NEW f, IsReach(f, E, r, c), NEW g, IsReach(g, E, r, d)
    PROVE  f[c] = g[c]
<1> DEFINE T == {n \in Nat : n <= c => f[n] = g[n]}
<1>0. Steps(f, E, r, c) /\ Steps(g, E, r, d)
  BY ReachAt
<1>1. 0 \in T
  BY <1>0 DEF Steps
<1>2. ASSUME NEW n \in Nat, n \in T PROVE n + 1 \in T
  <2> SUFFICES ASSUME n + 1 <= c PROVE f[n + 1] = g[n + 1]
    OBVIOUS
  <2>1. n + 1 \in 1..c /\ n + 1 \in 1..d /\ (n + 1) - 1 = n /\ n <= c
    OBVIOUS
  <2>2. f[n] = g[n]
    BY <1>2, <2>1
  <2>3. f[n + 1] = Onward(E, f[(n + 1) - 1])
    BY <1>0, <2>1, Zenon DEF Steps
  <2>4. g[n + 1] = Onward(E, g[(n + 1) - 1])
    BY <1>0, <2>1, Zenon DEF Steps
  <2>. QED
    BY <2>1, <2>2, <2>3, <2>4
<1> HIDE DEF T
<1>3. Nat \subseteq T
  BY <1>1, <1>2, NatInduct
<1>. QED
  BY <1>3 DEF T

LEMMA WithinNone == ASSUME NEW E, NEW r PROVE Within(E, r, 0) = {r}
<1>1. 0 \in Nat
  OBVIOUS
<1>2. PICK f : IsReach(f, E, r, 0) /\ Within(E, r, 0) = f[0]
  BY <1>1, ReachIs, Zenon
<1>3. Steps(f, E, r, 0)
  BY <1>1, <1>2, ReachAt
<1>. QED
  BY <1>2, <1>3 DEF Steps

\* What Within means, one transfer at a time.
LEMMA WithinNext ==
    ASSUME NEW E, NEW r, NEW d \in Nat, NEW n, n = d + 1
    PROVE  Within(E, r, n) = Onward(E, Within(E, r, d))
<1>1. PICK f : IsReach(f, E, r, d) /\ Within(E, r, d) = f[d]
  BY ReachIs
<1>2. n \in Nat /\ d <= n /\ n \in 1..n /\ n - 1 = d
  OBVIOUS
<1>3. PICK g : IsReach(g, E, r, n) /\ Within(E, r, n) = g[n]
  BY <1>2, ReachIs
<1>4. f[d] = g[d]
  BY <1>1, <1>2, <1>3, ReachAgrees
<1>5. Steps(g, E, r, n)
  BY <1>2, <1>3, ReachAt
<1>6. g[n] = Onward(E, g[n - 1])
  BY <1>2, <1>5, Zenon DEF Steps
<1>. QED
  BY <1>1, <1>2, <1>3, <1>4, <1>6

\* Every transfer of E has one of F between the same addresses.
Covers(E, F) == \A e \in E : \E f \in F : f.from = e.from /\ f.to = e.to

\* With more transfers no less is within reach.
LEMMA WithinCovers ==
    ASSUME NEW E, NEW F, Covers(E, F), NEW r, NEW d \in Nat
    PROVE  Within(E, r, d) \subseteq Within(F, r, d)
<1> DEFINE T == {n \in Nat : Within(E, r, n) \subseteq Within(F, r, n)}
<1>1. 0 \in T
  BY WithinNone
<1>2. ASSUME NEW n \in Nat, n \in T PROVE n + 1 \in T
  <2>1. Within(E, r, n + 1) = Onward(E, Within(E, r, n))
    BY WithinNext
  <2>2. Within(F, r, n + 1) = Onward(F, Within(F, r, n))
    BY WithinNext
  <2>3. Within(E, r, n) \subseteq Within(F, r, n)
    BY <1>2
  <2>. QED
    BY <2>1, <2>2, <2>3 DEF Covers, Onward
<1> HIDE DEF T
<1>3. Nat \subseteq T
  BY <1>1, <1>2, NatInduct
<1>. QED
  BY <1>3 DEF T

\* Nor with more hops.
LEMMA WithinGrows ==
    ASSUME NEW E, NEW r, NEW c \in Nat, NEW d \in Nat, c <= d
    PROVE  Within(E, r, c) \subseteq Within(E, r, d)
<1> DEFINE T == {n \in Nat : Within(E, r, c) \subseteq Within(E, r, c + n)}
<1>1. 0 \in T
  OBVIOUS
<1>2. ASSUME NEW n \in Nat, n \in T PROVE n + 1 \in T
  <2>1. c + n \in Nat /\ c + (n + 1) = (c + n) + 1
    OBVIOUS
  <2>2. Within(E, r, c + n) \subseteq Within(E, r, (c + n) + 1)
    BY <2>1, WithinNext DEF Onward
  <2>. QED
    BY <1>2, <2>1, <2>2
<1> HIDE DEF T
<1>3. Nat \subseteq T
  BY <1>1, <1>2, NatInduct
<1>4. d - c \in Nat /\ c + (d - c) = d
  OBVIOUS
<1>5. d - c \in T
  BY <1>3, <1>4
<1>. QED
  BY <1>4, <1>5 DEF T

\* Only the start, and what a transfer ends at, is within reach.
LEMMA WithinEnds ==
    ASSUME NEW E, NEW r, NEW d \in Nat
    PROVE  r \in Within(E, r, d) /\ Within(E, r, d) \subseteq {r} \cup {e.to : e \in E}
<1> DEFINE T == {n \in Nat : Within(E, r, n) \subseteq {r} \cup {e.to : e \in E}}
<1>1. 0 \in T
  BY WithinNone
<1>2. ASSUME NEW n \in Nat, n \in T PROVE n + 1 \in T
  <2>1. Within(E, r, n + 1) = Onward(E, Within(E, r, n))
    BY WithinNext
  <2>. QED
    BY <1>2, <2>1 DEF Onward
<1> HIDE DEF T
<1>3. Nat \subseteq T
  BY <1>1, <1>2, NatInduct
<1>4. Within(E, r, 0) \subseteq Within(E, r, d)
  BY WithinGrows
<1>. QED
  BY <1>3, <1>4, WithinNone DEF T

\* Finitely many transfers reach finitely many addresses.
LEMMA WithinFinite ==
    ASSUME NEW E, IsFiniteSet(E), NEW r, NEW d \in Nat
    PROVE  IsFiniteSet(Within(E, r, d)) /\ IsFiniteSet(Reached(E, r, d))
<1>1. IsFiniteSet({e.to : e \in E})
  <2> DEFINE end == [e \in E |-> e.to]
             ends == {e.to : e \in E}
  <2>1. end \in Surjection(E, ends)
    BY DEF Surjection
  <2> HIDE DEF end
  <2>. QED
    BY <2>1, FS_Surjection
<1>2. IsFiniteSet({r} \cup {e.to : e \in E})
  BY <1>1, FS_Singleton, FS_Union
<1>. QED
  BY <1>2, WithinEnds, FS_Subset DEF Reached

\* Hop is the least number of transfers.
LEMMA HopIs ==
    ASSUME NEW E, NEW r, NEW d \in Nat, NEW a \in Within(E, r, d)
    PROVE  /\ Hop(E, r, d, a) \in 0..d
           /\ a \in Within(E, r, Hop(E, r, d, a))
           /\ \A n \in Nat : a \in Within(E, r, n) => Hop(E, r, d, a) <= n
           /\ a # r => Hop(E, r, d, a) # 0
<1> DEFINE First(n) == a \in Within(E, r, n) /\ (n > 0 => a \notin Within(E, r, n - 1))
           T == {n \in Nat : a \in Within(E, r, n) => \E k \in 0..n : First(k)}
           h == Hop(E, r, d, a)
<1>1. 0 \in T
  OBVIOUS
<1>2. ASSUME NEW n \in Nat, n \in T PROVE n + 1 \in T
  <2> SUFFICES ASSUME a \in Within(E, r, n + 1) PROVE \E k \in 0..(n + 1) : First(k)
    OBVIOUS
  <2>1. CASE a \in Within(E, r, n)
    BY <1>2, <2>1
  <2>2. CASE a \notin Within(E, r, n)
    <3>1. (n + 1) - 1 = n /\ n + 1 \in 0..(n + 1)
      OBVIOUS
    <3>2. First(n + 1)
      BY <2>2, <3>1
    <3>. QED
      BY <3>1, <3>2
  <2>. QED
    BY <2>1, <2>2
<1>3. Nat \subseteq T
  <2> HIDE DEF T
  <2>. QED
    BY <1>1, <1>2, NatInduct
<1>4. h \in 0..d /\ First(h)
  BY <1>3 DEF Hop
<1> HIDE DEF h
<1>5. ASSUME NEW n \in Nat, a \in Within(E, r, n) PROVE h <= n
  <2> SUFFICES ASSUME ~(h <= n) PROVE FALSE
    OBVIOUS
  <2>1. h - 1 \in Nat /\ n <= h - 1 /\ h > 0
    BY <1>4
  <2>. QED
    BY <1>4, <1>5, <2>1, WithinGrows
<1>6. a # r => h # 0
  BY <1>4, WithinNone
<1>. QED
  BY <1>4, <1>5, <1>6 DEF h

\* With more transfers nothing is farther away.
LEMMA HopCovers ==
    ASSUME NEW E, NEW F, Covers(E, F), NEW r, NEW d \in Nat, NEW a \in Within(E, r, d)
    PROVE  a \in Within(F, r, d) /\ Hop(F, r, d, a) <= Hop(E, r, d, a)
<1>1. a \in Within(F, r, d)
  BY WithinCovers
<1> DEFINE h == Hop(E, r, d, a)
<1>2. h \in Nat /\ a \in Within(E, r, h)
  BY HopIs
<1> HIDE DEF h
<1>3. a \in Within(F, r, h)
  BY <1>2, WithinCovers
<1>4. Hop(F, r, d, a) <= h
  BY <1>1, <1>2, <1>3, HopIs
<1>. QED
  BY <1>1, <1>4 DEF h
-----------------------------------------------------------------------------
(* The invariant, part by part *)

Fields ==
    {"phase", "began", "trace", "target", "attribution", "hits", "kind", "rows", "candidates"}

\* What an intake may have read.
Transactions ==
    LET Entries == Seq([address : Addresses, value : Nat])
    IN  [txid : Txids, status : STRING, inputs : Entries, outputs : Entries]

\* What the edges say an address was paid.
Received(E, a) == SumFunction([e \in {f \in E : f.to = a} |-> e.attributed])

\* Before the first clustering pass.
Alone == [a \in Addresses |-> NULL]

\* n keeps together whom m does.
Merges(m, n) == \A a \in Addresses : Together(m, a) \subseteq Together(n, a)

Attributions == A!AttributionResult(Names, ServiceTypes \cup {"unknown"}, Addresses)

TransferSet == [txid : Txids, from : Addresses, to : Addresses, attributed : Nat]

\* The committed numbers are 1, 2, 3, ...; an open case has the next one, and a
\* rolled-back case had it once.
CaseInv ==
    /\ case \in [Cases -> Case]
    /\ \A k \in Cases : case[k].phase = "none" => ~case[k].node
    /\ \A k \in Committed : case[k].number <= Cardinality(Committed)
    /\ \A j, k \in Committed : case[j].number = case[k].number => j = k
    /\ \A k \in Cases : case[k].phase = "open" => case[k].number = Cardinality(Committed) + 1
    /\ \A j, k \in Cases : case[j].phase = "open" /\ case[k].phase = "open" => j = k

\* The graph: one edge for each transaction and pair, and no address credited
\* by its edges with more than its outputs were worth.
GraphInv ==
    /\ ledger \in Seq(Transactions)
    /\ IsFiniteSet(edges)
    /\ edges \subseteq TransferSet
    /\ \A e \in edges : e.from # e.to
    /\ \A e, f \in edges : SameEdge(e, f) => e = f
    /\ paid \in [Addresses -> Nat]
    /\ \A a \in Addresses : Received(edges, a) <= paid[a]
    /\ tags \in TagSets
    /\ member \in Clusterings \cup {Alone}
    /\ CaseInv

\* What the fields of a request hold.
FieldsInv ==
    /\ IsFiniteSet(request.rows)
    /\ \A row \in request.rows :
          row.address \in Addresses /\ row.service \in Names /\ row.hop \in 1..8
    /\ request.candidates \subseteq Features
    /\ request.attribution = NULL \/ request.attribution \in Attributions

\* What they hold in which phase.
PhaseInv ==
    /\ request.phase \in {"idle"} \cup WalletPhases \cup ExposurePhases
    /\ request.phase \in {"idle", "undirected"} \cup WalletPhases => request.kind = NULL
    /\ request.phase \notin {"found", "filed"} => request.candidates = {}
    /\ request.phase = "serviced" => request.kind = "indirect" /\ request.rows # {}
    /\ request.phase \in {"found", "filed"} =>
          /\ request.kind \in {"direct", "indirect", "none"}
          /\ request.kind = "none" <=> request.candidates = {}
    /\ request.phase \in {"attributed", "hit", "scored", "stored"} =>
          request.attribution \in Attributions
    /\ request.phase \in {"idle", "traced", "unreached", "targeted", "unnamed"} \cup ExposurePhases =>
          request.attribution = NULL
    /\ request.phase = "hit" =>
          request.hits \subseteq [node : Cases, number : Nat, terminal : Addresses]
    /\ request.phase \in {"scored", "stored"} =>
          request.hits \subseteq [case : Cases, node : Cases, terminal : Addresses]

\* A row of what the handler stores.
StoredRow(row) ==
    \/ row \in RiskScore /\ (row.name # NULL \/ row.key # NULL)
    \/ row \in ServiceExposureRecord /\ (row.kind = "none" <=> row.candidates = {})

\* One row at most, and only at the end.
SavedInv ==
    /\ request.phase \notin {"stored", "filed"} => saved = {}
    /\ saved = {} \/ \E row : saved = {row} /\ StoredRow(row)

\* The graph the handler began with is still there, and more.
SinceInv ==
    request.phase \notin {"idle", "failed"} =>
        /\ Covers(request.began.edges, edges)
        /\ request.began.cases \subseteq {k \in Committed : case[k].node}
        /\ request.began.member \in Clusterings \cup {Alone}
        /\ Merges(request.began.member, member)

\* A listed address with a terminal's tag.
Terminal(a) == \E u \in TagsOn(tags, a) : u.type \in TerminalTypes

\* What is attributed is as near as any terminal the trace lists.
TargetFits(target, hops) ==
    \A h \in hops : Terminal(h.address) =>
        /\ target # Root
        /\ target \in Within(edges, Root, Depth)
        /\ Hop(edges, Root, Depth, target) <= h.hop

\* A trace t of the edges E lists what is within reach, and all of it unless it is cut.
Traced(t, E) ==
    /\ \A h \in t.hops :
          h.address \in Reached(E, Root, Depth) /\ h.hop = Hop(E, Root, Depth, h.address)
    /\ ~t.truncated =>
          /\ {h.address : h \in t.hops} = Reached(E, Root, Depth)
          /\ t.mixer \/ \A h \in t.hops :
                TagsOn(tags, h.address) = {}
                \/ \E u \in TagsOn(tags, h.address) : u.type # "mixer"

\* The trace keeps describing the graph of the beginning, the target fits it.
TraceInv ==
    /\ request.phase \in {"idle"} \cup ExposurePhases => request.trace = NULL
    /\ request.phase \in {"idle", "traced", "unreached"} => request.target = NULL
    /\ request.phase = "unreached" => request.trace.hops = {}
    /\ request.trace # NULL =>
          /\ Traced(request.trace, request.began.edges)
          /\ request.target # NULL => TargetFits(request.target, request.trace.hops)

\* The cases whose money had reached the target when the handler began.
Reaching ==
    LET n      == request.attribution
        began  == request.began
        target == R!Target(tags, began.member, n.key, n.name)
    IN  {k \in began.cases : R!Ends(began.edges, target, CaseRoot[k]) # {}}

\* A contribution is of a committed case, and from its node or from that of a
\* rolled-back case with its number.
Accounted(h) ==
    /\ case[h.case].phase = "committed"
    /\ \/ h.node = h.case
       \/ case[h.node].phase = "lost" /\ case[h.node].number = case[h.case].number
    /\ h.terminal \in Within(edges, CaseRoot[h.node], R!ReachDepth)

\* A hit stays a hit; with the clusters of the beginning none is missing.
ScoreInv ==
    /\ request.phase = "hit" =>
          /\ \A h \in request.hits :
                /\ case[h.node].node /\ h.number = case[h.node].number
                /\ h.terminal \in Within(edges, CaseRoot[h.node], R!ReachDepth)
          /\ member = request.began.member =>
                \A k \in Reaching : \E h \in request.hits : h.node = k
    /\ request.phase \in {"scored", "stored"} =>
          /\ \A h \in request.hits : Accounted(h)
          /\ member = request.began.member =>
                \A k \in Reaching : \E h \in request.hits : h.case = k /\ h.node = k

\* No candidate carries more than its addresses were paid, finitely many of them.
VolumeInv ==
    /\ VolumeIsConserved
    /\ \A c \in request.candidates : IsFiniteSet(c.addresses)

\* A search that ended with none looked at all that was there when it began,
\* and at nothing that is not within reach now.
NoneInv ==
    request.kind = "none" =>
        \E F \in SUBSET Reached(edges, Root, Depth) :
            /\ IsFiniteSet(F)
            /\ Reached(request.began.edges, Root, Depth) \subseteq F
            /\ Cardinality(F) <= MaxNodes => \A a \in F : ServiceTags(tags, a) = {}

LEMMA EntryIn == ASSUME NEW S, NEW q \in Seq(S), NEW i \in 1..Len(q) PROVE q[i] \in S
  OBVIOUS

LEMMA ImageFinite ==
    ASSUME NEW Q, IsFiniteSet(Q), NEW h, NEW P, P = {h[p] : p \in Q}
    PROVE  IsFiniteSet(P)
<1> DEFINE g == [p \in Q |-> h[p]]
<1>1. g \in Surjection(Q, P)
  BY DEF Surjection
<1> HIDE DEF g
<1>. QED
  BY <1>1, FS_Surjection

-----------------------------------------------------------------------------
(* How a transaction's money is split *)

\* The entries of a transaction: what they carry in all is what they carry party by party.
LEMMA EntriesSum ==
    ASSUME NEW q \in Seq([address : Addresses, value : Nat])
    PROVE  /\ IsFiniteSet(Parties(q)) /\ Parties(q) \subseteq Addresses
           /\ Total(q) \in Nat
           /\ \A a \in Addresses : Sum(q, a) \in Nat
           /\ \A g : (\A a \in Parties(q) : g[a] = Sum(q, a))
                 => Weighs(g, Parties(q)) /\ SumFunctionOnSet(g, Parties(q)) = Total(q)
<1> DEFINE D == DOMAIN q
           k == [i \in D |-> q[i].address]
           f == [i \in D |-> q[i].value]
           P == Parties(q)
<1>1. IsFiniteSet(D) /\ \A i \in D : q[i].address \in Addresses /\ q[i].value \in Nat
  <2>1. D = 1..Len(q) /\ Len(q) \in Nat
    OBVIOUS
  <2>2. IsFiniteSet(D)
    BY <2>1, FS_Interval
  <2>3. ASSUME NEW i \in D PROVE q[i] \in [address : Addresses, value : Nat]
    BY <2>1, EntryIn
  <2>. QED
    BY <2>2, <2>3
<1>2. /\ P = {k[i] : i \in D} /\ P \subseteq Addresses
      /\ \A i \in D : k[i] \in P /\ k[i] = q[i].address /\ f[i] = q[i].value
  BY <1>1 DEF Parties
<1>3. Weighs(f, D) /\ DOMAIN f = D
  BY <1>1, <1>2 DEF Weighs
<1>4. Total(q) = SumFunctionOnSet(f, D)
  BY <1>3 DEF Total, SumFunction
<1> HIDE DEF k, P
<1>5. IsFiniteSet(P)
  <2> HIDE DEF D
  <2>1. P = {k[i] : i \in D}
    BY <1>2
  <2>. QED
    BY <1>1, <2>1, ImageFinite
<1>6. ASSUME NEW a
      PROVE  Sum(q, a) \in Nat /\ Sum(q, a) = SumFunctionOnSet(f, Class(D, k, a))
  <2> DEFINE S == {j \in DOMAIN q : q[j].address = a}
             b == [i \in S |-> q[i].value]
  <2>1. S = Class(D, k, a) /\ S \in SUBSET D
    BY <1>2 DEF Class
  <2>2. \A i \in S : b[i] = f[i]
    BY <1>2
  <2>3. Sum(q, a) = SumFunctionOnSet(b, S)
    BY DEF Sum, SumFunction
  <2> HIDE DEF b, S, f, D
  <2>4. IsFiniteSet(S) /\ Weighs(f, S) /\ Weighs(b, S)
    BY <1>1, <1>3, <2>1, <2>2, FS_Subset DEF Weighs
  <2>5. SumFunctionOnSet(f, S) = SumFunctionOnSet(b, S)
    BY <2>2, <2>4, SumSame
  <2>6. SumFunctionOnSet(f, S) \in Nat
    BY <2>4, SumIsNat
  <2>. QED
    BY <2>1, <2>3, <2>5, <2>6
<1>7. Total(q) \in Nat
  <2> HIDE DEF D, f
  <2>. QED
    BY <1>1, <1>3, <1>4, SumIsNat
<1>8. ASSUME NEW g, \A a \in P : g[a] = Sum(q, a)
      PROVE  Weighs(g, P) /\ SumFunctionOnSet(g, P) = Total(q)
  <2>1. Weighs(g, P)
    BY <1>6, <1>8 DEF Weighs
  <2>2. \A a \in P : g[a] = SumFunctionOnSet(f, Class(D, k, a))
    BY <1>6, <1>8
  <2> HIDE DEF D, f
  <2>3. SumFunctionOnSet(f, D) = SumFunctionOnSet(g, P)
    BY <1>1, <1>2, <1>3, <1>5, <2>2, SumByClass
  <2>. QED
    BY <1>4, <2>1, <2>3
<1>. QED
  BY <1>2, <1>5, <1>6, <1>7, <1>8 DEF P

LEMMA SharesFit ==
    ASSUME NEW s \in Nat, NEW v \in Nat, NEW t \in Nat \ {0}, s * t <= v * t
    PROVE  s <= v
<1> SUFFICES ASSUME s >= v + 1 PROVE FALSE
  OBVIOUS
<1>1. (v + 1) * t <= s * t
  BY SMTT(30)
<1>2. (v + 1) * t = v * t + t /\ v * t \in Nat /\ s * t \in Nat
  OBVIOUS
<1>. QED
  BY <1>1, <1>2

LEMMA DivFit ==
    ASSUME NEW v \in Nat, NEW c \in Nat \ {0}
    PROVE  v \div c \in Nat /\ c * (v \div c) <= v
  OBVIOUS

\* The shares of one output are never more than the output, however they are rounded.
LEMMA SharesOfOutput ==
    ASSUME NEW tx \in Transactions, NEW a \in Addresses, NEW g,
           \A p \in Parties(tx.inputs) : g[p] = Share(tx, p, a)
    PROVE  /\ Weighs(g, Parties(tx.inputs))
           /\ SumFunctionOnSet(g, Parties(tx.inputs)) <= Sum(tx.outputs, a)
<1> DEFINE P == Parties(tx.inputs)
           v == Sum(tx.outputs, a)
           t == Total(tx.inputs)
           x == [p \in P |-> Sum(tx.inputs, p)]
<1>1. /\ tx.inputs \in Seq([address : Addresses, value : Nat])
      /\ tx.outputs \in Seq([address : Addresses, value : Nat])
  BY DEF Transactions
<1>2. v \in Nat /\ t \in Nat /\ IsFiniteSet(P) /\ P \subseteq Addresses
  BY <1>1, EntriesSum
<1>3. Weighs(x, P) /\ SumFunctionOnSet(x, P) = t
  <2>1. \A p \in P : x[p] = Sum(tx.inputs, p)
    OBVIOUS
  <2> HIDE DEF x
  <2>. QED
    BY <1>1, <2>1, EntriesSum
<1>4. CASE t > 0
  <2>1. \A p \in P : g[p] = (v * x[p]) \div t
    BY <1>4 DEF Share
  <2> HIDE DEF P, v, t, x
  <2>2. t \in Nat \ {0}
    BY <1>2, <1>4
  <2>3. Weighs(g, P) /\ SumFunctionOnSet(g, P) * t <= v * SumFunctionOnSet(x, P)
    BY <1>2, <1>3, <2>1, <2>2, SumOfShares
  <2>4. SumFunctionOnSet(g, P) \in Nat
    BY <1>2, <2>3, SumIsNat
  <2>5. SumFunctionOnSet(g, P) * t <= v * t
    BY <1>3, <2>3
  <2>6. SumFunctionOnSet(g, P) <= v
    BY <1>2, <2>2, <2>4, <2>5, SharesFit
  <2>. QED
    BY <2>3, <2>6 DEF P, v
<1>5. CASE ~(t > 0)
  <2> DEFINE c == v \div Cardinality(P)
  <2>1. \A p \in P : g[p] = c
    BY <1>5 DEF Share
  <2> HIDE DEF P, v, t, x
  <2>2. CASE P = {}
    <3>1. Weighs(g, P) /\ SumFunctionOnSet(g, P) = 0
      BY <2>2, SumEmpty DEF Weighs
    <3>2. SumFunctionOnSet(g, P) <= v
      BY <1>2, <3>1
    <3>. QED
      BY <3>1, <3>2 DEF P, v
  <2>3. CASE P # {}
    <3>1. Cardinality(P) \in Nat \ {0}
      BY <1>2, <2>3, FS_CardinalityType, FS_EmptySet
    <3>2. c \in Nat /\ Cardinality(P) * c <= v
      BY <1>2, <3>1, DivFit
    <3> HIDE DEF c
    <3>3. Weighs(g, P)
      BY <2>1, <3>2 DEF Weighs
    <3>4. SumFunctionOnSet(g, P) = Cardinality(P) * c
      BY <1>2, <2>1, <3>2, SumOfEqual
    <3>5. SumFunctionOnSet(g, P) <= v
      BY <3>2, <3>4
    <3>. QED
      BY <3>3, <3>5 DEF P, v
  <2>. QED
    BY <2>2, <2>3
<1>. QED
  BY <1>2, <1>4, <1>5

LEMMA PairsAre ==
    ASSUME NEW tx \in Transactions
    PROVE  /\ IsFiniteSet(Pairs(tx)) /\ Pairs(tx) \subseteq TransferSet
           /\ \A e \in Pairs(tx) :
                 /\ e.from # e.to /\ e.from \in Parties(tx.inputs)
                 /\ e = [txid |-> tx.txid, from |-> e.from, to |-> e.to,
                         attributed |-> Share(tx, e.from, e.to)]
<1> DEFINE D == {q \in Parties(tx.inputs) \X Parties(tx.outputs) : q[1] # q[2]}
           h == [p \in D |-> [txid |-> tx.txid, from |-> p[1], to |-> p[2],
                              attributed |-> Share(tx, p[1], p[2])]]
<1>1. /\ tx.inputs \in Seq([address : Addresses, value : Nat])
      /\ tx.outputs \in Seq([address : Addresses, value : Nat])
      /\ tx.txid \in Txids
  BY DEF Transactions
<1>2. /\ IsFiniteSet(Parties(tx.inputs)) /\ Parties(tx.inputs) \subseteq Addresses
      /\ IsFiniteSet(Parties(tx.outputs)) /\ Parties(tx.outputs) \subseteq Addresses
  BY <1>1, EntriesSum
<1>3. ASSUME NEW p \in Parties(tx.inputs), NEW a \in Addresses
      PROVE  Share(tx, p, a) \in Nat
  <2> DEFINE g == [b \in Parties(tx.inputs) |-> Share(tx, b, a)]
  <2>1. \A b \in Parties(tx.inputs) : g[b] = Share(tx, b, a)
    OBVIOUS
  <2> HIDE DEF g
  <2>. QED
    BY <2>1, SharesOfOutput DEF Weighs
<1>4. IsFiniteSet(D)
  <2>1. IsFiniteSet(Parties(tx.inputs) \X Parties(tx.outputs))
    BY <1>2, FS_Product
  <2>. QED
    BY <2>1, FS_Subset
<1>5. \A p \in D : p[1] \in Parties(tx.inputs) /\ p[2] \in Addresses /\ p[1] \in Addresses
                   /\ p[1] # p[2]
  BY <1>2
<1>6. Pairs(tx) = {} \/ Pairs(tx) = {h[p] : p \in D}
  BY DEF Pairs
<1>7. ASSUME NEW e \in Pairs(tx)
      PROVE  \E p \in D : e = [txid |-> tx.txid, from |-> p[1], to |-> p[2],
                              attributed |-> Share(tx, p[1], p[2])]
  BY DEF Pairs
<1> HIDE DEF D, h
<1>8. IsFiniteSet(Pairs(tx))
  BY <1>4, <1>6, ImageFinite, FS_EmptySet
<1>9. ASSUME NEW e \in Pairs(tx)
      PROVE  /\ e \in TransferSet
             /\ e.from # e.to /\ e.from \in Parties(tx.inputs)
             /\ e = [txid |-> tx.txid, from |-> e.from, to |-> e.to,
                     attributed |-> Share(tx, e.from, e.to)]
  <2>1. PICK p \in D : e = [txid |-> tx.txid, from |-> p[1], to |-> p[2],
                            attributed |-> Share(tx, p[1], p[2])]
    BY <1>7
  <2>2. e.from = p[1] /\ e.to = p[2] /\ e.attributed = Share(tx, p[1], p[2])
    BY <2>1
  <2>3. Share(tx, p[1], p[2]) \in Nat
    BY <1>3, <1>5
  <2>. QED
    BY <1>1, <1>5, <2>1, <2>2, <2>3 DEF TransferSet
<1>. QED
  BY <1>8, <1>9

\* The edges that pay a.
Into(E, a) == {e \in E : e.to = a}

LEMMA ReceivedIs ==
    ASSUME NEW E, IsFiniteSet(E), E \subseteq TransferSet, NEW a,
           NEW f, \A e \in Into(E, a) : f[e] = e.attributed
    PROVE  /\ IsFiniteSet(Into(E, a)) /\ Weighs(f, Into(E, a))
           /\ Received(E, a) \in Nat /\ Received(E, a) = SumFunctionOnSet(f, Into(E, a))
<1> DEFINE S == Into(E, a)
           g == [e \in S |-> e.attributed]
<1>1. Received(E, a) = SumFunctionOnSet(g, S)
  BY DEF Received, Into, SumFunction
<1>2. IsFiniteSet(S)
  <2>1. S \in SUBSET E
    BY DEF Into
  <2>. QED
    BY <2>1, FS_Subset
<1>3. \A e \in S : e.attributed \in Nat
  BY DEF Into, TransferSet
<1>4. \A e \in S : f[e] = g[e] /\ g[e] \in Nat
  BY <1>3
<1> HIDE DEF g, S
<1>5. Weighs(f, S) /\ Weighs(g, S)
  BY <1>4 DEF Weighs
<1>6. SumFunctionOnSet(f, S) = SumFunctionOnSet(g, S)
  BY <1>2, <1>4, <1>5, SumSame
<1>7. SumFunctionOnSet(g, S) \in Nat
  BY <1>2, <1>5, SumIsNat
<1>. QED
  BY <1>1, <1>2, <1>5, <1>6, <1>7 DEF S

\* What a transaction's edges give an address is no more than its outputs did.
LEMMA PairsGive ==
    ASSUME NEW tx \in Transactions, NEW a \in Addresses
    PROVE  Received(Pairs(tx), a) <= Sum(tx.outputs, a)
<1> DEFINE P == Parties(tx.inputs)
           S == Into(Pairs(tx), a)
           from == [e \in S |-> e.from]
           share == [p \in P |-> Share(tx, p, a)]
           edge == [p \in P |-> [txid |-> tx.txid, from |-> p, to |-> a,
                                 attributed |-> share[p]]]
           f == [e \in S |-> e.attributed]
           Q == {p \in P : \E e \in S : e.from = p}
<1>1. IsFiniteSet(P) /\ Sum(tx.outputs, a) \in Nat
  BY EntriesSum DEF Transactions
<1>2. IsFiniteSet(Pairs(tx)) /\ Pairs(tx) \subseteq TransferSet
  BY PairsAre
<1>3. \A e \in S : f[e] = e.attributed
  OBVIOUS
<1>4. Received(Pairs(tx), a) = SumFunctionOnSet(f, S)
  <2> HIDE DEF f
  <2>. QED
    BY <1>2, <1>3, ReceivedIs
<1>5. ASSUME NEW e \in S
      PROVE  e.from \in Q /\ e = edge[e.from] /\ e.attributed = share[e.from]
  <2>1. /\ e \in Pairs(tx) /\ e.to = a
    BY DEF Into
  <2>2. /\ e.from \in P
        /\ e = [txid |-> tx.txid, from |-> e.from, to |-> e.to,
                attributed |-> Share(tx, e.from, e.to)]
    BY <2>1, PairsAre
  <2>3. e.attributed = Share(tx, e.from, a)
    BY <2>1, <2>2
  <2>4. share[e.from] = Share(tx, e.from, a)
    BY <2>2
  <2>. QED
    BY <2>1, <2>2, <2>3, <2>4
<1>6. \A p, q \in Q : edge[p] = edge[q] => p = q
  <2> SUFFICES ASSUME NEW p \in Q, NEW q \in Q, edge[p] = edge[q] PROVE p = q
    OBVIOUS
  <2>1. edge[p].from = p /\ edge[q].from = q
    OBVIOUS
  <2>. QED
    BY <2>1
<1>7. S = {edge[p] : p \in Q}
  <2>1. \A e \in S : e.from \in Q /\ e = edge[e.from]
    BY <1>5
  <2>2. ASSUME NEW p \in Q PROVE edge[p] \in S
    <3>1. PICK e \in S : e.from = p
      OBVIOUS
    <3>2. e = edge[p]
      BY <2>1, <3>1
    <3>. QED
      BY <3>2
  <2> HIDE DEF edge, S, Q
  <2>. QED
    BY <2>1, <2>2
<1>8. \A p \in Q : share[p] = f[edge[p]]
  <2> SUFFICES ASSUME NEW p \in Q PROVE share[p] = f[edge[p]]
    OBVIOUS
  <2>1. PICK e \in S : e.from = p
    OBVIOUS
  <2>2. f[e] = share[p] /\ e = edge[p]
    BY <1>5, <2>1
  <2>. QED
    BY <2>2
<1>9. \A p \in P : share[p] = Share(tx, p, a)
  OBVIOUS
<1>10. Q \in SUBSET P
  OBVIOUS
<1> HIDE DEF share, edge, f, S, Q, from
<1>11. Weighs(share, P) /\ SumFunctionOnSet(share, P) <= Sum(tx.outputs, a)
  BY <1>9, SharesOfOutput
<1> HIDE DEF P
<1>12. IsFiniteSet(Q) /\ \A p \in Q : share[p] \in Nat
  BY <1>1, <1>10, <1>11, FS_Subset DEF Weighs
<1>13. SumFunctionOnSet(f, {edge[p] : p \in Q}) = SumFunctionOnSet(share, Q)
  BY <1>6, <1>8, <1>12, SumAlong
<1>14. SumFunctionOnSet(share, Q) <= SumFunctionOnSet(share, P)
  BY <1>1, <1>10, <1>11, SumOfPart
<1>15. SumFunctionOnSet(share, Q) \in Nat /\ SumFunctionOnSet(share, P) \in Nat
  BY <1>1, <1>11, <1>12, SumIsNat DEF Weighs
<1>. QED
  BY <1>1, <1>4, <1>7, <1>11, <1>13, <1>14, <1>15

\* Writing a transaction keeps the edges edges, loses no connection, and gives no
\* address more than its outputs.
LEMMA MergedIs ==
    ASSUME NEW E, IsFiniteSet(E), E \subseteq TransferSet,
           \A e \in E : e.from # e.to,
           \A e, f \in E : SameEdge(e, f) => e = f,
           NEW tx \in Transactions
    PROVE  /\ IsFiniteSet(Merged(E, tx)) /\ Merged(E, tx) \subseteq TransferSet
           /\ \A e \in Merged(E, tx) : e.from # e.to
           /\ \A e, f \in Merged(E, tx) : SameEdge(e, f) => e = f
           /\ Covers(E, Merged(E, tx))
           /\ ~MovedValue(tx) => Merged(E, tx) = E
           /\ \A a \in Addresses : Received(Merged(E, tx), a) <= Received(E, a) + Sum(tx.outputs, a)
<1> DEFINE K == {e \in E : \A f \in Pairs(tx) : ~SameEdge(e, f)}
           M == Pairs(tx)
<1>1. IsFiniteSet(M) /\ M \subseteq TransferSet /\ \A e \in M : e.from # e.to
  BY PairsAre
<1>2. Merged(E, tx) = K \cup M /\ K \in SUBSET E
  BY DEF Merged
<1>3. IsFiniteSet(K) /\ IsFiniteSet(Merged(E, tx))
  BY <1>1, <1>2, FS_Subset, FS_Union
<1>4. \A e, f \in M : SameEdge(e, f) => e = f
  <2> SUFFICES ASSUME NEW e \in M, NEW f \in M, SameEdge(e, f) PROVE e = f
    OBVIOUS
  <2>1. e = [txid |-> tx.txid, from |-> e.from, to |-> e.to,
             attributed |-> Share(tx, e.from, e.to)]
    BY PairsAre
  <2>2. f = [txid |-> tx.txid, from |-> f.from, to |-> f.to,
             attributed |-> Share(tx, f.from, f.to)]
    BY PairsAre
  <2>. QED
    BY <2>1, <2>2 DEF SameEdge
<1>5. \A e \in K : \A f \in M : ~SameEdge(e, f) /\ ~SameEdge(f, e)
  BY DEF SameEdge
<1>6. \A e, f \in Merged(E, tx) : SameEdge(e, f) => e = f
  BY <1>2, <1>4, <1>5
<1>7. Covers(E, Merged(E, tx))
  BY <1>2 DEF Covers, SameEdge
<1>8. ~MovedValue(tx) => Merged(E, tx) = E
  BY DEF Merged, Pairs
<1>9. ASSUME NEW a \in Addresses
      PROVE  Received(Merged(E, tx), a) <= Received(E, a) + Sum(tx.outputs, a)
  <2> DEFINE f == [e \in E \cup M |-> e.attributed]
             KI == Into(K, a)
             MI == Into(M, a)
             EI == Into(E, a)
  <2>1. /\ \A e \in EI : f[e] = e.attributed
        /\ \A e \in MI : f[e] = e.attributed
        /\ \A e \in Into(Merged(E, tx), a) : f[e] = e.attributed
    BY <1>2 DEF Into
  <2>2. KI \cap MI = {} /\ Into(Merged(E, tx), a) = KI \cup MI /\ KI \in SUBSET EI
    BY <1>2, <1>5 DEF Into, SameEdge
  <2>3. Merged(E, tx) \subseteq TransferSet
    BY <1>1, <1>2
  <2> HIDE DEF f, K, M
  <2>4. /\ IsFiniteSet(EI) /\ Weighs(f, EI)
        /\ Received(E, a) \in Nat /\ Received(E, a) = SumFunctionOnSet(f, EI)
    BY <2>1, ReceivedIs
  <2>5. /\ IsFiniteSet(MI) /\ Weighs(f, MI)
        /\ Received(M, a) \in Nat /\ Received(M, a) = SumFunctionOnSet(f, MI)
    BY <1>1, <2>1, ReceivedIs
  <2>6. /\ Weighs(f, KI \cup MI)
        /\ Received(Merged(E, tx), a) = SumFunctionOnSet(f, KI \cup MI)
    <3> DEFINE G == Merged(E, tx)
    <3>1. IsFiniteSet(G) /\ G \subseteq TransferSet /\ \A e \in Into(G, a) : f[e] = e.attributed
      BY <1>3, <2>1, <2>3
    <3> HIDE DEF G, KI, MI, EI
    <3>2. Weighs(f, Into(G, a)) /\ Received(G, a) = SumFunctionOnSet(f, Into(G, a))
      BY <3>1, ReceivedIs
    <3>. QED
      BY <2>2, <3>2, Zenon DEF G
  <2> HIDE DEF KI, MI, EI
  <2>7. IsFiniteSet(KI)
    BY <2>2, <2>4, FS_Subset
  <2>8. SumFunctionOnSet(f, KI \cup MI) = SumFunctionOnSet(f, KI) + SumFunctionOnSet(f, MI)
    BY <2>2, <2>5, <2>6, <2>7, SumOfTwo
  <2>9. SumFunctionOnSet(f, KI) <= SumFunctionOnSet(f, EI)
    BY <2>2, <2>4, SumOfPart
  <2>10. SumFunctionOnSet(f, KI) \in Nat
    BY <2>6, <2>7, SumIsNat DEF Weighs
  <2>11. Received(M, a) <= Sum(tx.outputs, a)
    BY PairsGive DEF M
  <2>12. Sum(tx.outputs, a) \in Nat
    BY EntriesSum DEF Transactions
  <2>13. Received(Merged(E, tx), a) = SumFunctionOnSet(f, KI) + Received(M, a)
    BY <2>5, <2>6, <2>8
  <2>14. SumFunctionOnSet(f, KI) <= Received(E, a)
    BY <2>4, <2>9
  <2>. QED
    BY <2>4, <2>5, <2>10, <2>11, <2>12, <2>13, <2>14
<1>10. \A e \in Merged(E, tx) : e \in TransferSet /\ e.from # e.to
  BY <1>1, <1>2
<1>. QED
  BY <1>3, <1>6, <1>7, <1>8, <1>9, <1>10

-----------------------------------------------------------------------------
(* The graph *)

LEMMA MemberType ==
    ASSUME NEW m \in Clusterings \cup {Alone}
    PROVE  m \in [Addresses -> Addresses \cup {NULL}]
  BY ClusteringsAssumption DEF Alone

\* Two clusterings of which each keeps the other's clusters together are one.
LEMMA MergesBothWays ==
    ASSUME NEW m \in Clusterings \cup {Alone}, NEW n \in Clusterings \cup {Alone},
           Merges(m, n), Merges(n, m)
    PROVE  m = n
<1>1. \A a \in Addresses : Together(m, a) = Together(n, a)
  BY DEF Merges
<1>2. CASE m \in Clusterings /\ n \in Clusterings
  BY <1>1, <1>2, ClusteringsAssumption
<1>3. ASSUME NEW c \in [Addresses -> Addresses \cup {NULL}],
             \A a \in Addresses : Together(c, a) = {}
      PROVE  c = Alone
  <2>1. \A a \in Addresses : c[a] = NULL
    BY <1>3 DEF Together
  <2>. QED
    BY <2>1 DEF Alone
<1>4. \A a \in Addresses : Together(Alone, a) = {}
  BY DEF Together, Alone
<1>5. CASE m = Alone
  <2>1. \A a \in Addresses : Together(n, a) = {}
    BY <1>1, <1>4, <1>5
  <2>. QED
    BY <1>3, <1>5, <2>1, MemberType
<1>6. CASE n = Alone
  <2>1. \A a \in Addresses : Together(m, a) = {}
    BY <1>1, <1>4, <1>6
  <2>. QED
    BY <1>3, <1>6, <2>1, MemberType
<1>. QED
  BY <1>2, <1>5, <1>6

LEMMA MergesOn ==
    ASSUME NEW l, NEW m, NEW n, Merges(l, m), Merges(m, n) PROVE Merges(l, n)
  BY DEF Merges

LEMMA CoversOn ==
    ASSUME NEW E, NEW F, NEW G, Covers(E, F), Covers(F, G) PROVE Covers(E, G)
<1> SUFFICES ASSUME NEW e \in E PROVE \E g \in G : g.from = e.from /\ g.to = e.to
  BY DEF Covers
<1>1. PICK f \in F : f.from = e.from /\ f.to = e.to
  BY DEF Covers
<1>2. PICK g \in G : g.from = f.from /\ g.to = f.to
  BY DEF Covers
<1>. QED
  BY <1>1, <1>2

\* A node stays, with its number, and what was committed or lost stays so.
CasesKeep ==
    \A k \in Cases :
        /\ case[k].node => case'[k].node
        /\ case[k].phase \in {"committed", "lost"} => case'[k].phase = case[k].phase
        /\ case[k].phase # "none" => case'[k].number = case[k].number

\* What an intake, or nothing, may do under a running request.
Grows ==
    /\ request' = request /\ saved' = saved /\ tags' = tags
    /\ Covers(edges, edges')
    /\ \A a \in Addresses : paid[a] <= paid'[a]
    /\ CasesKeep
    /\ Merges(member, member')

LEMMA GraphBegins == Init => GraphInv
<1> SUFFICES ASSUME Init PROVE GraphInv
  OBVIOUS
<1>1. ledger \in Seq(Transactions) /\ tags \in TagSets /\ member = Alone /\ edges = {}
  BY LedgersAssumption DEF Init, Transactions, Alone
<1>2. paid \in [Addresses -> Nat] /\ \A a \in Addresses : paid[a] = 0
  BY DEF Init
<1>3. ASSUME NEW a \in Addresses PROVE Received(edges, a) <= paid[a]
  <2> DEFINE f == [e \in {} |-> 0]
  <2>1. IsFiniteSet({}) /\ Into({}, a) = {}
    BY FS_EmptySet DEF Into
  <2>2. Received({}, a) = SumFunctionOnSet(f, Into({}, a))
    <3>1. \A e \in Into({}, a) : f[e] = e.attributed
      BY <2>1
    <3> HIDE DEF f
    <3>. QED
      BY <2>1, <3>1, ReceivedIs
  <2> HIDE DEF f
  <2>3. Received({}, a) = 0
    BY <2>1, <2>2, SumEmpty
  <2>. QED
    BY <1>1, <1>2, <2>3
<1>4. CaseInv
  <2>1. \A k \in Cases : case[k] = [phase |-> "none", number |-> 0, node |-> FALSE]
    BY DEF Init
  <2>2. Committed = {}
    BY <2>1 DEF Committed
  <2>. QED
    BY <2>1, <2>2 DEF CaseInv, Init, Case
<1>. QED
  BY <1>1, <1>2, <1>3, <1>4, FS_EmptySet DEF Init, GraphInv

LEMMA Stutters ==
    ASSUME GraphInv, UNCHANGED <<edges, paid, tags, member, case, request, saved>>
    PROVE  Grows
<1>1. Covers(edges, edges') /\ Merges(member, member')
  BY DEF Covers, Merges, Together
<1>2. \A a \in Addresses : paid[a] <= paid'[a]
  BY DEF GraphInv
<1>3. CasesKeep
  BY DEF CasesKeep
<1>. QED
  BY <1>1, <1>2, <1>3 DEF Grows

LEMMA CasesUnchanged == ASSUME CaseInv, UNCHANGED case PROVE CaseInv' /\ CasesKeep
<1>1. Committed' = Committed
  BY DEF Committed
<1>. QED
  BY <1>1 DEF CaseInv, CasesKeep

\* A case takes the next number, and it counts once it is committed.
LEMMA CasesOn ==
    ASSUME CaseInv, NEW k \in Cases,
           OpenCase(k) \/ LinkCase(k) \/ CommitCase(k) \/ AbandonCase(k)
    PROVE  CaseInv' /\ CasesKeep
<1> USE DEF CaseInv, Case
<1>0. /\ IsFiniteSet(Committed) /\ Cardinality(Committed) \in Nat
  BY CasesAssumption, FS_Subset, FS_CardinalityType DEF Committed
<1>1. PICK c : case' = [case EXCEPT ![k] = c]
  BY DEF OpenCase, LinkCase, CommitCase, AbandonCase, CaseStep
<1>2. case'[k] = c /\ \A j \in Cases \ {k} : case'[j] = case[j]
  BY <1>1
<1>3. ASSUME c \in Case, c.phase # "committed", case[k].phase # "committed",
             c.phase = "none" => ~c.node,
             c.phase = "open" => /\ c.number = Cardinality(Committed) + 1
                                 /\ \A j \in Cases \ {k} : case[j].phase # "open"
      PROVE  CaseInv'
  <2>1. Committed' = Committed
    BY <1>2, <1>3 DEF Committed
  <2>2. case' \in [Cases -> Case]
    BY <1>1, <1>3
  <2>3. \A j \in Committed : j \in Cases \ {k}
    BY <1>3 DEF Committed
  <2>4. \A j \in Cases : case'[j].phase = "none" => ~case'[j].node
    BY <1>2, <1>3
  <2>5. /\ \A j \in Committed' : case'[j].number <= Cardinality(Committed')
        /\ \A i, j \in Committed' : case'[i].number = case'[j].number => i = j
    BY <1>2, <2>1, <2>3
  <2>6. \A j \in Cases : case'[j].phase = "open" => case'[j].number = Cardinality(Committed') + 1
    BY <1>2, <1>3, <2>1
  <2>7. \A i, j \in Cases : case'[i].phase = "open" /\ case'[j].phase = "open" => i = j
    <3> SUFFICES ASSUME NEW i \in Cases, NEW j \in Cases, i # j,
                        case'[i].phase = "open", case'[j].phase = "open"
                 PROVE  FALSE
      OBVIOUS
    <3>1. CASE i = k \/ j = k
      BY <1>2, <1>3, <3>1
    <3>2. CASE i # k /\ j # k
      BY <1>2, <3>2
    <3>. QED
      BY <3>1, <3>2
  <2>. QED
    BY <2>2, <2>4, <2>5, <2>6, <2>7
<1>4. CASE OpenCase(k)
  <2>1. c = [phase |-> "open", number |-> Cardinality(Committed) + 1, node |-> FALSE]
    BY <1>2, <1>4 DEF OpenCase, CaseStep
  <2>2. CaseInv'
    BY <1>0, <1>3, <1>4, <2>1 DEF OpenCase
  <2>3. CasesKeep
    BY <1>2, <1>4, <2>1 DEF OpenCase, CasesKeep
  <2>. QED
    BY <2>2, <2>3
<1>5. CASE LinkCase(k)
  <2>1. c = [case[k] EXCEPT !.node = TRUE] /\ case[k].phase \in {"open", "lost"}
    BY <1>2, <1>5 DEF LinkCase, CaseStep
  <2>2. /\ c \in Case /\ c.phase = case[k].phase /\ c.number = case[k].number
        /\ c.node = TRUE
    BY <2>1
  <2>3. CaseInv'
    BY <1>3, <2>1, <2>2
  <2>4. CasesKeep
    BY <1>2, <2>2 DEF CasesKeep
  <2>. QED
    BY <2>3, <2>4
<1>6. CASE AbandonCase(k)
  <2>1. c = [case[k] EXCEPT !.phase = "lost"] /\ case[k].phase = "open"
    BY <1>2, <1>6 DEF AbandonCase, CaseStep
  <2>2. /\ c \in Case /\ c.phase = "lost" /\ c.number = case[k].number
        /\ c.node = case[k].node
    BY <2>1
  <2>3. CaseInv'
    BY <1>3, <2>1, <2>2
  <2>4. CasesKeep
    BY <1>2, <2>1, <2>2 DEF CasesKeep
  <2>. QED
    BY <2>3, <2>4
<1>7. CASE CommitCase(k)
  <2>1. c = [case[k] EXCEPT !.phase = "committed"] /\ case[k].phase = "open"
    BY <1>2, <1>7 DEF CommitCase, CaseStep
  <2>2. /\ c \in Case /\ c.phase = "committed" /\ c.number = case[k].number
        /\ c.node = case[k].node
    BY <2>1
  <2>3. Committed' = Committed \cup {k} /\ k \notin Committed
    BY <1>2, <2>1, <2>2 DEF Committed
  <2>4. Cardinality(Committed') = Cardinality(Committed) + 1
    BY <1>0, <2>3, FS_AddElement
  <2>5. c.number = Cardinality(Committed) + 1
    BY <2>1, <2>2
  <2>6. case' \in [Cases -> Case]
    BY <1>1, <2>2
  <2>7. \A j \in Committed' : case'[j].number <= Cardinality(Committed')
    <3> SUFFICES ASSUME NEW j \in Committed' PROVE case'[j].number <= Cardinality(Committed')
      OBVIOUS
    <3>1. CASE j = k
      BY <1>0, <1>2, <2>4, <2>5, <3>1
    <3>2. CASE j # k
      <4>1. j \in Committed /\ j \in Cases /\ case'[j] = case[j]
        BY <1>2, <2>3, <3>2 DEF Committed
      <4>2. case[j].number <= Cardinality(Committed) /\ case[j].number \in Nat
        BY <4>1
      <4>. QED
        BY <1>0, <2>4, <4>1, <4>2
    <3>. QED
      BY <3>1, <3>2
  <2>8. \A i, j \in Committed' : case'[i].number = case'[j].number => i = j
    <3>1. ASSUME NEW j \in Committed PROVE case'[j] = case[j] /\ case[j].number # c.number
      <4>1. j \in Cases \ {k}
        BY <2>3 DEF Committed
      <4>2. case[j].number <= Cardinality(Committed) /\ case[j].number \in Nat
        BY <4>1
      <4>. QED
        BY <1>0, <1>2, <2>5, <4>1, <4>2
    <3>. QED
      BY <1>2, <2>3, <3>1
  <2>9. \A j \in Cases : case'[j].phase # "open"
    BY <1>2, <2>1, <2>2
  <2>10. \A j \in Cases : case'[j].phase = "none" => ~case'[j].node
    BY <1>2, <2>2
  <2>11. CaseInv'
    BY <2>6, <2>7, <2>8, <2>9, <2>10
  <2>12. CasesKeep
    BY <1>2, <2>1, <2>2 DEF CasesKeep
  <2>. QED
    BY <2>11, <2>12
<1>. QED
  BY <1>4, <1>5, <1>6, <1>7

\* A committed case and the node of another with its number: that one was lost.
LEMMA OnlyLostShare ==
    ASSUME CaseInv, NEW c \in Committed, NEW n \in Cases, case[n].node,
           case[n].number = case[c].number, n # c
    PROVE  case[n].phase = "lost"
<1>1. case[n] \in Case /\ case[n].phase # "none" /\ n \notin Committed
  BY DEF CaseInv
<1>2. case[n].phase # "open"
  <2> SUFFICES ASSUME case[n].phase = "open" PROVE FALSE
    OBVIOUS
  <2>1. Cardinality(Committed) \in Nat
    BY CasesAssumption, FS_Subset, FS_CardinalityType DEF Committed
  <2>2. case[n].number = Cardinality(Committed) + 1 /\ case[c].number <= Cardinality(Committed)
    BY DEF CaseInv
  <2>. QED
    BY <2>1, <2>2
<1>. QED
  BY <1>1, <1>2 DEF Case, Committed

LEMMA IntakeGrows ==
    ASSUME GraphInv, Intakes
    PROVE  GraphInv' /\ Grows
<1> USE DEF GraphInv
<1>1. CASE WriteTransaction
  <2> DEFINE tx == Head(ledger)
  <2>1. tx \in Transactions /\ Tail(ledger) \in Seq(Transactions)
    <3>1. ledger # <<>>
      BY <1>1 DEF WriteTransaction
    <3>. QED
      BY <3>1
  <2>2. /\ edges' = Merged(edges, tx) /\ ledger' = Tail(ledger)
        /\ paid' = [a \in Addresses |->
              IF MovedValue(tx) THEN paid[a] + Sum(tx.outputs, a) ELSE paid[a]]
        /\ UNCHANGED <<tags, member, case, request, saved>>
    BY <1>1 DEF WriteTransaction
  <2> HIDE DEF tx
  <2>3. /\ IsFiniteSet(edges') /\ edges' \subseteq TransferSet
        /\ \A e \in edges' : e.from # e.to
        /\ \A e, f \in edges' : SameEdge(e, f) => e = f
        /\ Covers(edges, edges')
        /\ ~MovedValue(tx) => edges' = edges
        /\ \A a \in Addresses : Received(edges', a) <= Received(edges, a) + Sum(tx.outputs, a)
    BY <2>1, <2>2, MergedIs
  <2>4. \A a \in Addresses : Sum(tx.outputs, a) \in Nat
    BY <2>1, EntriesSum DEF Transactions
  <2>5. paid' \in [Addresses -> Nat] /\ \A a \in Addresses : paid[a] <= paid'[a]
    BY <2>2, <2>4
  <2>6. ASSUME NEW a \in Addresses PROVE Received(edges', a) <= paid'[a]
    <3> DEFINE f == [e \in edges |-> e.attributed]
               g == [e \in edges' |-> e.attributed]
    <3>1. /\ \A e \in Into(edges, a) : f[e] = e.attributed
          /\ \A e \in Into(edges', a) : g[e] = e.attributed
      BY DEF Into
    <3> HIDE DEF f, g
    <3>2. Received(edges, a) \in Nat
      BY <3>1, ReceivedIs
    <3>3. Received(edges', a) \in Nat
      BY <2>3, <3>1, ReceivedIs
    <3>4. CASE MovedValue(tx)
      <4>1. paid'[a] = paid[a] + Sum(tx.outputs, a)
        BY <2>2, <3>4
      <4>2. Received(edges, a) <= paid[a] /\ paid[a] \in Nat
        OBVIOUS
      <4>3. Received(edges', a) <= Received(edges, a) + Sum(tx.outputs, a)
        BY <2>3
      <4>. QED
        BY <2>4, <3>2, <3>3, <4>1, <4>2, <4>3
    <3>5. CASE ~MovedValue(tx)
      BY <2>2, <2>3, <3>5
    <3>. QED
      BY <3>4, <3>5
  <2>7. CaseInv' /\ CasesKeep /\ Merges(member, member')
    BY <2>2, CasesUnchanged DEF Merges
  <2>8. GraphInv'
    BY <2>1, <2>2, <2>3, <2>5, <2>6, <2>7 DEF Alone
  <2>. QED
    BY <2>2, <2>3, <2>5, <2>7, <2>8 DEF Grows
<1>2. CASE \E k \in Cases : OpenCase(k) \/ LinkCase(k) \/ CommitCase(k) \/ AbandonCase(k)
  <2>1. PICK k \in Cases : OpenCase(k) \/ LinkCase(k) \/ CommitCase(k) \/ AbandonCase(k)
    BY <1>2
  <2>2. UNCHANGED <<ledger, edges, paid, tags, member, request, saved>>
    BY <2>1 DEF OpenCase, LinkCase, CommitCase, AbandonCase, CaseStep
  <2>3. CaseInv' /\ CasesKeep
    BY <2>1, CasesOn
  <2>4. Covers(edges, edges') /\ Merges(member, member') /\ \A a \in Addresses : paid[a] <= paid'[a]
    BY <2>2 DEF Covers, Merges
  <2>5. GraphInv'
    BY <2>2, <2>3 DEF Received, Alone
  <2>. QED
    BY <2>2, <2>3, <2>4, <2>5 DEF Grows
<1>3. CASE Recluster
  <2>1. PICK m \in Clusterings :
           (\A a \in Addresses : Together(member, a) \subseteq Together(m, a)) /\ member' = m
    BY <1>3 DEF Recluster
  <2>2. UNCHANGED <<ledger, edges, paid, tags, case, request, saved>>
    BY <1>3 DEF Recluster
  <2>3. Merges(member, member')
    BY <2>1 DEF Merges
  <2>4. CaseInv' /\ CasesKeep
    BY <2>2, CasesUnchanged
  <2>5. Covers(edges, edges') /\ \A a \in Addresses : paid[a] <= paid'[a]
    BY <2>2 DEF Covers
  <2>6. GraphInv'
    BY <2>1, <2>2, <2>4 DEF Received, Alone
  <2>. QED
    BY <2>2, <2>3, <2>4, <2>5, <2>6 DEF Grows
<1>. QED
  BY <1>1, <1>2, <1>3 DEF Intakes

\* The three ways in which an analysis ends without an answer, and the other one
\* out of FindWallet.
Failure == request.phase \in {"traced", "unreached", "scored"} /\ Fails

WalletKnown ==
    /\ request.phase = "unreached"
    /\ Asks([request EXCEPT !.phase = "targeted", !.target = Root])

LEMMA Analysing ==
    AnalyseWallet =>
        \/ TracePath \/ FindTerminals \/ WalletKnown \/ LookUpTags \/ ClassifyBehaviour
        \/ FindHits \/ ReadCases \/ PersistScore \/ Failure
  BY DEF AnalyseWallet, FindTerminalsFails, FindWallet, PersistFails, Failure, WalletKnown

LEMMA FailedIs ==
    ASSUME Failure
    PROVE  /\ DOMAIN request' = Fields /\ request'.phase = "failed"
           /\ request'.began = NULL /\ request'.trace = NULL /\ request'.target = NULL
           /\ request'.attribution = NULL /\ request'.hits = {} /\ request'.kind = NULL
           /\ request'.rows = {} /\ request'.candidates = {}
           /\ UNCHANGED <<graphVars, saved>>
  BY DEF Failure, Fails, Asks, Idle, Fields

\* A step of a request leaves the graph as it is.
LEMMA HandlersOnlyAsk == AnalyseWallet \/ GetExposure => UNCHANGED graphVars
  BY Analysing, FailedIs DEF GetExposure, Asks, TracePath, FindTerminals, WalletKnown, LookUpTags,
     ClassifyBehaviour, FindHits, ReadCases, PersistScore, DetectDirect,
     FindServices, CollectArrivals, PersistExposure

LEMMA GraphStep ==
    ASSUME GraphInv, [Next]_vars
    PROVE  /\ GraphInv'
           /\ \/ Grows
              \/ AnalyseWallet /\ UNCHANGED graphVars
              \/ GetExposure /\ UNCHANGED graphVars
<1>1. ASSUME UNCHANGED graphVars PROVE GraphInv'
  BY <1>1, CasesUnchanged DEF GraphInv, graphVars, Received, Alone
<1>2. CASE Intakes
  BY <1>2, IntakeGrows
<1>3. CASE AnalyseWallet \/ GetExposure
  BY <1>1, <1>3, HandlersOnlyAsk
<1>4. CASE UNCHANGED vars
  BY <1>1, <1>4, Stutters DEF vars, graphVars
<1>. QED
  BY <1>2, <1>3, <1>4 DEF Next

\* The phases before the handler knows which address to attribute.
Unasked == {"idle", "traced", "unreached"}

\* A name comes from the tags of the target, which is known by then.
NameInv ==
    /\ DOMAIN request = Fields
    /\ request.phase \in Unasked => request.attribution = NULL
    /\ request.phase \in {"targeted", "unnamed"} => request.target \in Addresses
    /\ request.attribution # NULL => request.target \in Addresses
    /\ request.phase = "unnamed" => TagsOn(tags, request.target) = {}
    /\ NamesAreCurated

\* An address is a member of its own cluster.
LEMMA OwnMember ==
    ASSUME NEW m \in [Addresses -> Addresses \cup {NULL}], NEW a \in Addresses
    PROVE  a \in A!MembersOf(m, a)
  BY DEF A!MembersOf

\* Merging clusters takes no member away.
LEMMA MembersStay ==
    ASSUME NEW m \in [Addresses -> Addresses \cup {NULL}],
           NEW n \in [Addresses -> Addresses \cup {NULL}],
           Merges(m, n), NEW a \in Addresses
    PROVE  A!MembersOf(m, a) \subseteq A!MembersOf(n, a)
<1>1. CASE m[a] = NULL
  BY <1>1, OwnMember DEF A!MembersOf
<1>2. CASE m[a] # NULL
  <2>1. \A b \in Addresses : m[b] = m[a] => n[a] # NULL /\ n[b] = n[a]
    BY <1>2 DEF Merges, Together
  <2>. QED
    BY <1>2, <2>1 DEF A!MembersOf
<1>. QED
  BY <1>1, <1>2

\* A step that asks nothing about names, or only what comes before them.
LEMMA NamesStay ==
    ASSUME NameInv, UNCHANGED <<tags, member>>, DOMAIN request' = Fields,
           request'.attribution = request.attribution,
           \/ request' = request
           \/ request'.phase \notin {"targeted", "unnamed"} /\ request'.target = request.target
           \/ request.attribution = NULL
               /\ request'.phase = "targeted" /\ request'.target \in Addresses,
           request'.phase \in Unasked => request.phase \in Unasked
    PROVE  NameInv'
  BY DEF NameInv, NamesAreCurated, Unasked

\* What a terminal or the reported address may be.
LEMMA TargetIsAddress ==
    ASSUME GraphInv, NEW a \in Terminals(edges, tags, Root, Depth)
    PROVE  a \in Addresses
<1>1. \E t \in TagsOn(tags, a) : t.type \in TerminalTypes
  BY DEF Terminals, Nearest
<1>. QED
  BY <1>1, TagsAssumption DEF TagsOn, GraphInv

LEMMA NameStep ==
    ASSUME GraphInv, NameInv, [Next]_vars
    PROVE  NameInv'
<1> USE DEF NameInv, Asks, graphVars, Fields, Unasked
<1>1. CASE Grows
  <2>1. /\ member \in [Addresses -> Addresses \cup {NULL}]
        /\ member' \in [Addresses -> Addresses \cup {NULL}]
    BY GraphStep, MemberType DEF GraphInv, Alone
  <2>2. UNCHANGED <<tags, request>> /\ Merges(member, member')
    BY <1>1 DEF Grows
  <2>. QED
    BY <2>1, <2>2, MembersStay DEF NamesAreCurated
<1>2. /\ AnalyseWallet \/ GetExposure => UNCHANGED <<tags, member>>
      /\ tags \in TagSets /\ member \in [Addresses -> Addresses \cup {NULL}]
  BY HandlersOnlyAsk, MemberType DEF GraphInv
<1>3. CASE TracePath
  BY <1>3, NamesStay DEF TracePath
<1>4. CASE FindTerminals
  <2>1. \/ \E a \in Addresses : Asks([request EXCEPT !.phase = "targeted", !.target = a])
        \/ Asks([request EXCEPT !.phase = "unreached"])
    BY <1>4, TargetIsAddress, RootAssumption DEF FindTerminals
  <2>2. request.phase = "traced"
    BY <1>4 DEF FindTerminals
  <2>. QED
    BY <2>1, <2>2, NamesStay
<1>5. CASE WalletKnown
  BY <1>5, NamesStay, RootAssumption DEF WalletKnown
<1>6. CASE LookUpTags
  <2> DEFINE found == A!LookupTags(tags, member, request.target)
  <2>1. /\ request.phase = "targeted" /\ request.target \in Addresses
        /\ UNCHANGED <<tags, member>>
    BY <1>6 DEF LookUpTags
  <2>2. TagsOn(tags, request.target) \subseteq found
    BY <1>2, <2>1, OwnMember DEF TagsOn, A!LookupTags
  <2>3. CASE \E t \in A!BestTags(found) :
                Asks([request EXCEPT !.phase = "attributed",
                                     !.attribution = A!Tagged(t, member[request.target])])
    <3>1. PICK t \in A!BestTags(found) :
             request' = [request EXCEPT !.phase = "attributed",
                                        !.attribution = A!Tagged(t, member[request.target])]
      BY <2>3
    <3>2. /\ t \in tags /\ t.address \in A!MembersOf(member, request.target)
          /\ \A u \in TagsOn(tags, request.target) : u.confidence <= t.confidence
      BY <2>2 DEF A!BestTags, A!LookupTags
    <3>3. t.name # NULL
      BY <1>2, <3>2, TagsAssumption
    <3>4. /\ request'.attribution.name = t.name /\ request'.attribution.matched = t.address
          /\ request'.target = request.target /\ request'.phase = "attributed"
          /\ DOMAIN request' = Fields
      BY <3>1 DEF A!Tagged
    <3>. QED
      BY <2>1, <3>2, <3>3, <3>4 DEF NamesAreCurated
  <2>4. CASE found = {} /\ Asks([request EXCEPT !.phase = "unnamed"])
    <3>1. TagsOn(tags, request.target) = {}
      BY <2>2, <2>4
    <3>. QED
      BY <2>1, <2>4, <3>1 DEF NamesAreCurated
  <2>. QED
    BY <1>6, <2>3, <2>4 DEF LookUpTags
<1>7. CASE ClassifyBehaviour
  <2>1. /\ request.phase = "unnamed"
        /\ request' = [request EXCEPT !.phase = "attributed",
               !.attribution = A!Classified(edges, member, request.target)]
        /\ UNCHANGED <<tags, member>>
    BY <1>7 DEF ClassifyBehaviour
  <2>2. A!Classified(edges, member, request.target).name = NULL
    BY DEF A!Classified
  <2>3. /\ request'.attribution.name = NULL /\ request'.target = request.target
        /\ request'.phase = "attributed" /\ DOMAIN request' = Fields
    BY <2>1, <2>2
  <2>. QED
    BY <2>1, <2>3 DEF NamesAreCurated
<1>8. CASE FindHits
  BY <1>8, NamesStay DEF FindHits
<1>9. CASE ReadCases
  BY <1>9, NamesStay DEF ReadCases
<1>10. CASE PersistScore
  BY <1>10, NamesStay DEF PersistScore
<1>14. CASE Failure
  <2>1. /\ request'.phase = "failed" /\ request'.attribution = NULL
        /\ DOMAIN request' = Fields
    BY <1>14, FailedIs
  <2>. QED
    BY <2>1 DEF NamesAreCurated
<1>11. CASE DetectDirect
  <2>1. /\ request'.phase \in {"undirected", "found"} /\ request'.target = request.target
        /\ request'.attribution = request.attribution /\ DOMAIN request' = Fields
        /\ UNCHANGED <<tags, member>>
    BY <1>11 DEF DetectDirect
  <2>. QED
    BY <2>1, NamesStay
<1>12. CASE FindServices
  <2>1. /\ request'.phase \in {"found", "serviced"} /\ request'.target = request.target
        /\ request'.attribution = request.attribution /\ DOMAIN request' = Fields
        /\ UNCHANGED <<tags, member>>
    BY <1>12 DEF FindServices
  <2>. QED
    BY <2>1, NamesStay
<1>13. CASE CollectArrivals \/ PersistExposure
  BY <1>13, NamesStay DEF CollectArrivals, PersistExposure
<1>. QED
  BY <1>1, <1>3, <1>4, <1>5, <1>6, <1>7, <1>8, <1>9, <1>10, <1>11, <1>12, <1>13, <1>14,
     GraphStep, Analysing
  DEF GetExposure

-----------------------------------------------------------------------------
(* What a candidate measures *)

LEMMA DepthIs == Depth \in 1..8 /\ Depth \in Nat /\ SearchDepth(Depth) = Depth
  BY BoundsAssumption DEF SearchDepth

LEMMA MinHop ==
    ASSUME NEW H \in SUBSET Nat, H # {}
    PROVE  \E m \in H : \A n \in H : m <= n
<1> DEFINE T == {n \in Nat : \A k \in 0..n : k \notin H}
<1> SUFFICES ASSUME \A m \in H : \E n \in H : ~(m <= n) PROVE FALSE
  OBVIOUS
<1>1. 0 \in T
  <2>1. 0 \notin H
    <3> SUFFICES ASSUME 0 \in H PROVE FALSE
      OBVIOUS
    <3>1. PICK n \in H : ~(0 <= n)
      OBVIOUS
    <3>. QED
      BY <3>1
  <2>. QED
    BY <2>1
<1>2. ASSUME NEW n \in Nat, n \in T PROVE n + 1 \in T
  <2> SUFFICES ASSUME n + 1 \in H PROVE FALSE
    BY <1>2
  <2>1. PICK k \in H : ~(n + 1 <= k)
    OBVIOUS
  <2>2. k \in 0..n
    BY <2>1
  <2>. QED
    BY <1>2, <2>2
<1> HIDE DEF T
<1>3. Nat \subseteq T
  BY <1>1, <1>2, NatInduct
<1>4. PICK m \in H : TRUE
  OBVIOUS
<1>5. m \in T /\ m \in 0..m
  BY <1>3
<1>. QED
  BY <1>4, <1>5 DEF T

LEMMA ServiceRowsAre ==
    ASSUME GraphInv,
           NEW listed \in Limited(Reached(edges, Root, SearchDepth(Depth)), MaxNodes),
           NEW rows, rows = ServiceRows(edges, tags, Root, SearchDepth(Depth), listed)
    PROVE  /\ IsFiniteSet(rows)
           /\ \A row \in rows :
                 row.address \in Addresses /\ row.service \in Names /\ row.hop \in 1..8
<1> DEFINE D == {u \in tags : u.address \in listed /\ u.type \in ServiceTypes}
           h == [t \in D |-> [address |-> t.address, service |-> t.name, source |-> t.source,
                              hop |-> Hop(edges, Root, SearchDepth(Depth), t.address)]]
<1>1. IsFiniteSet(D) /\ \A t \in tags : t.address \in Addresses
  <2>1. IsFiniteSet(tags) /\ \A t \in tags : t.address \in Addresses
    BY TagsAssumption DEF GraphInv
  <2>2. D \in SUBSET tags
    OBVIOUS
  <2>. QED
    BY <2>1, <2>2, FS_Subset
<1>2. rows = {h[t] : t \in D}
  BY DEF ServiceRows
<1>3. ASSUME NEW t \in D PROVE Hop(edges, Root, SearchDepth(Depth), t.address) \in 1..8
  <2>1. t.address \in Reached(edges, Root, Depth)
    BY DepthIs DEF Limited
  <2>2. t.address \in Within(edges, Root, Depth) /\ t.address # Root
    BY <2>1 DEF Reached
  <2>3. Hop(edges, Root, Depth, t.address) \in 0..Depth /\ Hop(edges, Root, Depth, t.address) # 0
    BY <2>2, DepthIs, HopIs
  <2>. QED
    BY <2>3, DepthIs
<1>4. ASSUME NEW row \in rows
      PROVE  row.address \in Addresses /\ row.service \in Names /\ row.hop \in 1..8
  <2>1. PICK t \in D : row = h[t]
    BY <1>2
  <2>2. row.address = t.address /\ row.service = t.name
        /\ row.hop = Hop(edges, Root, SearchDepth(Depth), t.address)
    BY <2>1
  <2>. QED
    BY <1>1, <1>3, <2>2 DEF Names
<1> HIDE DEF h, D
<1>5. IsFiniteSet(rows)
  BY <1>1, <1>2, ImageFinite
<1>. QED
  BY <1>4, <1>5

\* The transfers onto a set of addresses carry no more than these were paid.
LEMMA VolumeFits ==
    ASSUME GraphInv, NEW W, IsFiniteSet(W), W \subseteq Addresses,
           NEW F \in SUBSET edges, \A e \in F : e.to \in W,
           NEW f, \A e \in F : f[e] = e.attributed
    PROVE  /\ IsFiniteSet(F) /\ Weighs(f, F)
           /\ SumFunctionOnSet(f, F) \in Nat
           /\ SumFunctionOnSet(f, F) <= SumFunctionOnSet(paid, W)
<1> DEFINE E == {e \in edges : e.to \in W}
           g == [e \in edges |-> e.attributed]
           to == [e \in edges |-> e.to]
           in == [a \in W |-> Received(edges, a)]
<1>1. IsFiniteSet(edges) /\ edges \subseteq TransferSet
  BY DEF GraphInv
<1>2. /\ F \in SUBSET E /\ E \in SUBSET edges
      /\ IsFiniteSet(E) /\ IsFiniteSet(F)
  <2>1. F \in SUBSET E /\ E \in SUBSET edges
    OBVIOUS
  <2>. QED
    BY <1>1, <2>1, FS_Subset
<1>3. \A e \in edges : g[e] = e.attributed /\ g[e] \in Nat /\ to[e] = e.to
  BY <1>1 DEF TransferSet
<1>4. Weighs(f, F) /\ Weighs(g, F) /\ Weighs(g, E) /\ \A e \in F : f[e] = g[e]
  BY <1>2, <1>3 DEF Weighs
<1>5. \A e \in E : to[e] \in W
  BY <1>3
<1>6. ASSUME NEW a \in W
      PROVE  /\ in[a] = Received(edges, a) /\ in[a] \in Nat
             /\ in[a] = SumFunctionOnSet(g, Class(E, to, a))
  <2>1. Into(edges, a) = Class(E, to, a)
    BY <1>3 DEF Into, Class
  <2>2. \A e \in Into(edges, a) : g[e] = e.attributed
    BY <1>3 DEF Into
  <2> HIDE DEF g, E, to
  <2>3. Received(edges, a) \in Nat /\ Received(edges, a) = SumFunctionOnSet(g, Into(edges, a))
    BY <1>1, <2>2, ReceivedIs
  <2>. QED
    BY <2>1, <2>3
<1>7. /\ Weighs(in, W) /\ Weighs(paid, W)
      /\ \A a \in W : in[a] <= paid[a]
  BY <1>6 DEF Weighs, GraphInv
<1> HIDE DEF E, g, to, in
<1>8. SumFunctionOnSet(f, F) = SumFunctionOnSet(g, F)
  BY <1>2, <1>4, SumSame
<1>9. SumFunctionOnSet(g, F) <= SumFunctionOnSet(g, E)
  BY <1>2, <1>4, SumOfPart
<1>10. SumFunctionOnSet(g, E) = SumFunctionOnSet(in, W)
  BY <1>2, <1>4, <1>5, <1>6, SumByClass
<1>11. SumFunctionOnSet(in, W) <= SumFunctionOnSet(paid, W)
  BY <1>7, SumAtMost
<1>12. /\ SumFunctionOnSet(g, F) \in Nat /\ SumFunctionOnSet(g, E) \in Nat
       /\ SumFunctionOnSet(paid, W) \in Nat
  BY <1>2, <1>4, <1>7, SumIsNat
<1>. QED
  BY <1>2, <1>4, <1>8, <1>9, <1>10, <1>11, <1>12

\* The arrivals that CollectArrivals asks for.
ArrivalsOf(rows) == UNION {Arrivals(edges, Root, SearchDepth(Depth), r.address) : r \in rows}

\* A candidate is a candidate of what the rows say, and conserves volume.
LEMMA CandidatesAre ==
    ASSUME GraphInv, NEW rows, IsFiniteSet(rows),
           \A row \in rows : row.address \in Addresses /\ row.service \in Names /\ row.hop \in 1..8,
           NEW c \in Candidates(edges, Root, SearchDepth(Depth), rows)
    PROVE  /\ c \in Features /\ IsFiniteSet(c.addresses)
           /\ c.volume <= SumFunctionOnSet(paid, c.addresses)
           /\ \A e \in edges : e.to \in c.addresses /\ e.from \in Within(edges, Root, Depth)
                                   => e.from \in c.counterparties
<1> DEFINE arrivals == ArrivalsOf(rows)
<1>1. PICK s \in {r.service : r \in rows} :
         c = Candidate(s, {r \in rows : r.service = s}, arrivals)
  BY DEF Candidates, ArrivalsOf
<1> DEFINE some == {r \in rows : r.service = s}
           W == {r.address : r \in some}
           F == {f \in arrivals : \E r \in some : f.to = r.address}
           H == {r.hop : r \in some}
           g == [e \in F |-> e.attributed]
<1>2. /\ c = [service |-> s, addresses |-> W,
              hop |-> CHOOSE n \in H : \A r \in some : n <= r.hop,
              volume |-> Volume(some, arrivals), counterparties |-> {e.from : e \in F}]
  BY <1>1 DEF Candidate
<1>3. some # {} /\ some \in SUBSET rows /\ s \in Names
  BY <1>1
<1>4. Volume(some, arrivals) = SumFunctionOnSet(g, F)
  BY DEF Volume, SumFunction
<1>5. IsFiniteSet(W) /\ W \subseteq Addresses
  <2> DEFINE h == [r \in some |-> r.address]
  <2>1. W = {h[r] : r \in some} /\ W \subseteq Addresses
    OBVIOUS
  <2>2. IsFiniteSet(some)
    BY <1>3, FS_Subset
  <2> HIDE DEF h, some, W
  <2>. QED
    BY <2>1, <2>2, ImageFinite
<1>6. F \in SUBSET edges /\ \A e \in F : e.to \in W
  BY DEF ArrivalsOf, Arrivals
<1>7. \A e \in F : g[e] = e.attributed
  OBVIOUS
<1>8. H \subseteq 1..8 /\ H # {} /\ H \in SUBSET Nat
  BY <1>3
<1>9. (CHOOSE n \in H : \A r \in some : n <= r.hop) \in 1..8
  <2>1. PICK m \in H : \A n \in H : m <= n
    <3> HIDE DEF H
    <3>. QED
      BY <1>8, MinHop
  <2>2. \E n \in H : \A r \in some : n <= r.hop
    BY <2>1
  <2>. QED
    BY <1>8, <2>2
<1>10. \A e \in edges : e.to \in W /\ e.from \in Within(edges, Root, Depth) => e \in F
  <2> SUFFICES ASSUME NEW e \in edges, e.to \in W, e.from \in Within(edges, Root, Depth)
               PROVE  e \in F
    OBVIOUS
  <2>1. PICK r \in some : e.to = r.address
    OBVIOUS
  <2>2. e \in Arrivals(edges, Root, SearchDepth(Depth), r.address)
    BY <2>1, DepthIs DEF Arrivals
  <2>3. e \in arrivals
    BY <1>3, <2>2 DEF ArrivalsOf
  <2>. QED
    BY <2>1, <2>3
<1>11. \A e \in F : e.from \in Addresses
  BY <1>6 DEF GraphInv, TransferSet
<1> HIDE DEF F, W, g
<1>12. /\ SumFunctionOnSet(g, F) \in Nat
       /\ SumFunctionOnSet(g, F) <= SumFunctionOnSet(paid, W)
  BY <1>5, <1>6, <1>7, VolumeFits
<1> DEFINE hop == CHOOSE n \in H : \A r \in some : n <= r.hop
           volume == Volume(some, arrivals)
<1>13. hop \in 1..8 /\ volume \in Nat /\ volume <= SumFunctionOnSet(paid, W)
  BY <1>4, <1>9, <1>12
<1> HIDE DEF hop, volume, some, arrivals, H
<1>14. c = [service |-> s, addresses |-> W, hop |-> hop, volume |-> volume,
            counterparties |-> {e.from : e \in F}]
  BY <1>2 DEF hop, volume
<1>15. {e.from : e \in F} \subseteq Addresses
  BY <1>11
<1>16. c \in Features
  BY <1>3, <1>5, <1>13, <1>14, <1>15 DEF Features, PathFeatures
<1>. QED
  BY <1>5, <1>10, <1>13, <1>14, <1>16

LEMMA DirectIs ==
    ASSUME GraphInv, NEW row \in DirectRows(edges, tags, Root), NEW c,
           c = [service |-> row.tag.name, addresses |-> {row.edge.to}, hop |-> 1,
                volume |-> row.edge.attributed, counterparties |-> {Root}]
    PROVE  /\ c \in Features /\ IsFiniteSet(c.addresses)
           /\ c.volume <= SumFunctionOnSet(paid, c.addresses)
<1>1. PICK e \in edges, t \in tags : row = [edge |-> e, tag |-> t] /\ t.address = e.to
  BY DEF DirectRows, ServiceTags
<1>2. row.edge = e /\ row.tag = t
  BY <1>1
<1>3. e.to \in Addresses /\ e.attributed \in Nat /\ t.name \in Names
  BY DEF GraphInv, TransferSet, Names
<1>4. c \in Features
  BY <1>2, <1>3, RootAssumption DEF Features, PathFeatures
<1>5. IsFiniteSet({e.to}) /\ IsFiniteSet({e}) /\ IsFiniteSet({})
  BY FS_Singleton, FS_EmptySet
<1> DEFINE f == [d \in {e} |-> d.attributed]
<1>6. f[e] = e.attributed /\ \A d \in {e} : f[d] = d.attributed
  OBVIOUS
<1> HIDE DEF f
<1>7. /\ Weighs(f, {e}) /\ SumFunctionOnSet(f, {e}) <= SumFunctionOnSet(paid, {e.to})
  BY <1>3, <1>5, <1>6, VolumeFits
<1>8. SumFunctionOnSet(f, {e}) = e.attributed
  <2>1. Weighs(f, {} \cup {e}) /\ {} \cup {e} = {e} /\ e \notin {}
    BY <1>7
  <2>2. SumFunctionOnSet(f, {} \cup {e}) = f[e] + SumFunctionOnSet(f, {})
    BY <1>5, <2>1, SumAdds
  <2>3. SumFunctionOnSet(f, {e}) = f[e] + SumFunctionOnSet(f, {})
    BY <2>1, <2>2, Zenon
  <2>. QED
    BY <1>3, <1>6, <2>3, SumEmpty
<1>9. c.volume = e.attributed /\ c.addresses = {e.to}
  BY <1>2
<1>. QED
  BY <1>4, <1>5, <1>7, <1>8, <1>9

-----------------------------------------------------------------------------
(* The request and what it stores *)

\* The request and its row.
RequestInv == FieldsInv /\ PhaseInv /\ SavedInv

LEMMA SameNames ==
    ASSUME UNCHANGED tags
    PROVE  UNCHANGED <<Names, Features, Attributions, RiskScore, ServiceExposureRecord>>
  BY DEF Names, Features, Attributions, RiskScore, ServiceExposureRecord

\* A step that does not touch these fields leaves them as they are.
LEMMA FieldsStay ==
    ASSUME FieldsInv, UNCHANGED tags,
           request'.rows = request.rows, request'.candidates = request.candidates,
           request'.attribution = request.attribution
    PROVE  FieldsInv'
  BY SameNames DEF FieldsInv

LEMMA SavedStays ==
    ASSUME SavedInv, UNCHANGED <<tags, saved>>,
           request'.phase \in {"stored", "filed"} => request.phase \in {"stored", "filed"},
           request.phase \in {"stored", "filed"} => request'.phase \in {"stored", "filed"}
    PROVE  SavedInv'
<1>1. \A row : StoredRow(row)' <=> StoredRow(row)
  BY SameNames DEF StoredRow
<1>. QED
  BY <1>1 DEF SavedInv

\* What attribute answers.
LEMMA TaggedIs ==
    ASSUME GraphInv, NEW t \in tags, NEW a \in Addresses
    PROVE  A!Tagged(t, member[a]) \in Attributions
<1>1. member[a] \in Addresses \cup {NULL}
  BY MemberType DEF GraphInv
<1>2. /\ t.name \in Names /\ t.address \in Addresses
      /\ t.type \in ServiceTypes \cup {"unknown"}
  BY TagsAssumption DEF GraphInv, Names
<1>. QED
  BY <1>1, <1>2 DEF A!Tagged, Attributions, A!AttributionResult

LEMMA ClassifiedIs ==
    ASSUME GraphInv, NEW a \in Addresses
    PROVE  A!Classified(edges, member, a) \in Attributions
<1>1. member[a] \in Addresses \cup {NULL}
  BY MemberType DEF GraphInv
<1>2. \A l, m, n : A!Category(l, m, n) \in ServiceTypes \cup {"unknown"}
  BY DEF A!Category, ServiceTypes
<1>3. \E l, m, n : A!Classified(edges, member, a) =
         [name |-> NULL, type |-> A!Category(l, m, n), matched |-> NULL, key |-> member[a]]
  BY DEF A!Classified
<1>. QED
  BY <1>1, <1>2, <1>3 DEF Attributions, A!AttributionResult

\* What cases_terminating_at answers: each hit is of a node, at an address of the target.
LEMMA HitsAre ==
    ASSUME GraphInv, NEW key, NEW name,
           NEW target, target = R!Target(tags, member, key, name),
           NEW hits \in R!Hits(edges, target, Nodes)
    PROVE  /\ \A h \in hits :
                 /\ h \in [node : Cases, number : Nat, terminal : Addresses]
                 /\ case[h.node].node /\ h.number = case[h.node].number
                 /\ h.terminal \in R!Within(edges, CaseRoot[h.node], R!ReachDepth)
           /\ \A k \in Cases : case[k].node /\ R!Ends(edges, target, CaseRoot[k]) # {}
                 => \E h \in hits : h.node = k
<1> DEFINE found == {k \in Nodes : R!Ends(edges, target, k.root) # {}}
<1>1. PICK pick \in [found -> target] :
         /\ \A k \in found : pick[k] \in R!Ends(edges, target, k.root)
         /\ hits = {[node |-> k.case, number |-> k.number, terminal |-> pick[k]] : k \in found}
  BY DEF R!Hits
<1>2. target \subseteq Addresses
  BY MemberType DEF R!Target, GraphInv
<1>3. \A k \in found : /\ k.case \in Cases /\ k.root = CaseRoot[k.case]
                       /\ case[k.case].node /\ k.number = case[k.case].number
                       /\ k.number \in Nat
  BY DEF Nodes, GraphInv, CaseInv, Case
<1>4. ASSUME NEW h \in hits
      PROVE  /\ h \in [node : Cases, number : Nat, terminal : Addresses]
             /\ case[h.node].node /\ h.number = case[h.node].number
             /\ h.terminal \in R!Within(edges, CaseRoot[h.node], R!ReachDepth)
  <2>1. PICK k \in found : h = [node |-> k.case, number |-> k.number, terminal |-> pick[k]]
    BY <1>1
  <2>2. h.node = k.case /\ h.number = k.number /\ h.terminal = pick[k] /\ pick[k] \in target
    BY <2>1
  <2>3. pick[k] \in R!Within(edges, k.root, R!ReachDepth)
    BY <1>1 DEF R!Ends
  <2>. QED
    BY <1>2, <1>3, <2>1, <2>2, <2>3
<1>5. ASSUME NEW k \in Cases, case[k].node, R!Ends(edges, target, CaseRoot[k]) # {}
      PROVE  \E h \in hits : h.node = k
  <2> DEFINE m == [case |-> k, number |-> case[k].number, root |-> CaseRoot[k]]
  <2>1. m \in Nodes
    BY <1>5 DEF Nodes
  <2>2. m \in found /\ m.case = k
    BY <1>5, <2>1
  <2>3. [node |-> m.case, number |-> m.number, terminal |-> pick[m]] \in hits
    BY <1>1, <2>2
  <2>. QED
    BY <2>2, <2>3
<1>. QED
  BY <1>4, <1>5

\* What the join on case_number makes of hits.
LEMMA ContributionsAre ==
    ASSUME NEW hits
    PROVE  /\ \A h \in R!Contributions(hits, Rows) :
                 \E g \in hits : \E c \in Committed :
                    /\ h = [case |-> c, node |-> g.node, terminal |-> g.terminal]
                    /\ g.number = case[c].number
           /\ \A g \in hits : \A c \in Committed : g.number = case[c].number
                 => [case |-> c, node |-> g.node, terminal |-> g.terminal]
                       \in R!Contributions(hits, Rows)
<1> DEFINE pairs == {q \in hits \X Rows : q[1].number = q[2].number}
<1>1. R!Contributions(hits, Rows) =
         {[case |-> p[2].case, node |-> p[1].node, terminal |-> p[1].terminal] : p \in pairs}
  BY DEF R!Contributions
<1>2. ASSUME NEW h \in R!Contributions(hits, Rows)
      PROVE  \E g \in hits : \E c \in Committed :
                /\ h = [case |-> c, node |-> g.node, terminal |-> g.terminal]
                /\ g.number = case[c].number
  <2>1. PICK p \in pairs : h = [case |-> p[2].case, node |-> p[1].node, terminal |-> p[1].terminal]
    BY <1>1
  <2>2. p[1] \in hits /\ p[2] \in Rows /\ p[1].number = p[2].number
    OBVIOUS
  <2>3. PICK c \in Committed : p[2] = [case |-> c, number |-> case[c].number]
    BY <2>2 DEF Rows
  <2>4. p[2].case = c /\ p[2].number = case[c].number
    BY <2>3
  <2>. QED
    BY <2>1, <2>2, <2>4
<1>3. ASSUME NEW g \in hits, NEW c \in Committed, g.number = case[c].number
      PROVE  [case |-> c, node |-> g.node, terminal |-> g.terminal] \in R!Contributions(hits, Rows)
  <2> DEFINE r == [case |-> c, number |-> case[c].number]
  <2>1. r \in Rows /\ r.case = c /\ r.number = case[c].number
    BY DEF Rows
  <2> HIDE DEF r
  <2>2. PICK p : p = <<g, r>>
    OBVIOUS
  <2>3. p \in pairs /\ p[1] = g /\ p[2] = r
    BY <1>3, <2>1, <2>2
  <2>. QED
    BY <1>1, <2>1, <2>3
<1>. QED
  BY <1>2, <1>3

LEMMA RequestBegins == Init => RequestInv
<1> SUFFICES ASSUME Init PROVE RequestInv
  OBVIOUS
<1>1. request = Idle /\ saved = {}
  BY DEF Init
<1>2. FieldsInv
  BY <1>1, FS_EmptySet DEF Idle, FieldsInv
<1>3. PhaseInv
  BY <1>1 DEF Idle, PhaseInv, WalletPhases, ExposurePhases
<1>4. SavedInv
  BY <1>1 DEF Idle, SavedInv
<1>. QED
  BY <1>2, <1>3, <1>4 DEF RequestInv

LEMMA RequestStep ==
    ASSUME GraphInv, NameInv, RequestInv, [Next]_vars
    PROVE  RequestInv'
<1> USE DEF Asks
<1>0. /\ DOMAIN request = Fields /\ FieldsInv /\ PhaseInv /\ SavedInv
      /\ AnalyseWallet \/ GetExposure => UNCHANGED tags
  BY HandlersOnlyAsk DEF NameInv, RequestInv, graphVars
<1>1. CASE Grows
  <2>1. request' = request /\ saved' = saved /\ tags' = tags
    BY <1>1 DEF Grows
  <2>2. FieldsInv'
    BY <1>0, <2>1, FieldsStay
  <2>3. SavedInv'
    BY <1>0, <2>1, SavedStays
  <2>4. PhaseInv'
    BY <1>0, <2>1, SameNames DEF PhaseInv
  <2>. QED
    BY <2>2, <2>3, <2>4 DEF RequestInv
<1> USE DEF Fields, WalletPhases, ExposurePhases
<1>2. CASE TracePath \/ FindTerminals \/ WalletKnown
  <2>1. /\ request.phase \in {"idle", "traced", "unreached"}
        /\ request'.phase \in {"traced", "targeted", "unreached"}
        /\ request'.rows = request.rows /\ request'.candidates = request.candidates
        /\ request'.hits = request.hits /\ request'.attribution = request.attribution
        /\ request'.kind = request.kind
        /\ UNCHANGED <<tags, saved>>
    BY <1>0, <1>2 DEF TracePath, FindTerminals, WalletKnown, graphVars
  <2>2. FieldsInv'
    BY <1>0, <2>1, FieldsStay
  <2>3. SavedInv'
    BY <1>0, <2>1, SavedStays
  <2>4. PhaseInv'
    BY <1>0, <2>1, SameNames DEF PhaseInv
  <2>. QED
    BY <2>2, <2>3, <2>4 DEF RequestInv
<1>3. CASE LookUpTags \/ ClassifyBehaviour
  <2>1. request.phase \in {"targeted", "unnamed"} /\ request.target \in Addresses
    BY <1>3 DEF LookUpTags, ClassifyBehaviour, NameInv
  <2>2. /\ request'.rows = request.rows /\ request'.candidates = request.candidates
        /\ request'.hits = request.hits /\ request'.kind = request.kind
        /\ UNCHANGED <<tags, saved>>
    BY <1>0, <1>3 DEF LookUpTags, ClassifyBehaviour, graphVars
  <2>3. \/ request'.phase = "attributed" /\ request'.attribution \in Attributions
        \/ request'.phase = "unnamed" /\ request'.attribution = request.attribution
    <3>1. CASE LookUpTags
      <4> DEFINE found == A!LookupTags(tags, member, request.target)
      <4>1. \/ \E t \in A!BestTags(found) :
                  request' = [request EXCEPT !.phase = "attributed",
                                  !.attribution = A!Tagged(t, member[request.target])]
            \/ request' = [request EXCEPT !.phase = "unnamed"]
        BY <3>1 DEF LookUpTags
      <4>2. A!BestTags(found) \subseteq tags
        BY DEF A!BestTags, A!LookupTags
      <4> HIDE DEF found
      <4>3. ASSUME NEW t \in A!BestTags(found),
                   request' = [request EXCEPT !.phase = "attributed",
                                  !.attribution = A!Tagged(t, member[request.target])]
            PROVE  request'.phase = "attributed" /\ request'.attribution \in Attributions
        <5>1. A!Tagged(t, member[request.target]) \in Attributions
          BY <2>1, <4>2, TaggedIs
        <5>. QED
          BY <1>0, <4>3, <5>1
      <4>4. ASSUME request' = [request EXCEPT !.phase = "unnamed"]
            PROVE  request'.phase = "unnamed" /\ request'.attribution = request.attribution
        BY <1>0, <4>4
      <4>. QED
        BY <4>1, <4>3, <4>4
    <3>2. CASE ClassifyBehaviour
      <4>1. request' = [request EXCEPT !.phase = "attributed",
                            !.attribution = A!Classified(edges, member, request.target)]
        BY <3>2 DEF ClassifyBehaviour
      <4>. QED
        BY <1>0, <2>1, <4>1, ClassifiedIs
    <3>. QED
      BY <1>3, <3>1, <3>2
  <2>4. FieldsInv'
    BY <1>0, <2>2, <2>3, SameNames DEF FieldsInv
  <2>5. SavedInv'
    BY <1>0, <2>1, <2>2, <2>3, SavedStays
  <2>6. PhaseInv'
    BY <1>0, <2>1, <2>2, <2>3, SameNames DEF PhaseInv
  <2>. QED
    BY <2>4, <2>5, <2>6 DEF RequestInv
<1>4. CASE FindHits \/ ReadCases
  <2>1. /\ \/ request.phase = "attributed" /\ request'.phase = "hit"
           \/ request.phase = "hit" /\ request'.phase = "scored"
        /\ request'.rows = request.rows /\ request'.candidates = request.candidates
        /\ request'.attribution = request.attribution /\ request'.kind = request.kind
        /\ UNCHANGED <<tags, saved>>
    BY <1>0, <1>4 DEF FindHits, ReadCases, graphVars
  <2>2. /\ request'.phase = "hit" =>
              request'.hits \subseteq [node : Cases, number : Nat, terminal : Addresses]
        /\ request'.phase = "scored" =>
              request'.hits \subseteq [case : Cases, node : Cases, terminal : Addresses]
    <3>1. CASE FindHits
      <4> DEFINE n == request.attribution
                 at == R!Target(tags, member, n.key, n.name)
      <4>1. \E h \in R!Hits(edges, at, Nodes) : request'.hits = h
        BY <1>0, <3>1 DEF FindHits
      <4>2. request'.phase = "hit"
        BY <1>0, <3>1 DEF FindHits
      <4>3. request'.hits \subseteq [node : Cases, number : Nat, terminal : Addresses]
        BY <4>1, HitsAre
      <4>. QED
        BY <4>2, <4>3
    <3>2. CASE ReadCases
      <4>1. /\ request'.hits = R!Contributions(request.hits, Rows)
            /\ request.phase = "hit" /\ request'.phase = "scored"
        BY <1>0, <3>2 DEF ReadCases
      <4>2. request.hits \subseteq [node : Cases, number : Nat, terminal : Addresses]
        BY <1>0, <4>1 DEF PhaseInv
      <4>3. ASSUME NEW h \in request'.hits
            PROVE  h \in [case : Cases, node : Cases, terminal : Addresses]
        <5>1. PICK g \in request.hits, c \in Committed :
                 h = [case |-> c, node |-> g.node, terminal |-> g.terminal]
          BY <4>1, <4>3, ContributionsAre
        <5>2. c \in Cases /\ g.node \in Cases /\ g.terminal \in Addresses
          BY <4>2 DEF Committed
        <5>. QED
          BY <5>1, <5>2
      <4>. QED
        BY <4>1, <4>3
    <3>. QED
      BY <1>4, <3>1, <3>2
  <2>3. FieldsInv'
    BY <1>0, <2>1, SameNames DEF FieldsInv
  <2>4. SavedInv'
    BY <1>0, <2>1, SavedStays
  <2>5. PhaseInv'
    BY <1>0, <2>1, <2>2, SameNames DEF PhaseInv
  <2>. QED
    BY <2>3, <2>4, <2>5 DEF RequestInv
<1>5. CASE PersistScore
  <2> DEFINE n == request.attribution
             row == [name |-> n.name, key |-> n.key, contributions |-> request.hits]
  <2>1. /\ request.phase = "scored" /\ request'.phase = "stored"
        /\ request'.rows = request.rows /\ request'.candidates = request.candidates
        /\ request'.hits = request.hits /\ request'.attribution = n
        /\ request'.kind = request.kind /\ UNCHANGED tags
        /\ \/ saved' = saved
           \/ saved' = saved \cup {row} /\ (n.name # NULL \/ n.key # NULL)
    BY <1>0, <1>5 DEF PersistScore, graphVars
  <2>2. saved = {} /\ n \in Attributions
    BY <1>0, <2>1 DEF SavedInv, PhaseInv
  <2>3. n.name \in Names \cup {NULL} /\ n.key \in Addresses \cup {NULL}
    BY <2>2 DEF Attributions, A!AttributionResult
  <2>4. row \in RiskScore
    BY <1>0, <2>1, <2>3 DEF RiskScore, PhaseInv
  <2>5. saved' = {} \/ (saved' = {row} /\ StoredRow(row))
    <3>1. n.name # NULL \/ n.key # NULL => StoredRow(row)
      BY <2>4 DEF StoredRow
    <3> HIDE DEF row
    <3>. QED
      BY <2>1, <2>2, <3>1
  <2>7. saved' = {} \/ \E r : saved' = {r} /\ StoredRow(r)'
    <3> HIDE DEF row
    <3>1. \A r : StoredRow(r)' <=> StoredRow(r)
      BY <2>1, SameNames DEF StoredRow
    <3>. QED
      BY <2>5, <3>1
  <2>8. SavedInv'
    BY <2>1, <2>7 DEF SavedInv
  <2>9. FieldsInv'
    BY <1>0, <2>1, FieldsStay
  <2>10. PhaseInv'
    BY <1>0, <2>1, SameNames DEF PhaseInv
  <2>. QED
    BY <2>8, <2>9, <2>10 DEF RequestInv
<1>6. CASE Failure
  <2>1. /\ request.phase \in {"traced", "unreached", "scored"} /\ request'.phase = "failed"
        /\ request'.rows = {} /\ request'.candidates = {} /\ request'.attribution = NULL
        /\ request'.kind = NULL /\ UNCHANGED <<tags, saved>>
    BY <1>6, FailedIs DEF Failure, graphVars
  <2>2. FieldsInv'
    BY <2>1, FS_EmptySet DEF FieldsInv
  <2>3. SavedInv'
    BY <1>0, <2>1, SavedStays
  <2>4. PhaseInv'
    BY <2>1 DEF PhaseInv
  <2>. QED
    BY <2>2, <2>3, <2>4 DEF RequestInv
<1>7. CASE DetectDirect
  <2> DEFINE found == DirectRows(edges, tags, Root)
             cands == {[service |-> r.tag.name, addresses |-> {r.edge.to}, hop |-> 1,
                        volume |-> r.edge.attributed, counterparties |-> {Root}] : r \in found}
  <2>1. /\ request.phase = "idle"
        /\ request' = [request EXCEPT !.began = Now,
              !.phase = IF found = {} THEN "undirected" ELSE "found",
              !.kind  = IF found = {} THEN NULL ELSE "direct",
              !.candidates = cands]
        /\ UNCHANGED <<tags, saved>>
    BY <1>7 DEF DetectDirect, graphVars
  <2>2. cands \subseteq Features /\ (found = {} <=> cands = {})
    BY DirectIs
  <2> HIDE DEF found, cands
  <2>3. /\ request'.rows = request.rows /\ request'.hits = request.hits
        /\ request'.attribution = request.attribution /\ request'.candidates = cands
        /\ request'.phase = IF found = {} THEN "undirected" ELSE "found"
        /\ request'.kind = IF found = {} THEN NULL ELSE "direct"
    BY <1>0, <2>1
  <2>4. FieldsInv'
    BY <1>0, <2>1, <2>2, <2>3, SameNames DEF FieldsInv
  <2>5. SavedInv'
    BY <1>0, <2>1, <2>3, SavedStays
  <2>6. PhaseInv'
    BY <1>0, <2>1, <2>2, <2>3, SameNames, NullAssumption DEF PhaseInv
  <2>. QED
    BY <2>4, <2>5, <2>6 DEF RequestInv
<1>8. CASE FindServices
  <2>1. request.phase = "undirected" /\ UNCHANGED <<tags, saved>>
    BY <1>8 DEF FindServices, graphVars
  <2>2. PICK listed \in Limited(Reached(edges, Root, SearchDepth(Depth)), MaxNodes) :
           LET rows == ServiceRows(edges, tags, Root, SearchDepth(Depth), listed)
           IN  request' = [request EXCEPT !.phase = IF rows = {} THEN "found" ELSE "serviced",
                                          !.kind  = IF rows = {} THEN "none" ELSE "indirect",
                                          !.rows  = rows]
    BY <1>8 DEF FindServices
  <2> DEFINE rows == ServiceRows(edges, tags, Root, SearchDepth(Depth), listed)
  <2>3. /\ request'.rows = rows /\ request'.hits = request.hits
        /\ request'.attribution = request.attribution
        /\ request'.candidates = request.candidates
        /\ request'.phase = IF rows = {} THEN "found" ELSE "serviced"
        /\ request'.kind = IF rows = {} THEN "none" ELSE "indirect"
    BY <1>0, <2>2
  <2>4. /\ IsFiniteSet(rows)
        /\ \A row \in rows :
              row.address \in Addresses /\ row.service \in Names /\ row.hop \in 1..8
    BY ServiceRowsAre
  <2> HIDE DEF rows
  <2>5. FieldsInv'
    BY <1>0, <2>1, <2>3, <2>4, SameNames DEF FieldsInv
  <2>6. SavedInv'
    BY <1>0, <2>1, <2>3, SavedStays
  <2>7. PhaseInv'
    BY <1>0, <2>1, <2>3, SameNames DEF PhaseInv
  <2>. QED
    BY <2>5, <2>6, <2>7 DEF RequestInv
<1>9. CASE CollectArrivals
  <2> DEFINE cands == Candidates(edges, Root, SearchDepth(Depth), request.rows)
  <2>1. /\ request.phase = "serviced"
        /\ request' = [request EXCEPT !.phase = "found", !.rows = {}, !.candidates = cands]
        /\ UNCHANGED <<tags, saved>>
    BY <1>9 DEF CollectArrivals, graphVars
  <2>2. request.rows # {} /\ request.kind = "indirect"
    BY <1>0, <2>1 DEF PhaseInv
  <2>3. cands # {}
    <3>1. PICK r \in request.rows : TRUE
      BY <2>2
    <3>2. r.service \in {q.service : q \in request.rows}
      OBVIOUS
    <3>3. \E s \in {q.service : q \in request.rows} : \E c \in cands : TRUE
      BY <3>2 DEF Candidates
    <3>. QED
      BY <3>3
  <2>4. cands \subseteq Features
    BY <1>0, CandidatesAre DEF FieldsInv
  <2> HIDE DEF cands
  <2>5. /\ request'.rows = {} /\ request'.hits = request.hits
        /\ request'.attribution = request.attribution /\ request'.candidates = cands
        /\ request'.phase = "found" /\ request'.kind = request.kind
    BY <1>0, <2>1
  <2>6. FieldsInv'
    BY <1>0, <2>1, <2>4, <2>5, SameNames, FS_EmptySet DEF FieldsInv
  <2>7. SavedInv'
    BY <1>0, <2>1, <2>5, SavedStays
  <2>8. PhaseInv'
    BY <1>0, <2>1, <2>2, <2>3, <2>5, SameNames DEF PhaseInv
  <2>. QED
    BY <2>6, <2>7, <2>8 DEF RequestInv
<1>10. CASE PersistExposure
  <2> DEFINE row == [kind |-> request.kind, candidates |-> request.candidates]
  <2>1. /\ request.phase = "found" /\ request'.phase = "filed"
        /\ request'.rows = request.rows /\ request'.candidates = request.candidates
        /\ request'.hits = request.hits /\ request'.attribution = request.attribution
        /\ request'.kind = request.kind /\ UNCHANGED tags
        /\ saved' = saved \/ saved' = saved \cup {row}
    BY <1>0, <1>10 DEF PersistExposure, graphVars
  <2>2. /\ saved = {} /\ request.kind \in {"direct", "indirect", "none"}
        /\ request.kind = "none" <=> request.candidates = {}
    BY <1>0, <2>1 DEF SavedInv, PhaseInv
  <2>3. row \in ServiceExposureRecord /\ (row.kind = "none" <=> row.candidates = {})
    BY <1>0, <2>2 DEF ServiceExposureRecord, FieldsInv
  <2>4. saved' = {} \/ (saved' = {row} /\ StoredRow(row))
    BY <2>1, <2>2, <2>3 DEF StoredRow
  <2>5. saved' = {} \/ \E r : saved' = {r} /\ StoredRow(r)'
    <3> HIDE DEF row
    <3>1. \A r : StoredRow(r)' <=> StoredRow(r)
      BY <2>1, SameNames DEF StoredRow
    <3>. QED
      BY <2>4, <3>1
  <2>6. SavedInv'
    BY <2>1, <2>5 DEF SavedInv
  <2>7. FieldsInv'
    BY <1>0, <2>1, FieldsStay
  <2>8. PhaseInv'
    BY <1>0, <2>1, SameNames DEF PhaseInv
  <2>. QED
    BY <2>6, <2>7, <2>8 DEF RequestInv
<1>. QED
  BY <1>1, <1>2, <1>3, <1>4, <1>5, <1>6, <1>7, <1>8, <1>9, <1>10, GraphStep, Analysing
  DEF GetExposure

-----------------------------------------------------------------------------
(* What has become of the graph since the handler began *)

\* A handler looks at the graph when it begins and keeps that until it fails.
LEMMA BeganOnce ==
    ASSUME DOMAIN request = Fields, AnalyseWallet \/ GetExposure
    PROVE  \/ request.phase = "idle" /\ request'.began = Now
           \/ request.phase \notin {"idle", "failed"} /\ request'.began = request.began
           \/ Failure
<1> USE DEF Asks, Fields
<1>1. CASE AnalyseWallet
  BY <1>1, Analysing DEF TracePath, FindTerminals, WalletKnown, LookUpTags,
     ClassifyBehaviour, FindHits, ReadCases, PersistScore
<1>2. CASE GetExposure
  <2>1. CASE DetectDirect
    BY <2>1 DEF DetectDirect
  <2>2. CASE FindServices
    BY <2>2 DEF FindServices
  <2>3. CASE CollectArrivals \/ PersistExposure
    BY <2>3 DEF CollectArrivals, PersistExposure
  <2>. QED
    BY <1>2, <2>1, <2>2, <2>3 DEF GetExposure
<1>. QED
  BY <1>1, <1>2

LEMMA SinceStep ==
    ASSUME GraphInv, NameInv, SinceInv, [Next]_vars
    PROVE  SinceInv'
<1>0. DOMAIN request = Fields /\ member \in Clusterings \cup {Alone}
  BY DEF NameInv, GraphInv
<1>1. CASE Grows
  <2> SUFFICES ASSUME request'.phase \notin {"idle", "failed"}
               PROVE  /\ Covers(request'.began.edges, edges')
                      /\ request'.began.cases \subseteq {k \in Committed' : case'[k].node}
                      /\ request'.began.member \in Clusterings \cup {Alone}
                      /\ Merges(request'.began.member, member')
    BY DEF SinceInv, Alone
  <2>1. /\ request' = request /\ request.phase \notin {"idle", "failed"}
        /\ Covers(edges, edges') /\ Merges(member, member') /\ CasesKeep
    BY <1>1 DEF Grows
  <2>2. /\ Covers(request.began.edges, edges)
        /\ request.began.cases \subseteq {k \in Committed : case[k].node}
        /\ request.began.member \in Clusterings \cup {Alone}
        /\ Merges(request.began.member, member)
    BY <2>1 DEF SinceInv
  <2>3. Covers(request.began.edges, edges') /\ Merges(request.began.member, member')
    BY <2>1, <2>2, CoversOn, MergesOn
  <2>4. {k \in Committed : case[k].node} \subseteq {k \in Committed' : case'[k].node}
    BY <2>1 DEF CasesKeep, Committed
  <2>. QED
    BY <2>1, <2>2, <2>3, <2>4
<1>2. CASE (AnalyseWallet \/ GetExposure) /\ UNCHANGED graphVars
  <2>1. UNCHANGED <<edges, case, Committed, member>>
    BY <1>2 DEF graphVars, Committed
  <2>2. CASE request.phase = "idle" /\ request'.began = Now
    <3>1. /\ request'.began.edges = edges /\ request'.began.member = member
          /\ request'.began.cases = {k \in Committed : case[k].node}
      BY <2>2 DEF Now
    <3>2. Covers(edges, edges) /\ Merges(member, member)
      BY DEF Covers, Merges
    <3>. QED
      BY <1>0, <2>1, <3>1, <3>2 DEF SinceInv, Alone
  <2>3. CASE request.phase \notin {"idle", "failed"} /\ request'.began = request.began
    BY <2>1, <2>3 DEF SinceInv, Alone
  <2>4. CASE Failure
    <3>1. request'.phase = "failed"
      BY <2>4, FailedIs
    <3>. QED
      BY <3>1 DEF SinceInv
  <2>. QED
    BY <1>0, <1>2, <2>2, <2>3, <2>4, BeganOnce
<1>. QED
  BY <1>1, <1>2, GraphStep

-----------------------------------------------------------------------------
(* The trace *)

\* A limited list that is shorter than the limit is the whole list.
LEMMA ShortIsAll ==
    ASSUME NEW F, IsFiniteSet(F), NEW listed \in Limited(F, MaxNodes),
           Cardinality(listed) < MaxNodes
    PROVE  listed = F
<1>1. listed \in SUBSET F /\ Cardinality(F) \in Nat /\ MaxNodes \in Nat
  BY FS_CardinalityType, BoundsAssumption DEF Limited
<1>2. Cardinality(listed) = Cardinality(F)
  BY <1>1 DEF Limited
<1>. QED
  BY <1>1, <1>2, FS_Subset

\* What trace_path answers.
LEMMA TracesAre ==
    ASSUME GraphInv, NEW t \in Traces(edges, tags, Root, Depth, MaxNodes)
    PROVE  Traced(t, edges)
<1>1. \E listed \in Limited(Reached(edges, Root, Depth), MaxNodes) :
         \E hit \in MixerHits(tags, listed) :
            t = [hops      |-> {[address |-> a, hop |-> Hop(edges, Root, Depth, a)] : a \in listed},
                 truncated |-> Truncated(RowCount(tags, listed), MaxNodes),
                 mixer     |-> hit]
  BY DEF Traces
<1>0. PICK listed \in Limited(Reached(edges, Root, Depth), MaxNodes) :
         \E hit \in MixerHits(tags, listed) :
            t = [hops      |-> {[address |-> a, hop |-> Hop(edges, Root, Depth, a)] : a \in listed},
                 truncated |-> Truncated(RowCount(tags, listed), MaxNodes),
                 mixer     |-> hit]
  BY <1>1
<1>2. /\ t.hops = {[address |-> a, hop |-> Hop(edges, Root, Depth, a)] : a \in listed}
      /\ t.truncated = Truncated(RowCount(tags, listed), MaxNodes)
      /\ t.mixer \in MixerHits(tags, listed)
  BY <1>0
<1>3. /\ IsFiniteSet(Reached(edges, Root, Depth)) /\ listed \in SUBSET Reached(edges, Root, Depth)
      /\ MaxNodes \in Nat
  BY DepthIs, WithinFinite, BoundsAssumption DEF GraphInv, Limited
<1>4. {h.address : h \in t.hops} = listed
  <2>1. ASSUME NEW a \in listed PROVE \E h \in t.hops : h.address = a
    <3>1. [address |-> a, hop |-> Hop(edges, Root, Depth, a)] \in t.hops
      BY <1>2
    <3>. QED
      BY <3>1
  <2>2. ASSUME NEW h \in t.hops PROVE h.address \in listed
    BY <1>2
  <2>. QED
    BY <2>1, <2>2
<1>5. ASSUME NEW h \in t.hops
      PROVE  h.address \in listed /\ h.hop = Hop(edges, Root, Depth, h.address)
  BY <1>2
<1>6. ASSUME ~t.truncated PROVE listed = Reached(edges, Root, Depth)
  <2> DEFINE n == [a \in listed |-> LET c == Cardinality(TagsOn(tags, a)) IN IF c = 0 THEN 1 ELSE c]
  <2>1. \A a \in listed : n[a] \in Nat /\ n[a] >= 1
    <3> SUFFICES ASSUME NEW a \in listed PROVE n[a] \in Nat /\ n[a] >= 1
      OBVIOUS
    <3>1. TagsOn(tags, a) \in SUBSET tags /\ IsFiniteSet(tags)
      BY TagsAssumption DEF TagsOn, GraphInv
    <3>2. Cardinality(TagsOn(tags, a)) \in Nat
      BY <3>1, FS_Subset, FS_CardinalityType
    <3>. QED
      BY <3>2
  <2>2. RowCount(tags, listed) = SumFunctionOnSet(n, listed)
    BY DEF RowCount, SumFunction
  <2>3. IsFiniteSet(listed)
    BY <1>3, FS_Subset
  <2> HIDE DEF n
  <2>4. Cardinality(listed) <= SumFunctionOnSet(n, listed)
    BY <2>1, <2>3, SumAtLeastSize
  <2>5. ~(SumFunctionOnSet(n, listed) >= MaxNodes)
    BY <1>2, <1>6, <2>2 DEF Truncated
  <2>6. SumFunctionOnSet(n, listed) \in Nat /\ Cardinality(listed) \in Nat
    BY <2>1, <2>3, SumIsNat, FS_CardinalityType DEF Weighs
  <2>7. Cardinality(listed) < MaxNodes
    BY <1>3, <2>4, <2>5, <2>6
  <2>. QED
    BY <1>3, <2>7, ShortIsAll
<1>7. t.mixer \/ \A h \in t.hops :
         TagsOn(tags, h.address) = {} \/ \E u \in TagsOn(tags, h.address) : u.type # "mixer"
  BY <1>2, <1>5 DEF MixerHits
<1>. QED
  BY <1>3, <1>4, <1>5, <1>6, <1>7 DEF Traced

\* What terminal_attributions finds first fits what the trace lists.
LEMMA FoundFits ==
    ASSUME GraphInv, NEW E, Covers(E, edges), NEW t, Traced(t, E),
           NEW target \in Terminals(edges, tags, Root, Depth)
    PROVE  TargetFits(target, t.hops)
<1>1. /\ target \in Reached(edges, Root, Depth)
      /\ \A b \in Reached(edges, Root, Depth) : Terminal(b) =>
            Hop(edges, Root, Depth, target) <= Hop(edges, Root, Depth, b)
  BY DEF Terminals, Nearest, Terminal
<1> SUFFICES ASSUME NEW h \in t.hops, Terminal(h.address)
             PROVE  /\ target # Root
                    /\ target \in Within(edges, Root, Depth)
                    /\ Hop(edges, Root, Depth, target) <= h.hop
  BY DEF TargetFits
<1>2. h.address \in Reached(E, Root, Depth) /\ h.hop = Hop(E, Root, Depth, h.address)
  BY DEF Traced
<1>3. h.address \in Within(E, Root, Depth) /\ h.address # Root
  BY <1>2 DEF Reached
<1>4. /\ h.address \in Within(edges, Root, Depth)
      /\ Hop(edges, Root, Depth, h.address) <= Hop(E, Root, Depth, h.address)
  BY <1>3, DepthIs, HopCovers
<1>5. h.address \in Reached(edges, Root, Depth)
  BY <1>3, <1>4 DEF Reached
<1>6. target \in Within(edges, Root, Depth) /\ target # Root
  BY <1>1 DEF Reached
<1>7. /\ Hop(edges, Root, Depth, target) \in Nat
      /\ Hop(edges, Root, Depth, h.address) \in Nat /\ Hop(E, Root, Depth, h.address) \in Nat
  BY <1>3, <1>4, <1>6, DepthIs, HopIs
<1>. QED
  BY <1>1, <1>2, <1>4, <1>5, <1>6, <1>7

\* Where none is found, the trace lists none.
LEMMA NoneFits ==
    ASSUME GraphInv, NEW E, Covers(E, edges), NEW t, Traced(t, E),
           Terminals(edges, tags, Root, Depth) = {}, NEW target
    PROVE  TargetFits(target, t.hops)
<1> SUFFICES ASSUME NEW h \in t.hops, Terminal(h.address) PROVE FALSE
  BY DEF TargetFits
<1>1. h.address \in Within(E, Root, Depth) /\ h.address # Root
  BY DEF Traced, Reached
<1>2. h.address \in Within(edges, Root, Depth)
  BY <1>1, DepthIs, HopCovers
<1> DEFINE some == {a \in Reached(edges, Root, Depth) : Terminal(a)}
           H == {Hop(edges, Root, Depth, a) : a \in some}
<1>3. h.address \in some
  BY <1>1, <1>2 DEF Reached
<1>4. H # {} /\ H \in SUBSET Nat
  <2>1. \A a \in some : Hop(edges, Root, Depth, a) \in Nat
    BY DepthIs, HopIs DEF Reached
  <2>. QED
    BY <1>3, <2>1
<1>5. PICK m \in H : \A n \in H : m <= n
  <2> HIDE DEF H
  <2>. QED
    BY <1>4, MinHop
<1>6. PICK a \in some : m = Hop(edges, Root, Depth, a)
  OBVIOUS
<1>7. a \in Nearest(edges, Root, Depth, some)
  BY <1>5, <1>6 DEF Nearest
<1>8. Terminals(edges, tags, Root, Depth) = Nearest(edges, Root, Depth, some)
  BY DEF Terminals, Terminal
<1>. QED
  BY <1>7, <1>8

LEMMA TraceBegins == Init => TraceInv
  BY DEF Init, Idle, TraceInv

LEMMA TraceStep ==
    ASSUME GraphInv, NameInv, SinceInv, PhaseInv, TraceInv, [Next]_vars
    PROVE  TraceInv'
<1>0. DOMAIN request = Fields
  BY DEF NameInv
<1>1. CASE Grows
  <2>1. request' = request /\ tags' = tags /\ Covers(edges, edges')
    BY <1>1 DEF Grows
  <2>2. ASSUME NEW target, NEW hops, TargetFits(target, hops), \A h \in hops : h.hop \in Nat
        PROVE  TargetFits(target, hops)'
    <3>1. \A a : Terminal(a)' <=> Terminal(a)
      BY <2>1 DEF Terminal, TagsOn
    <3>2. ASSUME target \in Within(edges, Root, Depth)
          PROVE  /\ target \in Within(edges', Root, Depth)
                 /\ Hop(edges', Root, Depth, target) <= Hop(edges, Root, Depth, target)
                 /\ Hop(edges', Root, Depth, target) \in Nat
                 /\ Hop(edges, Root, Depth, target) \in Nat
      BY <2>1, <3>2, DepthIs, HopCovers, HopIs
    <3>3. ASSUME NEW h \in hops, Terminal(h.address)
          PROVE  /\ target # Root
                 /\ target \in Within(edges', Root, Depth)
                 /\ Hop(edges', Root, Depth, target) <= h.hop
      <4>1. /\ target # Root /\ target \in Within(edges, Root, Depth)
            /\ Hop(edges, Root, Depth, target) <= h.hop /\ h.hop \in Nat
        BY <2>2, <3>3 DEF TargetFits
      <4>. QED
        BY <3>2, <4>1
    <3>. QED
      BY <3>1, <3>3 DEF TargetFits
  <2>3. ASSUME request.trace # NULL PROVE \A h \in request.trace.hops : h.hop \in Nat
    <3> SUFFICES ASSUME NEW h \in request.trace.hops PROVE h.hop \in Nat
      OBVIOUS
    <3>1. /\ h.address \in Within(request.began.edges, Root, Depth)
          /\ h.hop = Hop(request.began.edges, Root, Depth, h.address)
      BY <2>3 DEF TraceInv, Traced, Reached
    <3>. QED
      BY <3>1, DepthIs, HopIs
  <2>4. \A t, E : Traced(t, E)' <=> Traced(t, E)
    BY <2>1 DEF Traced, TagsOn
  <2>. QED
    BY <2>1, <2>2, <2>3, <2>4 DEF TraceInv
<1>2. CASE (AnalyseWallet \/ GetExposure) /\ UNCHANGED graphVars
  <2>1. UNCHANGED <<edges, tags>>
    BY <1>2 DEF graphVars
  <2>2. /\ \A target, hops : TargetFits(target, hops)' <=> TargetFits(target, hops)
        /\ \A t, E : Traced(t, E)' <=> Traced(t, E)
    BY <2>1 DEF TargetFits, Traced, Terminal, TagsOn
  <2>4. request.phase \notin {"idle", "failed"} => Covers(request.began.edges, edges)
    BY DEF SinceInv
  <2> USE DEF Asks, Fields, ExposurePhases, WalletPhases
  <2>5. CASE TracePath
    <3>1. PICK t \in Traces(edges, tags, Root, Depth, MaxNodes) :
             request' = [request EXCEPT !.phase = "traced", !.began = Now, !.trace = t]
      BY <2>5 DEF TracePath
    <3>2. /\ request'.phase = "traced" /\ request'.began.edges = edges /\ request'.trace = t
          /\ request'.target = request.target /\ request.phase = "idle"
      BY <1>0, <2>5, <3>1 DEF TracePath, Now
    <3>3. Traced(t, edges)
      BY TracesAre
    <3>. QED
      BY <2>2, <3>2, <3>3 DEF TraceInv
  <2>6. CASE FindTerminals
    <3> DEFINE found == Terminals(edges, tags, Root, Depth)
    <3>1. /\ request.phase = "traced"
          /\ \/ \E a \in found : request' = [request EXCEPT !.phase = "targeted", !.target = a]
             \/ /\ found = {}
                /\ request' = [request EXCEPT !.phase = "targeted", !.target = Root]
             \/ /\ found = {} /\ request.trace.hops = {}
                /\ request' = [request EXCEPT !.phase = "unreached"]
      BY <2>6 DEF FindTerminals
    <3>2. request.trace # NULL =>
             /\ \A a \in found : TargetFits(a, request.trace.hops)
             /\ found = {} => TargetFits(Root, request.trace.hops)
      BY <2>4, <3>1, FoundFits, NoneFits DEF TraceInv
    <3>3. request'.trace = request.trace /\ request'.began = request.began
      BY <1>0, <3>1
    <3> HIDE DEF found
    <3>4. \/ \E a \in found : request'.phase = "targeted" /\ request'.target = a
          \/ found = {} /\ request'.phase = "targeted" /\ request'.target = Root
          \/ /\ request.trace.hops = {} /\ request'.phase = "unreached"
             /\ request'.target = request.target
      BY <1>0, <3>1
    <3>. QED
      BY <2>2, <3>1, <3>2, <3>3, <3>4 DEF TraceInv
  <2>7. CASE WalletKnown
    <3>1. /\ request.phase = "unreached" /\ request'.phase = "targeted"
          /\ request'.trace = request.trace /\ request'.began = request.began
      BY <1>0, <2>7 DEF WalletKnown
    <3>2. request.trace.hops = {}
      BY <3>1 DEF TraceInv
    <3>3. TargetFits(request'.target, request.trace.hops)
      BY <3>2 DEF TargetFits
    <3>. QED
      BY <2>2, <3>1, <3>3 DEF TraceInv
  <2>13. CASE Failure
    <3>1. /\ request'.phase = "failed" /\ request'.trace = NULL
      BY <2>13, FailedIs
    <3>. QED
      BY <3>1 DEF TraceInv
  <2>8. CASE LookUpTags \/ ClassifyBehaviour
    <3>1. /\ request.phase \in {"targeted", "unnamed"} /\ request'.phase \in {"attributed", "unnamed"}
          /\ request'.trace = request.trace /\ request'.began = request.began
          /\ request'.target = request.target
      BY <1>0, <2>8 DEF LookUpTags, ClassifyBehaviour
    <3>. QED
      BY <2>2, <3>1 DEF TraceInv
  <2>9. CASE FindHits \/ ReadCases \/ PersistScore
    <3>1. /\ request.phase \in {"attributed", "hit", "scored"}
          /\ request'.phase \in {"hit", "scored", "stored"}
          /\ request'.trace = request.trace /\ request'.began = request.began
          /\ request'.target = request.target
      BY <1>0, <2>9 DEF FindHits, ReadCases, PersistScore
    <3>. QED
      BY <2>2, <3>1 DEF TraceInv
  <2>10. CASE DetectDirect
    <3>1. /\ request.phase = "idle" /\ request'.phase \in {"undirected", "found"}
          /\ request'.trace = request.trace /\ request'.target = request.target
      BY <1>0, <2>10 DEF DetectDirect
    <3>. QED
      BY <3>1 DEF TraceInv
  <2>11. CASE FindServices
    <3>1. /\ request.phase = "undirected" /\ request'.phase \in {"serviced", "found"}
          /\ request'.trace = request.trace /\ request'.target = request.target
      BY <1>0, <2>11 DEF FindServices
    <3>. QED
      BY <3>1 DEF TraceInv
  <2>12. CASE CollectArrivals \/ PersistExposure
    <3>1. /\ request.phase \in {"serviced", "found"} /\ request'.phase \in {"found", "filed"}
          /\ request'.trace = request.trace /\ request'.target = request.target
      BY <1>0, <2>12 DEF CollectArrivals, PersistExposure
    <3>. QED
      BY <3>1 DEF TraceInv
  <2>. QED
    BY <1>2, <2>5, <2>6, <2>7, <2>8, <2>9, <2>10, <2>11, <2>12, <2>13, Analysing DEF GetExposure
<1>. QED
  BY <1>1, <1>2, GraphStep

LEMMA TraceCovers == TraceInv => TraceCoversReach
  BY DEF TraceInv, Traced, TargetFits, Terminal, TraceCoversReach

-----------------------------------------------------------------------------
(* The score *)

LEMMA SameWithin == ASSUME NEW E, NEW r, NEW d PROVE R!Within(E, r, d) = Within(E, r, d)
  BY DEF R!Within, Within

\* What reached the target still does.
LEMMA EndsCover ==
    ASSUME NEW E, NEW F, Covers(E, F), NEW target, NEW r, R!Ends(E, target, r) # {}
    PROVE  R!Ends(F, target, r) # {}
<1>1. R!ReachDepth \in Nat
  BY DEF R!ReachDepth
<1>2. Within(E, r, R!ReachDepth) \subseteq Within(F, r, R!ReachDepth)
  BY <1>1, WithinCovers
<1>. QED
  BY <1>2, SameWithin DEF R!Ends

LEMMA ScoreBegins == Init => ScoreInv
  BY DEF Init, Idle, ScoreInv

LEMMA ScoreStep ==
    ASSUME GraphInv, NameInv, RequestInv, SinceInv, ScoreInv, [Next]_vars
    PROVE  ScoreInv'
<1>0. /\ DOMAIN request = Fields /\ R!ReachDepth \in Nat /\ CaseInv
      /\ request.phase \in {"hit", "scored", "stored"} => \A h \in request.hits : h.node \in Cases
      /\ request.phase \in {"scored", "stored"} => \A h \in request.hits : h.case \in Cases
  BY DEF NameInv, RequestInv, PhaseInv, GraphInv, R!ReachDepth
<1>1. CASE Grows
  <2>1. /\ request' = request /\ tags' = tags /\ Covers(edges, edges')
        /\ CasesKeep /\ Merges(member, member')
    BY <1>1 DEF Grows
  <2>2. \A r : Within(edges, r, R!ReachDepth) \subseteq Within(edges', r, R!ReachDepth)
    BY <1>0, <2>1, WithinCovers
  <2>3. Reaching' = Reaching
    BY <2>1 DEF Reaching
  <2>4. ASSUME request.phase \notin {"idle", "failed"}, member' = request.began.member
        PROVE  member = request.began.member
    <3>1. /\ request.began.member \in Clusterings \cup {Alone}
          /\ Merges(request.began.member, member)
      BY <2>4 DEF SinceInv
    <3>2. member \in Clusterings \cup {Alone} /\ Merges(member, request.began.member)
      BY <2>1, <2>4 DEF GraphInv
    <3>. QED
      BY <3>1, <3>2, MergesBothWays
  <2>5. ASSUME NEW h \in request.hits, request.phase \in {"scored", "stored"}
        PROVE  Accounted(h)'
    <3>1. h.case \in Cases /\ h.node \in Cases /\ Accounted(h)
      BY <1>0, <2>5 DEF ScoreInv
    <3>2. /\ case'[h.case].phase = "committed" /\ case'[h.case].number = case[h.case].number
          /\ case[h.node].phase = "lost" =>
                case'[h.node].phase = "lost" /\ case'[h.node].number = case[h.node].number
      BY <2>1, <3>1 DEF CasesKeep, Accounted
    <3>3. h.terminal \in Within(edges', CaseRoot[h.node], R!ReachDepth)
      BY <2>2, <3>1 DEF Accounted
    <3>. QED
      BY <3>1, <3>2, <3>3 DEF Accounted
  <2>6. ASSUME NEW h \in request.hits, request.phase = "hit"
        PROVE  /\ case'[h.node].node /\ h.number = case'[h.node].number
               /\ h.terminal \in Within(edges', CaseRoot[h.node], R!ReachDepth)
    <3>1. /\ h.node \in Cases /\ case[h.node].node /\ h.number = case[h.node].number
          /\ h.terminal \in Within(edges, CaseRoot[h.node], R!ReachDepth)
      BY <1>0, <2>6 DEF ScoreInv
    <3>2. case[h.node].phase # "none"
      BY <1>0, <3>1 DEF CaseInv
    <3>. QED
      BY <2>1, <2>2, <3>1, <3>2 DEF CasesKeep
  <2>. QED
    BY <2>1, <2>3, <2>4, <2>5, <2>6 DEF ScoreInv
<1>2. CASE (AnalyseWallet \/ GetExposure) /\ UNCHANGED graphVars
  <2>1. UNCHANGED <<edges, tags, member, case>>
    BY <1>2 DEF graphVars
  <2> USE DEF Asks, Fields
  <2>2. CASE TracePath \/ FindTerminals \/ WalletKnown \/ LookUpTags \/ ClassifyBehaviour
    <3>1. request'.phase \notin {"hit", "scored", "stored"}
      BY <1>0, <2>2 DEF TracePath, FindTerminals, WalletKnown, LookUpTags, ClassifyBehaviour
    <3>. QED
      BY <3>1 DEF ScoreInv
  <2>3. CASE FindHits
    <3> DEFINE n == request.attribution
               at == R!Target(tags, member, n.key, n.name)
    <3>1. PICK hits \in R!Hits(edges, at, Nodes) :
             request' = [request EXCEPT !.phase = "hit", !.hits = hits]
      BY <2>3 DEF FindHits
    <3>2. /\ request'.phase = "hit" /\ request'.hits = hits /\ request'.attribution = n
          /\ request'.began = request.began /\ request.phase = "attributed"
      BY <1>0, <2>3, <3>1 DEF FindHits
    <3>3. /\ \A h \in hits : /\ case[h.node].node /\ h.number = case[h.node].number
                             /\ h.terminal \in R!Within(edges, CaseRoot[h.node], R!ReachDepth)
          /\ \A k \in Cases : case[k].node /\ R!Ends(edges, at, CaseRoot[k]) # {}
                => \E h \in hits : h.node = k
      BY HitsAre
    <3>4. \A h \in hits : h.terminal \in Within(edges, CaseRoot[h.node], R!ReachDepth)
      BY <3>3, SameWithin
    <3>5. /\ Covers(request.began.edges, edges)
          /\ request.began.cases \subseteq {k \in Committed : case[k].node}
      BY <3>2 DEF SinceInv
    <3>6. ASSUME member = request.began.member,
                 NEW k \in request.began.cases, R!Ends(request.began.edges, at, CaseRoot[k]) # {}
          PROVE  \E h \in hits : h.node = k
      <4>1. k \in Cases /\ case[k].node
        BY <3>5 DEF Committed
      <4>2. R!Ends(edges, at, CaseRoot[k]) # {}
        BY <3>5, <3>6, EndsCover
      <4>. QED
        BY <3>3, <4>1, <4>2
    <3>7. member = request.began.member => \A k \in Reaching' : \E h \in hits : h.node = k
      BY <2>1, <3>2, <3>6 DEF Reaching
    <3>. QED
      BY <2>1, <3>2, <3>3, <3>4, <3>7 DEF ScoreInv
  <2>4. CASE ReadCases
    <3>1. /\ request.phase = "hit" /\ request'.phase = "scored"
          /\ request'.hits = R!Contributions(request.hits, Rows)
          /\ request'.attribution = request.attribution /\ request'.began = request.began
      BY <1>0, <2>4 DEF ReadCases
    <3>2. request.began.cases \subseteq {k \in Committed : case[k].node}
      BY <3>1 DEF SinceInv
    <3>3. Reaching' = Reaching /\ Reaching \subseteq request.began.cases
      BY <2>1, <3>1 DEF Reaching
    <3>4. ASSUME NEW h \in request'.hits PROVE Accounted(h)
      <4>1. PICK g \in request.hits, c \in Committed :
               /\ h = [case |-> c, node |-> g.node, terminal |-> g.terminal]
               /\ g.number = case[c].number
        BY <3>1, <3>4, ContributionsAre
      <4>2. h.case = c /\ h.node = g.node /\ h.terminal = g.terminal
        BY <4>1
      <4>3. /\ g.node \in Cases /\ case[g.node].node /\ g.number = case[g.node].number
            /\ g.terminal \in Within(edges, CaseRoot[g.node], R!ReachDepth)
        BY <1>0, <3>1 DEF ScoreInv
      <4>4. g.node # c => case[g.node].phase = "lost"
        BY <1>0, <4>1, <4>3, OnlyLostShare
      <4>5. case[c].phase = "committed"
        BY DEF Committed
      <4>. QED
        BY <4>1, <4>2, <4>3, <4>4, <4>5 DEF Accounted
    <3>5. ASSUME member = request.began.member, NEW k \in Reaching
          PROVE  \E h \in request'.hits : h.case = k /\ h.node = k
      <4>1. PICK g \in request.hits : g.node = k
        BY <3>1, <3>5 DEF ScoreInv
      <4>2. k \in Committed
        BY <3>2, <3>3
      <4>3. g.number = case[k].number
        BY <3>1, <4>1 DEF ScoreInv
      <4>4. [case |-> k, node |-> g.node, terminal |-> g.terminal] \in request'.hits
        BY <3>1, <4>2, <4>3, ContributionsAre
      <4>. QED
        BY <4>1, <4>4
    <3>6. \A h : Accounted(h)' <=> Accounted(h)
      BY <2>1 DEF Accounted
    <3>. QED
      BY <2>1, <3>1, <3>3, <3>4, <3>5, <3>6 DEF ScoreInv
  <2>5. CASE PersistScore
    <3>1. /\ request.phase = "scored" /\ request'.phase = "stored"
          /\ request'.hits = request.hits /\ request'.attribution = request.attribution
          /\ request'.began = request.began
      BY <1>0, <2>5 DEF PersistScore
    <3>2. Reaching' = Reaching /\ \A h : Accounted(h)' <=> Accounted(h)
      BY <2>1, <3>1 DEF Reaching, Accounted
    <3>. QED
      BY <2>1, <3>1, <3>2 DEF ScoreInv
  <2>6. CASE Failure
    <3>1. request'.phase = "failed"
      BY <2>6, FailedIs
    <3>. QED
      BY <3>1 DEF ScoreInv
  <2>7. CASE DetectDirect
    <3>1. request'.phase \in {"undirected", "found"}
      BY <1>0, <2>7 DEF DetectDirect
    <3>. QED
      BY <3>1 DEF ScoreInv
  <2>8. CASE FindServices
    <3>1. request'.phase \in {"serviced", "found"}
      BY <1>0, <2>8 DEF FindServices
    <3>. QED
      BY <3>1 DEF ScoreInv
  <2>9. CASE CollectArrivals \/ PersistExposure
    <3>1. request'.phase \in {"found", "filed"}
      BY <1>0, <2>9 DEF CollectArrivals, PersistExposure
    <3>. QED
      BY <3>1 DEF ScoreInv
  <2>. QED
    BY <1>2, <2>2, <2>3, <2>4, <2>5, <2>6, <2>7, <2>8, <2>9, Analysing DEF GetExposure
<1>. QED
  BY <1>1, <1>2, GraphStep

LEMMA ScoreNames == ScoreInv /\ SinceInv => ScoreNamesItsCases
  BY DEF ScoreInv, Accounted, Reaching, ScoreNamesItsCases


-----------------------------------------------------------------------------
(* The exposure *)

LEMMA VolumeBegins == Init => VolumeInv
  BY DEF Init, Idle, VolumeInv, VolumeIsConserved

LEMMA VolumeStep ==
    ASSUME GraphInv, NameInv, RequestInv, SinceInv, VolumeInv, [Next]_vars
    PROVE  VolumeInv'
<1>0. /\ DOMAIN request = Fields /\ FieldsInv /\ PhaseInv
      /\ paid \in [Addresses -> Nat]
  BY DEF NameInv, RequestInv, GraphInv
<1>1. CASE Grows
  <2>1. request' = request /\ \A a \in Addresses : paid[a] <= paid'[a]
    BY <1>1 DEF Grows
  <2>2. ASSUME NEW c \in request.candidates
        PROVE  c.volume <= SumFunctionOnSet(paid', c.addresses)
    <3>1. /\ IsFiniteSet(c.addresses) /\ c.addresses \subseteq Addresses /\ c.volume \in Nat
          /\ c.volume <= SumFunctionOnSet(paid, c.addresses)
      BY <1>0, <2>2 DEF VolumeInv, VolumeIsConserved, FieldsInv, Features, PathFeatures
    <3>2. paid' \in [Addresses -> Nat]
      BY GraphStep DEF GraphInv
    <3>3. /\ Weighs(paid, c.addresses) /\ Weighs(paid', c.addresses)
          /\ \A a \in c.addresses : paid[a] <= paid'[a]
      BY <1>0, <2>1, <3>1, <3>2 DEF Weighs
    <3>4. SumFunctionOnSet(paid, c.addresses) <= SumFunctionOnSet(paid', c.addresses)
      BY <3>1, <3>3, SumAtMost
    <3>5. /\ SumFunctionOnSet(paid, c.addresses) \in Nat
          /\ SumFunctionOnSet(paid', c.addresses) \in Nat
      BY <3>1, <3>3, SumIsNat
    <3>. QED
      BY <3>1, <3>4, <3>5
  <2>. QED
    BY <2>1, <2>2 DEF VolumeInv, VolumeIsConserved
<1>2. CASE (AnalyseWallet \/ GetExposure) /\ UNCHANGED graphVars
  <2>1. UNCHANGED <<edges, tags, paid>>
    BY <1>2 DEF graphVars
  <2>2. /\ request.phase = "idle" \/ request'.began = request.began \/ Failure
        /\ request.phase \notin {"idle", "failed"} => Covers(request.began.edges, edges)
    BY <1>0, <1>2, BeganOnce DEF SinceInv
  <2> USE DEF Asks, Fields
  <2>3. ASSUME request'.candidates = {} PROVE VolumeInv'
    BY <2>3 DEF VolumeInv, VolumeIsConserved
  <2>4. CASE AnalyseWallet
    <3>1. CASE Failure
      BY <2>3, <3>1, FailedIs
    <3>2. CASE ~Failure
      <4>1. /\ request.phase \notin {"found", "filed"}
            /\ request'.candidates = request.candidates
        BY <1>0, <2>4, <3>2, Analysing DEF TracePath, FindTerminals, WalletKnown, LookUpTags,
           ClassifyBehaviour, FindHits, ReadCases, PersistScore
      <4>. QED
        BY <1>0, <2>3, <4>1 DEF PhaseInv
    <3>. QED
      BY <3>1, <3>2
  <2>5. CASE DetectDirect
    <3> DEFINE found == DirectRows(edges, tags, Root)
               Direct(r) == [service |-> r.tag.name, addresses |-> {r.edge.to}, hop |-> 1,
                             volume |-> r.edge.attributed, counterparties |-> {Root}]
    <3>1. /\ request'.candidates = {Direct(r) : r \in found}
          /\ request'.kind = IF found = {} THEN NULL ELSE "direct"
      BY <1>0, <2>5 DEF DetectDirect
    <3>2. ASSUME NEW c \in request'.candidates
          PROVE  /\ IsFiniteSet(c.addresses) /\ c.volume <= SumFunctionOnSet(paid, c.addresses)
                 /\ request'.kind = "direct"
      <4>1. PICK r \in found : c = Direct(r)
        BY <3>1, <3>2
      <4>2. request'.kind = "direct"
        BY <3>1, <4>1
      <4>. QED
        BY <4>1, <4>2, DirectIs
    <3>. QED
      BY <2>1, <3>2 DEF VolumeInv, VolumeIsConserved
  <2>6. CASE FindServices
    <3>1. request.phase = "undirected" /\ request'.candidates = request.candidates
      BY <1>0, <2>6 DEF FindServices
    <3>. QED
      BY <1>0, <2>3, <3>1 DEF PhaseInv
  <2>7. CASE CollectArrivals
    <3>1. /\ request.phase = "serviced" /\ request'.began = request.began
          /\ request'.candidates = Candidates(edges, Root, SearchDepth(Depth), request.rows)
      BY <1>0, <2>7 DEF CollectArrivals
    <3>2. ASSUME NEW c \in request'.candidates
          PROVE  /\ IsFiniteSet(c.addresses) /\ c.volume <= SumFunctionOnSet(paid, c.addresses)
                 /\ \A e \in edges : e.to \in c.addresses /\ e.from \in Within(edges, Root, Depth)
                                        => e.from \in c.counterparties
      BY <1>0, <3>1, <3>2, CandidatesAre DEF FieldsInv
    <3>3. ASSUME NEW c \in request'.candidates, NEW a \in c.addresses,
                 NEW e \in Arrivals(request.began.edges, Root, Depth, a)
          PROVE  e.from \in c.counterparties
      <4>1. e \in request.began.edges /\ e.to = a /\ e.from \in Within(request.began.edges, Root, Depth)
        BY DEF Arrivals
      <4>2. PICK f \in edges : f.from = e.from /\ f.to = e.to
        BY <2>2, <3>1, <4>1 DEF Covers
      <4>3. e.from \in Within(edges, Root, Depth)
        BY <2>2, <3>1, <4>1, DepthIs, WithinCovers
      <4>. QED
        BY <3>2, <4>1, <4>2, <4>3
    <3>. QED
      BY <2>1, <3>1, <3>2, <3>3 DEF VolumeInv, VolumeIsConserved
  <2>8. CASE PersistExposure
    <3>1. /\ request'.candidates = request.candidates /\ request'.kind = request.kind
          /\ request'.began = request.began
      BY <1>0, <2>8 DEF PersistExposure
    <3>. QED
      BY <2>1, <3>1 DEF VolumeInv, VolumeIsConserved
  <2>. QED
    BY <1>2, <2>4, <2>5, <2>6, <2>7, <2>8 DEF GetExposure
<1>. QED
  BY <1>1, <1>2, GraphStep

\* Where there was nothing to find, counting from when the handler began.
LEMMA NoneBegins == Init => NoneInv
  BY NullAssumption DEF Init, Idle, NoneInv

LEMMA NoneStep ==
    ASSUME GraphInv, NameInv, RequestInv, SinceInv, NoneInv, [Next]_vars
    PROVE  NoneInv'
<1>0. DOMAIN request = Fields /\ PhaseInv
  BY DEF NameInv, RequestInv
<1>1. ASSUME request'.kind = request.kind, request'.began = request.began,
             Covers(edges, edges'), tags' = tags
      PROVE  NoneInv'
  <2>1. Reached(edges, Root, Depth) \subseteq Reached(edges', Root, Depth)
    BY <1>1, DepthIs, WithinCovers DEF Reached
  <2>. QED
    BY <1>1, <2>1 DEF NoneInv, ServiceTags
<1>2. CASE Grows
  BY <1>1, <1>2 DEF Grows
<1>3. CASE (AnalyseWallet \/ GetExposure) /\ UNCHANGED graphVars
  <2>1. Covers(edges, edges') /\ tags' = tags /\ edges' = edges
    BY <1>3 DEF Covers, graphVars
  <2>2. request.phase \notin {"idle", "failed"} => Covers(request.began.edges, edges)
    BY DEF SinceInv
  <2>3. ASSUME request'.kind # "none" PROVE NoneInv'
    BY <2>3 DEF NoneInv
  <2> USE DEF Asks, Fields
  <2>4. CASE AnalyseWallet
    <3>1. CASE Failure
      BY <2>3, <3>1, FailedIs, NullAssumption
    <3>2. CASE ~Failure
      <4>1. /\ request.phase \in {"idle"} \cup WalletPhases /\ request'.kind = request.kind
        BY <1>0, <2>4, <3>2, Analysing DEF TracePath, FindTerminals, WalletKnown, LookUpTags,
           ClassifyBehaviour, FindHits, ReadCases, PersistScore, WalletPhases
      <4>. QED
        BY <1>0, <2>3, <4>1, NullAssumption DEF PhaseInv
    <3>. QED
      BY <3>1, <3>2
  <2>5. CASE DetectDirect
    <3>1. request'.kind \in {NULL, "direct"}
      BY <1>0, <2>5 DEF DetectDirect
    <3>. QED
      BY <2>3, <3>1, NullAssumption
  <2>6. CASE FindServices
    <3> DEFINE F == Reached(edges, Root, Depth)
    <3>1. PICK listed \in Limited(F, MaxNodes) :
             LET rows == ServiceRows(edges, tags, Root, SearchDepth(Depth), listed)
             IN  request' = [request EXCEPT !.phase = IF rows = {} THEN "found" ELSE "serviced",
                                            !.kind  = IF rows = {} THEN "none" ELSE "indirect",
                                            !.rows  = rows]
      BY <2>6, DepthIs DEF FindServices
    <3> DEFINE rows == ServiceRows(edges, tags, Root, SearchDepth(Depth), listed)
    <3>2. /\ request'.kind = IF rows = {} THEN "none" ELSE "indirect"
          /\ request.phase = "undirected" /\ request'.began = request.began
      BY <1>0, <2>6, <3>1 DEF FindServices
    <3>3. CASE rows # {}
      BY <2>3, <3>2, <3>3
    <3>4. CASE rows = {}
      <4>1. IsFiniteSet(F)
        BY DepthIs, WithinFinite DEF GraphInv
      <4>2. Reached(request.began.edges, Root, Depth) \subseteq F
        BY <2>2, <3>2, DepthIs, WithinCovers DEF Reached
      <4>3. Cardinality(F) <= MaxNodes => listed = F
        <5>1. listed \in SUBSET F
          BY DEF Limited
        <5>2. Cardinality(F) <= MaxNodes => Cardinality(listed) = Cardinality(F)
          BY DEF Limited
        <5> HIDE DEF F
        <5>. QED
          BY <4>1, <5>1, <5>2, FS_Subset
      <4>4. \A a \in listed : ServiceTags(tags, a) = {}
        BY <3>4 DEF ServiceRows, ServiceTags
      <4>5. /\ F' = F
            /\ \A a : ServiceTags(tags, a)' = ServiceTags(tags, a)
        BY <2>1
      <4> HIDE DEF F
      <4>6. NoneInv' <=> (request'.kind = "none" =>
                 \E G \in SUBSET F :
                    /\ IsFiniteSet(G)
                    /\ Reached(request.began.edges, Root, Depth) \subseteq G
                    /\ Cardinality(G) <= MaxNodes => \A a \in G : ServiceTags(tags, a) = {})
        BY <2>1, <3>2, <4>5 DEF NoneInv, F
      <4>7. F \in SUBSET F
        OBVIOUS
      <4>8. Cardinality(F) <= MaxNodes => \A a \in F : ServiceTags(tags, a) = {}
        BY <4>3, <4>4
      <4>. QED
        BY <4>1, <4>2, <4>6, <4>7, <4>8
    <3>. QED
      BY <3>3, <3>4
  <2>7. CASE CollectArrivals \/ PersistExposure
    <3>1. /\ request.phase \in {"serviced", "found"} /\ request'.kind = request.kind
          /\ request'.began = request.began
      BY <1>0, <2>7 DEF CollectArrivals, PersistExposure
    <3>. QED
      BY <1>1, <2>1, <3>1
  <2>. QED
    BY <1>3, <2>4, <2>5, <2>6, <2>7 DEF GetExposure
<1>. QED
  BY <1>2, <1>3, GraphStep

LEMMA NoneIs == GraphInv /\ NoneInv => NoneMeansNone
<1> SUFFICES ASSUME GraphInv, NoneInv, request.kind = "none",
                    Cardinality(Reached(edges, Root, Depth)) <= MaxNodes
             PROVE  \A a \in Reached(request.began.edges, Root, Depth) : ServiceTags(tags, a) = {}
  BY DEF NoneMeansNone
<1> DEFINE W == Reached(edges, Root, Depth)
<1>1. IsFiniteSet(W)
  BY DepthIs, WithinFinite DEF GraphInv
<1>2. PICK F \in SUBSET W :
         /\ IsFiniteSet(F)
         /\ Reached(request.began.edges, Root, Depth) \subseteq F
         /\ Cardinality(F) <= MaxNodes => \A a \in F : ServiceTags(tags, a) = {}
  BY DEF NoneInv
<1>3. Cardinality(W) <= MaxNodes
  OBVIOUS
<1> HIDE DEF W
<1>4. Cardinality(F) <= Cardinality(W)
  BY <1>1, <1>2, FS_Subset
<1>5. Cardinality(F) \in Nat /\ Cardinality(W) \in Nat /\ MaxNodes \in Nat
  BY <1>1, <1>2, FS_CardinalityType, BoundsAssumption
<1>. QED
  BY <1>2, <1>3, <1>4, <1>5

-----------------------------------------------------------------------------
\* All of it is inductive only together: the request is what the graph made it.
IInv ==
    /\ GraphInv /\ NameInv /\ RequestInv /\ SinceInv
    /\ TraceInv /\ ScoreInv /\ VolumeInv /\ NoneInv

LEMMA Invariant == Spec => []IInv
<1>1. Init => IInv
  <2> SUFFICES ASSUME Init PROVE IInv
    OBVIOUS
  <2>1. NameInv
    BY DEF Init, Idle, NameInv, Fields, Unasked, NamesAreCurated
  <2>2. SinceInv
    BY DEF Init, Idle, SinceInv
  <2>. QED
    BY <2>1, <2>2, GraphBegins, RequestBegins, TraceBegins, ScoreBegins, VolumeBegins, NoneBegins
    DEF IInv
<1>2. IInv /\ [Next]_vars => IInv'
  <2> SUFFICES ASSUME IInv, [Next]_vars PROVE IInv'
    OBVIOUS
  <2>1. /\ GraphInv /\ NameInv /\ RequestInv /\ SinceInv /\ PhaseInv
        /\ TraceInv /\ ScoreInv /\ VolumeInv /\ NoneInv
    BY DEF IInv, RequestInv
  <2>2. GraphInv'
    BY <2>1, GraphStep
  <2>3. NameInv'
    BY <2>1, NameStep
  <2>4. RequestInv'
    BY <2>1, RequestStep
  <2>5. SinceInv'
    BY <2>1, SinceStep
  <2>6. TraceInv'
    BY <2>1, TraceStep
  <2>7. ScoreInv'
    BY <2>1, ScoreStep
  <2>8. VolumeInv'
    BY <2>1, VolumeStep
  <2>9. NoneInv'
    BY <2>1, NoneStep
  <2>. QED
    BY <2>2, <2>3, <2>4, <2>5, <2>6, <2>7, <2>8, <2>9 DEF IInv
<1>. QED
  BY <1>1, <1>2, PTL DEF Spec

\* Every variable has its type, a transaction has one edge between two addresses,
\* and what a handler stores has a target, or candidates, or says there are none.
THEOREM TypesAreCorrect == Spec => []TypeOK
<1>1. IInv => TypeOK
  <2> SUFFICES ASSUME IInv PROVE TypeOK
    OBVIOUS
  <2>1. GraphInv /\ FieldsInv /\ PhaseInv /\ SavedInv
    BY DEF IInv, RequestInv
  <2>2. /\ \A e \in edges : /\ e.from \in Addresses /\ e.to \in Addresses \ {e.from}
                            /\ e.attributed \in Nat
        /\ \A e, f \in edges : SameEdge(e, f) => e = f
        /\ paid \in [Addresses -> Nat]
        /\ case \in [Cases -> Case]
    BY <2>1 DEF GraphInv, CaseInv, TransferSet
  <2>3. member \in [Addresses -> Addresses \cup {NULL}]
    BY <2>1, MemberType DEF GraphInv
  <2>4. /\ request.phase \in {"idle"} \cup WalletPhases \cup ExposurePhases
        /\ request.attribution # NULL => request.attribution \in Attributions
        /\ request.candidates \subseteq Features
    BY <2>1 DEF FieldsInv, PhaseInv
  <2>5. /\ Cardinality(saved) <= 1
        /\ \A row \in saved : StoredRow(row)
    <3>1. CASE saved = {}
      BY <3>1, FS_EmptySet
    <3>2. CASE saved # {}
      <4>1. PICK row : saved = {row} /\ StoredRow(row)
        BY <2>1, <3>2 DEF SavedInv
      <4>. QED
        BY <4>1, FS_Singleton
    <3>. QED
      BY <3>1, <3>2
  <2>. QED
    BY <2>2, <2>3, <2>4, <2>5 DEF TypeOK, Attributions, StoredRow
<1>. QED
  BY <1>1, Invariant, PTL

\* Whatever the graph, the tags and the clusterings are: a name is a curated tag's,
\* a tagged address is never nameless or under-named, and later merges keep it so.
THEOREM NamesAreAlwaysCurated == Spec => []NamesAreCurated
<1>1. IInv => NamesAreCurated
  BY DEF IInv, NameInv
<1>. QED
  BY <1>1, Invariant, PTL

\* A trace that is not cut lists all that was within reach when the handler began,
\* and what is attributed is as near as any terminal it lists, however the graph
\* grew in between.
THEOREM TracesAlwaysCover == Spec => []TraceCoversReach
<1>1. IInv => TraceCoversReach
  BY TraceCovers DEF IInv
<1>. QED
  BY <1>1, Invariant, PTL

\* A score counts committed cases, each by money that reaches the entity from its
\* own address or from that of a rolled-back case which had its number, and misses
\* none whose own money already did, unless clusters changed.
THEOREM ScoresAlwaysNameTheirCases == Spec => []ScoreNamesItsCases
<1>1. IInv => ScoreNamesItsCases
  BY ScoreNames DEF IInv
<1>. QED
  BY <1>1, Invariant, PTL

\* However many labels, inputs, outputs and paths: no candidate's volume is more
\* than its addresses were paid, and no payer known at the start is left out.
THEOREM VolumesAreAlwaysConserved == Spec => []VolumeIsConserved
<1>1. IInv => VolumeIsConserved
  BY DEF IInv, VolumeInv
<1>. QED
  BY <1>1, Invariant, PTL

\* No exposure means none was there to find, short of the limit.
THEOREM NoneAlwaysMeansNone == Spec => []NoneMeansNone
<1>1. IInv => NoneMeansNone
  BY NoneIs DEF IInv
<1>. QED
  BY <1>1, Invariant, PTL
=============================================================================
