---------------------------- MODULE MoneyFlowProofs ----------------------------
(***************************************************************************)
(* The walk over any chain, with any bounds: it asks once per address      *)
(* within its budget, and a walk that calls itself complete has asked for  *)
(* exactly the addresses within reach.                                     *)
(*                                                                         *)
(* The prover knows a recursive function only as a CHOOSE, so a lemma on   *)
(* each of them first shows that a function with its equation exists       *)
(* (Iterates) and then follows the equation by induction (NatInduct).      *)
(***************************************************************************)
EXTENDS MoneyFlow, Integers, FiniteSetTheorems, WellFoundedInduction, TLAPS

\* A set that holds 0 and is closed under successor holds every natural number.
LEMMA NatInduct ==
    ASSUME NEW T, 0 \in T, \A n \in Nat : n \in T => n + 1 \in T
    PROVE  Nat \subseteq T
<1> DEFINE less == {ss \in Nat \X Nat : ss[1] < ss[2]}
<1>1. IsWellFoundedOn(less, Nat)
  BY NatLessThanWellFounded, Zenon DEF OpToRel
<1>2. \A x, y \in Nat : <<y, x>> \in less <=> y < x
  OBVIOUS
<1> HIDE DEF less
<1>3. ASSUME Nat \ T # {} PROVE FALSE
  <2>1. PICK x \in Nat \ T : \A y \in Nat \ T : ~ (<<y, x>> \in less)
    BY <1>1, <1>3, WFMin
  <2>2. x # 0 /\ x - 1 \in Nat /\ x - 1 < x /\ (x - 1) + 1 = x
    BY <2>1
  <2>3. x - 1 \in T
    BY <1>2, <2>1, <2>2
  <2>. QED
    BY <2>1, <2>2, <2>3
<1>. QED
  BY <1>3

\* f applies step n = 1, 2, ... to what the step before made of base.
Runs(f, base, step, size) == f[0] = base /\ \A n \in 1..size : f[n] = step[n][f[n - 1]]

LEMMA Iterates ==
    ASSUME NEW V, NEW base \in V, NEW step \in [Nat -> [V -> V]], NEW size \in Nat
    PROVE  \E f \in [0..size -> V] : Runs(f, base, step, size)
<1> DEFINE T == {m \in Nat : \E f \in [0..m -> V] : Runs(f, base, step, m)}
<1>1. 0 \in T
  <2> DEFINE f == [n \in 0..0 |-> base]
  <2>1. f \in [0..0 -> V] /\ Runs(f, base, step, 0)
    BY DEF Runs
  <2>. QED
    BY <2>1
<1>2. ASSUME NEW m \in Nat, m \in T PROVE m + 1 \in T
  <2>1. PICK g \in [0..m -> V] : Runs(g, base, step, m)
    BY <1>2
  <2> DEFINE last == step[m + 1][g[m]]
             f == [n \in 0..(m + 1) |-> IF n = m + 1 THEN last ELSE g[n]]
  <2>2. last \in V /\ \A n \in 0..m : g[n] \in V
    <3>1. m \in 0..m /\ m + 1 \in Nat
      OBVIOUS
    <3>2. g[m] \in V /\ step[m + 1] \in [V -> V]
      BY <3>1
    <3>. QED
      BY <3>2
  <2>3. f \in [0..(m + 1) -> V]
    BY <2>2
  <2>4. f[0] = base
    BY <2>1 DEF Runs
  <2>5. ASSUME NEW n \in 1..(m + 1) PROVE f[n] = step[n][f[n - 1]]
    <3>1. CASE n = m + 1
      <4>1. f[n] = last /\ f[n - 1] = g[m]
        BY <3>1
      <4>. QED
        BY <3>1, <4>1
    <3>2. CASE n \in 1..m
      <4>1. f[n] = g[n] /\ f[n - 1] = g[n - 1]
        BY <3>2
      <4>2. g[n] = step[n][g[n - 1]]
        BY <2>1, <3>2 DEF Runs
      <4>. QED
        BY <4>1, <4>2
    <3>. QED
      BY <3>1, <3>2
  <2> HIDE DEF f
  <2>6. Runs(f, base, step, m + 1)
    BY <2>4, <2>5 DEF Runs
  <2>. QED
    BY <2>3, <2>6
<1> HIDE DEF T
<1>3. Nat \subseteq T
  BY <1>1, <1>2, NatInduct
<1>. QED
  BY <1>3 DEF T

-----------------------------------------------------------------------------
(* Kept *)

\* f counts Kept up, position by position.
IsKept(f, s, keep) ==
    f = [n \in 0..Len(s) |-> IF n = 0 THEN <<>>
                             ELSE IF n \in keep THEN Append(f[n - 1], s[n])
                             ELSE f[n - 1]]

LEMMA KeptIs ==
    ASSUME NEW S, NEW s \in Seq(S), NEW keep
    PROVE  \E f : IsKept(f, s, keep) /\ Kept(s, keep) = f[Len(s)]
<1> DEFINE f == CHOOSE g : IsKept(g, s, keep)
<1>1. Kept(s, keep) = f[Len(s)]
  BY DEF Kept, IsKept
<1>2. \E g : IsKept(g, s, keep)
  <2> DEFINE step == [n \in Nat |-> [v \in Seq(S) |->
                        IF n \in 1..Len(s) /\ n \in keep THEN Append(v, s[n]) ELSE v]]
  <2>1. Len(s) \in Nat /\ <<>> \in Seq(S) /\ \A i \in 1..Len(s) : s[i] \in S
    OBVIOUS
  <2>2. step \in [Nat -> [Seq(S) -> Seq(S)]]
    BY <2>1
  <2>3. \A n \in 1..Len(s) : \A v \in Seq(S) :
           step[n][v] = IF n \in keep THEN Append(v, s[n]) ELSE v
    BY <2>1
  <2> HIDE DEF step
  <2>4. PICK g \in [0..Len(s) -> Seq(S)] : Runs(g, <<>>, step, Len(s))
    BY <2>1, <2>2, Iterates
  <2>5. ASSUME NEW n \in 0..Len(s)
        PROVE  g[n] = IF n = 0 THEN <<>>
                      ELSE IF n \in keep THEN Append(g[n - 1], s[n]) ELSE g[n - 1]
    <3>1. CASE n # 0
      <4>1. n \in 1..Len(s) /\ n - 1 \in 0..Len(s)
        BY <2>1, <3>1
      <4>2. g[n - 1] \in Seq(S) /\ g[n] = step[n][g[n - 1]]
        BY <2>4, <4>1 DEF Runs
      <4>. QED
        BY <2>3, <3>1, <4>1, <4>2
    <3>. QED
      BY <2>4, <3>1 DEF Runs
  <2>6. g = [n \in 0..Len(s) |-> g[n]]
    OBVIOUS
  <2>7. IsKept(g, s, keep)
    BY <2>5, <2>6 DEF IsKept
  <2>. QED
    BY <2>7
<1>3. IsKept(f, s, keep)
  BY <1>2
<1> HIDE DEF f
<1>. QED
  BY <1>1, <1>3

LEMMA AppendRange ==
    ASSUME NEW S, NEW q \in Seq(S), NEW e \in S
    PROVE  Append(q, e) \in Seq(S) /\ Range1(Append(q, e)) = Range1(q) \cup {e}
<1> DEFINE r == Append(q, e)
<1>1. /\ r \in Seq(S) /\ DOMAIN r = 1..(Len(q) + 1) /\ DOMAIN q = 1..Len(q) /\ Len(q) \in Nat
      /\ \A i \in 1..Len(q) : r[i] = q[i]
      /\ r[Len(q) + 1] = e
  OBVIOUS
<1> HIDE DEF r
<1>2. Range1(r) = Range1(q) \cup {e}
  BY <1>1 DEF Range1
<1>. QED
  BY <1>1, <1>2 DEF r

\* Kept holds the entries at the kept positions, and nothing else.
LEMMA KeptRange ==
    ASSUME NEW S, NEW s \in Seq(S), NEW keep
    PROVE  /\ Kept(s, keep) \in Seq(S)
           /\ Range1(Kept(s, keep)) = {s[i] : i \in (1..Len(s)) \cap keep}
<1>0. Len(s) \in Nat /\ \A i \in 1..Len(s) : s[i] \in S
  OBVIOUS
<1>1. PICK f : IsKept(f, s, keep) /\ Kept(s, keep) = f[Len(s)]
  BY KeptIs
<1> DEFINE Up(n) == {s[i] : i \in (1..n) \cap keep}
           T == {n \in Nat : n <= Len(s) => f[n] \in Seq(S) /\ Range1(f[n]) = Up(n)}
<1>2. 0 \in T
  <2>1. <<>> \in Seq(S) /\ Range1(<<>>) = {}
    BY DEF Range1
  <2>2. Up(0) = {}
    OBVIOUS
  <2>3. f[0] = <<>>
    BY <1>0, <1>1 DEF IsKept
  <2> HIDE DEF Up
  <2>. QED
    BY <2>1, <2>2, <2>3
<1>3. ASSUME NEW n \in Nat, n \in T PROVE n + 1 \in T
  <2> SUFFICES ASSUME n + 1 <= Len(s)
               PROVE  f[n + 1] \in Seq(S) /\ Range1(f[n + 1]) = Up(n + 1)
    OBVIOUS
  <2>1. n + 1 \in 1..Len(s) /\ (n + 1) - 1 = n
    BY <1>0
  <2>2. f[n + 1] = IF n + 1 \in keep THEN Append(f[n], s[n + 1]) ELSE f[n]
    <3>1. n + 1 \in 0..Len(s) /\ n + 1 # 0
      BY <2>1
    <3>2. f[n + 1] = IF n + 1 \in keep THEN Append(f[(n + 1) - 1], s[n + 1]) ELSE f[(n + 1) - 1]
      BY <1>1, <3>1, Zenon DEF IsKept
    <3>. QED
      BY <2>1, <3>2
  <2>3. f[n] \in Seq(S) /\ Range1(f[n]) = Up(n) /\ s[n + 1] \in S
    BY <1>0, <1>3, <2>1
  <2>4. 1..(n + 1) = 1..n \cup {n + 1}
    OBVIOUS
  <2>5. CASE n + 1 \in keep
    <3>1. Up(n + 1) = Up(n) \cup {s[n + 1]}
      BY <2>4, <2>5
    <3>. QED
      BY <2>2, <2>3, <2>5, <3>1, AppendRange
  <2>6. CASE n + 1 \notin keep
    <3>1. Up(n + 1) = Up(n)
      BY <2>4, <2>6
    <3>. QED
      BY <2>2, <2>3, <2>6, <3>1
  <2>. QED
    BY <2>5, <2>6
<1> HIDE DEF T
<1>4. Len(s) \in T
  BY <1>0, <1>2, <1>3, NatInduct
<1>. QED
  BY <1>1, <1>4 DEF T

-----------------------------------------------------------------------------
(* What one call brings *)

LedgerType == Seq([inputs : SUBSET Names, outputs : Seq(Names)])

LEMMA EntryIn == ASSUME NEW S, NEW q \in Seq(S), NEW i \in 1..Len(q) PROVE q[i] \in S
  OBVIOUS

LEMMA RangeIn ==
    ASSUME NEW S, NEW q \in Seq(S)
    PROVE  Range1(q) \subseteq S /\ Range1(q) = {q[i] : i \in 1..Len(q)}
BY DEF Range1

LEMMA CutRange ==
    ASSUME NEW S, NEW q \in Seq(S), NEW n \in Nat
    PROVE  LET cut == SubSeq(q, 1, IF Len(q) < n THEN Len(q) ELSE n)
           IN  cut \in Seq(S) /\ Range1(cut) \subseteq Range1(q)
<1> DEFINE m == IF Len(q) < n THEN Len(q) ELSE n
           cut == SubSeq(q, 1, m)
<1>1. m \in 0..Len(q) /\ Len(q) \in Nat
  OBVIOUS
<1> HIDE DEF m
<1>2. cut \in Seq(S) /\ Len(cut) = m /\ \A i \in 1..m : cut[i] = q[i]
  BY <1>1
<1> HIDE DEF cut
<1>3. Range1(cut) \subseteq Range1(q)
  <2>1. Range1(cut) = {cut[i] : i \in 1..m} /\ Range1(q) = {q[i] : i \in 1..Len(q)}
    BY <1>2, RangeIn
  <2>. QED
    BY <1>1, <1>2, <2>1
<1>. QED
  BY <1>2, <1>3 DEF cut, m

\* A page is a list of transactions.
LEMMA PageShape ==
    ASSUME ledger \in LedgerType, NEW a
    PROVE  Page(a) \in Seq(1..Len(ledger)) /\ Range1(Page(a)) \subseteq 1..Len(ledger)
<1> DEFINE newest == [i \in 1..Len(ledger) |-> Len(ledger) + 1 - i]
           history == Kept(newest, {i \in 1..Len(ledger) : Involves(newest[i], a)})
<1>1. newest \in Seq(1..Len(ledger))
  <2>1. Len(ledger) \in Nat
    BY DEF LedgerType
  <2>2. \A i \in 1..Len(ledger) : Len(ledger) + 1 - i \in 1..Len(ledger)
    BY <2>1
  <2>. QED
    BY <2>1, <2>2
<1>2. history \in Seq(1..Len(ledger))
  BY <1>1, KeptRange
<1> HIDE DEF history
<1>3. Page(a) \in Seq(1..Len(ledger))
  BY <1>2, CutRange, BoundsAssumption DEF Page, history
<1>. QED
  BY <1>3, RangeIn

\* The addresses transaction t pays.
Pays(t) == {Norm[n] : n \in Range1(ledger[t].outputs)}

LEMMA NewOutputsRange ==
    ASSUME ledger \in LedgerType, NEW t \in 1..Len(ledger), NEW seenNow
    PROVE  /\ NewOutputs(t, seenNow) \in Seq(Addresses)
           /\ Range1(NewOutputs(t, seenNow)) = Pays(t) \ seenNow
           /\ Pays(t) \subseteq Addresses
<1> DEFINE outs == ledger[t].outputs
           norms == [i \in 1..Len(outs) |-> Norm[outs[i]]]
           keep == {i \in DOMAIN norms : norms[i] \notin seenNow}
<1>1. outs \in Seq(Names) /\ Len(outs) \in Nat /\ DOMAIN outs = 1..Len(outs)
  <2>1. ledger[t] \in [inputs : SUBSET Names, outputs : Seq(Names)]
    BY EntryIn DEF LedgerType
  <2>2. outs \in Seq(Names)
    BY <2>1
  <2> HIDE DEF outs
  <2>. QED
    BY <2>2
<1> HIDE DEF outs
<1>2. /\ norms \in Seq(Addresses) /\ Len(norms) = Len(outs) /\ DOMAIN norms = 1..Len(outs)
      /\ \A i \in 1..Len(outs) : norms[i] = Norm[outs[i]]
  BY <1>1, NormAssumption
<1>3. Pays(t) = {Norm[outs[i]] : i \in 1..Len(outs)}
  BY <1>1, RangeIn DEF Pays, outs
<1>4. NewOutputs(t, seenNow) = Kept(norms, keep)
  BY DEF NewOutputs, outs
<1>5. keep = {i \in 1..Len(outs) : Norm[outs[i]] \notin seenNow}
  BY <1>2
<1> HIDE DEF norms, keep
<1>6. /\ Kept(norms, keep) \in Seq(Addresses)
      /\ Range1(Kept(norms, keep)) = {norms[i] : i \in (1..Len(norms)) \cap keep}
  BY <1>2, KeptRange
<1>7. {norms[i] : i \in (1..Len(norms)) \cap keep}
         = {Norm[outs[i]] : i \in {j \in 1..Len(outs) : Norm[outs[j]] \notin seenNow}}
  BY <1>2, <1>5
<1>8. \A i \in 1..Len(outs) : Norm[outs[i]] \in Addresses
  BY <1>1, NormAssumption
<1>9. Pays(t) \ seenNow
         = {Norm[outs[i]] : i \in {j \in 1..Len(outs) : Norm[outs[j]] \notin seenNow}}
  BY <1>3
<1>. QED
  BY <1>3, <1>4, <1>6, <1>7, <1>8, <1>9

LEMMA ConcatRange ==
    ASSUME NEW S, NEW p \in Seq(S), NEW q \in Seq(S)
    PROVE  p \o q \in Seq(S) /\ Range1(p \o q) = Range1(p) \cup Range1(q)
<1> DEFINE r == p \o q
<1>1. /\ r \in Seq(S) /\ Len(r) = Len(p) + Len(q) /\ Len(p) \in Nat /\ Len(q) \in Nat
      /\ \A i \in 1..Len(p) : r[i] = p[i]
      /\ \A i \in 1..Len(q) : r[Len(p) + i] = q[i]
      /\ \A i \in (Len(p) + 1)..Len(r) : r[i] = q[i - Len(p)]
  OBVIOUS
<1> HIDE DEF r
<1>2. /\ Range1(r) = {r[i] : i \in 1..Len(r)} /\ Range1(p) = {p[i] : i \in 1..Len(p)}
      /\ Range1(q) = {q[i] : i \in 1..Len(q)}
  BY <1>1, RangeIn
<1>3. Range1(r) \subseteq Range1(p) \cup Range1(q)
  <2> SUFFICES ASSUME NEW i \in 1..Len(r)
               PROVE  r[i] \in Range1(p) \cup Range1(q)
    BY <1>2
  <2>1. CASE i \in 1..Len(p)
    BY <1>1, <1>2, <2>1
  <2>2. CASE i \in (Len(p) + 1)..Len(r)
    <3>1. i - Len(p) \in 1..Len(q) /\ r[i] = q[i - Len(p)]
      BY <1>1, <2>2
    <3>. QED
      BY <1>2, <3>1
  <2>. QED
    BY <1>1, <2>1, <2>2
<1>4. Range1(p) \subseteq Range1(r)
  <2>1. \A i \in 1..Len(p) : i \in 1..Len(r) /\ r[i] = p[i]
    BY <1>1
  <2>. QED
    BY <1>2, <2>1
<1>5. Range1(q) \subseteq Range1(r)
  <2>1. \A i \in 1..Len(q) : Len(p) + i \in 1..Len(r) /\ r[Len(p) + i] = q[i]
    BY <1>1
  <2>. QED
    BY <1>2, <2>1
<1>. QED
  BY <1>1, <1>3, <1>4, <1>5 DEF r

LEMMA OutputsIs ==
    ASSUME ledger \in LedgerType, NEW a
    PROVE  /\ Outputs(a) = UNION {Pays(t) : t \in {u \in Range1(Page(a)) : Spent(u, a)}}
           /\ Outputs(a) \subseteq Addresses
<1>1. Outputs(a) = UNION {Pays(t) : t \in {u \in Range1(Page(a)) : Spent(u, a)}}
  BY DEF Outputs, Pays
<1>2. \A t \in 1..Len(ledger) : Pays(t) \subseteq Addresses
  BY NewOutputsRange
<1>. QED
  BY <1>1, <1>2, PageShape

-----------------------------------------------------------------------------
(* The loop over the transactions of a call *)

\* f is the next level, transaction by transaction.
IsExtend(f, level, a, seenNow) ==
    LET page == Page(a)
    IN  f = [n \in 0..Len(page) |->
                IF n = 0 THEN level
                ELSE IF Spent(page[n], a) THEN f[n - 1] \o NewOutputs(page[n], seenNow)
                ELSE f[n - 1]]

LEMMA ExtendIs ==
    ASSUME ledger \in LedgerType, NEW level \in Seq(Addresses), NEW a, NEW seenNow
    PROVE  \E f : IsExtend(f, level, a, seenNow) /\ Extend(level, a, seenNow) = f[Len(Page(a))]
<1> DEFINE f == CHOOSE g : IsExtend(g, level, a, seenNow)
           page == Page(a)
           L == Seq(Addresses)
<1>1. Extend(level, a, seenNow) = f[Len(Page(a))]
  BY DEF Extend, IsExtend
<1>2. \E g : IsExtend(g, level, a, seenNow)
  <2> DEFINE step == [n \in Nat |-> [v \in L |->
                        IF n \in 1..Len(page) /\ Spent(page[n], a)
                        THEN v \o NewOutputs(page[n], seenNow) ELSE v]]
  <2>1. Len(page) \in Nat /\ \A i \in 1..Len(page) : page[i] \in 1..Len(ledger)
    <3>1. page \in Seq(1..Len(ledger))
      BY PageShape
    <3>. QED
      BY <3>1
  <2> HIDE DEF page
  <2>2. \A n \in 1..Len(page) : NewOutputs(page[n], seenNow) \in L
    BY <2>1, NewOutputsRange
  <2>3. \A n \in 1..Len(page), v \in L : v \o NewOutputs(page[n], seenNow) \in L
    BY <2>2
  <2> HIDE DEF L
  <2>4. step \in [Nat -> [L -> L]]
    BY <2>3
  <2>5. \A n \in 1..Len(page), v \in L :
           step[n][v] = IF Spent(page[n], a) THEN v \o NewOutputs(page[n], seenNow) ELSE v
    BY <2>1
  <2> HIDE DEF step
  <2>6. level \in L
    BY DEF L
  <2>7. PICK g \in [0..Len(page) -> L] : Runs(g, level, step, Len(page))
    BY <2>1, <2>4, <2>6, Iterates
  <2>8. ASSUME NEW n \in 0..Len(page)
        PROVE  g[n] = IF n = 0 THEN level
                      ELSE IF Spent(page[n], a) THEN g[n - 1] \o NewOutputs(page[n], seenNow)
                      ELSE g[n - 1]
    <3>1. CASE n # 0
      <4>1. n \in 1..Len(page) /\ n - 1 \in 0..Len(page)
        BY <2>1, <3>1
      <4>2. g[n - 1] \in L /\ g[n] = step[n][g[n - 1]]
        BY <2>7, <4>1 DEF Runs
      <4>. QED
        BY <2>5, <3>1, <4>1, <4>2
    <3>. QED
      BY <2>7, <3>1 DEF Runs
  <2>9. g = [n \in 0..Len(page) |-> g[n]]
    OBVIOUS
  <2>10. IsExtend(g, level, a, seenNow)
    BY <2>8, <2>9 DEF IsExtend, page
  <2>. QED
    BY <2>10
<1>3. IsExtend(f, level, a, seenNow)
  BY <1>2
<1> HIDE DEF f
<1>. QED
  BY <1>1, <1>3

\* The call adds to the next level exactly the new addresses a's money went to.
LEMMA ExtendRange ==
    ASSUME ledger \in LedgerType, NEW level \in Seq(Addresses), NEW a, NEW seenNow
    PROVE  /\ Extend(level, a, seenNow) \in Seq(Addresses)
           /\ Range1(Extend(level, a, seenNow)) = Range1(level) \cup (Outputs(a) \ seenNow)
<1> DEFINE page == Page(a)
           Paid(n) == UNION {Pays(page[i]) : i \in {j \in 1..n : Spent(page[j], a)}}
<1>1. page \in Seq(1..Len(ledger))
  BY PageShape
<1>2. Len(page) \in Nat /\ \A i \in 1..Len(page) : page[i] \in 1..Len(ledger)
  BY <1>1
<1>3. Outputs(a) = Paid(Len(page))
  <2>1. Range1(page) = {page[i] : i \in 1..Len(page)}
    BY <1>1, RangeIn
  <2>. QED
    BY <2>1, OutputsIs
<1>4. PICK f : IsExtend(f, level, a, seenNow) /\ Extend(level, a, seenNow) = f[Len(page)]
  BY ExtendIs
<1>9. f = [n \in 0..Len(page) |->
              IF n = 0 THEN level
              ELSE IF Spent(page[n], a) THEN f[n - 1] \o NewOutputs(page[n], seenNow)
              ELSE f[n - 1]]
  BY <1>4 DEF IsExtend
<1> HIDE DEF page
<1> DEFINE T == {n \in Nat : n <= Len(page) =>
                    /\ f[n] \in Seq(Addresses)
                    /\ Range1(f[n]) = Range1(level) \cup (Paid(n) \ seenNow)}
<1>5. 0 \in T
  <2>1. f[0] = level
    BY <1>2, <1>9
  <2>2. Paid(0) = {}
    OBVIOUS
  <2> HIDE DEF Paid
  <2>. QED
    BY <2>1, <2>2
<1>6. ASSUME NEW n \in Nat, n \in T PROVE n + 1 \in T
  <2> SUFFICES ASSUME n + 1 <= Len(page)
               PROVE  /\ f[n + 1] \in Seq(Addresses)
                      /\ Range1(f[n + 1]) = Range1(level) \cup (Paid(n + 1) \ seenNow)
    OBVIOUS
  <2>1. n + 1 \in 1..Len(page) /\ n + 1 \in 0..Len(page) /\ n + 1 # 0 /\ (n + 1) - 1 = n /\ n <= Len(page)
    BY <1>2
  <2>2. f[n + 1] = IF Spent(page[n + 1], a) THEN f[n] \o NewOutputs(page[n + 1], seenNow) ELSE f[n]
    <3>1. f[n + 1] = IF n + 1 = 0 THEN level
                     ELSE IF Spent(page[n + 1], a)
                     THEN f[(n + 1) - 1] \o NewOutputs(page[n + 1], seenNow)
                     ELSE f[(n + 1) - 1]
      BY <1>9, <2>1, Zenon
    <3>. QED
      BY <2>1, <3>1
  <2>3. /\ f[n] \in Seq(Addresses) /\ Range1(f[n]) = Range1(level) \cup (Paid(n) \ seenNow)
        /\ page[n + 1] \in 1..Len(ledger)
    BY <1>2, <1>6, <2>1
  <2>4. 1..(n + 1) = 1..n \cup {n + 1}
    OBVIOUS
  <2>5. CASE Spent(page[n + 1], a)
    <3>1. {j \in 1..(n + 1) : Spent(page[j], a)} = {j \in 1..n : Spent(page[j], a)} \cup {n + 1}
      BY <2>4, <2>5
    <3>2. Paid(n + 1) = Paid(n) \cup Pays(page[n + 1])
      BY <3>1
    <3>3. /\ NewOutputs(page[n + 1], seenNow) \in Seq(Addresses)
          /\ Range1(NewOutputs(page[n + 1], seenNow)) = Pays(page[n + 1]) \ seenNow
      BY <2>3, NewOutputsRange
    <3> HIDE DEF Paid
    <3>. QED
      BY <2>2, <2>3, <2>5, <3>2, <3>3, ConcatRange
  <2>6. CASE ~ Spent(page[n + 1], a)
    <3>1. {j \in 1..(n + 1) : Spent(page[j], a)} = {j \in 1..n : Spent(page[j], a)}
      BY <2>4, <2>6
    <3>2. Paid(n + 1) = Paid(n)
      BY <3>1
    <3> HIDE DEF Paid
    <3>. QED
      BY <2>2, <2>3, <2>6, <3>2
  <2>. QED
    BY <2>5, <2>6
<1> HIDE DEF T
<1>7. Len(page) \in T
  BY <1>2, <1>5, <1>6, NatInduct
<1>8. /\ f[Len(page)] \in Seq(Addresses)
      /\ Range1(f[Len(page)]) = Range1(level) \cup (Paid(Len(page)) \ seenNow)
  BY <1>2, <1>7 DEF T
<1> HIDE DEF Paid
<1>. QED
  BY <1>3, <1>4, <1>8

-----------------------------------------------------------------------------
(* What is within reach *)

IsWithin(f) ==
    f = [d \in 0..MaxDepth |->
            IF d = 0 THEN {Root} ELSE f[d - 1] \cup UNION {Outputs(a) : a \in f[d - 1]}]

LEMMA WithinIs == ledger \in LedgerType => IsWithin(Within)
<1> SUFFICES ASSUME ledger \in LedgerType PROVE \E f : IsWithin(f)
  BY DEF Within, IsWithin
<1> DEFINE V == SUBSET Addresses
           step == [n \in Nat |-> [v \in V |-> v \cup UNION {Outputs(a) : a \in v}]]
<1>1. \A v \in V : v \cup UNION {Outputs(a) : a \in v} \in V
  BY OutputsIs
<1>2. {Root} \in V
  BY NormAssumption
<1> HIDE DEF V
<1>3. step \in [Nat -> [V -> V]]
  BY <1>1
<1>4. \A n \in Nat, v \in V : step[n][v] = v \cup UNION {Outputs(a) : a \in v}
  OBVIOUS
<1> HIDE DEF step
<1>5. PICK g \in [0..MaxDepth -> V] : Runs(g, {Root}, step, MaxDepth)
  BY <1>2, <1>3, BoundsAssumption, Iterates
<1>6. ASSUME NEW n \in 0..MaxDepth
      PROVE  g[n] = IF n = 0 THEN {Root} ELSE g[n - 1] \cup UNION {Outputs(a) : a \in g[n - 1]}
  <2>1. CASE n # 0
    <3>1. n \in 1..MaxDepth /\ n - 1 \in 0..MaxDepth /\ n \in Nat
      BY <2>1, BoundsAssumption
    <3>2. g[n - 1] \in V /\ g[n] = step[n][g[n - 1]]
      BY <1>5, <3>1 DEF Runs
    <3>. QED
      BY <1>4, <2>1, <3>1, <3>2
  <2>. QED
    BY <1>5, <2>1 DEF Runs
<1>7. g = [n \in 0..MaxDepth |-> g[n]]
  OBVIOUS
<1>8. IsWithin(g)
  BY <1>6, <1>7 DEF IsWithin
<1>. QED
  BY <1>8

\* Reach grows with the distance and by one spend at a time.
LEMMA WithinGrows ==
    ASSUME ledger \in LedgerType
    PROVE  /\ MaxDepth \in Nat /\ Within[0] = {Root}
           /\ \A d \in 1..MaxDepth :
                 Within[d] = Within[d - 1] \cup UNION {Outputs(a) : a \in Within[d - 1]}
           /\ \A d \in 0..MaxDepth : \A k \in d..MaxDepth : Within[d] \subseteq Within[k]
<1>1. IsWithin(Within)
  BY WithinIs
<1>2. MaxDepth \in Nat
  BY BoundsAssumption
<1>3. Within[0] = {Root}
  BY <1>1, <1>2 DEF IsWithin
<1>4. ASSUME NEW d \in 1..MaxDepth
      PROVE  Within[d] = Within[d - 1] \cup UNION {Outputs(a) : a \in Within[d - 1]}
  <2>1. d \in 0..MaxDepth /\ d # 0
    BY <1>2
  <2>. QED
    BY <1>1, <2>1, Zenon DEF IsWithin
<1>5. ASSUME NEW d \in 0..MaxDepth
      PROVE  \A k \in d..MaxDepth : Within[d] \subseteq Within[k]
  <2> DEFINE T == {n \in Nat : d + n <= MaxDepth => Within[d] \subseteq Within[d + n]}
  <2>1. 0 \in T
    BY <1>5
  <2>2. ASSUME NEW n \in Nat, n \in T PROVE n + 1 \in T
    <3> SUFFICES ASSUME d + (n + 1) <= MaxDepth
                 PROVE  Within[d] \subseteq Within[d + (n + 1)]
      OBVIOUS
    <3>1. d + (n + 1) \in 1..MaxDepth /\ (d + (n + 1)) - 1 = d + n /\ d + n <= MaxDepth
      BY <1>2
    <3>2. Within[d + n] \subseteq Within[d + (n + 1)]
      BY <1>4, <3>1
    <3>. QED
      BY <2>2, <3>1, <3>2
  <2> HIDE DEF T
  <2>3. Nat \subseteq T
    BY <2>1, <2>2, NatInduct
  <2>4. ASSUME NEW k \in d..MaxDepth PROVE Within[d] \subseteq Within[k]
    <3>1. k - d \in Nat /\ d + (k - d) = k /\ k <= MaxDepth
      BY <1>2
    <3>. QED
      BY <2>3, <3>1 DEF T
  <2>. QED
    BY <2>4
<1>. QED
  BY <1>2, <1>3, <1>4, <1>5

-----------------------------------------------------------------------------
(* The walk *)

\* A level stays within its distance of the root.
ReachInv ==
    /\ seen \subseteq Within[depth] /\ Range1(frontier) \subseteq Within[depth]
    /\ depth < MaxDepth => Range1(next_frontier) \subseteq Within[depth + 1]
    /\ depth = MaxDepth /\ depth > 0 => seen \subseteq Within[depth - 1]

\* A call per address, whose answer is kept unless it failed.
AccountInv ==
    /\ IsFiniteSet(seen) /\ CallsAccountedFor
    /\ failed \subseteq seen
    /\ failed = {} => collected = UNION {Range1(Page(a)) : a \in seen}

\* While nothing was cut off and nothing failed, what the addresses asked for
\* spent into is asked for or waits, and no level within the depth is left out.
CompleteInv ==
    complete /\ failed = {} =>
        /\ \A a \in seen : Outputs(a) \subseteq seen \cup Range1(frontier) \cup Range1(next_frontier)
        /\ Within[depth] \subseteq seen \cup Range1(frontier)
        /\ depth > 0 => Within[depth - 1] \subseteq seen

\* The walk ends for one of three reasons.
EndInv ==
    IF done THEN /\ next_frontier = <<>>
                 /\ frontier = <<>> \/ budget_exhausted \/ depth = MaxDepth
    ELSE depth < MaxDepth

WalkInv == TypeOK /\ EndInv /\ AccountInv /\ ReachInv /\ CompleteInv

LEMMA HeadTailRange ==
    ASSUME NEW S, NEW q \in Seq(S), q # <<>>
    PROVE  /\ Head(q) \in S /\ Tail(q) \in Seq(S)
           /\ Range1(q) = {Head(q)} \cup Range1(Tail(q))
<1>1. /\ Len(q) \in Nat \ {0} /\ Head(q) = q[1] /\ Tail(q) \in Seq(S)
      /\ Len(Tail(q)) = Len(q) - 1 /\ \A i \in 1..(Len(q) - 1) : Tail(q)[i] = q[i + 1]
  OBVIOUS
<1>2. /\ Range1(q) = {q[i] : i \in 1..Len(q)}
      /\ Range1(Tail(q)) = {Tail(q)[i] : i \in 1..(Len(q) - 1)}
  BY <1>1, RangeIn
<1> DEFINE t == Tail(q)
<1> HIDE DEF t
<1>3. \A i \in 2..Len(q) : i - 1 \in 1..(Len(q) - 1) /\ q[i] = Tail(q)[i - 1]
  <2> TAKE i \in 2..Len(q)
  <2>1. i - 1 \in 1..(Len(q) - 1) /\ (i - 1) + 1 = i
    BY <1>1
  <2>. QED
    BY <1>1, <2>1
<1>4. Range1(q) \subseteq {Head(q)} \cup Range1(Tail(q))
  <2> SUFFICES ASSUME NEW i \in 1..Len(q) PROVE q[i] \in {Head(q)} \cup Range1(Tail(q))
    BY <1>2
  <2>1. i = 1 \/ i \in 2..Len(q)
    BY <1>1
  <2>. QED
    BY <1>1, <1>2, <1>3, <2>1
<1>5. {Head(q)} \cup Range1(Tail(q)) \subseteq Range1(q)
  <2>1. \A i \in 1..(Len(q) - 1) : i + 1 \in 1..Len(q) /\ Tail(q)[i] = q[i + 1]
    BY <1>1
  <2>2. 1 \in 1..Len(q)
    BY <1>1
  <2>. QED
    BY <1>1, <1>2, <2>1, <2>2
<1>. QED
  BY <1>1, <1>4, <1>5

\* What is derived from the chain stays as the chain does.
LEMMA ChainKept ==
    ASSUME UNCHANGED ledger
    PROVE  /\ Within' = Within
           /\ \A a : Page(a)' = Page(a) /\ Outputs(a)' = Outputs(a)
<1>1. Within' = Within
  BY DEF Spent, Involves, Range1, Page, Outputs, Within
<1>2. ASSUME NEW a PROVE Page(a)' = Page(a) /\ Outputs(a)' = Outputs(a)
  BY DEF Spent, Involves, Range1, Page, Outputs
<1>. QED
  BY <1>1, <1>2

LEMMA WalkBegins == Init => WalkInv
<1> SUFFICES ASSUME Init PROVE WalkInv
  OBVIOUS
<1>1. ledger \in LedgerType
  BY LedgerAssumption DEF Init, LedgerType
<1>2. <<Root>> \in Seq(Addresses) /\ <<>> \in Seq(Addresses) /\ Range1(<<Root>>) = {Root}
      /\ Range1(<<>>) = {}
  BY NormAssumption DEF Range1
<1>3. MaxDepth \in Nat /\ Within[0] = {Root}
  BY <1>1, WithinGrows
<1>4. TypeOK
  <2>1. budget_exhausted \in BOOLEAN /\ frontier_truncated \in BOOLEAN /\ done \in BOOLEAN
    BY DEF Init
  <2>2. /\ frontier \in Seq(Addresses) /\ next_frontier \in Seq(Addresses)
        /\ depth \in 0..MaxDepth /\ hops \in 0..MaxDepth /\ calls_made \in Nat
        /\ seen = {} /\ failed = {} /\ collected = {}
    BY <1>2, <1>3 DEF Init
  <2>. QED
    BY <1>1, <2>1, <2>2 DEF TypeOK, LedgerType
<1>5. EndInv
  <2>1. /\ done <=> MaxDepth = 0
        /\ next_frontier = <<>> /\ depth = 0
    BY DEF Init
  <2>. QED
    BY <1>3, <2>1 DEF EndInv
<1>6. AccountInv
  BY FS_EmptySet, BoundsAssumption DEF Init, AccountInv, CallsAccountedFor
<1>7. ReachInv
  BY <1>2, <1>3 DEF Init, ReachInv
<1>8. CompleteInv
  BY <1>2, <1>3 DEF Init, CompleteInv
<1>. QED
  BY <1>4, <1>5, <1>6, <1>7, <1>8 DEF WalkInv

LEMMA WalkStep == WalkInv /\ [Next]_vars => WalkInv'
<1> SUFFICES ASSUME WalkInv, [Next]_vars PROVE WalkInv'
  OBVIOUS
<1> DEFINE a == Head(frontier)
           rest == Tail(frontier)
<1>0. ledger \in LedgerType /\ TypeOK /\ MaxDepth \in Nat
  BY BoundsAssumption DEF WalkInv, TypeOK, LedgerType
<1>1. CASE UNCHANGED vars
  <2>1. UNCHANGED ledger
    BY <1>1 DEF vars
  <2>2. /\ Range1(frontier)' = Range1(frontier) /\ Range1(next_frontier)' = Range1(next_frontier)
        /\ complete' = complete
    BY <1>1 DEF vars, Range1, complete
  <2>3. TypeOK'
    BY <1>0, <1>1 DEF vars, TypeOK
  <2>4. EndInv'
    BY <1>1 DEF vars, WalkInv, EndInv
  <2>5. AccountInv'
    BY <1>1, <2>1, ChainKept DEF vars, WalkInv, AccountInv, CallsAccountedFor
  <2>6. ReachInv'
    BY <1>1, <2>1, <2>2, ChainKept DEF vars, WalkInv, ReachInv
  <2>7. CompleteInv'
    BY <1>1, <2>1, <2>2, ChainKept DEF vars, WalkInv, CompleteInv
  <2>. QED
    BY <2>3, <2>4, <2>5, <2>6, <2>7 DEF WalkInv
<1>2. ASSUME Running
      PROVE  /\ a \in Addresses /\ rest \in Seq(Addresses) /\ ~done /\ depth < MaxDepth
             /\ Range1(frontier) = {a} \cup Range1(rest)
  <2>1. frontier \in Seq(Addresses) /\ frontier # <<>>
    BY <1>0, <1>2 DEF TypeOK, Running
  <2>. QED
    BY <1>2, <2>1, HeadTailRange DEF Running
<1>3. CASE Skip
  <2>1. /\ Running /\ a \in seen /\ frontier' = rest
        /\ UNCHANGED <<ledger, next_frontier, seen, collected, depth, hops, calls_made, failed,
                       budget_exhausted, frontier_truncated, done>>
    BY <1>3 DEF Skip
  <2>2. /\ Range1(frontier)' = Range1(rest) /\ Range1(next_frontier)' = Range1(next_frontier)
        /\ complete' = complete
    BY <2>1 DEF Range1, complete
  <2> HIDE DEF a, rest
  <2>3. TypeOK'
    BY <1>0, <1>2, <2>1 DEF TypeOK
  <2>4. EndInv'
    BY <1>2, <2>1 DEF WalkInv, EndInv
  <2>5. AccountInv'
    BY <2>1, ChainKept DEF WalkInv, AccountInv, CallsAccountedFor
  <2>6. ReachInv'
    BY <1>2, <2>1, <2>2, ChainKept DEF WalkInv, ReachInv
  <2>7. CompleteInv'
    BY <1>2, <2>1, <2>2, ChainKept DEF WalkInv, CompleteInv
  <2>. QED
    BY <2>3, <2>4, <2>5, <2>6, <2>7 DEF WalkInv
<1>4. CASE StopAtBudget
  <2>1. /\ Running /\ budget_exhausted' = TRUE
        /\ UNCHANGED <<ledger, frontier, next_frontier, seen, collected, depth, hops, calls_made,
                       failed, frontier_truncated, done>>
    BY <1>4 DEF StopAtBudget, Expandable
  <2>2. /\ Range1(frontier)' = Range1(frontier) /\ Range1(next_frontier)' = Range1(next_frontier)
        /\ ~complete'
    BY <2>1 DEF Range1, complete
  <2>3. TypeOK'
    BY <1>0, <2>1 DEF TypeOK
  <2>4. EndInv'
    BY <2>1 DEF WalkInv, EndInv
  <2>5. AccountInv'
    BY <2>1, ChainKept DEF WalkInv, AccountInv, CallsAccountedFor
  <2>6. ReachInv'
    BY <2>1, <2>2, ChainKept DEF WalkInv, ReachInv
  <2>7. CompleteInv'
    BY <2>2 DEF CompleteInv
  <2>. QED
    BY <2>3, <2>4, <2>5, <2>6, <2>7 DEF WalkInv
<1>5. ASSUME Ask, seen' = seen \cup {a}
      PROVE  /\ Running /\ a \in Addresses /\ rest \in Seq(Addresses) /\ ~done /\ depth < MaxDepth
             /\ a \notin seen /\ a \in Within[depth]
             /\ Range1(frontier) = {a} \cup Range1(rest) /\ Range1(frontier)' = Range1(rest)
             /\ frontier' = rest
             /\ UNCHANGED <<ledger, depth, hops, budget_exhausted, frontier_truncated, done>>
             /\ calls_made' \in Nat
             /\ IsFiniteSet(seen)' /\ CallsAccountedFor' /\ EndInv'
  <2>1. /\ Running /\ a \notin seen /\ calls_made < Budget /\ calls_made' = calls_made + 1
        /\ frontier' = rest
        /\ UNCHANGED <<ledger, depth, hops, budget_exhausted, frontier_truncated, done>>
    BY <1>5 DEF Ask, Expandable
  <2> HIDE DEF a, rest
  <2>2. Range1(frontier)' = Range1(rest)
    BY <2>1 DEF Range1
  <2>3. a \in Within[depth]
    BY <1>2, <2>1 DEF WalkInv, ReachInv
  <2>4. IsFiniteSet(seen) /\ calls_made = Cardinality(seen) /\ calls_made \in Nat
    BY <1>0 DEF WalkInv, AccountInv, CallsAccountedFor, TypeOK
  <2>5. IsFiniteSet(seen \cup {a}) /\ Cardinality(seen \cup {a}) = Cardinality(seen) + 1
    BY <2>1, <2>4, FS_AddElement
  <2>6. IsFiniteSet(seen)' /\ CallsAccountedFor'
    BY <1>5, <2>1, <2>4, <2>5, BoundsAssumption DEF CallsAccountedFor
  <2>7. EndInv'
    BY <1>2, <2>1 DEF EndInv
  <2>. QED
    BY <1>2, <2>1, <2>2, <2>3, <2>4, <2>6, <2>7
<1>6. CASE Fetch
  <2> DEFINE now == seen \cup {a}
             next == Extend(next_frontier, a, now)
  <2>1. /\ Ask /\ seen' = now /\ collected' = collected \cup Range1(Page(a))
        /\ next_frontier' = next /\ UNCHANGED failed
    BY <1>6 DEF Fetch
  <2>2. /\ next \in Seq(Addresses)
        /\ Range1(next) = Range1(next_frontier) \cup (Outputs(a) \ now)
    BY <1>0, ExtendRange DEF TypeOK
  <2>3. Range1(next_frontier)' = Range1(next)
    BY <2>1 DEF Range1
  <2>4. Range1(Page(a)) \subseteq 1..Len(ledger)
    BY <1>0, PageShape
  <2>5. Page(a) \in Seq(1..Len(ledger)) /\ UNCHANGED <<ledger, depth>> /\ depth < MaxDepth
    BY <1>0, <1>5, <2>1, PageShape
  <2>6. depth + 1 \in 1..MaxDepth /\ (depth + 1) - 1 = depth
    BY <1>0, <2>5 DEF TypeOK
  <2>7. Outputs(a) \subseteq Within[depth + 1] /\ Within[depth] \subseteq Within[depth + 1]
    <3>1. Within[depth + 1] = Within[depth] \cup UNION {Outputs(b) : b \in Within[depth]}
      BY <1>0, <2>6, WithinGrows
    <3>. QED
      BY <1>5, <2>1, <3>1
  <2> HIDE DEF a, rest, next
  <2>8. TypeOK'
    BY <1>0, <1>5, <2>1, <2>2, <2>4 DEF TypeOK
  <2>9. AccountInv'
    <3>1. failed' \subseteq seen'
      BY <2>1 DEF WalkInv, AccountInv
    <3>2. failed' = {} => collected' = UNION {Range1(Page(b)) : b \in seen'}
      BY <2>1 DEF WalkInv, AccountInv
    <3>3. UNION {Range1(Page(b)) : b \in seen}' = UNION {Range1(Page(b)) : b \in seen'}
      BY <2>5, ChainKept DEF Range1
    <3>. QED
      BY <1>5, <2>1, <3>1, <3>2, <3>3 DEF AccountInv
  <2>10. ReachInv'
    <3>1. /\ seen' \subseteq Within[depth] /\ Range1(frontier)' \subseteq Within[depth]
          /\ Range1(next_frontier)' \subseteq Within[depth + 1]
      BY <1>5, <2>1, <2>2, <2>3, <2>5, <2>7 DEF WalkInv, ReachInv
    <3>2. Within' = Within
      BY <2>5, ChainKept
    <3>3. depth \in Nat /\ MaxDepth \in Nat
      BY <1>0 DEF TypeOK
    <3>. QED
      BY <2>5, <3>1, <3>2, <3>3 DEF ReachInv
  <2>11. CompleteInv'
    <3> SUFFICES ASSUME complete', failed' = {}
                 PROVE  /\ \A b \in seen' : Outputs(b)' \subseteq
                              seen' \cup Range1(frontier)' \cup Range1(next_frontier)'
                        /\ Within'[depth'] \subseteq seen' \cup Range1(frontier)'
                        /\ depth' > 0 => Within'[depth' - 1] \subseteq seen'
      BY DEF CompleteInv
    <3>1. complete /\ failed = {}
      BY <1>5, <2>1 DEF complete
    <3>2. Within' = Within /\ \A b : Outputs(b)' = Outputs(b)
      BY <2>5, ChainKept
    <3>3. \A b \in seen' : Outputs(b) \subseteq
             seen' \cup Range1(frontier)' \cup Range1(next_frontier)'
      BY <1>5, <2>1, <2>2, <2>3, <3>1 DEF WalkInv, CompleteInv
    <3>4. /\ Within[depth] \subseteq seen' \cup Range1(frontier)'
          /\ depth > 0 => Within[depth - 1] \subseteq seen'
      BY <1>5, <2>1, <3>1 DEF WalkInv, CompleteInv
    <3>. QED
      BY <2>5, <3>2, <3>3, <3>4
  <2>. QED
    BY <1>5, <2>1, <2>8, <2>9, <2>10, <2>11 DEF WalkInv
<1>7. CASE FetchFails
  <2>1. /\ Ask /\ seen' = seen \cup {a} /\ failed' = failed \cup {a}
        /\ UNCHANGED <<collected, next_frontier>>
    BY <1>7 DEF FetchFails
  <2>2. UNCHANGED <<ledger, depth>> /\ Range1(next_frontier)' = Range1(next_frontier)
    BY <1>5, <2>1 DEF Range1
  <2> HIDE DEF a, rest
  <2>3. TypeOK'
    BY <1>0, <1>5, <2>1 DEF TypeOK
  <2>4. AccountInv'
    BY <1>5, <2>1 DEF WalkInv, AccountInv
  <2>5. ReachInv'
    <3>1. /\ seen' \subseteq Within[depth] /\ Range1(frontier)' \subseteq Within[depth]
          /\ Range1(next_frontier)' \subseteq Within[depth + 1]
      BY <1>5, <2>1, <2>2 DEF WalkInv, ReachInv
    <3>2. Within' = Within
      BY <2>2, ChainKept
    <3>3. depth \in Nat /\ MaxDepth \in Nat /\ depth < MaxDepth
      BY <1>0, <1>5, <2>1 DEF TypeOK
    <3>. QED
      BY <2>2, <3>1, <3>2, <3>3 DEF ReachInv
  <2>6. CompleteInv'
    BY <2>1 DEF CompleteInv
  <2>. QED
    BY <1>5, <2>1, <2>3, <2>4, <2>5, <2>6 DEF WalkInv
<1>8. CASE EndLevel
  <2> DEFINE size == IF Len(next_frontier) > LevelCap THEN LevelCap ELSE Len(next_frontier)
             cut == SubSeq(next_frontier, 1, size)
  <2>1. /\ ~done /\ depth < MaxDepth /\ (frontier = <<>> \/ budget_exhausted)
        /\ frontier' = cut /\ next_frontier' = <<>> /\ depth' = depth + 1
        /\ frontier_truncated' = (frontier_truncated \/ Len(next_frontier) > LevelCap)
        /\ hops' = (IF next_frontier # <<>> THEN depth + 1 ELSE hops)
        /\ done' = (frontier' = <<>> \/ budget_exhausted \/ depth' = MaxDepth)
        /\ UNCHANGED <<ledger, seen, collected, calls_made, failed, budget_exhausted>>
    BY <1>8 DEF EndLevel
  <2>2. next_frontier \in Seq(Addresses) /\ LevelCap \in Nat /\ Len(next_frontier) \in Nat
    BY <1>0, BoundsAssumption DEF TypeOK, LevelCap
  <2>3. size \in 0..Len(next_frontier)
    BY <2>2
  <2>4. cut \in Seq(Addresses) /\ Len(cut) = size /\ \A i \in 1..size : cut[i] = next_frontier[i]
    <3> HIDE DEF size
    <3>. QED
      BY <2>2, <2>3
  <2>5. Range1(cut) \subseteq Range1(next_frontier)
        /\ (~ (Len(next_frontier) > LevelCap) => Range1(cut) = Range1(next_frontier))
    <3>1. /\ Range1(cut) = {cut[i] : i \in 1..size}
          /\ Range1(next_frontier) = {next_frontier[i] : i \in 1..Len(next_frontier)}
      <4> HIDE DEF cut
      <4>1. Range1(cut) = {cut[i] : i \in 1..Len(cut)}
        BY <2>4, RangeIn
      <4>2. Range1(next_frontier) = {next_frontier[i] : i \in 1..Len(next_frontier)}
        BY <2>2, RangeIn
      <4> HIDE DEF size
      <4>. QED
        BY <2>4, <4>1, <4>2
    <3>2. ~ (Len(next_frontier) > LevelCap) => size = Len(next_frontier)
      OBVIOUS
    <3> HIDE DEF cut, size
    <3>. QED
      BY <2>2, <2>3, <2>4, <3>1, <3>2
  <2>6. Range1(frontier)' = Range1(cut) /\ Range1(next_frontier)' = {}
    BY <2>1 DEF Range1
  <2>7. /\ depth \in Nat /\ depth + 1 \in 1..MaxDepth /\ (depth + 1) - 1 = depth
        /\ depth \in 0..MaxDepth
    BY <1>0, <2>1 DEF TypeOK
  <2> HIDE DEF cut, size
  <2>8. TypeOK'
    <3>1. hops' \in 0..MaxDepth /\ depth' \in 0..MaxDepth
      BY <1>0, <2>1, <2>7 DEF TypeOK
    <3>2. {budget_exhausted, frontier_truncated, done}' \subseteq BOOLEAN
      BY <1>0, <2>1 DEF TypeOK
    <3>3. frontier' \in Seq(Addresses) /\ next_frontier' \in Seq(Addresses)
      BY <2>1, <2>4
    <3>. QED
      BY <1>0, <2>1, <3>1, <3>2, <3>3 DEF TypeOK
  <2>9. EndInv'
    <3>1. done' <=> (frontier' = <<>> \/ budget_exhausted \/ depth' = MaxDepth)
      BY <2>1
    <3>2. depth' < MaxDepth \/ depth' = MaxDepth
      BY <1>0, <2>1, <2>7
    <3>. QED
      BY <2>1, <3>1, <3>2 DEF EndInv
  <2>10. AccountInv'
    BY <2>1, ChainKept DEF WalkInv, AccountInv, CallsAccountedFor
  <2>11. Within' = Within /\ \A b : Outputs(b)' = Outputs(b)
    BY <2>1, ChainKept
  <2>12. Within[depth + 1] = Within[depth] \cup UNION {Outputs(b) : b \in Within[depth]}
    BY <1>0, <2>7, WithinGrows
  <2>13. ReachInv'
    <3>1. /\ seen' \subseteq Within[depth + 1] /\ seen' \subseteq Within[depth]
          /\ Range1(frontier)' \subseteq Within[depth + 1]
      BY <2>1, <2>5, <2>6, <2>12 DEF WalkInv, ReachInv
    <3>. QED
      BY <2>1, <2>6, <2>7, <2>11, <3>1 DEF ReachInv
  <2>14. CompleteInv'
    <3> SUFFICES ASSUME complete', failed' = {}
                 PROVE  /\ \A b \in seen' : Outputs(b)' \subseteq
                              seen' \cup Range1(frontier)' \cup Range1(next_frontier)'
                        /\ Within'[depth'] \subseteq seen' \cup Range1(frontier)'
                        /\ depth' > 0 => Within'[depth' - 1] \subseteq seen'
      BY DEF CompleteInv
    <3>1. complete /\ failed = {} /\ ~budget_exhausted /\ ~ (Len(next_frontier) > LevelCap)
      BY <2>1 DEF complete
    <3>2. frontier = <<>> /\ Range1(frontier) = {}
      BY <2>1, <3>1 DEF Range1
    <3>3. Range1(frontier)' = Range1(next_frontier)
      BY <2>5, <2>6, <3>1
    <3>4. /\ \A b \in seen : Outputs(b) \subseteq seen \cup Range1(next_frontier)
          /\ Within[depth] \subseteq seen
      BY <3>1, <3>2 DEF WalkInv, CompleteInv
    <3>5. Within[depth + 1] \subseteq seen \cup Range1(next_frontier)
      BY <2>12, <3>4
    <3>. QED
      BY <2>1, <2>6, <2>7, <2>11, <3>3, <3>4, <3>5
  <2>. QED
    BY <2>8, <2>9, <2>10, <2>13, <2>14 DEF WalkInv
<1>. QED
  BY <1>1, <1>3, <1>4, <1>6, <1>7, <1>8 DEF Next

LEMMA WalkInvariant == Spec => []WalkInv
  BY WalkBegins, WalkStep, PTL DEF Spec

\* Where the walk ended with no address waiting, what was asked for is closed.
LEMMA ClosedIsAll ==
    ASSUME ledger \in LedgerType, Root \in seen, \A a \in seen : Outputs(a) \subseteq seen
    PROVE  \A d \in 0..MaxDepth : Within[d] \subseteq seen
<1> DEFINE T == {d \in Nat : d <= MaxDepth => Within[d] \subseteq seen}
<1>1. 0 \in T
  BY WithinGrows
<1>2. ASSUME NEW d \in Nat, d \in T PROVE d + 1 \in T
  <2> SUFFICES ASSUME d + 1 <= MaxDepth PROVE Within[d + 1] \subseteq seen
    OBVIOUS
  <2>1. d + 1 \in 1..MaxDepth /\ (d + 1) - 1 = d /\ d <= MaxDepth
    BY BoundsAssumption
  <2>2. Within[d + 1] = Within[d] \cup UNION {Outputs(a) : a \in Within[d]}
    BY <2>1, WithinGrows
  <2>. QED
    BY <1>2, <2>1, <2>2
<1> HIDE DEF T
<1>3. Nat \subseteq T
  BY <1>1, <1>2, NatInduct
<1>. QED
  BY <1>3, BoundsAssumption DEF T

LEMMA EndIsExact == WalkInv => WalkIsExact
<1> SUFFICES ASSUME WalkInv PROVE WalkIsExact
  OBVIOUS
<1>0. ledger \in LedgerType /\ TypeOK /\ MaxDepth \in Nat /\ depth \in 0..MaxDepth
  BY BoundsAssumption DEF WalkInv, TypeOK, LedgerType
<1>1. CallsAccountedFor
  BY DEF WalkInv, AccountInv
<1> SUFFICES ASSUME done, MaxDepth > 0
             PROVE  /\ seen \subseteq Within[MaxDepth - 1]
                    /\ complete /\ failed = {} =>
                          /\ seen = Within[MaxDepth - 1]
                          /\ collected = UNION {Range1(Page(a)) : a \in seen}
  BY <1>1 DEF WalkIsExact
<1>2. MaxDepth - 1 \in 0..MaxDepth
  BY <1>0
<1>3. seen \subseteq Within[MaxDepth - 1]
  <2>1. CASE depth = MaxDepth
    BY <2>1 DEF WalkInv, ReachInv
  <2>2. CASE depth # MaxDepth
    <3>1. MaxDepth - 1 \in depth..MaxDepth
      BY <1>0, <2>2
    <3>. QED
      BY <1>0, <3>1, WithinGrows DEF WalkInv, ReachInv
  <2>. QED
    BY <2>1, <2>2
<1>4. ASSUME complete, failed = {} PROVE Within[MaxDepth - 1] \subseteq seen
  <2>1. CASE depth = MaxDepth
    BY <1>4, <2>1 DEF WalkInv, CompleteInv
  <2>2. CASE depth # MaxDepth
    <3>1. frontier = <<>> /\ next_frontier = <<>>
      BY <1>4, <2>2 DEF WalkInv, EndInv, complete
    <3>2. Range1(frontier) = {} /\ Range1(next_frontier) = {}
      BY <3>1 DEF Range1
    <3>3. Within[depth] \subseteq seen /\ \A a \in seen : Outputs(a) \subseteq seen
      BY <1>4, <3>2 DEF WalkInv, CompleteInv
    <3>4. Root \in Within[depth]
      <4>1. depth \in 0..MaxDepth /\ 0 \in 0..MaxDepth
        BY <1>0
      <4>. QED
        BY <1>0, <4>1, WithinGrows
    <3>. QED
      BY <1>0, <1>2, <3>3, <3>4, ClosedIsAll
  <2>. QED
    BY <2>1, <2>2
<1>. QED
  BY <1>3, <1>4 DEF WalkInv, AccountInv

\* services/ingest.py, expand_money_flow: the walk's queues, sets and counters
\* keep their shape, and the depth and the hops it reports stay within MaxDepth.
THEOREM WalkTypeCorrect == Spec => []TypeOK
<1>1. WalkInv => TypeOK
  BY DEF WalkInv
<1>. QED
  BY <1>1, WalkInvariant, PTL

\* services/ingest.py, expand_money_flow: whatever the chain, the spelling, the
\* bounds and the failing calls, it asks once per address and within its budget,
\* asks for no address out of reach, and is exact where it reports complete.
THEOREM WalkAlwaysExact == Spec => []WalkIsExact
  BY WalkInvariant, EndIsExact, PTL
=============================================================================
