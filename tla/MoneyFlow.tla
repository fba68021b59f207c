------------------------------- MODULE MoneyFlow -------------------------------
(***************************************************************************)
(* expand_money_flow (services/ingest.py): the breadth-first walk of the   *)
(* money that left a reported address, against a connector that may fail   *)
(* at any call.  One action is one turn of the inner loop, or the end of a *)
(* level.                                                                  *)
(***************************************************************************)
EXTENDS Naturals, Sequences, FiniteSets

CONSTANTS
    Names,          \* addresses as indexers spell them
    Addresses,      \* normalised addresses
    Norm,           \* normalize_address: [Names -> Addresses]
    Root,           \* the reported address, normalised
    Ledgers,        \* chains to walk: functions 1..n -> [inputs, outputs]
    MaxDepth, MaxBreadth, Budget

ASSUME NormAssumption == Norm \in [Names -> Addresses] /\ Root \in Addresses
ASSUME BoundsAssumption ==
    MaxDepth \in Nat /\ MaxBreadth \in Nat \ {0} /\ Budget \in Nat \ {0}
ASSUME LedgerAssumption ==
    Ledgers \subseteq Seq([inputs : SUBSET Names, outputs : Seq(Names)])

VARIABLES
    ledger,         \* the chain, oldest transaction first; never changes
    frontier,       \* addresses of this level still to be looked at
    next_frontier,  \* what they spent into
    seen, collected, depth, hops, calls_made,
    failed,         \* addresses whose call raised ConnectorError (logged only)
    budget_exhausted, frontier_truncated,
    done

vars == <<ledger, frontier, next_frontier, seen, collected, depth, hops, calls_made,
          failed, budget_exhausted, frontier_truncated, done>>

-----------------------------------------------------------------------------
Range1(s) == {s[i] : i \in DOMAIN s}

\* The entries of s at the positions in keep, in order.
Kept(s, keep) ==
    LET upTo[n \in 0..Len(s)] ==
            IF n = 0 THEN <<>>
            ELSE IF n \in keep THEN Append(upTo[n - 1], s[n])
            ELSE upTo[n - 1]
    IN  upTo[Len(s)]

\* Slip: comparing the indexer's spelling with the normalised address.
SpentAsSpelled(t, a) == a \in ledger[t].inputs

Spent(t, a) == \E n \in ledger[t].inputs : Norm[n] = a

Involves(t, a) == Spent(t, a) \/ \E n \in Range1(ledger[t].outputs) : Norm[n] = a

\* get_transactions(address, limit = max_breadth): the newest ones, newest first.
Page(a) ==
    LET newest  == [i \in 1..Len(ledger) |-> Len(ledger) + 1 - i]
        history == Kept(newest, {i \in 1..Len(ledger) : Involves(newest[i], a)})
    IN  SubSeq(history, 1, IF Len(history) < MaxBreadth THEN Len(history) ELSE MaxBreadth)

\* Slip: the next level keeps the indexer's spelling.
OutputsAsSpelled(t, seenNow) ==
    LET outs == ledger[t].outputs
    IN  Kept(outs, {i \in DOMAIN outs : Norm[outs[i]] \notin seenNow})

\* The outputs of one transaction that join the next level.
NewOutputs(t, seenNow) ==
    LET norms == [i \in 1..Len(ledger[t].outputs) |-> Norm[ledger[t].outputs[i]]]
    IN  Kept(norms, {i \in DOMAIN norms : norms[i] \notin seenNow})

\* for tx in txs: the next level after the transactions of a.
Extend(level, a, seenNow) ==
    LET page == Page(a)
        upTo[n \in 0..Len(page)] ==
            IF n = 0 THEN level
            ELSE IF Spent(page[n], a) THEN upTo[n - 1] \o NewOutputs(page[n], seenNow)
            ELSE upTo[n - 1]
    IN  upTo[Len(page)]

-----------------------------------------------------------------------------
Running == ~done /\ ~budget_exhausted /\ depth < MaxDepth /\ frontier # <<>>

\* Slip: an address met before stays at the head of the level.
SkipInPlace == Running /\ Head(frontier) \in seen /\ UNCHANGED vars

\* if address in seen: continue
Skip ==
    /\ Running
    /\ Head(frontier) \in seen
    /\ frontier' = Tail(frontier)
    /\ UNCHANGED <<ledger, next_frontier, seen, collected, depth, hops, calls_made, failed,
                   budget_exhausted, frontier_truncated, done>>

Expandable == Running /\ Head(frontier) \notin seen

\* The budget is spent: the level ends here and so does the walk.
StopAtBudget ==
    /\ Expandable
    /\ calls_made >= Budget
    /\ budget_exhausted' = TRUE
    /\ UNCHANGED <<ledger, frontier, next_frontier, seen, collected, depth, hops, calls_made,
                   failed, frontier_truncated, done>>

Ask ==
    /\ Expandable
    /\ calls_made < Budget
    /\ calls_made' = calls_made + 1
    /\ frontier' = Tail(frontier)
    /\ UNCHANGED <<ledger, depth, hops, budget_exhausted, frontier_truncated, done>>

Fetch ==
    LET a == Head(frontier) IN
    /\ Ask
    /\ seen' = seen \cup {a}
    /\ collected' = collected \cup Range1(Page(a))
    /\ next_frontier' = Extend(next_frontier, a, seen')
    /\ UNCHANGED failed

\* Slip: an address whose call failed may be asked for again.
FetchFailsUnseen ==
    /\ Ask
    /\ failed' = failed \cup {Head(frontier)}
    /\ UNCHANGED <<seen, collected, next_frontier>>

\* ConnectorError: counted, logged, and the walk goes on.
FetchFails ==
    /\ Ask
    /\ seen' = seen \cup {Head(frontier)}
    /\ failed' = failed \cup {Head(frontier)}
    /\ UNCHANGED <<collected, next_frontier>>

LevelCap == 2 * MaxBreadth

\* Slip: a cut that is not recorded.
EndLevelSilently ==
    /\ ~done /\ depth < MaxDepth
    /\ frontier = <<>> \/ budget_exhausted
    /\ hops' = IF next_frontier # <<>> THEN depth + 1 ELSE hops
    /\ frontier' = SubSeq(next_frontier, 1,
          IF Len(next_frontier) > LevelCap THEN LevelCap ELSE Len(next_frontier))
    /\ next_frontier' = <<>>
    /\ depth' = depth + 1
    /\ done' = (frontier' = <<>> \/ budget_exhausted \/ depth' = MaxDepth)
    /\ UNCHANGED <<ledger, seen, collected, calls_made, failed, budget_exhausted,
                   frontier_truncated>>

\* The level is exhausted or the budget is: hops, the cap, and the next level
\* unless there is none to walk.
EndLevel ==
    /\ ~done /\ depth < MaxDepth
    /\ frontier = <<>> \/ budget_exhausted
    /\ hops' = IF next_frontier # <<>> THEN depth + 1 ELSE hops
    /\ frontier_truncated' = (frontier_truncated \/ Len(next_frontier) > LevelCap)
    /\ frontier' = SubSeq(next_frontier, 1,
          IF Len(next_frontier) > LevelCap THEN LevelCap ELSE Len(next_frontier))
    /\ next_frontier' = <<>>
    /\ depth' = depth + 1
    /\ done' = (frontier' = <<>> \/ budget_exhausted \/ depth' = MaxDepth)
    /\ UNCHANGED <<ledger, seen, collected, calls_made, failed, budget_exhausted>>

-----------------------------------------------------------------------------
Init ==
    /\ ledger \in Ledgers
    /\ frontier = <<Root>>
    /\ next_frontier = <<>>
    /\ seen = {} /\ collected = {} /\ failed = {}
    /\ depth = 0 /\ hops = 0 /\ calls_made = 0
    /\ budget_exhausted = FALSE /\ frontier_truncated = FALSE
    /\ done = (MaxDepth = 0)

Next == Skip \/ StopAtBudget \/ Fetch \/ FetchFails \/ EndLevel

\* A synchronous loop over calls that return or raise.
Spec == Init /\ [][Next]_vars /\ WF_vars(Next)

-----------------------------------------------------------------------------
(* Reference definitions *)

Outputs(a) ==
    {Norm[n] : n \in UNION {Range1(ledger[t].outputs) : t \in {u \in Range1(Page(a)) : Spent(u, a)}}}

\* The addresses at most d spends away from the root.
Within[d \in 0..MaxDepth] ==
    IF d = 0 THEN {Root} ELSE Within[d - 1] \cup UNION {Outputs(a) : a \in Within[d - 1]}

complete == ~(budget_exhausted \/ frontier_truncated)

-----------------------------------------------------------------------------
(* Properties *)

\* Every variable has the shape its definition says.
TypeOK ==
    /\ ledger \in Seq([inputs : SUBSET Names, outputs : Seq(Names)])
    /\ frontier \in Seq(Addresses) /\ next_frontier \in Seq(Addresses)
    /\ seen \subseteq Addresses /\ failed \subseteq Addresses
    /\ collected \subseteq 1..Len(ledger)
    /\ depth \in 0..MaxDepth /\ hops \in 0..MaxDepth /\ calls_made \in Nat
    /\ {budget_exhausted, frontier_truncated, done} \subseteq BOOLEAN

\* "One upstream call per address expanded", never more than the budget,
\* whatever cycles the money takes and whatever calls fail.
CallsAccountedFor == calls_made <= Budget /\ calls_made = Cardinality(seen)

\* No address is asked for twice; a walk that reports complete, and met no
\* failing call, has asked for exactly the addresses within reach and holds
\* every transaction they returned; any other walk has asked for some of them.
WalkIsExact ==
    /\ CallsAccountedFor
    /\ done /\ MaxDepth > 0 =>
          /\ seen \subseteq Within[MaxDepth - 1]
          /\ complete /\ failed = {} =>
                /\ seen = Within[MaxDepth - 1]
                /\ collected = UNION {Range1(Page(a)) : a \in seen}

\* The walk ends on every chain, cyclic ones included.
WalkEnds == <>done
=============================================================================
