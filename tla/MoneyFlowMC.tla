------------------------------ MODULE MoneyFlowMC ------------------------------
(* Constants for TLC: chains of three transactions over four addresses, one *)
(* of which an indexer spells in two ways.                                  *)
EXTENDS MoneyFlow, TLC

CONSTANTS root, x, y, z, X

MCNorm == [n \in Names |-> IF n = X THEN x ELSE n]

MCOutputs == {<<n>> : n \in Names} \cup {<<m, n>> : m, n \in Names}

\* More outputs than a level keeps.
MCWide == {<<x, X, x, x, y>>, <<y, y, X, x, z>>}

\* Chains whose first transaction spends the root's money, the second x's and
\* the third x's (in its other spelling) or y's.
MCLedgers ==
    {<<[inputs |-> {root}, outputs |-> o], [inputs |-> {n}, outputs |-> p],
       [inputs |-> {m}, outputs |-> <<q, z>>]>> :
        o \in MCOutputs \cup MCWide, p \in MCOutputs, q \in {root, z, X},
        n \in {x, X}, m \in {X, y}}
=============================================================================
