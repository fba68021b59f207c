----------------------------- MODULE ClusteringMC -----------------------------
(* Constants for TLC: two transactions with one or two inputs and outputs   *)
(* over three addresses, in either order or at one time; the first is spent *)
(* by 3, by 2 and 3, or twice by 2.  Address 1 is tagged.  And an account   *)
(* chain.                                                                   *)
EXTENDS Clustering

MCOutputs == {<<a>> : a \in Addresses}
                \cup {<<p[1], p[2]>> : p \in {q \in Addresses \X Addresses : q[1] < q[2]}}
MCSecond == {o \in MCOutputs : o[1] = 1 \/ Len(o) = 2}
MCFirst == {<<3>>, <<2, 3>>, <<2, 2>>}

MCLedgers ==
    {<<[chain |-> "BTC", time |-> 1, inputs |-> i, outputs |-> o],
       [chain |-> "BTC", time |-> s, inputs |-> j, outputs |-> p]>> :
        s \in {0, 1, 2}, i \in MCFirst, o \in MCOutputs, j \in MCOutputs, p \in MCSecond}
    \cup
    {<<[chain |-> "ETH", time |-> 1, inputs |-> <<a>>, outputs |-> <<b>>],
       [chain |-> "ETH", time |-> 2, inputs |-> <<b>>, outputs |-> <<c>>]>> :
        a \in Addresses, b \in Addresses, c \in Addresses}
=============================================================================
