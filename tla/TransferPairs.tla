----------------------------- MODULE TransferPairs -----------------------------
(***************************************************************************)
(* How a transaction becomes TRANSFERRED edges between addresses           *)
(* (_transfer_pairs and _WRITE_TX of services/graph_writer.py).  Amounts   *)
(* are whole units; a share that is no whole number is rounded down, where *)
(* the code keeps a fraction.                                              *)
(***************************************************************************)
EXTENDS Naturals, Sequences, FiniteSets, Functions

\* A reverted transaction consumes gas and moves nothing.
MovedValue(tx) == tx.status = "success"

\* What address a puts in, or gets out, over all the entries that name it.
Sum(entries, a) ==
    SumFunction([i \in {j \in DOMAIN entries : entries[j].address = a} |-> entries[i].value])

Total(entries) == SumFunction([i \in DOMAIN entries |-> entries[i].value])

Parties(entries) == {entries[i].address : i \in DOMAIN entries}

\* Each output split over the inputs in proportion, or evenly if they carry none.
Share(tx, from, to) ==
    IF Total(tx.inputs) > 0
    THEN (Sum(tx.outputs, to) * Sum(tx.inputs, from)) \div Total(tx.inputs)
    ELSE Sum(tx.outputs, to) \div Cardinality(Parties(tx.inputs))

\* Slip: change kept as a transfer to oneself.
PairsWithChange(tx) ==
    IF ~MovedValue(tx) THEN {}
    ELSE {[txid |-> tx.txid, from |-> p[1], to |-> p[2], attributed |-> Share(tx, p[1], p[2])] :
            p \in Parties(tx.inputs) \X Parties(tx.outputs)}

\* Change returning to the spender is no transfer.
Pairs(tx) ==
    IF ~MovedValue(tx) THEN {}
    ELSE {[txid |-> tx.txid, from |-> p[1], to |-> p[2], attributed |-> Share(tx, p[1], p[2])] :
            p \in {q \in Parties(tx.inputs) \X Parties(tx.outputs) : q[1] # q[2]}}

SameEdge(e, f) == e.txid = f.txid /\ e.from = f.from /\ e.to = f.to

\* MERGE on (from, to, txid), then SET: a later transfer replaces an equal one.
Merged(edges, tx) ==
    {e \in edges : \A f \in Pairs(tx) : ~SameEdge(e, f)} \cup Pairs(tx)
=============================================================================
