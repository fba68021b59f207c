---------------------------- MODULE InvestigationMC ----------------------------
(* Constants for TLC: a reported wallet, one behind it, a service with two *)
(* addresses, and intakes that write three transactions.                   *)
EXTENDS Investigation, TLC

CONSTANTS r, x, s, z, c1, c2

MCCaseRoot == (c1 :> r) @@ (c2 :> x)

Io(a, v) == [address |-> a, value |-> v]

Tx(id, ins, outs) == [txid |-> id, status |-> "success", inputs |-> ins, outputs |-> outs]

RtoX == Tx(1, <<Io(r, 4)>>, <<Io(x, 4)>>)
XtoS == Tx(2, <<Io(x, 2)>>, <<Io(s, 2)>>)
XtoZ == Tx(3, <<Io(x, 2)>>, <<Io(z, 2)>>)
ZtoS == Tx(4, <<Io(z, 2)>>, <<Io(s, 2)>>)
RtoS == Tx(5, <<Io(r, 2)>>, <<Io(s, 2)>>)

\* Both wallets pay both of the service's addresses, with change to one.
Joint == Tx(6, <<Io(r, 2), Io(x, 2), Io(r, 4)>>, <<Io(s, 4), Io(r, 2), Io(z, 2)>>)

\* A second token transfer of transaction 2, and one that was reverted.
Again == Tx(2, <<Io(x, 1)>>, <<Io(s, 1)>>)
Reverted == [RtoS EXCEPT !.status = "failed"]

MCLedgers ==
    {<<RtoX, XtoZ, ZtoS>>, <<XtoS, RtoX, RtoS>>, <<RtoX, Joint, Again>>, <<Reverted, RtoX, XtoS>>}

Tag(a, name, type, confidence, source) ==
    [address |-> a, name |-> name, type |-> type, confidence |-> confidence, source |-> source]

MCTagSets ==
    {{Tag(s, "E", "exchange", 2, "synthetic"), Tag(s, "E", "exchange", 1, "walletexplorer"),
      Tag(z, "E", "exchange", 2, "synthetic")},
     {Tag(s, "M", "mixer", 1, "graphsense"), Tag(s, "M", "sanctioned", 2, "ofac_sdn")},
     {Tag(z, "M", "mixer", 2, "graphsense"), Tag(s, "E", "exchange", 1, "synthetic")},
     {Tag(x, "G", "gambling", 1, "graphsense")},
     {Tag(r, "E", "exchange", 1, "synthetic")}}

MCClusterings ==
    {[a \in Addresses |-> IF a \in {s, z} THEN s ELSE NULL],
     [a \in Addresses |-> IF a \in {s, z, x} THEN x ELSE NULL]}
=============================================================================
