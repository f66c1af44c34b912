------------------------------ MODULE MCSending ------------------------------
(* Small instances of Sending: two payments of one grant to receivers in     *)
(* another asset.                                                            *)
EXTENDS Sending

MCPayment == {"a", "b"}
MCIncomingOf == [a |-> "inA", b |-> "inB"]
MCAssetOf == [ref \in {"a", "b", "inA", "inB", "peer", "assetA", "assetB"} |->
                IF ref \in {"inA", "inB", "assetB"} THEN "assetB" ELSE "assetA"]

MCRequests == [a |-> {[fixed |-> "receive", amount |-> 2], [fixed |-> "incoming"]},
               b |-> {[fixed |-> "debit", amount |-> 6]}]

MCReceivers == [kind : {"LOCAL"}, incomingAmount : {NoValue, 2}, active : {TRUE}]
               \cup [kind : {"ILP"}, incomingAmount : {NoValue}, active : {TRUE}]

MCGrantLimit == [unit |-> "debit", value |-> 6]
=============================================================================
