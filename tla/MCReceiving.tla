----------------------------- MODULE MCReceiving -----------------------------
(* Small instances of Receiving: the payers' asset differs from the          *)
(* destination's, so every credit has two transfers.                         *)
EXTENDS Receiving

MCAssetOf == [ref \in {"peer", "outgoing", "assetA", "assetB", "dest"} |->
                IF ref \in {"assetB", "dest"} THEN "assetB" ELSE "assetA"]

MCAmounts == [peer |-> {1}, outgoing |-> {2}]
=============================================================================
