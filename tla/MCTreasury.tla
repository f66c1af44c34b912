----------------------------- MODULE MCTreasury -----------------------------
(***************************************************************************)
(* Treasury on a small instance: two payment ids, a deployer and a user,   *)
(* amounts 0 to 2 and a supply bound tight enough for mint to hit it.      *)
(***************************************************************************)
EXTENDS Treasury

CONSTANTS zero, vault, deployer, user, p1, p2

MCAddress == {zero, vault, deployer, user}
MCPaymentId == {p1, p2}
=============================================================================
