---------------------------- MODULE PayoutPromise ----------------------------
(***************************************************************************)
(* What the receiver promises on chain, without nodes, nonces or tasks: a  *)
(* packet may be fulfilled, and a fulfilled packet may be paid, once per   *)
(* payment id, to the recipient and for the amount of that packet.         *)
(***************************************************************************)
EXTENDS Sequences, Naturals

CONSTANTS
    Prepare,       \* the packets that may be fulfilled
    PaymentOf(_)   \* the payout a packet is worth: a record with a paymentId

VARIABLES
    fulfilled,     \* the packets fulfilled so far
    paid           \* the payouts made so far, in order

Init ==
    /\ fulfilled = {}
    /\ paid = <<>>

Fulfill(p) ==
    /\ fulfilled' = fulfilled \union {p}
    /\ UNCHANGED paid

Pay(p) ==
    /\ p \in fulfilled
    /\ \A k \in 1..Len(paid) : paid[k].paymentId # PaymentOf(p).paymentId
    /\ paid' = Append(paid, PaymentOf(p))
    /\ UNCHANGED fulfilled

Next == \E p \in Prepare : Fulfill(p) \/ Pay(p)

Spec == Init /\ [][Next]_<<fulfilled, paid>>
=============================================================================
