--------------------------- MODULE RedisAccounts ---------------------------
(***************************************************************************)
(* The Redis scripts that move an account's balance.  Redis runs a script  *)
(* atomically, so each one is a function of the account's hash             *)
(* [balance, prepaid].  An optional field of the account is a set of the   *)
(* accounts that have it, and a function that gives its value.  Balances   *)
(* stay within the range in which Lua's numbers are exact.                 *)
(***************************************************************************)
EXTENDS Integers

CONSTANTS
    Account,            \* the accounts of the node
    HasMinimum,         \* those with a min_balance
    MinBalance,
    HasSettlement,      \* those with both settle_threshold and settle_to
    SettleThreshold,
    SettleTo

ASSUME AccountAssumption ==
    /\ HasMinimum \subseteq Account
    /\ MinBalance \in [Account -> Int]
    /\ HasSettlement \subseteq Account
    /\ SettleThreshold \in [Account -> Int]
    /\ SettleTo \in [Account -> Int]

Hash == [balance : Int, prepaid : Nat]

\* An account as redis_insert_account writes it.
NewAccount == [balance |-> 0, prepaid |-> 0]

\* What the account holder has, as get_balance and every script report it.
Position(h) == h.balance + h.prepaid

WithinMinimumAnyway(h, a, amount) == TRUE

\* process_prepare: the error() that refuses the packet is the negation.
WithinMinimum(h, a, amount) ==
    a \in HasMinimum => Position(h) - amount >= MinBalance[a]

\* process_prepare: the prepaid amount is spent first.
ProcessPrepare(h, amount) ==
    CASE h.prepaid >= amount ->
            [h EXCEPT !.prepaid = @ - amount]
      [] h.prepaid < amount /\ h.prepaid > 0 ->
            [balance |-> h.balance - (amount - h.prepaid), prepaid |-> 0]
      [] OTHER ->
            [h EXCEPT !.balance = @ - amount]

\* process_reject: returned to the balance, wherever it was taken from.
ProcessReject(h, amount) == [h EXCEPT !.balance = @ + amount]

\* What a settling script returns: the account's hash afterwards, and the
\* amount to settle.
Kept(h) == [hash |-> h, amount |-> 0]
SettledDown(h, a) ==
    [hash |-> [h EXCEPT !.balance = SettleTo[a]], amount |-> h.balance - SettleTo[a]]

CanSettle(a) == a \in HasSettlement /\ SettleThreshold[a] > SettleTo[a]

ProcessFulfillKeepsBalance(h, a, amount) ==
    LET credited == [h EXCEPT !.balance = @ + amount]
    IN  IF CanSettle(a) /\ credited.balance >= SettleThreshold[a]
        THEN [SettledDown(credited, a) EXCEPT !.hash = credited]
        ELSE Kept(credited)

\* process_fulfill
ProcessFulfill(h, a, amount) ==
    LET credited == [h EXCEPT !.balance = @ + amount]
    IN  IF CanSettle(a) /\ credited.balance >= SettleThreshold[a]
        THEN SettledDown(credited, a)
        ELSE Kept(credited)

\* process_settle, the script of the delayed settlement
ProcessSettle(h, a) ==
    IF CanSettle(a) /\ h.balance >= SettleTo[a] THEN SettledDown(h, a) ELSE Kept(h)

\* process_incoming_settlement, once its idempotency key is known to be new:
\* a debt is paid off before anything is prepaid.
ProcessIncoming(h, amount) ==
    CASE h.balance >= 0 -> [h EXCEPT !.prepaid = @ + amount]
      [] h.balance < 0 /\ -h.balance >= amount -> [h EXCEPT !.balance = @ + amount]
      [] OTHER -> [balance |-> 0, prepaid |-> h.prepaid + (amount + h.balance)]

\* refund_settlement
RefundSettlement(h, amount) == [h EXCEPT !.balance = @ + amount]
=============================================================================
