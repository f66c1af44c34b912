------------------------------- MODULE Ledger -------------------------------
(* The double-entry ledger Rafiki's backend keeps on PostgreSQL              *)
(* (packages/backend/src/accounting): operators on rows, the table           *)
(* ledgerTransfers as a function from transfer references to rows.           *)
(*                                                                           *)
(* A row's lapsed says that its expiresAt has passed.  Balances are not      *)
(* stored: they are sums over the rows.  A transfer error is only an error:  *)
(* every caller treats the different ones alike.                             *)
EXTENDS Integers, Sequences, FiniteSetsExt, Functions

CONSTANT AssetOf    \* the asset of every account reference; an asset has its own

\* An account is its reference and its type.
Liquidity(ref) == <<ref, "liquidity">>
Settlement(asset) == <<asset, "settlement">>
isSettlementAccount(a) == a[2] = "settlement"

Account == (DOMAIN AssetOf) \X {"liquidity", "settlement"}
Row == [debit : Account, credit : Account, amount : Nat,
        state : {"PENDING", "POSTED", "VOIDED"}, lapsed : BOOLEAN]

Posted(row) == row.state = "POSTED"

\* A hold counts until it is posted, voided or expired.
Pending(row) == row.state = "PENDING" /\ ~row.lapsed

SumOf(rows, refs) == SumFunctionOnSet([r \in DOMAIN rows |-> rows[r].amount], refs)
creditsPosted(rows, a) == SumOf(rows, {r \in DOMAIN rows : rows[r].credit = a /\ Posted(rows[r])})
creditsPending(rows, a) == SumOf(rows, {r \in DOMAIN rows : rows[r].credit = a /\ Pending(rows[r])})
debitsPosted(rows, a) == SumOf(rows, {r \in DOMAIN rows : rows[r].debit = a /\ Posted(rows[r])})
debitsPending(rows, a) == SumOf(rows, {r \in DOMAIN rows : rows[r].debit = a /\ Pending(rows[r])})

getBalance(rows, ref) ==
    LET a == Liquidity(ref) IN creditsPosted(rows, a) - debitsPosted(rows, a) - debitsPending(rows, a)
getTotalReceived(rows, ref) == creditsPosted(rows, Liquidity(ref))
getTotalSent(rows, ref) == debitsPosted(rows, Liquidity(ref))

-----------------------------------------------------------------------------
hasEnoughCreditBalance(rows, a, amount) ==
    \/ isSettlementAccount(a)
    \/ creditsPosted(rows, a) >= debitsPosted(rows, a) + debitsPending(rows, a) + amount

hasEnoughDebitBalance(rows, a, amount) ==
    \/ ~isSettlementAccount(a)
    \/ debitsPosted(rows, a) >= creditsPosted(rows, a) + creditsPending(rows, a) + amount

validateTransfer(rows, t) ==
    /\ t.amount > 0
    /\ t.credit # t.debit
    /\ AssetOf[t.credit[1]] = AssetOf[t.debit[1]]
    /\ t.ref \notin DOMAIN rows
    /\ hasEnoughDebitBalance(rows, t.credit, t.amount)
    /\ hasEnoughCreditBalance(rows, t.debit, t.amount)

\* A transfer with a timeout is a hold; one without is posted at once.
prepareTransfer(t) ==
    [debit |-> t.debit, credit |-> t.credit, amount |-> t.amount, lapsed |-> FALSE,
     state |-> IF t.timed THEN "PENDING" ELSE "POSTED"]

\* The rows once the transfers of the sequence ts are inserted.
inserted(rows, ts) ==
    [r \in DOMAIN rows \cup {ts[i].ref : i \in DOMAIN ts} |->
        IF r \in DOMAIN rows THEN rows[r]
        ELSE prepareTransfer(ts[CHOOSE i \in DOMAIN ts : ts[i].ref = r])]

\* Whether createTransfers finds no error: each transfer is validated against
\* the committed rows and the ones its own transaction has inserted before.
mayCreate(rows, ts) ==
    \A i \in DOMAIN ts : validateTransfer(inserted(rows, SubSeq(ts, 1, i - 1)), ts[i])

\* transferRef is unique: an insert that lost a race for it fails.
mayInsert(rows, ts) == \A i \in DOMAIN ts : ts[i].ref \notin DOMAIN rows

\* validateTransferStateUpdate, for every transfer of one updateTransferState.
mayUpdate(rows, refs) ==
    \A r \in refs : r \in DOMAIN rows /\ rows[r].state = "PENDING" /\ ~rows[r].lapsed

\* Mutant: a transfer that cannot be updated does not undo the others.
updateEach(rows, refs, state) ==
    [r \in DOMAIN rows |->
        IF r \in refs /\ mayUpdate(rows, {r}) THEN [rows[r] EXCEPT !.state = state] ELSE rows[r]]

\* postTransfers and voidTransfers: one transaction, all of the transfers or
\* none of them.
updateTransferState(rows, refs, state) ==
    IF mayUpdate(rows, refs)
    THEN [r \in DOMAIN rows |-> IF r \in refs THEN [rows[r] EXCEPT !.state = state] ELSE rows[r]]
    ELSE rows

\* Time passes the expiresAt of a hold.
lapse(rows, r) == [rows EXCEPT ![r].lapsed = TRUE]

-----------------------------------------------------------------------------
\* What createAccountToAccountTransfer creates between two liquidity accounts.
leg(ref, from, to, amount) ==
    [ref |-> ref, debit |-> Liquidity(from), credit |-> Liquidity(to), amount |-> amount,
     timed |-> TRUE]

buildCrossAssetTransfers(id, source, destination, sourceAmount, destinationAmount) ==
    << leg(<<id, 1>>, source, AssetOf[source], sourceAmount),
       leg(<<id, 2>>, AssetOf[destination], destination, destinationAmount) >>

\* The excess goes to the asset's liquidity account, or comes from it.
buildSameAssetTransfers(id, source, destination, sourceAmount, destinationAmount) ==
    LET both == IF destinationAmount < sourceAmount THEN destinationAmount ELSE sourceAmount
        first == << leg(<<id, 1>>, source, destination, both) >>
    IN  IF destinationAmount < sourceAmount
        THEN Append(first, leg(<<id, 2>>, source, AssetOf[source], sourceAmount - destinationAmount))
        ELSE IF sourceAmount < destinationAmount
        THEN Append(first, leg(<<id, 2>>, AssetOf[destination], destination,
                               destinationAmount - sourceAmount))
        ELSE first

buildTransfers(id, source, destination, sourceAmount, destinationAmount) ==
    IF AssetOf[source] = AssetOf[destination]
    THEN buildSameAssetTransfers(id, source, destination, sourceAmount, destinationAmount)
    ELSE buildCrossAssetTransfers(id, source, destination, sourceAmount, destinationAmount)

\* The checks createAccountToAccountTransfer makes before it creates anything.
mayTransfer(source, destination, sourceAmount, destinationAmount) ==
    source # destination /\ sourceAmount > 0 /\ destinationAmount > 0

refsOf(rows, id) == {r \in DOMAIN rows : r[1] = id}

createDeposit(ref, account, amount) ==
    << [ref |-> ref, debit |-> Settlement(AssetOf[account]), credit |-> Liquidity(account),
        amount |-> amount, timed |-> FALSE] >>
createWithdrawal(ref, account, amount, timed) ==
    << [ref |-> ref, debit |-> Liquidity(account), credit |-> Settlement(AssetOf[account]),
        amount |-> amount, timed |-> timed] >>
=============================================================================
