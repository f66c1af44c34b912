------------------------------- MODULE Sending -------------------------------
(* Outgoing payments of Rafiki's backend (packages/backend/src): quoted,     *)
(* created under a grant, funded by the account servicing entity, sent by a  *)
(* worker as ILP packets or one local transfer, retried, and what is left of *)
(* them withdrawn.                                                           *)
(*                                                                           *)
(* A funding call or a worker holds the payment's row lock from its read to  *)
(* its commit; the ledger and the packets know nothing of that lock, so what *)
(* they did stays when the transaction is rolled back.                       *)
EXTENDS Ledger, Quoting

CONSTANTS
    Payment,
    Packet,         \* ILP packets and local transfers
    IncomingOf,     \* the ledger account of a payment's local receiver
    Requests,       \* what quotes of a payment are asked for
    Funders,        \* the payments their account servicing entity funds
    Receivers,      \* kinds of receivers
    GrantLimit,     \* the grant's limit: of "debit" or of "receive", and its value
    PacketAmounts,  \* what an ILP packet may carry
    Funds,          \* the liquidity of the receiver's asset
    MaxAttempts,    \* maxOutgoingPaymentRetryAttempts
    MaxFaults       \* bound on processes that die

VARIABLES
    rows,       \* ledgerTransfers
    receiver,   \* the incoming payments, local or remote
    quote,      \* quotes
    pay,        \* outgoingPayments: state and stateAttempts
    work,       \* who holds the payment's row, and what it has read
    pkt,        \* packets in the connector, local transfers
    events,     \* the event written when a payment ends
    faults,
    stale       \* payments retried with packets outstanding

vars == <<rows, receiver, quote, pay, work, pkt, events, faults, stale>>

Idle == [at |-> "idle"]
Ended == {"COMPLETED", "FAILED"}
unlocked(p) == work[p] = Idle

\* Payments, quotes, workers, packets and events hold values of their types; no
\* payment is retried more often than configured.
TypeOK ==
    /\ rows \in [DOMAIN rows -> Row]
    /\ receiver \in [Payment -> [kind : {"LOCAL", "ILP"}, incomingAmount : Nat \cup {NoValue},
                                 active : BOOLEAN]]
    /\ quote \in [Payment -> {NoValue} \cup
                    [debitAmount : Nat, debitAmountMinusFees : Nat, receiveAmount : Nat,
                     expired : BOOLEAN]]
    /\ pay \in [Payment -> [state : {"NONE", "FUNDING", "SENDING", "CANCELLED"} \cup Ended,
                            attempts : 0..(MaxAttempts - 1)]]
    /\ work \in [Payment -> {Idle} \cup [at : {"funding"}]
                    \cup [at : {"locked"}, active : BOOLEAN, received : Nat]
                    \cup [at : {"paying"}, debit : Nat, receive : Nat, open : SUBSET Packet]]
    /\ pkt \in [Packet -> {Idle} \cup
                    [at : {"held", "fulfilled", "rejected", "over", "dead"},
                     of : Payment, source : Nat, dest : Nat, delivered : BOOLEAN]]
    /\ events \in [Payment -> {NoValue} \cup [amount : Int, held : Nat, late : BOOLEAN]]
    /\ faults \in 0..MaxFaults
    /\ stale \subseteq Payment

Init ==
    /\ rows = inserted([r \in {} |-> Idle], createDeposit(<<"assetB", 0>>, "assetB", Funds))
    /\ \E r \in Receivers : receiver = [p \in Payment |-> r]
    /\ quote = [p \in Payment |-> NoValue]
    /\ pay = [p \in Payment |-> [state |-> "NONE", attempts |-> 0]]
    /\ work = [p \in Payment |-> Idle]
    /\ pkt = [k \in Packet |-> Idle]
    /\ events = [p \in Payment |-> NoValue]
    /\ faults = 0
    /\ stale = {}

\* Packets are taken in a fixed order.
isNext(k) == pkt[k] = Idle /\ k = CHOOSE j \in Packet : pkt[j] = Idle
packetsOf(p) == {k \in Packet : pkt[k] # Idle /\ pkt[k].of = p}
sumOf(field, ks) == MapThenSumSet(LAMBDA k : pkt[k][field], ks)
isLocal(p) == receiver[p].kind = "LOCAL"

\* What the receiver has: the ledger's total of a local incoming payment, what
\* was delivered to a remote one.
receivedAmount(p) ==
    IF isLocal(p) THEN getTotalReceived(rows, IncomingOf[p])
    ELSE sumOf("dest", {k \in packetsOf(p) : pkt[k].delivered})

-----------------------------------------------------------------------------
(* Quotes, creation and the grant.                                           *)

quoteFor(p, request) ==
    /\ quote[p] = NoValue
    /\ receiver[p].active
    /\ quotable(request, receiver[p].incomingAmount, receivedAmount(p))
    /\ LET q == createQuote(request, receiver[p].incomingAmount)
       IN  quote' = [quote EXCEPT ![p] =
               [debitAmount |-> q.debitAmount, debitAmountMinusFees |-> q.debitAmountMinusFees,
                receiveAmount |-> q.receiveAmount, expired |-> FALSE]]
    /\ UNCHANGED <<rows, receiver, pay, work, pkt, events, faults, stale>>

\* An expiry before the payment is funded, or while a worker holds it, is the
\* same to the next worker; one before it is created leaves it uncreated.
QuoteExpires(p) ==
    /\ pay[p].state = "SENDING" /\ unlocked(p)
    /\ ~quote[p].expired
    /\ quote' = [quote EXCEPT ![p].expired = TRUE]
    /\ UNCHANGED <<rows, receiver, pay, work, pkt, events, faults, stale>>

\* Mutant: a failed payment spent nothing of the grant.
grantSpentNothing(q) ==
    IF pay[q].state \in {"FAILED", "CANCELLED", "NONE"} THEN [debit |-> 0, receive |-> 0]
    ELSE [debit |-> quote[q].debitAmount, receive |-> quote[q].receiveAmount]

\* What another payment of the grant counts for: a failed one for what it sent,
\* withdrawals included, and for an estimate of what was delivered.
grantSpent(q) ==
    IF pay[q].state = "NONE" THEN [debit |-> 0, receive |-> 0]
    ELSE IF pay[q].state \in {"FAILED", "CANCELLED"}
    THEN LET sent == getTotalSent(rows, q)
         IN  [debit |-> sent,
              receive |-> (quote[q].receiveAmount * sent) \div quote[q].debitAmount]
    ELSE [debit |-> quote[q].debitAmount, receive |-> quote[q].receiveAmount]

\* validateGrantAndAddSpentAmountsToPayment, under the grant's row lock.
withinGrant(p) ==
    LET spent(unit) == MapThenSumSet(LAMBDA q : grantSpent(q)[unit], Payment \ {p})
    IN  IF GrantLimit.unit = "debit"
        THEN quote[p].debitAmount <= GrantLimit.value - spent("debit")
        ELSE quote[p].receiveAmount <= GrantLimit.value - spent("receive")

\* The payment takes the quote's id, so a quote is used once.
createOutgoingPayment(p) ==
    /\ pay[p].state = "NONE"
    /\ quote[p] # NoValue /\ ~quote[p].expired
    /\ receiver[p].active
    /\ withinGrant(p)
    /\ pay' = [pay EXCEPT ![p].state = "FUNDING"]
    /\ UNCHANGED <<rows, receiver, quote, work, pkt, events, faults, stale>>

cancelOutgoingPayment(p) ==
    /\ unlocked(p)
    /\ pay[p].state = "FUNDING"
    /\ pay' = [pay EXCEPT ![p].state = "CANCELLED"]
    /\ UNCHANGED <<rows, receiver, quote, work, pkt, events, faults, stale>>

-----------------------------------------------------------------------------
(* Funding: the deposit is a transaction of its own.                         *)

\* Mutant: the deposit has an id of its own.
depositFresh(p) == createDeposit(<<p, faults>>, p, quote[p].debitAmount)

\* The id of the created event is the transfer's.
deposit(p) == createDeposit(<<p, 0>>, p, quote[p].debitAmount)

\* depositEventLiquidity, depositOutgoingPaymentLiquidity: an error of the
\* deposit is the call's answer and changes nothing.
fundPayment(p) ==
    /\ p \in Funders
    /\ unlocked(p)
    /\ pay[p].state = "FUNDING"
    /\ mayCreate(rows, deposit(p))
    /\ rows' = inserted(rows, deposit(p))
    /\ work' = [work EXCEPT ![p] = [at |-> "funding"]]
    /\ UNCHANGED <<receiver, quote, pay, pkt, events, faults, stale>>

CommitFunding(p) ==
    /\ work[p].at = "funding"
    /\ pay' = [pay EXCEPT ![p].state = "SENDING"]
    /\ work' = [work EXCEPT ![p] = Idle]
    /\ UNCHANGED <<rows, receiver, quote, pkt, events, faults, stale>>

-----------------------------------------------------------------------------
(* The worker.                                                               *)

\* Packets of a payment that are still under way in the connector.
outstanding(p) == {k \in packetsOf(p) : pkt[k].at \in {"held", "fulfilled", "rejected"}}

\* Mutant: the event offers what is held as well.
finishWithHolds(p, state) ==
    /\ pay' = [pay EXCEPT ![p] = [state |-> state, attempts |-> 0]]
    /\ events' = [events EXCEPT ![p] =
         [amount |-> getTotalReceived(rows, p) - getTotalSent(rows, p),
          held |-> debitsPending(rows, Liquidity(p)), late |-> outstanding(p) # {}]]
    /\ work' = [work EXCEPT ![p] = Idle]

\* handleCompleted, handleFailed: the new state and, from the ledger's balance
\* at this point, the event with the withdrawal of what is left.
finish(p, state) ==
    /\ pay' = [pay EXCEPT ![p] = [state |-> state, attempts |-> 0]]
    /\ events' = [events EXCEPT ![p] =
         [amount |-> getBalance(rows, p), held |-> debitsPending(rows, Liquidity(p)),
          late |-> outstanding(p) # {}]]
    /\ work' = [work EXCEPT ![p] = Idle]

\* Mutant: an error that can be retried is, without end.
onLifecycleErrorForever(p, retryable) ==
    IF retryable
    THEN work' = [work EXCEPT ![p] = Idle] /\ UNCHANGED <<pay, events>>
    ELSE finish(p, "FAILED")

\* Mutant: one attempt too many.
onLifecycleErrorOnceMore(p, retryable) ==
    IF retryable /\ pay[p].attempts < MaxAttempts
    THEN /\ pay' = [pay EXCEPT ![p].attempts = @ + 1]
         /\ work' = [work EXCEPT ![p] = Idle]
         /\ UNCHANGED events
    ELSE finish(p, "FAILED")

onLifecycleError(p, retryable) ==
    IF retryable /\ pay[p].attempts + 1 < MaxAttempts
    THEN /\ pay' = [pay EXCEPT ![p].attempts = @ + 1]
         /\ work' = [work EXCEPT ![p] = Idle]
         /\ UNCHANGED events
    ELSE finish(p, "FAILED")

\* A worker locks the payment, fails it if its quote has expired, and otherwise
\* asks for the receiver.
getPendingPayment(p) ==
    /\ pay[p].state = "SENDING"
    /\ unlocked(p)
    /\ IF quote[p].expired THEN onLifecycleError(p, FALSE)
       ELSE /\ work' = [work EXCEPT ![p] = [at |-> "locked", active |-> receiver[p].active,
                                            received |-> receivedAmount(p)]]
            /\ UNCHANGED <<pay, events>>
    /\ UNCHANGED <<rows, receiver, quote, pkt, faults, stale>>

\* Mutant: a retry starts from the quote's amounts.
adjustedAmountsFresh(p) ==
    [debit |-> quote[p].debitAmount - getTotalSent(rows, p), receive |-> quote[p].receiveAmount]

\* getAdjustedAmounts: what the ledger says was sent is taken off both amounts,
\* and the receiver takes no more than it still wants.
getAdjustedAmounts(p) ==
    LET sent == getTotalSent(rows, p)
        receive == quote[p].receiveAmount - ceilDiv(sent * RateNum, RateDen)
        rest == remaining(receiver[p].incomingAmount, work[p].received)
    IN  [debit |-> quote[p].debitAmount - sent,
         receive |-> IF rest # NoValue /\ rest < receive THEN rest ELSE receive]

\* handleSending once the receiver has answered: the payment is done already,
\* or pay is called with what remains.
handleSending(p) ==
    /\ work[p].at = "locked"
    /\ LET amounts == getAdjustedAmounts(p)
       IN  IF ~work[p].active \/ amounts.receive <= 0 THEN finish(p, "COMPLETED")
           ELSE IF amounts.debit <= 0 THEN onLifecycleError(p, FALSE)
           ELSE /\ work' = [work EXCEPT ![p] =
                     [at |-> "paying", debit |-> amounts.debit, receive |-> amounts.receive,
                      open |-> {}]]
                /\ UNCHANGED <<pay, events>>
    /\ stale' = IF outstanding(p) # {} THEN stale \cup {p} ELSE stale
    /\ UNCHANGED <<rows, receiver, quote, pkt, faults>>

\* The payment method is done: the receipt has no error, the transfer is posted.
PayEnds(p) ==
    /\ work[p].at = "paying"
    /\ work[p].receive = 0 /\ work[p].open = {}
    /\ finish(p, "COMPLETED")
    /\ UNCHANGED <<rows, receiver, quote, pkt, faults, stale>>

\* The STREAM sender gives up, without waiting for the packets it takes for lost.
PayFails(p, retryable) ==
    /\ work[p].at = "paying"
    /\ ~isLocal(p)
    /\ onLifecycleError(p, retryable)
    /\ UNCHANGED <<rows, receiver, quote, pkt, faults, stale>>

\* The process dies: the transaction is rolled back, its packets' handlers stop.
Crash(p) ==
    /\ ~unlocked(p)
    /\ faults < MaxFaults
    /\ faults' = faults + 1
    /\ work' = [work EXCEPT ![p] = Idle]
    /\ pkt' = [k \in Packet |->
                 IF work[p].at = "paying" /\ k \in work[p].open THEN [pkt[k] EXCEPT !.at = "dead"]
                 ELSE pkt[k]]
    /\ UNCHANGED <<rows, receiver, quote, pay, events, stale>>

-----------------------------------------------------------------------------
(* Local payments.                                                           *)

started(p, k, source, dest) ==
    [pkt EXCEPT ![k] = [at |-> "held", of |-> p, source |-> source, dest |-> dest, delivered |-> FALSE]]

\* An incoming payment that has received its amount is complete.
active(p, more) ==
    /\ receiver[p].active
    /\ receiver[p].incomingAmount = NoValue \/ receivedAmount(p) + more < receiver[p].incomingAmount

\* One transfer of everything; what goes wrong is not retried.
PayLocal(p, k) ==
    /\ work[p].at = "paying" /\ isLocal(p)
    /\ work[p].receive > 0 /\ work[p].open = {}
    /\ isNext(k)
    /\ LET source == quote[p].debitAmountMinusFees
           dest == work[p].receive
           ts == buildTransfers(k, p, IncomingOf[p], source, dest)
       IN  IF receiver[p].active /\ mayTransfer(p, IncomingOf[p], source, dest) /\ mayCreate(rows, ts)
           THEN /\ rows' = inserted(rows, ts)
                /\ pkt' = started(p, k, source, dest)
                /\ work' = [work EXCEPT ![p].open = {k}]
                /\ UNCHANGED <<pay, events>>
           ELSE onLifecycleError(p, FALSE) /\ UNCHANGED <<rows, pkt>>
    /\ UNCHANGED <<receiver, quote, faults, stale>>

PostLocal(p, k) ==
    /\ work[p].at = "paying" /\ isLocal(p)
    /\ k \in work[p].open
    /\ rows' = updateTransferState(rows, refsOf(rows, k), "POSTED")
    /\ IF mayUpdate(rows, refsOf(rows, k))
       THEN /\ pkt' = [pkt EXCEPT ![k].at = "over", ![k].delivered = TRUE]
            /\ receiver' = [receiver EXCEPT ![p].active = active(p, pkt[k].dest)]
            /\ work' = [work EXCEPT ![p].receive = 0, ![p].open = {}]
            /\ UNCHANGED <<pay, events>>
       ELSE /\ pkt' = [pkt EXCEPT ![k].at = "over"]
            /\ onLifecycleError(p, FALSE)
            /\ UNCHANGED receiver
    /\ UNCHANGED <<quote, faults, stale>>

-----------------------------------------------------------------------------
(* ILP packets: the balance middleware around the connector's next hop.      *)

\* The STREAM sender sends what its amounts allow.  The balance check and the
\* insert of the hold are one step here: the sender's own amounts keep the
\* packets of one attempt within the balance, and it gives up on a packet only
\* after the packet's expiry, long after the hold was placed.  (A packet whose
\* hold is refused is rejected at once and changes nothing.)
SendPacket(p, k, amount) ==
    /\ work[p].at = "paying" /\ ~isLocal(p)
    /\ isNext(k)
    /\ amount <= work[p].debit /\ convertSource(amount) <= work[p].receive
    /\ LET ts == buildTransfers(k, p, "peer", amount, amount)
       IN  mayCreate(rows, ts) /\ rows' = inserted(rows, ts)
    /\ pkt' = started(p, k, amount, convertSource(amount))
    /\ work' = [work EXCEPT ![p].debit = @ - amount,
                            ![p].receive = @ - convertSource(amount),
                            ![p].open = @ \cup {k}]
    /\ UNCHANGED <<receiver, quote, pay, events, faults, stale>>

\* The receiver fulfills a packet of a held transfer, whether or not somebody
\* here still waits for the answer.
Deliver(k) ==
    /\ pkt[k].at \in {"held", "dead"} /\ ~pkt[k].delivered /\ ~isLocal(pkt[k].of)
    /\ receiver[pkt[k].of].active
    /\ pkt' = [pkt EXCEPT ![k].delivered = TRUE,
                          ![k].at = IF @ = "held" THEN "fulfilled" ELSE @]
    /\ receiver' = [receiver EXCEPT ![pkt[k].of].active = active(pkt[k].of, pkt[k].dest)]
    /\ UNCHANGED <<rows, quote, pay, work, events, faults, stale>>

\* The receiver, a hop or a timeout rejects the packet.
Reject(k) ==
    /\ pkt[k].at = "held" /\ ~isLocal(pkt[k].of)
    /\ pkt' = [pkt EXCEPT ![k].at = "rejected"]
    /\ UNCHANGED <<rows, receiver, quote, pay, work, events, faults, stale>>

\* Mutant: a packet that was not fulfilled is posted all the same.
settleAlways(k) == updateTransferState(rows, refsOf(rows, k), "POSTED")

settled(k) ==
    updateTransferState(rows, refsOf(rows, k), IF pkt[k].at = "fulfilled" THEN "POSTED" ELSE "VOIDED")

\* post or void, whose errors are ignored, and the answer to the STREAM sender,
\* if it still waits.
Settle(k) ==
    /\ pkt[k].at \in {"fulfilled", "rejected"}
    /\ rows' = settled(k)
    /\ pkt' = [pkt EXCEPT ![k].at = "over"]
    /\ LET p == pkt[k].of
       IN  work' = IF work[p].at = "paying" /\ k \in work[p].open
                   THEN [work EXCEPT ![p] =
                          IF pkt[k].at = "fulfilled" THEN [@ EXCEPT !.open = @ \ {k}]
                          ELSE [@ EXCEPT !.open = @ \ {k}, !.debit = @ + pkt[k].source,
                                         !.receive = @ + pkt[k].dest]]
                   ELSE work
    /\ UNCHANGED <<receiver, quote, pay, events, faults, stale>>

\* The timeout of a hold, the legs in the order of their creation.
HoldLapses(r) ==
    /\ Pending(rows[r])
    /\ r[2] = 2 => rows[<<r[1], 1>>].lapsed
    /\ rows' = lapse(rows, r)
    /\ UNCHANGED <<receiver, quote, pay, work, pkt, events, faults, stale>>

\* The incoming payment expires or is completed by its owner; nothing but a
\* worker asks.
ReceiverCloses(p) ==
    /\ pay[p].state = "SENDING"
    /\ receiver[p].active
    /\ receiver' = [receiver EXCEPT ![p].active = FALSE]
    /\ UNCHANGED <<rows, quote, pay, work, pkt, events, faults, stale>>

-----------------------------------------------------------------------------
(* Withdrawal of what is left, under the id of the event.                    *)
withdrawalOf(p, amount, timed) == createWithdrawal(<<p, 1>>, p, amount, timed)

withdraw(p, amount, timed) ==
    /\ amount # 0
    /\ mayCreate(rows, withdrawalOf(p, amount, timed))
    /\ rows' = inserted(rows, withdrawalOf(p, amount, timed))
    /\ UNCHANGED <<receiver, quote, pay, work, pkt, events, faults, stale>>

withdrawEventLiquidity(p) == events[p] # NoValue /\ withdraw(p, events[p].amount, FALSE)
createOutgoingPaymentWithdrawal(p) == events[p] # NoValue /\ withdraw(p, getBalance(rows, p), TRUE)

\* postLiquidityWithdrawal, voidLiquidityWithdrawal.
UpdateWithdrawal(p, state) ==
    /\ mayUpdate(rows, {<<p, 1>>})
    /\ rows' = updateTransferState(rows, {<<p, 1>>}, state)
    /\ UNCHANGED <<receiver, quote, pay, work, pkt, events, faults, stale>>

-----------------------------------------------------------------------------
WorkerStep(p) ==
    \/ getPendingPayment(p) \/ handleSending(p) \/ PayEnds(p)
    \/ PayFails(p, TRUE) \/ PayFails(p, FALSE)
    \/ \E k \in Packet : \/ \E amount \in PacketAmounts : SendPacket(p, k, amount)
                         \/ PayLocal(p, k) \/ PostLocal(p, k)

Next ==
    \/ \E p \in Payment :
         \/ \E request \in Requests[p] : quoteFor(p, request)
         \/ QuoteExpires(p) \/ createOutgoingPayment(p) \/ cancelOutgoingPayment(p)
         \/ fundPayment(p) \/ CommitFunding(p)
         \/ WorkerStep(p) \/ Crash(p) \/ ReceiverCloses(p)
         \/ withdrawEventLiquidity(p) \/ createOutgoingPaymentWithdrawal(p)
         \/ UpdateWithdrawal(p, "POSTED") \/ UpdateWithdrawal(p, "VOIDED")
    \/ \E k \in Packet : Deliver(k) \/ Reject(k) \/ Settle(k)
    \/ \E r \in DOMAIN rows : HoldLapses(r)

Spec == Init /\ [][Next]_vars /\ \A p \in Payment : WF_vars(WorkerStep(p))

-----------------------------------------------------------------------------
posted(k) == refsOf(rows, k) # {} /\ \A r \in refsOf(rows, k) : Posted(rows[r])
sentOf(p) == {k \in packetsOf(p) : posted(k)}
withdrawn(p) ==
    LET r == <<p, 1>>
    IN  IF r \in DOMAIN rows /\ (Posted(rows[r]) \/ Pending(rows[r])) THEN rows[r].amount ELSE 0

\* A payment is funded once, with its debit amount, however often the call is
\* repeated after it died between the deposit and its commit; no payment is
\* sent that was not, a cancelled one was not unless such a call died, and none
\* spends or holds more than that, retries after a crash and withdrawals beside
\* outstanding packets included.
FundedOnce ==
    \A p \in Payment :
        LET total == getTotalReceived(rows, p)
        IN  /\ total \in {0} \cup (IF quote[p] = NoValue THEN {} ELSE {quote[p].debitAmount})
            /\ pay[p].state \in {"SENDING"} \cup Ended => total > 0
            /\ pay[p].state = "CANCELLED" /\ faults = 0 => total = 0
            /\ getBalance(rows, p) >= 0

\* What the payments of a grant have sent, and what the ones that have not
\* failed may send, stays within its debit limit: a failed payment makes room
\* only for what it did not send - unless it failed with packets outstanding,
\* which nobody counts.
GrantWithinLimit ==
    LET committed(p) ==
          IF pay[p].state \in {"NONE", "CANCELLED", "FAILED"} THEN sumOf("source", sentOf(p))
          ELSE quote[p].debitAmount
    IN  GrantLimit.unit = "debit" /\ (\A p \in Payment : events[p] # NoValue => ~events[p].late) =>
            MapThenSumSet(committed, Payment) <= GrantLimit.value

\* A payment that is retried, after an error or a crash at any point, does not
\* pay for the quoted amount twice: what its account paid for never exceeds the
\* receive amount, unless a retry started with packets outstanding.  A completed
\* payment has delivered that amount, unless its receiver takes no more.
NeverPaysTwice ==
    \A p \in Payment : quote[p] # NoValue =>
        /\ p \notin stale => sumOf("dest", sentOf(p)) <= quote[p].receiveAmount
        /\ pay[p].state = "COMPLETED" /\ receiver[p].active =>
             sumOf("dest", {k \in packetsOf(p) : pkt[k].delivered}) >= quote[p].receiveAmount

\* The ledger and the receiver agree on a packet: what was not delivered is not
\* paid for, what was delivered is - unless its hold expired first or the
\* process that held it died.
DeliveredIsPaid ==
    \A k \in Packet : pkt[k].at = "over" =>
        /\ posted(k) => pkt[k].delivered
        /\ pkt[k].delivered => posted(k) \/ \E r \in refsOf(rows, k) : rows[r].lapsed

\* What is left in the account of an ended payment, or was withdrawn from it, is
\* what its event says, and at most what was held when the event was written
\* more.
LeftoverAnnounced ==
    \A p \in Payment : events[p] # NoValue /\ ~events[p].late =>
        getBalance(rows, p) + withdrawn(p) \in events[p].amount .. (events[p].amount + events[p].held)

\* Workers bring every funded payment to an end, whatever fails and dies.
EventuallyEnds == \A p \in Payment : pay[p].state = "SENDING" ~> pay[p].state \in Ended
=============================================================================
