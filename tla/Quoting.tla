------------------------------- MODULE Quoting -------------------------------
(* What a quote of Rafiki's backend says (open_payments/quote/service.ts,    *)
(* rates/util.ts, fee/model.ts).  The exchange rate is the fraction          *)
(* RateNum / RateDen and the fee a fixed amount and a fraction of the        *)
(* principal: the rounding errors of the code's floating point are left out. *)
EXTENDS Integers

CONSTANTS RateNum, RateDen, FixedFee, BasisPointFee, NoValue

ASSUME QuotingAssumption ==
    /\ RateNum \in Nat \ {0} /\ RateDen \in Nat \ {0}
    /\ FixedFee \in Nat /\ BasisPointFee \in 0..10000

ceilDiv(n, d) == (n + d - 1) \div d

convertSource(amount) == (amount * RateNum) \div RateDen
convertDestination(amount) == ceilDiv(amount * RateDen, RateNum)

calculateFee(principal) == ceilDiv(principal * BasisPointFee, 10000) + FixedFee

\* What the payment method answers: for the money to be sent, or to be received,
\* by default all of the receiver's incomingAmount, whatever it has already.
getQuote(request, incomingAmount) ==
    IF request.fixed = "debit"
    THEN LET fee == calculateFee(request.amount)
             send == IF request.amount > fee THEN request.amount - fee ELSE 0
         IN  [debit |-> send, receive |-> convertSource(send), fee |-> fee]
    ELSE LET receive == IF request.fixed = "receive" THEN request.amount ELSE incomingAmount
             send == convertDestination(receive)
         IN  [debit |-> send, receive |-> receive, fee |-> calculateFee(send)]

\* What is left of a receiver's incomingAmount, or NoValue.
remaining(incomingAmount, received) ==
    IF incomingAmount = NoValue THEN NoValue ELSE incomingAmount - received

\* resolveReceiver and the payment method's own checks; for a fixed send, what
\* is delivered has to fit what the receiver still wants - where it wants
\* nothing more (0) the code takes the receive amount itself for the limit.
quotable(request, incomingAmount, received) ==
    LET rest == remaining(incomingAmount, received)
        q == getQuote(request, incomingAmount)
    IN  /\ request.fixed = "incoming" => incomingAmount # NoValue
        /\ q.debit > 0 /\ q.receive > 0
        /\ request.fixed = "receive" /\ rest # NoValue => request.amount <= rest
        /\ request.fixed = "debit" /\ rest \notin {NoValue, 0} => q.receive <= rest

\* finalizeQuote: the fee is added to what is debited.
createQuote(request, incomingAmount) ==
    LET q == getQuote(request, incomingAmount)
    IN  [debitAmount |-> q.debit + q.fee, debitAmountMinusFees |-> q.debit, receiveAmount |-> q.receive]
=============================================================================
