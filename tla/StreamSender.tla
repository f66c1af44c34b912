---------------------------- MODULE StreamSender ----------------------------
(***************************************************************************)
(* The STREAM sender, interledger-stream/src/client.rs: the send_money     *)
(* loop and the packet tasks it spawns.  The loop reads and updates the    *)
(* payment under a lock; a task takes the lock once to number and send its *)
(* packet, and once more to apply the reply, so these are the atomic steps *)
(* and everything between them interleaves.  Replies come in any order, and*)
(* tasks outlive a send_money that gave up.                                *)
(***************************************************************************)
EXTENDS CongestionController, Sequences, Functions

CONSTANTS
    SourceAmount,      \* the amount send_money is asked to send
    RateNum, RateDen,  \* the scaled exchange rate less slippage
    MarginInverse,     \* 1 / margin_of_error, 1000 in the code
    FailFastAttempts,  \* FAIL_FAST_MINIMUM_PACKET_ATTEMPTS, 200 in the code
    F08Details,        \* what an F08 reports: amount received and maximum there
    MaxPackets         \* bound on the packets of one behaviour

ASSUME SenderAssumption ==
    /\ SourceAmount \in 1..U64Max
    /\ RateNum \in Nat \ {0}
    /\ RateDen \in Nat \ {0}
    /\ MarginInverse \in Nat \ {0}
    /\ FailFastAttempts \in Nat \ {0}
    /\ MaxPackets \in Nat
    /\ \A d \in F08Details : d.received \in Nat /\ d.max \in Nat /\ d.max < d.received

VARIABLES
    phase,       \* where send_money is: "loop", "waiting", "closing", or how it ended
    controller,  \* congestion_controller
    receipt,     \* sent_amount, in_flight_amount, delivered_amount of the StreamDelivery
    assetKnown,  \* the receipt has the destination asset code and scale
    announce,    \* should_send_source_account
    sequence,    \* next sequence number
    counts,      \* fulfilled_packets, rejected_packets, fail_fast_rejects
    timedOut,    \* MAX_TIME_SINCE_LAST_FULFILL elapsed since the last fulfill
    tasks        \* the spawned packet tasks, in spawn order

payment == <<controller, receipt, assetKnown, announce, sequence, counts, timedOut>>
vars == <<phase, payment, tasks>>

Returned == {"delivered", "timeout", "failfast", "error"}
Done == {"ok", "err", "consumed"}

CeilDiv(a, b) == (a + b - 1) \div b

Init ==
    /\ phase = "loop"
    /\ controller = New(SourceAmount, SourceAmount \div 10)
    /\ receipt = [sent |-> 0, inFlight |-> 0, delivered |-> 0]
    /\ assetKnown = FALSE
    /\ announce = TRUE
    /\ sequence = 1
    /\ counts = [fulfilled |-> 0, rejected |-> 0, failFast |-> 0]
    /\ timedOut = FALSE
    /\ tasks = <<>>

-----------------------------------------------------------------------------
\* The payment's helpers.

FulfilledAmount == Greatest(receipt.sent - receipt.inFlight, 0)

\* Complete as soon as everything is sent.
IsCompleteWhenSent == receipt.sent >= SourceAmount
IsComplete == Greatest(SourceAmount - FulfilledAmount, 0) = 0
AvailableToSend == Greatest(SourceAmount - receipt.sent, 0)
IsMaxInFlight == AmountLeftInWindow(controller) = 0 \/ AvailableToSend = 0
IsFailing ==
    LET packets == counts.fulfilled + counts.rejected
    IN  packets >= FailFastAttempts /\ 100 * counts.failFast > 99 * packets

\* min_source_amount: without a rate the division fails and the floor is zero.
MinSourceAmount == IF assetKnown THEN CeilDiv(MarginInverse * RateDen, RateNum) ELSE 0

\* The amount apply_prepare loads: the window, raised to the minimum that survives
\* rounding, spread so that no dust is left, then capped by the path and the payment.
PacketAmount ==
    LET window == Greatest(AmountLeftInWindow(controller), MinSourceAmount)
        packets == AvailableToSend \div window
        dust == /\ packets > 0
                /\ AvailableToSend % window < CeilDiv(6 * MinSourceAmount, 5)
        spread == IF dust THEN CeilDiv(AvailableToSend, packets) ELSE window
    IN  Least(Least(spread, MaxPacketAmount(controller)), AvailableToSend)

\* convert, rounding up; zero when the rate is unknown or the result is no u64.
MinDestinationAmount(amount) ==
    LET converted == CeilDiv(amount * RateNum, RateDen)
    IN  IF assetKnown /\ converted <= U64Max THEN converted ELSE 0

-----------------------------------------------------------------------------
\* The send_money loop, one action per PaymentEvent, in the order they are tested.

\* A loop that never looks at the clock.
TimeoutNever == FALSE
TimeoutDue == timedOut

Timeout ==
    /\ phase = "loop"
    /\ TimeoutDue
    /\ phase' = "timeout"
    /\ UNCHANGED <<payment, tasks>>

FailFast ==
    /\ phase = "loop"
    /\ ~TimeoutDue
    /\ IsFailing
    /\ phase' = "failfast"
    /\ UNCHANGED <<payment, tasks>>

CloseConnection ==
    /\ phase = "loop"
    /\ ~TimeoutDue /\ ~IsFailing
    /\ IsComplete
    /\ phase' = "closing"
    /\ UNCHANGED <<payment, tasks>>

MaxInFlight ==
    /\ phase = "loop"
    /\ ~TimeoutDue /\ ~IsFailing /\ ~IsComplete
    /\ IsMaxInFlight
    /\ phase' = "waiting"
    /\ UNCHANGED <<payment, tasks>>

SendMoney ==
    /\ phase = "loop"
    /\ ~TimeoutDue /\ ~IsFailing /\ ~IsComplete /\ ~IsMaxInFlight
    /\ Len(tasks) < MaxPackets
    /\ LET amount == PacketAmount
       IN  /\ controller' = OnPrepare(controller, amount)
           /\ receipt' = [receipt EXCEPT !.sent = @ + amount, !.inFlight = @ + amount]
           /\ tasks' = Append(tasks, [amount |-> amount, min |-> MinDestinationAmount(amount),
                                      seq |-> 0, announced |-> FALSE, stage |-> "spawned"])
    /\ UNCHANGED <<phase, assetKnown, announce, sequence, counts, timedOut>>

\* select_next_some returns a finished task; its error ends the payment.
TakeResult(i) ==
    /\ phase = "waiting"
    /\ tasks[i].stage \in {"ok", "err"}
    /\ phase' = IF tasks[i].stage = "err" THEN "error" ELSE "loop"
    /\ tasks' = [tasks EXCEPT ![i].stage = "consumed"]
    /\ UNCHANGED payment

\* timeout_at: the deadline since the last fulfill passes first.
WaitDeadline ==
    /\ phase = "waiting"
    /\ timedOut
    /\ phase' = "loop"
    /\ UNCHANGED <<payment, tasks>>

\* All pending requests are drained, the ConnectionClose packet takes a sequence number
\* and is sent unfulfillable, and the receipt is returned whatever its answer.
Close ==
    /\ phase = "closing"
    /\ \A i \in 1..Len(tasks) : tasks[i].stage \in Done
    /\ sequence' = sequence + 1
    /\ phase' = "delivered"
    /\ UNCHANGED <<controller, receipt, assetKnown, announce, counts, timedOut, tasks>>

-----------------------------------------------------------------------------
\* The packet tasks.

\* send_money_packet up to its await: the packet is numbered and sent; the source account
\* is announced until a reply shows that the recipient knows it.
SendPacket(i) ==
    /\ tasks[i].stage = "spawned"
    /\ tasks' = [tasks EXCEPT ![i].seq = sequence, ![i].announced = announce,
                              ![i].stage = "sent"]
    /\ sequence' = sequence + 1
    /\ UNCHANGED <<phase, controller, receipt, assetKnown, announce, counts, timedOut>>

\* The sender decrypts the reply of the recipient it is for.  The recipient answers an
\* announcement with its asset details.
ReadReply(i, readable) ==
    IF readable
    THEN /\ announce' = FALSE
         /\ assetKnown' = (assetKnown \/ tasks[i].announced)
    ELSE UNCHANGED <<announce, assetKnown>>

\* The condition of every packet derived from the shared secret.
FulfillableAlways(i) == TRUE

\* A packet without a minimum has a random condition: nobody can fulfill it.
Fulfillable(i) == tasks[i].min > 0

\* A Fulfill arrives; an unreadable or replayed STREAM reply claims nothing.
OnFulfillReply(i, readable, claimed) ==
    /\ tasks[i].stage = "sent"
    /\ Fulfillable(i)
    /\ claimed >= tasks[i].min
    /\ controller' = OnFulfill(controller, tasks[i].amount)
    /\ receipt' = [receipt EXCEPT
                      !.inFlight = Greatest(@ - tasks[i].amount, 0),
                      !.delivered = Least(U64Max,
                          @ + Greatest(tasks[i].min, IF readable THEN claimed ELSE 0))]
    /\ counts' = [counts EXCEPT !.fulfilled = @ + 1]
    /\ timedOut' = FALSE
    /\ tasks' = [tasks EXCEPT ![i].stage = "ok"]
    /\ ReadReply(i, readable)
    /\ UNCHANGED <<phase, sequence>>

\* A Reject arrives.  F99 comes from the recipient and may be readable, the others come from
\* a connector and are not.  Final errors other than F08 and F99 end the payment.
OnRejectReply(i, reject, readable) ==
    /\ tasks[i].stage = "sent"
    /\ readable => reject.code = "F99"
    /\ controller' = OnReject(controller, tasks[i].amount, reject)
    /\ receipt' = [receipt EXCEPT !.sent = Greatest(@ - tasks[i].amount, 0),
                                  !.inFlight = Greatest(@ - tasks[i].amount, 0)]
    /\ counts' = [counts EXCEPT
                     !.rejected = @ + 1,
                     !.failFast = @ + (IF reject.code \in {"T00", "F99"} THEN 1 ELSE 0)]
    /\ tasks' = [tasks EXCEPT ![i].stage = IF reject.code = "F00" THEN "err" ELSE "ok"]
    /\ ReadReply(i, readable)
    /\ UNCHANGED <<phase, sequence, timedOut>>

Rejects ==
    [code : {"T00", "T04", "R01", "F00", "F99", "F08"}, received : {0}, max : {0}]
    \union {[code |-> "F08", received |-> d.received, max |-> d.max] : d \in F08Details}

\* Time passes: 30 seconds without a fulfill.
Elapse ==
    /\ ~timedOut
    /\ phase \notin Returned
    /\ timedOut' = TRUE
    /\ UNCHANGED <<phase, controller, receipt, assetKnown, announce, sequence, counts, tasks>>

Reply(i) ==
    \/ \E readable \in BOOLEAN, claimed \in tasks[i].min .. tasks[i].min + 1 :
           OnFulfillReply(i, readable, claimed)
    \/ \E reject \in Rejects, readable \in BOOLEAN : OnRejectReply(i, reject, readable)

Loop ==
    \/ Timeout \/ FailFast \/ CloseConnection \/ MaxInFlight \/ SendMoney
    \/ \E i \in 1..Len(tasks) : TakeResult(i)
    \/ WaitDeadline \/ Close

Next ==
    \/ Loop
    \/ \E i \in 1..Len(tasks) : SendPacket(i) \/ Reply(i)
    \/ Elapse

Spec == Init /\ [][Next]_vars

\* The runtime schedules the loop and every task, every request is answered (the outgoing
\* validator turns an expired one into a reject), and time passes.
Fairness ==
    /\ WF_vars(Loop)
    /\ \A i \in 1..MaxPackets : WF_vars(i \in 1..Len(tasks) /\ (SendPacket(i) \/ Reply(i)))
    /\ WF_vars(Elapse)

FairSpec == Spec /\ Fairness

-----------------------------------------------------------------------------
\* Every amount stays a u64 and the controller's window is never shut: the controller's
\* arithmetic (congestion.rs) neither overflows on a fulfill nor underflows on a reply.
TypeOK ==
    /\ phase \in {"loop", "waiting", "closing"} \union Returned
    /\ controller \in Controller
    /\ controller.maxInFlight > 0
    /\ receipt \in [sent : 0..U64Max, inFlight : 0..U64Max, delivered : 0..U64Max]
    /\ assetKnown \in BOOLEAN
    /\ announce \in BOOLEAN
    /\ sequence \in Nat \ {0}
    /\ counts \in [fulfilled : Nat, rejected : Nat, failFast : Nat]
    /\ timedOut \in BOOLEAN
    /\ tasks \in Seq([amount : 0..U64Max, min : 0..U64Max, seq : Nat, announced : BOOLEAN,
                      stage : {"spawned", "sent"} \union Done])

\* However sends, fulfills and rejects interleave, what is fulfilled or in flight never
\* exceeds the amount send_money was asked to send (client.rs, apply_prepare step (1)).
NeverOverspends ==
    /\ receipt.sent <= SourceAmount
    /\ receipt.inFlight <= receipt.sent

\* The sender stops announcing its account only when it has learnt the recipient's asset:
\* otherwise no later reply would carry it and no packet could ever be fulfilled
\* (client.rs, send_money_packet).
AnnouncesUntilAssetKnown == announce \/ assetKnown

\* No two packets share a sequence number: the on-chain payment id is derived from it, so a
\* repeated number would be a payout withheld (client.rs, next_sequence).
UniqueSequences ==
    \A i, j \in 1..Len(tasks) :
        i # j /\ tasks[i].stage # "spawned" /\ tasks[j].stage # "spawned"
            => tasks[i].seq # tasks[j].seq

\* send_money reports success only when all it was asked to send is fulfilled, nothing is in
\* flight, and no task can change the receipt any more (client.rs, CloseConnection).
ReceiptIsFinal ==
    phase = "delivered" => /\ FulfilledAmount = SourceAmount
                           /\ receipt.inFlight = 0
                           /\ \A i \in 1..Len(tasks) : tasks[i].stage \in Done

\* When send_money waits because as much as possible is in flight there is a request to wait
\* for: select_next_some is never polled on an empty set (client.rs, MaxInFlight).
NeverWaitsOnNothing ==
    phase = "waiting" => \E i \in 1..Len(tasks) : tasks[i].stage # "consumed"

\* What the packets took, and those whose reply has not been applied.
Amounts == [i \in 1..Len(tasks) |-> tasks[i].amount]
Unanswered == {i \in 1..Len(tasks) : tasks[i].stage \in {"spawned", "sent"}}

\* The controller, the receipt and the unanswered packets agree on the amount in flight after
\* any interleaving of replies, so neither saturation nor wrap-around ever hides a mistake
\* (congestion.rs amount_in_flight, client.rs in_flight_amount).
InFlightAccounting ==
    /\ controller.inFlight = SumFunctionOnSet(Amounts, Unanswered)
    /\ receipt.inFlight = controller.inFlight

\* What was fulfilled was delivered at the sender's rate or better, rounding included: a packet
\* without a minimum puts no money at risk (client.rs, the condition in send_money_packet).
RateFloor == receipt.delivered * RateDen >= FulfilledAmount * RateNum

\* Every payment ends: with the receipt, or with an error (client.rs, send_money).
Termination == <>(phase \in Returned)
=============================================================================
