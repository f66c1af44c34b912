------------------------------ MODULE Receiving ------------------------------
(* Money arriving at Rafiki's backend: the packets of one STREAM connection, *)
(* or local payments, credited to their destination - an incoming payment or *)
(* a wallet address - and the workers, webhooks and withdrawals that bring   *)
(* it to the account servicing entity (packages/backend/src).                *)
(*                                                                           *)
(* A credit reads the destination, then creates, posts and reports its       *)
(* transfer in separate transactions, between any two of which every other   *)
(* handler may run.  A worker holds the row lock of what it processes from   *)
(* its read to its write.                                                    *)
EXTENDS Ledger

CONSTANTS
    Packet,             \* credits: STREAM packets or local payments
    Caller,             \* admin API calls in flight at once
    NoValue,
    Amounts,            \* what a credit of each payer may be worth
    IncomingAmount,     \* the incoming payment's
    WithdrawalThreshold,\* the asset's, or NoValue
    ThrottleDelay,      \* whether withdrawalThrottleDelay is set
    Funds,              \* what the payers and the asset can pay out
    MaxAttempts,        \* webhookMaxRetry
    MaxEvents,          \* bound on a wallet address's events
    MaxFaults           \* bound on handlers that die

\* A transfer's id is a credit's, an event's or, for the deposits, its account's.
ASSUME IdAssumption == {"event", "peer", "outgoing", "assetB"} \cap Packet = {}

Payers == {"peer", "outgoing"}
Refs == Payers \cup {"assetA", "assetB", "dest"}

ASSUME AssetAssumption == AssetOf \in [Refs -> {"assetA", "assetB"}]

ASSUME AmountAssumption ==
    /\ IsFiniteSet(Packet)
    /\ Amounts \in [Payers -> SUBSET Nat]
    /\ IncomingAmount \in Nat \ {0}
    /\ ThrottleDelay \in BOOLEAN
    /\ Funds \in Nat
    /\ MaxFaults \in Nat

VARIABLES
    rows,       \* ledgerTransfers
    dest,       \* the row of the incoming payment or of the wallet address
    objects,    \* wallet address objects in memory: whether their processAt is set
    cached,     \* the one in walletAddressCache, or 0
    pkt,        \* the credits
    received,   \* Redis: stream_received of the connection
    worker,     \* the worker that holds the destination's row, with what it read
    events,     \* withdrawal events, each with its webhook
    calls,      \* withdrawals being created
    faults,     \* handlers that have died
    hist        \* credits posted too late; overtaken balance checks; skipped schedules

vars == <<rows, dest, objects, cached, pkt, received, worker, events, calls, faults, hist>>

Open == {"PENDING", "PROCESSING"}
Deactivated == {"COMPLETED", "EXPIRED"}
Idle == [at |-> "idle"]
isPayment == dest.kind = "payment"

Dest == [kind : {"payment"}, state : Open \cup Deactivated \cup {"DELETED"},
         processAt : {"null", "later", "now"}]
        \cup
        [kind : {"wallet"}, totalEvents : Nat, processAt : {"null", "later", "now"}]
InFlight == [at : {"checked", "validated", "held", "posted"}, from : Payers,
             amount : Nat, object : Nat]
Credited == [at : {"read"}, from : Payers, amount : Nat, object : Nat, total : Nat]
Over == [at : {"fulfilled", "rejected", "paid", "failed", "dead"}, from : Payers, amount : Nat]

\* Rows, destination, credits, events and calls hold values of their types; no
\* withdrawal event is for nothing.
TypeOK ==
    /\ rows \in [DOMAIN rows -> Row]
    /\ dest \in Dest
    /\ objects \in Seq(BOOLEAN)
    /\ cached \in 0..Len(objects)
    /\ pkt \in [Packet -> InFlight \cup Credited \cup Over \cup {Idle}]
    /\ received \in Int
    /\ worker \in [at : {"read"}, total : Nat] \cup {Idle}
    /\ events \in Seq([amount : Nat \ {0}, attempts : Nat, known : BOOLEAN, done : BOOLEAN])
    /\ calls \in [Caller -> [at : {"validated"}, amount : Nat, timed : BOOLEAN, event : Nat]
                            \cup {Idle}]
    /\ faults \in 0..MaxFaults
    /\ hist \in [late : SUBSET Packet, overtaken : BOOLEAN, skipped : BOOLEAN]

deposit(account) == createDeposit(<<account, 0>>, account, Funds)[1]

Init ==
    /\ rows = inserted([r \in {} |-> Idle],
                       << deposit("peer"), deposit("outgoing"), deposit("assetB") >>)
    /\ dest \in {[kind |-> "payment", state |-> "PENDING", processAt |-> "later"],
                 [kind |-> "wallet", totalEvents |-> 0, processAt |-> "null"]}
    /\ objects = << >>
    /\ cached = 0
    /\ pkt = [p \in Packet |-> Idle]
    /\ received = 0
    /\ worker = Idle
    /\ events = << >>
    /\ calls = [c \in Caller |-> Idle]
    /\ faults = 0
    /\ hist = [late |-> {}, overtaken |-> FALSE, skipped |-> FALSE]

locked == worker # Idle
total == getTotalReceived(rows, "dest")

-----------------------------------------------------------------------------
(* A credit.                                                                 *)

\* What the account middleware and the local payment check of an incoming
\* payment.  A deleted one is not found.
mayCredit == isPayment => dest.state \in Open

\* Wallet addresses are read through a cache in memory, so packets share the
\* object; a packet that finds no entry reads the row.
getWalletAddress ==
    IF isPayment \/ cached # 0 THEN UNCHANGED <<objects, cached>>
    ELSE objects' = Append(objects, dest.processAt # "null") /\ cached' = Len(objects) + 1

entered(p, from, amount) ==
    pkt' = [pkt EXCEPT ![p] =
        IF mayCredit
        THEN [at |-> "checked", from |-> from, amount |-> amount, object |-> cached']
        ELSE [at |-> IF from = "peer" THEN "rejected" ELSE "failed",
              from |-> from, amount |-> amount]]

\* account middleware, stream controller: a packet of the connection that the
\* STREAM server accepts is added to the connection's total.
Accept(p) ==
    /\ pkt[p] = Idle
    /\ getWalletAddress
    /\ \E amount \in Amounts["peer"] :
        /\ entered(p, "peer", amount)
        /\ received' = IF mayCredit THEN received + amount ELSE received
    /\ UNCHANGED <<rows, dest, worker, events, calls, faults, hist>>

\* The local payment method's pay makes the same check of the incoming payment.
Pay(p) ==
    /\ pkt[p] = Idle
    /\ isPayment
    /\ UNCHANGED cached
    /\ \E amount \in Amounts["outgoing"] : entered(p, "outgoing", amount)
    /\ UNCHANGED <<rows, dest, objects, received, worker, events, calls, faults, hist>>

transfersOf(p) == buildTransfers(p, pkt[p].from, "dest", pkt[p].amount, pkt[p].amount)

ended(p, at) == [at |-> at, from |-> pkt[p].from, amount |-> pkt[p].amount]

\* An error thrown through the middleware: the incoming error handler takes the
\* packet off the connection's total and rejects it.
fail(p) ==
    /\ pkt' = [pkt EXCEPT ![p] = ended(p, IF pkt[p].from = "peer" THEN "rejected" ELSE "failed")]
    /\ received' = IF pkt[p].from = "peer" THEN received - pkt[p].amount ELSE received

\* createTransfers validates the transfers against the balances it reads; no
\* lock keeps those balances until it commits.
ValidateCredit(p) ==
    /\ pkt[p].at = "checked"
    /\ IF mayCreate(rows, transfersOf(p))
       THEN pkt' = [pkt EXCEPT ![p].at = "validated"] /\ UNCHANGED received
       ELSE fail(p)
    /\ UNCHANGED <<rows, dest, objects, cached, worker, events, calls, faults, hist>>

HoldCredit(p) ==
    /\ pkt[p].at = "validated"
    /\ rows' = inserted(rows, transfersOf(p))
    /\ pkt' = [pkt EXCEPT ![p].at = "held"]
    /\ hist' = [hist EXCEPT !.overtaken = @ \/ ~mayCreate(rows, transfersOf(p))]
    /\ UNCHANGED <<dest, objects, cached, received, worker, events, calls, faults>>

\* Whether a credit that posts now comes too late for the payment's event: the
\* event is written or the payment deleted, or the worker has read what it
\* needs to do so.
tooLate ==
    /\ isPayment
    /\ \/ dest.processAt = "null"
       \/ locked /\ (dest.state \in Deactivated \/ worker.total = 0)

\* trx.post(): the balance middleware ignores the error it returns, the local
\* payment throws it.
Post(p) ==
    /\ pkt[p].at = "held"
    /\ rows' = updateTransferState(rows, refsOf(rows, p), "POSTED")
    /\ pkt' = [pkt EXCEPT ![p] =
                 IF mayUpdate(rows, refsOf(rows, p)) THEN [@ EXCEPT !.at = "posted"]
                 ELSE ended(p, IF @.from = "peer" THEN "fulfilled" ELSE "failed")]
    /\ hist' = [hist EXCEPT !.late =
                 IF mayUpdate(rows, refsOf(rows, p)) /\ tooLate THEN @ \cup {p} ELSE @]
    /\ UNCHANGED <<dest, objects, cached, received, worker, events, calls, faults>>

\* Mutant: onCredit is told the credit, not the total.
ReadAmount(p) ==
    /\ pkt[p].at = "posted"
    /\ pkt' = [pkt EXCEPT ![p] = [at |-> "read", from |-> @.from, amount |-> @.amount,
                                  object |-> @.object, total |-> @.amount]]
    /\ UNCHANGED <<rows, dest, objects, cached, received, worker, events, calls, faults, hist>>

ReadTotal(p) ==
    /\ pkt[p].at = "posted"
    /\ pkt' = [pkt EXCEPT ![p] = [at |-> "read", from |-> @.from, amount |-> @.amount,
                                  object |-> @.object, total |-> total]]
    /\ UNCHANGED <<rows, dest, objects, cached, received, worker, events, calls, faults, hist>>

\* Mutant: onCredit writes whatever state the payment is in.
creditedAlways(t) ==
    IF IncomingAmount <= t THEN [dest EXCEPT !.state = "COMPLETED", !.processAt = "now"]
    ELSE [dest EXCEPT !.state = "PROCESSING"]

\* IncomingPayment.onCredit, given the total read before.
creditedPayment(t) ==
    IF dest.state \notin Open THEN dest
    ELSE IF IncomingAmount <= t THEN [dest EXCEPT !.state = "COMPLETED", !.processAt = "now"]
    ELSE [dest EXCEPT !.state = "PROCESSING"]

overThreshold(t) ==
    WithdrawalThreshold # NoValue /\ dest.totalEvents <= t - WithdrawalThreshold

\* Whether WalletAddress.onCredit schedules the address: it looks at the
\* processAt of the object it is called on, not at the row's.
schedules(p) == ThrottleDelay /\ ~objects[pkt[p].object]

creditedWallet(p) ==
    IF overThreshold(pkt[p].total) THEN [dest EXCEPT !.processAt = "now"]
    ELSE IF schedules(p) THEN [dest EXCEPT !.processAt = "later"]
    ELSE dest

\* The patch waits for the worker's row lock.  The patch that schedules a
\* wallet address also sets processAt in the object it is called on.
OnCredit(p) ==
    /\ pkt[p].at = "read"
    /\ ~locked
    /\ dest' = IF isPayment THEN creditedPayment(pkt[p].total) ELSE creditedWallet(p)
    /\ objects' = IF ~isPayment /\ ~overThreshold(pkt[p].total) /\ schedules(p)
                  THEN [objects EXCEPT ![pkt[p].object] = TRUE] ELSE objects
    /\ hist' = [hist EXCEPT !.skipped =
                  @ \/ (~isPayment /\ objects[pkt[p].object] /\ dest'.processAt = "null")]
    /\ pkt' = [pkt EXCEPT ![p] = ended(p, IF @.from = "peer" THEN "fulfilled" ELSE "paid")]
    /\ UNCHANGED <<rows, cached, received, worker, events, calls, faults>>

\* The process dies, or a statement fails: nothing more of the credit happens.
Die(p) ==
    /\ pkt[p].at \in {"checked", "held", "posted", "read"}
    /\ faults < MaxFaults
    /\ faults' = faults + 1
    /\ pkt' = [pkt EXCEPT ![p] = ended(p, "dead")]
    /\ UNCHANGED <<rows, dest, objects, cached, received, worker, events, calls, hist>>

\* The cache entry's localCacheDuration is over.
CacheExpires ==
    /\ cached # 0
    /\ cached' = 0
    /\ UNCHANGED <<rows, dest, objects, pkt, received, worker, events, calls, faults, hist>>

-----------------------------------------------------------------------------
(* The incoming payment and the wallet address.                              *)

\* The destination's processAt comes: the payment has expired, or the wallet
\* address's delay is over.
Due ==
    /\ dest.processAt = "later"
    /\ dest' = [dest EXCEPT !.processAt = "now"]
    /\ UNCHANGED <<rows, objects, cached, pkt, received, worker, events, calls, faults, hist>>

completeIncomingPayment ==
    /\ isPayment /\ ~locked
    /\ dest.state \in Open
    /\ dest' = [dest EXCEPT !.state = "COMPLETED", !.processAt = "now"]
    /\ UNCHANGED <<rows, objects, cached, pkt, received, worker, events, calls, faults, hist>>

\* A worker locks the row and reads the total received.
ProcessNext ==
    /\ ~locked
    /\ dest.processAt = "now"
    /\ isPayment => dest.state # "DELETED"
    /\ worker' = [at |-> "read", total |-> total]
    /\ UNCHANGED <<rows, dest, objects, cached, pkt, received, events, calls, faults, hist>>

announce(amount) ==
    events' = Append(events, [amount |-> amount, attempts |-> 0, known |-> FALSE, done |-> FALSE])

\* Mutant: an expired payment is not scheduled for its event.
handleExpiredForgets ==
    /\ locked /\ isPayment
    /\ dest.state \in Open
    /\ dest' = [dest EXCEPT !.state = IF worker.total > 0 THEN "EXPIRED" ELSE "DELETED",
                            !.processAt = "null"]
    /\ worker' = Idle
    /\ UNCHANGED <<rows, objects, cached, pkt, received, events, calls, faults, hist>>

handleExpired ==
    /\ locked /\ isPayment
    /\ dest.state \in Open
    /\ dest' = IF worker.total > 0 THEN [dest EXCEPT !.state = "EXPIRED"]
               ELSE [dest EXCEPT !.state = "DELETED", !.processAt = "null"]
    /\ worker' = Idle
    /\ UNCHANGED <<rows, objects, cached, pkt, received, events, calls, faults, hist>>

\* Mutant: the event is for the amount the payment asked for.
handleDeactivatedIncoming ==
    /\ locked /\ isPayment
    /\ dest.state \in Deactivated
    /\ dest' = [dest EXCEPT !.processAt = "null"]
    /\ IF worker.total > 0 THEN announce(IncomingAmount) ELSE UNCHANGED events
    /\ worker' = Idle
    /\ UNCHANGED <<rows, objects, cached, pkt, received, calls, faults, hist>>

\* Mutant: a deactivated payment gets its event even if it is empty.
handleDeactivatedEmpty ==
    /\ locked /\ isPayment
    /\ dest.state \in Deactivated
    /\ dest' = [dest EXCEPT !.processAt = "null"]
    /\ announce(worker.total)
    /\ worker' = Idle
    /\ UNCHANGED <<rows, objects, cached, pkt, received, calls, faults, hist>>

handleDeactivated ==
    /\ locked /\ isPayment
    /\ dest.state \in Deactivated
    /\ dest' = [dest EXCEPT !.processAt = "null"]
    /\ IF worker.total > 0 THEN announce(worker.total) ELSE UNCHANGED events
    /\ worker' = Idle
    /\ UNCHANGED <<rows, objects, cached, pkt, received, calls, faults, hist>>

createWithdrawalEvent ==
    /\ locked /\ ~isPayment
    /\ Len(events) < MaxEvents
    /\ IF worker.total > dest.totalEvents
       THEN /\ announce(worker.total - dest.totalEvents)
            /\ dest' = [dest EXCEPT !.totalEvents = worker.total, !.processAt = "null"]
       ELSE /\ dest' = [dest EXCEPT !.processAt = "null"]
            /\ UNCHANGED events
    /\ worker' = Idle
    /\ UNCHANGED <<rows, objects, cached, pkt, received, calls, faults, hist>>

\* The worker's transaction is rolled back: it died, or writing the event failed.
WorkerDies ==
    /\ locked
    /\ faults < MaxFaults
    /\ faults' = faults + 1
    /\ worker' = Idle
    /\ UNCHANGED <<rows, dest, objects, cached, pkt, received, events, calls, hist>>

-----------------------------------------------------------------------------
(* Webhooks and withdrawals.                                                 *)

\* processNextWebhook: the account servicing entity answers 200; or it does not
\* hear of the event; or it does, and its answer is lost.
sendWebhook(e, known, done) ==
    /\ ~events[e].done
    /\ events[e].attempts < MaxAttempts
    /\ events' = [events EXCEPT ![e].attempts = @ + 1, ![e].known = @ \/ known, ![e].done = done]
    /\ UNCHANGED <<rows, dest, objects, cached, pkt, received, worker, calls, faults, hist>>

\* Mutant: each withdrawal of an event is a transfer with an id of its own.
withdrawalFresh(c, event, amount, timed) == createWithdrawal(<<c, event>>, "dest", amount, timed)

\* The event's id is the transfer's.
withdrawal(c, event, amount, timed) == createWithdrawal(<<"event", event>>, "dest", amount, timed)

\* createTransfers of a withdrawal: validated here, inserted by EndWithdrawal.
BeginWithdrawal(c, event, amount, timed) ==
    /\ calls[c] = Idle
    /\ mayCreate(rows, withdrawal(c, event, amount, timed))
    /\ calls' = [calls EXCEPT ![c] = [at |-> "validated", amount |-> amount, timed |-> timed,
                                      event |-> event]]
    /\ UNCHANGED <<rows, dest, objects, cached, pkt, received, worker, events, faults, hist>>

withdrawEventLiquidity(c, e) == events[e].known /\ BeginWithdrawal(c, e, events[e].amount, FALSE)

createIncomingPaymentWithdrawal(c) ==
    /\ isPayment /\ dest.state # "DELETED"
    /\ events # << >>
    /\ BeginWithdrawal(c, Len(events), total, TRUE)

\* createWalletAddressWithdrawal: under an id of the caller's, here 0.
createWalletAddressWithdrawal(c) ==
    /\ ~isPayment
    /\ getBalance(rows, "dest") # 0
    /\ BeginWithdrawal(c, 0, getBalance(rows, "dest"), TRUE)

EndWithdrawal(c) ==
    /\ calls[c] # Idle
    /\ LET ts == withdrawal(c, calls[c].event, calls[c].amount, calls[c].timed)
       IN  /\ rows' = IF mayInsert(rows, ts) THEN inserted(rows, ts) ELSE rows
           /\ hist' = [hist EXCEPT !.overtaken = @ \/ (mayInsert(rows, ts) /\ ~mayCreate(rows, ts))]
    /\ calls' = [calls EXCEPT ![c] = Idle]
    /\ UNCHANGED <<dest, objects, cached, pkt, received, worker, events, faults>>

\* postLiquidityWithdrawal, voidLiquidityWithdrawal.
UpdateWithdrawal(r, state) ==
    /\ r[1] = "event"
    /\ mayUpdate(rows, {r})
    /\ rows' = updateTransferState(rows, {r}, state)
    /\ UNCHANGED <<dest, objects, cached, pkt, received, worker, events, calls, faults, hist>>

\* The timeout of a hold: the legs of a credit expire in the order of their
\* creation.
HoldLapses(r) ==
    /\ Pending(rows[r])
    /\ r[2] = 2 /\ r[1] \in Packet => rows[<<r[1], 1>>].lapsed
    /\ rows' = lapse(rows, r)
    /\ UNCHANGED <<dest, objects, cached, pkt, received, worker, events, calls, faults, hist>>

-----------------------------------------------------------------------------
CreditStep(p) ==
    Accept(p) \/ Pay(p) \/ ValidateCredit(p) \/ HoldCredit(p) \/ Post(p) \/ ReadTotal(p) \/ OnCredit(p)

WorkerStep == ProcessNext \/ handleExpired \/ handleDeactivated \/ createWithdrawalEvent

Next ==
    \/ \E p \in Packet : CreditStep(p) \/ Die(p)
    \/ CacheExpires \/ Due \/ completeIncomingPayment
    \/ WorkerStep \/ WorkerDies
    \/ \E e \in DOMAIN events :
         sendWebhook(e, TRUE, TRUE) \/ sendWebhook(e, TRUE, FALSE) \/ sendWebhook(e, FALSE, FALSE)
    \/ \E c \in Caller :
         \/ \E e \in DOMAIN events : withdrawEventLiquidity(c, e)
         \/ createIncomingPaymentWithdrawal(c) \/ createWalletAddressWithdrawal(c)
         \/ EndWithdrawal(c)
    \/ \E r \in DOMAIN rows :
         UpdateWithdrawal(r, "POSTED") \/ UpdateWithdrawal(r, "VOIDED") \/ HoldLapses(r)

Spec == Init /\ [][Next]_vars /\ WF_vars(WorkerStep)

-----------------------------------------------------------------------------
inFlight(p) == pkt[p].at \in {"checked", "validated", "held", "posted", "read"}
Quiet == \A p \in Packet : ~inFlight(p)
noneDied == \A p \in Packet : pkt[p].at # "dead"
lapsed(p) == \E r \in refsOf(rows, p) : rows[r].lapsed
posted(p) == refsOf(rows, p) # {} /\ \A r \in refsOf(rows, p) : Posted(rows[r])
amountOf(ps) == SumFunctionOnSet([p \in ps |-> pkt[p].amount], ps)
announced == SumFunction([e \in DOMAIN events |-> events[e].amount])

\* What the payers are told is what the ledger says, of both transfers of a
\* credit between assets.  A rejected packet or failed local payment moved
\* nothing; a payment reported paid moved everything; a fulfilled packet did too,
\* unless its hold had expired when the balance middleware posted it, the one
\* error that nobody is told of.
AnswerMatchesLedger ==
    \A p \in Packet :
        /\ \A r, q \in refsOf(rows, p) : rows[r].state = rows[q].state
        /\ pkt[p].at \in {"rejected", "failed"} => \A r \in refsOf(rows, p) : ~Posted(rows[r])
        /\ pkt[p].at = "paid" => posted(p)
        /\ pkt[p].at = "fulfilled" => posted(p) \/ lapsed(p)

\* As long as no transfer was inserted on a balance check that others had
\* overtaken, no liquidity account pays out or holds more than it was paid: a
\* hold that has expired frees its amount for good.  An incoming payment is not
\* overdrawn even then: all withdrawals of it carry its event's id, and the ledger
\* takes one transfer for an id.
NoOverdraft ==
    \A ref \in Refs :
        ~hist.overtaken \/ (isPayment /\ ref = "dest") => getBalance(rows, ref) >= 0

\* Once the credits are over, they have had their effect, in whatever order they
\* read the totals and reported them.  An incoming payment that has received its
\* amount is not open.  With a throttle delay, a wallet address with money no
\* event speaks of is scheduled - unless a credit found the address scheduled in
\* the object it held when the row no longer was.  The total the STREAM receipts
\* of a connection speak of, which at any time covers what was credited, is no
\* more than that if no hold expired.
CreditsTakeEffect ==
    LET peers == {p \in Packet : pkt[p] # Idle /\ pkt[p].from = "peer"}
        credited == amountOf({p \in peers : posted(p)})
    IN  /\ credited <= received
        /\ Quiet /\ noneDied =>
             /\ isPayment /\ IncomingAmount <= total => dest.state \notin Open
             /\ ~isPayment /\ ThrottleDelay /\ ~locked /\ dest.totalEvents < total
                    => dest.processAt # "null" \/ hist.skipped
             /\ (\A p \in peers : ~lapsed(p)) => credited = received

\* Whatever reached an incoming payment that the workers are done with is in
\* its withdrawal event, except for credits that were checked while the payment
\* was open and posted after the worker had read the total.  A wallet address's
\* totalEventsAmount is the sum of its events, as the comment on it says, and no
\* event is for money that has not arrived.
AllMoneyAnnounced ==
    /\ isPayment /\ dest.processAt = "null" =>
            announced <= total /\ total <= announced + amountOf(hist.late)
    /\ ~isPayment => dest.totalEvents = announced /\ announced <= total

\* A completed, expired or deleted incoming payment stays what it is and has at
\* most one withdrawal event: no late credit reopens it.
DeactivatedIsFinal ==
    [][isPayment /\ dest.state \notin Open => dest'.state = dest.state /\ Len(events') <= 1]_vars

\* The workers get to every incoming payment that is deactivated with money in
\* it, however often they fail before.
EventuallyAnnounced ==
    (isPayment /\ dest.state \in Deactivated /\ total > 0) ~>
        (events # << >> \/ hist.late # {})
=============================================================================
