--------------------------- MODULE ReceivingSteps ---------------------------
(* The inductive invariant of Receiving, ReceivingInv, and what each step    *)
(* does, stated part by part so that the parts can be proved one without the *)
(* other:                                                                    *)
(*   - LedgerSums, CreditSums and EventSums: what is used of sums over       *)
(*     transfers, credits and events;                                        *)
(*   - CreditFacts, CallFacts, RowFacts, EventFacts and DestFacts: what the  *)
(*     steps of a credit, of a withdrawal, of a transfer, of an event and of *)
(*     the destination do.                                                   *)
(* ReceivingStepsProofs proves the facts from the sums, ReceivingBooksProofs *)
(* that the money is kept from facts and sums, and ReceivingProofs the sums, *)
(* and brings them together.                                                 *)
EXTENDS Receiving

-----------------------------------------------------------------------------
\* The credits and their transfers.

\* A row with accounts and amount of any type.
RowOf(A) == [debit : A, credit : A, amount : A,
             state : {"PENDING", "POSTED", "VOIDED"}, lapsed : BOOLEAN]

At == {"idle", "checked", "validated", "held", "posted", "read",
       "fulfilled", "rejected", "paid", "failed", "dead"}
Early == {"checked", "validated", "held", "posted"}
InFlightOf(A) == [at : Early, from : A, amount : A, object : A]

Every(p, state) == \A r \in refsOf(rows, p) : rows[r].state = state

\* What the ledger holds of credit p, by how far the credit has come.
CreditInv(p) ==
    /\ pkt[p].at \in At
    /\ pkt[p].at \in Early => \E A : pkt[p] \in InFlightOf(A)
    /\ pkt[p].at \in {"idle", "checked", "validated"} => refsOf(rows, p) = {}
    /\ pkt[p].at = "held" => refsOf(rows, p) # {} /\ Every(p, "PENDING")
    /\ pkt[p].at \in {"posted", "read", "paid"} => refsOf(rows, p) # {} /\ Every(p, "POSTED")
    /\ pkt[p].at \in {"rejected", "failed"} => Every(p, "PENDING")
    /\ pkt[p].at = "fulfilled" => /\ refsOf(rows, p) # {}
                                  /\ Every(p, "POSTED") \/ (Every(p, "PENDING") /\ lapsed(p))
    /\ pkt[p].at = "dead" => Every(p, "PENDING") \/ Every(p, "POSTED")

RowsInv == \A r \in DOMAIN rows : \E A : rows[r] \in RowOf(A)

LedgerInv ==
    /\ RowsInv
    /\ DOMAIN pkt = Packet
    /\ \A p \in Packet : CreditInv(p)

-----------------------------------------------------------------------------
\* The incoming payment and its event.

When == {"null", "later", "now"}
WalletOf(T) == [kind : {"wallet"}, totalEvents : T, processAt : When]
Status == Open \cup Deactivated \cup {"DELETED"}
PaymentRow == [kind : {"payment"}, state : Status, processAt : When]

\* A payment is scheduled as long as it is open or a worker holds it, and as long as it is
\* scheduled it has no event; so it never gets a second one.
PaymentInv ==
    /\ dest \in PaymentRow
    /\ \E S : events \in Seq(S)
    /\ Len(events) <= 1
    /\ dest.processAt # "null" => Len(events) = 0
    /\ dest.state \in Open => dest.processAt # "null"
    /\ locked => dest.processAt # "null"

FinalInv == (\E T : dest \in WalletOf(T)) \/ PaymentInv

-----------------------------------------------------------------------------
\* Types, variable by variable.

CreditState == InFlight \cup Credited \cup Over \cup {Idle}
Event == [amount : Nat \ {0}, attempts : Nat, known : BOOLEAN, done : BOOLEAN]
Call == [at : {"validated"}, amount : Nat, timed : BOOLEAN, event : Nat]

TypedRows(s) == s \in [DOMAIN s -> Row] /\ IsFiniteSet(DOMAIN s)
CreditsType == pkt \in [Packet -> CreditState]
CacheType == objects \in Seq(BOOLEAN) /\ cached \in 0..Len(objects)
WorkerType == worker \in [at : {"read"}, total : Nat] \cup {Idle}
EventsType == events \in Seq(Event)
CallsType == calls \in [Caller -> Call \cup {Idle}]
HistType == hist \in [late : SUBSET Packet, overtaken : BOOLEAN, skipped : BOOLEAN]
CountsType == received \in Int /\ faults \in 0..MaxFaults

Typed ==
    /\ TypedRows(rows) /\ dest \in Dest /\ CreditsType /\ CacheType /\ WorkerType
    /\ EventsType /\ CallsType /\ HistType /\ CountsType

-----------------------------------------------------------------------------
\* The destination's transfers.

Dst == Liquidity("dest")
ToDest(r) == rows[r].credit = Dst
FromDest(r) == rows[r].debit = Dst
Solvent(s) == \A ref \in Refs : getBalance(s, ref) >= 0

\* Credits bring money to the destination, each of them once and what it is worth; events
\* take it away.
MoneyInv ==
    /\ \A r \in DOMAIN rows : /\ ToDest(r) => r[1] \in Packet
                              /\ FromDest(r) => r[1] = "event"
    /\ \A p \in Packet : \A r, q \in refsOf(rows, p) :
           /\ ToDest(r) => rows[r].amount = pkt[p].amount
           /\ ToDest(r) /\ ToDest(q) => q = r

\* No balance check overtaken, no account overdrawn.
SolventInv == ~hist.overtaken => Solvent(rows)

-----------------------------------------------------------------------------
\* What is late, received, announced, withdrawn and still to be reported.

\* What credits are worth, and what events announce.
Worths(f, ps) == SumFunctionOnSet([p \in ps |-> f[p].amount], ps)
Sum(es) == SumFunction([e \in DOMAIN es |-> es[e].amount])

\* A credit that was late has been posted; a packet of a peer never fails but is rejected.
LateInv == \A p \in hist.late : pkt[p].at \in {"posted", "read", "fulfilled", "paid", "dead"}
FailedInv == \A p \in Packet : pkt[p].at = "failed" => pkt[p].from # "peer"
Late == Worths(pkt, hist.late)

\* The connection's total is what the packets that were not rejected are worth.
Accepted == {p \in Packet : pkt[p] # Idle /\ pkt[p].from = "peer" /\ pkt[p].at # "rejected"}
ReceivedInv == received = Worths(pkt, Accepted)

\* The worker knows no more than what was received.
WorkerBehind == locked => worker.total <= total

\* What a worker is about to announce, or has announced, is all there is but for late credits.
PaymentBooks ==
    /\ locked /\ (dest.state \in Deactivated \/ worker.total = 0) => total <= worker.total + Late
    /\ dest.processAt = "null" => announced <= total /\ total <= announced + Late

WalletBooks == dest.totalEvents = announced /\ announced <= total

\* The withdrawals of an incoming payment all have its event's id, and none is for more than
\* the payment received.
EventId == <<"event", 1>>
OneWithdrawal ==
    /\ \A r \in DOMAIN rows : FromDest(r) => r = EventId /\ rows[r].amount <= total
    /\ \A c \in Caller : calls[c] # Idle => calls[c].event = 1 /\ calls[c].amount <= total
    /\ \A e \in DOMAIN events : events[e].amount <= total

\* The credits whose report is still to come, or will not come.
Unreported(p) == pkt[p].at \in {"posted", "read", "dead"}

\* A credit that will complete the payment, or would have.
WillComplete(p) ==
    \/ pkt[p].at \in {"posted", "dead"}
    \/ pkt[p].at = "read" /\ IncomingAmount <= pkt[p].total

PaymentDone == dest.state \in Open /\ IncomingAmount <= total => \E p \in Packet : WillComplete(p)

WalletDone ==
    /\ locked => dest.processAt = "now"
    /\ locked /\ worker.total < total => \E p \in Packet : Unreported(p)
    /\ ThrottleDelay /\ ~locked /\ dest.processAt = "null" /\ ~hist.skipped
           /\ dest.totalEvents < total => \E p \in Packet : Unreported(p)

\* All of it is inductive together.
PaymentKept == PaymentBooks /\ OneWithdrawal /\ PaymentDone
WalletKept == WalletBooks /\ WalletDone

ReceivingInv ==
    /\ Typed /\ LedgerInv /\ FinalInv /\ MoneyInv /\ SolventInv
    /\ LateInv /\ FailedInv /\ ReceivedInv /\ WorkerBehind
    /\ isPayment => PaymentKept
    /\ ~isPayment => WalletKept

-----------------------------------------------------------------------------
\* Transfers and their sums.

\* A transfer as the services create it.
Transfer == [ref : {<<x, n>> : x \in Packet \cup {"event", "peer", "outgoing", "assetB"}, n \in Nat},
             debit : Account, credit : Account, amount : Nat, timed : BOOLEAN]

\* w has the transfers of s, between the same accounts.
Grows(s, w) ==
    /\ DOMAIN s \subseteq DOMAIN w
    /\ \A r \in DOMAIN s : /\ w[r].debit = s[r].debit /\ w[r].credit = s[r].credit
                           /\ w[r].amount = s[r].amount

\* A change of states that takes nothing from anybody: what was posted stays, and only what
\* was posted or held before is charged.
Loosened(s, w) ==
    /\ DOMAIN w = DOMAIN s
    /\ \A r \in DOMAIN s : /\ w[r].debit = s[r].debit /\ w[r].credit = s[r].credit
                           /\ w[r].amount = s[r].amount
                           /\ Posted(s[r]) => Posted(w[r])
                           /\ Posted(w[r]) \/ Pending(w[r]) => Posted(s[r]) \/ Pending(s[r])

\* The transfers that bring an account money.
CreditRows(s, a) == {r \in DOMAIN s : s[r].credit = a /\ Posted(s[r])}

\* Inserting transfer t: a hold, or a transfer to another account, leaves what was credited;
\* a validated one overdraws nobody.
InsertsOne(s, t, w) ==
    /\ TypedRows(w) /\ Grows(s, w)
    /\ \A a : t.timed = TRUE \/ t.credit # a => creditsPosted(w, a) = creditsPosted(s, a)
    /\ Solvent(s) /\ validateTransfer(s, t) => Solvent(w)

\* Loosening the states: nobody has less, and the destination at most what was posted more.
LoosensSums(s, w) ==
    /\ creditsPosted(s, Dst) <= creditsPosted(w, Dst)
    /\ Solvent(s) => Solvent(w)
    /\ CreditRows(w, Dst) = CreditRows(s, Dst) => creditsPosted(w, Dst) = creditsPosted(s, Dst)
    /\ \A y \in DOMAIN s : CreditRows(w, Dst) \subseteq CreditRows(s, Dst) \cup {y} =>
                               creditsPosted(w, Dst) <= creditsPosted(s, Dst) + s[y].amount

LedgerSums ==
    /\ \A s : TypedRows(s) => creditsPosted(s, Dst) \in Nat /\ getBalance(s, "dest") \in Int
    /\ \A s : \A t \in Transfer :
           TypedRows(s) /\ t.ref \notin DOMAIN s => InsertsOne(s, t, inserted(s, <<t>>))
    /\ \A s, w : TypedRows(s) /\ TypedRows(w) /\ Loosened(s, w) => LoosensSums(s, w)

\* Credits are worth what their amounts say, and one more adds its amount.
CreditSums ==
    /\ \A ps \in SUBSET Packet : \A f :
           (\A p \in ps : f[p].amount \in Nat) => Worths(f, ps) \in Nat
    /\ \A ps \in SUBSET Packet : \A f, g :
           (\A p \in ps : f[p].amount \in Nat /\ g[p].amount = f[p].amount) =>
               Worths(g, ps) = Worths(f, ps)
    /\ \A ps \in SUBSET Packet : \A q \in Packet : \A f :
           q \notin ps /\ (\A p \in ps \cup {q} : f[p].amount \in Nat) =>
               Worths(f, ps \cup {q}) = Worths(f, ps) + f[q].amount

\* Events announce a number, and one more adds its amount.
EventSums ==
    /\ \A es \in Seq(Event) : /\ Sum(es) \in Nat
                              /\ Len(es) = 0 => Sum(es) = 0
    /\ \A es, fs \in Seq(Event) :
           Len(fs) = Len(es) + 1 /\ (\A e \in 1..Len(es) : fs[e] = es[e]) =>
               Sum(fs) = Sum(es) + fs[Len(es) + 1].amount

-----------------------------------------------------------------------------
\* What the steps of a credit do.

\* The record of credit p, by how far the credit has come.
CreditIs(p) ==
    /\ pkt[p] \in CreditState /\ DOMAIN pkt = Packet
    /\ pkt[p].at \in Early => pkt[p] \in InFlight
    /\ pkt[p].at = "read" => pkt[p] \in Credited
    /\ pkt[p].at \in {"fulfilled", "rejected", "paid", "failed", "dead"} => pkt[p] \in Over
    /\ pkt[p].at \in At
    /\ pkt[p].at = "idle" <=> pkt[p] = Idle
    /\ pkt[p] # Idle => pkt[p].amount \in Nat /\ pkt[p].from \in Payers

\* Credit p comes to at, and is otherwise what it was.
CreditTo(p, at) ==
    /\ pkt' \in [Packet -> CreditState]
    /\ \A q \in Packet : q # p => pkt'[q] = pkt[q]
    /\ pkt'[p].at = at /\ pkt'[p] # Idle
    /\ pkt'[p].amount \in Nat /\ pkt'[p].from \in Payers
    /\ pkt[p] # Idle => pkt'[p].from = pkt[p].from /\ pkt'[p].amount = pkt[p].amount

AcceptEffect(p) ==
    /\ CacheType' /\ pkt[p] = Idle /\ pkt'[p].from = "peer"
    /\ \/ CreditTo(p, "checked") /\ received' = received + pkt'[p].amount
       \/ CreditTo(p, "rejected") /\ UNCHANGED received
    /\ UNCHANGED <<rows, dest, worker, events, calls, faults, hist>>

PayEffect(p) ==
    /\ pkt[p] = Idle /\ pkt'[p].from = "outgoing"
    /\ CreditTo(p, "checked") \/ CreditTo(p, "failed")
    /\ UNCHANGED <<rows, dest, objects, cached, received, worker, events, calls, faults, hist>>

ValidateEffect(p) ==
    /\ pkt[p].at = "checked" /\ pkt[p] # Idle
    /\ \/ CreditTo(p, "validated") /\ UNCHANGED received
       \/ pkt[p].from = "peer" /\ CreditTo(p, "rejected") /\ received' = received - pkt[p].amount
       \/ pkt[p].from # "peer" /\ CreditTo(p, "failed") /\ UNCHANGED received
    /\ UNCHANGED <<rows, dest, objects, cached, worker, events, calls, faults, hist>>

\* What createTransfers inserts for a credit: nothing from the destination, and at most one
\* transfer to it, of the credit's amount.
HoldOf(p, w) ==
    /\ TypedRows(w) /\ Grows(rows, w) /\ creditsPosted(w, Dst) = creditsPosted(rows, Dst)
    /\ \A r \in DOMAIN w \ DOMAIN rows :
           r[1] = p /\ w[r].amount = pkt[p].amount /\ w[r].debit # Dst
    /\ \A r, q \in DOMAIN w \ DOMAIN rows : w[r].credit = Dst /\ w[q].credit = Dst => r = q
    /\ Solvent(rows) /\ mayCreate(rows, transfersOf(p)) => Solvent(w)

HoldEffect(p) ==
    /\ pkt[p].at = "validated" /\ pkt[p] # Idle /\ CreditTo(p, "held") /\ HoldOf(p, rows')
    /\ refsOf(rows, p) = {}
    /\ HistType' /\ hist'.late = hist.late /\ hist'.skipped = hist.skipped
    /\ ~hist'.overtaken => ~hist.overtaken /\ mayCreate(rows, transfersOf(p))
    /\ UNCHANGED <<dest, objects, cached, received, worker, events, calls, faults>>

\* The transfers of a credit are posted, all or none.
PostEffect(p) ==
    /\ pkt[p].at = "held" /\ pkt[p] # Idle
    /\ TypedRows(rows') /\ Loosened(rows, rows')
    /\ \A r \in DOMAIN rows \ refsOf(rows, p) : rows'[r] = rows[r]
    /\ \/ /\ mayUpdate(rows, refsOf(rows, p)) /\ CreditTo(p, "posted")
          /\ hist'.late = IF tooLate THEN hist.late \cup {p} ELSE hist.late
       \/ /\ ~mayUpdate(rows, refsOf(rows, p)) /\ rows' = rows /\ hist'.late = hist.late
          /\ CreditTo(p, IF pkt[p].from = "peer" THEN "fulfilled" ELSE "failed")
    /\ HistType' /\ hist'.overtaken = hist.overtaken /\ hist'.skipped = hist.skipped
    /\ UNCHANGED <<dest, objects, cached, received, worker, events, calls, faults>>

ReadEffect(p) ==
    /\ pkt[p].at = "posted" /\ CreditTo(p, "read") /\ pkt'[p].total = total
    /\ UNCHANGED <<rows, dest, objects, cached, received, worker, events, calls, faults, hist>>

ReportEffect(p) ==
    /\ pkt[p].at = "read" /\ pkt[p] # Idle /\ ~locked
    /\ pkt[p].from = "peer" => CreditTo(p, "fulfilled")
    /\ pkt[p].from # "peer" => CreditTo(p, "paid")
    /\ CacheType'
    /\ HistType' /\ hist'.late = hist.late /\ hist'.overtaken = hist.overtaken
    /\ hist.skipped => hist'.skipped
    /\ ~isPayment /\ objects[pkt[p].object] /\ dest'.processAt = "null" => hist'.skipped
    /\ UNCHANGED <<rows, cached, received, worker, events, calls, faults>>

DieEffect(p) ==
    /\ pkt[p].at \in {"checked", "held", "posted", "read"} /\ pkt[p] # Idle
    /\ CreditTo(p, "dead") /\ faults' \in 0..MaxFaults
    /\ UNCHANGED <<rows, dest, objects, cached, received, worker, events, calls, hist>>

CreditFacts ==
    \A p \in Packet : Typed =>
        /\ CreditIs(p)
        /\ Accept(p) => AcceptEffect(p)
        /\ Pay(p) => PayEffect(p)
        /\ ValidateCredit(p) => ValidateEffect(p)
        /\ LedgerInv /\ HoldCredit(p) => HoldEffect(p)
        /\ LedgerInv /\ Post(p) => PostEffect(p)
        /\ ReadTotal(p) => ReadEffect(p)
        /\ OnCredit(p) => ReportEffect(p)
        /\ Die(p) => DieEffect(p)

-----------------------------------------------------------------------------
\* What the steps of a withdrawal and of a transfer do.

\* The withdrawals that begin: of an event, or of everything.
Begins(c, e, m, timed) ==
    /\ BeginWithdrawal(c, e, m, timed)
    /\ \/ e \in DOMAIN events /\ m = events[e].amount
       \/ isPayment /\ events # << >> /\ e = Len(events) /\ m = total
       \/ ~isPayment

BeginEffect(c, e, m) ==
    /\ CallsType' /\ calls[c] = Idle /\ m > 0
    /\ calls'[c] # Idle /\ calls'[c].event = e /\ calls'[c].amount = m
    /\ \A b \in Caller : b # c => calls'[b] = calls[b]
    /\ UNCHANGED <<rows, dest, objects, cached, pkt, received, worker, events, faults, hist>>

\* What a withdrawal inserts: nothing to the destination.
WithdrawnBy(e, m, w) ==
    /\ TypedRows(w) /\ Grows(rows, w) /\ creditsPosted(w, Dst) = creditsPosted(rows, Dst)
    /\ \A r \in DOMAIN w \ DOMAIN rows :
           r = <<"event", e>> /\ w[r].amount = m /\ w[r].credit # Dst

EndEffect(c) ==
    /\ calls[c] # Idle /\ CallsType' /\ calls'[c] = Idle
    /\ \A b \in Caller : b # c => calls'[b] = calls[b]
    /\ WithdrawnBy(calls[c].event, calls[c].amount, rows')
    /\ HistType' /\ hist'.late = hist.late /\ hist'.skipped = hist.skipped
    /\ ~hist'.overtaken => ~hist.overtaken /\ (Solvent(rows) => Solvent(rows'))
    /\ UNCHANGED <<dest, objects, cached, pkt, received, worker, events, faults>>

CallFacts ==
    \A c \in Caller : Typed =>
        /\ (\/ \E e \in DOMAIN events : withdrawEventLiquidity(c, e)
            \/ createIncomingPaymentWithdrawal(c) \/ createWalletAddressWithdrawal(c))
               => \E e \in Nat, m \in Nat, timed \in BOOLEAN : Begins(c, e, m, timed)
        /\ \A e \in Nat, m \in Nat, timed \in BOOLEAN :
               BeginWithdrawal(c, e, m, timed) => BeginEffect(c, e, m)
        /\ EndWithdrawal(c) => EndEffect(c)

UpdateEffect(r) ==
    /\ r[1] = "event" /\ TypedRows(rows') /\ Loosened(rows, rows')
    /\ \A q \in DOMAIN rows \ {r} : rows'[q] = rows[q]
    /\ UNCHANGED <<dest, objects, cached, pkt, received, worker, events, calls, faults, hist>>

LapseEffect ==
    /\ TypedRows(rows') /\ Loosened(rows, rows')
    /\ \A q \in DOMAIN rows : rows'[q].state = rows[q].state
    /\ UNCHANGED <<dest, objects, cached, pkt, received, worker, events, calls, faults, hist>>

RowFacts ==
    \A r \in DOMAIN rows : Typed =>
        /\ \A state \in {"POSTED", "VOIDED"} : UpdateWithdrawal(r, state) => UpdateEffect(r)
        /\ HoldLapses(r) => LapseEffect

-----------------------------------------------------------------------------
\* What the steps of an event and of the destination do.

AnnounceEffect(n) ==
    /\ EventsType' /\ Len(events') = Len(events) + 1 /\ events'[Len(events) + 1].amount = n
    /\ \A e \in 1..Len(events) : events'[e] = events[e]
    /\ Len(events) \in Nat

SendEffect ==
    /\ EventsType' /\ Len(events') = Len(events) /\ DOMAIN events' = DOMAIN events
    /\ \A i \in DOMAIN events : events'[i].amount = events[i].amount

EventFacts ==
    EventsType =>
        /\ \A n \in Nat \ {0} : announce(n) => AnnounceEffect(n)
        /\ \A e \in DOMAIN events, known \in BOOLEAN, done \in BOOLEAN :
               sendWebhook(e, known, done) => SendEffect

\* What a step does to an incoming payment.
Final == isPayment /\ dest.state \notin Open => dest'.state = dest.state /\ Len(events') <= 1

\* What the actions do to the destination's row.
TurnedAt(d, s, w) == [d EXCEPT !.state = s, !.processAt = w]
Scheduled(w) == dest' = [dest EXCEPT !.processAt = w]
Announced(n) == dest' = [dest EXCEPT !.totalEvents = n, !.processAt = "null"]

\* The actions that leave destination, worker and events alone.
Elsewhere == UNCHANGED <<dest, worker, events>>

\* Next, by what it does to them.
DestCases ==
    \/ Elsewhere
    \/ \E p \in Packet : OnCredit(p)
    \/ Due \/ completeIncomingPayment \/ ProcessNext \/ handleExpired
    \/ handleDeactivated \/ createWithdrawalEvent \/ WorkerDies
    \/ \E e \in DOMAIN events, known, done \in BOOLEAN : sendWebhook(e, known, done)

\* A payment changes its state and its schedule.
PaymentTurns(d, s, w) ==
    /\ TurnedAt(d, s, w) \in PaymentRow
    /\ TurnedAt(d, s, w).processAt = w
    /\ TurnedAt(d, s, w).state = s

DestFacts ==
    /\ [Next]_vars => DestCases
    /\ PaymentInv /\ [Next]_vars => PaymentInv' /\ Final
    /\ \A d \in PaymentRow, s \in Status, w \in When : PaymentTurns(d, s, w)

-----------------------------------------------------------------------------
\* What every step does to the money.

\* A credit is posted.
PostsAll(p) == Post(p) /\ mayUpdate(rows, refsOf(rows, p))

\* The total received only grows, by what is posted.
TotalStep ==
    /\ total \in Nat /\ total' \in Nat /\ total <= total'
    /\ total' = total \/ \E p \in Packet : PostsAll(p) /\ total' <= total + pkt[p].amount

\* What the late credits are worth only grows, and by what is posted if that is late.
LateStep ==
    /\ Late \in Nat /\ Late' \in Nat /\ Late <= Late'
    /\ tooLate => total' + Late <= total + Late'
=============================================================================
