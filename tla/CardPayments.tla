----------------------------- MODULE CardPayments -----------------------------
(* A card payment of Rafiki: the point of sale (packages/point-of-sale)      *)
(* creates an incoming payment, asks the card service (packages/             *)
(* card-service) for the money, and waits for the backend's webhook that it  *)
(* has arrived; the card service creates the outgoing payment and waits for  *)
(* the webhook that it was funded or cancelled.                              *)
(*                                                                           *)
(* Both waits are promises kept in a map from the request, with a timeout.   *)
(* How the backend moves the money is the subject of Sending and Receiving:  *)
(* here an outgoing payment is funded or not, an incoming one has received   *)
(* nothing, a part or all of its amount.                                     *)
EXTENDS Naturals

CONSTANTS
    CardRequest,
    Reachable,          \* requests whose card service can be reached
    WebhookMaxRetry,    \* attempts at a webhook
    MaxFaults           \* bound on lost connections, requests and answers

ASSUME CardAssumption ==
    Reachable \subseteq CardRequest /\ WebhookMaxRetry \in Nat \ {0} /\ MaxFaults \in Nat

VARIABLES
    polls,      \* config.pollIncomingPaymentCreatedWebhook
    pos,        \* where the point of sale's handler is, its answer at the end
    posMap,     \* webhookWaitMap
    posFired,   \* entries whose expiry timer has fired
    posEvent,   \* entries resolved by a webhook
    card,       \* where the card service's handler is, its answer at the end
    cardMap,    \* paymentWaitMap
    cardResult, \* what a deferred of it was resolved with
    incoming, outgoing,     \* the states of the backend's payments
    received,   \* what an incoming payment has received
    approved, cancelled,    \* incoming payments with an approvedAt, a cancelledAt
    byOwner,    \* incoming payments completed by a client
    announced,  \* ended incoming payments whose event is written
    hooks,      \* the backend's webhooks to be sent
    faults,
    unsure,     \* requests with a timeout or something lost
    heard       \* requests whose event the card service took before its answer

incomingVars == <<received, approved, cancelled, byOwner, announced>>
backend == <<incoming, outgoing, incomingVars>>
posVars == <<pos, posMap, posFired, posEvent>>
cardVars == <<card, cardMap, cardResult>>
paymentVars == <<polls, posVars, cardVars, backend, hooks, faults, unsure, heard>>

PosAnswers == {"approved", "invalid_signature", "error"}
CardAnswers == {"approved", "invalid_signature", "error", "timeout"}
Results == {"approved", "invalid_signature", "error"}
Hook == [to : {"card"}, of : CardRequest, type : {"funded", "cancelled", "cancelled_signature"},
         attempts : 0..(WebhookMaxRetry - 1)]
        \cup [to : {"pos"}, of : CardRequest, type : {"completed", "expired"},
              attempts : 0..(WebhookMaxRetry - 1)]

\* Handlers, maps, payments and webhooks hold values of their types; no webhook
\* is tried more often than configured.
CardTypeOK ==
    /\ polls \in BOOLEAN
    /\ pos \in [CardRequest -> {"start", "creating", "sending", "waiting"} \cup PosAnswers]
    /\ posMap \subseteq CardRequest /\ posFired \subseteq CardRequest
    /\ posEvent \subseteq CardRequest
    /\ card \in [CardRequest -> {"idle", "requested", "creating", "waiting"} \cup CardAnswers]
    /\ cardMap \subseteq CardRequest
    /\ cardResult \in [CardRequest -> {"none"} \cup Results]
    /\ incoming \in [CardRequest -> {"NONE", "PENDING", "PROCESSING", "COMPLETED", "EXPIRED",
                                "DELETED"}]
    /\ received \in [CardRequest -> {"none", "part", "all"}]
    /\ approved \subseteq CardRequest /\ cancelled \subseteq CardRequest
    /\ byOwner \subseteq CardRequest /\ announced \subseteq CardRequest
    /\ outgoing \in [CardRequest -> {"NONE", "FUNDING", "FUNDED", "CANCELLED"}]
    /\ hooks \subseteq Hook
    /\ faults \in 0..MaxFaults
    /\ unsure \subseteq CardRequest /\ heard \subseteq CardRequest

CardInit ==
    /\ polls \in BOOLEAN
    /\ pos = [q \in CardRequest |-> "start"]
    /\ posMap = {} /\ posFired = {} /\ posEvent = {}
    /\ card = [q \in CardRequest |-> "idle"]
    /\ cardMap = {}
    /\ cardResult = [q \in CardRequest |-> "none"]
    /\ incoming = [q \in CardRequest |-> "NONE"]
    /\ received = [q \in CardRequest |-> "none"]
    /\ approved = {} /\ cancelled = {} /\ byOwner = {} /\ announced = {}
    /\ outgoing = [q \in CardRequest |-> "NONE"]
    /\ hooks = {}
    /\ faults = 0
    /\ unsure = {} /\ heard = {}

Fault == faults < MaxFaults /\ faults' = faults + 1

\* The webhook the backend writes for an event, to one recipient.
hook(to, q, type) == [to |-> to, of |-> q, type |-> type, attempts |-> 0]

open(q) == incoming[q] \in {"PENDING", "PROCESSING"}

-----------------------------------------------------------------------------
(* The point of sale.                                                        *)

\* Every end of the handler takes its entry out of the map (finally).
answer(q, code) == pos' = [pos EXCEPT ![q] = code] /\ posMap' = posMap \ {q}

\* The incoming payment exists: the entry is made, its expiry timer started, and
\* the card service asked.
askCard(q) ==
    /\ pos' = [pos EXCEPT ![q] = "sending"]
    /\ posMap' = posMap \cup {q}
    /\ card' = [card EXCEPT ![q] = "requested"]

\* The wallet addresses are found and the backend asked for the incoming payment.
createIncomingPayment(q) ==
    /\ pos[q] = "start"
    /\ incoming' = [incoming EXCEPT ![q] = "PENDING"]
    /\ IF polls THEN pos' = [pos EXCEPT ![q] = "creating"] /\ UNCHANGED <<posMap, card>>
       ELSE askCard(q)
    /\ UNCHANGED <<polls, posFired, posEvent, cardMap, cardResult, outgoing, incomingVars, hooks,
                   faults,
                   unsure, heard>>

\* A wallet address, or the incoming payment, is refused.
LookupFails(q) ==
    /\ pos[q] = "start"
    /\ answer(q, "error")
    /\ UNCHANGED <<polls, posFired, posEvent, cardVars, backend, hooks, faults, unsure, heard>>

\* A row that answers the backend's poll for q: q's own, once approved, or any
\* cancelled one (the query is "id AND approvedAt OR cancelledAt").
answersPoll(r, q) ==
    /\ incoming[r] \notin {"NONE", "DELETED"}
    /\ (r = q /\ r \in approved) \/ r \in cancelled

\* createIncomingPayment's poll ends with row r.
PollAnswers(q, r) ==
    /\ pos[q] = "creating" /\ answersPoll(r, q)
    /\ IF r \in cancelled THEN answer(q, "error") /\ UNCHANGED card
       ELSE askCard(q)
    /\ UNCHANGED <<polls, posFired, posEvent, cardMap, cardResult, backend, hooks, faults,
                   unsure, heard>>

\* Nobody approves the payment in time.
PollTimesOut(q) ==
    /\ pos[q] = "creating"
    /\ answer(q, "error")
    /\ UNCHANGED <<polls, posFired, posEvent, cardVars, backend, hooks, faults, unsure, heard>>

\* setWithExpiry: the timer runs from the entry's creation.
EntryExpires(q) ==
    /\ q \in posMap
    /\ posMap' = posMap \ {q}
    /\ posFired' = posFired \cup {q}
    /\ unsure' = unsure \cup {q}
    /\ UNCHANGED <<polls, pos, posEvent, cardVars, backend, hooks, faults, heard>>

\* sendPayment returns or throws.
ReceiveResult(q) ==
    /\ pos[q] = "sending" /\ card[q] \in CardAnswers
    /\ CASE card[q] = "approved" -> pos' = [pos EXCEPT ![q] = "waiting"] /\ UNCHANGED posMap
         [] card[q] = "invalid_signature" -> answer(q, "invalid_signature")
         [] OTHER -> answer(q, "error")
    /\ UNCHANGED <<polls, posFired, posEvent, cardVars, backend, hooks, faults, unsure, heard>>

\* There is no connection to the card service.
CardUnreachable(q) ==
    /\ pos[q] = "sending" /\ q \notin Reachable
    /\ answer(q, "error")
    /\ UNCHANGED <<polls, posFired, posEvent, cardVars, backend, hooks, faults, unsure, heard>>

\* The connection to the card service breaks; its request may have arrived.
ConnectionLost(q) ==
    /\ pos[q] = "sending" /\ q \in Reachable
    /\ Fault
    /\ answer(q, "error")
    /\ unsure' = unsure \cup {q}
    /\ UNCHANGED <<polls, posFired, posEvent, cardVars, backend, hooks, heard>>

\* waitForIncomingPaymentEvent: the deferred, also one resolved before.
ReceiveEvent(q) ==
    /\ pos[q] = "waiting" /\ q \in posEvent
    /\ answer(q, "approved")
    /\ UNCHANGED <<polls, posFired, posEvent, cardVars, backend, hooks, faults, unsure, heard>>

\* The wait's own timer is as long as the entry's and starts later.
WaitTimesOut(q) ==
    /\ pos[q] = "waiting" /\ q \in posFired /\ q \notin posEvent
    /\ answer(q, "error")
    /\ UNCHANGED <<polls, posFired, posEvent, cardVars, backend, hooks, faults, unsure, heard>>

-----------------------------------------------------------------------------
(* The card service.                                                         *)

cardAnswer(q, code) == card' = [card EXCEPT ![q] = code] /\ cardMap' = cardMap \ {q}

\* The deferred is in the map before anything is asked of the backend.
handleCreatePayment(q) ==
    /\ card[q] = "requested" /\ q \in Reachable
    /\ card' = [card EXCEPT ![q] = "creating"]
    /\ cardMap' = cardMap \cup {q}
    /\ UNCHANGED <<polls, posVars, cardResult, backend, hooks, faults, unsure, heard>>

\* Mutant: the deferred is put into the map once the payment exists.
PaymentCreatedRegisters(q) ==
    /\ card[q] = "creating" /\ outgoing[q] # "NONE"
    /\ card' = [card EXCEPT ![q] = "waiting"]
    /\ cardResult' = [cardResult EXCEPT ![q] = "none"]
    /\ UNCHANGED <<polls, posVars, cardMap, backend, hooks, faults, unsure, heard>>

\* The backend's answer with the payment arrives, maybe after its event.
PaymentCreated(q) ==
    /\ card[q] = "creating" /\ outgoing[q] # "NONE"
    /\ card' = [card EXCEPT ![q] = "waiting"]
    /\ UNCHANGED <<polls, posVars, cardMap, cardResult, backend, hooks, faults, unsure, heard>>

\* The wallet address is unknown, or the payment is refused.
CreationFails(q) ==
    /\ card[q] = "creating" /\ outgoing[q] = "NONE"
    /\ cardAnswer(q, "error")
    /\ UNCHANGED <<polls, posVars, cardResult, backend, hooks, faults, unsure, heard>>

\* The answer with the payment is lost.
CreationUnknown(q) ==
    /\ card[q] = "creating" /\ outgoing[q] # "NONE"
    /\ Fault
    /\ cardAnswer(q, "error")
    /\ unsure' = unsure \cup {q}
    /\ UNCHANGED <<polls, posVars, cardResult, backend, hooks, heard>>

\* waitForPaymentEvent: the deferred, also one resolved before.
PaymentEventReceived(q) ==
    /\ card[q] = "waiting" /\ cardResult[q] # "none"
    /\ cardAnswer(q, cardResult[q])
    /\ UNCHANGED <<polls, posVars, cardResult, backend, hooks, faults, unsure, heard>>

\* Mutant: the wait has no timeout.
PaymentWaitForever(q) == FALSE /\ UNCHANGED paymentVars

PaymentTimesOut(q) ==
    /\ card[q] = "waiting" /\ cardResult[q] = "none"
    /\ cardAnswer(q, "timeout")
    /\ unsure' = unsure \cup {q}
    /\ UNCHANGED <<polls, posVars, cardResult, backend, hooks, faults, heard>>

-----------------------------------------------------------------------------
(* The backend, its account servicing entity and its workers.                *)

\* The account servicing entity approves or cancels the incoming payment.
approveIncomingPayment(q) ==
    /\ incoming[q] = "PENDING" /\ q \notin cancelled
    /\ approved' = approved \cup {q}
    /\ UNCHANGED <<polls, posVars, cardVars, incoming, outgoing, received, cancelled, byOwner,
                   announced, hooks, faults, unsure, heard>>

cancelIncomingPayment(q) ==
    /\ incoming[q] = "PENDING" /\ q \notin approved
    /\ cancelled' = cancelled \cup {q}
    /\ UNCHANGED <<polls, posVars, cardVars, incoming, outgoing, received, approved, byOwner,
                   announced, hooks, faults, unsure, heard>>

\* The card service's request: the quote needs an open receiver.
createOutgoingPaymentFromIncomingPayment(q) ==
    /\ card[q] = "creating" /\ outgoing[q] = "NONE"
    /\ open(q)
    /\ outgoing' = [outgoing EXCEPT ![q] = "FUNDING"]
    /\ UNCHANGED <<polls, posVars, cardVars, incoming, incomingVars, hooks, faults, unsure,
                   heard>>

\* The account servicing entity funds the payment; the event goes to the card
\* service alone.
fundPayment(q) ==
    /\ outgoing[q] = "FUNDING"
    /\ outgoing' = [outgoing EXCEPT ![q] = "FUNDED"]
    /\ hooks' = hooks \cup {hook("card", q, "funded")}
    /\ UNCHANGED <<polls, posVars, cardVars, incoming, incomingVars, faults, unsure, heard>>

\* Mutant: the payment's state is not looked at.
cancelFunded(q, type) ==
    /\ outgoing[q] \in {"FUNDING", "FUNDED"}
    /\ outgoing' = [outgoing EXCEPT ![q] = "CANCELLED"]
    /\ hooks' = hooks \cup {hook("card", q, type)}
    /\ UNCHANGED <<polls, posVars, cardVars, incoming, incomingVars, faults, unsure, heard>>

\* It cancels the payment, for a bad card signature or another reason.
cancelOutgoingPayment(q, type) ==
    /\ outgoing[q] = "FUNDING"
    /\ outgoing' = [outgoing EXCEPT ![q] = "CANCELLED"]
    /\ hooks' = hooks \cup {hook("card", q, type)}
    /\ UNCHANGED <<polls, posVars, cardVars, incoming, incomingVars, faults, unsure, heard>>

\* Money of the funded payment arrives: a part, or what is missing (onCredit).
onCredit(q, total) ==
    /\ outgoing[q] = "FUNDED" /\ open(q)
    /\ received[q] # total
    /\ received' = [received EXCEPT ![q] = total]
    /\ incoming' = [incoming EXCEPT ![q] = IF total = "all" THEN "COMPLETED" ELSE "PROCESSING"]
    /\ UNCHANGED <<polls, posVars, cardVars, outgoing, approved, cancelled, byOwner, announced,
                   hooks, faults, unsure, heard>>

\* A client completes the incoming payment before it has its amount.
completeIncomingPayment(q) ==
    /\ open(q)
    /\ incoming' = [incoming EXCEPT ![q] = "COMPLETED"]
    /\ byOwner' = byOwner \cup {q}
    /\ UNCHANGED <<polls, posVars, cardVars, outgoing, received, approved, cancelled, announced,
                   hooks, faults, unsure, heard>>

\* expiresAt has passed.
handleExpired(q) ==
    /\ open(q)
    /\ incoming' = [incoming EXCEPT ![q] = IF received[q] = "none" THEN "DELETED" ELSE "EXPIRED"]
    /\ UNCHANGED <<polls, posVars, cardVars, outgoing, incomingVars, hooks, faults, unsure,
                   heard>>

\* The worker writes the event of a payment that has received something, for
\* the point of sale too.
handleDeactivated(q) ==
    /\ incoming[q] \in {"COMPLETED", "EXPIRED"} /\ q \notin announced
    /\ announced' = announced \cup {q}
    /\ hooks' = IF received[q] = "none" THEN hooks
                ELSE hooks \cup {hook("pos", q, IF incoming[q] = "EXPIRED" THEN "expired"
                                               ELSE "completed")}
    /\ UNCHANGED <<polls, posVars, cardVars, incoming, outgoing, received, approved, cancelled,
                   byOwner, faults, unsure, heard>>

-----------------------------------------------------------------------------
(* Webhooks.                                                                 *)

toPaymentResolution(type) ==
    CASE type = "funded" -> "approved"
      [] type = "cancelled_signature" -> "invalid_signature"
      [] OTHER -> "error"

\* The card service's handlePaymentEvent: always 200; the first resolution of a
\* deferred is the one that counts.
handlePaymentEvent(h) ==
    /\ cardResult' = IF h.of \in cardMap /\ cardResult[h.of] = "none"
                     THEN [cardResult EXCEPT ![h.of] = toPaymentResolution(h.type)]
                     ELSE cardResult
    /\ heard' = IF card[h.of] \in {"creating", "waiting"} THEN heard \cup {h.of} ELSE heard
    /\ UNCHANGED posEvent

\* The point of sale's handleWebhook.
handleWebhook(h) ==
    /\ posEvent' = IF h.type = "completed" /\ h.of \in posMap THEN posEvent \cup {h.of}
                   ELSE posEvent
    /\ UNCHANGED <<cardResult, heard>>

receive(h) == IF h.to = "card" THEN handlePaymentEvent(h) ELSE handleWebhook(h)

\* The recipient's status is 200.
accepted(h) == h.to = "card" \/ (h.type = "completed" /\ h.of \in posMap)

\* A failed webhook comes back until its attempts are used up.
retried(h) ==
    IF h.attempts + 1 < WebhookMaxRetry
    THEN (hooks \ {h}) \cup
           {[to |-> h.to, of |-> h.of, type |-> h.type, attempts |-> h.attempts + 1]}
    ELSE hooks \ {h}

\* processNextWebhook, sendWebhook.
processNextWebhook(h) ==
    /\ h \in hooks
    /\ receive(h)
    /\ hooks' = IF accepted(h) THEN hooks \ {h} ELSE retried(h)
    /\ UNCHANGED <<polls, pos, posMap, posFired, card, cardMap, backend, faults, unsure>>

\* The request is lost on its way, or its answer is and it is sent again.
WebhookLost(h, arrives) ==
    /\ h \in hooks
    /\ Fault
    /\ IF arrives THEN receive(h) ELSE UNCHANGED <<posEvent, cardResult, heard>>
    /\ hooks' = retried(h)
    /\ unsure' = unsure \cup {h.of}
    /\ UNCHANGED <<polls, pos, posMap, posFired, card, cardMap, backend>>

-----------------------------------------------------------------------------
PosStep(q) ==
    \/ \E r \in CardRequest : PollAnswers(q, r)
    \/ PollTimesOut(q) \/ EntryExpires(q) \/ CardUnreachable(q)
    \/ ReceiveResult(q) \/ ReceiveEvent(q) \/ WaitTimesOut(q)

CardStep(q) ==
    \/ handleCreatePayment(q) \/ PaymentCreated(q) \/ CreationFails(q)
    \/ PaymentEventReceived(q) \/ PaymentTimesOut(q)

BackendStep(q) ==
    \/ approveIncomingPayment(q) \/ cancelIncomingPayment(q)
    \/ createOutgoingPaymentFromIncomingPayment(q)
    \/ fundPayment(q)
    \/ cancelOutgoingPayment(q, "cancelled") \/ cancelOutgoingPayment(q, "cancelled_signature")
    \/ onCredit(q, "part") \/ onCredit(q, "all")
    \/ completeIncomingPayment(q) \/ handleExpired(q) \/ handleDeactivated(q)

CardNext ==
    \/ \E q \in CardRequest :
         \/ createIncomingPayment(q) \/ LookupFails(q) \/ ConnectionLost(q) \/ CreationUnknown(q)
         \/ PosStep(q) \/ CardStep(q) \/ BackendStep(q)
    \/ \E h \in hooks : processNextWebhook(h) \/ WebhookLost(h, TRUE) \/ WebhookLost(h, FALSE)

CardSpec ==
    /\ CardInit /\ [][CardNext]_paymentVars
    /\ \A q \in CardRequest : WF_paymentVars(PosStep(q)) /\ WF_paymentVars(CardStep(q))

-----------------------------------------------------------------------------
\* What the point of sale approves was funded and has been received, completely
\* unless a client completed the incoming payment before.
ApprovedIsPaid ==
    \A q \in CardRequest : pos[q] = "approved" =>
        /\ outgoing[q] = "FUNDED"
        /\ incoming[q] = "COMPLETED"
        /\ received[q] = "all" \/ q \in byOwner

\* A payment answered with a bad signature is cancelled, and no money of it
\* arrives.
InvalidSignatureUnpaid ==
    \A q \in CardRequest : "invalid_signature" \in {pos[q], card[q]} =>
        outgoing[q] = "CANCELLED" /\ received[q] = "none"

\* Where nothing timed out or got lost, an error at the point of sale means that
\* no money was taken.
ErrorMeansUnpaid ==
    \A q \in CardRequest : pos[q] = "error" /\ q \notin unsure => outgoing[q] # "FUNDED"

\* The answer of the point of sale says what became of the money.
AnswersMatchMoney == ApprovedIsPaid /\ InvalidSignatureUnpaid /\ ErrorMeansUnpaid

\* The card service is asked only for incoming payments that their account
\* servicing entity has approved and not cancelled, if it is asked at all.
AskedIsApproved ==
    \A q \in CardRequest : polls /\ card[q] # "idle" => q \in approved /\ q \notin cancelled

\* No event that reaches the card service during a request is lost to it, also
\* one that overtakes the answer with the payment.
HeardIsAnswered == \A q \in CardRequest : q \in heard => card[q] # "timeout"

\* An answered request leaves nothing in the maps.
NoEntryLeaks ==
    \A q \in CardRequest :
        /\ pos[q] \in PosAnswers => q \notin posMap
        /\ card[q] \in CardAnswers => q \notin cardMap

\* Every request at the point of sale is answered, whatever the account
\* servicing entity, the card service's peers and the webhooks do.
EveryRequestAnswered == \A q \in CardRequest : pos[q] # "start" ~> pos[q] \in PosAnswers
=============================================================================
