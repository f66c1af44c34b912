--------------------------- MODULE EndpointProofs ---------------------------
(***************************************************************************)
(* Where payments begin and where they end.  First card payments at a      *)
(* point of sale: the safety properties of CardPayments for any requests,  *)
(* faults and number of attempts, from one inductive invariant.  Then the  *)
(* contracts by themselves, called by anybody with any ids and amounts: a  *)
(* payment id is paid once and the vault's books balance.  Last the        *)
(* receiver that pays through them, for every set of packets, any number   *)
(* of payout tasks, crashes, lost JSON-RPC calls and interventions of the  *)
(* owner: its payouts are owed, made at most once, and behave like         *)
(* PayoutPromise.                                                          *)
(***************************************************************************)
EXTENDS ReceiverPayout, CardPayments, SequenceTheorems, SumTheorems, TLAPS

\* Whatever has received money was funded; an incoming payment that is complete
\* without its amount was completed by its owner.
MoneyInv ==
    \A q \in CardRequest :
        /\ received[q] # "none" => outgoing[q] = "FUNDED"
        /\ incoming[q] = "COMPLETED" => received[q] = "all" \/ q \in byOwner

\* A webhook says what has happened, and what it says stays true.
HooksInv ==
    \A h \in hooks :
        /\ h.type = "funded" => outgoing[h.of] = "FUNDED"
        /\ h.type \in {"cancelled", "cancelled_signature"} => outgoing[h.of] = "CANCELLED"
        /\ h.type = "completed" =>
             incoming[h.of] = "COMPLETED" /\ received[h.of] # "none"

\* The card service's results and answers rest on webhooks; without one it
\* answers an error only if there is no payment, unless something was lost.
CardInv ==
    \A q \in CardRequest :
        /\ "approved" \in {cardResult[q], card[q]} => outgoing[q] = "FUNDED"
        /\ "invalid_signature" \in {cardResult[q], card[q]} => outgoing[q] = "CANCELLED"
        /\ cardResult[q] = "error" => outgoing[q] = "CANCELLED"
        /\ card[q] \in {"idle", "requested"} => outgoing[q] = "NONE"
        /\ q \notin Reachable => card[q] \in {"idle", "requested"}
        /\ card[q] = "error" /\ q \notin unsure => outgoing[q] \in {"NONE", "CANCELLED"}
        /\ card[q] = "timeout" => q \in unsure

\* The deferred is in the map while the card service is at work, and holds the
\* event it has heard of.
CardMapInv ==
    \A q \in CardRequest :
        /\ q \in cardMap <=> card[q] \in {"creating", "waiting"}
        /\ q \in heard => card[q] \in {"creating", "waiting"} \cup CardAnswers
        /\ q \in heard /\ card[q] \in {"creating", "waiting"} => cardResult[q] # "none"
        /\ q \in heard => card[q] # "timeout"

\* How far the point of sale is says how far the card service is.
PosInv ==
    \A q \in CardRequest :
        /\ pos[q] \in {"start", "creating"} => card[q] = "idle"
        /\ pos[q] = "waiting" => card[q] = "approved"
        /\ pos[q] = "invalid_signature" => card[q] = "invalid_signature"
        /\ pos[q] = "error" /\ q \notin unsure =>
             card[q] \in {"idle", "error"} \/ (card[q] = "requested" /\ q \notin Reachable)
        /\ pos[q] = "approved" => q \in posEvent
        /\ q \in posEvent =>
             incoming[q] = "COMPLETED" /\ received[q] # "none"
        /\ q \in posFired => q \in unsure
        /\ q \in posMap => pos[q] \in {"sending", "waiting"}

\* A cancelled incoming payment was never approved, and the other way round.
ApprovalInv ==
    \A q \in CardRequest :
        /\ ~(q \in approved /\ q \in cancelled)
        /\ polls /\ card[q] # "idle" => q \in approved

\* The inductive invariant.
CardPaymentsInv == CardTypeOK /\ MoneyInv /\ HooksInv /\ CardInv /\ CardMapInv /\ PosInv /\ ApprovalInv

\* The point of sale's steps preserve the invariant.
LEMMA PosPreserves ==
    ASSUME CardPaymentsInv, NEW q \in CardRequest,
           createIncomingPayment(q) \/ LookupFails(q) \/ ConnectionLost(q) \/ PosStep(q)
    PROVE  CardPaymentsInv'
  <1> USE CardAssumption DEF CardPaymentsInv, CardTypeOK, MoneyInv, HooksInv, CardInv, CardMapInv,
            PosInv, ApprovalInv,
             Hook, Results, CardAnswers, PosAnswers, posVars, cardVars, backend, incomingVars
  <1>1. CASE createIncomingPayment(q)
    BY <1>1 DEF createIncomingPayment, askCard
  <1>2. CASE LookupFails(q)
    BY <1>2 DEF LookupFails, answer
  <1>3. ASSUME NEW r \in CardRequest, PollAnswers(q, r)
        PROVE  CardPaymentsInv'
    BY <1>3 DEF PollAnswers, answersPoll, answer, askCard
  <1>4. CASE PollTimesOut(q)
    BY <1>4 DEF PollTimesOut, answer
  <1>5. CASE EntryExpires(q)
    BY <1>5 DEF EntryExpires
  <1>6. CASE CardUnreachable(q)
    BY <1>6 DEF CardUnreachable, answer
  <1>7. CASE ReceiveResult(q)
    BY <1>7 DEF ReceiveResult, answer
  <1>8. CASE ConnectionLost(q)
    BY <1>8 DEF ConnectionLost, answer, Fault
  <1>9. CASE ReceiveEvent(q)
    BY <1>9 DEF ReceiveEvent, answer
  <1>10. CASE WaitTimesOut(q)
    BY <1>10 DEF WaitTimesOut, answer
  <1> QED BY Zenon, <1>1, <1>2, <1>3, <1>4, <1>5, <1>6, <1>7, <1>8, <1>9, <1>10 DEF PosStep

\* The card service's steps preserve the invariant.
LEMMA CardPreserves ==
    ASSUME CardPaymentsInv, NEW q \in CardRequest, CreationUnknown(q) \/ CardStep(q)
    PROVE  CardPaymentsInv'
  <1> USE CardAssumption DEF CardPaymentsInv, CardTypeOK, MoneyInv, HooksInv, CardInv, CardMapInv,
            PosInv, ApprovalInv,
             Hook, Results, CardAnswers, PosAnswers, posVars, cardVars, backend, incomingVars
  <1>1. CASE handleCreatePayment(q)
    BY <1>1 DEF handleCreatePayment
  <1>2. CASE PaymentCreated(q)
    BY <1>2 DEF PaymentCreated
  <1>3. CASE CreationFails(q)
    BY <1>3 DEF CreationFails, cardAnswer
  <1>4. CASE CreationUnknown(q)
    BY <1>4 DEF CreationUnknown, cardAnswer, Fault
  <1>5. CASE PaymentEventReceived(q)
    BY <1>5 DEF PaymentEventReceived, cardAnswer
  <1>6. CASE PaymentTimesOut(q)
    BY <1>6 DEF PaymentTimesOut, cardAnswer
  <1> QED BY Zenon, <1>1, <1>2, <1>3, <1>4, <1>5, <1>6 DEF CardStep

\* The backend's steps preserve the invariant.
LEMMA BackendPreserves ==
    ASSUME CardPaymentsInv, NEW q \in CardRequest, BackendStep(q)
    PROVE  CardPaymentsInv'
  <1> USE CardAssumption DEF CardPaymentsInv, CardTypeOK, MoneyInv, HooksInv, CardInv, CardMapInv,
            PosInv, ApprovalInv,
             Hook, Results, CardAnswers, PosAnswers, posVars, cardVars, backend, incomingVars
  <1>1. CASE approveIncomingPayment(q)
    BY <1>1 DEF approveIncomingPayment
  <1>2. CASE cancelIncomingPayment(q)
    BY <1>2 DEF cancelIncomingPayment
  <1>3. CASE createOutgoingPaymentFromIncomingPayment(q)
    BY <1>3 DEF createOutgoingPaymentFromIncomingPayment, open
  <1>4. CASE fundPayment(q)
    BY <1>4 DEF fundPayment, hook
  <1>5. ASSUME NEW type \in {"cancelled", "cancelled_signature"}, cancelOutgoingPayment(q, type)
        PROVE  CardPaymentsInv'
    BY <1>5 DEF cancelOutgoingPayment, hook
  <1>6. ASSUME NEW total \in {"part", "all"}, onCredit(q, total)
        PROVE  CardPaymentsInv'
    BY <1>6 DEF onCredit, open
  <1>7. CASE completeIncomingPayment(q)
    BY <1>7 DEF completeIncomingPayment, open
  <1>8. CASE handleExpired(q)
    BY <1>8 DEF handleExpired, open
  <1>9. CASE handleDeactivated(q)
    BY <1>9 DEF handleDeactivated, hook
  <1> QED BY Zenon, <1>1, <1>2, <1>3, <1>4, <1>5, <1>6, <1>7, <1>8, <1>9 DEF BackendStep

\* A webhook that arrives, and one that comes back, preserve the invariant.
LEMMA WebhookPreserves ==
    ASSUME CardPaymentsInv, NEW h \in hooks,
           processNextWebhook(h) \/ WebhookLost(h, TRUE) \/ WebhookLost(h, FALSE)
    PROVE  CardPaymentsInv'
  <1> USE CardAssumption DEF CardPaymentsInv, CardTypeOK, MoneyInv, HooksInv, CardInv, CardMapInv,
            PosInv, ApprovalInv,
             Hook, Results, CardAnswers, PosAnswers, posVars, cardVars, backend, incomingVars
  <1>1. retried(h) \subseteq Hook
    BY DEF retried
  <1>2. \A g \in retried(h) : \E f \in hooks : g.of = f.of /\ g.type = f.type
    BY DEF retried
  <1>3. CASE processNextWebhook(h)
    BY <1>1, <1>2, <1>3 DEF processNextWebhook, receive, accepted, handlePaymentEvent, handleWebhook,
                            toPaymentResolution
  <1>4. ASSUME NEW arrives \in BOOLEAN, WebhookLost(h, arrives)
        PROVE  CardPaymentsInv'
    BY <1>1, <1>2, <1>4 DEF WebhookLost, Fault, receive, handlePaymentEvent, handleWebhook,
                            toPaymentResolution
  <1> QED BY Zenon, <1>3, <1>4

\* The invariant is one of CardPayments.
THEOREM CardInvariant == CardSpec => []CardPaymentsInv
  <1>1. CardInit => CardPaymentsInv
    BY CardAssumption DEF CardInit, CardPaymentsInv, CardTypeOK, MoneyInv, HooksInv, CardInv,
          CardMapInv, PosInv, ApprovalInv,
             Hook, Results, CardAnswers, PosAnswers, posVars, cardVars, backend, incomingVars
  <1>2. CardPaymentsInv /\ [CardNext]_paymentVars => CardPaymentsInv'
    <2> SUFFICES ASSUME CardPaymentsInv, [CardNext]_paymentVars PROVE CardPaymentsInv'
      BY Zenon
    <2>1. CASE CardNext
      BY Zenon, <2>1, PosPreserves, CardPreserves, BackendPreserves, WebhookPreserves DEF CardNext
    <2>2. CASE UNCHANGED paymentVars
      BY Zenon, <2>2 DEF paymentVars, CardPaymentsInv, CardTypeOK, MoneyInv, HooksInv, CardInv,
            CardMapInv, PosInv, ApprovalInv,
             Hook, Results, CardAnswers, PosAnswers, posVars, cardVars, backend, incomingVars
    <2> QED BY Zenon, <2>1, <2>2
  <1> QED BY <1>1, <1>2, PTL DEF CardSpec

\* Handlers, maps, payments and webhooks always hold values of their types.
THEOREM CardTypeCorrect == CardSpec => []CardTypeOK
  <1>1. CardPaymentsInv => CardTypeOK
    BY Zenon DEF CardPaymentsInv
  <1> QED BY <1>1, CardInvariant, PTL

\* The point of sale's payment handler approves only what was funded and
\* received; a payment answered with a bad signature is cancelled and stays
\* unpaid; where no timer fired and nothing got lost, an error means that the
\* outgoing payment was not funded.
THEOREM AnswersMatchMoneyAlways == CardSpec => []AnswersMatchMoney
  <1>1. CardPaymentsInv => ApprovedIsPaid
    BY Zenon DEF CardPaymentsInv, MoneyInv, PosInv, ApprovedIsPaid
  <1>2. CardPaymentsInv => InvalidSignatureUnpaid
    BY Zenon DEF CardPaymentsInv, MoneyInv, CardInv, PosInv, InvalidSignatureUnpaid
  <1>3. CardPaymentsInv => ErrorMeansUnpaid
    BY Zenon DEF CardPaymentsInv, CardInv, PosInv, ErrorMeansUnpaid
  <1> QED BY <1>1, <1>2, <1>3, CardInvariant, PTL DEF AnswersMatchMoney

\* A backend that polls lets the card service be asked for approved incoming
\* payments alone.
THEOREM AskedIsApprovedAlways == CardSpec => []AskedIsApproved
  <1>1. CardPaymentsInv => AskedIsApproved
    BY Zenon DEF CardPaymentsInv, ApprovalInv, AskedIsApproved
  <1> QED BY <1>1, CardInvariant, PTL

\* The card service never times out on a request whose event it was sent before.
THEOREM HeardIsAnsweredAlways == CardSpec => []HeardIsAnswered
  <1>1. CardPaymentsInv => HeardIsAnswered
    BY Zenon DEF CardPaymentsInv, CardMapInv, HeardIsAnswered
  <1> QED BY <1>1, CardInvariant, PTL

\* No answered request is left in a map.
THEOREM NoEntryLeaksAlways == CardSpec => []NoEntryLeaks
  <1>1. CardPaymentsInv => NoEntryLeaks
    BY Zenon DEF CardPaymentsInv, CardMapInv, PosInv, PosAnswers, CardAnswers, NoEntryLeaks
  <1> QED BY <1>1, CardInvariant, PTL

-----------------------------------------------------------------------------
(***************************************************************************)
(* The inductive invariant.  OnePayoutPerId alone is not inductive: only   *)
(* because every paid id is marked used does the check of payoutToUser     *)
(* exclude a second payout.  The books need the types and nothing else.    *)
(***************************************************************************)
ContractInv == TypeOK /\ UsedIffPaid /\ OnePayoutPerId

(***************************************************************************)
(* What a transfer of the token does to the balances (ERC20._update): they *)
(* stay natural numbers when the sender has the amount, and their sum the  *)
(* same.                                                                   *)
(***************************************************************************)
LEMMA ContractMoved ==
    ASSUME IsFiniteSet(Address), balanceOf \in [Address -> Nat],
           NEW from \in Address, NEW to \in Address,
           NEW amount \in Nat, balanceOf[from] >= amount
    PROVE  /\ Moved(from, to, amount) \in [Address -> Nat]
           /\ SumFunction(Moved(from, to, amount)) = SumFunction(balanceOf)
           /\ \A a \in Address : Moved(from, to, amount)[a] =
                  balanceOf[a] - (IF a = from THEN amount ELSE 0) + (IF a = to THEN amount ELSE 0)
<1> DEFINE g == [balanceOf EXCEPT ![from] = balanceOf[from] - amount]
           h == [g EXCEPT ![to] = g[to] + amount]
<1>1. Moved(from, to, amount) = h
  BY Zenon DEF Moved
<1>2. /\ g \in [Address -> Nat] /\ g[from] = balanceOf[from] - amount
      /\ \A a \in Address : a # from => g[a] = balanceOf[a]
  OBVIOUS
<1>3. SumFunctionOnSet(g, Address) = SumFunctionOnSet(balanceOf, Address) - balanceOf[from] + g[from]
  <2> HIDE DEF g
  <2>1. \A a \in Address : balanceOf[a] \in Int /\ g[a] \in Int
    BY <1>2
  <2> QED
    BY <1>2, <2>1, SumChange
<1> HIDE DEF g
<1>4. /\ h \in [Address -> Nat] /\ h[to] = g[to] + amount
      /\ \A a \in Address : a # to => h[a] = g[a]
  BY <1>2
<1>5. SumFunctionOnSet(h, Address) = SumFunctionOnSet(g, Address) - g[to] + h[to]
  <2> HIDE DEF h
  <2>1. \A a \in Address : h[a] \in Int /\ g[a] \in Int
    BY <1>2, <1>4
  <2> QED
    BY <1>4, <2>1, SumChange
<1> HIDE DEF h
<1>6. SumFunctionOnSet(balanceOf, Address) \in Int
  <2>1. \A a \in Address : balanceOf[a] \in Int
    OBVIOUS
  <2> QED
    BY Zenon, <2>1, SumType
<1>7. /\ SumFunction(h) = SumFunctionOnSet(h, Address)
      /\ SumFunction(balanceOf) = SumFunctionOnSet(balanceOf, Address)
  BY Zenon, <1>4 DEF SumFunction
<1>8. /\ g[from] \in Nat /\ g[to] \in Nat /\ h[to] \in Nat /\ balanceOf[from] \in Nat
  BY Zenon, <1>2, <1>4
<1>9. SumFunction(h) = SumFunction(balanceOf)
  BY <1>2, <1>3, <1>4, <1>5, <1>6, <1>7, <1>8
<1> QED
  BY <1>1, <1>2, <1>4, <1>9

(***************************************************************************)
(* The constructors and the deploy script establish the invariant.         *)
(***************************************************************************)
LEMMA ContractInit == Init => ContractInv
<1> SUFFICES ASSUME Init PROVE ContractInv
  BY Zenon
<1> USE AddressAssumption, AmountAssumption DEF Init
<1>1. TypeOK
  BY DEF TypeOK, Contract
<1>2. UsedIffPaid
  BY DEF UsedIffPaid
<1>3. OnePayoutPerId
  BY DEF OnePayoutPerId
<1> QED
  BY Zenon, <1>1, <1>2, <1>3 DEF ContractInv

(***************************************************************************)
(* payoutToUser preserves the invariant: the id it appends to the log is   *)
(* fresh, and it is marked used in the same transaction.                   *)
(***************************************************************************)
LEMMA ContractPayout ==
    ASSUME ContractInv, NEW sender \in Address, NEW id \in PaymentId, NEW to \in Address,
           NEW amount \in Amount, PayoutToUser(sender, id, to, amount)
    PROVE  ContractInv'
<1> DEFINE e == [paymentId |-> id, recipient |-> to, amount |-> amount, operator |-> sender]
<1> USE AddressAssumption, AmountAssumption
<1>1. /\ TypeOK /\ UsedIffPaid /\ OnePayoutPerId
      /\ payoutLog' = Append(payoutLog, e)
      /\ usedPaymentIds' = usedPaymentIds \union {id}
      /\ id \notin usedPaymentIds
  BY Zenon DEF ContractInv, PayoutToUser, PayoutAllowed, MarkUsed
<1>2. e \in PayoutExecuted
  BY Zenon DEF PayoutExecuted
<1>3. TypeOK'
  <2>1. balanceOf' \in [Address -> Nat] /\ totalSupply' = totalSupply
    BY Zenon, <1>1, ContractMoved, AddressAssumption DEF PayoutToUser, SafeTransfer, TypeOK
  <2>2. payoutLog' \in Seq(PayoutExecuted)
    BY <1>1, <1>2 DEF TypeOK
  <2> QED
    BY Zenon, <1>1, <2>1, <2>2 DEF TypeOK, PayoutToUser
<1>4. /\ Len(payoutLog) \in Nat
      /\ Len(payoutLog') = Len(payoutLog) + 1
      /\ payoutLog'[Len(payoutLog) + 1] = e
      /\ \A i \in 1..Len(payoutLog) : payoutLog'[i] = payoutLog[i]
  BY <1>1, <1>2 DEF TypeOK
<1>5. UsedIffPaid'
  <2>1. \A i \in 1..Len(payoutLog') : payoutLog'[i].paymentId \in usedPaymentIds'
    BY <1>1, <1>4 DEF UsedIffPaid
  <2>2. \A x \in usedPaymentIds' : \E i \in 1..Len(payoutLog') : payoutLog'[i].paymentId = x
    <3> TAKE x \in usedPaymentIds'
    <3>1. CASE x = id
      BY <1>4, <3>1
    <3>2. CASE x \in usedPaymentIds
      <4>1. PICK i \in 1..Len(payoutLog) : payoutLog[i].paymentId = x
        BY Zenon, <1>1, <3>2 DEF UsedIffPaid
      <4> QED
        BY <1>4, <4>1
    <3> QED
      BY Zenon, <1>1, <3>1, <3>2
  <2> QED
    BY Zenon, <2>1, <2>2 DEF UsedIffPaid
<1>6. OnePayoutPerId'
  <2>1. \A i \in 1..Len(payoutLog) : payoutLog'[i].paymentId # id
    BY Zenon, <1>1, <1>4 DEF UsedIffPaid
  <2> QED
    BY <1>1, <1>4, <2>1 DEF OnePayoutPerId
<1> QED
  BY Zenon, <1>3, <1>5, <1>6 DEF ContractInv

(***************************************************************************)
(* Every other function of the contracts leaves the log and the used ids   *)
(* alone, so only the types are to be shown.                               *)
(***************************************************************************)
LEMMA ContractNext == ContractInv /\ [Next]_vars => ContractInv'
<1> SUFFICES ASSUME ContractInv, [Next]_vars PROVE ContractInv'
  BY Zenon
<1> USE AddressAssumption, AmountAssumption
<1>1. TypeOK /\ UsedIffPaid /\ OnePayoutPerId
  BY Zenon DEF ContractInv
<1>2. ASSUME TypeOK', UNCHANGED <<usedPaymentIds, payoutLog>> PROVE ContractInv'
  BY Zenon, <1>1, <1>2 DEF ContractInv, UsedIffPaid, OnePayoutPerId
<1>3. CASE UNCHANGED vars
  BY Zenon, <1>1, <1>2, <1>3 DEF vars, vaultVars, tokenVars, TypeOK
<1>4. ASSUME NEW sender \in Caller, NEW id \in PaymentId, NEW to \in Address,
             NEW amount \in Amount, PayoutToUser(sender, id, to, amount)
      PROVE  ContractInv'
  BY Zenon, <1>4, ContractPayout DEF Caller
<1>5. ASSUME NEW sender \in Caller, NEW operator \in Address,
             AddOperator(sender, operator) \/ RemoveOperator(sender, operator)
      PROVE  ContractInv'
  BY Zenon, <1>1, <1>2, <1>5 DEF AddOperator, RemoveOperator, TypeOK, tokenVars
<1>6. ASSUME NEW sender \in Caller, NEW to \in Address, NEW amount \in Amount,
             Withdraw(sender, to, amount)
      PROVE  ContractInv'
  <2>1. balanceOf' \in [Address -> Nat] /\ totalSupply' = totalSupply
    BY Zenon, <1>1, <1>6, ContractMoved, AddressAssumption DEF Withdraw, SafeTransfer, TypeOK
  <2> QED
    BY <1>1, <1>2, <1>6, <2>1 DEF Withdraw, Outflow, TypeOK
<1>7. ASSUME NEW sender \in Caller, NEW to \in Address, NEW amount \in Amount,
             Mint(sender, to, amount)
      PROVE  ContractInv'
  BY <1>1, <1>2, <1>7 DEF Mint, TypeOK
<1>8. ASSUME NEW sender \in Caller, NEW amount \in Amount, Burn(sender, amount)
      PROVE  ContractInv'
  <2>1. balanceOf' \in [Address -> Nat]
    BY <1>1, <1>8 DEF Burn, Caller, TypeOK
  <2> QED
    BY <1>1, <1>2, <1>8, <2>1 DEF Burn, vaultVars, TypeOK
<1>9. ASSUME NEW sender \in Caller, NEW to \in Address, NEW amount \in Amount,
             Transfer(sender, to, amount)
      PROVE  ContractInv'
  <2>1. balanceOf' \in [Address -> Nat]
    BY Zenon, <1>1, <1>9, ContractMoved, AddressAssumption DEF Transfer, Caller, TypeOK
  <2> QED
    BY <1>1, <1>2, <1>9, <2>1 DEF Transfer, TypeOK
<1>10. ASSUME NEW sender \in Caller, NEW c \in Contract, NEW newOwner \in Address,
              TransferOwnership(c, sender, newOwner)
       PROVE  ContractInv'
  BY Zenon, <1>1, <1>2, <1>10 DEF TransferOwnership, TypeOK, tokenVars
<1> QED
  BY Zenon, <1>3, <1>4, <1>5, <1>6, <1>7, <1>8, <1>9, <1>10 DEF Next

(***************************************************************************)
(* The books.  What the log says was paid out is a sum over its entries,   *)
(* and one more entry adds its amount.                                     *)
(***************************************************************************)
LEMMA PaidOutType ==
    ASSUME TypeOK
    PROVE  /\ PaidOut \in [1..Len(payoutLog) -> Nat]
           /\ SumFunction(PaidOut) = SumFunctionOnSet(PaidOut, 1..Len(payoutLog))
           /\ IsFiniteSet(1..Len(payoutLog)) /\ Len(payoutLog) \in Nat
           /\ SumFunction(PaidOut) \in Int
<1>1. PaidOut \in [1..Len(payoutLog) -> Nat] /\ Len(payoutLog) \in Nat
  <2>1. DOMAIN payoutLog = 1..Len(payoutLog) /\ Len(payoutLog) \in Nat
    BY DEF TypeOK
  <2>2. \A i \in 1..Len(payoutLog) : payoutLog[i] \in PayoutExecuted
    BY DEF TypeOK
  <2>3. \A i \in 1..Len(payoutLog) : payoutLog[i].amount \in Nat
    BY Zenon, <2>2, AmountAssumption DEF PayoutExecuted
  <2> QED
    BY Zenon, <2>1, <2>3 DEF PaidOut, Outflow
<1>2. IsFiniteSet(1..Len(payoutLog))
  BY <1>1, FS_Interval
<1>3. \A i \in 1..Len(payoutLog) : PaidOut[i] \in Int
  BY <1>1
<1>4. SumFunctionOnSet(PaidOut, 1..Len(payoutLog)) \in Int
  BY Zenon, <1>2, <1>3, SumType
<1> QED
  BY Zenon, <1>1, <1>2, <1>4 DEF SumFunction

\* A payout adds what it takes out of the vault to the sum of the payouts.
LEMMA PaidOutAppend ==
    ASSUME TypeOK, TypeOK',
           NEW e \in PayoutExecuted, payoutLog' = Append(payoutLog, e)
    PROVE  SumFunction(PaidOut') = SumFunction(PaidOut) + Outflow(e.recipient, e.amount)
<1> DEFINE n == Len(payoutLog)
           f == PaidOut
           g == PaidOut'
<1>1. /\ f \in [1..n -> Nat] /\ n \in Nat /\ IsFiniteSet(1..n)
      /\ SumFunction(f) = SumFunctionOnSet(f, 1..n) /\ SumFunction(f) \in Int
  BY Zenon, PaidOutType
<1>2. Len(payoutLog') = n + 1 /\ payoutLog'[n + 1] = e
      /\ \A i \in 1..n : payoutLog'[i] = payoutLog[i]
  BY DEF TypeOK
<1>3. DOMAIN payoutLog' = 1..(n + 1) /\ DOMAIN payoutLog = 1..n
  BY <1>2 DEF TypeOK
<1>4. g = [i \in 1..(n + 1) |-> Outflow(payoutLog'[i].recipient, payoutLog'[i].amount)]
  BY Zenon, <1>3 DEF PaidOut, Outflow
<1>5. f = [i \in 1..n |-> Outflow(payoutLog[i].recipient, payoutLog[i].amount)]
  BY Zenon, <1>3 DEF PaidOut
<1>6. e.amount \in Nat
  BY Zenon, AmountAssumption DEF PayoutExecuted
<1>7. g[n + 1] = Outflow(e.recipient, e.amount) /\ g[n + 1] \in Int
  BY <1>1, <1>2, <1>4, <1>6 DEF Outflow
<1>8. \A i \in 1..n : g[i] = f[i] /\ f[i] \in Int
  <2> HIDE DEF f, g
  <2> TAKE i \in 1..n
  <2>1. i \in 1..(n + 1)
    BY <1>1
  <2>2. /\ g[i] = Outflow(payoutLog'[i].recipient, payoutLog'[i].amount)
        /\ f[i] = Outflow(payoutLog[i].recipient, payoutLog[i].amount)
    BY Zenon, <1>4, <1>5, <2>1
  <2> QED
    BY <1>1, <1>2, <2>2
<1>9. DOMAIN g = (1..n) \cup {n + 1} /\ n + 1 \notin 1..n
  BY <1>1, <1>4
<1> HIDE DEF f, g, n
<1>10. SumFunctionOnSet(g, 1..n) = SumFunctionOnSet(f, 1..n)
  BY Zenon, <1>1, <1>8, SumSame
<1>11. SumFunctionOnSet(g, (1..n) \cup {n + 1}) = SumFunctionOnSet(g, 1..n) + g[n + 1]
  <2>1. \A i \in 1..n : g[i] \in Int
    BY Zenon, <1>8
  <2> QED
    <3> DEFINE D == 1..n
               y == n + 1
    <3>1. IsFiniteSet(D) /\ (\A i \in D : g[i] \in Int) /\ y \notin D /\ g[y] \in Int
      BY Zenon, <1>1, <1>7, <1>9, <2>1
    <3> HIDE DEF D, y
    <3>2. SumFunctionOnSet(g, D \cup {y}) = SumFunctionOnSet(g, D) + g[y]
      BY ONLY Zenon, <3>1, SumAdd
    <3> QED
      BY Zenon, <3>2 DEF D, y
<1>12. SumFunction(g) = SumFunctionOnSet(g, (1..n) \cup {n + 1})
  BY Zenon, <1>9 DEF SumFunction
<1>13. SumFunction(g) = SumFunction(f) + Outflow(e.recipient, e.amount)
  BY Zenon, <1>1, <1>7, <1>10, <1>11, <1>12
<1> QED
  BY Zenon, <1>13 DEF f, g, SumFunction

(***************************************************************************)
(* Changing one balance (mint, burn) changes the sum of all by as much.    *)
(***************************************************************************)
LEMMA BalanceChanged ==
    ASSUME IsFiniteSet(Address), balanceOf \in [Address -> Nat], NEW a \in Address,
           NEW n \in Nat, balanceOf' = [balanceOf EXCEPT ![a] = n]
    PROVE  SumFunction(balanceOf') = SumFunction(balanceOf) - balanceOf[a] + n
<1>1. /\ balanceOf \in [Address -> Int] /\ balanceOf' \in [Address -> Int]
      /\ \A x \in Address : x # a => balanceOf'[x] = balanceOf[x]
      /\ balanceOf'[a] = n
  OBVIOUS
<1>2. SumFunction(balanceOf') = SumFunction(balanceOf) - balanceOf[a] + balanceOf'[a]
  BY ONLY <1>1, IsFiniteSet(Address), a \in Address, SumFunctionChange
<1> QED
  BY Zenon, <1>1, <1>2

(***************************************************************************)
(* The deploy script mints the prefund to the vault and to nobody else.    *)
(***************************************************************************)
LEMMA BooksInit == Init => VaultLedger
<1> SUFFICES ASSUME Init PROVE VaultLedger
  BY Zenon
<1>1. SumFunction(PaidOut) = 0
  <2>1. DOMAIN PaidOut = {}
    BY DEF Init, PaidOut
  <2> QED
    BY Zenon, <2>1, SumEmpty DEF SumFunction
<1>2. SumFunction(balanceOf) = Prefund
  <2> DEFINE rest == Address \ {Vault}
  <2>1. /\ IsFiniteSet(Address) /\ IsFiniteSet(rest) /\ Vault \in Address
        /\ \A a \in Address : balanceOf[a] \in Int
        /\ balanceOf[Vault] = Prefund /\ Prefund \in Nat
        /\ \A a \in rest : balanceOf[a] = 0
        /\ DOMAIN balanceOf = Address
    BY AddressAssumption, AmountAssumption, FS_RemoveElement DEF Init
  <2>2. SumFunctionOnSet(balanceOf, rest) = 0
    BY Zenon, <2>1, SumZero
  <2>3. SumFunctionOnSet(balanceOf, Address) = balanceOf[Vault] + SumFunctionOnSet(balanceOf, rest)
    BY <2>1, SumRemove
  <2> QED
    BY <2>1, <2>2, <2>3 DEF SumFunction
<1> QED
  BY <1>1, <1>2, AddressAssumption, AmountAssumption DEF VaultLedger, Init

(***************************************************************************)
(* Every call keeps the books: a payout is logged with what it takes, a    *)
(* withdrawal, a mint or an incoming transfer changes the net funding by   *)
(* what it moves, and only mint and burn change the sum of the balances.   *)
(***************************************************************************)
LEMMA BooksNext ==
    ASSUME ContractInv, VaultLedger, [Next]_vars
    PROVE  VaultLedger'
<1>1. TypeOK /\ TypeOK'
  BY Zenon, ContractNext DEF ContractInv
<1>2. /\ IsFiniteSet(Address) /\ Vault \in Address
      /\ balanceOf \in [Address -> Nat] /\ netFunding \in Int /\ totalSupply \in Int
      /\ \A a \in Amount : a \in Nat
      /\ \A a \in Caller : a \in Address
  BY Zenon, <1>1, AddressAssumption, AmountAssumption DEF TypeOK, Caller
<1>3. SumFunction(PaidOut) \in Int /\ SumFunction(balanceOf) = totalSupply
      /\ balanceOf[Vault] = netFunding - SumFunction(PaidOut)
  BY Zenon, <1>1, PaidOutType DEF VaultLedger
<1>4. ASSUME payoutLog' = payoutLog PROVE SumFunction(PaidOut') = SumFunction(PaidOut)
  BY Zenon, <1>4 DEF PaidOut, Outflow
<1>5. CASE UNCHANGED vars
  BY Zenon, <1>3, <1>4, <1>5 DEF VaultLedger, vars, vaultVars, tokenVars
<1>6. ASSUME NEW sender \in Caller, NEW id \in PaymentId, NEW to \in Address,
             NEW amount \in Amount, PayoutToUser(sender, id, to, amount)
      PROVE  VaultLedger'
  <2> DEFINE e == [paymentId |-> id, recipient |-> to, amount |-> amount, operator |-> sender]
  <2>1. /\ payoutLog' = Append(payoutLog, e) /\ netFunding' = netFunding
        /\ balanceOf' = Moved(Vault, to, amount) /\ totalSupply' = totalSupply
        /\ balanceOf[Vault] >= amount /\ amount \in Nat
    BY Zenon, <1>2, <1>6 DEF PayoutToUser, SafeTransfer
  <2>2. e \in PayoutExecuted /\ e.recipient = to /\ e.amount = amount
    BY Zenon, <1>2 DEF PayoutExecuted
  <2> HIDE DEF e
  <2>3. SumFunction(PaidOut') = SumFunction(PaidOut) + Outflow(to, amount)
    BY Zenon, <1>1, <2>1, <2>2, PaidOutAppend
  <2>4. /\ SumFunction(balanceOf') = SumFunction(balanceOf)
        /\ balanceOf'[Vault] = balanceOf[Vault] - Outflow(to, amount)
    BY <1>2, <2>1, ContractMoved DEF Outflow
  <2> QED
    BY <1>2, <1>3, <2>1, <2>3, <2>4 DEF VaultLedger, Outflow
<1>7. ASSUME NEW sender \in Caller, NEW operator \in Address,
             AddOperator(sender, operator) \/ RemoveOperator(sender, operator)
      PROVE  VaultLedger'
  BY Zenon, <1>3, <1>4, <1>7 DEF VaultLedger, AddOperator, RemoveOperator, tokenVars
<1>8. ASSUME NEW sender \in Caller, NEW to \in Address, NEW amount \in Amount,
             Withdraw(sender, to, amount)
      PROVE  VaultLedger'
  <2>1. /\ payoutLog' = payoutLog /\ netFunding' = netFunding - Outflow(to, amount)
        /\ balanceOf' = Moved(Vault, to, amount) /\ totalSupply' = totalSupply
        /\ balanceOf[Vault] >= amount /\ amount \in Nat
    BY Zenon, <1>2, <1>8 DEF Withdraw, SafeTransfer
  <2>2. /\ SumFunction(balanceOf') = SumFunction(balanceOf)
        /\ balanceOf'[Vault] = balanceOf[Vault] - Outflow(to, amount)
    BY <1>2, <2>1, ContractMoved DEF Outflow
  <2> QED
    BY <1>2, <1>3, <1>4, <2>1, <2>2 DEF VaultLedger, Outflow
<1>9. ASSUME NEW sender \in Caller, NEW to \in Address, NEW amount \in Amount,
             Mint(sender, to, amount)
      PROVE  VaultLedger'
  <2>1. /\ payoutLog' = payoutLog /\ amount \in Nat /\ totalSupply' = totalSupply + amount
        /\ netFunding' = netFunding + (IF to = Vault THEN amount ELSE 0)
        /\ balanceOf' = [balanceOf EXCEPT ![to] = balanceOf[to] + amount]
        /\ balanceOf[to] + amount \in Nat
        /\ balanceOf'[Vault] = balanceOf[Vault] + (IF to = Vault THEN amount ELSE 0)
    BY <1>2, <1>9 DEF Mint
  <2>2. SumFunction(balanceOf') = SumFunction(balanceOf) - balanceOf[to] + (balanceOf[to] + amount)
    BY Zenon, <1>2, <2>1, BalanceChanged
  <2> QED
    BY <1>2, <1>3, <1>4, <2>1, <2>2 DEF VaultLedger
<1>10. ASSUME NEW sender \in Caller, NEW amount \in Amount, Burn(sender, amount)
       PROVE  VaultLedger'
  <2>1. /\ payoutLog' = payoutLog /\ amount \in Nat /\ totalSupply' = totalSupply - amount
        /\ netFunding' = netFunding /\ sender \in Address
        /\ balanceOf' = [balanceOf EXCEPT ![sender] = balanceOf[sender] - amount]
        /\ balanceOf[sender] - amount \in Nat
        /\ balanceOf'[Vault] = balanceOf[Vault]
    BY <1>2, <1>10 DEF Burn, vaultVars
  <2>2. SumFunction(balanceOf') =
          SumFunction(balanceOf) - balanceOf[sender] + (balanceOf[sender] - amount)
    BY Zenon, <1>2, <2>1, BalanceChanged
  <2> QED
    BY <1>2, <1>3, <1>4, <2>1, <2>2 DEF VaultLedger
<1>11. ASSUME NEW sender \in Caller, NEW to \in Address, NEW amount \in Amount,
              Transfer(sender, to, amount)
       PROVE  VaultLedger'
  <2>1. /\ payoutLog' = payoutLog /\ totalSupply' = totalSupply
        /\ netFunding' = netFunding + (IF to = Vault THEN amount ELSE 0)
        /\ balanceOf' = Moved(sender, to, amount) /\ sender # Vault
        /\ balanceOf[sender] >= amount /\ amount \in Nat /\ sender \in Address
    BY Zenon, <1>2, <1>11 DEF Transfer
  <2>2. /\ SumFunction(balanceOf') = SumFunction(balanceOf)
        /\ balanceOf'[Vault] = balanceOf[Vault] + (IF to = Vault THEN amount ELSE 0)
    BY <1>2, <2>1, ContractMoved
  <2> QED
    BY <1>2, <1>3, <1>4, <2>1, <2>2 DEF VaultLedger
<1>12. ASSUME NEW sender \in Caller, NEW c \in Contract, NEW newOwner \in Address,
              TransferOwnership(c, sender, newOwner)
       PROVE  VaultLedger'
  BY Zenon, <1>3, <1>4, <1>12 DEF VaultLedger, TransferOwnership, tokenVars
<1> QED
  BY Zenon, <1>5, <1>6, <1>7, <1>8, <1>9, <1>10, <1>11, <1>12 DEF Next

(***************************************************************************)
(* Type correctness of the two contracts in every reachable state.         *)
(***************************************************************************)
THEOREM ContractTypes == Spec => []TypeOK
<1>1. ContractInv => TypeOK
  BY Zenon DEF ContractInv
<1> QED
  BY ContractInit, ContractNext, <1>1, PTL DEF Spec

(***************************************************************************)
(* payoutToUser pays a payment id at most once, for any number of          *)
(* operators, recipients and amounts, and whatever the owners do.          *)
(***************************************************************************)
THEOREM Idempotent == Spec => []OnePayoutPerId
<1>1. ContractInv => OnePayoutPerId
  BY Zenon DEF ContractInv
<1> QED
  BY ContractInit, ContractNext, <1>1, PTL DEF Spec

(***************************************************************************)
(* isPaymentIdUsed is true of exactly the ids that were paid.              *)
(***************************************************************************)
THEOREM UsedIdsArePaid == Spec => []UsedIffPaid
<1>1. ContractInv => UsedIffPaid
  BY Zenon DEF ContractInv
<1> QED
  BY ContractInit, ContractNext, <1>1, PTL DEF Spec
(***************************************************************************)
(* The vault holds what it was funded with less what the PayoutExecuted    *)
(* events say it paid, and the token's total supply is the sum of its      *)
(* balances, after any calls of anybody.                                   *)
(***************************************************************************)
THEOREM BooksBalance == Spec => []VaultLedger
<1>1. ContractInv /\ VaultLedger /\ [Next]_vars => VaultLedger'
  BY Zenon, BooksNext
<1> QED
  BY ContractInit, ContractNext, BooksInit, <1>1, PTL DEF Spec

-----------------------------------------------------------------------------

(***************************************************************************)
(* Every pending transaction is the call execute_payout built for a packet *)
(* that was fulfilled, with call data the Ethereum node could decode.      *)
(***************************************************************************)
PoolOwed ==
    \A k \in 1..Len(pool) : \E p \in Fulfilled :
        /\ pool[k] = TxOf(p)
        /\ Parse(p.destination).recipient \in Address

(***************************************************************************)
(* The inductive invariant.  PayoutsAreOwed needs PoolOwed, because a      *)
(* payout is made from the pool after its task has ended; OnePayoutPerId   *)
(* needs the contract's used ids to be the paid ones.                      *)
(***************************************************************************)
IInv ==
    /\ SystemTypeOK
    /\ PoolOwed
    /\ PayoutsAreOwed
    /\ UsedIffPaid
    /\ OnePayoutPerId
    /\ NonceNeverAhead

(***************************************************************************)
(* The part of the invariant that is about the chain only.                 *)
(***************************************************************************)
LEMMA ChainUnchanged ==
    ASSUME TypeOK, UsedIffPaid, OnePayoutPerId, UNCHANGED vars
    PROVE  (TypeOK /\ UsedIffPaid /\ OnePayoutPerId)'
BY Zenon DEF TypeOK, UsedIffPaid, OnePayoutPerId, vars, vaultVars, tokenVars

(***************************************************************************)
(* Steps that keep every task's packet keep the set of fulfilled packets.  *)
(***************************************************************************)
LEMMA SamePackets ==
    ASSUME Len(tasks') = Len(tasks),
           \A i \in 1..Len(tasks) : tasks'[i].packet = tasks[i].packet
    PROVE  Fulfilled' = Fulfilled
BY Zenon DEF Fulfilled

(***************************************************************************)
(* A task that moves to another program counter, keeping packet and nonce. *)
(***************************************************************************)
LEMMA GotoFacts ==
    ASSUME SystemTypeOK, NEW i \in 1..Len(tasks), NEW pc \in Running \union Ended, Goto(i, pc)
    PROVE  /\ tasks' \in Seq(Task)
           /\ Len(tasks') = Len(tasks)
           /\ Fulfilled' = Fulfilled
           /\ tasks'[i].pc = pc
           /\ \A j \in 1..Len(tasks) : /\ tasks'[j].nonce = tasks[j].nonce
                                       /\ j # i => tasks'[j].pc = tasks[j].pc
<1>1. tasks \in Seq(Task) /\ tasks[i] \in Task /\ tasks' = [tasks EXCEPT ![i].pc = pc]
  BY DEF SystemTypeOK, Goto
<1>2. tasks' \in Seq(Task) /\ Len(tasks') = Len(tasks)
  BY <1>1 DEF Task
<1>3. \A j \in 1..Len(tasks) : /\ tasks'[j].packet = tasks[j].packet
                               /\ tasks'[j].nonce = tasks[j].nonce
                               /\ tasks'[j].pc = IF j = i THEN pc ELSE tasks[j].pc
  BY <1>1 DEF Task
<1> QED
  BY Zenon, <1>2, <1>3, SamePackets

(***************************************************************************)
(* The deployed contracts, with no task and no pending transaction.        *)
(***************************************************************************)
LEMMA InitIInv == SystemInit => IInv
<1> SUFFICES ASSUME SystemInit PROVE IInv
  BY Zenon
<1> USE ReceiverAssumption
<1>1. TypeOK /\ UsedIffPaid /\ OnePayoutPerId
  BY Zenon, ContractInit DEF SystemInit, ContractInv
<1>2. SystemTypeOK
  BY <1>1 DEF SystemInit, SystemTypeOK
<1>3. PoolOwed /\ NonceNeverAhead
  BY DEF SystemInit, PoolOwed, NonceNeverAhead
<1>4. PayoutsAreOwed
  BY DEF SystemInit, Init, PayoutsAreOwed
<1> QED
  BY Zenon, <1>1, <1>2, <1>3, <1>4 DEF IInv

(***************************************************************************)
(* A task step that leaves the chain alone: it may end, or keep the nonce  *)
(* it read, or read the next free one.                                     *)
(***************************************************************************)
LEMMA LocalStep ==
    ASSUME IInv, NEW i \in 1..Len(tasks), NEW pc \in Running \union Ended, Goto(i, pc),
           pc = "nonce" => FALSE, pc = "ready" => tasks[i].pc = "nonce",
           UNCHANGED chainVars,
           rpcFailures' \in 0..MaxRpcFailures, UNCHANGED <<crashes, ownerSteps>>
    PROVE  IInv'
<1>1. SystemTypeOK /\ PoolOwed /\ PayoutsAreOwed /\ UsedIffPaid /\ OnePayoutPerId /\ NonceNeverAhead
  BY Zenon DEF IInv
<1>2. /\ tasks' \in Seq(Task)
      /\ Len(tasks') = Len(tasks)
      /\ Fulfilled' = Fulfilled
      /\ tasks'[i].pc = pc
      /\ \A j \in 1..Len(tasks) : /\ tasks'[j].nonce = tasks[j].nonce
                                  /\ j # i => tasks'[j].pc = tasks[j].pc
  BY Zenon, <1>1, GotoFacts
<1>3. mined' = mined /\ pool' = pool /\ payoutLog' = payoutLog /\ UNCHANGED vars
  BY Zenon DEF chainVars, vars, vaultVars, tokenVars
<1>4. (TypeOK /\ UsedIffPaid /\ OnePayoutPerId)'
  BY Zenon, <1>1, <1>3, ChainUnchanged DEF SystemTypeOK
<1>5. SystemTypeOK'
  BY Zenon, <1>1, <1>2, <1>3, <1>4 DEF SystemTypeOK
<1>6. PoolOwed' /\ PayoutsAreOwed'
  BY Zenon, <1>1, <1>2, <1>3 DEF PoolOwed, PayoutsAreOwed
<1>7. NonceNeverAhead'
  BY Zenon, <1>1, <1>2, <1>3 DEF NonceNeverAhead
<1> QED
  BY Zenon, <1>4, <1>5, <1>6, <1>7 DEF IInv

(***************************************************************************)
(* A Fulfill adds a task and a packet; nothing owed before is forgotten.   *)
(***************************************************************************)
LEMMA FulfillStep ==
    ASSUME IInv, NEW p \in Prepare, Fulfill(p)
    PROVE  IInv'
<1> DEFINE t == [packet |-> p, pc |-> "spawned", nonce |-> 0]
<1>1. SystemTypeOK /\ PoolOwed /\ PayoutsAreOwed /\ UsedIffPaid /\ OnePayoutPerId /\ NonceNeverAhead
  BY Zenon DEF IInv
<1>2. t \in Task /\ tasks \in Seq(Task) /\ tasks' = Append(tasks, t)
  BY Zenon, <1>1 DEF Task, Running, Fulfill, SystemTypeOK
<1>3. /\ tasks' \in Seq(Task)
      /\ Len(tasks') = Len(tasks) + 1
      /\ tasks'[Len(tasks) + 1] = t
      /\ \A j \in 1..Len(tasks) : tasks'[j] = tasks[j]
      /\ Len(tasks) \in Nat
  BY <1>2
<1>4. Fulfilled \subseteq Fulfilled'
  BY <1>3 DEF Fulfilled
<1>5. mined' = mined /\ pool' = pool /\ payoutLog' = payoutLog /\ UNCHANGED vars
  BY Zenon DEF Fulfill, chainVars, vars, vaultVars, tokenVars
<1>6. (TypeOK /\ UsedIffPaid /\ OnePayoutPerId)'
  BY Zenon, <1>1, <1>5, ChainUnchanged DEF SystemTypeOK
<1>7. SystemTypeOK'
  BY Zenon, <1>1, <1>3, <1>5, <1>6 DEF SystemTypeOK, Fulfill, boundVars
<1>8. PoolOwed' /\ PayoutsAreOwed'
  BY Zenon, <1>1, <1>4, <1>5 DEF PoolOwed, PayoutsAreOwed
<1>9. NonceNeverAhead'
  <2>1. tasks'[Len(tasks) + 1].pc = "spawned"
    BY <1>3
  <2> QED
    BY <1>1, <1>3, <1>5, <2>1 DEF NonceNeverAhead
<1> QED
  BY Zenon, <1>6, <1>7, <1>8, <1>9 DEF IInv

(***************************************************************************)
(* eth_getTransactionCount at the pending block: the nonce read is exactly *)
(* the next free one.                                                      *)
(***************************************************************************)
LEMMA GetNonceStep ==
    ASSUME IInv, NEW i \in 1..Len(tasks), GetNonce(i)
    PROVE  IInv'
<1>1. SystemTypeOK /\ PoolOwed /\ PayoutsAreOwed /\ UsedIffPaid /\ OnePayoutPerId /\ NonceNeverAhead
  BY Zenon DEF IInv
<1>2. mined \in Nat /\ Len(pool) \in Nat /\ tasks \in Seq(Task)
  BY <1>1 DEF SystemTypeOK
<1>3. /\ tasks[i] \in Task
      /\ mined + Len(pool) \in Nat
      /\ tasks' = [tasks EXCEPT ![i] = [tasks[i] EXCEPT !.pc = "nonce",
                                                        !.nonce = mined + Len(pool)]]
  BY <1>2 DEF GetNonce, PendingNonce
<1>4. /\ tasks' \in Seq(Task)
      /\ Len(tasks') = Len(tasks)
      /\ \A j \in 1..Len(tasks) :
             /\ tasks'[j].packet = tasks[j].packet
             /\ tasks'[j] = tasks[j] \/ tasks'[j].nonce = mined + Len(pool)
  <2> DEFINE t == [tasks[i] EXCEPT !.pc = "nonce", !.nonce = mined + Len(pool)]
  <2>1. t \in Task /\ t.packet = tasks[i].packet /\ t.nonce = mined + Len(pool)
    BY Zenon, <1>3 DEF Task, Running
  <2>2. tasks' = [tasks EXCEPT ![i] = t]
    BY Zenon, <1>3
  <2> HIDE DEF t
  <2> QED
    BY <1>2, <2>1, <2>2, ExceptSeq
<1>5. Fulfilled' = Fulfilled
  BY Zenon, <1>4, SamePackets
<1>6. mined' = mined /\ pool' = pool /\ payoutLog' = payoutLog /\ UNCHANGED vars
  BY Zenon DEF GetNonce, chainVars, vars, vaultVars, tokenVars
<1>7. (TypeOK /\ UsedIffPaid /\ OnePayoutPerId)'
  BY Zenon, <1>1, <1>6, ChainUnchanged DEF SystemTypeOK
<1>8. SystemTypeOK'
  BY Zenon, <1>1, <1>4, <1>6, <1>7 DEF SystemTypeOK, GetNonce, boundVars
<1>9. PoolOwed' /\ PayoutsAreOwed'
  BY Zenon, <1>1, <1>5, <1>6 DEF PoolOwed, PayoutsAreOwed
<1>10. NonceNeverAhead'
  BY <1>1, <1>2, <1>4, <1>6 DEF NonceNeverAhead
<1> QED
  BY Zenon, <1>7, <1>8, <1>9, <1>10 DEF IInv

(***************************************************************************)
(* eth_sendTransaction: the transaction joins the pool or takes the place  *)
(* of one, so the pool never shrinks and holds owed payouts only.          *)
(***************************************************************************)
LEMMA SendStep ==
    ASSUME IInv, NEW i \in 1..Len(tasks), SendAccepted(i) \/ SendReplaces(i)
    PROVE  IInv'
<1> DEFINE tx == TxOf(tasks[i].packet)
<1>1. SystemTypeOK /\ PoolOwed /\ PayoutsAreOwed /\ UsedIffPaid /\ OnePayoutPerId /\ NonceNeverAhead
  BY Zenon DEF IInv
<1>2. PICK pc \in {"sent", "failed"} : Goto(i, pc)
  BY Zenon DEF SendAccepted, SendReplaces, Answered
<1>3. /\ tasks' \in Seq(Task)
      /\ Len(tasks') = Len(tasks)
      /\ Fulfilled' = Fulfilled
      /\ tasks'[i].pc = pc
      /\ \A j \in 1..Len(tasks) : /\ tasks'[j].nonce = tasks[j].nonce
                                  /\ j # i => tasks'[j].pc = tasks[j].pc
  BY Zenon, <1>1, <1>2, GotoFacts DEF Ended
<1>4. /\ tasks[i].packet \in Prepare /\ tasks[i].packet \in Fulfilled
      /\ Parse(tasks[i].packet.destination).recipient \in Address
  <2>1. tasks[i] \in Task
    BY <1>1 DEF SystemTypeOK
  <2> QED
    BY Zenon, <2>1 DEF Task, Fulfilled, SendAccepted, SendReplaces, WellFormed
<1>5. /\ pool' \in Seq({TxOf(p) : p \in Prepare})
      /\ Len(pool) \in Nat /\ Len(pool') \in Nat
      /\ Len(pool') >= Len(pool)
      /\ \A k \in 1..Len(pool') : pool'[k] = tx \/ (k \in 1..Len(pool) /\ pool'[k] = pool[k])
  <2>1. pool \in Seq({TxOf(p) : p \in Prepare}) /\ tx \in {TxOf(p) : p \in Prepare}
    BY Zenon, <1>1, <1>4 DEF SystemTypeOK
  <2>2. CASE SendAccepted(i)
    <3>1. pool' = Append(pool, tx)
      BY Zenon, <2>2 DEF SendAccepted
    <3> HIDE DEF tx
    <3> QED
      BY <2>1, <3>1
  <2>3. CASE SendReplaces(i)
    <3>1. PICK n \in 1..Len(pool) : pool' = [pool EXCEPT ![n] = tx]
      <4>1. tasks[i].nonce - mined + 1 \in 1..Len(pool)
        <5>1. tasks[i] \in Task /\ mined \in Nat /\ Len(pool) \in Nat
          BY <1>1 DEF SystemTypeOK
        <5> QED
          BY <2>3, <5>1 DEF Task, SendReplaces
      <4> QED
        BY Zenon, <2>3, <4>1 DEF SendReplaces
    <3> HIDE DEF tx
    <3> QED
      BY <2>1, <3>1, ExceptSeq
  <2> QED
    BY Zenon, <2>2, <2>3
<1>6. mined' = mined /\ payoutLog' = payoutLog /\ UNCHANGED vars
  BY Zenon DEF SendAccepted, SendReplaces, vars, vaultVars, tokenVars
<1>7. (TypeOK /\ UsedIffPaid /\ OnePayoutPerId)'
  BY Zenon, <1>1, <1>6, ChainUnchanged DEF SystemTypeOK
<1>8. SystemTypeOK'
  <2>1. rpcFailures' \in 0..MaxRpcFailures /\ UNCHANGED <<crashes, ownerSteps>>
    BY <1>1, ReceiverAssumption DEF SendAccepted, SendReplaces, Answered, boundVars, SystemTypeOK
  <2> QED
    BY Zenon, <1>1, <1>3, <1>5, <1>6, <1>7, <2>1 DEF SystemTypeOK
<1>9. PoolOwed' /\ PayoutsAreOwed'
  <2>1. PoolOwed'
    BY Zenon, <1>1, <1>3, <1>4, <1>5 DEF PoolOwed
  <2>2. PayoutsAreOwed'
    BY Zenon, <1>1, <1>3, <1>6 DEF PayoutsAreOwed
  <2> QED
    BY Zenon, <2>1, <2>2
<1>10. NonceNeverAhead'
  <2> SUFFICES ASSUME NEW j \in 1..Len(tasks), tasks'[j].pc \in {"nonce", "ready"}
               PROVE  tasks'[j].nonce <= mined + Len(pool')
    BY Zenon, <1>3, <1>6 DEF NonceNeverAhead
  <2>1. j # i /\ tasks[j].pc \in {"nonce", "ready"} /\ tasks'[j].nonce = tasks[j].nonce
    BY Zenon, <1>3
  <2>2. tasks[j].nonce <= mined + Len(pool) /\ tasks[j] \in Task /\ mined \in Nat
    BY <1>1, <2>1 DEF NonceNeverAhead, SystemTypeOK
  <2> QED
    BY <1>5, <2>1, <2>2 DEF Task
<1> QED
  BY Zenon, <1>7, <1>8, <1>9, <1>10 DEF IInv

(***************************************************************************)
(* The contract's part of a mined payout: types, used ids and uniqueness   *)
(* survive, and the event is the one of the transaction.                   *)
(***************************************************************************)
LEMMA PayoutOnChain ==
    ASSUME TypeOK, UsedIffPaid, OnePayoutPerId,
           NEW id \in PaymentId, NEW to \in Address, NEW amount \in Amount,
           PayoutToUser(Operator, id, to, amount)
    PROVE  /\ (TypeOK /\ UsedIffPaid /\ OnePayoutPerId)'
           /\ id \notin usedPaymentIds
           /\ payoutLog' = Append(payoutLog, [paymentId |-> id, recipient |-> to,
                                              amount |-> amount, operator |-> Operator])
           /\ payoutLog \in Seq(PayoutExecuted)
           /\ [paymentId |-> id, recipient |-> to, amount |-> amount, operator |-> Operator]
                  \in PayoutExecuted
<1>1. /\ payoutLog' = Append(payoutLog, [paymentId |-> id, recipient |-> to,
                                          amount |-> amount, operator |-> Operator])
      /\ id \notin usedPaymentIds
  BY Zenon DEF PayoutToUser, PayoutAllowed
<1>2. [paymentId |-> id, recipient |-> to, amount |-> amount, operator |-> Operator]
          \in PayoutExecuted
  BY Zenon, AddressAssumption DEF PayoutExecuted
<1>3. (TypeOK /\ UsedIffPaid /\ OnePayoutPerId)'
  BY Zenon, AddressAssumption, ContractPayout DEF ContractInv
<1> QED
  BY Zenon, <1>1, <1>2, <1>3 DEF TypeOK

(***************************************************************************)
(* What the oldest pending transaction is: a payout owed for some packet.  *)
(***************************************************************************)
LEMMA HeadOwed ==
    ASSUME SystemTypeOK, PoolOwed, pool # <<>>
    PROVE  \E p \in Fulfilled :
               /\ p \in Prepare
               /\ Head(pool) = TxOf(p)
               /\ TxOf(p).id \in PaymentId
               /\ TxOf(p).recipient \in Address
               /\ TxOf(p).amount \in Amount
<1>1. pool \in Seq({TxOf(p) : p \in Prepare}) /\ tasks \in Seq(Task)
  BY Zenon DEF SystemTypeOK
<1>2. 1 \in 1..Len(pool) /\ Head(pool) = pool[1]
  BY <1>1
<1>3. PICK p \in Fulfilled : pool[1] = TxOf(p) /\ Parse(p.destination).recipient \in Address
  BY Zenon, <1>2 DEF PoolOwed
<1>4. p \in Prepare
  <2>1. PICK i \in 1..Len(tasks) : p = tasks[i].packet
    BY Zenon DEF Fulfilled
  <2>2. tasks[i] \in Task
    BY <1>1
  <2> QED
    BY Zenon, <2>1, <2>2 DEF Task
<1> QED
  BY Zenon, <1>2, <1>3, <1>4, ReceiverAssumption DEF TxOf

(***************************************************************************)
(* A block is mined: the oldest transaction pays or reverts.               *)
(***************************************************************************)
LEMMA MineStep ==
    ASSUME IInv, Mine
    PROVE  IInv'
<1>1. SystemTypeOK /\ PoolOwed /\ PayoutsAreOwed /\ UsedIffPaid /\ OnePayoutPerId /\ NonceNeverAhead
  BY Zenon DEF IInv
<1>2. /\ pool # <<>> /\ mined' = mined + 1 /\ pool' = Tail(pool) /\ tasks' = tasks
      /\ UNCHANGED boundVars
  BY Zenon DEF Mine
<1>3. PICK p \in Fulfilled : /\ p \in Prepare
                             /\ Head(pool) = TxOf(p)
                             /\ TxOf(p).id \in PaymentId
                             /\ TxOf(p).recipient \in Address
                             /\ TxOf(p).amount \in Amount
  BY Zenon, <1>1, <1>2, HeadOwed
<1>4. Fulfilled' = Fulfilled
  BY Zenon, <1>2 DEF Fulfilled
<1>5. (TypeOK /\ UsedIffPaid /\ OnePayoutPerId /\ PayoutsAreOwed)'
  <2>1. CASE PayoutToUser(Operator, TxOf(p).id, TxOf(p).recipient, TxOf(p).amount)
    <3>1. /\ (TypeOK /\ UsedIffPaid /\ OnePayoutPerId)'
          /\ payoutLog' = Append(payoutLog, EventOf(p))
          /\ payoutLog \in Seq(PayoutExecuted)
          /\ EventOf(p) \in PayoutExecuted
      BY Zenon, <1>1, <1>3, <2>1, PayoutOnChain DEF SystemTypeOK, EventOf, TxOf
    <3>2. \A k \in 1..Len(payoutLog') :
              payoutLog'[k] = EventOf(p) \/ (k \in 1..Len(payoutLog) /\ payoutLog'[k] = payoutLog[k])
      <4> HIDE DEF EventOf
      <4> QED
        BY <3>1
    <3>3. PayoutsAreOwed'
      BY Zenon, <1>1, <1>4, <3>2 DEF PayoutsAreOwed
    <3> QED
      BY Zenon, <3>1, <3>3
  <2>2. CASE UNCHANGED vars
    <3>1. PayoutsAreOwed'
      BY Zenon, <1>1, <1>4, <2>2 DEF PayoutsAreOwed, vars, vaultVars, tokenVars
    <3> QED
      BY Zenon, <1>1, <2>2, <3>1, ChainUnchanged DEF SystemTypeOK
  <2> QED
    BY Zenon, <1>3, <2>1, <2>2 DEF Mine
<1>6. /\ pool' \in Seq({TxOf(q) : q \in Prepare})
      /\ Len(pool) \in Nat
      /\ Len(pool') = Len(pool) - 1
      /\ \A k \in 1..Len(pool') : k + 1 \in 1..Len(pool) /\ pool'[k] = pool[k + 1]
  <2>1. pool \in Seq({TxOf(q) : q \in Prepare})
    BY Zenon, <1>1 DEF SystemTypeOK
  <2> QED
    BY <1>2, <2>1
<1>7. SystemTypeOK'
  BY <1>1, <1>2, <1>5, <1>6 DEF SystemTypeOK, boundVars
<1>8. PoolOwed'
  BY Zenon, <1>1, <1>4, <1>6 DEF PoolOwed
<1>9. NonceNeverAhead'
  <2>1. mined' + Len(pool') = mined + Len(pool)
    BY <1>1, <1>2, <1>6 DEF SystemTypeOK
  <2> QED
    BY Zenon, <1>1, <1>2, <2>1 DEF NonceNeverAhead
<1> QED
  BY Zenon, <1>5, <1>7, <1>8, <1>9 DEF IInv

(***************************************************************************)
(* A crash ends every running task and touches nothing on chain.           *)
(***************************************************************************)
LEMMA CrashStep ==
    ASSUME IInv, Crash
    PROVE  IInv'
<1>1. SystemTypeOK /\ PoolOwed /\ PayoutsAreOwed /\ UsedIffPaid /\ OnePayoutPerId /\ NonceNeverAhead
  BY Zenon DEF IInv
<1>2. /\ tasks \in Seq(Task) /\ Len(tasks) \in Nat
      /\ tasks' = [i \in 1..Len(tasks) |->
                      IF i \in Live THEN [tasks[i] EXCEPT !.pc = "lost"] ELSE tasks[i]]
  BY <1>1 DEF SystemTypeOK, Crash
<1>3. \A i \in 1..Len(tasks) :
         /\ tasks'[i] \in Task
         /\ tasks'[i].packet = tasks[i].packet
         /\ tasks'[i] = tasks[i] \/ tasks'[i].pc = "lost"
  <2> TAKE i \in 1..Len(tasks)
  <2>1. tasks[i] \in Task
    BY <1>2
  <2> QED
    BY Zenon, <1>2, <2>1 DEF Task, Ended
<1>4. tasks' \in Seq(Task) /\ Len(tasks') = Len(tasks)
  BY <1>2, <1>3
<1>5. Fulfilled' = Fulfilled
  BY Zenon, <1>3, <1>4, SamePackets
<1>6. mined' = mined /\ pool' = pool /\ payoutLog' = payoutLog /\ UNCHANGED vars
  BY Zenon DEF Crash, chainVars, vars, vaultVars, tokenVars
<1>7. (TypeOK /\ UsedIffPaid /\ OnePayoutPerId)'
  BY Zenon, <1>1, <1>6, ChainUnchanged DEF SystemTypeOK
<1>8. SystemTypeOK'
  BY <1>1, <1>4, <1>6, <1>7, ReceiverAssumption DEF SystemTypeOK, Crash
<1>9. PoolOwed' /\ PayoutsAreOwed'
  BY Zenon, <1>1, <1>5, <1>6 DEF PoolOwed, PayoutsAreOwed
<1>10. NonceNeverAhead'
  BY Zenon, <1>1, <1>3, <1>4, <1>6 DEF NonceNeverAhead
<1> QED
  BY Zenon, <1>7, <1>8, <1>9, <1>10 DEF IInv

(***************************************************************************)
(* The owner of the deploy script calls the contracts like anybody else.   *)
(***************************************************************************)
LEMMA OwnerCalls == ASSUME OwnerStep PROVE [Next]_vars
<1>1. Deployer \in Caller /\ Deployer \in Address /\ Vault \in Address /\ Operator \in Address
  BY Zenon, AddressAssumption DEF Caller
<1>2. ASSUME NEW amount \in Amount,
             Withdraw(Deployer, Deployer, amount) \/ Mint(Deployer, Vault, amount)
      PROVE  Next
  BY Zenon, <1>1, <1>2 DEF Next
<1>3. CASE RemoveOperator(Deployer, Operator) \/ AddOperator(Deployer, Operator)
  BY Zenon, <1>1, <1>3 DEF Next
<1> QED
  BY Zenon, <1>2, <1>3 DEF OwnerStep

(***************************************************************************)
(* The owner funds or drains the vault, or changes the operators: neither  *)
(* the log nor the used ids change.                                        *)
(***************************************************************************)
LEMMA OwnerStepInv ==
    ASSUME IInv, OwnerStep
    PROVE  IInv' /\ UNCHANGED <<tasks, payoutLog>>
<1> USE ReceiverAssumption
<1>1. SystemTypeOK /\ PoolOwed /\ PayoutsAreOwed /\ UsedIffPaid /\ OnePayoutPerId /\ NonceNeverAhead
  BY Zenon DEF IInv
<1>2. TypeOK' /\ UNCHANGED <<usedPaymentIds, payoutLog>>
  <2>1. [Next]_vars
    BY Zenon, OwnerCalls
  <2>2. TypeOK'
    BY Zenon, <1>1, <2>1, ContractNext DEF ContractInv, SystemTypeOK
  <2> QED
    BY Zenon, <2>2 DEF OwnerStep, Withdraw, Mint, RemoveOperator, AddOperator
<1>3. UNCHANGED <<tasks, mined, pool, rpcFailures, crashes>> /\ ownerSteps' \in 0..MaxOwnerSteps
  BY <1>1 DEF OwnerStep, SystemTypeOK
<1>4. SystemTypeOK'
  BY Zenon, <1>1, <1>2, <1>3 DEF SystemTypeOK
<1>5. PoolOwed' /\ PayoutsAreOwed' /\ NonceNeverAhead'
  BY Zenon, <1>1, <1>2, <1>3 DEF PoolOwed, PayoutsAreOwed, NonceNeverAhead, Fulfilled
<1>6. UsedIffPaid' /\ OnePayoutPerId'
  BY Zenon, <1>1, <1>2 DEF UsedIffPaid, OnePayoutPerId
<1> QED
  BY Zenon, <1>2, <1>3, <1>4, <1>5, <1>6 DEF IInv

(***************************************************************************)
(* The steps of a task that leave the chain alone.                         *)
(***************************************************************************)
LEMMA QuietTaskStep ==
    ASSUME IInv, NEW i \in 1..Len(tasks),
           \/ Skip(i) \/ RefuseDestination(i) \/ GetGasPrice(i)
           \/ SendRefused(i) \/ SendReverts(i) \/ RpcFailure(i)
    PROVE  IInv' /\ Fulfilled' = Fulfilled /\ payoutLog' = payoutLog
<1>1. PICK pc \in Ended \union {"ready"} :
          /\ Goto(i, pc)
          /\ pc = "ready" => tasks[i].pc = "nonce"
  BY DEF Skip, RefuseDestination, GetGasPrice, SendRefused, SendReverts, RpcFailure, Ended
<1>2. /\ UNCHANGED <<chainVars, crashes, ownerSteps>>
      /\ rpcFailures' = rpcFailures \/ (rpcFailures < MaxRpcFailures /\ rpcFailures' = rpcFailures + 1)
  BY Zenon DEF Skip, RefuseDestination, GetGasPrice, SendRefused, SendReverts, RpcFailure, boundVars
<1>3. rpcFailures' \in 0..MaxRpcFailures
  BY <1>2, ReceiverAssumption DEF IInv, SystemTypeOK
<1>4. pc \in Running \union Ended /\ pc # "nonce"
  BY Zenon DEF Running, Ended
<1>5. IInv'
  BY Zenon, <1>1, <1>2, <1>3, <1>4, LocalStep
<1>6. Fulfilled' = Fulfilled
  BY Zenon, <1>1, <1>4, GotoFacts DEF IInv
<1> QED
  BY Zenon, <1>2, <1>5, <1>6 DEF chainVars, vars, vaultVars, tokenVars

(***************************************************************************)
(* Every step preserves the invariant.                                     *)
(***************************************************************************)
LEMMA NextIInv == IInv /\ [SystemNext]_systemVars => IInv'
<1> SUFFICES ASSUME IInv, [SystemNext]_systemVars PROVE IInv'
  BY Zenon
<1>1. CASE UNCHANGED systemVars
  <2>1. /\ UNCHANGED <<tasks, mined, pool, rpcFailures, crashes, ownerSteps>>
        /\ UNCHANGED vars
    BY Zenon, <1>1 DEF systemVars, chainVars, boundVars
  <2>2. (TypeOK /\ UsedIffPaid /\ OnePayoutPerId)'
    BY Zenon, <2>1, ChainUnchanged DEF IInv, SystemTypeOK
  <2>3. (PoolOwed /\ PayoutsAreOwed /\ NonceNeverAhead)'
    BY Zenon, <2>1 DEF IInv, PoolOwed, PayoutsAreOwed, NonceNeverAhead, Fulfilled, vars, vaultVars,
          tokenVars
  <2> QED
    BY Zenon, <2>1, <2>2, <2>3 DEF IInv, SystemTypeOK
<1>2. ASSUME NEW p \in Prepare, Fulfill(p) PROVE IInv'
  BY Zenon, <1>2, FulfillStep
<1>3. ASSUME NEW i \in 1..Len(tasks), TaskStep(i) \/ RpcFailure(i) PROVE IInv'
  BY Zenon, <1>3, QuietTaskStep, GetNonceStep, SendStep DEF TaskStep
<1>4. CASE Mine
  BY Zenon, <1>4, MineStep
<1>5. CASE Crash
  BY Zenon, <1>5, CrashStep
<1>6. CASE OwnerStep
  BY Zenon, <1>6, OwnerStepInv
<1> QED
  BY Zenon, <1>1, <1>2, <1>3, <1>4, <1>5, <1>6 DEF SystemNext

(***************************************************************************)
(* The inductive invariant holds in every reachable state.                 *)
(***************************************************************************)
THEOREM Invariance == SystemSpec => []IInv
BY InitIInv, NextIInv, PTL DEF SystemSpec

(***************************************************************************)
(* Type correctness of the receiver, the operator's account and the        *)
(* contracts composed.                                                     *)
(***************************************************************************)
THEOREM TypeCorrect == SystemSpec => []SystemTypeOK
<1>1. IInv => SystemTypeOK
  BY Zenon DEF IInv
<1> QED
  BY Invariance, <1>1, PTL

(***************************************************************************)
(* Nothing is paid that no fulfilled packet is worth: recipient, amount    *)
(* and id of every payout are those of a packet the receiver fulfilled.    *)
(***************************************************************************)
THEOREM PayoutsOwed == SystemSpec => []PayoutsAreOwed
<1>1. IInv => PayoutsAreOwed
  BY Zenon DEF IInv
<1> QED
  BY Invariance, <1>1, PTL

(***************************************************************************)
(* No packet is paid twice, however often it is replayed, however its      *)
(* payout tasks race, and whichever transactions replace which.            *)
(***************************************************************************)
THEOREM PaidOnce == SystemSpec => []OnePayoutPerId
<1>1. IInv => OnePayoutPerId
  BY Zenon DEF IInv
<1> QED
  BY Invariance, <1>1, PTL

(***************************************************************************)
(* A nonce used after the awaits that follow its reading leaves no gap.    *)
(***************************************************************************)
THEOREM NoNonceGap == SystemSpec => []NonceNeverAhead
<1>1. IInv => NonceNeverAhead
  BY Zenon DEF IInv
<1> QED
  BY Invariance, <1>1, PTL

(***************************************************************************)
(* A mined transaction of the operator is a call of payoutToUser that the  *)
(* contracts allow, or reverts and changes nothing.                        *)
(***************************************************************************)
LEMMA MineCalls == ASSUME IInv, Mine PROVE [Next]_vars
<1>1. PICK p \in Fulfilled : /\ p \in Prepare
                             /\ Head(pool) = TxOf(p)
                             /\ TxOf(p).id \in PaymentId
                             /\ TxOf(p).recipient \in Address
                             /\ TxOf(p).amount \in Amount
  BY Zenon, HeadOwed DEF IInv, Mine
<1>2. Operator \in Caller
  BY Zenon, AddressAssumption, ReceiverAssumption DEF Caller
<1>3. CASE PayoutToUser(Operator, TxOf(p).id, TxOf(p).recipient, TxOf(p).amount)
  BY Zenon, <1>1, <1>2, <1>3 DEF Next
<1> QED
  BY Zenon, <1>1, <1>3 DEF Mine

(***************************************************************************)
(* The composition does to the contracts only what their callers may do:   *)
(* every step of the receiver, its Ethereum node and the owner is a call   *)
(* of the contracts or leaves them alone, so what the contracts guarantee  *)
(* to anybody they guarantee to the receiver.                              *)
(***************************************************************************)
THEOREM UsesContracts == SystemSpec => Spec
<1>1. SystemInit => Init
  BY Zenon DEF SystemInit
<1>2. IInv /\ [SystemNext]_systemVars => [Next]_vars
  <2> SUFFICES ASSUME IInv, [SystemNext]_systemVars PROVE [Next]_vars
    BY Zenon
  <2>1. CASE UNCHANGED systemVars
    BY Zenon, <2>1 DEF systemVars, chainVars
  <2>2. ASSUME NEW p \in Prepare, Fulfill(p) PROVE UNCHANGED vars
    BY Zenon, <2>2 DEF Fulfill, chainVars
  <2>3. ASSUME NEW i \in 1..Len(tasks), TaskStep(i) \/ RpcFailure(i) PROVE UNCHANGED vars
    BY Zenon, <2>3 DEF TaskStep, RpcFailure, Skip, RefuseDestination, GetNonce, GetGasPrice,
                SendAccepted, SendReplaces, SendRefused, SendReverts, chainVars
  <2>4. CASE Crash
    BY Zenon, <2>4 DEF Crash, chainVars
  <2> QED
    BY Zenon, <2>1, <2>2, <2>3, <2>4, MineCalls, OwnerCalls DEF SystemNext
<1> QED
  BY <1>1, <1>2, Invariance, PTL DEF SystemSpec, Spec

(***************************************************************************)
(* The vault's books balance whatever the receiver's tasks, crashes and    *)
(* replaced transactions do: each payout it is charged for is in the log.  *)
(***************************************************************************)
THEOREM SystemBooks == SystemSpec => []VaultLedger
BY Zenon, UsesContracts, BooksBalance

(***************************************************************************)
(* A Fulfill of the receiver is a Fulfill of the promise.                  *)
(***************************************************************************)
LEMMA FulfillRefines ==
    ASSUME IInv, NEW p \in Prepare, Fulfill(p)
    PROVE  Fulfilled' = Fulfilled \union {p} /\ payoutLog' = payoutLog
<1> DEFINE t == [packet |-> p, pc |-> "spawned", nonce |-> 0]
<1>1. tasks \in Seq(Task) /\ t \in Task /\ tasks' = Append(tasks, t)
  BY Zenon DEF IInv, SystemTypeOK, Task, Running, Fulfill
<1>2. /\ Len(tasks') = Len(tasks) + 1
      /\ Len(tasks) \in Nat
      /\ tasks'[Len(tasks) + 1].packet = p
      /\ \A j \in 1..Len(tasks) : tasks'[j] = tasks[j]
  BY <1>1
<1>3. Fulfilled' \subseteq Fulfilled \union {p}
  BY <1>2 DEF Fulfilled
<1>4. Fulfilled \subseteq Fulfilled' /\ p \in Fulfilled'
  BY <1>2 DEF Fulfilled
<1> QED
  BY Zenon, <1>3, <1>4 DEF Fulfill, chainVars, vars, vaultVars, tokenVars

(***************************************************************************)
(* A block that pays is a Pay of the promise, one that reverts a stutter.  *)
(***************************************************************************)
LEMMA MineRefines ==
    ASSUME IInv, Mine
    PROVE  /\ Fulfilled' = Fulfilled
           /\ \/ payoutLog' = payoutLog
              \/ \E p \in Prepare \intersect Fulfilled :
                     /\ \A k \in 1..Len(payoutLog) :
                            payoutLog[k].paymentId # EventOf(p).paymentId
                     /\ payoutLog' = Append(payoutLog, EventOf(p))
<1>1. SystemTypeOK /\ PoolOwed /\ UsedIffPaid /\ OnePayoutPerId /\ pool # <<>> /\ tasks' = tasks
  BY Zenon DEF IInv, Mine
<1>2. PICK p \in Fulfilled : /\ p \in Prepare
                             /\ Head(pool) = TxOf(p)
                             /\ TxOf(p).id \in PaymentId
                             /\ TxOf(p).recipient \in Address
                             /\ TxOf(p).amount \in Amount
  BY Zenon, <1>1, HeadOwed
<1>3. CASE PayoutToUser(Operator, TxOf(p).id, TxOf(p).recipient, TxOf(p).amount)
  <2>1. /\ EventOf(p).paymentId \notin usedPaymentIds
        /\ payoutLog' = Append(payoutLog, EventOf(p))
        /\ payoutLog \in Seq(PayoutExecuted)
        /\ EventOf(p) \in PayoutExecuted
    BY Zenon, <1>1, <1>2, <1>3, PayoutOnChain DEF SystemTypeOK, EventOf, TxOf
  <2>2. \A k \in 1..Len(payoutLog) : payoutLog[k].paymentId # EventOf(p).paymentId
    BY Zenon, <1>1, <2>1 DEF UsedIffPaid
  <2> QED
    BY Zenon, <1>1, <1>2, <2>1, <2>2 DEF Fulfilled
<1>4. CASE UNCHANGED vars
  BY Zenon, <1>1, <1>4 DEF Fulfilled, vars, vaultVars, tokenVars
<1> QED
  BY Zenon, <1>2, <1>3, <1>4 DEF Mine

(***************************************************************************)
(* Every other step is a stutter of the promise.                           *)
(***************************************************************************)
LEMMA OtherStepsStutter ==
    ASSUME IInv,
           \/ \E i \in 1..Len(tasks) : TaskStep(i) \/ RpcFailure(i)
           \/ Crash \/ OwnerStep \/ UNCHANGED systemVars
    PROVE  Fulfilled' = Fulfilled /\ payoutLog' = payoutLog
<1>1. tasks \in Seq(Task)
  BY Zenon DEF IInv, SystemTypeOK
<1>2. ASSUME NEW i \in 1..Len(tasks), GetNonce(i)
      PROVE  Fulfilled' = Fulfilled /\ payoutLog' = payoutLog
  <2> DEFINE t == [tasks[i] EXCEPT !.pc = "nonce", !.nonce = PendingNonce]
  <2>1. PendingNonce \in Nat /\ tasks[i] \in Task
    BY <1>1 DEF IInv, SystemTypeOK, PendingNonce
  <2>2. t \in Task /\ t.packet = tasks[i].packet
    BY Zenon, <2>1 DEF Task, Running
  <2>3. tasks' = [tasks EXCEPT ![i] = t] /\ payoutLog' = payoutLog
    BY Zenon, <1>2 DEF GetNonce, chainVars, vars, vaultVars, tokenVars
  <2> HIDE DEF t
  <2>4. /\ Len(tasks') = Len(tasks)
        /\ \A j \in 1..Len(tasks) : tasks'[j].packet = tasks[j].packet
    BY <1>1, <2>2, <2>3, ExceptSeq
  <2> QED
    BY Zenon, <2>3, <2>4, SamePackets
<1>3. ASSUME NEW i \in 1..Len(tasks), SendAccepted(i) \/ SendReplaces(i)
      PROVE  Fulfilled' = Fulfilled /\ payoutLog' = payoutLog
  <2>1. PICK pc \in {"sent", "failed"} : Goto(i, pc)
    BY Zenon, <1>3 DEF SendAccepted, SendReplaces, Answered
  <2>2. Fulfilled' = Fulfilled
    BY Zenon, <2>1, GotoFacts DEF IInv, Ended
  <2> QED
    BY Zenon, <1>3, <2>2 DEF SendAccepted, SendReplaces, vars, vaultVars, tokenVars
<1>4. ASSUME NEW i \in 1..Len(tasks), TaskStep(i) \/ RpcFailure(i)
      PROVE  Fulfilled' = Fulfilled /\ payoutLog' = payoutLog
  BY Zenon, <1>2, <1>3, <1>4, QuietTaskStep DEF TaskStep
<1>5. CASE Crash
  <2>1. /\ Len(tasks') = Len(tasks)
        /\ \A i \in 1..Len(tasks) : tasks'[i].packet = tasks[i].packet
    <3>1. /\ Len(tasks) \in Nat
          /\ tasks' = [i \in 1..Len(tasks) |->
                          IF i \in Live THEN [tasks[i] EXCEPT !.pc = "lost"] ELSE tasks[i]]
      BY <1>1, <1>5 DEF Crash
    <3>2. ASSUME NEW i \in 1..Len(tasks) PROVE tasks'[i].packet = tasks[i].packet
      <4>1. tasks[i] \in Task
        BY <1>1
      <4> QED
        BY Zenon, <3>1, <4>1 DEF Task
    <3> QED
      BY <3>1, <3>2
  <2> QED
    BY Zenon, <1>5, <2>1, SamePackets DEF Crash, chainVars, vars, vaultVars, tokenVars
<1>6. CASE OwnerStep
  BY Zenon, <1>6, OwnerStepInv DEF Fulfilled
<1>7. CASE UNCHANGED systemVars
  BY Zenon, <1>7 DEF systemVars, chainVars, vars, vaultVars, tokenVars, Fulfilled
<1> QED
  BY Zenon, <1>4, <1>5, <1>6, <1>7

(***************************************************************************)
(* The receiver, the Ethereum node and the Treasury implement the abstract *)
(* promise: pay only what was fulfilled, and pay each id once.             *)
(***************************************************************************)
THEOREM Refinement == SystemSpec => PromiseKept
<1>1. SystemInit => Promise!Init
  BY DEF SystemInit, Init, Promise!Init, Fulfilled
<1>2. IInv /\ [SystemNext]_systemVars => [Promise!Next]_<<Fulfilled, payoutLog>>
  <2> SUFFICES ASSUME IInv, [SystemNext]_systemVars
               PROVE  Promise!Next \/ UNCHANGED <<Fulfilled, payoutLog>>
    BY Zenon
  <2>1. ASSUME NEW p \in Prepare, Fulfill(p) PROVE Promise!Next
    BY Zenon, <2>1, FulfillRefines DEF Promise!Next, Promise!Fulfill
  <2>2. CASE Mine
    BY Zenon, <2>2, MineRefines DEF Promise!Next, Promise!Pay
  <2>3. CASE \/ \E i \in 1..Len(tasks) : TaskStep(i) \/ RpcFailure(i)
             \/ Crash \/ OwnerStep \/ UNCHANGED systemVars
    BY Zenon, <2>3, OtherStepsStutter
  <2> QED
    BY Zenon, <2>1, <2>2, <2>3 DEF SystemNext
<1> QED
  BY Invariance, <1>1, <1>2, PTL DEF SystemSpec, PromiseKept, Promise!Spec

(***************************************************************************)
(* parse finds the wallet in an address an account of it issued: the first *)
(* marker is the account's.                                                *)
(***************************************************************************)
LEMMA ParsesIssued ==
    ASSUME NEW parts, NEW wallet, IssuedFor(parts, wallet), Parse(parts) # NoDestination
    PROVE  Parse(parts).recipient = wallet
<1> DEFINE markers == {i \in 1..Len(parts) : parts[i] = "eth"}
           eth == CHOOSE i \in markers : \A j \in markers : i <= j
<1>1. PICK i \in 1..(Len(parts) - 3) :
        parts[i] = "eth" /\ parts[i + 3] = wallet /\ \A j \in 1..(i - 1) : parts[j] # "eth"
  BY Zenon DEF IssuedFor
<1>2. eth = i
  <2>1. i \in markers /\ \A j \in markers : i <= j
    BY <1>1
  <2>2. eth \in markers /\ \A j \in markers : eth <= j
    BY Zenon, <2>1
  <2> QED
    BY <2>1, <2>2
<1>3. Parse(parts).recipient = parts[eth + 3]
  BY Zenon DEF Parse
<1> QED
  BY Zenon, <1>1, <1>2, <1>3

(***************************************************************************)
(* The receiver fulfills what brings at least the sender's minimum.        *)
(***************************************************************************)
MinimumMet == \A p \in Fulfilled : ReceiveMoney(p)

(***************************************************************************)
(* For all packets whose addresses the SPSP server issued, every payout    *)
(* reaches the wallet of the account its packet was addressed to, and is   *)
(* worth at least what the packet's sender asked for.                      *)
(***************************************************************************)
THEOREM PaidAsIssuedAlways == SystemSpec => []PaidAsIssued
<1>1. SystemInit => MinimumMet
  BY DEF SystemInit, MinimumMet, Fulfilled
<1>2. IInv /\ MinimumMet /\ [SystemNext]_systemVars => MinimumMet'
  <2> SUFFICES ASSUME IInv, MinimumMet, [SystemNext]_systemVars PROVE MinimumMet'
    BY Zenon
  <2>1. ASSUME NEW p \in Prepare, Fulfill(p) PROVE MinimumMet'
    BY Zenon, <2>1, FulfillRefines DEF MinimumMet, Fulfill, ReceiveMoney
  <2>2. CASE Mine
    BY Zenon, <2>2, MineRefines DEF MinimumMet, ReceiveMoney
  <2>3. CASE \/ \E i \in 1..Len(tasks) : TaskStep(i) \/ RpcFailure(i)
             \/ Crash \/ OwnerStep \/ UNCHANGED systemVars
    BY Zenon, <2>3, OtherStepsStutter DEF MinimumMet, ReceiveMoney
  <2> QED
    BY Zenon, <2>1, <2>2, <2>3 DEF SystemNext
<1>3. IInv /\ MinimumMet => PaidAsIssued
  <2> SUFFICES ASSUME IInv, MinimumMet, NEW k \in 1..Len(payoutLog)
               PROVE  \E p \in Fulfilled : /\ payoutLog[k].paymentId = IdOf(p)
                                           /\ payoutLog[k].recipient = p.wallet
                                           /\ payoutLog[k].amount >= p.minAmount
    BY Zenon DEF PaidAsIssued
  <2>1. PICK p \in Fulfilled : payoutLog[k] = EventOf(p)
    BY Zenon DEF IInv, PayoutsAreOwed
  <2>2. p \in Prepare
    <3>1. PICK i \in 1..Len(tasks) : p = tasks[i].packet
      BY Zenon DEF Fulfilled
    <3>2. tasks[i] \in Task
      BY DEF IInv, SystemTypeOK
    <3> QED
      BY Zenon, <3>1, <3>2 DEF Task
  <2>3. payoutLog[k] \in PayoutExecuted
    BY DEF IInv, SystemTypeOK, TypeOK
  <2>4. Parse(p.destination).recipient \in Address
    BY <2>1, <2>3 DEF PayoutExecuted, EventOf
  <2>5. Parse(p.destination).recipient = p.wallet
    BY Zenon, <2>2, <2>4, ParsesIssued, IssuerAssumption
  <2> QED
    BY <2>1, <2>5 DEF EventOf, MinimumMet, ReceiveMoney
<1> QED
  BY Invariance, <1>1, <1>2, <1>3, PTL DEF SystemSpec
=============================================================================
