----------------------- MODULE ReceivingBooksProofs -----------------------
(* That every step of Receiving keeps the parts of ReceivingInv that are     *)
(* about money, from what ReceivingSteps says of the steps and of sums:      *)
(*   - the transfers to and from the destination (MoneyInv, SolventInv): the *)
(*     total received only grows, by what is posted (TotalStep);             *)
(*   - what is late, received, announced, withdrawn and still to be reported *)
(*     (LateInv to WalletDone).                                              *)
EXTENDS ReceivingSteps, TLAPS

-----------------------------------------------------------------------------
\* The destination's transfers.

\* Next, by what it does to the transfers.
LEMMA RowCases ==
    ASSUME CreditFacts,
           Typed, LedgerInv, [Next]_vars
    PROVE  \/ UNCHANGED rows /\ hist'.overtaken = hist.overtaken
           \/ \E p \in Packet : HoldCredit(p) \/ Post(p)
           \/ \E c \in Caller : EndWithdrawal(c)
           \/ \E r \in DOMAIN rows, state \in {"POSTED", "VOIDED"} : UpdateWithdrawal(r, state)
           \/ \E r \in DOMAIN rows : HoldLapses(r)
  <1> DEFINE Still == UNCHANGED rows /\ hist'.overtaken = hist.overtaken
  <1>1. CASE UNCHANGED vars
    BY Zenon, <1>1 DEF vars
  <1>2. ASSUME NEW p \in Packet, CreditStep(p) \/ Die(p)
        PROVE  Still \/ HoldCredit(p) \/ Post(p)
    <2>1. OnCredit(p) => Still
      BY Zenon DEF CreditFacts, ReportEffect
    <2>2. Accept(p) \/ Pay(p) \/ ValidateCredit(p) \/ ReadTotal(p) \/ Die(p) => Still
      BY Zenon DEF Accept, Pay, ValidateCredit, ReadTotal, Die
    <2> QED BY Zenon, <1>2, <2>1, <2>2 DEF CreditStep
  <1>3. CacheExpires \/ Due \/ completeIncomingPayment \/ WorkerStep \/ WorkerDies => Still
    BY Zenon DEF CacheExpires, Due, completeIncomingPayment, WorkerStep, WorkerDies, ProcessNext,
       handleExpired, handleDeactivated, createWithdrawalEvent
  <1>4. ASSUME NEW e, NEW known, NEW done, sendWebhook(e, known, done) PROVE Still
    BY Zenon, <1>4 DEF sendWebhook
  <1>5. ASSUME NEW c \in Caller,
               \/ \E e \in DOMAIN events : withdrawEventLiquidity(c, e)
               \/ createIncomingPaymentWithdrawal(c) \/ createWalletAddressWithdrawal(c)
        PROVE  Still
    BY Zenon, <1>5 DEF withdrawEventLiquidity, BeginWithdrawal, createIncomingPaymentWithdrawal,
       createWalletAddressWithdrawal
  <1> HIDE DEF Still
  <1>6. ASSUME NEW r \in DOMAIN rows, UpdateWithdrawal(r, "POSTED") \/ UpdateWithdrawal(r, "VOIDED")
        PROVE  \E state \in {"POSTED", "VOIDED"} : UpdateWithdrawal(r, state)
    BY Zenon, <1>6
  <1> QED BY Zenon, <1>1, <1>2, <1>3, <1>4, <1>5, <1>6 DEF Next, Still

\* Once a credit has entered, its payer and its amount stay what they are.
CreditsKept ==
    \A p \in Packet : pkt[p] # Idle => /\ pkt'[p] # Idle /\ pkt'[p].from = pkt[p].from
                                       /\ pkt'[p].amount = pkt[p].amount

\* No step changes the payer or the amount of a credit.
LEMMA CreditsAreKept ==
    ASSUME CreditFacts,
           Typed, LedgerInv, [Next]_vars
    PROVE  CreditsKept
  <1>1. \A p \in Packet : \A at : CreditTo(p, at) => CreditsKept
    BY Zenon DEF CreditTo, CreditsKept
  <1>2. UNCHANGED pkt => CreditsKept
    BY Zenon DEF CreditsKept
  <1>3. ASSUME NEW p \in Packet, CreditStep(p) PROVE CreditsKept
    <2>1. Accept(p) => CreditsKept
      BY Zenon, <1>1 DEF CreditFacts, AcceptEffect
    <2>2. Pay(p) => CreditsKept
      BY Zenon, <1>1 DEF CreditFacts, PayEffect
    <2>3. ValidateCredit(p) => CreditsKept
      BY Zenon, <1>1 DEF CreditFacts, ValidateEffect
    <2>4. HoldCredit(p) => CreditsKept
      BY Zenon, <1>1 DEF CreditFacts, HoldEffect
    <2>5. Post(p) => CreditsKept
      BY Zenon, <1>1 DEF CreditFacts, PostEffect
    <2>6. ReadTotal(p) => CreditsKept
      BY Zenon, <1>1 DEF CreditFacts, ReadEffect
    <2>7. OnCredit(p) => CreditsKept
      BY Zenon, <1>1 DEF CreditFacts, ReportEffect
    <2> QED BY Zenon, <1>3, <2>1, <2>2, <2>3, <2>4, <2>5, <2>6, <2>7 DEF CreditStep
  <1>4. ASSUME NEW p \in Packet, Die(p) PROVE CreditsKept
    BY Zenon, <1>1, <1>4 DEF CreditFacts, DieEffect
  <1>5. CacheExpires \/ Due \/ completeIncomingPayment \/ WorkerStep \/ WorkerDies => UNCHANGED pkt
    BY Zenon DEF CacheExpires, Due, completeIncomingPayment, WorkerStep, WorkerDies, ProcessNext,
       handleExpired, handleDeactivated, createWithdrawalEvent
  <1>6. ASSUME NEW e, NEW known, NEW done, sendWebhook(e, known, done) PROVE UNCHANGED pkt
    BY Zenon, <1>6 DEF sendWebhook
  <1>7. ASSUME NEW c \in Caller,
               \/ \E e \in DOMAIN events : withdrawEventLiquidity(c, e)
               \/ createIncomingPaymentWithdrawal(c) \/ createWalletAddressWithdrawal(c)
               \/ EndWithdrawal(c)
        PROVE  UNCHANGED pkt
    BY Zenon, <1>7 DEF withdrawEventLiquidity, BeginWithdrawal, createIncomingPaymentWithdrawal,
       createWalletAddressWithdrawal, EndWithdrawal
  <1>8. ASSUME NEW r,
               UpdateWithdrawal(r, "POSTED") \/ UpdateWithdrawal(r, "VOIDED") \/ HoldLapses(r)
        PROVE  UNCHANGED pkt
    BY Zenon, <1>8 DEF UpdateWithdrawal, HoldLapses
  <1>9. UNCHANGED vars => UNCHANGED pkt
    BY Zenon DEF vars
  <1> QED BY Zenon, <1>2, <1>3, <1>4, <1>5, <1>6, <1>7, <1>8, <1>9 DEF Next

\* What the transfers of a step are: those that were there, between the same accounts, and
\* the ones of a credit or of a withdrawal.
LEMMA MoneyGrows ==
    ASSUME LedgerInv, MoneyInv, CreditsKept, Grows(rows, rows'),
           \A r \in DOMAIN rows' \ DOMAIN rows :
               /\ rows'[r].credit = Dst => r[1] \in Packet
               /\ rows'[r].debit = Dst => r[1] = "event",
           \A p \in Packet : \A r, q \in refsOf(rows', p) :
               r \notin DOMAIN rows =>
                   /\ rows'[r].amount = pkt'[p].amount
                   /\ q \notin DOMAIN rows
                   /\ rows'[r].credit = Dst /\ rows'[q].credit = Dst => q = r
    PROVE  MoneyInv'
  <1>1. ASSUME NEW r \in DOMAIN rows'
        PROVE  /\ rows'[r].credit = Dst => r[1] \in Packet
               /\ rows'[r].debit = Dst => r[1] = "event"
    BY Zenon DEF MoneyInv, ToDest, FromDest, Grows
  <1>2. ASSUME NEW p \in Packet, NEW r \in refsOf(rows', p), NEW q \in refsOf(rows', p)
        PROVE  /\ rows'[r].credit = Dst => rows'[r].amount = pkt'[p].amount
               /\ rows'[r].credit = Dst /\ rows'[q].credit = Dst => q = r
    <2>1. CASE r \notin DOMAIN rows
      BY Zenon, <2>1
    <2>2. CASE q \notin DOMAIN rows
      BY Zenon, <2>2
    <2>3. CASE r \in DOMAIN rows /\ q \in DOMAIN rows
      <3>1. r \in refsOf(rows, p) /\ q \in refsOf(rows, p)
        BY Zenon, <2>3 DEF refsOf
      <3>2. pkt[p] # Idle
        BY <3>1 DEF LedgerInv, CreditInv, Idle
      <3>3. pkt'[p].amount = pkt[p].amount
        BY Zenon, <3>2 DEF CreditsKept
      <3> QED BY <2>3, <3>1, <3>3 DEF MoneyInv, ToDest, Grows
    <2> QED BY Zenon, <2>1, <2>2, <2>3
  <1>3. Dst' = Dst
    BY Zenon DEF Dst, Liquidity
  <1> QED BY Zenon, <1>1, <1>2, <1>3 DEF MoneyInv, ToDest, FromDest

\* A credit is held: it brings at most one transfer to the destination.
LEMMA HoldMoney ==
    ASSUME CreditFacts,
           LedgerInv, MoneyInv, SolventInv, CreditsKept, Typed, NEW p \in Packet, HoldCredit(p)
    PROVE  MoneyInv' /\ SolventInv' /\ total' = total
  <1>1. /\ pkt[p] # Idle /\ HoldOf(p, rows') /\ refsOf(rows, p) = {}
        /\ ~hist'.overtaken => ~hist.overtaken /\ mayCreate(rows, transfersOf(p))
    BY Zenon DEF CreditFacts, HoldEffect
  <1>2. pkt'[p].amount = pkt[p].amount
    BY Zenon, <1>1 DEF CreditsKept
  <1>3. \A r \in DOMAIN rows' \ DOMAIN rows :
            r[1] = p /\ rows'[r].amount = pkt'[p].amount /\ rows'[r].debit # Dst
    BY Zenon, <1>1, <1>2 DEF HoldOf
  <1>4. ASSUME NEW s \in Packet, NEW r \in refsOf(rows', s), NEW q \in refsOf(rows', s),
               r \notin DOMAIN rows
        PROVE  /\ rows'[r].amount = pkt'[s].amount
               /\ q \notin DOMAIN rows
               /\ rows'[r].credit = Dst /\ rows'[q].credit = Dst => q = r
    <2>1. s = p /\ r \in DOMAIN rows' \ DOMAIN rows
      BY Zenon, <1>3, <1>4 DEF refsOf
    <2>2. q \in DOMAIN rows' \ DOMAIN rows
      BY Zenon, <1>1, <2>1 DEF refsOf
    <2> QED BY Zenon, <1>1, <1>3, <2>1, <2>2 DEF HoldOf
  <1>5. MoneyInv'
    <2>1. Grows(rows, rows')
      BY Zenon, <1>1 DEF HoldOf
    <2> QED BY Zenon, <1>3, <1>4, <2>1, MoneyGrows
  <1>6. SolventInv'
    BY Zenon, <1>1 DEF SolventInv, HoldOf, Solvent
  <1>7. total' = total
    BY Zenon, <1>1 DEF HoldOf, total, getTotalReceived, Dst
  <1> QED BY Zenon, <1>5, <1>6, <1>7

\* A withdrawal is inserted: it brings the destination nothing.
LEMMA WithdrawalMoney ==
    ASSUME CallFacts,
           LedgerInv, MoneyInv, SolventInv, CreditsKept, Typed, NEW c \in Caller, EndWithdrawal(c)
    PROVE  MoneyInv' /\ SolventInv' /\ total' = total
  <1>1. /\ WithdrawnBy(calls[c].event, calls[c].amount, rows')
        /\ ~hist'.overtaken => ~hist.overtaken /\ (Solvent(rows) => Solvent(rows'))
    BY Zenon DEF CallFacts, EndEffect
  <1>2. ASSUME NEW r \in DOMAIN rows' \ DOMAIN rows
        PROVE  rows'[r].credit # Dst /\ r[1] = "event"
    <2>1. r = <<"event", calls[c].event>> /\ rows'[r].credit # Dst
      BY Zenon, <1>1 DEF WithdrawnBy
    <2>2. <<"event", calls[c].event>>[1] = "event"
      BY Zenon
    <2> QED BY Zenon, <2>1, <2>2
  <1>3. \A s \in Packet : \A r \in refsOf(rows', s) : r \in DOMAIN rows
    BY Zenon, <1>2, IdAssumption DEF refsOf
  <1>4. MoneyInv'
    <2>1. Grows(rows, rows')
      BY Zenon, <1>1 DEF WithdrawnBy
    <2> QED BY Zenon, <1>2, <1>3, <2>1, MoneyGrows
  <1>5. SolventInv'
    BY Zenon, <1>1 DEF SolventInv, Solvent
  <1>6. total' = total
    BY Zenon, <1>1 DEF WithdrawnBy, total, getTotalReceived, Dst
  <1> QED BY Zenon, <1>4, <1>5, <1>6

\* Transfers that are posted, voided or expire.
LEMMA LoosenedMoney ==
    ASSUME LedgerSums,
           LedgerInv, MoneyInv, SolventInv, CreditsKept, Typed, TypedRows(rows'),
           Loosened(rows, rows'), hist'.overtaken = hist.overtaken
    PROVE  MoneyInv' /\ SolventInv' /\ total <= total'
  <1>1. /\ Grows(rows, rows') /\ DOMAIN rows' = DOMAIN rows
        /\ creditsPosted(rows, Dst) <= creditsPosted(rows', Dst)
        /\ Solvent(rows) => Solvent(rows')
    BY Zenon DEF Typed, LedgerSums, LoosensSums, Loosened, Grows
  <1>2. MoneyInv'
    BY Zenon, <1>1, MoneyGrows DEF refsOf
  <1>3. SolventInv'
    BY Zenon, <1>1 DEF SolventInv, Solvent
  <1>4. total <= total'
    BY Zenon, <1>1 DEF total, getTotalReceived, Dst
  <1> QED BY Zenon, <1>2, <1>3, <1>4

\* The same posted credits make the same total.
LEMMA SameTotal ==
    ASSUME LedgerSums,
           TypedRows(rows), TypedRows(rows'), Loosened(rows, rows'),
           \A r \in DOMAIN rows : r \in CreditRows(rows', Dst) <=> r \in CreditRows(rows, Dst)
    PROVE  total' = total
  <1>1. CreditRows(rows', Dst) = CreditRows(rows, Dst)
    BY Zenon DEF CreditRows, Loosened
  <1>2. creditsPosted(rows', Dst) = creditsPosted(rows, Dst)
    BY Zenon, <1>1 DEF LedgerSums, LoosensSums
  <1> QED BY Zenon, <1>2 DEF total, getTotalReceived, Dst

\* A credit is posted: no more than its amount arrives.
LEMMA PostMoney ==
    ASSUME LedgerSums, CreditFacts,
           LedgerInv, MoneyInv, SolventInv, CreditsKept, Typed, NEW p \in Packet, Post(p)
    PROVE  /\ MoneyInv' /\ SolventInv' /\ total <= total' /\ total' <= total + pkt[p].amount
           /\ ~PostsAll(p) => total' = total
  <1>1. /\ pkt[p] # Idle /\ TypedRows(rows') /\ Loosened(rows, rows')
        /\ \A r \in DOMAIN rows \ refsOf(rows, p) : rows'[r] = rows[r]
        /\ ~mayUpdate(rows, refsOf(rows, p)) => rows' = rows
        /\ hist'.overtaken = hist.overtaken
    BY Zenon DEF CreditFacts, PostEffect
  <1>2. MoneyInv' /\ SolventInv' /\ total <= total'
    BY Zenon, <1>1, LoosenedMoney
  <1>3. pkt[p].amount \in Nat
    BY Zenon, <1>1 DEF CreditFacts, CreditIs
  <1>4. TypedRows(rows) /\ total \in Nat
    BY Zenon DEF Typed, LedgerSums, total, getTotalReceived, Dst
  <1>5. ~PostsAll(p) => total' = total
    BY Zenon, <1>1 DEF PostsAll, total
  <1>6. CASE \E y \in refsOf(rows, p) : ToDest(y)
    <2>1. PICK y \in refsOf(rows, p) : ToDest(y)
      BY Zenon, <1>6
    <2>2. \A q \in refsOf(rows, p) : ToDest(q) => q = y
      BY Zenon, <2>1 DEF MoneyInv
    <2>3. rows[y].amount = pkt[p].amount /\ y \in DOMAIN rows
      BY Zenon, <2>1 DEF MoneyInv, refsOf
    <2> DEFINE D == CreditRows(rows, Dst)
               E == CreditRows(rows', Dst)
    <2>5. E \subseteq D \cup {y}
      <3>1. ASSUME NEW r \in E, r # y PROVE r \in D
        <4>1. r \in DOMAIN rows /\ rows[r].credit = Dst
          BY Zenon, <1>1, <3>1 DEF CreditRows, Loosened
        <4>2. r \notin refsOf(rows, p)
          BY Zenon, <2>2, <3>1, <4>1 DEF ToDest
        <4> QED BY Zenon, <1>1, <3>1, <4>1, <4>2 DEF CreditRows
      <3> QED BY Zenon, <3>1
    <2>6. creditsPosted(rows', Dst) <= creditsPosted(rows, Dst) + rows[y].amount
      BY Zenon, <1>1, <1>4, <2>3, <2>5 DEF LedgerSums, LoosensSums
    <2>7. total' <= total + pkt[p].amount
      BY Zenon, <2>3, <2>6 DEF total, getTotalReceived, Dst
    <2> QED BY Zenon, <1>2, <1>5, <2>7
  <1>7. CASE ~\E y \in refsOf(rows, p) : ToDest(y)
    <2>1. \A r \in DOMAIN rows : r \in CreditRows(rows', Dst) <=> r \in CreditRows(rows, Dst)
      <3>1. ASSUME NEW r \in DOMAIN rows PROVE r \in CreditRows(rows', Dst) <=> r \in CreditRows(rows, Dst)
        <4>1. CASE r \in refsOf(rows, p)
          BY Zenon, <1>1, <1>7, <4>1 DEF CreditRows, Loosened, ToDest
        <4>2. CASE r \notin refsOf(rows, p)
          BY Zenon, <1>1, <4>2 DEF CreditRows, Loosened
        <4> QED BY Zenon, <4>1, <4>2
      <3> QED BY Zenon, <3>1
    <2>2. total' = total
      BY Zenon, <1>1, <1>4, <2>1, SameTotal
    <2> QED BY <1>2, <1>3, <1>4, <2>2
  <1> QED BY Zenon, <1>6, <1>7

\* A withdrawal is posted or voided: the total received stays.
LEMMA UpdateMoney ==
    ASSUME LedgerSums, RowFacts,
           LedgerInv, MoneyInv, SolventInv, CreditsKept, Typed,
           NEW r \in DOMAIN rows, NEW state \in {"POSTED", "VOIDED"}, UpdateWithdrawal(r, state)
    PROVE  MoneyInv' /\ SolventInv' /\ total' = total
  <1>1. r[1] = "event" /\ UNCHANGED hist
    BY Zenon DEF UpdateWithdrawal
  <1>2. TypedRows(rows)
    BY Zenon DEF Typed
  <1>3. /\ TypedRows(rows') /\ Loosened(rows, rows')
        /\ \A q \in DOMAIN rows \ {r} : rows'[q] = rows[q]
    BY Zenon DEF RowFacts, UpdateEffect
  <1>4. MoneyInv' /\ SolventInv'
    BY Zenon, <1>1, <1>3, LoosenedMoney
  <1>5. ~ToDest(r)
    BY Zenon, <1>1, IdAssumption DEF MoneyInv
  <1>6. ASSUME NEW q \in DOMAIN rows PROVE q \in CreditRows(rows', Dst) <=> q \in CreditRows(rows, Dst)
    <2>1. CASE q = r
      BY Zenon, <1>3, <1>5, <2>1 DEF CreditRows, Loosened, ToDest
    <2>2. CASE q # r
      BY Zenon, <1>3, <2>2 DEF CreditRows, Loosened
    <2> QED BY Zenon, <2>1, <2>2
  <1>7. total' = total
    BY Zenon, <1>2, <1>3, <1>6, SameTotal
  <1> QED BY Zenon, <1>4, <1>7

\* A hold expires: the total received stays.
LEMMA LapseMoney ==
    ASSUME LedgerSums, RowFacts,
           LedgerInv, MoneyInv, SolventInv, CreditsKept, Typed, NEW r \in DOMAIN rows, HoldLapses(r)
    PROVE  MoneyInv' /\ SolventInv' /\ total' = total
  <1>1. UNCHANGED hist
    BY Zenon DEF HoldLapses
  <1>2. TypedRows(rows)
    BY Zenon DEF Typed
  <1>3. /\ TypedRows(rows') /\ Loosened(rows, rows')
        /\ \A q \in DOMAIN rows : rows'[q].state = rows[q].state
    BY Zenon DEF RowFacts, LapseEffect
  <1>4. MoneyInv' /\ SolventInv'
    BY Zenon, <1>1, <1>3, LoosenedMoney
  <1>5. \A q \in DOMAIN rows : q \in CreditRows(rows', Dst) <=> q \in CreditRows(rows, Dst)
    BY Zenon, <1>3 DEF CreditRows, Loosened, Posted
  <1>6. total' = total
    BY Zenon, <1>2, <1>3, <1>5, SameTotal
  <1> QED BY Zenon, <1>4, <1>6

\* Every step keeps the destination's transfers in order.
LEMMA MoneyNext ==
    ASSUME LedgerSums, CreditFacts, CallFacts, RowFacts,
           Typed, LedgerInv, FinalInv, MoneyInv, SolventInv, [Next]_vars
    PROVE  MoneyInv' /\ SolventInv' /\ TotalStep
  <1>1. CreditsKept
    BY Zenon, CreditsAreKept
  <1>2. total \in Nat /\ TypedRows(rows)
    BY Zenon DEF Typed, LedgerSums, total, getTotalReceived, Dst
  <1>4. total' = total => TotalStep
    BY <1>2 DEF TotalStep
  <1>5. CASE UNCHANGED rows /\ hist'.overtaken = hist.overtaken
    <2>1. Loosened(rows, rows') /\ TypedRows(rows')
      BY Zenon, <1>2, <1>5 DEF Loosened
    <2>2. total' = total
      BY Zenon, <1>5 DEF total
    <2> QED BY Zenon, <1>1, <1>4, <1>5, <2>1, <2>2, LoosenedMoney
  <1>6. ASSUME NEW p \in Packet, HoldCredit(p) PROVE MoneyInv' /\ SolventInv' /\ TotalStep
    BY Zenon, <1>1, <1>4, <1>6, HoldMoney
  <1>7. ASSUME NEW p \in Packet, Post(p) PROVE MoneyInv' /\ SolventInv' /\ TotalStep
    <2>1. /\ MoneyInv' /\ SolventInv' /\ total <= total' /\ total' <= total + pkt[p].amount
          /\ ~PostsAll(p) => total' = total
      BY Zenon, <1>1, <1>7, PostMoney
    <2>2. total' \in Nat
      <3>1. TypedRows(rows')
        BY Zenon, <1>7 DEF CreditFacts, PostEffect
      <3>2. creditsPosted(rows', Dst) \in Nat
        BY Zenon, <3>1 DEF LedgerSums
      <3> QED BY Zenon, <3>2 DEF total, getTotalReceived, Dst
    <2> QED BY Zenon, <1>2, <1>4, <2>1, <2>2 DEF TotalStep
  <1>8. ASSUME NEW c \in Caller, EndWithdrawal(c) PROVE MoneyInv' /\ SolventInv' /\ TotalStep
    BY Zenon, <1>1, <1>4, <1>8, WithdrawalMoney
  <1>9. ASSUME NEW r \in DOMAIN rows, NEW state \in {"POSTED", "VOIDED"}, UpdateWithdrawal(r, state)
        PROVE  MoneyInv' /\ SolventInv' /\ TotalStep
    BY Zenon, <1>1, <1>4, <1>9, UpdateMoney
  <1>10. ASSUME NEW r \in DOMAIN rows, HoldLapses(r) PROVE MoneyInv' /\ SolventInv' /\ TotalStep
    BY Zenon, <1>1, <1>4, <1>10, LapseMoney
  <1> QED BY Zenon, <1>5, <1>6, <1>7, <1>8, <1>9, <1>10, RowCases

\* Events of the same amounts announce the same.
LEMMA SumOfSame ==
    ASSUME NEW es \in Seq(Event), NEW fs, DOMAIN fs = DOMAIN es,
           \A e \in DOMAIN es : fs[e].amount = es[e].amount
    PROVE  Sum(fs) = Sum(es)
  <1>1. [e \in DOMAIN es |-> es[e].amount] = [e \in DOMAIN fs |-> fs[e].amount]
    BY Zenon
  <1> QED BY Zenon, <1>1 DEF Sum

-----------------------------------------------------------------------------
\* How far a step takes a credit.

Passes(p, at) ==
    /\ CreditTo(p, at)
    /\ \/ pkt[p].at = "idle" /\ at \in {"checked", "rejected", "failed"}
       \/ pkt[p].at = "checked" /\ at \in {"validated", "rejected", "failed", "dead"}
       \/ pkt[p].at = "validated" /\ at = "held"
       \/ pkt[p].at = "held" /\ at \in {"posted", "fulfilled", "failed", "dead"}
       \/ pkt[p].at = "posted" /\ at \in {"read", "dead"}
       \/ pkt[p].at = "read" /\ at \in {"fulfilled", "paid", "dead"}
    /\ at = "failed" => pkt'[p].from # "peer"

\* The credits that are late after the step, if the credit is posted.
LateAfter(p) == IF PostsAll(p) /\ tooLate THEN hist.late \cup {p} ELSE hist.late

\* Every step of a credit takes it on, and only a post can be late.
LEMMA CreditPasses ==
    ASSUME CreditFacts,
           Typed, LedgerInv, NEW p \in Packet, CreditStep(p) \/ Die(p)
    PROVE  /\ \E at : Passes(p, at)
           /\ hist'.late = LateAfter(p) /\ (PostsAll(p) => pkt'[p].at = "posted")
  <1> DEFINE G == /\ \E at : Passes(p, at)
                  /\ hist'.late = LateAfter(p) /\ (PostsAll(p) => pkt'[p].at = "posted")
  <1>0. DOMAIN pkt = Packet /\ (pkt[p] = Idle => pkt[p].at = "idle")
    BY DEF LedgerInv, Idle
  <1>1. ASSUME ~Post(p), NEW at, Passes(p, at), hist'.late = hist.late PROVE G
    BY Zenon, <1>1 DEF PostsAll, LateAfter
  <1>2. ASSUME pkt[p].at # "held" PROVE ~Post(p)
    BY Zenon, <1>2 DEF Post
  <1>3. CASE Accept(p)
    <2>1. /\ pkt[p] = Idle /\ UNCHANGED hist
          /\ CreditTo(p, "checked") \/ CreditTo(p, "rejected")
      BY Zenon, <1>3 DEF CreditFacts, AcceptEffect
    <2> QED BY Zenon, <1>0, <1>1, <1>2, <2>1 DEF Passes
  <1>4. CASE Pay(p)
    <2>1. /\ pkt[p] = Idle /\ UNCHANGED hist /\ pkt'[p].from = "outgoing"
          /\ CreditTo(p, "checked") \/ CreditTo(p, "failed")
      BY Zenon, <1>4 DEF CreditFacts, PayEffect
    <2> QED BY Zenon, <1>0, <1>1, <1>2, <2>1 DEF Passes
  <1>5. CASE ValidateCredit(p)
    <2>1. /\ pkt[p].at = "checked" /\ pkt[p] # Idle /\ UNCHANGED hist
          /\ \/ CreditTo(p, "validated") \/ CreditTo(p, "rejected")
             \/ pkt[p].from # "peer" /\ CreditTo(p, "failed")
      BY Zenon, <1>5 DEF CreditFacts, ValidateEffect
    <2>2. CreditTo(p, "failed") => pkt'[p].from = pkt[p].from
      BY Zenon, <2>1 DEF CreditTo
    <2> QED BY Zenon, <1>1, <1>2, <2>1, <2>2 DEF Passes
  <1>6. CASE HoldCredit(p)
    <2>1. pkt[p].at = "validated" /\ CreditTo(p, "held") /\ hist'.late = hist.late
      BY Zenon, <1>6 DEF CreditFacts, HoldEffect
    <2> QED BY Zenon, <1>1, <1>2, <2>1 DEF Passes
  <1>7. CASE Post(p)
    <2> DEFINE v == IF pkt[p].from = "peer" THEN "fulfilled" ELSE "failed"
    <2>1. /\ pkt[p].at = "held" /\ pkt[p] # Idle
          /\ \/ /\ mayUpdate(rows, refsOf(rows, p)) /\ CreditTo(p, "posted")
                /\ hist'.late = IF tooLate THEN hist.late \cup {p} ELSE hist.late
             \/ /\ ~mayUpdate(rows, refsOf(rows, p)) /\ hist'.late = hist.late
                /\ CreditTo(p, v)
      BY Zenon, <1>7 DEF CreditFacts, PostEffect
    <2>2. CASE mayUpdate(rows, refsOf(rows, p))
      <3>1. PostsAll(p) /\ CreditTo(p, "posted") /\ hist'.late = LateAfter(p)
        BY Zenon, <1>7, <2>1, <2>2 DEF PostsAll, LateAfter
      <3> QED BY Zenon, <2>1, <3>1 DEF Passes, CreditTo
    <2>3. CASE ~mayUpdate(rows, refsOf(rows, p))
      <3>1. ~PostsAll(p) /\ CreditTo(p, v) /\ hist'.late = LateAfter(p)
        BY Zenon, <2>1, <2>3 DEF PostsAll, LateAfter
      <3>2. pkt'[p].from = pkt[p].from
        BY Zenon, <2>1, <3>1 DEF CreditTo
      <3>3. Passes(p, v)
        BY Zenon, <2>1, <3>1, <3>2 DEF Passes
      <3> QED BY Zenon, <3>1, <3>3
    <2> QED BY Zenon, <2>2, <2>3
  <1>8. CASE ReadTotal(p)
    <2>1. CreditTo(p, "read")
      BY Zenon, <1>8 DEF CreditFacts, ReadEffect
    <2>2. pkt[p].at = "posted" /\ UNCHANGED hist
      BY Zenon, <1>8 DEF ReadTotal
    <2> QED BY Zenon, <1>1, <1>2, <2>1, <2>2 DEF Passes
  <1>9. CASE OnCredit(p)
    <2>1. /\ pkt[p].at = "read" /\ hist'.late = hist.late
          /\ CreditTo(p, "fulfilled") \/ CreditTo(p, "paid")
      BY Zenon, <1>9 DEF CreditFacts, ReportEffect
    <2> QED BY Zenon, <1>1, <1>2, <2>1 DEF Passes
  <1>10. CASE Die(p)
    <2>1. /\ pkt[p].at \in {"checked", "held", "posted", "read"} /\ CreditTo(p, "dead")
          /\ UNCHANGED hist
      BY Zenon, <1>10 DEF CreditFacts, DieEffect
    <2>2. ~PostsAll(p)
      BY Zenon, <2>1 DEF PostsAll, CreditTo, CreditFacts, PostEffect
    <2>3. Passes(p, "dead") /\ hist'.late = LateAfter(p)
      BY Zenon, <2>1, <2>2 DEF Passes, LateAfter
    <2> QED BY Zenon, <2>2, <2>3
  <1> QED BY Zenon, <1>3, <1>4, <1>5, <1>6, <1>7, <1>8, <1>9, <1>10 DEF CreditStep

\* Next, by what it does to the credits.
LEMMA PacketCases ==
    ASSUME CallFacts,
           Typed, LedgerInv, [Next]_vars
    PROVE  \/ \E p \in Packet : CreditStep(p) \/ Die(p)
           \/ UNCHANGED <<pkt, received>> /\ hist'.late = hist.late /\ hist'.skipped = hist.skipped
  <1> DEFINE Still == UNCHANGED <<pkt, received>> /\ hist'.late = hist.late
                      /\ hist'.skipped = hist.skipped
  <1>1. UNCHANGED vars => Still
    BY Zenon DEF vars
  <1>2. CacheExpires \/ Due \/ completeIncomingPayment \/ WorkerStep \/ WorkerDies => Still
    BY Zenon DEF CacheExpires, Due, completeIncomingPayment, WorkerStep, WorkerDies, ProcessNext,
       handleExpired, handleDeactivated, createWithdrawalEvent
  <1>3. ASSUME NEW e, NEW known, NEW done, sendWebhook(e, known, done) PROVE Still
    BY Zenon, <1>3 DEF sendWebhook
  <1>4. ASSUME NEW c \in Caller,
               \/ \E e \in DOMAIN events : withdrawEventLiquidity(c, e)
               \/ createIncomingPaymentWithdrawal(c) \/ createWalletAddressWithdrawal(c)
        PROVE  Still
    BY Zenon, <1>4 DEF withdrawEventLiquidity, BeginWithdrawal, createIncomingPaymentWithdrawal,
       createWalletAddressWithdrawal
  <1>5. ASSUME NEW c \in Caller, EndWithdrawal(c) PROVE Still
    BY Zenon, <1>5 DEF CallFacts, EndEffect
  <1>6. ASSUME NEW r,
               UpdateWithdrawal(r, "POSTED") \/ UpdateWithdrawal(r, "VOIDED") \/ HoldLapses(r)
        PROVE  Still
    BY Zenon, <1>6 DEF UpdateWithdrawal, HoldLapses
  <1> HIDE DEF Still
  <1>7. Still \/ \E p \in Packet : CreditStep(p) \/ Die(p)
    BY Zenon, <1>1, <1>2, <1>3, <1>4, <1>5, <1>6 DEF Next
  <1> QED BY Zenon, <1>7 DEF Still

\* What a credit that has passed on is: the record of every other credit stays.
LEMMA PassedCredit ==
    ASSUME NEW p \in Packet, NEW at, Passes(p, at)
    PROVE  /\ pkt'[p].at = at /\ pkt'[p] # Idle /\ \A q \in Packet : q # p => pkt'[q] = pkt[q]
           /\ pkt'[p].amount \in Nat
  BY Zenon DEF Passes, CreditTo

\* Every step keeps both.
LEMMA LateNext ==
    ASSUME CreditFacts, CallFacts,
           Typed, LedgerInv, LateInv, FailedInv, [Next]_vars
    PROVE  LateInv' /\ FailedInv'
  <1>1. ASSUME NEW p \in Packet, CreditStep(p) \/ Die(p) PROVE LateInv' /\ FailedInv'
    <2>1. PICK at : Passes(p, at)
      BY Zenon, <1>1, CreditPasses
    <2>2. /\ hist'.late = LateAfter(p) /\ (PostsAll(p) => pkt'[p].at = "posted")
      BY Zenon, <1>1, CreditPasses
    <2>3. /\ pkt'[p].at = at /\ \A q \in Packet : q # p => pkt'[q] = pkt[q]
      BY Zenon, <2>1, PassedCredit
    <2>4. hist.late \subseteq Packet
      BY Zenon DEF HistType, Typed
    <2>5. ASSUME NEW q \in hist'.late
          PROVE  pkt'[q].at \in {"posted", "read", "fulfilled", "paid", "dead"}
      <3>1. CASE q = p /\ PostsAll(p)
        BY Zenon, <2>2, <3>1
      <3>2. CASE q \in hist.late
        BY Zenon, <2>1, <2>3, <2>4, <3>2 DEF LateInv, Passes
      <3> QED BY Zenon, <2>2, <3>1, <3>2 DEF LateAfter
    <2>6. FailedInv'
      BY Zenon, <2>1, <2>3 DEF FailedInv, Passes
    <2> QED BY Zenon, <2>5, <2>6 DEF LateInv
  <1>2. CASE UNCHANGED pkt /\ hist'.late = hist.late
    BY Zenon, <1>2 DEF LateInv, FailedInv
  <1> QED BY Zenon, <1>1, <1>2, PacketCases

\* Late credits have amounts.
LEMMA LateAmounts ==
    ASSUME CreditSums, CreditFacts,
           Typed, LateInv
    PROVE  /\ hist.late \in SUBSET Packet /\ Late \in Nat
           /\ \A p \in hist.late : pkt[p] # Idle /\ pkt[p].amount \in Nat
  <1>1. hist.late \in SUBSET Packet
    BY Zenon DEF HistType, Typed
  <1>2. \A p \in hist.late : pkt[p] # Idle
    BY DEF LateInv, Idle
  <1>3. \A p \in hist.late : pkt[p].amount \in Nat
    BY Zenon, <1>1, <1>2 DEF CreditFacts, CreditIs
  <1> QED BY Zenon, <1>1, <1>2, <1>3 DEF Late, CreditSums

\* Every step is one of these.
LEMMA LateGrows ==
    ASSUME CreditSums, CreditFacts, CallFacts,
           Typed, LedgerInv, LateInv, TotalStep, [Next]_vars
    PROVE  LateStep
  <1>1. /\ hist.late \in SUBSET Packet /\ Late \in Nat
        /\ \A p \in hist.late : pkt[p] # Idle /\ pkt[p].amount \in Nat
    BY Zenon, LateAmounts
  <1>2. \A p \in hist.late : pkt[p].amount \in Nat /\ pkt'[p].amount = pkt[p].amount
    BY Zenon, <1>1, CreditsAreKept DEF CreditsKept
  <1>3. Worths(pkt', hist.late) = Late
    BY Zenon, <1>1, <1>2 DEF Late, CreditSums
  <1>4. CASE hist'.late = hist.late /\ ~\E p \in Packet : PostsAll(p) /\ tooLate
    <2>1. Late' = Late
      BY Zenon, <1>3, <1>4 DEF Late
    <2>2. tooLate => total' = total
      BY Zenon, <1>4 DEF TotalStep
    <2>3. total \in Nat /\ total' \in Nat /\ Late \in Nat
      BY Zenon, <1>1 DEF TotalStep
    <2>4. Late <= Late'
      BY <2>1, <2>3
    <2>5. ASSUME tooLate PROVE total' + Late <= total + Late'
      BY <2>1, <2>2, <2>3, <2>5
    <2> QED BY Zenon, <2>1, <2>3, <2>4, <2>5 DEF LateStep
  <1>5. ASSUME NEW p \in Packet, PostsAll(p), tooLate PROVE LateStep
    <2>1. pkt[p].at = "held" /\ pkt[p] # Idle
      BY Zenon, <1>5 DEF PostsAll, CreditFacts, PostEffect
    <2>2. p \notin hist.late
      BY Zenon, <2>1 DEF LateInv
    <2>3. pkt[p].amount \in Nat /\ pkt'[p].amount = pkt[p].amount
      BY Zenon, <2>1, CreditsAreKept DEF CreditsKept, CreditFacts, CreditIs
    <2>4. hist'.late = hist.late \cup {p}
      BY Zenon, <1>5, CreditPasses DEF PostsAll, LateAfter, CreditStep
    <2>5. Worths(pkt', hist.late \cup {p}) = Worths(pkt', hist.late) + pkt'[p].amount
      BY <1>1, <1>2, <2>2, <2>3 DEF CreditSums
    <2>6. Late' = Late + pkt[p].amount
      BY Zenon, <1>3, <2>3, <2>4, <2>5 DEF Late
    <2>7. total' <= total + pkt[p].amount
      <3>1. ASSUME NEW q \in Packet, PostsAll(q) PROVE q = p
        <4>1. CreditTo(p, "posted") /\ CreditTo(q, "posted") /\ pkt[q].at = "held"
          BY Zenon, <1>5, <3>1 DEF PostsAll, CreditFacts, PostEffect
        <4> QED BY Zenon, <2>1, <4>1 DEF CreditTo
      <3> QED BY <2>3, <3>1 DEF TotalStep
    <2> QED BY <1>1, <2>3, <2>6, <2>7 DEF LateStep, TotalStep
  <1>6. ASSUME NEW p \in Packet, CreditStep(p) \/ Die(p)
        PROVE  hist'.late = hist.late \/ (PostsAll(p) /\ tooLate)
    BY Zenon, <1>6, CreditPasses DEF LateAfter
  <1> QED BY Zenon, <1>4, <1>5, <1>6, PacketCases

-----------------------------------------------------------------------------
\* The connection's total.

\* The packets that were not rejected have amounts.
LEMMA AcceptedAmounts ==
    ASSUME CreditSums, CreditFacts,
           Typed
    PROVE  Accepted \in SUBSET Packet /\ Worths(pkt, Accepted) \in Nat
           /\ \A p \in Packet : pkt[p] # Idle => pkt[p].amount \in Nat
  <1>1. \A p \in Packet : pkt[p] # Idle => pkt[p].amount \in Nat
    BY Zenon DEF CreditFacts, CreditIs
  <1>2. Accepted \in SUBSET Packet /\ \A p \in Accepted : pkt[p].amount \in Nat
    BY Zenon, <1>1 DEF Accepted
  <1> QED BY Zenon, <1>1, <1>2 DEF CreditSums

\* A step of credit p, by whether p counts before and after.
LEMMA AcceptedStep ==
    ASSUME CreditSums, CreditFacts,
           Typed, LedgerInv, NEW p \in Packet, NEW at, CreditTo(p, at)
    PROVE  /\ p \notin Accepted /\ p \in Accepted' =>
                  Worths(pkt', Accepted') = Worths(pkt, Accepted) + pkt'[p].amount
           /\ p \in Accepted /\ p \notin Accepted' =>
                  Worths(pkt', Accepted') = Worths(pkt, Accepted) - pkt[p].amount
           /\ (p \in Accepted <=> p \in Accepted') => Worths(pkt', Accepted') = Worths(pkt, Accepted)
  <1> DEFINE S == Accepted \ {p}
  <1>1. /\ pkt'[p] # Idle /\ pkt'[p].amount \in Nat /\ \A q \in Packet : q # p => pkt'[q] = pkt[q]
        /\ pkt[p] # Idle => pkt'[p].amount = pkt[p].amount
    BY Zenon DEF CreditTo
  <1>2. Accepted \in SUBSET Packet /\ (\A q \in Accepted : pkt[q].amount \in Nat)
        /\ Worths(pkt, Accepted) \in Nat
    BY Zenon, AcceptedAmounts DEF Accepted
  <1>3. S \in SUBSET Packet /\ p \notin S
        /\ \A q \in S : pkt[q].amount \in Nat /\ pkt'[q].amount = pkt[q].amount
    BY Zenon, <1>1, <1>2
  <1>4. Worths(pkt', S) = Worths(pkt, S) /\ Worths(pkt, S) \in Nat
    <2> HIDE DEF S
    <2> QED BY Zenon, <1>3 DEF CreditSums
  <1>5. Accepted' = IF p \in Accepted' THEN S \cup {p} ELSE S
    BY Zenon, <1>1 DEF Accepted
  <1>6. Accepted = IF p \in Accepted THEN S \cup {p} ELSE S
    BY Zenon DEF Accepted
  <1>7. p \in Accepted => pkt[p] # Idle
    BY Zenon DEF Accepted
  <1> HIDE DEF S
  <1>8. p \in Accepted => Worths(pkt, Accepted) = Worths(pkt, S) + pkt[p].amount
                          /\ pkt[p].amount \in Nat /\ pkt'[p].amount = pkt[p].amount
    <2> SUFFICES ASSUME p \in Accepted
                 PROVE  Worths(pkt, Accepted) = Worths(pkt, S) + pkt[p].amount
                        /\ pkt[p].amount \in Nat /\ pkt'[p].amount = pkt[p].amount
      BY Zenon
    <2>1. pkt[p].amount \in Nat /\ pkt'[p].amount = pkt[p].amount
      BY Zenon, <1>1, <1>2, <1>7
    <2>2. Worths(pkt, S \cup {p}) = Worths(pkt, S) + pkt[p].amount
      BY Zenon, <1>3, <2>1 DEF CreditSums
    <2> QED BY Zenon, <1>6, <2>1, <2>2
  <1>9. p \in Accepted' => Worths(pkt', Accepted') = Worths(pkt, S) + pkt'[p].amount
    <2>1. Worths(pkt', S \cup {p}) = Worths(pkt', S) + pkt'[p].amount
      BY Zenon, <1>1, <1>3 DEF CreditSums
    <2> QED BY Zenon, <1>4, <1>5, <2>1
  <1>10. p \notin Accepted => Worths(pkt, Accepted) = Worths(pkt, S)
    BY Zenon, <1>6
  <1>11. p \notin Accepted' => Worths(pkt', Accepted') = Worths(pkt, S)
    BY Zenon, <1>4, <1>5
  <1> QED BY <1>1, <1>4, <1>8, <1>9, <1>10, <1>11

\* Every step keeps the connection's total.
LEMMA ReceivedNext ==
    ASSUME CreditSums, CreditFacts, CallFacts,
           Typed, LedgerInv, ReceivedInv, [Next]_vars
    PROVE  ReceivedInv'
  <1> DEFINE w == Worths(pkt, Accepted)
             v == Worths(pkt', Accepted')
  <1>1. received = w /\ w \in Nat /\ (v = received' => ReceivedInv')
    BY Zenon, AcceptedAmounts DEF ReceivedInv
  <1>2. ASSUME NEW p \in Packet, NEW at, CreditTo(p, at)
        PROVE  /\ p \notin Accepted /\ p \in Accepted' => v = w + pkt'[p].amount
               /\ p \in Accepted /\ p \notin Accepted' => v = w - pkt[p].amount
               /\ (p \in Accepted <=> p \in Accepted') => v = w
               /\ p \in Accepted' <=> pkt'[p].from = "peer" /\ at # "rejected"
    BY Zenon, <1>2, AcceptedStep DEF Accepted, CreditTo
  <1>3. \A p \in Packet : pkt[p] = Idle => p \notin Accepted
    BY Zenon DEF Accepted
  <1>4. \A p \in Packet : pkt[p] # Idle /\ pkt[p].at # "rejected" =>
            (p \in Accepted <=> pkt[p].from = "peer")
    BY Zenon DEF Accepted
  <1>5. \A p \in Packet : \A at : CreditTo(p, at) /\ pkt[p] # Idle => pkt'[p].from = pkt[p].from
    BY Zenon DEF CreditTo
  <1>6. UNCHANGED pkt => v = w
    BY Zenon DEF Accepted
  <1> HIDE DEF w, v
  <1>7. ASSUME NEW p \in Packet, Accept(p) PROVE v = received'
    <2>1. /\ pkt[p] = Idle /\ pkt'[p].from = "peer"
          /\ \/ CreditTo(p, "checked") /\ received' = received + pkt'[p].amount
             \/ CreditTo(p, "rejected") /\ UNCHANGED received
      BY Zenon, <1>7 DEF CreditFacts, AcceptEffect
    <2> QED BY <1>1, <1>2, <1>3, <2>1
  <1>8. ASSUME NEW p \in Packet, Pay(p) PROVE v = received'
    <2>1. /\ pkt[p] = Idle /\ pkt'[p].from = "outgoing" /\ UNCHANGED received
          /\ \E at : CreditTo(p, at)
      BY Zenon, <1>8 DEF CreditFacts, PayEffect
    <2> QED BY Zenon, <1>1, <1>2, <1>3, <2>1
  <1>9. ASSUME NEW p \in Packet, ValidateCredit(p) PROVE v = received'
    <2>1. /\ pkt[p].at = "checked" /\ pkt[p] # Idle
          /\ \/ CreditTo(p, "validated") /\ UNCHANGED received
             \/ /\ pkt[p].from = "peer" /\ CreditTo(p, "rejected")
                /\ received' = received - pkt[p].amount
             \/ pkt[p].from # "peer" /\ CreditTo(p, "failed") /\ UNCHANGED received
      BY Zenon, <1>9 DEF CreditFacts, ValidateEffect
    <2> QED BY <1>1, <1>2, <1>4, <1>5, <2>1
  <1>10. ASSUME NEW p \in Packet, NEW at, CreditTo(p, at), UNCHANGED received, at # "rejected",
                pkt[p] # Idle, pkt[p].at # "rejected"
         PROVE  v = received'
    BY Zenon, <1>1, <1>2, <1>4, <1>5, <1>10
  <1>11. ASSUME NEW p \in Packet, HoldCredit(p) \/ Post(p) \/ ReadTotal(p) \/ OnCredit(p) \/ Die(p)
         PROVE  v = received'
    <2>1. UNCHANGED received
      BY Zenon, <1>11 DEF HoldCredit, Post, ReadTotal, OnCredit, Die
    <2>2. pkt[p].at \in {"checked", "validated", "held", "posted", "read"}
      BY Zenon, <1>11 DEF HoldCredit, Post, ReadTotal, OnCredit, Die
    <2>3. PICK at : Passes(p, at)
      BY Zenon, <1>11, CreditPasses DEF CreditStep
    <2>4. at # "rejected"
      <3>1. HoldCredit(p) \/ Post(p) \/ ReadTotal(p) \/ OnCredit(p) => pkt[p].at # "checked"
        BY Zenon DEF HoldCredit, Post, ReadTotal, OnCredit
      <3>2. Die(p) => pkt'[p].at = "dead"
        BY Zenon DEF CreditTo, CreditFacts, DieEffect
      <3>3. pkt'[p].at = at
        BY Zenon, <2>3, PassedCredit
      <3> QED BY Zenon, <1>11, <2>2, <2>3, <3>1, <3>2, <3>3 DEF Passes
    <2>5. pkt[p] # Idle
      BY <2>2 DEF Idle
    <2> QED BY Zenon, <1>10, <2>1, <2>2, <2>3, <2>4, <2>5 DEF Passes
  <1>12. ASSUME NEW p \in Packet, CreditStep(p) \/ Die(p) PROVE v = received'
    BY Zenon, <1>7, <1>8, <1>9, <1>11, <1>12 DEF CreditStep
  <1>13. UNCHANGED <<pkt, received>> => v = received'
    BY Zenon, <1>1, <1>6
  <1> QED BY Zenon, <1>1, <1>12, <1>13, PacketCases

-----------------------------------------------------------------------------
\* What the events announce.

\* What is announced is a number.
LEMMA AnnouncedType ==
    ASSUME EventSums,
           EventsType
    PROVE  announced \in Nat /\ (Len(events) = 0 => announced = 0)
  BY Zenon DEF EventsType, EventSums, announced, Sum

\* A new event announces its amount more.
LEMMA AnnouncedMore ==
    ASSUME EventSums, EventFacts,
           EventsType, NEW n \in Nat \ {0}, announce(n)
    PROVE  announced' = announced + n
  <1>1. /\ EventsType' /\ Len(events') = Len(events) + 1 /\ events'[Len(events) + 1].amount = n
        /\ \A e \in 1..Len(events) : events'[e] = events[e]
    BY Zenon DEF EventFacts, AnnounceEffect
  <1>2. Sum(events') = Sum(events) + events'[Len(events) + 1].amount
    BY Zenon, <1>1 DEF EventsType, EventSums
  <1> QED BY Zenon, <1>1, <1>2 DEF announced, Sum

\* A webhook announces nothing new.
LEMMA AnnouncedAgain ==
    ASSUME EventFacts,
           EventsType, NEW e \in DOMAIN events, NEW known \in BOOLEAN, NEW done \in BOOLEAN,
           sendWebhook(e, known, done)
    PROVE  announced' = announced
  <1>1. /\ DOMAIN events' = DOMAIN events
        /\ \A i \in DOMAIN events : events'[i].amount = events[i].amount
    BY Zenon DEF EventFacts, SendEffect
  <1>2. Sum(events') = Sum(events)
    BY Zenon, <1>1, SumOfSame DEF EventsType
  <1> QED BY Zenon, <1>2 DEF announced, Sum

\* Every step keeps the worker behind.
LEMMA WorkerNext ==
    ASSUME DestFacts,
           Typed, WorkerBehind, TotalStep, [Next]_vars
    PROVE  WorkerBehind'
  <1>1. WorkerType
    BY Zenon DEF Typed
  <1>2. CASE UNCHANGED worker
    <2>1. locked' = locked /\ worker'.total = worker.total
      BY Zenon, <1>2 DEF locked
    <2>2. locked => worker.total \in Nat
      BY Zenon, <1>1 DEF WorkerType, locked
    <2> QED BY <2>1, <2>2 DEF WorkerBehind, TotalStep
  <1>3. CASE worker' = Idle
    BY Zenon, <1>3 DEF WorkerBehind, locked
  <1>4. CASE ProcessNext
    <2>1. worker'.total = total /\ rows' = rows
      BY Zenon, <1>4 DEF ProcessNext
    <2>2. total' = total
      BY Zenon, <2>1 DEF total
    <2> QED BY Zenon, <2>1, <2>2 DEF WorkerBehind, TotalStep
  <1>5. \/ UNCHANGED worker \/ worker' = Idle \/ ProcessNext
    <2>1. Elsewhere \/ Due \/ completeIncomingPayment \/ (\E p \in Packet : OnCredit(p)) =>
              UNCHANGED worker
      BY Zenon DEF Elsewhere, Due, completeIncomingPayment, OnCredit
    <2>3. ASSUME NEW e, NEW known, NEW done, sendWebhook(e, known, done) PROVE UNCHANGED worker
      BY Zenon, <2>3 DEF sendWebhook
    <2>2. handleExpired \/ handleDeactivated \/ createWithdrawalEvent \/ WorkerDies => worker' = Idle
      BY Zenon DEF handleExpired, handleDeactivated, createWithdrawalEvent, WorkerDies
    <2> QED BY Zenon, <2>1, <2>2, <2>3 DEF DestFacts, DestCases
  <1> QED BY Zenon, <1>2, <1>3, <1>4, <1>5

-----------------------------------------------------------------------------
\* The books of the destination.

\* What is posted late is late.
LEMMA LateBalance ==
    ASSUME NEW t \in Nat, NEW u \in Nat, NEW k \in Nat, NEW l \in Nat, NEW a \in Nat,
           u + k <= t + l, t <= a + k
    PROVE  u <= a + l
  OBVIOUS

\* Nothing is posted, or nothing is late.
LEMMA LateNone ==
    ASSUME NEW t \in Nat, NEW l \in Nat
    PROVE  0 <= t /\ t <= t + l
  OBVIOUS

\* More credits are late.
LEMMA LateMore ==
    ASSUME NEW t \in Nat, NEW k \in Nat, NEW l \in Nat, NEW a \in Nat, k <= l, t <= a + k
    PROVE  t <= a + l
  OBVIOUS

\* A step that leaves the worker and the destination's row alone.
LEMMA BooksElsewhere ==
    ASSUME EventSums,
           Typed, isPayment, PaymentBooks, LateStep, TotalStep, EventsType, announced' = announced,
           UNCHANGED <<dest, worker>>
    PROVE  PaymentBooks'
  <1>1. announced \in Nat /\ Late \in Nat /\ Late' \in Nat /\ total \in Nat /\ total' \in Nat
        /\ total <= total'
    BY Zenon, AnnouncedType DEF LateStep, TotalStep
  <1>2. locked' = locked
    BY Zenon DEF locked
  <1>3. ASSUME locked', dest'.state \in Deactivated \/ worker'.total = 0
        PROVE  total' <= worker'.total + Late'
    <2>1. locked /\ (dest.state \in Deactivated \/ worker.total = 0)
      BY Zenon, <1>2, <1>3
    <2>2. tooLate
      BY Zenon, <2>1 DEF tooLate
    <2>3. worker.total \in Nat
      BY Zenon, <2>1 DEF WorkerType, locked, Typed
    <2>4. total' + Late <= total + Late' /\ total <= worker.total + Late
      BY Zenon, <2>1, <2>2 DEF LateStep, PaymentBooks
    <2>5. total' <= worker.total + Late'
      BY Zenon, <1>1, <2>3, <2>4, LateBalance
    <2> QED BY Zenon, <2>5
  <1>4. ASSUME dest'.processAt = "null"
        PROVE  announced' <= total' /\ total' <= announced' + Late'
    <2>1. tooLate /\ dest.processAt = "null"
      BY Zenon, <1>4 DEF tooLate
    <2>2. total' + Late <= total + Late' /\ announced <= total /\ total <= announced + Late
      BY Zenon, <2>1 DEF LateStep, PaymentBooks
    <2>3. announced <= total'
      BY <1>1, <2>2
    <2>4. total' <= announced + Late'
      BY Zenon, <1>1, <2>2, LateBalance
    <2> QED BY Zenon, <2>3, <2>4
  <1>5. Deactivated' = Deactivated
    BY Zenon DEF Deactivated
  <1> QED BY Zenon, <1>3, <1>4 DEF PaymentBooks

\* Every step keeps the books of an incoming payment.
LEMMA PaymentBooksNext ==
    ASSUME EventSums, EventFacts, DestFacts,
           Typed, PaymentInv, PaymentInv', WorkerBehind, PaymentBooks, LateStep, TotalStep, [Next]_vars
    PROVE  PaymentBooks'
  <1>1. isPayment /\ EventsType /\ WorkerType
    BY Zenon DEF PaymentInv, isPayment, PaymentRow, Typed
  <1>2. announced \in Nat /\ Late \in Nat /\ Late' \in Nat /\ total \in Nat /\ total' \in Nat
        /\ total <= total' /\ Late <= Late'
    BY Zenon, <1>1, AnnouncedType DEF LateStep, TotalStep
  <1>3. UNCHANGED events => announced' = announced
    BY Zenon DEF announced
  <1>4. UNCHANGED rows => total' = total
    BY Zenon DEF total
  <1>5. PICK d \in PaymentRow : d = dest
    BY Zenon DEF PaymentInv
  <1>6. CASE Elsewhere
    BY Zenon, <1>1, <1>3, <1>6, BooksElsewhere DEF Elsewhere
  <1>7. ASSUME NEW e \in DOMAIN events, NEW known \in BOOLEAN, NEW done \in BOOLEAN,
               sendWebhook(e, known, done)
        PROVE  PaymentBooks'
    BY Zenon, <1>1, <1>7, AnnouncedAgain, BooksElsewhere DEF sendWebhook
  <1>8. ASSUME ~locked', dest'.processAt # "null" PROVE PaymentBooks'
    BY Zenon, <1>8 DEF PaymentBooks
  <1>9. ASSUME NEW p \in Packet, OnCredit(p) PROVE PaymentBooks'
    <2>1. /\ ~locked' /\ UNCHANGED <<events, rows>>
          /\ \/ UNCHANGED dest
             \/ d.state \in Open /\ dest' = TurnedAt(d, "COMPLETED", "now")
             \/ d.state \in Open /\ dest' = [d EXCEPT !.state = "PROCESSING"]
      BY Zenon, <1>1, <1>5, <1>9 DEF OnCredit, creditedPayment, TurnedAt, locked
    <2>2. CASE UNCHANGED dest
      <3>1. announced' = announced /\ total' = total
        BY Zenon, <1>3, <1>4, <2>1
      <3>2. dest'.processAt = "null" => announced <= total /\ total <= announced + Late
        BY Zenon, <2>2 DEF PaymentBooks
      <3>3. ASSUME dest'.processAt = "null" PROVE announced' <= total' /\ total' <= announced' + Late'
        <4>1. announced <= total /\ total <= announced + Late
          BY Zenon, <3>2, <3>3
        <4>2. total <= announced + Late'
          BY Zenon, <1>2, <4>1, LateMore
        <4> QED BY Zenon, <3>1, <4>1, <4>2
      <3> QED BY Zenon, <2>1, <3>3 DEF PaymentBooks
    <2>3. CASE dest' = TurnedAt(d, "COMPLETED", "now")
      <3>1. dest'.processAt = "now"
        BY Zenon, <2>3 DEF Status, Deactivated, When, DestFacts, PaymentTurns
      <3> QED BY Zenon, <1>8, <2>1, <3>1
    <2>4. CASE d.state \in Open /\ dest' = [d EXCEPT !.state = "PROCESSING"]
      <3>1. dest'.processAt = d.processAt
        BY Zenon, <2>4 DEF PaymentRow
      <3>2. d.processAt # "null"
        BY Zenon, <1>5, <2>4 DEF PaymentInv
      <3> QED BY Zenon, <1>8, <2>1, <3>1, <3>2
    <2> QED BY Zenon, <2>1, <2>2, <2>3, <2>4
  <1>10. CASE Due
    <2>1. dest' = [d EXCEPT !.processAt = "now"] /\ UNCHANGED <<worker, rows>>
      BY Zenon, <1>5, <1>10 DEF Due
    <2>2. dest'.processAt = "now" /\ dest'.state = dest.state
      BY Zenon, <1>5, <2>1 DEF When, PaymentRow
    <2>3. locked' = locked /\ worker'.total = worker.total /\ total' = total
      BY Zenon, <1>4, <2>1 DEF locked
    <2>4. ASSUME locked, dest.state \in Deactivated \/ worker.total = 0
          PROVE  total <= worker.total + Late'
      <3>1. total <= worker.total + Late /\ worker.total \in Nat
        BY Zenon, <1>1, <2>4 DEF PaymentBooks, WorkerType, locked
      <3> QED BY <1>2, <3>1
    <2> QED BY Zenon, <2>2, <2>3, <2>4 DEF PaymentBooks
  <1>11. CASE completeIncomingPayment
    <2>1. dest' = TurnedAt(d, "COMPLETED", "now") /\ ~locked'
      BY Zenon, <1>5, <1>11 DEF completeIncomingPayment, TurnedAt, locked
    <2>2. dest'.processAt = "now"
      BY Zenon, <2>1 DEF Status, Deactivated, When, DestFacts, PaymentTurns
    <2> QED BY Zenon, <1>8, <2>1, <2>2
  <1>12. CASE ProcessNext
    <2>1. worker'.total = total /\ dest' = dest /\ dest.processAt = "now" /\ UNCHANGED rows
      BY Zenon, <1>12 DEF ProcessNext
    <2>2. total <= total + Late'
      BY Zenon, <1>2, LateNone
    <2>3. total' <= worker'.total + Late'
      BY Zenon, <1>4, <2>1, <2>2
    <2> QED BY Zenon, <2>1, <2>3 DEF PaymentBooks
  <1>13. CASE handleExpired
    <2>1. locked /\ ~locked' /\ UNCHANGED <<events, rows>> /\ worker.total \in Nat
      BY Zenon, <1>1, <1>13 DEF handleExpired, locked, WorkerType
    <2>2. CASE worker.total > 0
      <3>1. dest' = [d EXCEPT !.state = "EXPIRED"]
        BY Zenon, <1>5, <1>13, <2>2 DEF handleExpired
      <3>2. dest'.processAt = d.processAt
        BY Zenon, <3>1 DEF PaymentRow
      <3>3. d.processAt # "null"
        BY Zenon, <1>5, <2>1 DEF PaymentInv
      <3> QED BY Zenon, <1>8, <2>1, <3>2, <3>3
    <2>3. CASE ~(worker.total > 0)
      <3>1. worker.total = 0 /\ total <= worker.total + Late
        BY <2>1, <2>3 DEF PaymentBooks
      <3>2. announced = 0
        BY Zenon, <1>1, <2>1, AnnouncedType DEF PaymentInv
      <3>3. 0 <= total /\ total <= announced + Late
        BY Zenon, <1>2, <3>1, <3>2, LateNone
      <3>4. announced <= total /\ total <= announced + Late'
        BY Zenon, <1>2, <3>2, <3>3, LateMore
      <3>5. announced' <= total' /\ total' <= announced' + Late'
        BY Zenon, <1>3, <1>4, <2>1, <3>4
      <3> QED BY Zenon, <2>1, <3>5 DEF PaymentBooks
    <2> QED BY Zenon, <2>2, <2>3
  <1>14. CASE handleDeactivated
    <2>1. /\ locked /\ ~locked' /\ UNCHANGED rows /\ worker.total \in Nat
          /\ dest.state \in Deactivated
          /\ IF worker.total > 0 THEN announce(worker.total) ELSE UNCHANGED events
      BY Zenon, <1>1, <1>14 DEF handleDeactivated, locked, WorkerType
    <2>2. announced = 0
      BY Zenon, <1>1, <2>1, AnnouncedType DEF PaymentInv
    <2>3. total <= worker.total + Late /\ worker.total <= total
      BY Zenon, <2>1 DEF PaymentBooks, WorkerBehind
    <2>4. announced' = worker.total
      <3>1. CASE worker.total > 0
        BY <1>1, <2>1, <2>2, <3>1, AnnouncedMore
      <3>2. CASE ~(worker.total > 0)
        BY <1>3, <2>1, <2>2, <3>2
      <3> QED BY Zenon, <3>1, <3>2
    <2>5. announced' <= total' /\ total' <= announced' + Late'
      BY <1>2, <1>4, <2>1, <2>3, <2>4
    <2> QED BY Zenon, <2>1, <2>5 DEF PaymentBooks
  <1>15. CASE WorkerDies
    <2>1. locked /\ ~locked' /\ UNCHANGED dest
      BY Zenon, <1>15 DEF WorkerDies, locked
    <2> QED BY Zenon, <1>8, <2>1 DEF PaymentInv
  <1>16. ~createWithdrawalEvent
    BY Zenon, <1>1 DEF createWithdrawalEvent
  <1> QED BY Zenon, <1>6, <1>7, <1>9, <1>10, <1>11, <1>12, <1>13, <1>14, <1>15, <1>16 DEF DestFacts,
             DestCases

\* Every step keeps the books of a wallet address.
LEMMA WalletBooksNext ==
    ASSUME EventSums, EventFacts, DestFacts,
           Typed, NEW T, dest \in WalletOf(T), WorkerBehind, WalletBooks, TotalStep, [Next]_vars
    PROVE  WalletBooks'
  <1>1. ~isPayment /\ EventsType /\ WorkerType
    BY Zenon DEF Typed, WalletOf, isPayment
  <1>2. announced \in Nat /\ total \in Nat /\ total' \in Nat /\ total <= total'
    BY Zenon, <1>1, AnnouncedType DEF TotalStep
  <1>3. PICK d \in WalletOf(T) : d = dest
    BY Zenon
  <1>4. ASSUME announced' = announced, dest'.totalEvents = dest.totalEvents PROVE WalletBooks'
    BY <1>2, <1>4 DEF WalletBooks
  <1>5. ASSUME UNCHANGED events, UNCHANGED dest \/ \E w \in When : Scheduled(w)
        PROVE  WalletBooks'
    <2>1. announced' = announced
      BY Zenon, <1>5 DEF announced
    <2>2. ASSUME NEW w \in When, Scheduled(w) PROVE dest'.totalEvents = dest.totalEvents
      <3>1. dest' = [d EXCEPT !.processAt = w]
        BY Zenon, <1>3, <2>2 DEF Scheduled
      <3> QED BY Zenon, <1>3, <3>1 DEF WalletOf
    <2> QED BY Zenon, <1>4, <1>5, <2>1, <2>2
  <1>6. Elsewhere \/ ProcessNext \/ WorkerDies => UNCHANGED events /\ UNCHANGED dest
    BY Zenon DEF Elsewhere, ProcessNext, WorkerDies
  <1>7. ASSUME NEW e \in DOMAIN events, NEW known \in BOOLEAN, NEW done \in BOOLEAN,
               sendWebhook(e, known, done)
        PROVE  WalletBooks'
    BY Zenon, <1>1, <1>4, <1>7, AnnouncedAgain DEF sendWebhook
  <1>8. ASSUME NEW p \in Packet, OnCredit(p) PROVE WalletBooks'
    BY Zenon, <1>1, <1>5, <1>8 DEF OnCredit, creditedWallet, Scheduled, When
  <1>9. CASE Due
    BY Zenon, <1>5, <1>9 DEF Due, Scheduled, When
  <1>10. CASE createWithdrawalEvent
    <2>1. locked /\ worker.total \in Nat /\ dest.totalEvents = announced /\ worker.total <= total
      BY Zenon, <1>1, <1>10 DEF createWithdrawalEvent, WorkerType, locked, WalletBooks, WorkerBehind
    <2>2. CASE worker.total > dest.totalEvents
      <3>1. announce(worker.total - dest.totalEvents) /\ Announced(worker.total) /\ UNCHANGED rows
        BY Zenon, <1>10, <2>2 DEF createWithdrawalEvent, Announced
      <3>2. worker.total - dest.totalEvents \in Nat \ {0}
        BY <1>2, <2>1, <2>2
      <3>3. announced' = announced + (worker.total - dest.totalEvents)
        BY Zenon, <1>1, <3>1, <3>2, AnnouncedMore
      <3>4. announced' = worker.total
        BY <1>2, <2>1, <3>3
      <3>5. dest'.totalEvents = worker.total
        <4> DEFINE c == [d EXCEPT !.totalEvents = worker.total]
        <4>1. c \in WalletOf(T \cup {worker.total}) /\ c.totalEvents = worker.total
          BY Zenon DEF WalletOf
        <4>2. dest' = [c EXCEPT !.processAt = "null"]
          BY Zenon, <1>3, <3>1 DEF Announced
        <4> HIDE DEF c
        <4> QED BY Zenon, <4>1, <4>2 DEF WalletOf
      <3>6. total' = total
        BY Zenon, <3>1 DEF total
      <3> QED BY Zenon, <2>1, <3>4, <3>5, <3>6 DEF WalletBooks
    <2>3. CASE ~(worker.total > dest.totalEvents)
      BY Zenon, <1>5, <1>10, <2>3 DEF createWithdrawalEvent, Scheduled, When
    <2> QED BY Zenon, <2>2, <2>3
  <1>11. ~completeIncomingPayment /\ ~handleExpired /\ ~handleDeactivated
    BY Zenon, <1>1 DEF completeIncomingPayment, handleExpired, handleDeactivated
  <1> QED BY Zenon, <1>5, <1>6, <1>7, <1>8, <1>9, <1>10, <1>11 DEF DestFacts, DestCases

-----------------------------------------------------------------------------
\* The withdrawals of an incoming payment.

\* More was received.
LEMMA StillWithin ==
    ASSUME TotalStep, NEW n \in Nat, n <= total
    PROVE  n <= total'
  <1>1. ASSUME NEW t \in Nat, NEW u \in Nat, t <= u, n <= t PROVE n <= u
    BY <1>1
  <1> QED BY Zenon, <1>1 DEF TotalStep

\* The transfers from the payment.
LEMMA RowsWithin ==
    ASSUME CreditFacts, CallFacts, RowFacts,
           Typed, LedgerInv, MoneyInv, OneWithdrawal, TotalStep, [Next]_vars
    PROVE  \A r \in DOMAIN rows' : rows'[r].debit = Dst => r = EventId /\ rows'[r].amount <= total'
  <1>1. TypedRows(rows) /\ CallsType
    BY Zenon DEF Typed
  <1>2. \A r \in DOMAIN rows : rows[r].amount \in Nat
    BY Zenon, <1>1 DEF TypedRows, Row
  <1>3. ASSUME Grows(rows, rows'), \A r \in DOMAIN rows' \ DOMAIN rows : rows'[r].debit # Dst
        PROVE  \A r \in DOMAIN rows' : rows'[r].debit = Dst => r = EventId /\ rows'[r].amount <= total'
    <2> SUFFICES ASSUME NEW r \in DOMAIN rows', rows'[r].debit = Dst
                 PROVE  r = EventId /\ rows'[r].amount <= total'
      BY Zenon
    <2>1. r \in DOMAIN rows /\ rows[r].debit = Dst /\ rows'[r].amount = rows[r].amount
      BY Zenon, <1>3 DEF Grows
    <2>2. r = EventId /\ rows[r].amount <= total
      BY Zenon, <2>1 DEF OneWithdrawal, FromDest
    <2> QED BY Zenon, <1>2, <2>1, <2>2, StillWithin
  <1>4. ASSUME TypedRows(rows'), Loosened(rows, rows')
        PROVE  \A r \in DOMAIN rows' : rows'[r].debit = Dst => r = EventId /\ rows'[r].amount <= total'
    BY Zenon, <1>3, <1>4 DEF Loosened, Grows
  <1>5. CASE UNCHANGED rows
    BY Zenon, <1>3, <1>5 DEF Grows
  <1>6. ASSUME NEW p \in Packet, HoldCredit(p)
        PROVE  \A r \in DOMAIN rows' : rows'[r].debit = Dst => r = EventId /\ rows'[r].amount <= total'
    BY Zenon, <1>3, <1>6 DEF HoldOf, CreditFacts, HoldEffect
  <1>7. ASSUME NEW p \in Packet, Post(p)
        PROVE  \A r \in DOMAIN rows' : rows'[r].debit = Dst => r = EventId /\ rows'[r].amount <= total'
    BY Zenon, <1>4, <1>7 DEF CreditFacts, PostEffect
  <1>8. ASSUME NEW c \in Caller, EndWithdrawal(c)
        PROVE  \A r \in DOMAIN rows' : rows'[r].debit = Dst => r = EventId /\ rows'[r].amount <= total'
    <2>1. calls[c] # Idle /\ WithdrawnBy(calls[c].event, calls[c].amount, rows')
      BY Zenon, <1>8 DEF CallFacts, EndEffect
    <2>2. calls[c].event = 1 /\ calls[c].amount <= total /\ calls[c].amount \in Nat
      BY Zenon, <1>1, <2>1 DEF OneWithdrawal, CallsType, Call
    <2>3. calls[c].amount <= total'
      BY Zenon, <2>2, StillWithin
    <2> SUFFICES ASSUME NEW r \in DOMAIN rows', rows'[r].debit = Dst
                 PROVE  r = EventId /\ rows'[r].amount <= total'
      BY Zenon
    <2>4. CASE r \in DOMAIN rows
      <3>1. rows[r].debit = Dst /\ rows'[r].amount = rows[r].amount
        BY Zenon, <2>1, <2>4 DEF WithdrawnBy, Grows
      <3>2. r = EventId /\ rows[r].amount <= total
        BY Zenon, <2>4, <3>1 DEF OneWithdrawal, FromDest
      <3> QED BY Zenon, <1>2, <2>4, <3>1, <3>2, StillWithin
    <2>5. CASE r \notin DOMAIN rows
      <3>1. r = <<"event", calls[c].event>> /\ rows'[r].amount = calls[c].amount
        BY Zenon, <2>1, <2>5 DEF WithdrawnBy
      <3> QED BY Zenon, <2>2, <2>3, <3>1 DEF EventId
    <2> QED BY Zenon, <2>4, <2>5
  <1>9. ASSUME NEW r \in DOMAIN rows, NEW state \in {"POSTED", "VOIDED"}, UpdateWithdrawal(r, state)
        PROVE  TypedRows(rows') /\ Loosened(rows, rows')
    BY Zenon, <1>9 DEF RowFacts, UpdateEffect
  <1>10. ASSUME NEW r \in DOMAIN rows, HoldLapses(r) PROVE TypedRows(rows') /\ Loosened(rows, rows')
    BY Zenon, <1>10 DEF RowFacts, LapseEffect
  <1> QED BY Zenon, <1>4, <1>5, <1>6, <1>7, <1>8, <1>9, <1>10, RowCases

\* Next, by what it does to the withdrawals in flight.
LEMMA CallCases ==
    ASSUME CallFacts,
           Typed, [Next]_vars
    PROVE  \/ UNCHANGED calls
           \/ \E c \in Caller, e \in Nat, m \in Nat, timed \in BOOLEAN : Begins(c, e, m, timed)
           \/ \E c \in Caller : EndWithdrawal(c)
  <1>1. UNCHANGED vars => UNCHANGED calls
    BY Zenon DEF vars
  <1>2. ASSUME NEW p \in Packet, CreditStep(p) \/ Die(p) PROVE UNCHANGED calls
    BY Zenon, <1>2 DEF CreditStep, Accept, Pay, ValidateCredit, HoldCredit, Post, ReadTotal,
          OnCredit, Die
  <1>3. CacheExpires \/ Due \/ completeIncomingPayment \/ WorkerStep \/ WorkerDies => UNCHANGED calls
    BY Zenon DEF CacheExpires, Due, completeIncomingPayment, WorkerStep, WorkerDies, ProcessNext,
       handleExpired, handleDeactivated, createWithdrawalEvent
  <1>4. ASSUME NEW e, NEW known, NEW done, sendWebhook(e, known, done) PROVE UNCHANGED calls
    BY Zenon, <1>4 DEF sendWebhook
  <1>5. ASSUME NEW c \in Caller,
               \/ \E e \in DOMAIN events : withdrawEventLiquidity(c, e)
               \/ createIncomingPaymentWithdrawal(c) \/ createWalletAddressWithdrawal(c)
        PROVE  \E e \in Nat, m \in Nat, timed \in BOOLEAN : Begins(c, e, m, timed)
    BY Zenon, <1>5 DEF CallFacts
  <1>6. ASSUME NEW r,
               UpdateWithdrawal(r, "POSTED") \/ UpdateWithdrawal(r, "VOIDED") \/ HoldLapses(r)
        PROVE  UNCHANGED calls
    BY Zenon, <1>6 DEF UpdateWithdrawal, HoldLapses
  <1> QED BY Zenon, <1>1, <1>2, <1>3, <1>4, <1>5, <1>6 DEF Next

\* The withdrawals in flight of the payment.
LEMMA CallsWithin ==
    ASSUME CallFacts,
           Typed, PaymentInv, OneWithdrawal, TotalStep, [Next]_vars
    PROVE  \A c \in Caller : calls'[c] # Idle => calls'[c].event = 1 /\ calls'[c].amount <= total'
  <1>1. CallsType /\ EventsType /\ isPayment /\ total \in Nat
    BY Zenon DEF PaymentInv, isPayment, PaymentRow, TotalStep, Typed
  <1>2. ASSUME NEW c \in Caller, calls'[c] # Idle, calls'[c] = calls[c]
        PROVE  calls'[c].event = 1 /\ calls'[c].amount <= total'
    <2>1. calls[c].event = 1 /\ calls[c].amount <= total /\ calls[c].amount \in Nat
      BY Zenon, <1>1, <1>2 DEF OneWithdrawal, CallsType, Call
    <2> QED BY Zenon, <1>2, <2>1, StillWithin
  <1>3. ASSUME NEW c \in Caller, NEW e \in Nat, NEW m \in Nat, NEW timed \in BOOLEAN,
               Begins(c, e, m, timed), NEW b \in Caller, calls'[b] # Idle
        PROVE  calls'[b].event = 1 /\ calls'[b].amount <= total'
    <2>1. /\ calls'[c].event = e /\ calls'[c].amount = m
          /\ \A a \in Caller : a # c => calls'[a] = calls[a]
      BY <1>3 DEF Begins, CallFacts, BeginEffect
    <2>2. e = 1 /\ m <= total
      <3>1. DOMAIN events = 1..Len(events) /\ Len(events) \in Nat /\ Len(events) <= 1
        BY <1>1 DEF EventsType, PaymentInv
      <3>2. CASE e \in DOMAIN events /\ m = events[e].amount
        BY <3>1, <3>2 DEF OneWithdrawal
      <3>3. CASE events # << >> /\ e = Len(events) /\ m = total
        <4>1. Len(events) # 0
          BY <1>1, <3>3 DEF EventsType
        <4> QED BY <1>1, <3>1, <3>3, <4>1
      <3> QED BY Zenon, <1>1, <1>3, <3>2, <3>3 DEF Begins
    <2> QED BY Zenon, <1>2, <1>3, <2>1, <2>2, StillWithin
  <1>4. ASSUME NEW c \in Caller, EndWithdrawal(c), NEW b \in Caller, calls'[b] # Idle
        PROVE  calls'[b].event = 1 /\ calls'[b].amount <= total'
    BY Zenon, <1>2, <1>4 DEF CallFacts, EndEffect
  <1>5. ASSUME UNCHANGED calls, NEW b \in Caller, calls'[b] # Idle
        PROVE  calls'[b].event = 1 /\ calls'[b].amount <= total'
    BY Zenon, <1>2, <1>5
  <1> QED BY Zenon, <1>3, <1>4, <1>5, CallCases

\* The payment's event.
LEMMA EventsWithin ==
    ASSUME EventFacts, DestFacts,
           Typed, PaymentInv, OneWithdrawal, WorkerBehind, TotalStep, [Next]_vars
    PROVE  \A e \in DOMAIN events' : events'[e].amount <= total'
  <1>1. EventsType /\ WorkerType /\ isPayment
    BY Zenon DEF PaymentInv, isPayment, PaymentRow, Typed
  <1>2. DOMAIN events = 1..Len(events) /\ \A e \in DOMAIN events : events[e].amount \in Nat
    <2>1. DOMAIN events = 1..Len(events) /\ \A e \in 1..Len(events) : events[e] \in Event
      BY <1>1 DEF EventsType
    <2> QED BY Zenon, <2>1 DEF Event
  <1>3. ASSUME NEW e \in DOMAIN events, events'[e].amount = events[e].amount
        PROVE  events'[e].amount <= total'
    BY Zenon, <1>2, <1>3, StillWithin DEF OneWithdrawal
  <1>4. CASE UNCHANGED events
    BY Zenon, <1>3, <1>4
  <1>5. ASSUME NEW e \in DOMAIN events, NEW known \in BOOLEAN, NEW done \in BOOLEAN,
               sendWebhook(e, known, done)
        PROVE  \A i \in DOMAIN events' : events'[i].amount <= total'
    BY Zenon, <1>1, <1>3, <1>5 DEF EventFacts, SendEffect
  <1>6. ASSUME locked, worker.total > 0, announce(worker.total)
        PROVE  \A i \in DOMAIN events' : events'[i].amount <= total'
    <2>1. worker.total \in Nat /\ worker.total <= total
      BY Zenon, <1>1, <1>6 DEF WorkerType, WorkerBehind, locked
    <2>2. /\ EventsType' /\ Len(events') = Len(events) + 1
          /\ events'[Len(events) + 1].amount = worker.total
          /\ \A e \in 1..Len(events) : events'[e] = events[e]
          /\ Len(events) \in Nat
      BY <1>1, <1>6, <2>1 DEF EventFacts, AnnounceEffect
    <2>3. DOMAIN events' = 1..(Len(events) + 1)
      BY <2>2 DEF EventsType
    <2>4. worker.total <= total'
      BY Zenon, <2>1, StillWithin
    <2>5. ASSUME NEW i \in DOMAIN events' PROVE events'[i].amount <= total'
      <3>1. i = Len(events) + 1 \/ i \in DOMAIN events
        BY <1>2, <2>2, <2>3
      <3> QED BY Zenon, <1>2, <1>3, <2>2, <2>4, <3>1
    <2> QED BY Zenon, <2>5
  <1>7. Elsewhere \/ Due \/ completeIncomingPayment \/ ProcessNext \/ handleExpired \/ WorkerDies
            => UNCHANGED events
    BY Zenon DEF Elsewhere, Due, completeIncomingPayment, ProcessNext, handleExpired, WorkerDies
  <1>8. ASSUME NEW p \in Packet, OnCredit(p) PROVE UNCHANGED events
    BY Zenon, <1>8 DEF OnCredit
  <1>9. handleDeactivated =>
            UNCHANGED events \/ (locked /\ worker.total > 0 /\ announce(worker.total))
    BY Zenon DEF handleDeactivated
  <1>10. ~createWithdrawalEvent
    BY Zenon, <1>1 DEF createWithdrawalEvent
  <1> QED BY Zenon, <1>4, <1>5, <1>6, <1>7, <1>8, <1>9, <1>10 DEF DestFacts, DestCases

\* Every step keeps the withdrawals within what was received.
LEMMA WithdrawalNext ==
    ASSUME CreditFacts, CallFacts, RowFacts, EventFacts, DestFacts,
           Typed, LedgerInv, MoneyInv, PaymentInv, OneWithdrawal, WorkerBehind, TotalStep, [Next]_vars
    PROVE  OneWithdrawal'
  BY Zenon, RowsWithin, CallsWithin, EventsWithin DEF OneWithdrawal, FromDest, Dst, Liquidity, EventId

-----------------------------------------------------------------------------
\* What the credits bring about.

\* If more was received, a credit was posted.
LEMMA MoreReceived ==
    ASSUME CreditFacts,
           Typed, LedgerInv, TotalStep, total' # total
    PROVE  \E p \in Packet : pkt'[p].at = "posted"
  <1>1. PICK p \in Packet : PostsAll(p)
    BY Zenon DEF TotalStep
  <1>2. CreditTo(p, "posted")
    BY Zenon, <1>1 DEF PostsAll, CreditFacts, PostEffect
  <1> QED BY Zenon, <1>2 DEF CreditTo

\* A credit stays unreported until it is reported.
LEMMA StillUnreported ==
    ASSUME CreditFacts, CallFacts,
           Typed, LedgerInv, [Next]_vars, NEW p \in Packet, Unreported(p), ~OnCredit(p)
    PROVE  Unreported(p)'
  <1>1. CASE pkt'[p] = pkt[p]
    BY Zenon, <1>1 DEF Unreported
  <1>2. ASSUME NEW q \in Packet, CreditStep(q) \/ Die(q) PROVE Unreported(p)'
    <2>1. PICK at : Passes(q, at)
      BY Zenon, <1>2, CreditPasses
    <2>2. /\ pkt'[q].at = at /\ \A s \in Packet : s # q => pkt'[s] = pkt[s]
      BY Zenon, <2>1, PassedCredit
    <2>3. CASE q = p
      <3>1. CASE Die(p)
        BY Zenon, <3>1 DEF CreditTo, Unreported, CreditFacts, DieEffect
      <3>2. CASE CreditStep(p)
        <4>1. pkt[p].at # "read"
          BY <3>2 DEF CreditStep, Accept, Pay, ValidateCredit, HoldCredit, Post, ReadTotal, Idle
        <4> QED BY Zenon, <2>1, <2>2, <2>3, <4>1 DEF Passes, Unreported
      <3> QED BY Zenon, <1>2, <2>3, <3>1, <3>2
    <2> QED BY Zenon, <1>1, <2>2, <2>3
  <1> QED BY Zenon, <1>1, <1>2, PacketCases

\* Every step keeps a credit that will complete the payment, until the payment is complete.
LEMMA PaymentDoneNext ==
    ASSUME CreditFacts, CallFacts, DestFacts,
           Typed, LedgerInv, PaymentInv, PaymentDone, TotalStep, [Next]_vars
    PROVE  PaymentDone'
  <1>1. CASE total' # total
    BY Zenon, <1>1, MoreReceived DEF PaymentDone, WillComplete
  <1>2. CASE total' = total
    <2> SUFFICES ASSUME dest'.state \in Open, IncomingAmount <= total
                 PROVE  \E p \in Packet : WillComplete(p)'
      BY Zenon, <1>2 DEF PaymentDone, Open
    <2>1. isPayment /\ dest.state \in Open
      BY Zenon DEF Final, PaymentInv, isPayment, PaymentRow, DestFacts
    <2>2. PICK p \in Packet : WillComplete(p)
      BY Zenon, <2>1 DEF PaymentDone
    <2>3. CASE pkt'[p] = pkt[p]
      BY Zenon, <2>2, <2>3 DEF WillComplete
    <2>4. CASE OnCredit(p)
      <3>1. pkt[p].at = "read" /\ dest' = creditedPayment(pkt[p].total)
        BY Zenon, <2>1, <2>4 DEF OnCredit
      <3>2. IncomingAmount <= pkt[p].total
        BY Zenon, <2>2, <3>1 DEF WillComplete
      <3>3. PICK d \in PaymentRow : d = dest
        BY Zenon DEF PaymentInv
      <3>4. dest' = TurnedAt(d, "COMPLETED", "now")
        BY Zenon, <2>1, <3>1, <3>2, <3>3 DEF creditedPayment, TurnedAt
      <3>5. dest'.state = "COMPLETED"
        BY <3>4 DEF Status, Deactivated, When, DestFacts, PaymentTurns
      <3> QED BY Zenon, <3>5 DEF Open
    <2>5. CASE ReadTotal(p)
      <3>1. CreditTo(p, "read") /\ pkt'[p].total = total
        BY Zenon, <2>5 DEF CreditFacts, ReadEffect
      <3> QED BY Zenon, <3>1 DEF CreditTo, WillComplete
    <2>6. CASE Die(p)
      BY Zenon, <2>6 DEF CreditTo, WillComplete, CreditFacts, DieEffect
    <2>7. CASE CreditStep(p) /\ ~OnCredit(p) /\ ~ReadTotal(p)
      BY <2>2, <2>7 DEF CreditStep, Accept, Pay, ValidateCredit, HoldCredit, Post, Idle, WillComplete
    <2>8. ASSUME NEW q \in Packet, CreditStep(q) \/ Die(q), q # p PROVE pkt'[p] = pkt[p]
      BY Zenon, <2>8, CreditPasses, PassedCredit
    <2> QED BY Zenon, <2>3, <2>4, <2>5, <2>6, <2>7, <2>8, PacketCases
  <1> QED BY Zenon, <1>1, <1>2

\* A skipped schedule is not forgotten.
LEMMA SkippedStays ==
    ASSUME CreditFacts, CallFacts,
           Typed, LedgerInv, [Next]_vars, hist.skipped
    PROVE  hist'.skipped
  <1>1. ASSUME NEW p \in Packet, CreditStep(p) \/ Die(p) PROVE hist'.skipped
    <2>1. Accept(p) \/ Pay(p) \/ ValidateCredit(p) \/ ReadTotal(p) \/ Die(p) => UNCHANGED hist
      BY Zenon DEF Accept, Pay, ValidateCredit, ReadTotal, Die
    <2>2. HoldCredit(p) => hist'.skipped = hist.skipped
      BY Zenon DEF CreditFacts, HoldEffect
    <2>3. Post(p) => hist'.skipped = hist.skipped
      BY Zenon DEF CreditFacts, PostEffect
    <2>4. OnCredit(p) => hist'.skipped
      BY Zenon DEF CreditFacts, ReportEffect
    <2> QED BY Zenon, <1>1, <2>1, <2>2, <2>3, <2>4 DEF CreditStep
  <1> QED BY Zenon, <1>1, PacketCases

\* Every step keeps a credit that will schedule the wallet address, until it is scheduled.
LEMMA WalletDoneNext ==
    ASSUME CreditFacts, CallFacts, DestFacts,
           Typed, LedgerInv, NEW T, dest \in WalletOf(T), WalletDone, TotalStep, [Next]_vars
    PROVE  WalletDone'
  <1>1. ~isPayment /\ WorkerType /\ dest.totalEvents \in Nat
    <2>1. ~isPayment /\ WorkerType /\ dest \in Dest
      BY Zenon DEF Typed, WalletOf, isPayment
    <2> QED BY Zenon, <2>1 DEF Dest, isPayment
  <1>2. PICK d \in WalletOf(T) : d = dest
    BY Zenon
  <1>3. ASSUME NEW w \in When, Scheduled(w)
        PROVE  dest'.processAt = w /\ dest'.totalEvents = dest.totalEvents
    <2>1. dest' = [d EXCEPT !.processAt = w]
      BY Zenon, <1>2, <1>3 DEF Scheduled
    <2> QED BY Zenon, <1>2, <2>1 DEF WalletOf
  <1>4. "now" \in When /\ "later" \in When /\ "null" \in When
    BY Zenon DEF When
  <1>5. ~completeIncomingPayment /\ ~handleExpired /\ ~handleDeactivated
    BY Zenon, <1>1 DEF completeIncomingPayment, handleExpired, handleDeactivated
  <1>6. ASSUME NEW e, NEW known, NEW done, sendWebhook(e, known, done) PROVE UNCHANGED <<dest, worker>>
    BY Zenon, <1>6 DEF sendWebhook
  <1>7. \/ UNCHANGED <<dest, worker>>
        \/ \E p \in Packet : OnCredit(p)
        \/ Due \/ ProcessNext \/ createWithdrawalEvent \/ WorkerDies
    BY Zenon, <1>5, <1>6 DEF Elsewhere, DestFacts, DestCases
  <1>8. createWithdrawalEvent \/ WorkerDies => locked /\ ~locked'
    BY Zenon DEF createWithdrawalEvent, WorkerDies, locked
  <1>9. ASSUME NEW p \in Packet, OnCredit(p) PROVE ~locked /\ ~locked'
    BY Zenon, <1>9 DEF OnCredit, locked
  <1>10. Due => Scheduled("now") /\ dest.processAt = "later" /\ UNCHANGED worker
    BY Zenon DEF Due, Scheduled
  <1>11. locked' => dest'.processAt = "now"
    <2>1. CASE UNCHANGED <<dest, worker>>
      BY Zenon, <2>1 DEF WalletDone, locked
    <2>2. CASE Due
      BY Zenon, <1>3, <1>4, <1>10, <2>2
    <2>3. CASE ProcessNext
      BY Zenon, <2>3 DEF ProcessNext
    <2> QED BY Zenon, <1>7, <1>8, <1>9, <2>1, <2>2, <2>3
  <1>12. CASE total' # total
    <2>1. \E p \in Packet : Unreported(p)'
      BY Zenon, <1>12, MoreReceived DEF Unreported
    <2> QED BY Zenon, <1>11, <2>1 DEF WalletDone
  <1>13. CASE total' = total
    <2>1. ASSUME locked, worker.total < total PROVE \E p \in Packet : Unreported(p)'
      <3>1. PICK p \in Packet : Unreported(p)
        BY Zenon, <2>1 DEF WalletDone
      <3>2. ~OnCredit(p)
        BY Zenon, <1>9, <2>1
      <3> QED BY Zenon, <3>1, <3>2, StillUnreported
    <2>2. ASSUME locked', worker'.total < total' PROVE \E p \in Packet : Unreported(p)'
      <3>1. CASE UNCHANGED worker
        <4>1. locked /\ worker.total < total
          BY Zenon, <1>13, <2>2, <3>1 DEF locked
        <4> QED BY Zenon, <2>1, <4>1
      <3>2. CASE ProcessNext
        <4>1. worker'.total = total
          BY Zenon, <3>2 DEF ProcessNext
        <4> QED BY <1>13, <2>2, <4>1 DEF TotalStep
      <3> QED BY Zenon, <1>7, <1>8, <1>9, <1>10, <2>2, <3>1, <3>2
    <2>3. ASSUME ThrottleDelay, ~locked', dest'.processAt = "null", ~hist'.skipped,
                 dest'.totalEvents < total'
          PROVE  \E p \in Packet : Unreported(p)'
      <3>1. ~hist.skipped
        BY Zenon, <2>3, SkippedStays
      <3>2. ASSUME NEW p \in Packet, OnCredit(p) PROVE FALSE
        <4>1. dest' = creditedWallet(p)
          BY Zenon, <1>1, <3>2 DEF OnCredit
        <4>2. CASE overThreshold(pkt[p].total)
          BY Zenon, <1>3, <1>4, <2>3, <4>1, <4>2 DEF creditedWallet, Scheduled
        <4>3. CASE schedules(p) /\ ~overThreshold(pkt[p].total)
          BY Zenon, <1>3, <1>4, <2>3, <4>1, <4>3 DEF creditedWallet, Scheduled
        <4>4. CASE ~schedules(p)
          <5>1. objects[pkt[p].object]
            BY Zenon, <2>3, <4>4 DEF schedules
          <5> QED BY Zenon, <1>1, <2>3, <3>2, <5>1 DEF CreditFacts, ReportEffect
        <4> QED BY Zenon, <4>2, <4>3, <4>4
      <3>3. CASE UNCHANGED <<dest, worker>>
        <4>1. ~locked /\ dest.processAt = "null" /\ dest.totalEvents < total
          BY Zenon, <1>13, <2>3, <3>3 DEF locked
        <4>2. PICK p \in Packet : Unreported(p)
          BY Zenon, <2>3, <3>1, <4>1 DEF WalletDone
        <4> QED BY Zenon, <3>2, <4>2, StillUnreported
      <3>4. ~Due
        BY Zenon, <1>3, <1>4, <1>10, <2>3
      <3>5. ~ProcessNext
        BY Zenon, <2>3 DEF ProcessNext, locked, Idle
      <3>6. ~WorkerDies
        <4>1. WorkerDies => locked /\ UNCHANGED dest
          BY Zenon DEF WorkerDies
        <4> QED BY Zenon, <2>3, <4>1 DEF WalletDone
      <3>7. CASE createWithdrawalEvent
        <4>1. locked /\ worker.total \in Nat
          BY Zenon, <1>1, <3>7 DEF createWithdrawalEvent, WorkerType, locked
        <4>2. worker.total < total
          <5>1. CASE worker.total > dest.totalEvents
            <6>1. Announced(worker.total)
              BY Zenon, <3>7, <5>1 DEF createWithdrawalEvent, Announced
            <6> DEFINE c == [d EXCEPT !.totalEvents = worker.total]
            <6>2. c \in WalletOf(T \cup {worker.total}) /\ c.totalEvents = worker.total
              BY Zenon DEF WalletOf
            <6>3. dest' = [c EXCEPT !.processAt = "null"]
              BY Zenon, <1>2, <6>1 DEF Announced
            <6> HIDE DEF c
            <6>4. dest'.totalEvents = worker.total
              BY Zenon, <6>2, <6>3 DEF WalletOf
            <6> QED BY Zenon, <1>13, <2>3, <6>4
          <5>2. CASE ~(worker.total > dest.totalEvents)
            <6>1. Scheduled("null")
              BY Zenon, <3>7, <5>2 DEF createWithdrawalEvent, Scheduled
            <6>2. dest'.totalEvents = dest.totalEvents
              BY Zenon, <1>3, <1>4, <6>1
            <6>3. total \in Nat
              BY Zenon DEF TotalStep
            <6>4. dest.totalEvents < total
              BY Zenon, <1>13, <2>3, <6>2
            <6> QED BY <1>1, <4>1, <5>2, <6>3, <6>4
          <5> QED BY Zenon, <5>1, <5>2
        <4> QED BY Zenon, <2>1, <4>1, <4>2
      <3> QED BY Zenon, <1>7, <3>2, <3>3, <3>4, <3>5, <3>6, <3>7
    <2> QED BY Zenon, <1>11, <2>2, <2>3 DEF WalletDone
  <1> QED BY Zenon, <1>12, <1>13
=============================================================================
