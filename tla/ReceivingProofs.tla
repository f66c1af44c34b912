-------------------------- MODULE ReceivingProofs --------------------------
(* What holds of an incoming payment, of a wallet address and of the money   *)
(* credited to them, for any number of credits, callers, amounts and faults: *)
(* balances are sums over transfers, which gives what ReceivingSteps says of *)
(* sums, so that ReceivingStepsProofs and ReceivingBooksProofs make          *)
(* ReceivingInv inductive; the properties follow from it.                    *)
EXTENDS ReceivingStepsProofs, ReceivingBooksProofs, SumTheorems


-----------------------------------------------------------------------------
\* Balances.

\* A table of transfers.
Table(s) == IsFiniteSet(DOMAIN s) /\ \A r \in DOMAIN s : s[r] \in Row

\* The transfers that an account is charged for, and what transfers are worth.
ChargeRows(s, a) == {r \in DOMAIN s : s[r].debit = a /\ (Posted(s[r]) \/ Pending(s[r]))}

Worth(s) == [r \in DOMAIN s |-> s[r].amount]

\* The amounts of transfers are numbers, and so is their sum.
LEMMA WorthType ==
    ASSUME NEW s, Table(s), NEW D \in SUBSET DOMAIN s
    PROVE  /\ IsFiniteSet(D)
           /\ \A r \in D : Worth(s)[r] \in Int /\ Worth(s)[r] >= 0 /\ Worth(s)[r] = s[r].amount
           /\ SumOf(s, D) = SumFunctionOnSet(Worth(s), D)
           /\ SumOf(s, D) \in Nat
  <1>1. IsFiniteSet(D)
    BY Zenon, FS_Subset DEF Table
  <1>2. \A r \in D : Worth(s)[r] \in Int /\ Worth(s)[r] >= 0 /\ Worth(s)[r] = s[r].amount
    BY DEF Table, Worth, Row
  <1>3. SumOf(s, D) = SumFunctionOnSet(Worth(s), D)
    BY Zenon DEF SumOf, Worth
  <1>4. SumFunctionOnSet(Worth(s), D) \in Int
    BY Zenon, <1>1, <1>2, SumType
  <1>5. SumFunctionOnSet(Worth(s), D) >= 0
    BY Zenon, <1>1, <1>2, SumType
  <1> QED BY <1>1, <1>2, <1>3, <1>4, <1>5

\* The balance is what came in for good, less what went out or is held.
LEMMA BalanceIs ==
    ASSUME NEW s, Table(s), NEW a
    PROVE  /\ creditsPosted(s, a) = SumOf(s, CreditRows(s, a))
           /\ debitsPosted(s, a) + debitsPending(s, a) = SumOf(s, ChargeRows(s, a))
           /\ creditsPosted(s, a) \in Nat /\ debitsPosted(s, a) \in Nat
           /\ debitsPending(s, a) \in Nat
  <1> DEFINE P == {r \in DOMAIN s : s[r].debit = a /\ Posted(s[r])}
             H == {r \in DOMAIN s : s[r].debit = a /\ Pending(s[r])}
  <1>1. P \in SUBSET DOMAIN s /\ H \in SUBSET DOMAIN s /\ ChargeRows(s, a) \in SUBSET DOMAIN s
        /\ CreditRows(s, a) \in SUBSET DOMAIN s
    BY Zenon DEF ChargeRows, CreditRows
  <1>2. P \cap H = {} /\ ChargeRows(s, a) = P \cup H
    BY Zenon DEF ChargeRows, Posted, Pending
  <1>3. debitsPosted(s, a) = SumOf(s, P) /\ debitsPending(s, a) = SumOf(s, H)
        /\ creditsPosted(s, a) = SumOf(s, CreditRows(s, a))
    BY Zenon DEF debitsPosted, debitsPending, creditsPosted, CreditRows
  <1> HIDE DEF P, H
  <1>4. /\ IsFiniteSet(P) /\ IsFiniteSet(H) /\ \A r \in P \cup H : Worth(s)[r] \in Int
        /\ SumOf(s, P) = SumFunctionOnSet(Worth(s), P) /\ SumOf(s, H) = SumFunctionOnSet(Worth(s), H)
        /\ SumOf(s, P \cup H) = SumFunctionOnSet(Worth(s), P \cup H)
        /\ SumOf(s, P) \in Nat /\ SumOf(s, H) \in Nat /\ SumOf(s, CreditRows(s, a)) \in Nat
    BY Zenon, <1>1, <1>2, WorthType
  <1>5. SumFunctionOnSet(Worth(s), P \cup H) =
            SumFunctionOnSet(Worth(s), P) + SumFunctionOnSet(Worth(s), H)
    BY ONLY Zenon, <1>2, <1>4, SumSplit
  <1> QED BY Zenon, <1>2, <1>3, <1>4, <1>5

\* More transfers, each worth what it was, are worth more.
LEMMA SumGrows ==
    ASSUME NEW s, NEW w, Table(s), Table(w), NEW D \in SUBSET DOMAIN s, NEW E \in SUBSET DOMAIN w,
           D \subseteq E, \A r \in D : w[r].amount = s[r].amount
    PROVE  SumOf(s, D) <= SumOf(w, E)
  <1>1. /\ IsFiniteSet(D) /\ IsFiniteSet(E)
        /\ \A r \in D : Worth(s)[r] \in Int /\ Worth(s)[r] = s[r].amount
        /\ \A r \in E : Worth(w)[r] \in Nat /\ Worth(w)[r] = w[r].amount
        /\ SumOf(s, D) = SumFunctionOnSet(Worth(s), D)
        /\ SumOf(w, E) = SumFunctionOnSet(Worth(w), E)
    BY WorthType
  <1>2. \A r \in D : Worth(s)[r] \in Int /\ Worth(w)[r] = Worth(s)[r]
    BY Zenon, <1>1
  <1>3. SumFunctionOnSet(Worth(w), D) = SumFunctionOnSet(Worth(s), D)
    BY ONLY Zenon, <1>1, <1>2, SumSame
  <1>4. SumFunctionOnSet(Worth(w), D) <= SumFunctionOnSet(Worth(w), E)
    BY ONLY Zenon, <1>1, D \subseteq E, SumSubset
  <1> QED BY Zenon, <1>1, <1>3, <1>4

\* One transfer more adds its amount, at most.
LEMMA SumOneMore ==
    ASSUME NEW s, NEW w, Table(s), Table(w), NEW D \in SUBSET DOMAIN s, NEW E \in SUBSET DOMAIN w,
           NEW y \in DOMAIN w, E \subseteq D \cup {y}, \A r \in D : r \in DOMAIN w => w[r].amount = s[r].amount
    PROVE  SumOf(w, E) <= SumOf(s, D) + w[y].amount
  <1> DEFINE F == E \ {y}
  <1>1. /\ F \in SUBSET DOMAIN w /\ F \in SUBSET DOMAIN s /\ F \subseteq D /\ F \subseteq E
        /\ y \notin F /\ E \subseteq F \cup {y} /\ F \cup {y} \in SUBSET DOMAIN w
    BY Zenon
  <1>2. \A r \in F : w[r].amount = s[r].amount
    BY Zenon, <1>1
  <1> HIDE DEF F
  <1>3. /\ IsFiniteSet(F) /\ \A r \in F : Worth(w)[r] \in Int
        /\ SumOf(w, F) = SumFunctionOnSet(Worth(w), F) /\ SumOf(w, F) \in Nat
        /\ SumOf(w, F \cup {y}) = SumFunctionOnSet(Worth(w), F \cup {y})
        /\ SumOf(w, E) \in Nat /\ SumOf(s, D) \in Nat /\ SumOf(w, F \cup {y}) \in Nat
    BY Zenon, <1>1, WorthType
  <1>4. Worth(w)[y] = w[y].amount /\ w[y].amount \in Nat
    BY Zenon DEF Worth, Table, Row
  <1>5. SumFunctionOnSet(Worth(w), F \cup {y}) = SumFunctionOnSet(Worth(w), F) + Worth(w)[y]
    <2>1. Worth(w)[y] \in Int
      BY <1>4
    <2> QED BY ONLY <1>1, <1>3, <2>1, SumAdd
  <1>6. SumOf(w, F) <= SumOf(s, D)
    <2>1. \A r \in F : s[r].amount = w[r].amount
      BY Zenon, <1>2
    <2> QED BY Zenon, <1>1, <2>1, SumGrows
  <1>7. SumOf(w, E) <= SumOf(w, F \cup {y})
    BY Zenon, <1>1, SumGrows
  <1> QED BY <1>3, <1>4, <1>5, <1>6, <1>7

\* Such a change lowers no balance.
LEMMA LoosenedBalance ==
    ASSUME NEW s, NEW w, Table(s), Table(w), Loosened(s, w), NEW a
    PROVE  /\ creditsPosted(s, a) <= creditsPosted(w, a)
           /\ debitsPosted(w, a) + debitsPending(w, a) <= debitsPosted(s, a) + debitsPending(s, a)
  <1>1. /\ CreditRows(s, a) \in SUBSET DOMAIN s /\ CreditRows(w, a) \in SUBSET DOMAIN w
        /\ ChargeRows(s, a) \in SUBSET DOMAIN s /\ ChargeRows(w, a) \in SUBSET DOMAIN w
        /\ CreditRows(s, a) \subseteq CreditRows(w, a) /\ ChargeRows(w, a) \subseteq ChargeRows(s, a)
        /\ \A r \in CreditRows(s, a) : w[r].amount = s[r].amount
        /\ \A r \in ChargeRows(w, a) : s[r].amount = w[r].amount
    BY Zenon DEF Loosened, CreditRows, ChargeRows
  <1>2. SumOf(s, CreditRows(s, a)) <= SumOf(w, CreditRows(w, a))
    BY Zenon, <1>1, SumGrows
  <1>3. SumOf(w, ChargeRows(w, a)) <= SumOf(s, ChargeRows(s, a))
    BY Zenon, <1>1, SumGrows
  <1> QED BY Zenon, <1>2, <1>3, BalanceIs

\* A validated transfer leaves every liquidity account solvent.
LEMMA ValidInsert ==
    ASSUME NEW s, Table(s), NEW t \in Transfer, t.ref \notin DOMAIN s
    PROVE  /\ Table(inserted(s, <<t>>))
           /\ \A a : creditsPosted(s, a) <= creditsPosted(inserted(s, <<t>>), a)
           /\ validateTransfer(s, t) =>
                  \A ref : getBalance(s, ref) >= 0 => getBalance(inserted(s, <<t>>), ref) >= 0
  <1> DEFINE w == inserted(s, <<t>>)
  <1>1. /\ DOMAIN w = DOMAIN s \cup {t.ref} /\ w[t.ref] = prepareTransfer(t)
        /\ \A r \in DOMAIN s : w[r] = s[r]
    BY Zenon, InsertedOne
  <1> HIDE DEF w
  <1>2. Table(w)
    <2>1. IsFiniteSet(DOMAIN w)
      BY Zenon, <1>1, FS_AddElement DEF Table
    <2> QED BY Zenon, <1>1, <2>1, PreparedRow DEF Table
  <1>3. ASSUME NEW a
        PROVE  /\ CreditRows(s, a) \in SUBSET DOMAIN s /\ CreditRows(w, a) \in SUBSET DOMAIN w
               /\ CreditRows(s, a) \subseteq CreditRows(w, a)
               /\ ChargeRows(s, a) \in SUBSET DOMAIN s /\ ChargeRows(w, a) \in SUBSET DOMAIN w
               /\ ChargeRows(w, a) \subseteq ChargeRows(s, a) \cup {t.ref}
               /\ a # t.debit => ChargeRows(w, a) \subseteq ChargeRows(s, a)
    BY <1>1, PreparedRow DEF CreditRows, ChargeRows
  <1>4. ASSUME NEW a PROVE SumOf(s, CreditRows(s, a)) <= SumOf(w, CreditRows(w, a))
    <2>1. \A r \in CreditRows(s, a) : w[r].amount = s[r].amount
      BY Zenon, <1>1, <1>3
    <2> QED BY Zenon, <1>2, <1>3, <2>1, SumGrows
  <1>5. \A a : creditsPosted(s, a) <= creditsPosted(w, a)
    BY Zenon, <1>2, <1>4, BalanceIs
  <1>6. ASSUME NEW ref, validateTransfer(s, t), getBalance(s, ref) >= 0
        PROVE  getBalance(w, ref) >= 0
    <2> DEFINE a == Liquidity(ref)
    <2>1. /\ creditsPosted(s, a) \in Nat /\ debitsPosted(s, a) \in Nat /\ debitsPending(s, a) \in Nat
          /\ creditsPosted(w, a) \in Nat /\ debitsPosted(w, a) \in Nat /\ debitsPending(w, a) \in Nat
          /\ debitsPosted(s, a) + debitsPending(s, a) = SumOf(s, ChargeRows(s, a))
          /\ debitsPosted(w, a) + debitsPending(w, a) = SumOf(w, ChargeRows(w, a))
          /\ creditsPosted(s, a) <= creditsPosted(w, a)
      BY Zenon, <1>2, <1>5, BalanceIs
    <2>2. getBalance(s, ref) = creditsPosted(s, a) - debitsPosted(s, a) - debitsPending(s, a)
          /\ getBalance(w, ref) = creditsPosted(w, a) - debitsPosted(w, a) - debitsPending(w, a)
      BY Zenon DEF getBalance
    <2>3. CASE a # t.debit
      <3>1. \A r \in ChargeRows(w, a) : s[r].amount = w[r].amount
        BY Zenon, <1>1, <1>3, <2>3
      <3>2. SumOf(w, ChargeRows(w, a)) <= SumOf(s, ChargeRows(s, a))
        BY Zenon, <1>2, <1>3, <2>3, <3>1, SumGrows
      <3> QED BY <1>6, <2>1, <2>2, <3>2
    <2>4. CASE a = t.debit
      <3>1. creditsPosted(s, a) >= debitsPosted(s, a) + debitsPending(s, a) + t.amount
        <4>1. a[2] = "liquidity"
          BY Zenon DEF Liquidity
        <4> QED BY Zenon, <1>6, <2>4, <4>1 DEF validateTransfer, hasEnoughCreditBalance,
                      isSettlementAccount
      <3>2. t.ref \in DOMAIN w /\ w[t.ref].amount = t.amount /\ t.amount \in Nat
        <4>1. t.amount \in Nat
          BY DEF Transfer
        <4>2. prepareTransfer(t).amount = t.amount
          BY Zenon, PreparedRow
        <4> QED BY Zenon, <1>1, <4>1, <4>2
      <3>3. \A r \in ChargeRows(s, a) : r \in DOMAIN w => w[r].amount = s[r].amount
        BY Zenon, <1>1, <1>3
      <3>4. SumOf(w, ChargeRows(w, a)) <= SumOf(s, ChargeRows(s, a)) + w[t.ref].amount
        BY Zenon, <1>2, <1>3, <3>2, <3>3, SumOneMore
      <3> QED BY <2>1, <2>2, <3>1, <3>2, <3>4
    <2> QED BY Zenon, <2>3, <2>4
  <1> QED BY Zenon, <1>2, <1>5, <1>6 DEF w

\* Typed rows are a table.
LEMMA TypedRowsTable == ASSUME NEW s, TypedRows(s) PROVE Table(s)
  BY Zenon DEF TypedRows, Table

\* The same credits are worth the same.
LEMMA SameCredits ==
    ASSUME NEW s, NEW w, Table(s), Table(w), NEW a, CreditRows(w, a) = CreditRows(s, a),
           \A r \in CreditRows(s, a) : w[r].amount = s[r].amount
    PROVE  creditsPosted(w, a) = creditsPosted(s, a)
  <1> DEFINE D == CreditRows(s, a)
  <1>1. D \in SUBSET DOMAIN s /\ D \in SUBSET DOMAIN w
    BY Zenon DEF CreditRows
  <1>2. creditsPosted(s, a) = SumOf(s, D) /\ creditsPosted(w, a) = SumOf(w, D)
        /\ creditsPosted(s, a) \in Nat /\ creditsPosted(w, a) \in Nat
    BY Zenon, BalanceIs
  <1> HIDE DEF D
  <1>3. \A r \in D : w[r].amount = s[r].amount /\ s[r].amount = w[r].amount
    BY Zenon DEF D
  <1>4. SumOf(s, D) <= SumOf(w, D) /\ SumOf(w, D) <= SumOf(s, D)
    BY Zenon, <1>1, <1>3, SumGrows
  <1> QED BY <1>2, <1>4

\* One transfer is inserted.
LEMMA InsertOne ==
    ASSUME NEW s, TypedRows(s), NEW t \in Transfer, t.ref \notin DOMAIN s
    PROVE  /\ TypedRows(inserted(s, <<t>>)) /\ Grows(s, inserted(s, <<t>>))
           /\ \A a : t.timed = TRUE \/ t.credit # a =>
                         creditsPosted(inserted(s, <<t>>), a) = creditsPosted(s, a)
           /\ Solvent(s) /\ validateTransfer(s, t) => Solvent(inserted(s, <<t>>))
  <1> DEFINE w == inserted(s, <<t>>)
  <1>1. /\ DOMAIN w = DOMAIN s \cup {t.ref} /\ w[t.ref] = prepareTransfer(t)
        /\ \A r \in DOMAIN s : w[r] = s[r]
    BY Zenon, InsertedOne
  <1>2. Table(s)
    BY Zenon, TypedRowsTable
  <1>3. /\ Table(w)
        /\ validateTransfer(s, t) => \A ref : getBalance(s, ref) >= 0 => getBalance(w, ref) >= 0
    BY Zenon, <1>2, ValidInsert
  <1>4. w = [r \in DOMAIN w |-> w[r]]
    BY Zenon, InsertedFunction
  <1> HIDE DEF w
  <1>5. TypedRows(w)
    BY Zenon, <1>3, <1>4 DEF TypedRows, Table
  <1>6. ASSUME NEW a, t.timed = TRUE \/ t.credit # a
        PROVE  creditsPosted(w, a) = creditsPosted(s, a)
    <2>1. t.ref \notin CreditRows(w, a)
      <3>1. t.timed = TRUE => ~Posted(prepareTransfer(t))
        BY Zenon, PreparedRow DEF Posted
      <3>2. t.credit # a => prepareTransfer(t).credit # a
        BY Zenon, PreparedRow
      <3> QED BY Zenon, <1>1, <1>6, <3>1, <3>2 DEF CreditRows
    <2>2. CreditRows(w, a) = CreditRows(s, a)
      BY Zenon, <1>1, <2>1 DEF CreditRows
    <2>3. \A r \in CreditRows(s, a) : w[r].amount = s[r].amount
      BY Zenon, <1>1 DEF CreditRows
    <2> QED BY Zenon, <1>2, <1>3, <2>2, <2>3, SameCredits
  <1>7. Grows(s, w)
    BY Zenon, <1>1 DEF Grows
  <1>8. Solvent(s) /\ validateTransfer(s, t) => Solvent(w)
    BY Zenon, <1>3 DEF Solvent
  <1> QED BY Zenon, <1>5, <1>6, <1>7, <1>8 DEF w

\* Transfers are posted, voided or expire.
LEMMA LoosenedRows ==
    ASSUME NEW s, NEW w, TypedRows(s), TypedRows(w), Loosened(s, w)
    PROVE  /\ Grows(s, w) /\ DOMAIN w = DOMAIN s
           /\ creditsPosted(s, Dst) <= creditsPosted(w, Dst)
           /\ Solvent(s) => Solvent(w)
  <1>1. Table(s) /\ Table(w)
    BY Zenon, TypedRowsTable
  <1>2. ASSUME NEW ref, getBalance(s, ref) >= 0 PROVE getBalance(w, ref) >= 0
    <2> DEFINE a == Liquidity(ref)
    <2>1. /\ creditsPosted(s, a) \in Nat /\ debitsPosted(s, a) \in Nat
          /\ debitsPending(s, a) \in Nat /\ creditsPosted(w, a) \in Nat
          /\ debitsPosted(w, a) \in Nat /\ debitsPending(w, a) \in Nat
      BY Zenon, <1>1, BalanceIs
    <2>2. /\ creditsPosted(s, a) <= creditsPosted(w, a)
          /\ debitsPosted(w, a) + debitsPending(w, a) <=
                 debitsPosted(s, a) + debitsPending(s, a)
      BY Zenon, <1>1, LoosenedBalance
    <2>3. /\ getBalance(s, ref) =
                 creditsPosted(s, a) - debitsPosted(s, a) - debitsPending(s, a)
          /\ getBalance(w, ref) = creditsPosted(w, a) - debitsPosted(w, a) - debitsPending(w, a)
      BY Zenon DEF getBalance
    <2> HIDE DEF a
    <2> QED BY <1>2, <2>1, <2>2, <2>3
  <1>3. creditsPosted(s, Dst) <= creditsPosted(w, Dst)
    BY Zenon, <1>1, LoosenedBalance
  <1> QED BY Zenon, <1>2, <1>3 DEF Loosened, Grows, Solvent

\* What is used of sums over transfers.
LEMMA LedgerSumsHold == LedgerSums
  <1>1. ASSUME NEW s, TypedRows(s)
        PROVE  creditsPosted(s, Dst) \in Nat /\ getBalance(s, "dest") \in Int
    <2>1. Table(s)
      BY Zenon, <1>1, TypedRowsTable
    <2>2. creditsPosted(s, Dst) \in Nat /\ debitsPosted(s, Dst) \in Nat
          /\ debitsPending(s, Dst) \in Nat
      BY Zenon, <2>1, BalanceIs
    <2>3. getBalance(s, "dest") =
              creditsPosted(s, Dst) - debitsPosted(s, Dst) - debitsPending(s, Dst)
      BY Zenon DEF getBalance, Dst
    <2> QED BY <2>2, <2>3
  <1>2. ASSUME NEW s, NEW t \in Transfer, TypedRows(s), t.ref \notin DOMAIN s
        PROVE  InsertsOne(s, t, inserted(s, <<t>>))
    BY Zenon, <1>2, InsertOne DEF InsertsOne
  <1>3. ASSUME NEW s, NEW w, TypedRows(s), TypedRows(w), Loosened(s, w)
        PROVE  LoosensSums(s, w)
    <2>1. Table(s) /\ Table(w)
      BY Zenon, <1>3, TypedRowsTable
    <2>2. creditsPosted(s, Dst) <= creditsPosted(w, Dst) /\ (Solvent(s) => Solvent(w))
      BY Zenon, <1>3, LoosenedRows
    <2> DEFINE D == CreditRows(s, Dst)
               E == CreditRows(w, Dst)
    <2>3. D \in SUBSET DOMAIN s /\ E \in SUBSET DOMAIN w
          /\ \A r \in DOMAIN s : r \in DOMAIN w /\ w[r].amount = s[r].amount
      BY Zenon, <1>3 DEF CreditRows, Loosened
    <2>4. creditsPosted(s, Dst) = SumOf(s, D) /\ creditsPosted(w, Dst) = SumOf(w, E)
      BY Zenon, <2>1, BalanceIs
    <2> HIDE DEF D, E
    <2>5. E = D => creditsPosted(w, Dst) = creditsPosted(s, Dst)
      BY Zenon, <2>1, <2>3, SameCredits DEF D, E
    <2>6. ASSUME NEW y \in DOMAIN s, E \subseteq D \cup {y}
          PROVE  creditsPosted(w, Dst) <= creditsPosted(s, Dst) + s[y].amount
      <3>1. SumOf(w, E) <= SumOf(s, D) + w[y].amount
        BY Zenon, <2>1, <2>3, <2>6, SumOneMore
      <3> QED BY Zenon, <2>3, <2>4, <3>1
    <2> QED BY Zenon, <2>2, <2>5, <2>6 DEF LoosensSums, D, E
  <1> QED BY Zenon, <1>1, <1>2, <1>3 DEF LedgerSums

-----------------------------------------------------------------------------
\* What credits are worth, and what events announce.

\* Credits are worth a number.
LEMMA WorthsType ==
    ASSUME NEW ps \in SUBSET Packet, NEW f, \A p \in ps : f[p].amount \in Nat
    PROVE  IsFiniteSet(ps) /\ Worths(f, ps) \in Nat
  <1> DEFINE w == [p \in ps |-> f[p].amount]
  <1>1. IsFiniteSet(ps)
    BY Zenon, AmountAssumption, FS_Subset
  <1>2. \A p \in ps : w[p] \in Int /\ w[p] >= 0
    OBVIOUS
  <1>3. Worths(f, ps) = SumFunctionOnSet(w, ps)
    BY Zenon DEF Worths
  <1> HIDE DEF w
  <1>4. SumFunctionOnSet(w, ps) \in Int
    BY Zenon, <1>1, <1>2, SumType
  <1>5. SumFunctionOnSet(w, ps) >= 0
    BY Zenon, <1>1, <1>2, SumType
  <1> QED BY <1>1, <1>3, <1>4, <1>5

\* They are worth what their amounts say.
LEMMA WorthsSame ==
    ASSUME NEW ps \in SUBSET Packet, NEW f, NEW g,
           \A p \in ps : f[p].amount \in Nat /\ g[p].amount = f[p].amount
    PROVE  Worths(g, ps) = Worths(f, ps)
  <1> DEFINE w == [p \in ps |-> f[p].amount]
             v == [p \in ps |-> g[p].amount]
  <1>1. \A p \in ps : w[p] \in Int /\ v[p] = w[p]
    OBVIOUS
  <1>2. Worths(f, ps) = SumFunctionOnSet(w, ps) /\ Worths(g, ps) = SumFunctionOnSet(v, ps)
    BY Zenon DEF Worths
  <1> HIDE DEF w, v
  <1>3. IsFiniteSet(ps)
    BY Zenon, AmountAssumption, FS_Subset
  <1>4. SumFunctionOnSet(v, ps) = SumFunctionOnSet(w, ps)
    BY ONLY Zenon, <1>1, <1>3, SumSame
  <1> QED BY Zenon, <1>2, <1>4

\* One credit more adds its amount.
LEMMA WorthsAdd ==
    ASSUME NEW ps \in SUBSET Packet, NEW q \in Packet, q \notin ps, NEW f,
           \A p \in ps \cup {q} : f[p].amount \in Nat
    PROVE  Worths(f, ps \cup {q}) = Worths(f, ps) + f[q].amount
  <1> DEFINE qs == ps \cup {q}
             w == [p \in ps |-> f[p].amount]
             v == [p \in qs |-> f[p].amount]
  <1>1. (\A p \in ps : v[p] \in Int /\ w[p] = v[p]) /\ v[q] = f[q].amount /\ v[q] \in Int
    OBVIOUS
  <1>2. Worths(f, ps) = SumFunctionOnSet(w, ps) /\ Worths(f, qs) = SumFunctionOnSet(v, ps \cup {q})
    BY Zenon DEF Worths
  <1> HIDE DEF w, v
  <1>3. IsFiniteSet(ps)
    BY Zenon, AmountAssumption, FS_Subset
  <1>4. SumFunctionOnSet(w, ps) = SumFunctionOnSet(v, ps)
    BY ONLY Zenon, <1>1, <1>3, SumSame
  <1>5. SumFunctionOnSet(v, ps \cup {q}) = SumFunctionOnSet(v, ps) + v[q]
    BY ONLY <1>1, <1>3, q \notin ps, SumAdd
  <1> QED BY Zenon, <1>1, <1>2, <1>4, <1>5

\* More credits are worth more.
LEMMA WorthsGrow ==
    ASSUME NEW qs \in SUBSET Packet, NEW ps \in SUBSET qs, NEW f, \A p \in qs : f[p].amount \in Nat
    PROVE  Worths(f, ps) <= Worths(f, qs)
  <1> DEFINE w == [p \in ps |-> f[p].amount]
             v == [p \in qs |-> f[p].amount]
  <1>1. (\A p \in ps : v[p] \in Int /\ w[p] = v[p]) /\ \A p \in qs : v[p] \in Nat
    OBVIOUS
  <1>2. Worths(f, ps) = SumFunctionOnSet(w, ps) /\ Worths(f, qs) = SumFunctionOnSet(v, qs)
    BY Zenon DEF Worths
  <1> HIDE DEF w, v
  <1>3. IsFiniteSet(ps) /\ IsFiniteSet(qs)
    BY Zenon, AmountAssumption, FS_Subset
  <1>4. SumFunctionOnSet(w, ps) = SumFunctionOnSet(v, ps)
    BY ONLY Zenon, <1>1, <1>3, SumSame
  <1>5. SumFunctionOnSet(v, ps) <= SumFunctionOnSet(v, qs)
    BY ONLY Zenon, <1>1, <1>3, ps \in SUBSET qs, SumSubset
  <1> QED BY Zenon, <1>2, <1>4, <1>5

\* It is a number, and no event announces more.
LEMMA SumOfEvents ==
    ASSUME NEW es \in Seq(Event)
    PROVE  /\ Sum(es) \in Nat
           /\ Len(es) = 0 => Sum(es) = 0
           /\ \A e \in DOMAIN es : es[e].amount <= Sum(es)
  <1> DEFINE w == [e \in DOMAIN es |-> es[e].amount]
  <1>1. DOMAIN es = 1..Len(es) /\ Len(es) \in Nat /\ \A e \in 1..Len(es) : es[e] \in Event
    BY Zenon, SeqIs
  <1>2. \A e \in DOMAIN es : w[e] = es[e].amount /\ w[e] \in Nat /\ w[e] \in Int /\ w[e] >= 0
    BY <1>1 DEF Event
  <1>3. Sum(es) = SumFunctionOnSet(w, DOMAIN es)
    BY Zenon DEF Sum, SumFunction
  <1> HIDE DEF w
  <1>4. IsFiniteSet(DOMAIN es)
    BY <1>1, FS_Interval
  <1>5. SumFunctionOnSet(w, DOMAIN es) \in Int
    BY Zenon, <1>2, <1>4, SumType
  <1>6. SumFunctionOnSet(w, DOMAIN es) >= 0
    BY Zenon, <1>2, <1>4, SumType
  <1>7. Len(es) = 0 => Sum(es) = 0
    BY <1>1, <1>3, SumEmpty
  <1>8. \A e \in DOMAIN es : w[e] <= SumFunctionOnSet(w, DOMAIN es)
    BY ONLY Zenon, <1>2, <1>4, SumElement
  <1> QED BY <1>2, <1>3, <1>5, <1>6, <1>7, <1>8

\* One event more adds its amount.
LEMMA SumOfMore ==
    ASSUME NEW es \in Seq(Event), NEW fs \in Seq(Event), Len(fs) = Len(es) + 1,
           \A e \in 1..Len(es) : fs[e] = es[e]
    PROVE  Sum(fs) = Sum(es) + fs[Len(es) + 1].amount
  <1> DEFINE n == Len(es)
             w == [e \in DOMAIN es |-> es[e].amount]
             v == [e \in DOMAIN fs |-> fs[e].amount]
  <1>1. /\ n \in Nat /\ DOMAIN es = 1..n /\ DOMAIN fs = 1..(n + 1)
        /\ \A e \in 1..n : es[e] \in Event
        /\ \A e \in 1..(n + 1) : fs[e] \in Event
    BY Zenon, SeqIs
  <1>2. Sum(es) = SumFunctionOnSet(w, 1..n) /\ Sum(fs) = SumFunctionOnSet(v, 1..(n + 1))
    BY Zenon, <1>1 DEF Sum, SumFunction
  <1>3. /\ \A e \in 1..n : v[e] = w[e] /\ v[e] \in Int /\ w[e] = v[e]
        /\ v[n + 1] = fs[n + 1].amount /\ v[n + 1] \in Int
    <2>1. \A x \in Event : x.amount \in Int
      BY DEF Event
    <2>2. n + 1 \in 1..(n + 1) /\ \A e \in 1..n : e \in 1..(n + 1)
      BY <1>1
    <2>3. \A e \in 1..(n + 1) : v[e] = fs[e].amount
      BY Zenon, <1>1
    <2>4. \A e \in 1..n : w[e] = es[e].amount
      BY Zenon, <1>1
    <2> HIDE DEF v, w
    <2>5. \A e \in 1..(n + 1) : v[e] \in Int
      BY Zenon, <1>1, <2>1, <2>3
    <2>6. \A e \in 1..n : v[e] = w[e]
      BY Zenon, <2>2, <2>3, <2>4
    <2> QED BY Zenon, <2>2, <2>3, <2>5, <2>6
  <1> HIDE DEF w, v, n
  <1>4. IsFiniteSet(1..n)
    BY <1>1, FS_Interval
  <1>5. 1..(n + 1) = (1..n) \cup {n + 1} /\ n + 1 \notin 1..n
    BY <1>1
  <1>6. SumFunctionOnSet(v, (1..n) \cup {n + 1}) = SumFunctionOnSet(v, 1..n) + v[n + 1]
    <2> DEFINE S == 1..n
               y == n + 1
    <2>1. IsFiniteSet(S) /\ (\A e \in S : v[e] \in Int) /\ y \notin S /\ v[y] \in Int
      BY Zenon, <1>3, <1>4, <1>5
    <2> HIDE DEF S, y
    <2>2. SumFunctionOnSet(v, S \cup {y}) = SumFunctionOnSet(v, S) + v[y]
      BY ONLY Zenon, <2>1, SumAdd
    <2> QED BY Zenon, <2>2 DEF S, y
  <1>7. SumFunctionOnSet(w, 1..n) = SumFunctionOnSet(v, 1..n)
    <2> DEFINE S == 1..n
    <2>1. IsFiniteSet(S) /\ \A e \in S : v[e] \in Int /\ w[e] = v[e]
      BY Zenon, <1>3, <1>4
    <2> HIDE DEF S
    <2>2. SumFunctionOnSet(w, S) = SumFunctionOnSet(v, S)
      BY ONLY Zenon, <2>1, SumSame
    <2> QED BY Zenon, <2>2 DEF S
  <1>8. Sum(fs) = Sum(es) + fs[n + 1].amount
    BY Zenon, <1>2, <1>3, <1>5, <1>6, <1>7
  <1> QED BY Zenon, <1>8 DEF n

\* What is used of sums over credits and over events.
LEMMA OtherSumsHold == CreditSums /\ EventSums
  <1>1. CreditSums
    BY Zenon, WorthsType, WorthsSame, WorthsAdd DEF CreditSums
  <1>2. EventSums
    BY Zenon, SumOfEvents, SumOfMore DEF EventSums
  <1> QED BY Zenon, <1>1, <1>2

-----------------------------------------------------------------------------
\* The initial state.

\* The deposits are in the ledger.
LEMMA InitRows ==
    ASSUME Init
    PROVE  /\ TypedRows(rows) /\ DOMAIN rows = {<<"peer", 0>>, <<"outgoing", 0>>, <<"assetB", 0>>}
           /\ \A r \in DOMAIN rows : /\ rows[r].debit # Dst /\ rows[r].credit # Dst
                                     /\ rows[r].debit[2] = "settlement"
  <1> DEFINE none == [r \in {} |-> Idle]
             ts == << deposit("peer"), deposit("outgoing"), deposit("assetB") >>
             D == {<<"peer", 0>>, <<"outgoing", 0>>, <<"assetB", 0>>}
  <1>1. rows = inserted(none, ts)
    BY Zenon DEF Init
  <1>2. DOMAIN none = {} /\ DOMAIN ts = {1, 2, 3}
        /\ ts[1] = deposit("peer") /\ ts[2] = deposit("outgoing") /\ ts[3] = deposit("assetB")
    OBVIOUS
  <1> HIDE DEF none, ts
  <1>3. Extended(none, ts, rows)
    BY Zenon, <1>1, Inserted
  <1>4. rows = [r \in DOMAIN rows |-> rows[r]]
    BY Zenon, <1>1, InsertedFunction
  <1>5. \A i \in DOMAIN ts : \E a \in {"peer", "outgoing", "assetB"} : ts[i] = deposit(a)
    BY Zenon, <1>2
  <1>6. DOMAIN rows = D
    <2>1. DOMAIN rows = {ts[i].ref : i \in DOMAIN ts}
      BY Zenon, <1>2, <1>3 DEF Extended
    <2>2. ts[1].ref = <<"peer", 0>> /\ ts[2].ref = <<"outgoing", 0>> /\ ts[3].ref = <<"assetB", 0>>
      BY Zenon, <1>2, DepositType
    <2>3. DOMAIN rows = {ts[1].ref, ts[2].ref, ts[3].ref}
      BY Zenon, <1>2, <2>1
    <2> QED BY Zenon, <2>2, <2>3
  <1>7. ASSUME NEW r \in DOMAIN rows
        PROVE  rows[r] \in Row /\ rows[r].debit # Dst /\ rows[r].credit # Dst
               /\ rows[r].debit[2] = "settlement"
    <2>1. PICK i \in DOMAIN ts : rows[r] = prepareTransfer(ts[i])
      BY Zenon, <1>2, <1>3 DEF Extended
    <2>2. PICK a \in {"peer", "outgoing", "assetB"} : ts[i] = deposit(a)
      BY Zenon, <1>5
    <2>3. /\ deposit(a) \in Transfer
          /\ deposit(a).debit[2] = "settlement" /\ deposit(a).debit # Dst /\ deposit(a).credit # Dst
      BY Zenon, DepositType
    <2> QED BY Zenon, <2>1, <2>2, <2>3, PreparedRow
  <1>8. IsFiniteSet(D)
    <2>1. IsFiniteSet({<<"peer", 0>>})
      BY Zenon, FS_Singleton
    <2>2. IsFiniteSet({<<"peer", 0>>} \cup {<<"outgoing", 0>>})
      BY Zenon, <2>1, FS_AddElement
    <2>3. IsFiniteSet(({<<"peer", 0>>} \cup {<<"outgoing", 0>>}) \cup {<<"assetB", 0>>})
      BY Zenon, <2>2, FS_AddElement
    <2>4. D = ({<<"peer", 0>>} \cup {<<"outgoing", 0>>}) \cup {<<"assetB", 0>>}
      BY Zenon
    <2> QED BY Zenon, <2>3, <2>4
  <1> HIDE DEF D
  <1>9. TypedRows(rows)
    BY Zenon, <1>4, <1>6, <1>7, <1>8 DEF TypedRows
  <1> QED BY Zenon, <1>6, <1>7, <1>9 DEF D

\* The types hold initially.
LEMMA InitTyped == Init => Typed
  <1> SUFFICES ASSUME Init PROVE Typed
    BY Zenon
  <1>1. TypedRows(rows)
    BY Zenon, InitRows
  <1>2. dest \in Dest
    BY DEF Init, Dest, Open
  <1>3. CreditsType /\ WorkerType /\ CallsType /\ HistType
    BY Zenon DEF Init, CreditsType, CreditState, WorkerType, CallsType, HistType
  <1>4. EventsType /\ CacheType
    BY DEF Init, EventsType, CacheType
  <1>5. CountsType
    BY AmountAssumption DEF Init, CountsType
  <1> QED BY Zenon, <1>1, <1>2, <1>3, <1>4, <1>5 DEF Typed

\* Initially nothing has come to the destination or left it, and nobody is overdrawn.
LEMMA InitMoney == Init => MoneyInv /\ SolventInv
  <1> SUFFICES ASSUME Init PROVE MoneyInv /\ SolventInv
    BY Zenon
  <1>1. TypedRows(rows) /\ \A r \in DOMAIN rows : /\ rows[r].debit # Dst /\ rows[r].credit # Dst
                                                  /\ rows[r].debit[2] = "settlement"
    BY Zenon, InitRows
  <1>2. MoneyInv
    BY Zenon, <1>1 DEF MoneyInv, ToDest, FromDest, refsOf
  <1>3. ASSUME NEW ref PROVE getBalance(rows, ref) >= 0
    <2> DEFINE a == Liquidity(ref)
    <2>1. ChargeRows(rows, a) = {}
      <3>1. a[2] = "liquidity"
        BY Zenon DEF Liquidity
      <3> HIDE DEF a
      <3> QED BY Zenon, <1>1, <3>1 DEF ChargeRows
    <2>2. Table(rows)
      BY Zenon, <1>1, TypedRowsTable
    <2>3. creditsPosted(rows, a) \in Nat /\ debitsPosted(rows, a) \in Nat /\ debitsPending(rows, a) \in Nat
          /\ debitsPosted(rows, a) + debitsPending(rows, a) = SumOf(rows, ChargeRows(rows, a))
      BY Zenon, <2>2, BalanceIs
    <2>4. SumOf(rows, {}) = 0
      BY Zenon, SumEmpty DEF SumOf
    <2>5. getBalance(rows, ref) = creditsPosted(rows, a) - debitsPosted(rows, a) - debitsPending(rows, a)
      BY Zenon DEF getBalance
    <2> HIDE DEF a
    <2> QED BY <2>1, <2>3, <2>4, <2>5
  <1> QED BY Zenon, <1>2, <1>3 DEF SolventInv, Solvent

-----------------------------------------------------------------------------
\* All of it is inductive together.

\* Everything that the modules before this one assume.
LEMMA FactsHold ==
    /\ LedgerSums /\ CreditSums /\ EventSums
    /\ CreditFacts /\ CallFacts /\ RowFacts /\ EventFacts /\ DestFacts
  BY Zenon, LedgerSumsHold, OtherSumsHold, CreditSteps, CallSteps, RowSteps, DestSteps

\* The invariant holds initially.
LEMMA InitReceiving == Init => ReceivingInv
  <1> SUFFICES ASSUME Init PROVE ReceivingInv
    BY Zenon
  <1>1. Typed /\ LedgerInv /\ FinalInv /\ MoneyInv /\ SolventInv
    BY Zenon, InitTyped, InitLedger, InitFinal, InitMoney
  <1>2. LateInv /\ FailedInv
    BY Zenon DEF Init, LateInv, FailedInv, Idle
  <1>3. ReceivedInv
    <2>1. Accepted = {}
      BY Zenon DEF Init, Accepted
    <2>2. Worths(pkt, {}) = 0
      BY Zenon, SumEmpty DEF Worths
    <2> QED BY Zenon, <2>1, <2>2 DEF Init, ReceivedInv
  <1>4. ~locked /\ WorkerBehind
    BY Zenon DEF Init, locked, WorkerBehind
  <1>5. TypedRows(rows) /\ \A r \in DOMAIN rows : rows[r].debit # Dst /\ rows[r].credit # Dst
    BY Zenon, InitRows
  <1>6. total = 0
    <2>1. CreditRows(rows, Dst) = {}
      BY Zenon, <1>5 DEF CreditRows
    <2>2. creditsPosted(rows, Dst) = SumOf(rows, {})
      BY Zenon, <1>5, <2>1, TypedRowsTable, BalanceIs
    <2>3. SumOf(rows, {}) = 0
      BY Zenon, SumEmpty DEF SumOf
    <2> QED BY Zenon, <1>5, <2>2, <2>3, TotalType, LedgerSumsHold
  <1>7. Len(events) = 0 /\ DOMAIN events = {} /\ EventsType
    BY <1>1 DEF Init, Typed
  <1>8. announced = 0
    BY Zenon, <1>7, AnnouncedType, OtherSumsHold
  <1>9. CASE dest = [kind |-> "payment", state |-> "PENDING", processAt |-> "later"]
    <2>1. isPayment /\ dest.processAt = "later"
      BY Zenon, <1>9 DEF isPayment
    <2>2. PaymentBooks
      BY Zenon, <1>4, <2>1 DEF PaymentBooks
    <2>3. OneWithdrawal
      BY Zenon, <1>5, <1>7 DEF Init, OneWithdrawal, FromDest
    <2>4. PaymentDone
      BY <1>6, AmountAssumption DEF PaymentDone
    <2> QED BY Zenon, <1>1, <1>2, <1>3, <1>4, <2>1, <2>2, <2>3, <2>4 DEF ReceivingInv, PaymentKept
  <1>10. CASE dest = [kind |-> "wallet", totalEvents |-> 0, processAt |-> "null"]
    <2>1. ~isPayment /\ dest.totalEvents = 0
      BY Zenon, <1>10 DEF isPayment
    <2>2. WalletBooks
      BY <1>6, <1>8, <2>1 DEF WalletBooks
    <2>3. WalletDone
      BY <1>4, <1>6, <2>1 DEF WalletDone
    <2> QED BY Zenon, <1>1, <1>2, <1>3, <1>4, <2>1, <2>2, <2>3 DEF ReceivingInv, WalletKept
  <1> QED BY Zenon, <1>9, <1>10 DEF Init

\* Every step keeps the invariant.
LEMMA NextReceiving == ReceivingInv /\ [Next]_vars => ReceivingInv'
  <1> SUFFICES ASSUME ReceivingInv, [Next]_vars PROVE ReceivingInv'
    BY Zenon
  <1>1. /\ Typed /\ LedgerInv /\ FinalInv /\ MoneyInv /\ SolventInv
        /\ LateInv /\ FailedInv /\ ReceivedInv /\ WorkerBehind
    BY Zenon DEF ReceivingInv
  <1>f. /\ LedgerSums /\ CreditSums /\ EventSums
        /\ CreditFacts /\ CallFacts /\ RowFacts /\ EventFacts /\ DestFacts
    BY Zenon, FactsHold
  <1>2. Typed' /\ LedgerInv' /\ FinalInv'
    BY Zenon, <1>f, <1>1, TypedNext, NextLedger, NextFinal
  <1>3. MoneyInv' /\ SolventInv' /\ TotalStep
    BY Zenon, <1>f, <1>1, MoneyNext
  <1>4. LateStep /\ LateInv' /\ FailedInv' /\ ReceivedInv' /\ WorkerBehind'
    BY Zenon, <1>f, <1>1, <1>3, LateGrows, LateNext, ReceivedNext, WorkerNext
  <1>5. (isPayment' <=> isPayment) /\ (isPayment => PaymentInv /\ PaymentInv')
        /\ (~isPayment => \E T : dest \in WalletOf(T))
    BY Zenon, <1>1, KindKept
  <1>6. isPayment => PaymentKept'
    <2> SUFFICES ASSUME isPayment PROVE PaymentKept'
      BY Zenon
    <2>1. PaymentBooks /\ OneWithdrawal /\ PaymentDone /\ PaymentInv /\ PaymentInv'
      BY Zenon, <1>5 DEF ReceivingInv, PaymentKept
    <2> QED BY Zenon, <1>f, <1>1, <1>3, <1>4, <2>1, PaymentBooksNext, WithdrawalNext, PaymentDoneNext
            DEF PaymentKept
  <1>7. ~isPayment => WalletKept'
    <2> SUFFICES ASSUME ~isPayment PROVE WalletKept'
      BY Zenon
    <2>1. PICK T : dest \in WalletOf(T)
      BY Zenon, <1>5
    <2>2. WalletBooks /\ WalletDone
      BY Zenon DEF ReceivingInv, WalletKept
    <2> QED BY Zenon, <1>f, <1>1, <1>3, <2>1, <2>2, WalletBooksNext, WalletDoneNext DEF WalletKept
  <1> QED BY Zenon, <1>2, <1>3, <1>4, <1>5, <1>6, <1>7 DEF ReceivingInv

\* The inductive invariant of the money.
THEOREM ReceivingInvariant == Spec => []ReceivingInv
  BY InitReceiving, NextReceiving, PTL DEF Spec

\* Rows, destination, credits, events and calls hold values of their types, and no
\* withdrawal event is for nothing.
THEOREM ReceivingTypes == Spec => []TypeOK
  <1>1. ReceivingInv => TypeOK
    BY Zenon, TypedIsTypeOK DEF ReceivingInv
  <1> QED BY <1>1, ReceivingInvariant, PTL

\* As long as no transfer was inserted on a balance check that others had overtaken, no
\* account of the ledger is overdrawn; an incoming payment is not overdrawn even then,
\* because createTransfers takes one transfer for its event's id.
THEOREM NoOverdraftAlways == Spec => []NoOverdraft
  <1>1. ReceivingInv => NoOverdraft
    <2> SUFFICES ASSUME ReceivingInv PROVE NoOverdraft
      BY Zenon
    <2>1. ~hist.overtaken => \A ref \in Refs : getBalance(rows, ref) >= 0
      BY Zenon DEF ReceivingInv, SolventInv, Solvent
    <2>2. ASSUME isPayment PROVE getBalance(rows, "dest") >= 0
      <3>1. OneWithdrawal /\ TypedRows(rows)
        BY Zenon, <2>2 DEF ReceivingInv, PaymentKept, Typed
      <3>2. Table(rows)
        BY Zenon, <3>1, TypedRowsTable
      <3> DEFINE E == ChargeRows(rows, Dst)
                 out == debitsPosted(rows, Dst) + debitsPending(rows, Dst)
      <3>3. /\ creditsPosted(rows, Dst) \in Nat /\ debitsPosted(rows, Dst) \in Nat
            /\ debitsPending(rows, Dst) \in Nat /\ out = SumOf(rows, E)
        BY Zenon, <3>2, BalanceIs
      <3>4. getBalance(rows, "dest") =
                creditsPosted(rows, Dst) - debitsPosted(rows, Dst) - debitsPending(rows, Dst)
        BY Zenon DEF getBalance, Dst
      <3>5. total = creditsPosted(rows, Dst)
        BY Zenon, <3>1, TotalType, LedgerSumsHold
      <3>6. SumOf(rows, {}) = 0
        BY Zenon, SumEmpty DEF SumOf
      <3>7. E \in SUBSET DOMAIN rows /\ \A r \in E : r = EventId /\ rows[r].amount <= total
        BY Zenon, <3>1 DEF ChargeRows, OneWithdrawal, FromDest
      <3> HIDE DEF E
      <3>8. SumOf(rows, E) <= total
        <4>1. CASE E = {}
          BY <3>3, <3>5, <3>6, <4>1
        <4>2. CASE E # {}
          <5>1. PICK y \in E : y \in DOMAIN rows /\ rows[y].amount <= total /\ y = EventId
            BY Zenon, <3>7, <4>2
          <5>2. E \subseteq {} \cup {y} /\ {} \in SUBSET DOMAIN rows
            BY Zenon, <3>7, <5>1
          <5>3. SumOf(rows, E) <= SumOf(rows, {}) + rows[y].amount
            BY Zenon, <3>2, <3>7, <5>1, <5>2, SumOneMore
          <5>4. rows[y].amount \in Nat
            BY Zenon, <3>2, <5>1 DEF Table, Row
          <5>5. SumOf(rows, E) \in Nat
            BY Zenon, <3>2, <3>7, WorthType
          <5> QED BY <3>3, <3>5, <3>6, <5>1, <5>3, <5>4, <5>5
        <4> QED BY Zenon, <4>1, <4>2
      <3> QED BY <3>3, <3>4, <3>5, <3>8
    <2> QED BY Zenon, <2>1, <2>2 DEF NoOverdraft
  <1> QED BY <1>1, ReceivingInvariant, PTL

\* Whatever reached an incoming payment that the workers are done with (processIncomingPayment)
\* is in its withdrawal event, except for credits posted after the worker had read the
\* total; and a wallet address's totalEventsAmount is the sum of its events.
THEOREM AllMoneyAnnouncedAlways == Spec => []AllMoneyAnnounced
  <1>1. ReceivingInv => AllMoneyAnnounced
    BY Zenon DEF ReceivingInv, PaymentKept, WalletKept, PaymentBooks, WalletBooks,
          AllMoneyAnnounced, Late,
       Worths, amountOf
  <1> QED BY <1>1, ReceivingInvariant, PTL

\* Once the credits are over, the payment that has received its amount is not open, the
\* throttled wallet address with money to announce is scheduled, and the STREAM connection's
\* total is what was credited, in whatever order the credits were posted and reported.
THEOREM CreditsTakeEffectAlways == Spec => []CreditsTakeEffect
  <1>1. ReceivingInv => CreditsTakeEffect
    <2> SUFFICES ASSUME ReceivingInv PROVE CreditsTakeEffect
      BY Zenon
    <2> DEFINE peers == {p \in Packet : pkt[p] # Idle /\ pkt[p].from = "peer"}
               C == {p \in peers : posted(p)}
               credited == amountOf(C)
    <2>1. Typed /\ LedgerInv /\ FailedInv /\ received = Worths(pkt, Accepted)
      BY Zenon DEF ReceivingInv, ReceivedInv
    <2>2. credited = Worths(pkt, C)
      BY Zenon DEF amountOf, Worths
    <2>3. Accepted \in SUBSET Packet /\ \A p \in Accepted : pkt[p].amount \in Nat
      BY Zenon, <2>1, AcceptedAmounts, FactsHold DEF Accepted
    <2>4. C \subseteq Accepted
      <3>1. ASSUME NEW p \in Packet, posted(p) PROVE pkt[p].at # "rejected"
        BY Zenon, <2>1, <3>1 DEF LedgerInv, CreditInv, Every, posted, Posted
      <3> QED BY Zenon, <3>1 DEF Accepted
    <2>5. credited <= received
      <3> HIDE DEF C
      <3> QED BY Zenon, <2>1, <2>2, <2>3, <2>4, WorthsGrow
    <2>6. ASSUME Quiet, noneDied, NEW p \in Packet
          PROVE  pkt[p].at \in {"idle", "fulfilled", "rejected", "paid", "failed"}
      BY Zenon, <2>1, <2>6 DEF Quiet, noneDied, inFlight, LedgerInv, CreditInv, At
    <2>7. ASSUME Quiet, noneDied, isPayment, IncomingAmount <= total PROVE dest.state \notin Open
      BY Zenon, <2>6, <2>7 DEF ReceivingInv, PaymentKept, PaymentDone, WillComplete
    <2>8. ASSUME Quiet, noneDied, ~isPayment, ThrottleDelay, ~locked, dest.totalEvents < total
          PROVE  dest.processAt # "null" \/ hist.skipped
      BY Zenon, <2>6, <2>8 DEF ReceivingInv, WalletKept, WalletDone, Unreported
    <2>9. ASSUME Quiet, noneDied, \A p \in peers : ~lapsed(p) PROVE credited = received
      <3>1. ASSUME NEW p \in Accepted PROVE p \in C
        <4>1. p \in Packet /\ pkt[p] # Idle /\ pkt[p].from = "peer" /\ pkt[p].at # "rejected"
          BY Zenon DEF Accepted
        <4>2. pkt[p].at \in {"fulfilled", "paid"}
          BY Zenon, <2>1, <2>6, <2>9, <4>1, CreditAt DEF FailedInv, Typed, CreditIs
        <4>3. posted(p)
          BY Zenon, <2>1, <2>9, <4>1, <4>2 DEF LedgerInv, CreditInv, Every, posted, Posted
        <4> QED BY Zenon, <4>1, <4>3
      <3>2. C = Accepted
        BY Zenon, <2>4, <3>1
      <3> QED BY Zenon, <2>1, <2>2, <3>2
    <2> HIDE DEF C
    <2> QED BY Zenon, <2>5, <2>7, <2>8, <2>9 DEF CreditsTakeEffect, C
  <1> QED BY <1>1, ReceivingInvariant, PTL
=============================================================================
