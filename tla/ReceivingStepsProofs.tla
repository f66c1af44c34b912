----------------------- MODULE ReceivingStepsProofs -----------------------
(* What the steps of Receiving do, for any number of credits, callers,       *)
(* amounts and faults:                                                       *)
(*   - what each credit has in the ledger (LedgerInv), and what the payers   *)
(*     are told of it;                                                       *)
(*   - the incoming payment's row and its one event (FinalInv);              *)
(*   - the types of all variables, and what each step changes (CreditFacts   *)
(*     to DestFacts), from what ReceivingSteps says of sums (LedgerSums).    *)
EXTENDS ReceivingSteps, TLAPS

-----------------------------------------------------------------------------

\* Sequences: what one is, ...
LEMMA SeqIs ==
    ASSUME NEW S, NEW q \in Seq(S)
    PROVE  /\ Len(q) \in Nat /\ DOMAIN q = 1..Len(q) /\ q \in [1..Len(q) -> S]
           /\ \A n \in 1..Len(q) : q[n] \in S
           /\ Len(q) = 0 => q = << >>
  OBVIOUS

\* ... one with an element more, ...
LEMMA SeqMore ==
    ASSUME NEW S, NEW q \in Seq(S), NEW x \in S
    PROVE  /\ Append(q, x) \in Seq(S) /\ Len(Append(q, x)) = Len(q) + 1
           /\ \A n \in 1..Len(q) : Append(q, x)[n] = q[n]
           /\ Append(q, x)[Len(q) + 1] = x
  OBVIOUS

\* ... and one with an element changed.
LEMMA SeqEdited ==
    ASSUME NEW S, NEW q \in Seq(S), NEW i \in 1..Len(q), NEW x \in S
    PROVE  /\ [q EXCEPT ![i] = x] \in Seq(S)
           /\ Len([q EXCEPT ![i] = x]) = Len(q)
           /\ \A j \in 1..Len(q) : [q EXCEPT ![i] = x][j] = IF j = i THEN x ELSE q[j]
  OBVIOUS

\* The ledger's operators.

\* A row prepareTransfer makes is a hold if the transfer has a timeout.
LEMMA Prepared ==
    ASSUME NEW t
    PROVE  /\ \E A : prepareTransfer(t) \in RowOf(A)
           /\ prepareTransfer(t).state = IF t.timed THEN "PENDING" ELSE "POSTED"
           /\ prepareTransfer(t).lapsed = FALSE
  <1> DEFINE A == {t.debit, t.credit, t.amount}
  <1>1. prepareTransfer(t) \in RowOf(A)
    BY Zenon DEF prepareTransfer, RowOf
  <1> QED BY Zenon, <1>1 DEF prepareTransfer

\* w has the rows of s, and rows for the transfers ts.
Extended(s, ts, w) ==
    /\ DOMAIN w = DOMAIN s \cup {ts[i].ref : i \in DOMAIN ts}
    /\ \A r \in DOMAIN s : w[r] = s[r]
    /\ \A r \in DOMAIN w : r \notin DOMAIN s =>
           \E i \in DOMAIN ts : ts[i].ref = r /\ w[r] = prepareTransfer(ts[i])

\* Inserting transfers keeps the rows there are; the others are the transfers'.
LEMMA Inserted ==
    ASSUME NEW s, NEW ts
    PROVE  Extended(s, ts, inserted(s, ts))
  <1>1. DOMAIN inserted(s, ts) = DOMAIN s \cup {ts[i].ref : i \in DOMAIN ts}
    BY Zenon DEF inserted
  <1>2. \A r \in DOMAIN s : inserted(s, ts)[r] = s[r]
    BY Zenon DEF inserted
  <1>3. ASSUME NEW r \in DOMAIN inserted(s, ts), r \notin DOMAIN s
        PROVE  \E i \in DOMAIN ts : /\ ts[i].ref = r
                                    /\ inserted(s, ts)[r] = prepareTransfer(ts[i])
    <2> DEFINE i == CHOOSE j \in DOMAIN ts : ts[j].ref = r
    <2>1. i \in DOMAIN ts /\ ts[i].ref = r
      BY Zenon, <1>1, <1>3
    <2>2. inserted(s, ts)[r] = prepareTransfer(ts[i])
      BY Zenon, <1>1, <1>3 DEF inserted
    <2> QED BY Zenon, <2>1, <2>2
  <1> QED BY Zenon, <1>1, <1>2, <1>3 DEF Extended

\* A credit has one or two timed transfers, with the credit's id.
LEMMA Legs ==
    ASSUME NEW id, NEW a, NEW b, NEW m, NEW n
    PROVE  /\ DOMAIN buildTransfers(id, a, b, m, n) # {}
           /\ \A i \in DOMAIN buildTransfers(id, a, b, m, n) :
                  /\ buildTransfers(id, a, b, m, n)[i].ref[1] = id
                  /\ buildTransfers(id, a, b, m, n)[i].timed = TRUE
  <1> DEFINE T == [ref : {<<id, 1>>, <<id, 2>>}, debit : {Liquidity(a), Liquidity(AssetOf[b])},
                   credit : {Liquidity(b), Liquidity(AssetOf[a])},
                   amount : {m, n, m - n, n - m}, timed : {TRUE}]
             t == buildTransfers(id, a, b, m, n)
  <1>1. t \in Seq(T) /\ Len(t) >= 1
    <2> DEFINE both == IF n < m THEN n ELSE m
               first == << leg(<<id, 1>>, a, b, both) >>
    <2>1. leg(<<id, 1>>, a, b, both) \in T
      BY Zenon DEF leg
    <2>2. leg(<<id, 2>>, a, AssetOf[a], m - n) \in T
      BY Zenon DEF leg
    <2>3. leg(<<id, 2>>, AssetOf[b], b, n - m) \in T
      BY Zenon DEF leg
    <2>4. leg(<<id, 1>>, a, AssetOf[a], m) \in T
      BY Zenon DEF leg
    <2>5. leg(<<id, 2>>, AssetOf[b], b, n) \in T
      BY Zenon DEF leg
    <2> HIDE DEF T
    <2>6. first \in Seq(T) /\ Len(first) = 1
      BY <2>1
    <2>7. buildSameAssetTransfers(id, a, b, m, n) \in Seq(T)
              /\ Len(buildSameAssetTransfers(id, a, b, m, n)) >= 1
      <3>1. buildSameAssetTransfers(id, a, b, m, n) =
               IF n < m THEN Append(first, leg(<<id, 2>>, a, AssetOf[a], m - n))
               ELSE IF m < n THEN Append(first, leg(<<id, 2>>, AssetOf[b], b, n - m))
               ELSE first
        BY Zenon DEF buildSameAssetTransfers
      <3> HIDE DEF first
      <3>2. ASSUME NEW x \in T PROVE Append(first, x) \in Seq(T) /\ Len(Append(first, x)) = 2
        BY <2>6, SMT
      <3> QED BY <2>2, <2>3, <2>6, <3>1, <3>2
    <2>8. buildCrossAssetTransfers(id, a, b, m, n) \in Seq(T)
              /\ Len(buildCrossAssetTransfers(id, a, b, m, n)) >= 1
      BY <2>4, <2>5 DEF buildCrossAssetTransfers
    <2> QED BY Zenon, <2>7, <2>8 DEF buildTransfers
  <1> HIDE DEF t
  <1>2. DOMAIN t = 1..Len(t) /\ \A i \in 1..Len(t) : t[i] \in T
    BY Zenon, <1>1, SeqIs
  <1>3. \A x \in T : x.ref[1] = id /\ x.timed = TRUE
    <2>1. \A x \in T : x.ref \in {<<id, 1>>, <<id, 2>>} /\ x.timed = TRUE
      BY Zenon
    <2>2. <<id, 1>>[1] = id /\ <<id, 2>>[1] = id
      BY Zenon
    <2> HIDE DEF T
    <2> QED BY Zenon, <2>1, <2>2
  <1>4. 1 \in DOMAIN t
    BY <1>1, <1>2, SeqIs
  <1> HIDE DEF T
  <1> QED BY Zenon, <1>2, <1>3, <1>4 DEF t

\* The credits and their transfers.

\* A step does to the transfers of p nothing but, maybe, let time pass.
Kept(p) ==
    /\ refsOf(rows', p) = refsOf(rows, p)
    /\ \A r \in refsOf(rows, p) : /\ rows'[r].state = rows[r].state
                                  /\ rows[r].lapsed => rows'[r].lapsed

\* What the ledger holds of a credit stays true if its transfers are kept.
LEMMA KeptInv ==
    ASSUME NEW p \in Packet, CreditInv(p), Kept(p), pkt'[p] = pkt[p]
    PROVE  CreditInv(p)'
  <1>1. refsOf(rows, p)' = refsOf(rows, p)
    BY Zenon DEF Kept
  <1>2. Every(p, "PENDING")' <=> Every(p, "PENDING")
    BY Zenon, <1>1 DEF Kept, Every
  <1>3. Every(p, "POSTED")' <=> Every(p, "POSTED")
    BY Zenon, <1>1 DEF Kept, Every
  <1>4. lapsed(p) => lapsed(p)'
    BY Zenon, <1>1 DEF Kept, lapsed
  <1> QED BY Zenon, <1>1, <1>2, <1>3, <1>4 DEF CreditInv

\* A step of one credit.
LEMMA CreditMoves ==
    ASSUME LedgerInv, NEW p \in Packet, NEW c, pkt' = [pkt EXCEPT ![p] = c],
           RowsInv', CreditInv(p)', \A q \in Packet : q # p => Kept(q)
    PROVE  LedgerInv'
  <1>1. DOMAIN pkt' = Packet /\ \A q \in Packet : q # p => pkt'[q] = pkt[q]
    BY Zenon DEF LedgerInv
  <1>2. ASSUME NEW q \in Packet, q # p PROVE CreditInv(q)'
    BY Zenon, <1>1, <1>2, KeptInv DEF LedgerInv
  <1> QED BY Zenon, <1>1, <1>2 DEF LedgerInv

\* A step of something else.
LEMMA OthersMove ==
    ASSUME LedgerInv, UNCHANGED pkt, RowsInv', \A q \in Packet : Kept(q)
    PROVE  LedgerInv'
  BY Zenon, KeptInv DEF LedgerInv

\* No transfer changes.
LEMMA SameRows ==
    ASSUME LedgerInv, UNCHANGED rows
    PROVE  RowsInv' /\ \A q \in Packet : Kept(q)
  BY Zenon DEF LedgerInv, RowsInv, Kept

\* A step that touches neither credits nor transfers.
LEMMA NothingMoves ==
    ASSUME LedgerInv, UNCHANGED <<rows, pkt>>
    PROVE  LedgerInv'
  BY Zenon, SameRows, OthersMove

\* What a record of a credit tells of it.
LEMMA CreditRecord ==
    ASSUME NEW p \in Packet, NEW at \in {"rejected", "failed", "fulfilled", "paid", "dead"}
    PROVE  ended(p, at).at = at
  BY Zenon DEF ended

\* A credit in flight stays one when it moves on.
LEMMA EarlyMoves ==
    ASSUME NEW A, NEW d \in InFlightOf(A), NEW at \in Early
    PROVE  [d EXCEPT !.at = at] \in InFlightOf(A) /\ [d EXCEPT !.at = at].at = at
  BY Zenon DEF InFlightOf

\* A credit enters, or is refused.
LEMMA EnterStep ==
    ASSUME LedgerInv, NEW p \in Packet, pkt[p] = Idle, UNCHANGED rows,
           NEW from, NEW amount, entered(p, from, amount)
    PROVE  LedgerInv'
  <1>1. refsOf(rows, p) = {}
    BY DEF LedgerInv, CreditInv, Idle
  <1>2. PICK c : /\ pkt' = [pkt EXCEPT ![p] = c]
                 /\ \/ c \in InFlightOf({from, amount, cached'}) /\ c.at = "checked"
                    \/ c.at \in {"rejected", "failed"}
    <2> DEFINE c == [at |-> "checked", from |-> from, amount |-> amount, object |-> cached']
               e(v) == [at |-> v, from |-> from, amount |-> amount]
    <2>1. c \in InFlightOf({from, amount, cached'}) /\ c.at = "checked"
      BY Zenon DEF InFlightOf, Early
    <2>2. \A v \in {"rejected", "failed"} : e(v).at = v
      BY Zenon
    <2>3. \/ pkt' = [pkt EXCEPT ![p] = c]
          \/ \E v \in {"rejected", "failed"} : pkt' = [pkt EXCEPT ![p] = e(v)]
      BY Zenon DEF entered
    <2> HIDE DEF c, e
    <2> QED BY Zenon, <2>1, <2>2, <2>3
  <1>3. pkt'[p] = c
    BY Zenon, <1>2 DEF LedgerInv
  <1>4. CreditInv(p)'
    BY Zenon, <1>1, <1>2, <1>3 DEF CreditInv, At, Early, Every
  <1> QED BY Zenon, <1>2, <1>4, SameRows, CreditMoves

\* A credit ends, and nothing happens to the ledger.
LEMMA EndStep ==
    ASSUME LedgerInv, NEW p \in Packet, UNCHANGED rows,
           NEW at, pkt' = [pkt EXCEPT ![p] = ended(p, at)],
           \/ at \in {"rejected", "failed"} /\ pkt[p].at = "checked"
           \/ at \in {"fulfilled", "paid"} /\ pkt[p].at = "read"
           \/ at = "dead" /\ pkt[p].at \in {"checked", "held", "posted", "read"}
    PROVE  LedgerInv'
  <1>1. pkt'[p].at = at
    BY Zenon DEF LedgerInv, ended
  <1>2. /\ refsOf(rows, p)' = refsOf(rows, p)
        /\ \A v : Every(p, v)' <=> Every(p, v)
    BY Zenon DEF Every
  <1>3. CreditInv(p)
    BY Zenon DEF LedgerInv
  <1>4. refsOf(rows, p) = {} => \A v : Every(p, v)
    BY Zenon DEF Every
  <1>5. CreditInv(p)'
    BY Zenon, <1>1, <1>2, <1>3, <1>4 DEF CreditInv, At, Early
  <1> QED BY Zenon, <1>5, SameRows, CreditMoves

\* What the actions do to credits and transfers.
Validated(p) == pkt' = [pkt EXCEPT ![p].at = "validated"]

Held(p) == pkt' = [pkt EXCEPT ![p].at = "held"]

\* createTransfers has validated the transfers of a credit.
LEMMA ValidateStep ==
    ASSUME LedgerInv, NEW p \in Packet, UNCHANGED rows, pkt[p].at = "checked", Validated(p)
    PROVE  LedgerInv'
  <1>a. PICK A : pkt[p] \in InFlightOf(A)
    BY Zenon DEF LedgerInv, CreditInv, Early
  <1>1. PICK d \in InFlightOf(A) : d = pkt[p]
    BY Zenon, <1>a
  <1> DEFINE c == [d EXCEPT !.at = "validated"]
  <1>2. c \in InFlightOf(A) /\ c.at = "validated"
    BY Zenon, EarlyMoves DEF Early
  <1>3. pkt' = [pkt EXCEPT ![p] = [pkt[p] EXCEPT !.at = "validated"]]
    BY Zenon DEF Validated
  <1>4. pkt' = [pkt EXCEPT ![p] = c]
    BY Zenon, <1>1, <1>3
  <1> HIDE DEF c
  <1>5. pkt'[p] = c
    BY Zenon, <1>4 DEF LedgerInv
  <1>6. refsOf(rows, p) = {}
    BY Zenon DEF LedgerInv, CreditInv
  <1>7. CreditInv(p)'
    BY Zenon, <1>2, <1>5, <1>6 DEF CreditInv, At
  <1> QED BY Zenon, <1>4, <1>7, SameRows, CreditMoves

\* Transfers are inserted.
LEMMA InsertKeeps ==
    ASSUME RowsInv, NEW ts, rows' = inserted(rows, ts)
    PROVE  /\ RowsInv'
           /\ \A q : (\A i \in DOMAIN ts : ts[i].ref[1] # q) => Kept(q)
  <1> Extended(rows, ts, rows')
    BY Zenon, Inserted
  <1>1. ASSUME NEW r \in DOMAIN rows' PROVE \E A : rows'[r] \in RowOf(A)
    <2>1. CASE r \in DOMAIN rows
      BY Zenon, <2>1 DEF RowsInv, Extended
    <2>2. CASE r \notin DOMAIN rows
      <3>1. PICK i \in DOMAIN ts : rows'[r] = prepareTransfer(ts[i])
        BY Zenon, <2>2 DEF Extended
      <3> QED BY Zenon, <3>1, Prepared
    <2> QED BY Zenon, <2>1, <2>2
  <1>2. ASSUME NEW q, \A i \in DOMAIN ts : ts[i].ref[1] # q PROVE Kept(q)
    <2>1. refsOf(rows', q) = refsOf(rows, q)
      BY <1>2 DEF refsOf, Extended
    <2>2. \A r \in refsOf(rows, q) : rows'[r] = rows[r]
      BY Zenon DEF refsOf, Extended
    <2> QED BY Zenon, <2>1, <2>2 DEF Kept
  <1> QED BY Zenon, <1>1, <1>2 DEF RowsInv

\* createTransfers inserts the transfers of a credit, as holds.
LEMMA HoldStep ==
    ASSUME LedgerInv, NEW p \in Packet, HoldCredit(p)
    PROVE  LedgerInv'
  <1> DEFINE ts == transfersOf(p)
  <1>1. /\ DOMAIN ts # {}
        /\ \A i \in DOMAIN ts : ts[i].ref[1] = p /\ ts[i].timed = TRUE
    BY Zenon, Legs DEF transfersOf
  <1>2. rows' = inserted(rows, ts) /\ pkt[p].at = "validated" /\ Held(p)
    BY Zenon DEF HoldCredit, Held
  <1> HIDE DEF ts
  <1> Extended(rows, ts, rows')
    BY Zenon, <1>2, Inserted
  <1>3. RowsInv' /\ \A q \in Packet : q # p => Kept(q)
    BY Zenon, <1>1, <1>2, InsertKeeps DEF LedgerInv
  <1>4. refsOf(rows, p) = {}
    BY Zenon, <1>2 DEF LedgerInv, CreditInv
  <1>5. refsOf(rows', p) # {}
    <2>1. PICK i \in DOMAIN ts : TRUE
      BY Zenon, <1>1
    <2>2. ts[i].ref \in DOMAIN rows'
      BY Zenon DEF Extended
    <2> QED BY Zenon, <1>1, <2>2 DEF refsOf
  <1>6. ASSUME NEW r \in refsOf(rows', p) PROVE rows'[r].state = "PENDING"
    <2>1. r \in DOMAIN rows' /\ r \notin DOMAIN rows
      BY Zenon, <1>4 DEF refsOf
    <2>2. PICK i \in DOMAIN ts : rows'[r] = prepareTransfer(ts[i])
      BY Zenon, <2>1 DEF Extended
    <2> QED BY <1>1, <2>2, Prepared
  <1>a. PICK A : pkt[p] \in InFlightOf(A)
    BY Zenon, <1>2 DEF LedgerInv, CreditInv, Early
  <1>7. PICK d \in InFlightOf(A) : d = pkt[p]
    BY Zenon, <1>a
  <1> DEFINE c == [d EXCEPT !.at = "held"]
  <1>8. c \in InFlightOf(A) /\ c.at = "held"
    BY Zenon, EarlyMoves DEF Early
  <1>9. pkt' = [pkt EXCEPT ![p] = [pkt[p] EXCEPT !.at = "held"]]
    BY Zenon, <1>2 DEF Held
  <1>10. pkt' = [pkt EXCEPT ![p] = c]
    BY Zenon, <1>7, <1>9
  <1> HIDE DEF c
  <1>11. pkt'[p] = c
    BY Zenon, <1>10 DEF LedgerInv
  <1>12. CreditInv(p)'
    BY Zenon, <1>5, <1>6, <1>8, <1>11 DEF CreditInv, At, Every
  <1> QED BY Zenon, <1>3, <1>10, <1>12, CreditMoves

\* postTransfers and voidTransfers change the state of the rows, or nothing.
LEMMA UpdateKeeps ==
    ASSUME RowsInv, NEW refs, NEW state \in {"POSTED", "VOIDED"},
           rows' = updateTransferState(rows, refs, state)
    PROVE  /\ RowsInv'
           /\ DOMAIN rows' = DOMAIN rows
           /\ \A r \in DOMAIN rows \ refs : rows'[r] = rows[r]
           /\ mayUpdate(rows, refs) => \A r \in DOMAIN rows \cap refs : rows'[r].state = state
           /\ ~mayUpdate(rows, refs) => rows' = rows
  <1>1. CASE ~mayUpdate(rows, refs)
    BY Zenon, <1>1 DEF updateTransferState, RowsInv
  <1>2. CASE mayUpdate(rows, refs)
    <2>1. rows' = [r \in DOMAIN rows |-> IF r \in refs THEN [rows[r] EXCEPT !.state = state]
                                                       ELSE rows[r]]
      BY Zenon, <1>2 DEF updateTransferState
    <2>2. DOMAIN rows' = DOMAIN rows /\ \A r \in DOMAIN rows \ refs : rows'[r] = rows[r]
      BY Zenon, <2>1
    <2>3. ASSUME NEW r \in DOMAIN rows \cap refs
          PROVE  rows'[r].state = state /\ \E A : rows'[r] \in RowOf(A)
      <3>1. PICK A : rows[r] \in RowOf(A)
        BY Zenon DEF RowsInv
      <3>2. PICK d \in RowOf(A) : d = rows[r]
        BY Zenon, <3>1
      <3>3. rows'[r] = [rows[r] EXCEPT !.state = state]
        BY Zenon, <2>1
      <3>4. rows'[r] = [d EXCEPT !.state = state]
        BY Zenon, <3>2, <3>3
      <3>5. [d EXCEPT !.state = state] \in RowOf(A) /\ [d EXCEPT !.state = state].state = state
        BY Zenon DEF RowOf
      <3> QED BY Zenon, <3>4, <3>5
    <2>4. RowsInv'
      <3>1. ASSUME NEW r \in DOMAIN rows' PROVE \E A : rows'[r] \in RowOf(A)
        BY Zenon, <2>2, <2>3 DEF RowsInv
      <3> QED BY Zenon, <3>1 DEF RowsInv
    <2> QED BY Zenon, <1>2, <2>2, <2>3, <2>4
  <1> QED BY Zenon, <1>1, <1>2

\* What Post does to credit p.
PostEnds(p) ==
    pkt' = [pkt EXCEPT ![p] =
              IF mayUpdate(rows, refsOf(rows, p)) THEN [@ EXCEPT !.at = "posted"]
              ELSE ended(p, IF @.from = "peer" THEN "fulfilled" ELSE "failed")]

\* Where a post takes the credit: on, or to its end if a hold has expired.
LEMMA PostCredit ==
    ASSUME LedgerInv, NEW p \in Packet, pkt[p].at = "held", PostEnds(p)
    PROVE  \E c : /\ pkt' = [pkt EXCEPT ![p] = c]
                  /\ \/ /\ mayUpdate(rows, refsOf(rows, p)) /\ c.at = "posted"
                        /\ \E A : c \in InFlightOf(A)
                     \/ ~mayUpdate(rows, refsOf(rows, p)) /\ c.at \in {"fulfilled", "failed"}
  <1>1. PICK A : pkt[p] \in InFlightOf(A)
    BY Zenon DEF LedgerInv, CreditInv, Early
  <1>2. PICK d \in InFlightOf(A) : d = pkt[p]
    BY Zenon, <1>1
  <1> DEFINE may == mayUpdate(rows, refsOf(rows, p))
             c == [d EXCEPT !.at = "posted"]
  <1>3. c \in InFlightOf(A) /\ c.at = "posted"
    BY Zenon, EarlyMoves DEF Early
  <1>4. CASE may
    <2>1. pkt' = [pkt EXCEPT ![p] = [pkt[p] EXCEPT !.at = "posted"]]
      BY Zenon, <1>4 DEF PostEnds
    <2>2. pkt' = [pkt EXCEPT ![p] = c]
      BY Zenon, <1>2, <2>1
    <2> HIDE DEF c, may
    <2> QED BY Zenon, <1>3, <1>4, <2>2 DEF may
  <1>5. CASE ~may
    <2>1. \E at \in {"fulfilled", "failed"} : pkt' = [pkt EXCEPT ![p] = ended(p, at)]
      BY Zenon, <1>5 DEF PostEnds
    <2>2. PICK at \in {"fulfilled", "failed"} : pkt' = [pkt EXCEPT ![p] = ended(p, at)]
      BY Zenon, <2>1
    <2>3. ended(p, at).at = at
      BY Zenon, CreditRecord
    <2> QED BY Zenon, <1>5, <2>2, <2>3
  <1> QED BY Zenon, <1>4, <1>5

\* trx.post() posts all transfers of a credit, or none.
LEMMA PostStep ==
    ASSUME LedgerInv, NEW p \in Packet, Post(p)
    PROVE  LedgerInv'
  <1> DEFINE refs == refsOf(rows, p)
  <1>1. /\ pkt[p].at = "held" /\ PostEnds(p)
        /\ rows' = updateTransferState(rows, refs, "POSTED")
    BY Zenon DEF Post, PostEnds
  <1>2. PICK c : /\ pkt' = [pkt EXCEPT ![p] = c]
                 /\ \/ mayUpdate(rows, refs) /\ c.at = "posted" /\ \E A : c \in InFlightOf(A)
                    \/ ~mayUpdate(rows, refs) /\ c.at \in {"fulfilled", "failed"}
    BY Zenon, <1>1, PostCredit
  <1>3. pkt'[p] = c
    BY Zenon, <1>2 DEF LedgerInv
  <1>4. /\ RowsInv'
        /\ DOMAIN rows' = DOMAIN rows
        /\ \A r \in DOMAIN rows \ refs : rows'[r] = rows[r]
        /\ mayUpdate(rows, refs) => \A r \in DOMAIN rows \cap refs : rows'[r].state = "POSTED"
        /\ ~mayUpdate(rows, refs) => rows' = rows
    BY Zenon, <1>1, UpdateKeeps DEF LedgerInv
  <1>5. refs # {} /\ \A r \in refs : r \in DOMAIN rows /\ rows[r].state = "PENDING"
    BY Zenon, <1>1 DEF LedgerInv, CreditInv, Every, refsOf
  <1>6. \A q \in Packet : refsOf(rows', q) = refsOf(rows, q)
    BY Zenon, <1>4 DEF refsOf
  <1>7. \A q \in Packet : q # p => Kept(q)
    BY Zenon, <1>4, <1>6 DEF refsOf, Kept
  <1>8. CreditInv(p)'
    <2>1. CASE mayUpdate(rows, refs)
      BY Zenon, <1>2, <1>3, <1>4, <1>5, <1>6, <2>1 DEF CreditInv, At, Every
    <2>2. CASE ~mayUpdate(rows, refs)
      <3>1. \E r \in refs : rows[r].lapsed
        BY Zenon, <1>5, <2>2 DEF mayUpdate
      <3> QED BY Zenon, <1>2, <1>3, <1>4, <1>5, <1>6, <2>2, <3>1 DEF CreditInv, At, Early, Every, lapsed
    <2> QED BY Zenon, <2>1, <2>2
  <1> QED BY Zenon, <1>2, <1>4, <1>7, <1>8, CreditMoves

\* The total received is read after the post.
LEMMA ReadStep ==
    ASSUME LedgerInv, NEW p \in Packet, ReadTotal(p)
    PROVE  LedgerInv'
  <1> DEFINE c == [at |-> "read", from |-> pkt[p].from, amount |-> pkt[p].amount,
                   object |-> pkt[p].object, total |-> total]
  <1>1. pkt' = [pkt EXCEPT ![p] = c] /\ pkt[p].at = "posted" /\ UNCHANGED rows
    BY Zenon DEF ReadTotal
  <1>2. c.at = "read"
    BY Zenon
  <1> HIDE DEF c
  <1>3. pkt'[p] = c
    BY Zenon, <1>1 DEF LedgerInv
  <1>4. refsOf(rows, p) # {} /\ Every(p, "POSTED")
    BY Zenon, <1>1 DEF LedgerInv, CreditInv
  <1>5. CreditInv(p)'
    BY Zenon, <1>1, <1>2, <1>3, <1>4 DEF CreditInv, At, Early, Every
  <1> QED BY Zenon, <1>1, <1>5, SameRows, CreditMoves

\* A withdrawal's transfer has the id of no credit.
LEMMA WithdrawalStep ==
    ASSUME LedgerInv, NEW c \in Caller, EndWithdrawal(c)
    PROVE  LedgerInv'
  <1> DEFINE ts == withdrawal(c, calls[c].event, calls[c].amount, calls[c].timed)
  <1>1. UNCHANGED pkt /\ (rows' = inserted(rows, ts) \/ UNCHANGED rows)
    BY Zenon DEF EndWithdrawal
  <1>2. ASSUME NEW q \in Packet, NEW i \in DOMAIN ts PROVE ts[i].ref[1] # q
    <2>1. ts[i].ref = <<"event", calls[c].event>>
      BY <1>2 DEF withdrawal, createWithdrawal
    <2>2. <<"event", calls[c].event>>[1] = "event"
      BY Zenon
    <2> HIDE DEF ts
    <2> QED BY Zenon, <2>1, <2>2, IdAssumption
  <1> HIDE DEF ts
  <1>3. CASE rows' = inserted(rows, ts)
    <2>1. RowsInv' /\ \A q \in Packet : Kept(q)
      BY Zenon, <1>2, <1>3, InsertKeeps DEF LedgerInv
    <2> QED BY Zenon, <1>1, <2>1, OthersMove
  <1>4. CASE UNCHANGED rows
    BY Zenon, <1>1, <1>4, NothingMoves
  <1> QED BY Zenon, <1>1, <1>3, <1>4

\* A withdrawal is posted or voided.
LEMMA UpdateWithdrawalStep ==
    ASSUME LedgerInv, NEW r \in DOMAIN rows, NEW state \in {"POSTED", "VOIDED"},
           UpdateWithdrawal(r, state)
    PROVE  LedgerInv'
  <1>1. /\ UNCHANGED pkt /\ r[1] = "event"
        /\ rows' = updateTransferState(rows, {r}, state)
    BY Zenon DEF UpdateWithdrawal
  <1>2. /\ RowsInv'
        /\ DOMAIN rows' = DOMAIN rows
        /\ \A s \in DOMAIN rows \ {r} : rows'[s] = rows[s]
    BY Zenon, <1>1, UpdateKeeps DEF LedgerInv
  <1>3. ASSUME NEW q \in Packet PROVE Kept(q)
    <2>1. q # "event"
      BY Zenon, IdAssumption
    <2> QED BY Zenon, <1>1, <1>2, <2>1 DEF Kept, refsOf
  <1> QED BY Zenon, <1>1, <1>2, <1>3, OthersMove

Lapses(r) == rows' = [rows EXCEPT ![r].lapsed = TRUE]

\* A hold expires.
LEMMA LapseStep ==
    ASSUME LedgerInv, NEW r \in DOMAIN rows, HoldLapses(r)
    PROVE  LedgerInv'
  <1>1. UNCHANGED pkt /\ Lapses(r)
    BY Zenon DEF HoldLapses, lapse, Lapses
  <1>2. PICK A : rows[r] \in RowOf(A)
    BY Zenon DEF LedgerInv, RowsInv
  <1>3. PICK d \in RowOf(A) : d = rows[r]
    BY Zenon, <1>2
  <1> DEFINE e == [d EXCEPT !.lapsed = TRUE]
  <1>4. e \in RowOf(A) /\ e.state = d.state /\ e.lapsed = TRUE
    BY Zenon DEF RowOf
  <1>5. rows' = [rows EXCEPT ![r] = [rows[r] EXCEPT !.lapsed = TRUE]]
    BY Zenon, <1>1 DEF Lapses
  <1>6. rows' = [rows EXCEPT ![r] = e]
    BY Zenon, <1>3, <1>5
  <1> HIDE DEF e
  <1>7. /\ DOMAIN rows' = DOMAIN rows /\ rows'[r] = e
        /\ \A s \in DOMAIN rows : s # r => rows'[s] = rows[s]
    BY Zenon, <1>6
  <1>8. RowsInv'
    <2>1. ASSUME NEW s \in DOMAIN rows' PROVE \E B : rows'[s] \in RowOf(B)
      BY Zenon, <1>4, <1>7 DEF LedgerInv, RowsInv
    <2> QED BY Zenon, <2>1 DEF RowsInv
  <1>9. ASSUME NEW q \in Packet PROVE Kept(q)
    BY Zenon, <1>3, <1>4, <1>7 DEF Kept, refsOf
  <1> QED BY Zenon, <1>1, <1>8, <1>9, OthersMove

\* Initially the ledger holds the deposits, and nothing of a credit.
LEMMA InitLedger == Init => LedgerInv
  <1> SUFFICES ASSUME Init PROVE LedgerInv
    BY Zenon
  <1> DEFINE none == [r \in {} |-> Idle]
             ts == << deposit("peer"), deposit("outgoing"), deposit("assetB") >>
  <1>1. Extended(none, ts, rows)
    BY Zenon, Inserted DEF Init
  <1>2. RowsInv
    <2>1. ASSUME NEW r \in DOMAIN rows PROVE \E A : rows[r] \in RowOf(A)
      <3>1. PICK i \in DOMAIN ts : rows[r] = prepareTransfer(ts[i])
        <4>1. r \notin DOMAIN none
          BY Zenon
        <4> HIDE DEF ts, none
        <4> QED BY Zenon, <1>1, <4>1 DEF Extended
      <3> QED BY Zenon, <3>1, Prepared
    <2> QED BY Zenon, <2>1 DEF RowsInv
  <1>3. ASSUME NEW p \in Packet PROVE refsOf(rows, p) = {}
    <2>1. \A a : deposit(a).ref = <<a, 0>>
      BY Zenon DEF deposit, createDeposit
    <2>2. \A i \in DOMAIN ts : ts[i] \in {deposit("peer"), deposit("outgoing"), deposit("assetB")}
      OBVIOUS
    <2>3. DOMAIN none = {}
      BY Zenon
    <2> HIDE DEF ts, none
    <2>4. \A r \in DOMAIN rows : r \in {<<"peer", 0>>, <<"outgoing", 0>>, <<"assetB", 0>>}
      BY Zenon, <1>1, <2>1, <2>2, <2>3 DEF Extended
    <2>5. /\ <<"peer", 0>>[1] = "peer" /\ <<"outgoing", 0>>[1] = "outgoing"
          /\ <<"assetB", 0>>[1] = "assetB"
      BY Zenon
    <2>6. p \notin {"peer", "outgoing", "assetB"}
      BY Zenon, IdAssumption
    <2> QED BY Zenon, <2>4, <2>5, <2>6 DEF refsOf
  <1>4. pkt = [p \in Packet |-> Idle] /\ Idle.at = "idle"
    BY Zenon DEF Init, Idle
  <1>5. \A p \in Packet : CreditInv(p)
    BY Zenon, <1>3, <1>4 DEF CreditInv, At, Early
  <1> QED BY Zenon, <1>2, <1>4, <1>5 DEF LedgerInv

\* Every step keeps the invariant of the ledger.
LEMMA NextLedger == LedgerInv /\ [Next]_vars => LedgerInv'
  <1> SUFFICES ASSUME LedgerInv, [Next]_vars PROVE LedgerInv'
    BY Zenon
  <1>1. ASSUME NEW p \in Packet, Accept(p) \/ Pay(p) PROVE LedgerInv'
    BY Zenon, <1>1, EnterStep DEF Accept, Pay
  <1>2. ASSUME NEW p \in Packet, ValidateCredit(p) PROVE LedgerInv'
    <2>1. CASE Validated(p)
      BY Zenon, <1>2, <2>1, ValidateStep DEF ValidateCredit
    <2>2. CASE fail(p)
      <3>1. PICK at \in {"rejected", "failed"} : pkt' = [pkt EXCEPT ![p] = ended(p, at)]
        BY Zenon, <2>2 DEF fail
      <3>2. UNCHANGED rows /\ pkt[p].at = "checked"
        BY Zenon, <1>2 DEF ValidateCredit
      <3> QED BY Zenon, <3>1, <3>2, EndStep
    <2> QED BY Zenon, <1>2, <2>1, <2>2 DEF ValidateCredit, Validated
  <1>3. ASSUME NEW p \in Packet, OnCredit(p) PROVE LedgerInv'
    <2>1. PICK at \in {"fulfilled", "paid"} : pkt' = [pkt EXCEPT ![p] = ended(p, at)]
      BY Zenon, <1>3 DEF OnCredit
    <2>2. UNCHANGED rows /\ pkt[p].at = "read"
      BY Zenon, <1>3 DEF OnCredit
    <2> QED BY Zenon, <2>1, <2>2, EndStep
  <1>4. ASSUME NEW p \in Packet, Die(p) PROVE LedgerInv'
    BY Zenon, <1>4, EndStep DEF Die
  <1>5. ASSUME NEW p \in Packet, CreditStep(p) PROVE LedgerInv'
    BY Zenon, <1>1, <1>2, <1>3, <1>5, HoldStep, PostStep, ReadStep DEF CreditStep
  <1>6. CASE CacheExpires \/ Due \/ completeIncomingPayment \/ WorkerStep \/ WorkerDies
    BY Zenon, <1>6, NothingMoves DEF CacheExpires, Due, completeIncomingPayment, WorkerStep, WorkerDies,
       ProcessNext, handleExpired, handleDeactivated, createWithdrawalEvent
  <1>7. ASSUME NEW e \in DOMAIN events, NEW known, NEW done, sendWebhook(e, known, done)
        PROVE  LedgerInv'
    BY Zenon, <1>7, NothingMoves DEF sendWebhook
  <1>8. ASSUME NEW c \in Caller,
               \/ \E e \in DOMAIN events : withdrawEventLiquidity(c, e)
               \/ createIncomingPaymentWithdrawal(c) \/ createWalletAddressWithdrawal(c)
        PROVE  LedgerInv'
    BY Zenon, <1>8, NothingMoves DEF withdrawEventLiquidity, createIncomingPaymentWithdrawal,
       createWalletAddressWithdrawal, BeginWithdrawal
  <1>9. CASE UNCHANGED vars
    BY Zenon, <1>9, NothingMoves DEF vars
  <1> QED BY Zenon, <1>4, <1>5, <1>6, <1>7, <1>8, <1>9, WithdrawalStep, UpdateWithdrawalStep, LapseStep
          DEF Next

\* The inductive invariant of the credits and the ledger.
THEOREM LedgerInvariant == Spec => []LedgerInv
  BY InitLedger, NextLedger, PTL DEF Spec

\* Whatever a payer is told of its credit - fulfilled or rejected by the ILP connector, paid
\* or failed by the local payment method - is what both of its transfers say, except for a
\* hold that had expired when the balance middleware posted it.
THEOREM AnswerMatchesLedgerAlways == Spec => []AnswerMatchesLedger
  <1>1. LedgerInv => AnswerMatchesLedger
    <2> SUFFICES ASSUME LedgerInv, NEW p \in Packet
                 PROVE  /\ \A r, q \in refsOf(rows, p) : rows[r].state = rows[q].state
                        /\ pkt[p].at \in {"rejected", "failed"} =>
                               \A r \in refsOf(rows, p) : ~Posted(rows[r])
                        /\ pkt[p].at = "paid" => posted(p)
                        /\ pkt[p].at = "fulfilled" => posted(p) \/ lapsed(p)
      BY Zenon DEF AnswerMatchesLedger
    <2>1. CreditInv(p)
      BY Zenon DEF LedgerInv
    <2>2. \/ refsOf(rows, p) = {}
          \/ Every(p, "PENDING")
          \/ Every(p, "POSTED")
      BY Zenon, <2>1 DEF CreditInv, At
    <2>3. \A r, q \in refsOf(rows, p) : rows[r].state = rows[q].state
      BY Zenon, <2>2 DEF Every
    <2>4. pkt[p].at \in {"rejected", "failed"} => \A r \in refsOf(rows, p) : ~Posted(rows[r])
      BY Zenon, <2>1 DEF CreditInv, Every, Posted
    <2>5. refsOf(rows, p) # {} /\ Every(p, "POSTED") => posted(p)
      BY Zenon DEF Every, Posted, posted
    <2> QED BY Zenon, <2>1, <2>3, <2>4, <2>5 DEF CreditInv
  <1> QED BY <1>1, LedgerInvariant, PTL

\* The incoming payment and its event.

\* The destination as it is created.
LEMMA InitFinal == Init => FinalInv
  <1> SUFFICES ASSUME Init PROVE FinalInv
    BY Zenon
  <1>1. CASE dest = [kind |-> "wallet", totalEvents |-> 0, processAt |-> "null"]
    <2>1. dest \in WalletOf({0})
      BY Zenon, <1>1 DEF WalletOf, When
    <2> QED BY Zenon, <2>1 DEF FinalInv
  <1>2. CASE dest = [kind |-> "payment", state |-> "PENDING", processAt |-> "later"]
    <2>1. dest \in PaymentRow /\ dest.processAt = "later"
      BY Zenon, <1>2 DEF PaymentRow, Status, When, Open
    <2>2. events \in Seq({}) /\ Len(events) = 0
      BY DEF Init
    <2> QED BY <2>1, <2>2 DEF FinalInv, PaymentInv
  <1> QED BY Zenon, <1>1, <1>2 DEF Init

\* The wallet address stays one.
LEMMA WalletChanges ==
    ASSUME NEW T, NEW d \in WalletOf(T), NEW n, NEW w \in When
    PROVE  /\ [d EXCEPT !.processAt = w] \in WalletOf(T)
           /\ [d EXCEPT !.totalEvents = n, !.processAt = w] \in WalletOf(T \cup {n})
  <1>1. [d EXCEPT !.processAt = w] \in WalletOf(T)
    BY Zenon DEF WalletOf
  <1> DEFINE e == [d EXCEPT !.totalEvents = n]
  <1>2. e \in WalletOf(T \cup {n})
    BY Zenon DEF WalletOf
  <1>3. [d EXCEPT !.totalEvents = n, !.processAt = w] = [e EXCEPT !.processAt = w]
    BY Zenon
  <1> HIDE DEF e
  <1>4. [e EXCEPT !.processAt = w] \in WalletOf(T \cup {n})
    BY Zenon, <1>2 DEF WalletOf
  <1> QED BY Zenon, <1>1, <1>3, <1>4

\* What a payment may become.
LEMMA PaymentScheduled ==
    ASSUME NEW d \in PaymentRow, NEW w \in When
    PROVE  /\ [d EXCEPT !.processAt = w] \in PaymentRow
           /\ [d EXCEPT !.processAt = w].processAt = w
           /\ [d EXCEPT !.processAt = w].state = d.state
  BY Zenon DEF PaymentRow

\* A payment changes its state.
LEMMA PaymentTurned ==
    ASSUME NEW d \in PaymentRow, NEW s \in Status
    PROVE  /\ [d EXCEPT !.state = s] \in PaymentRow
           /\ [d EXCEPT !.state = s].processAt = d.processAt
           /\ [d EXCEPT !.state = s].state = s
  BY Zenon DEF PaymentRow

\* A payment changes its state and its schedule.
LEMMA PaymentTurnedAt ==
    ASSUME NEW d \in PaymentRow, NEW s \in Status,
           NEW w \in When
    PROVE  /\ TurnedAt(d, s, w) \in PaymentRow
           /\ TurnedAt(d, s, w).processAt = w
           /\ TurnedAt(d, s, w).state = s
  <1> DEFINE e == [d EXCEPT !.state = s]
  <1>1. e \in PaymentRow /\ e.state = s
    BY Zenon, PaymentTurned
  <1>2. TurnedAt(d, s, w) = [e EXCEPT !.processAt = w]
    BY Zenon DEF TurnedAt
  <1> HIDE DEF e
  <1> QED BY <1>1, <1>2, PaymentScheduled

\* Next, by what it does to them.
LEMMA NextCases ==
    ASSUME [Next]_vars
    PROVE  DestCases
  <1>1. CASE UNCHANGED vars
    BY Zenon, <1>1 DEF vars, Elsewhere, DestCases
  <1>2. ASSUME NEW p \in Packet, CreditStep(p) \/ Die(p) PROVE Elsewhere \/ OnCredit(p)
    BY Zenon, <1>2 DEF CreditStep, Elsewhere, Accept, Pay, ValidateCredit, HoldCredit, Post,
          ReadTotal, Die
  <1>3. CacheExpires => Elsewhere
    BY Zenon DEF CacheExpires, Elsewhere
  <1>4. ASSUME NEW c \in Caller,
               \/ \E e \in DOMAIN events : withdrawEventLiquidity(c, e)
               \/ createIncomingPaymentWithdrawal(c) \/ createWalletAddressWithdrawal(c)
               \/ EndWithdrawal(c)
        PROVE  Elsewhere
    BY Zenon, <1>4 DEF Elsewhere, EndWithdrawal, withdrawEventLiquidity, BeginWithdrawal,
       createIncomingPaymentWithdrawal, createWalletAddressWithdrawal
  <1>5. ASSUME NEW r,
               UpdateWithdrawal(r, "POSTED") \/ UpdateWithdrawal(r, "VOIDED") \/ HoldLapses(r)
        PROVE  Elsewhere
    BY Zenon, <1>5 DEF Elsewhere, UpdateWithdrawal, HoldLapses
  <1> QED BY Zenon, <1>1, <1>2, <1>3, <1>4, <1>5 DEF Next, WorkerStep, DestCases

\* No step makes an incoming payment of a wallet address.
LEMMA WalletStep ==
    ASSUME NEW T, dest \in WalletOf(T), [Next]_vars
    PROVE  ~isPayment /\ dest' \in WalletOf(IF locked THEN T \cup {worker.total} ELSE T)
  <1> DEFINE U == IF locked THEN T \cup {worker.total} ELSE T
  <1>1. ~isPayment
    BY Zenon DEF isPayment, WalletOf
  <1>2. PICK d \in WalletOf(T) : d = dest
    BY Zenon
  <1>3. \A e \in WalletOf(T) : e \in WalletOf(U)
    BY Zenon DEF WalletOf
  <1>4. ASSUME NEW w \in When, Scheduled(w) PROVE dest' \in WalletOf(U)
    <2>1. dest' = [d EXCEPT !.processAt = w]
      BY Zenon, <1>2, <1>4 DEF Scheduled
    <2> QED BY Zenon, <1>3, <2>1, WalletChanges
  <1>5. ASSUME locked, Announced(worker.total) PROVE dest' \in WalletOf(U)
    <2>1. dest' = [d EXCEPT !.totalEvents = worker.total, !.processAt = "null"]
      BY Zenon, <1>2, <1>5 DEF Announced
    <2>2. "null" \in When
      BY Zenon DEF When
    <2>3. U = T \cup {worker.total}
      BY Zenon, <1>5
    <2> QED BY Zenon, <2>1, <2>2, <2>3, WalletChanges
  <1>6. ASSUME NEW p \in Packet, OnCredit(p)
        PROVE  UNCHANGED dest \/ \E w \in When : Scheduled(w)
    BY Zenon, <1>1, <1>6 DEF OnCredit, creditedWallet, Scheduled, When
  <1>7. Due => \E w \in When : Scheduled(w)
    BY Zenon DEF Due, Scheduled, When
  <1>8. createWithdrawalEvent => (locked /\ Announced(worker.total)) \/ \E w \in When : Scheduled(w)
    BY Zenon DEF createWithdrawalEvent, Announced, Scheduled, When
  <1>9. ProcessNext \/ WorkerDies => UNCHANGED dest
    BY Zenon DEF ProcessNext, WorkerDies
  <1>10. ASSUME NEW e, NEW known, NEW done, sendWebhook(e, known, done) PROVE UNCHANGED dest
    BY Zenon, <1>10 DEF sendWebhook
  <1>11. ~completeIncomingPayment /\ ~handleExpired /\ ~handleDeactivated
    BY Zenon, <1>1 DEF completeIncomingPayment, handleExpired, handleDeactivated
  <1>12. Elsewhere => UNCHANGED dest
    BY Zenon DEF Elsewhere
  <1>13. UNCHANGED dest => dest' \in WalletOf(U)
    BY Zenon, <1>3
  <1> HIDE DEF U
  <1>14. dest' \in WalletOf(U)
    BY Zenon, <1>4, <1>5, <1>6, <1>7, <1>8, <1>9, <1>10, <1>11, <1>12, <1>13, NextCases DEF DestCases
  <1> QED BY Zenon, <1>1, <1>14 DEF U

\* The events of a step: unchanged, one more, or one of them sent again.
LEMMA OneMore ==
    ASSUME NEW x, events' = Append(events, x), \E S : events \in Seq(S), Len(events) = 0
    PROVE  (\E S : events' \in Seq(S)) /\ Len(events') = 1
  <1>1. PICK S : events \in Seq(S)
    BY Zenon
  <1>2. events = << >>
    BY Zenon, <1>1, SeqIs
  <1>3. events' = <<x>>
    BY <1>2
  <1>4. <<x>> \in Seq({x}) /\ Len(<<x>>) = 1
    OBVIOUS
  <1> QED BY Zenon, <1>3, <1>4

\* A webhook is sent: there are as many events as before.
LEMMA SentAgain ==
    ASSUME NEW e \in DOMAIN events, NEW known, NEW done, sendWebhook(e, known, done),
           \E S : events \in Seq(S)
    PROVE  (\E S : events' \in Seq(S)) /\ Len(events') = Len(events)
  <1>1. PICK x : events' = [events EXCEPT ![e] = x]
    <2> DEFINE x == [events[e] EXCEPT !.attempts = @ + 1, !.known = @ \/ known, !.done = done]
    <2>1. events' = [events EXCEPT ![e] = x]
      BY Zenon DEF sendWebhook
    <2> HIDE DEF x
    <2> QED BY Zenon, <2>1
  <1>2. PICK S : events \in Seq(S)
    BY Zenon
  <1>3. events \in Seq(S \cup {x})
    BY <1>2
  <1>4. DOMAIN events = 1..Len(events)
    BY Zenon, <1>2, SeqIs
  <1>5. events' \in Seq(S \cup {x}) /\ Len(events') = Len(events)
    BY <1>1, <1>3, <1>4, SeqEdited
  <1> QED BY Zenon, <1>5

\* Every step keeps the invariant of an incoming payment, and is final for it.
LEMMA PaymentStep ==
    ASSUME PaymentInv, [Next]_vars
    PROVE  PaymentInv' /\ Final
  <1>1. isPayment
    BY Zenon DEF PaymentInv, isPayment, PaymentRow
  <1>2. PICK d \in PaymentRow : d = dest
    BY Zenon DEF PaymentInv
  <1>3. /\ \E S : events \in Seq(S)
        /\ Len(events) <= 1
        /\ d.processAt # "null" => Len(events) = 0
        /\ d.state \in Open => d.processAt # "null"
        /\ locked => d.processAt # "null"
    BY Zenon, <1>2 DEF PaymentInv
  <1>4. /\ "null" \in When /\ "now" \in When
        /\ "PROCESSING" \in Status /\ "COMPLETED" \in Status
        /\ "EXPIRED" \in Status /\ "DELETED" \in Status
    BY Zenon DEF When, Status, Open, Deactivated
  <1>t. ASSUME NEW s \in Status, NEW w \in When, dest' = TurnedAt(d, s, w)
         PROVE  dest' \in PaymentRow /\ dest'.processAt = w /\ dest'.state = s
    <2>1. PICK c : c = TurnedAt(d, s, w)
      BY Zenon
    <2>2. c \in PaymentRow /\ c.processAt = w /\ c.state = s
      BY <2>1, PaymentTurnedAt
    <2>3. dest' = c
      BY Zenon, <1>t, <2>1
    <2> QED BY Zenon, <2>2, <2>3
  <1>5. CASE Elsewhere
    BY Zenon, <1>5 DEF Elsewhere, PaymentInv, Final, locked
  <1>6. CASE ProcessNext \/ WorkerDies
    BY <1>6 DEF ProcessNext, WorkerDies, PaymentInv, Final, locked
  <1>7. ASSUME NEW e \in DOMAIN events, NEW known, NEW done, sendWebhook(e, known, done)
        PROVE  PaymentInv' /\ Final
    <2>1. UNCHANGED <<dest, worker>>
      BY Zenon, <1>7 DEF sendWebhook
    <2>2. (\E S : events' \in Seq(S)) /\ Len(events') = Len(events)
      BY Zenon, <1>3, <1>7, SentAgain
    <2> QED BY Zenon, <2>1, <2>2 DEF PaymentInv, Final, locked
  <1>8. CASE Due
    <2>1. dest' = [d EXCEPT !.processAt = "now"] /\ UNCHANGED <<worker, events>>
          /\ d.processAt = "later"
      BY Zenon, <1>2, <1>8 DEF Due
    <2>2. dest' \in PaymentRow /\ dest'.processAt = "now" /\ dest'.state = d.state
      BY Zenon, <1>4, <2>1, PaymentScheduled
    <2> QED BY Zenon, <1>2, <1>3, <2>1, <2>2 DEF PaymentInv, Final
  <1>9. ASSUME dest' = TurnedAt(d, "COMPLETED", "now"),
               d.state \in Open, UNCHANGED <<worker, events>>
        PROVE  PaymentInv' /\ Final
    <2>1. dest' \in PaymentRow /\ dest'.processAt = "now" /\ dest'.state = "COMPLETED"
      BY Zenon, <1>4, <1>9, <1>t
    <2> QED BY Zenon, <1>2, <1>3, <1>9, <2>1 DEF PaymentInv, Final
  <1>10. CASE completeIncomingPayment
    BY Zenon, <1>2, <1>9, <1>10 DEF completeIncomingPayment, TurnedAt
  <1>11. ASSUME NEW p \in Packet, OnCredit(p) PROVE PaymentInv' /\ Final
    <2>1. /\ UNCHANGED <<worker, events>>
          /\ \/ UNCHANGED dest
             \/ d.state \in Open /\ dest' = TurnedAt(d, "COMPLETED", "now")
             \/ d.state \in Open /\ dest' = [d EXCEPT !.state = "PROCESSING"]
      BY Zenon, <1>1, <1>2, <1>11 DEF OnCredit, creditedPayment, TurnedAt
    <2>2. CASE UNCHANGED dest
      BY Zenon, <2>1, <2>2 DEF PaymentInv, Final, locked
    <2>3. CASE d.state \in Open /\ dest' = [d EXCEPT !.state = "PROCESSING"]
      <3>1. dest' \in PaymentRow /\ dest'.processAt = d.processAt /\ dest'.state = "PROCESSING"
        BY Zenon, <1>4, <2>3, PaymentTurned
      <3> QED BY Zenon, <1>2, <1>3, <2>1, <2>3, <3>1 DEF PaymentInv, Final, locked
    <2> QED BY Zenon, <1>9, <2>1, <2>2, <2>3
  <1>12. CASE handleExpired
    <2>1. /\ UNCHANGED events /\ ~locked' /\ d.state \in Open
          /\ \/ dest' = [d EXCEPT !.state = "EXPIRED"]
             \/ dest' = TurnedAt(d, "DELETED", "null")
      BY Zenon, <1>2, <1>12 DEF handleExpired, locked, TurnedAt
    <2>2. CASE dest' = [d EXCEPT !.state = "EXPIRED"]
      <3>1. dest' \in PaymentRow /\ dest'.processAt = d.processAt /\ dest'.state = "EXPIRED"
        BY Zenon, <1>4, <2>2, PaymentTurned
      <3> QED BY Zenon, <1>2, <1>3, <2>1, <3>1 DEF PaymentInv, Final, Open
    <2>3. CASE dest' = TurnedAt(d, "DELETED", "null")
      <3>1. dest' \in PaymentRow /\ dest'.processAt = "null" /\ dest'.state = "DELETED"
        BY Zenon, <1>4, <1>t, <2>3
      <3> QED BY Zenon, <1>2, <1>3, <2>1, <3>1 DEF PaymentInv, Final, Open
    <2> QED BY Zenon, <2>1, <2>2, <2>3
  <1>13. CASE handleDeactivated
    <2>1. /\ dest' = [d EXCEPT !.processAt = "null"] /\ ~locked' /\ d.state \in Deactivated
          /\ locked
          /\ UNCHANGED events \/ announce(worker.total)
      BY Zenon, <1>2, <1>13 DEF handleDeactivated, locked
    <2>2. dest' \in PaymentRow /\ dest'.processAt = "null" /\ dest'.state = d.state
      BY Zenon, <1>4, <2>1, PaymentScheduled
    <2>3. Len(events) = 0
      BY Zenon, <1>3, <2>1
    <2>4. (\E S : events' \in Seq(S)) /\ Len(events') <= 1
      <3>1. CASE UNCHANGED events
        BY Zenon, <1>3, <3>1
      <3>2. CASE announce(worker.total)
        <4>1. PICK x : events' = Append(events, x)
          BY Zenon, <3>2 DEF announce
        <4>2. (\E S : events' \in Seq(S)) /\ Len(events') = 1
          BY Zenon, <1>3, <2>3, <4>1, OneMore
        <4> QED BY <4>2
      <3> QED BY Zenon, <2>1, <3>1, <3>2
    <2>5. d.state \notin Open
      BY Zenon, <2>1 DEF Deactivated, Open
    <2> QED BY Zenon, <1>2, <2>1, <2>2, <2>4, <2>5 DEF PaymentInv, Final
  <1>14. ~createWithdrawalEvent
    BY Zenon, <1>1 DEF createWithdrawalEvent
  <1> QED BY Zenon, <1>5, <1>6, <1>7, <1>8, <1>10, <1>11, <1>12, <1>13, <1>14, NextCases DEF DestCases

\* Every step keeps the destination's invariant.
LEMMA NextFinal == FinalInv /\ [Next]_vars => FinalInv' /\ Final
  <1> SUFFICES ASSUME FinalInv, [Next]_vars PROVE FinalInv' /\ Final
    BY Zenon
  <1>1. ASSUME NEW T, dest \in WalletOf(T) PROVE FinalInv' /\ Final
    BY Zenon, <1>1, WalletStep DEF FinalInv, Final
  <1>2. CASE PaymentInv
    BY Zenon, <1>2, PaymentStep DEF FinalInv
  <1> QED BY Zenon, <1>1, <1>2 DEF FinalInv

\* However late a credit is reported (IncomingPayment.onCredit) and however often a worker
\* fails and tries again, a completed, expired or deleted incoming payment keeps its state
\* and never gets a second withdrawal event.
THEOREM DeactivatedIsFinalAlways == Spec => DeactivatedIsFinal
  <1>1. FinalInv /\ [Next]_vars => [Final]_vars
    BY Zenon, NextFinal
  <1> QED BY <1>1, InitFinal, NextFinal, PTL DEF Spec, DeactivatedIsFinal, Final

\* Balances.

\* The row of a transfer.
LEMMA PreparedRow ==
    ASSUME NEW t \in Transfer
    PROVE  /\ prepareTransfer(t) \in Row
           /\ prepareTransfer(t).debit = t.debit /\ prepareTransfer(t).credit = t.credit
           /\ prepareTransfer(t).amount = t.amount
           /\ prepareTransfer(t).state = IF t.timed THEN "PENDING" ELSE "POSTED"
           /\ prepareTransfer(t).lapsed = FALSE
  BY DEF Transfer, prepareTransfer, Row

\* Inserting no transfer, one, or one after the other.
LEMMA InsertedOne ==
    ASSUME NEW s, NEW t \in Transfer, t.ref \notin DOMAIN s
    PROVE  /\ DOMAIN inserted(s, <<t>>) = DOMAIN s \cup {t.ref}
           /\ inserted(s, <<t>>)[t.ref] = prepareTransfer(t)
           /\ \A r \in DOMAIN s : inserted(s, <<t>>)[r] = s[r]
  <1>1. DOMAIN <<t>> = {1} /\ <<t>>[1] = t
    OBVIOUS
  <1>2. Extended(s, <<t>>, inserted(s, <<t>>))
    BY Zenon, Inserted
  <1> QED BY <1>1, <1>2 DEF Extended

\* The table is a function.
LEMMA InsertedFunction ==
    ASSUME NEW s, NEW ts
    PROVE  inserted(s, ts) = [r \in DOMAIN inserted(s, ts) |-> inserted(s, ts)[r]]
  <1> DEFINE e(r) == IF r \in DOMAIN s THEN s[r]
                     ELSE prepareTransfer(ts[CHOOSE i \in DOMAIN ts : ts[i].ref = r])
             D == DOMAIN s \cup {ts[i].ref : i \in DOMAIN ts}
  <1>1. inserted(s, ts) = [r \in D |-> e(r)]
    BY Zenon DEF inserted
  <1> HIDE DEF e, D
  <1> QED BY Zenon, <1>1

\* No transfer changes nothing.
LEMMA InsertedNone ==
    ASSUME NEW D, NEW R, NEW s \in [D -> R]
    PROVE  inserted(s, << >>) = s
  <1>1. DOMAIN << >> = {}
    OBVIOUS
  <1>2. inserted(s, << >>) = [r \in DOMAIN s |-> s[r]]
    BY Zenon, <1>1 DEF inserted
  <1> QED BY Zenon, <1>2

\* Two transfers of one transaction are inserted one after the other.
LEMMA InsertedBoth ==
    ASSUME NEW s, NEW t \in Transfer, NEW u \in Transfer, t.ref # u.ref,
           t.ref \notin DOMAIN s, u.ref \notin DOMAIN s
    PROVE  inserted(s, <<t, u>>) = inserted(inserted(s, <<t>>), <<u>>)
  <1> DEFINE w == inserted(s, <<t>>)
             v == inserted(w, <<u>>)
             b == inserted(s, <<t, u>>)
  <1>1. DOMAIN <<t, u>> = {1, 2} /\ <<t, u>>[1] = t /\ <<t, u>>[2] = u
    OBVIOUS
  <1>2. /\ DOMAIN w = DOMAIN s \cup {t.ref} /\ w[t.ref] = prepareTransfer(t)
        /\ \A r \in DOMAIN s : w[r] = s[r]
    BY Zenon, InsertedOne
  <1>3. /\ DOMAIN v = DOMAIN w \cup {u.ref} /\ v[u.ref] = prepareTransfer(u)
        /\ \A r \in DOMAIN w : v[r] = w[r]
    BY Zenon, <1>2, InsertedOne
  <1>4. Extended(s, <<t, u>>, b)
    BY Zenon, Inserted
  <1>5. DOMAIN b = DOMAIN s \cup {t.ref, u.ref}
    BY <1>1, <1>4 DEF Extended
  <1>6. b[t.ref] = prepareTransfer(t) /\ b[u.ref] = prepareTransfer(u)
        /\ \A r \in DOMAIN s : b[r] = s[r]
    BY <1>1, <1>4, <1>5 DEF Extended
  <1>7. b = [r \in DOMAIN b |-> b[r]] /\ v = [r \in DOMAIN v |-> v[r]]
    BY Zenon, InsertedFunction
  <1> HIDE DEF w, v, b
  <1>8. DOMAIN b = DOMAIN v /\ \A r \in DOMAIN b : b[r] = v[r]
    BY Zenon, <1>2, <1>3, <1>5, <1>6
  <1>9. b = v
    BY Zenon, <1>7, <1>8
  <1> QED BY Zenon, <1>9 DEF b, v, w

\* What the record of a credit is, by how far the credit has come.
LEMMA CreditAt ==
    ASSUME CreditsType, NEW p \in Packet
    PROVE  CreditIs(p)
  <1>1. pkt[p] \in CreditState /\ DOMAIN pkt = Packet
    BY Zenon DEF CreditsType, CreditState
  <1>2. \A c \in InFlight : c.at \in Early /\ c.amount \in Nat /\ c.from \in Payers
    BY Zenon DEF InFlight, Early
  <1>3. \A c \in Credited : c.at = "read" /\ c.amount \in Nat /\ c.from \in Payers
    BY Zenon DEF Credited
  <1>4. \A c \in Over : c.at \in {"fulfilled", "rejected", "paid", "failed", "dead"}
                        /\ c.amount \in Nat /\ c.from \in Payers
    BY Zenon DEF Over
  <1>5. Idle.at = "idle"
    BY Zenon DEF Idle
  <1> QED BY Zenon, <1>1, <1>2, <1>3, <1>4, <1>5 DEF CreditState, Early, At, CreditIs

\* The record of a credit that is over.
LEMMA EndedType ==
    ASSUME CreditsType, NEW p \in Packet, pkt[p] # Idle,
           NEW at \in {"fulfilled", "rejected", "paid", "failed", "dead"}
    PROVE  /\ ended(p, at) \in Over /\ ended(p, at).at = at
           /\ ended(p, at).amount = pkt[p].amount /\ ended(p, at).from = pkt[p].from
  BY Zenon, CreditAt DEF ended, Over, CreditIs

\* A credit in flight that moves on.
LEMMA InFlightMoves ==
    ASSUME NEW c \in InFlight, NEW at \in Early
    PROVE  /\ [c EXCEPT !.at = at] \in InFlight /\ [c EXCEPT !.at = at].at = at
           /\ [c EXCEPT !.at = at].amount = c.amount /\ [c EXCEPT !.at = at].from = c.from
  BY Zenon DEF InFlight, Early

\* The transfers of a credit: one to the destination, or one to the payer's asset and one from
\* the destination's.
TransfersAre(p, ts) ==
    \E t, u \in Transfer :
        /\ ts = <<t>> \/ (ts = <<t, u>> /\ t.credit # Liquidity("dest"))
        /\ t.ref = <<p, 1>> /\ u.ref = <<p, 2>>
        /\ t.amount = pkt[p].amount /\ u.amount = pkt[p].amount
        /\ t.timed = TRUE /\ u.timed = TRUE
        /\ t.debit # Liquidity("dest") /\ u.debit # Liquidity("dest")

\* References and their accounts.
LEMMA Accounts ==
    /\ \A ref \in Refs : /\ Liquidity(ref) \in Account /\ Settlement(ref) \in Account
                         /\ AssetOf[ref] \in {"assetA", "assetB"} /\ AssetOf[ref] \in Refs
    /\ \A ref : (Liquidity(ref) = Liquidity("dest")) <=> (ref = "dest")
    /\ \A ref : Settlement(ref) # Liquidity("dest")
  <1>1. DOMAIN AssetOf = Refs /\ {"assetA", "assetB"} \subseteq Refs
    BY Zenon, AssetAssumption DEF Refs
  <1>2. \A ref \in Refs : Liquidity(ref) \in Account /\ Settlement(ref) \in Account
    BY Zenon, <1>1 DEF Account, Liquidity, Settlement
  <1>3. \A ref \in Refs : AssetOf[ref] \in {"assetA", "assetB"}
    BY Zenon, AssetAssumption
  <1>4. \A ref : (Liquidity(ref) = Liquidity("dest")) <=> (ref = "dest")
    BY Zenon DEF Liquidity
  <1>5. \A ref : Settlement(ref) # Liquidity("dest")
    BY Zenon DEF Liquidity, Settlement
  <1> QED BY Zenon, <1>1, <1>2, <1>3, <1>4, <1>5

IsLeg(t, ref, from, to, amount) ==
    /\ t \in Transfer /\ t.ref = ref /\ t.debit = Liquidity(from) /\ t.credit = Liquidity(to)
    /\ t.amount = amount /\ t.timed = TRUE

\* createAccountToAccountTransfer makes transfers of their type.
LEMMA LegType ==
    ASSUME NEW p \in Packet, NEW n \in {1, 2}, NEW from \in Refs, NEW to \in Refs, NEW amount \in Nat
    PROVE  IsLeg(leg(<<p, n>>, from, to, amount), <<p, n>>, from, to, amount)
  <1>1. Liquidity(from) \in Account /\ Liquidity(to) \in Account
    BY Zenon, Accounts
  <1>2. <<p, n>> \in {<<x, i>> : x \in Packet \cup {"event", "peer", "outgoing", "assetB"}, i \in Nat}
    OBVIOUS
  <1> QED BY <1>1, <1>2 DEF leg, Transfer, IsLeg

\* The transfers buildTransfers makes for a credit.
LEMMA CreditTransfers ==
    ASSUME NEW p \in Packet, pkt[p] \in InFlight
    PROVE  TransfersAre(p, transfersOf(p))
  <1> DEFINE from == pkt[p].from
             m == pkt[p].amount
             A == AssetOf[from]
             B == AssetOf["dest"]
  <1>1. from \in Payers /\ m \in Nat
    BY Zenon DEF InFlight
  <1>2. from \in Refs /\ "dest" \in Refs /\ from # "dest"
    BY Zenon, <1>1 DEF Payers, Refs
  <1>3. A \in Refs /\ B \in Refs /\ A # "dest" /\ B # "dest"
    BY Zenon, <1>2, Accounts
  <1>4. transfersOf(p) = buildTransfers(p, from, "dest", m, m)
    BY Zenon DEF transfersOf
  <1>5. buildTransfers(p, from, "dest", m, m) =
            IF A = B THEN << leg(<<p, 1>>, from, "dest", m) >>
            ELSE << leg(<<p, 1>>, from, A, m), leg(<<p, 2>>, B, "dest", m) >>
    <2>1. ~(m < m) /\ (IF m < m THEN m ELSE m) = m
      BY <1>1
    <2> HIDE DEF from, m
    <2> QED BY Zenon, <2>1 DEF buildTransfers, buildSameAssetTransfers, buildCrossAssetTransfers
  <1> HIDE DEF from, m, A, B
  <1>6. CASE A = B
    <2> DEFINE t == leg(<<p, 1>>, from, "dest", m)
               u == leg(<<p, 2>>, from, "dest", m)
    <2>1. IsLeg(t, <<p, 1>>, from, "dest", m) /\ IsLeg(u, <<p, 2>>, from, "dest", m)
      BY Zenon, <1>1, <1>2, LegType
    <2>2. transfersOf(p) = <<t>>
      BY Zenon, <1>4, <1>5, <1>6
    <2> HIDE DEF t, u
    <2>3. t.debit # Liquidity("dest") /\ u.debit # Liquidity("dest")
      BY Zenon, <1>2, <2>1, Accounts DEF IsLeg
    <2> QED BY Zenon, <2>1, <2>2, <2>3 DEF TransfersAre, IsLeg, m
  <1>7. CASE A # B
    <2> DEFINE t == leg(<<p, 1>>, from, A, m)
               u == leg(<<p, 2>>, B, "dest", m)
    <2>1. IsLeg(t, <<p, 1>>, from, A, m) /\ IsLeg(u, <<p, 2>>, B, "dest", m)
      BY Zenon, <1>1, <1>2, <1>3, LegType
    <2>2. transfersOf(p) = <<t, u>>
      BY Zenon, <1>4, <1>5, <1>7
    <2> HIDE DEF t, u
    <2>3. t.debit # Liquidity("dest") /\ u.debit # Liquidity("dest") /\ t.credit # Liquidity("dest")
      BY Zenon, <1>2, <1>3, <2>1, Accounts DEF IsLeg
    <2> QED BY Zenon, <2>1, <2>2, <2>3 DEF TransfersAre, IsLeg, m
  <1> QED BY Zenon, <1>6, <1>7

\* What a step does to a credit.

\* The record of a credit is of its type.
LEMMA CreditRecordType ==
    ASSUME NEW c \in InFlight \cup Credited \cup Over
    PROVE  c \in CreditState /\ c # Idle /\ c.amount \in Nat /\ c.from \in Payers
  <1>1. Idle.at = "idle"
    BY Zenon DEF Idle
  <1>2. c.at # "idle"
    BY Zenon DEF InFlight, Credited, Over
  <1>3. c.amount \in Nat /\ c.from \in Payers
    BY Zenon DEF InFlight, Credited, Over
  <1> QED BY Zenon, <1>1, <1>2, <1>3 DEF CreditState

\* A credit gets a new record.
LEMMA CreditGoes ==
    ASSUME CreditsType, NEW p \in Packet, NEW c \in InFlight \cup Credited \cup Over,
           pkt' = [pkt EXCEPT ![p] = c],
           pkt[p] # Idle => c.from = pkt[p].from /\ c.amount = pkt[p].amount
    PROVE  CreditTo(p, c.at) /\ pkt'[p] = c
  <1>1. c \in CreditState /\ c # Idle /\ c.amount \in Nat /\ c.from \in Payers
    BY Zenon, CreditRecordType
  <1>2. pkt \in [Packet -> CreditState]
    BY Zenon DEF CreditsType, CreditState
  <1> QED BY Zenon, <1>1, <1>2 DEF CreditTo

\* A credit enters.
LEMMA CreditEnters ==
    ASSUME CreditsType, NEW p \in Packet, pkt[p] = Idle, NEW from \in Payers, NEW amount \in Nat,
           cached' \in Nat, entered(p, from, amount)
    PROVE  /\ mayCredit => CreditTo(p, "checked")
           /\ ~mayCredit => CreditTo(p, IF from = "peer" THEN "rejected" ELSE "failed")
           /\ pkt'[p].from = from /\ pkt'[p].amount = amount
  <1>1. CASE mayCredit
    <2> DEFINE c == [at |-> "checked", from |-> from, amount |-> amount, object |-> cached']
    <2>1. c \in InFlight /\ c.at = "checked" /\ c.from = from /\ c.amount = amount
      BY Zenon DEF InFlight
    <2>2. pkt' = [pkt EXCEPT ![p] = c]
      BY Zenon, <1>1 DEF entered
    <2> HIDE DEF c
    <2> QED BY Zenon, <1>1, <2>1, <2>2, CreditGoes
  <1>2. CASE ~mayCredit
    <2> DEFINE v == IF from = "peer" THEN "rejected" ELSE "failed"
               c == [at |-> v, from |-> from, amount |-> amount]
    <2>1. pkt' = [pkt EXCEPT ![p] = c]
      BY Zenon, <1>2 DEF entered
    <2>2. v \in {"rejected", "failed"}
      BY Zenon
    <2> HIDE DEF v
    <2>3. c \in Over /\ c.at = v /\ c.from = from /\ c.amount = amount
      BY Zenon, <2>2 DEF Over
    <2> HIDE DEF c
    <2>4. CreditTo(p, v) /\ pkt'[p] = c
      BY Zenon, <2>1, <2>3, CreditGoes
    <2> QED BY Zenon, <1>2, <2>3, <2>4 DEF v
  <1> QED BY Zenon, <1>1, <1>2

\* A credit in flight moves on.
MovesTo(p, at) == pkt' = [pkt EXCEPT ![p].at = at]

\* It stays in flight.
LEMMA CreditMovesOn ==
    ASSUME CreditsType, NEW p \in Packet, pkt[p].at \in Early, NEW at \in Early, MovesTo(p, at)
    PROVE  CreditTo(p, at) /\ pkt'[p] \in InFlight
  <1>1. pkt[p] \in InFlight
    BY Zenon, CreditAt DEF CreditIs
  <1>2. PICK d \in InFlight : d = pkt[p]
    BY Zenon, <1>1
  <1> DEFINE c == [d EXCEPT !.at = at]
  <1>3. c \in InFlight /\ c.at = at /\ c.amount = d.amount /\ c.from = d.from
    BY Zenon, InFlightMoves
  <1>4. pkt' = [pkt EXCEPT ![p] = [pkt[p] EXCEPT !.at = at]]
    BY Zenon DEF MovesTo
  <1>5. pkt' = [pkt EXCEPT ![p] = c]
    BY Zenon, <1>2, <1>4
  <1> HIDE DEF c
  <1> QED BY Zenon, <1>2, <1>3, <1>5, CreditGoes

\* A credit is over.
LEMMA CreditEnds ==
    ASSUME CreditsType, NEW p \in Packet, pkt[p] # Idle,
           NEW at \in {"fulfilled", "rejected", "paid", "failed", "dead"},
           pkt' = [pkt EXCEPT ![p] = ended(p, at)]
    PROVE  CreditTo(p, at)
  <1> DEFINE c == ended(p, at)
  <1>1. c \in Over /\ c.at = at /\ c.amount = pkt[p].amount /\ c.from = pkt[p].from
    BY Zenon, EndedType
  <1>2. pkt' = [pkt EXCEPT ![p] = c]
    BY Zenon
  <1> HIDE DEF c
  <1> QED BY Zenon, <1>1, <1>2, CreditGoes

\* The total is read for a credit.
LEMMA CreditReads ==
    ASSUME CreditsType, NEW p \in Packet, ReadTotal(p), total \in Nat
    PROVE  CreditTo(p, "read") /\ pkt'[p].total = total
  <1> DEFINE c == [at |-> "read", from |-> pkt[p].from, amount |-> pkt[p].amount,
                   object |-> pkt[p].object, total |-> total]
  <1>1. pkt' = [pkt EXCEPT ![p] = c] /\ pkt[p].at = "posted"
    BY Zenon DEF ReadTotal
  <1>2. pkt[p] \in InFlight
    BY Zenon, <1>1, CreditAt DEF Early, CreditIs
  <1>3. c \in Credited /\ c.at = "read" /\ c.from = pkt[p].from /\ c.amount = pkt[p].amount
        /\ c.total = total
    BY Zenon, <1>2 DEF Credited, InFlight
  <1> HIDE DEF c
  <1> QED BY Zenon, <1>1, <1>3, CreditGoes

\* What a step does to the transfers.

\* What createTransfers has validated.
LEMMA MayCreateOne ==
    ASSUME NEW s, TypedRows(s), NEW t, mayCreate(s, <<t>>)
    PROVE  validateTransfer(s, t)
  <1>1. SubSeq(<<t>>, 1, 0) = << >> /\ DOMAIN <<t>> = {1} /\ <<t>>[1] = t /\ 1 - 1 = 0
    OBVIOUS
  <1>2. inserted(s, << >>) = s
    BY Zenon, InsertedNone DEF TypedRows
  <1>3. validateTransfer(inserted(s, SubSeq(<<t>>, 1, 1 - 1)), <<t>>[1])
    BY Zenon, <1>1 DEF mayCreate
  <1> QED BY Zenon, <1>1, <1>2, <1>3

\* Two transfers are validated one after the other.
LEMMA MayCreateBoth ==
    ASSUME NEW s, TypedRows(s), NEW t, NEW u, mayCreate(s, <<t, u>>)
    PROVE  validateTransfer(s, t) /\ validateTransfer(inserted(s, <<t>>), u)
  <1>0. /\ <<t, u>> \in Seq({t, u}) /\ <<t>> \in Seq({t, u})
        /\ Len(<<t, u>>) = 2 /\ Len(<<t>>) = 1 /\ <<t>>[1] = t
        /\ DOMAIN <<t, u>> = {1, 2} /\ <<t, u>>[1] = t /\ <<t, u>>[2] = u
        /\ 1 - 1 = 0 /\ 2 - 1 = 1
    OBVIOUS
  <1>a. SubSeq(<<t, u>>, 1, 0) = << >>
    OBVIOUS
  <1>c. SubSeq(<<t, u>>, 1, 1) = <<t>>
    <2> DEFINE v == <<t, u>>
    <2>1. v \in Seq({t, u}) /\ Len(v) = 2 /\ v[1] = t
      OBVIOUS
    <2> HIDE DEF v
    <2>2. SubSeq(v, 1, 1) \in Seq({t, u}) /\ Len(SubSeq(v, 1, 1)) = 1 /\ SubSeq(v, 1, 1)[1] = t
      BY <2>1
    <2>3. ASSUME NEW e \in Seq({t, u}), Len(e) = 1, e[1] = t PROVE e = <<t>>
      BY <2>3
    <2> QED BY Zenon, <2>2, <2>3 DEF v
  <1>1. /\ SubSeq(<<t, u>>, 1, 0) = << >> /\ SubSeq(<<t, u>>, 1, 1) = <<t>>
        /\ DOMAIN <<t, u>> = {1, 2} /\ <<t, u>>[1] = t /\ <<t, u>>[2] = u
        /\ 1 - 1 = 0 /\ 2 - 1 = 1
    BY Zenon, <1>0, <1>a, <1>c
  <1>2. inserted(s, << >>) = s
    BY Zenon, InsertedNone DEF TypedRows
  <1>3. validateTransfer(inserted(s, SubSeq(<<t, u>>, 1, 1 - 1)), <<t, u>>[1])
    BY Zenon, <1>1 DEF mayCreate
  <1>4. validateTransfer(inserted(s, SubSeq(<<t, u>>, 1, 2 - 1)), <<t, u>>[2])
    BY Zenon, <1>1 DEF mayCreate
  <1> QED BY Zenon, <1>1, <1>2, <1>3, <1>4

\* HoldCredit inserts just that.
LEMMA HoldRows ==
    ASSUME LedgerSums, TypedRows(rows), NEW p \in Packet, pkt[p] \in InFlight, refsOf(rows, p) = {}
    PROVE  HoldOf(p, inserted(rows, transfersOf(p)))
  <1>1. TransfersAre(p, transfersOf(p))
    BY Zenon, CreditTransfers
  <1>2. PICK t \in Transfer, u \in Transfer :
            /\ transfersOf(p) = <<t>> \/ (transfersOf(p) = <<t, u>> /\ t.credit # Dst)
            /\ t.ref = <<p, 1>> /\ u.ref = <<p, 2>>
            /\ t.amount = pkt[p].amount /\ u.amount = pkt[p].amount
            /\ t.timed = TRUE /\ u.timed = TRUE
            /\ t.debit # Dst /\ u.debit # Dst
    BY Zenon, <1>1 DEF TransfersAre, Dst
  <1>3. /\ <<p, 1>>[1] = p /\ <<p, 2>>[1] = p /\ <<p, 1>> # <<p, 2>>
    OBVIOUS
  <1>4. t.ref \notin DOMAIN rows /\ u.ref \notin DOMAIN rows /\ t.ref # u.ref
        /\ t.ref[1] = p /\ u.ref[1] = p
    BY Zenon, <1>2, <1>3 DEF refsOf
  <1> DEFINE w == inserted(rows, <<t>>)
             v == inserted(w, <<u>>)
  <1>5. /\ DOMAIN w = DOMAIN rows \cup {t.ref} /\ w[t.ref] = prepareTransfer(t)
        /\ \A r \in DOMAIN rows : w[r] = rows[r]
    BY Zenon, <1>4, InsertedOne
  <1>6. /\ TypedRows(w) /\ Grows(rows, w)
        /\ creditsPosted(w, Dst) = creditsPosted(rows, Dst)
        /\ Solvent(rows) /\ validateTransfer(rows, t) => Solvent(w)
    BY Zenon, <1>2, <1>4 DEF LedgerSums, InsertsOne
  <1>7. /\ prepareTransfer(t).debit # Dst /\ prepareTransfer(t).amount = pkt[p].amount
        /\ prepareTransfer(t).credit = t.credit
        /\ prepareTransfer(u).debit # Dst /\ prepareTransfer(u).amount = pkt[p].amount
    BY Zenon, <1>2, PreparedRow
  <1>8. CASE transfersOf(p) = <<t>>
    <2>1. mayCreate(rows, transfersOf(p)) => validateTransfer(rows, t)
      BY Zenon, <1>8, MayCreateOne
    <2> HIDE DEF w
    <2>2. HoldOf(p, w)
      BY Zenon, <1>4, <1>5, <1>6, <1>7, <2>1 DEF HoldOf
    <2> QED BY Zenon, <1>8, <2>2 DEF w
  <1>9. CASE transfersOf(p) = <<t, u>> /\ t.credit # Dst
    <2>1. mayCreate(rows, transfersOf(p)) => validateTransfer(rows, t) /\ validateTransfer(w, u)
      BY Zenon, <1>9, MayCreateBoth
    <2>2. inserted(rows, <<t, u>>) = v
      BY Zenon, <1>4, InsertedBoth
    <2> HIDE DEF w
    <2>3. u.ref \notin DOMAIN w
      BY Zenon, <1>4, <1>5
    <2>4. /\ DOMAIN v = DOMAIN w \cup {u.ref} /\ v[u.ref] = prepareTransfer(u)
          /\ \A r \in DOMAIN w : v[r] = w[r]
      BY Zenon, <2>3, InsertedOne
    <2>5. /\ TypedRows(v) /\ Grows(w, v)
          /\ creditsPosted(v, Dst) = creditsPosted(w, Dst)
          /\ Solvent(w) /\ validateTransfer(w, u) => Solvent(v)
      BY Zenon, <1>2, <1>6, <2>3 DEF LedgerSums, InsertsOne
    <2> HIDE DEF v
    <2>6. Grows(rows, v)
      BY Zenon, <1>6, <2>5 DEF Grows
    <2>7. \A r \in DOMAIN v \ DOMAIN rows :
              r[1] = p /\ v[r].amount = pkt[p].amount /\ v[r].debit # Dst
      BY Zenon, <1>4, <1>5, <1>7, <2>4
    <2>8. \A r \in DOMAIN v \ DOMAIN rows : v[r].credit = Dst => r = u.ref
      BY <1>5, <1>7, <1>9, <2>4
    <2>9. HoldOf(p, v)
      BY Zenon, <1>6, <2>1, <2>5, <2>6, <2>7, <2>8 DEF HoldOf
    <2> QED BY Zenon, <1>9, <2>2, <2>9
  <1> QED BY Zenon, <1>2, <1>8, <1>9

\* EndWithdrawal inserts just that, and a validated one overdraws nothing.
LEMMA WithdrawalRows ==
    ASSUME LedgerSums, TypedRows(rows), NEW c, NEW e \in Nat, NEW m \in Nat, NEW timed \in BOOLEAN,
           mayInsert(rows, withdrawal(c, e, m, timed))
    PROVE  /\ WithdrawnBy(e, m, inserted(rows, withdrawal(c, e, m, timed)))
           /\ Solvent(rows) /\ mayCreate(rows, withdrawal(c, e, m, timed)) =>
                  Solvent(inserted(rows, withdrawal(c, e, m, timed)))
  <1> DEFINE A == Settlement(AssetOf["dest"])
             t == [ref |-> <<"event", e>>, debit |-> Dst, credit |-> A, amount |-> m, timed |-> timed]
  <1>1. withdrawal(c, e, m, timed) = <<t>>
    BY Zenon DEF withdrawal, createWithdrawal, Dst
  <1>2. Dst \in Account /\ A \in Account /\ A # Dst
    <2>1. "dest" \in Refs
      BY Zenon DEF Refs
    <2> QED BY Zenon, <2>1, Accounts DEF Dst
  <1> HIDE DEF A
  <1>3. /\ t \in Transfer /\ t.ref = <<"event", e>> /\ t.amount = m /\ t.credit # Dst
    <2>1. <<"event", e>> \in {<<x, i>> : x \in Packet \cup {"event", "peer", "outgoing", "assetB"},
                                         i \in Nat}
      OBVIOUS
    <2> QED BY <1>2, <2>1 DEF Transfer
  <1> HIDE DEF t
  <1>4. t.ref \notin DOMAIN rows
    <2>1. DOMAIN <<t>> = {1} /\ <<t>>[1] = t
      OBVIOUS
    <2> QED BY Zenon, <1>1, <2>1 DEF mayInsert
  <1> DEFINE w == inserted(rows, <<t>>)
  <1>5. /\ DOMAIN w = DOMAIN rows \cup {t.ref} /\ w[t.ref] = prepareTransfer(t)
        /\ \A r \in DOMAIN rows : w[r] = rows[r]
    BY Zenon, <1>3, <1>4, InsertedOne
  <1>6. /\ TypedRows(w) /\ Grows(rows, w)
        /\ creditsPosted(w, Dst) = creditsPosted(rows, Dst)
        /\ Solvent(rows) /\ validateTransfer(rows, t) => Solvent(w)
    BY Zenon, <1>3, <1>4 DEF LedgerSums, InsertsOne
  <1>7. mayCreate(rows, <<t>>) => validateTransfer(rows, t)
    BY Zenon, MayCreateOne
  <1>8. prepareTransfer(t).amount = m /\ prepareTransfer(t).credit # Dst
    BY Zenon, <1>3, PreparedRow
  <1> HIDE DEF w
  <1>9. WithdrawnBy(e, m, w)
    BY Zenon, <1>3, <1>5, <1>6, <1>8 DEF WithdrawnBy
  <1> QED BY Zenon, <1>1, <1>6, <1>7, <1>9 DEF w

\* A withdrawal that is validated is for something.
LEMMA WithdrawalAmount ==
    ASSUME TypedRows(rows), NEW c, NEW e, NEW m, NEW timed,
           mayCreate(rows, withdrawal(c, e, m, timed))
    PROVE  m > 0
  <1> DEFINE t == [ref |-> <<"event", e>>, debit |-> Liquidity("dest"),
                   credit |-> Settlement(AssetOf["dest"]), amount |-> m, timed |-> timed]
  <1>1. withdrawal(c, e, m, timed) = <<t>> /\ t.amount = m
    BY Zenon DEF withdrawal, createWithdrawal
  <1> HIDE DEF t
  <1>2. validateTransfer(rows, t)
    BY Zenon, <1>1, MayCreateOne
  <1> QED BY Zenon, <1>1, <1>2 DEF validateTransfer

\* postTransfers and voidTransfers.
LEMMA UpdateRows ==
    ASSUME NEW s, TypedRows(s), NEW refs, NEW state \in {"POSTED", "VOIDED"}
    PROVE  /\ TypedRows(updateTransferState(s, refs, state))
           /\ Loosened(s, updateTransferState(s, refs, state))
           /\ \A r \in DOMAIN s \ refs : updateTransferState(s, refs, state)[r] = s[r]
           /\ ~mayUpdate(s, refs) => updateTransferState(s, refs, state) = s
  <1> DEFINE w == updateTransferState(s, refs, state)
  <1>1. CASE ~mayUpdate(s, refs)
    <2>1. w = s
      BY Zenon, <1>1 DEF updateTransferState
    <2>2. Loosened(s, s)
      BY Zenon DEF Loosened
    <2> HIDE DEF w
    <2>3. TypedRows(w) /\ Loosened(s, w) /\ (\A r \in DOMAIN s \ refs : w[r] = s[r]) /\ w = s
      BY Zenon, <2>1, <2>2
    <2> QED BY Zenon, <2>3 DEF w
  <1>2. CASE mayUpdate(s, refs)
    <2>1. w = [r \in DOMAIN s |-> IF r \in refs THEN [s[r] EXCEPT !.state = state] ELSE s[r]]
      BY Zenon, <1>2 DEF updateTransferState
    <2>2. /\ DOMAIN w = DOMAIN s /\ \A r \in DOMAIN s \ refs : w[r] = s[r]
          /\ \A r \in DOMAIN s \cap refs : w[r] = [s[r] EXCEPT !.state = state]
          /\ w = [r \in DOMAIN w |-> w[r]]
      BY Zenon, <2>1
    <2> HIDE DEF w
    <2>3. ASSUME NEW r \in DOMAIN s
          PROVE  /\ w[r] \in Row
                 /\ w[r].debit = s[r].debit /\ w[r].credit = s[r].credit
                 /\ w[r].amount = s[r].amount
                 /\ Posted(s[r]) => Posted(w[r])
                 /\ Posted(w[r]) \/ Pending(w[r]) => Posted(s[r]) \/ Pending(s[r])
      <3>1. PICK d \in Row : d = s[r]
        BY Zenon DEF TypedRows
      <3>2. CASE r \notin refs
        BY Zenon, <2>2, <3>1, <3>2
      <3>3. CASE r \in refs
        <4> DEFINE e == [d EXCEPT !.state = state]
        <4>1. e \in Row /\ e.debit = d.debit /\ e.credit = d.credit /\ e.amount = d.amount
          BY Zenon DEF Row
        <4>2. w[r] = e
          BY Zenon, <2>2, <3>1, <3>3
        <4>3. Pending(d)
          BY Zenon, <1>2, <3>1, <3>3 DEF mayUpdate, Pending
        <4> HIDE DEF e
        <4> QED BY Zenon, <3>1, <4>1, <4>2, <4>3 DEF Pending, Posted
      <3> QED BY Zenon, <3>2, <3>3
    <2>4. TypedRows(w)
      BY Zenon, <2>2, <2>3 DEF TypedRows
    <2>5. Loosened(s, w)
      BY Zenon, <2>2, <2>3 DEF Loosened
    <2> QED BY Zenon, <1>2, <2>2, <2>4, <2>5 DEF w
  <1> QED BY Zenon, <1>1, <1>2

\* A hold expires.
LEMMA LapseRows ==
    ASSUME NEW s, TypedRows(s), NEW r \in DOMAIN s
    PROVE  /\ TypedRows(lapse(s, r)) /\ Loosened(s, lapse(s, r))
           /\ \A q \in DOMAIN s : lapse(s, r)[q].state = s[q].state
  <1> DEFINE w == lapse(s, r)
  <1>1. PICK d \in Row : d = s[r]
    BY Zenon DEF TypedRows
  <1> DEFINE e == [d EXCEPT !.lapsed = TRUE]
  <1>2. e \in Row /\ e.debit = d.debit /\ e.credit = d.credit /\ e.amount = d.amount
        /\ e.state = d.state /\ e.lapsed = TRUE
    BY Zenon DEF Row
  <1>3. w = [s EXCEPT ![r] = [s[r] EXCEPT !.lapsed = TRUE]]
    BY Zenon DEF lapse
  <1>4. w = [s EXCEPT ![r] = e]
    BY Zenon, <1>1, <1>3
  <1> HIDE DEF e, w
  <1>5. /\ DOMAIN w = DOMAIN s /\ w[r] = e /\ \A q \in DOMAIN s : q # r => w[q] = s[q]
        /\ w = [q \in DOMAIN w |-> w[q]]
    BY Zenon, <1>4
  <1>6. TypedRows(w)
    BY Zenon, <1>2, <1>5 DEF TypedRows
  <1>7. ASSUME NEW q \in DOMAIN s
        PROVE  /\ w[q].debit = s[q].debit /\ w[q].credit = s[q].credit
               /\ w[q].amount = s[q].amount /\ w[q].state = s[q].state
               /\ w[q].lapsed \/ w[q].lapsed = s[q].lapsed
    BY Zenon, <1>1, <1>2, <1>5
  <1>8. Loosened(s, w)
    BY Zenon, <1>5, <1>7 DEF Loosened, Posted, Pending
  <1> QED BY Zenon, <1>6, <1>7, <1>8 DEF w

\* Every variable keeps its type.

\* What a step leaves alone keeps its type.
LEMMA TypesKept ==
    /\ TypedRows(rows) /\ UNCHANGED rows => TypedRows(rows')
    /\ CreditsType /\ UNCHANGED pkt => CreditsType'
    /\ CacheType /\ UNCHANGED <<objects, cached>> => CacheType'
    /\ WorkerType /\ UNCHANGED worker => WorkerType'
    /\ EventsType /\ UNCHANGED events => EventsType'
    /\ CallsType /\ UNCHANGED calls => CallsType'
    /\ HistType /\ UNCHANGED hist => HistType'
    /\ CountsType /\ UNCHANGED <<received, faults>> => CountsType'
  BY Zenon DEF TypedRows, CreditsType, CacheType, WorkerType, EventsType, CallsType, HistType,
        CountsType

\* The destination keeps its type.
LEMMA DestTyped ==
    ASSUME dest \in Dest, WorkerType, FinalInv, [Next]_vars
    PROVE  dest' \in Dest
  <1>1. Dest = PaymentRow \cup WalletOf(Nat)
    BY Zenon DEF Dest, PaymentRow, WalletOf, Status, When
  <1>2. CASE PaymentInv
    BY Zenon, <1>1, <1>2, PaymentStep DEF PaymentInv
  <1>3. ASSUME NEW T, dest \in WalletOf(T) PROVE dest' \in Dest
    <2>1. dest \in WalletOf(Nat)
      BY Zenon, <1>1, <1>3 DEF PaymentRow, WalletOf
    <2>2. CASE worker \in [at : {"read"}, total : Nat]
      <3>1. dest' \in WalletOf(IF locked THEN Nat \cup {worker.total} ELSE Nat)
            /\ worker.total \in Nat
        BY Zenon, <2>1, <2>2, WalletStep
      <3>2. Nat \cup {worker.total} = Nat
        BY Zenon, <3>1
      <3> QED BY Zenon, <1>1, <3>1, <3>2
    <2>3. CASE worker = Idle
      BY Zenon, <1>1, <2>1, <2>3, WalletStep DEF locked
    <2> QED BY Zenon, <2>2, <2>3 DEF WorkerType
  <1> QED BY Zenon, <1>2, <1>3 DEF FinalInv

\* An event is written; a webhook is sent, which changes no amount.
LEMMA EventWritten ==
    ASSUME EventsType, NEW n \in Nat \ {0}, announce(n)
    PROVE  AnnounceEffect(n)
  <1> DEFINE x == [amount |-> n, attempts |-> 0, known |-> FALSE, done |-> FALSE]
  <1>1. x \in Event /\ x.amount = n
    BY Zenon DEF Event
  <1>2. events' = Append(events, x)
    BY Zenon DEF announce
  <1> HIDE DEF x
  <1> QED BY <1>1, <1>2, SeqMore, SeqIs DEF EventsType, AnnounceEffect

\* A webhook is sent: the events announce what they did.
LEMMA EventSent ==
    ASSUME EventsType, NEW e \in DOMAIN events, NEW known \in BOOLEAN, NEW done \in BOOLEAN,
           sendWebhook(e, known, done)
    PROVE  SendEffect
  <1>1. DOMAIN events = 1..Len(events) /\ events[e] \in Event
    BY Zenon, SeqIs DEF EventsType
  <1>2. PICK d \in Event : d = events[e]
    BY Zenon, <1>1
  <1> DEFINE c == [d EXCEPT !.attempts = @ + 1]
             b == [c EXCEPT !.known = @ \/ known]
             a == [b EXCEPT !.done = done]
  <1>3. c \in Event /\ c.amount = d.amount
    BY DEF Event
  <1>4. a = [d EXCEPT !.attempts = @ + 1, !.known = @ \/ known, !.done = done]
    BY Zenon, Zenon
  <1>5. events' = [events EXCEPT ![e] = [events[e] EXCEPT !.attempts = @ + 1,
                                         !.known = @ \/ known, !.done = done]]
    BY Zenon DEF sendWebhook
  <1>6. events' = [events EXCEPT ![e] = a]
    BY Zenon, <1>2, <1>4, <1>5
  <1> HIDE DEF c
  <1>7. b \in Event /\ b.amount = c.amount
    <2>1. (c.known \/ known) \in BOOLEAN
      BY Zenon
    <2> QED BY Zenon, <1>3, <2>1 DEF Event
  <1> HIDE DEF b
  <1>8. a \in Event /\ a.amount = b.amount
    BY Zenon, <1>7 DEF Event
  <1> HIDE DEF a
  <1>9. EventsType' /\ Len(events') = Len(events)
    BY Zenon, <1>1, <1>6, <1>8, SeqEdited DEF EventsType
  <1> QED BY Zenon, <1>2, <1>3, <1>6, <1>7, <1>8, <1>9 DEF SendEffect

\* A withdrawal begins.
LEMMA CallBegun ==
    ASSUME Typed, NEW c \in Caller, NEW e \in Nat, NEW m \in Int, NEW timed \in BOOLEAN,
           BeginWithdrawal(c, e, m, timed)
    PROVE  BeginEffect(c, e, m)
  <1> DEFINE x == [at |-> "validated", amount |-> m, timed |-> timed, event |-> e]
  <1>1. calls' = [calls EXCEPT ![c] = x] /\ calls[c] = Idle
        /\ mayCreate(rows, withdrawal(c, e, m, timed))
        /\ UNCHANGED <<rows, dest, objects, cached, pkt, received, worker, events, faults, hist>>
    BY Zenon DEF BeginWithdrawal
  <1>2. TypedRows(rows) /\ CallsType
    BY Zenon DEF Typed
  <1>3. m > 0
    BY Zenon, <1>1, <1>2, WithdrawalAmount
  <1>4. x \in Call /\ x.amount = m /\ x.event = e /\ x.at = "validated"
    BY <1>3 DEF Call
  <1> HIDE DEF x
  <1>5. x # Idle
    BY <1>4 DEF Idle
  <1> QED BY Zenon, <1>1, <1>2, <1>3, <1>4, <1>5 DEF CallsType, BeginEffect

\* The total received is a number.
LEMMA TotalType ==
    ASSUME LedgerSums, TypedRows(rows)
    PROVE  total \in Nat /\ total = creditsPosted(rows, Dst) /\ getBalance(rows, "dest") \in Int
  <1>1. creditsPosted(rows, Dst) \in Nat /\ getBalance(rows, "dest") \in Int
    BY Zenon DEF LedgerSums
  <1>2. total = creditsPosted(rows, Dst)
    BY Zenon DEF total, getTotalReceived, Dst
  <1> QED BY Zenon, <1>1, <1>2

\* What a credit's steps do to its record and to the connection's total.
LEMMA AcceptCredit ==
    ASSUME Typed, NEW p \in Packet, Accept(p)
    PROVE  AcceptEffect(p)
  <1>1. CacheType'
    <2>1. CacheType
      BY Zenon DEF Typed
    <2>2. CASE UNCHANGED <<objects, cached>>
      BY Zenon, <2>1, <2>2 DEF CacheType
    <2>3. CASE objects' = Append(objects, dest.processAt # "null") /\ cached' = Len(objects) + 1
      <3> DEFINE b == dest.processAt # "null"
      <3>1. b \in BOOLEAN /\ objects' = Append(objects, b) /\ cached' = Len(objects) + 1
        BY Zenon, <2>3
      <3> HIDE DEF b
      <3> QED BY <2>1, <3>1, SeqMore, SeqIs DEF CacheType
    <2> QED BY Zenon, <2>2, <2>3 DEF Accept, getWalletAddress
  <1>2. cached' \in Nat
    BY <1>1, SeqIs DEF CacheType
  <1>3. PICK amount \in Amounts["peer"] :
            /\ entered(p, "peer", amount)
            /\ received' = IF mayCredit THEN received + amount ELSE received
    BY Zenon DEF Accept
  <1>4. amount \in Nat /\ "peer" \in Payers
    BY Zenon, AmountAssumption DEF Payers
  <1>5. pkt[p] = Idle /\ UNCHANGED <<rows, dest, worker, events, calls, faults, hist>>
    BY Zenon DEF Accept
  <1>6. /\ mayCredit => CreditTo(p, "checked")
        /\ ~mayCredit => CreditTo(p, "rejected")
        /\ pkt'[p].from = "peer" /\ pkt'[p].amount = amount
    BY Zenon, <1>2, <1>3, <1>4, <1>5, CreditEnters DEF Typed
  <1> QED BY Zenon, <1>1, <1>3, <1>5, <1>6 DEF AcceptEffect

\* A local payment enters, or fails at once.
LEMMA PayCredit ==
    ASSUME Typed, NEW p \in Packet, Pay(p)
    PROVE  PayEffect(p)
  <1>1. PICK amount \in Amounts["outgoing"] : entered(p, "outgoing", amount)
    BY Zenon DEF Pay
  <1>2. amount \in Nat /\ "outgoing" \in Payers
    BY Zenon, AmountAssumption DEF Payers
  <1>3. /\ pkt[p] = Idle
        /\ UNCHANGED <<rows, dest, objects, cached, received, worker, events, calls, faults, hist>>
    BY Zenon DEF Pay
  <1>4. cached' \in Nat
    BY <1>3, SeqIs DEF CacheType, Typed
  <1>5. /\ mayCredit => CreditTo(p, "checked")
        /\ ~mayCredit => CreditTo(p, "failed")
        /\ pkt'[p].from = "outgoing"
    BY Zenon, <1>1, <1>2, <1>3, <1>4, CreditEnters DEF Typed
  <1> QED BY Zenon, <1>3, <1>5 DEF PayEffect

\* createTransfers validates the transfers of a credit, or the credit is over.
LEMMA ValidatedCredit ==
    ASSUME Typed, NEW p \in Packet, ValidateCredit(p)
    PROVE  ValidateEffect(p)
  <1>1. /\ pkt[p].at = "checked"
        /\ UNCHANGED <<rows, dest, objects, cached, worker, events, calls, faults, hist>>
    BY Zenon DEF ValidateCredit
  <1>2. pkt[p] # Idle
    BY <1>1 DEF Idle
  <1>3. CASE MovesTo(p, "validated") /\ UNCHANGED received
    <2>1. CreditTo(p, "validated")
      BY Zenon, <1>1, <1>3, CreditMovesOn DEF Typed, Early
    <2> QED BY Zenon, <1>1, <1>2, <1>3, <2>1 DEF ValidateEffect
  <1>4. CASE fail(p)
    <2>1. CASE pkt[p].from = "peer"
      <3>1. pkt' = [pkt EXCEPT ![p] = ended(p, "rejected")] /\ received' = received - pkt[p].amount
        BY Zenon, <1>4, <2>1 DEF fail
      <3> QED BY Zenon, <1>1, <1>2, <2>1, <3>1, CreditEnds DEF Typed, ValidateEffect
    <2>2. CASE pkt[p].from # "peer"
      <3>1. pkt' = [pkt EXCEPT ![p] = ended(p, "failed")] /\ UNCHANGED received
        BY Zenon, <1>4, <2>2 DEF fail
      <3> QED BY Zenon, <1>1, <1>2, <2>2, <3>1, CreditEnds DEF Typed, ValidateEffect
    <2> QED BY Zenon, <2>1, <2>2
  <1> QED BY Zenon, <1>3, <1>4 DEF ValidateCredit, MovesTo

\* What happened once.
Hist == [late : SUBSET Packet, overtaken : BOOLEAN, skipped : BOOLEAN]

\* One of the things that happened once is noted, and the others stay.
LEMMA HistChecked ==
    ASSUME NEW h \in Hist, NEW b \in BOOLEAN
    PROVE  /\ [h EXCEPT !.overtaken = b] \in Hist /\ [h EXCEPT !.overtaken = b].overtaken = b
           /\ [h EXCEPT !.overtaken = b].late = h.late
           /\ [h EXCEPT !.overtaken = b].skipped = h.skipped
  BY Zenon DEF Hist

\* The same of a skipped schedule.
LEMMA HistSkipped ==
    ASSUME NEW h \in Hist, NEW b \in BOOLEAN
    PROVE  /\ [h EXCEPT !.skipped = b] \in Hist /\ [h EXCEPT !.skipped = b].skipped = b
           /\ [h EXCEPT !.skipped = b].late = h.late
           /\ [h EXCEPT !.skipped = b].overtaken = h.overtaken
  BY Zenon DEF Hist

\* The same of a late credit.
LEMMA HistLate ==
    ASSUME NEW h \in Hist, NEW S \in SUBSET Packet
    PROVE  /\ [h EXCEPT !.late = S] \in Hist /\ [h EXCEPT !.late = S].late = S
           /\ [h EXCEPT !.late = S].overtaken = h.overtaken
           /\ [h EXCEPT !.late = S].skipped = h.skipped
  BY Zenon DEF Hist

\* A transfer is inserted; ok says whether its balance check still holds.
Overtakes(ok) == hist' = [hist EXCEPT !.overtaken = @ \/ ~ok]

\* If no check is overtaken after the step, none was and this one was not.
LEMMA HistOvertaken ==
    ASSUME HistType, NEW ok \in BOOLEAN, Overtakes(ok)
    PROVE  /\ HistType' /\ hist'.late = hist.late /\ hist'.skipped = hist.skipped
           /\ ~hist'.overtaken => ~hist.overtaken /\ ok
  <1>1. PICK h \in Hist : h = hist
    BY Zenon DEF HistType, Hist
  <1>2. PICK b \in BOOLEAN : b = (h.overtaken \/ ~ok)
    BY Zenon
  <1>3. hist' = [h EXCEPT !.overtaken = b]
    BY Zenon, <1>1, <1>2 DEF Overtakes
  <1>4. hist' \in Hist /\ hist'.overtaken = b /\ hist'.late = h.late /\ hist'.skipped = h.skipped
    BY Zenon, <1>3, HistChecked
  <1> QED BY Zenon, <1>1, <1>2, <1>4 DEF HistType, Hist

\* The transfers of a credit are inserted.
LEMMA HeldCredit ==
    ASSUME LedgerSums, Typed, LedgerInv, NEW p \in Packet, HoldCredit(p)
    PROVE  HoldEffect(p)
  <1>1. /\ pkt[p].at = "validated" /\ MovesTo(p, "held")
        /\ rows' = inserted(rows, transfersOf(p))
        /\ UNCHANGED <<dest, objects, cached, received, worker, events, calls, faults>>
    BY Zenon DEF HoldCredit, MovesTo
  <1>2. pkt[p] # Idle /\ pkt[p] \in InFlight /\ refsOf(rows, p) = {}
    <2>1. pkt[p] # Idle
      BY <1>1 DEF Idle
    <2>2. pkt[p] \in InFlight
      BY Zenon, <1>1, CreditAt DEF Typed, Early, CreditIs
    <2> QED BY Zenon, <1>1, <2>1, <2>2 DEF LedgerInv, CreditInv
  <1>3. CreditTo(p, "held")
    BY Zenon, <1>1, CreditMovesOn DEF Typed, Early
  <1>4. HoldOf(p, rows')
    BY Zenon, <1>1, <1>2, HoldRows DEF Typed
  <1>5. PICK ok \in BOOLEAN : ok = mayCreate(rows, transfersOf(p))
    BY Zenon DEF mayCreate
  <1>6. Overtakes(ok)
    BY Zenon, <1>5 DEF HoldCredit, Overtakes
  <1>7. /\ HistType' /\ hist'.late = hist.late /\ hist'.skipped = hist.skipped
        /\ ~hist'.overtaken => ~hist.overtaken /\ ok
    BY Zenon, <1>6, HistOvertaken DEF Typed
  <1> QED BY Zenon, <1>1, <1>2, <1>3, <1>4, <1>5, <1>7 DEF HoldEffect

\* The transfers of a credit are posted, all or none.
LEMMA PostedCredit ==
    ASSUME Typed, LedgerInv, NEW p \in Packet, Post(p)
    PROVE  PostEffect(p)
  <1> DEFINE may == mayUpdate(rows, refsOf(rows, p))
             S == IF may /\ tooLate THEN hist.late \cup {p} ELSE hist.late
  <1>1. /\ pkt[p].at = "held" /\ PostEnds(p)
        /\ rows' = updateTransferState(rows, refsOf(rows, p), "POSTED")
        /\ hist' = [hist EXCEPT !.late = S]
        /\ UNCHANGED <<dest, objects, cached, received, worker, events, calls, faults>>
    BY Zenon DEF Post, PostEnds
  <1>2. pkt[p] # Idle
    BY <1>1 DEF Idle
  <1>3. /\ TypedRows(rows') /\ Loosened(rows, rows')
        /\ \A r \in DOMAIN rows \ refsOf(rows, p) : rows'[r] = rows[r]
        /\ ~may => rows' = rows
    BY Zenon, <1>1, UpdateRows DEF Typed
  <1>4. PICK h \in Hist : h = hist
    BY Zenon DEF HistType, Hist, Typed
  <1>5. S \in SUBSET Packet
    BY Zenon, <1>4 DEF Hist
  <1>6. HistType' /\ hist'.overtaken = hist.overtaken /\ hist'.skipped = hist.skipped /\ hist'.late = S
    <2> HIDE DEF S
    <2>1. hist' = [h EXCEPT !.late = S]
      BY Zenon, <1>1, <1>4
    <2>2. hist' \in Hist /\ hist'.overtaken = h.overtaken /\ hist'.skipped = h.skipped /\ hist'.late = S
      BY Zenon, <1>5, <2>1, HistLate
    <2> QED BY Zenon, <1>4, <2>2 DEF HistType, Hist
  <1>7. CASE may
    <2>1. pkt' = [pkt EXCEPT ![p] = [pkt[p] EXCEPT !.at = "posted"]]
      BY Zenon, <1>1, <1>7 DEF PostEnds
    <2>2. MovesTo(p, "posted")
      BY Zenon, <2>1 DEF MovesTo
    <2>3. CreditTo(p, "posted")
      BY Zenon, <1>1, <2>2, CreditMovesOn DEF Typed, Early
    <2> QED BY Zenon, <1>1, <1>2, <1>3, <1>6, <1>7, <2>3 DEF PostEffect
  <1>8. CASE ~may
    <2> DEFINE v == IF pkt[p].from = "peer" THEN "fulfilled" ELSE "failed"
    <2>1. pkt' = [pkt EXCEPT ![p] = ended(p, v)] /\ v \in {"fulfilled", "failed"}
      BY Zenon, <1>1, <1>8 DEF PostEnds
    <2> HIDE DEF v
    <2>2. CreditTo(p, v)
      BY Zenon, <1>2, <2>1, CreditEnds DEF Typed
    <2> QED BY Zenon, <1>1, <1>2, <1>3, <1>6, <1>8, <2>2 DEF v, PostEffect
  <1> QED BY Zenon, <1>7, <1>8

\* The total is read for a credit.
LEMMA ReadCredit ==
    ASSUME LedgerSums, Typed, NEW p \in Packet, ReadTotal(p)
    PROVE  ReadEffect(p)
  <1>1. CreditTo(p, "read") /\ pkt'[p].total = total
    BY Zenon, TotalType, CreditReads DEF Typed
  <1> QED BY Zenon, <1>1 DEF ReadEffect, ReadTotal

\* A credit is reported to its destination.
LEMMA ReportedCredit ==
    ASSUME Typed, NEW p \in Packet, OnCredit(p)
    PROVE  ReportEffect(p)
  <1> DEFINE v == IF pkt[p].from = "peer" THEN "fulfilled" ELSE "paid"
             skips == ~isPayment /\ objects[pkt[p].object] /\ dest'.processAt = "null"
  <1>1. /\ pkt[p].at = "read" /\ ~locked
        /\ UNCHANGED <<rows, cached, received, worker, events, calls, faults>>
    BY Zenon DEF OnCredit
  <1>2. pkt[p] # Idle
    BY <1>1 DEF Idle
  <1>3. pkt' = [pkt EXCEPT ![p] = ended(p, v)] /\ v \in {"fulfilled", "paid"}
    BY Zenon DEF OnCredit
  <1>4. CreditTo(p, v)
    <2> HIDE DEF v
    <2> QED BY Zenon, <1>2, <1>3, CreditEnds DEF Typed
  <1>5. CacheType'
    <2>1. UNCHANGED objects \/ objects' = [objects EXCEPT ![pkt[p].object] = TRUE]
      BY Zenon DEF OnCredit
    <2>2. CacheType
      BY Zenon DEF Typed
    <2>3. objects' \in Seq(BOOLEAN) /\ Len(objects') = Len(objects)
      <3>1. DOMAIN objects = 1..Len(objects) /\ TRUE \in BOOLEAN
        BY Zenon, <2>2, SeqIs DEF CacheType
      <3>2. CASE pkt[p].object \in DOMAIN objects
        <4> DEFINE o == [objects EXCEPT ![pkt[p].object] = TRUE]
        <4>1. o \in Seq(BOOLEAN) /\ Len(o) = Len(objects)
          BY <2>2, <3>1, <3>2, SeqEdited DEF CacheType
        <4> HIDE DEF o
        <4>2. objects' = o \/ objects' = objects
          BY Zenon, <2>1 DEF o
        <4> QED BY Zenon, <2>2, <4>1, <4>2 DEF CacheType
      <3>3. CASE pkt[p].object \notin DOMAIN objects
        <4>1. objects = [i \in 1..Len(objects) |-> objects[i]]
          BY <2>2, <3>1 DEF CacheType
        <4>2. objects' = objects
          BY <2>1, <3>1, <3>3, <4>1
        <4> QED BY Zenon, <2>2, <4>2 DEF CacheType
      <3> QED BY Zenon, <3>2, <3>3
    <2> QED BY Zenon, <1>1, <2>2, <2>3 DEF CacheType
  <1>6. PICK h \in Hist : h = hist
    BY Zenon DEF HistType, Hist, Typed
  <1>7. PICK b \in BOOLEAN : b = (h.skipped \/ skips)
    BY Zenon
  <1>8. hist' = [h EXCEPT !.skipped = b]
    BY Zenon, <1>6, <1>7 DEF OnCredit
  <1>9. hist' \in Hist /\ hist'.skipped = b /\ hist'.late = h.late /\ hist'.overtaken = h.overtaken
    BY Zenon, <1>8, HistSkipped
  <1> HIDE DEF skips
  <1>10. HistType' /\ hist'.late = hist.late /\ hist'.overtaken = hist.overtaken
         /\ (hist.skipped => hist'.skipped) /\ (skips => hist'.skipped)
    BY Zenon, <1>6, <1>7, <1>9 DEF HistType, Hist
  <1> QED BY Zenon, <1>1, <1>2, <1>4, <1>5, <1>10 DEF skips, ReportEffect

\* The handler of a credit dies.
LEMMA DeadCredit ==
    ASSUME Typed, NEW p \in Packet, Die(p)
    PROVE  DieEffect(p)
  <1>1. /\ pkt[p].at \in {"checked", "held", "posted", "read"}
        /\ faults < MaxFaults /\ faults' = faults + 1
        /\ pkt' = [pkt EXCEPT ![p] = ended(p, "dead")]
        /\ UNCHANGED <<rows, dest, objects, cached, received, worker, events, calls, hist>>
    BY Zenon DEF Die
  <1>2. pkt[p] # Idle
    BY <1>1 DEF Idle
  <1>3. CreditTo(p, "dead")
    BY Zenon, <1>1, <1>2, CreditEnds DEF Typed
  <1>4. faults' \in 0..MaxFaults
    BY <1>1, AmountAssumption DEF Typed, CountsType
  <1> QED BY Zenon, <1>1, <1>2, <1>3, <1>4 DEF DieEffect

\* A withdrawal is inserted, or loses the race for its id.
LEMMA EndedWithdrawal ==
    ASSUME LedgerSums, Typed, NEW c \in Caller, EndWithdrawal(c)
    PROVE  EndEffect(c)
  <1> DEFINE ts == withdrawal(c, calls[c].event, calls[c].amount, calls[c].timed)
  <1>1. /\ calls[c] # Idle /\ calls' = [calls EXCEPT ![c] = Idle]
        /\ rows' = IF mayInsert(rows, ts) THEN inserted(rows, ts) ELSE rows
        /\ hist' = [hist EXCEPT !.overtaken = @ \/ (mayInsert(rows, ts) /\ ~mayCreate(rows, ts))]
        /\ UNCHANGED <<dest, objects, cached, pkt, received, worker, events, faults>>
    BY Zenon DEF EndWithdrawal
  <1>2. /\ CallsType' /\ calls'[c] = Idle /\ \A b \in Caller : b # c => calls'[b] = calls[b]
    BY Zenon, <1>1 DEF CallsType, Typed
  <1>3. calls[c].event \in Nat /\ calls[c].amount \in Nat /\ calls[c].timed \in BOOLEAN
    BY Zenon, <1>1 DEF CallsType, Call, Typed
  <1>4. TypedRows(rows) /\ HistType
    BY Zenon DEF Typed
  <1>5. mayInsert(rows, ts) =>
            /\ WithdrawnBy(calls[c].event, calls[c].amount, inserted(rows, ts))
            /\ Solvent(rows) /\ mayCreate(rows, ts) => Solvent(inserted(rows, ts))
    BY Zenon, <1>3, <1>4, WithdrawalRows
  <1>6. WithdrawnBy(calls[c].event, calls[c].amount, rows)
    BY Zenon, <1>4 DEF WithdrawnBy, Grows
  <1> HIDE DEF ts
  <1>7. PICK ok \in BOOLEAN : ok = ~(mayInsert(rows, ts) /\ ~mayCreate(rows, ts))
    BY Zenon
  <1>8. Overtakes(ok)
    BY Zenon, <1>1, <1>7 DEF Overtakes
  <1>9. /\ HistType' /\ hist'.late = hist.late /\ hist'.skipped = hist.skipped
        /\ ~hist'.overtaken => ~hist.overtaken /\ ok
    BY Zenon, <1>4, <1>8, HistOvertaken
  <1>10. WithdrawnBy(calls[c].event, calls[c].amount, rows') /\ (ok /\ Solvent(rows) => Solvent(rows'))
    BY Zenon, <1>1, <1>5, <1>6, <1>7
  <1> QED BY Zenon, <1>1, <1>2, <1>9, <1>10 DEF EndEffect

\* Every withdrawal that begins is one of these.
LEMMA BegunWithdrawal ==
    ASSUME LedgerSums, Typed, NEW c \in Caller,
           \/ \E e \in DOMAIN events : withdrawEventLiquidity(c, e)
           \/ createIncomingPaymentWithdrawal(c) \/ createWalletAddressWithdrawal(c)
    PROVE  \E e \in Nat, m \in Nat, timed \in BOOLEAN : Begins(c, e, m, timed)
  <1>1. TypedRows(rows) /\ EventsType
    BY Zenon DEF Typed
  <1>2. ASSUME NEW e \in DOMAIN events, withdrawEventLiquidity(c, e)
        PROVE  Begins(c, e, events[e].amount, FALSE) /\ e \in Nat /\ events[e].amount \in Nat
    <2>1. DOMAIN events = 1..Len(events) /\ events[e] \in Event
      BY Zenon, <1>1, SeqIs DEF EventsType
    <2>2. e \in Nat /\ events[e].amount \in Nat
      BY <1>1, <2>1, SeqIs DEF Event, EventsType
    <2> QED BY Zenon, <1>2, <2>2 DEF withdrawEventLiquidity, Begins
  <1>3. ASSUME createIncomingPaymentWithdrawal(c)
        PROVE  Begins(c, Len(events), total, TRUE) /\ Len(events) \in Nat /\ total \in Nat
    <2>1. Len(events) \in Nat /\ total \in Nat
      BY Zenon, <1>1, TotalType, SeqIs DEF EventsType
    <2> QED BY Zenon, <1>3, <2>1 DEF createIncomingPaymentWithdrawal, Begins
  <1>4. ASSUME createWalletAddressWithdrawal(c)
        PROVE  Begins(c, 0, getBalance(rows, "dest"), TRUE) /\ getBalance(rows, "dest") \in Nat
    <2> DEFINE m == getBalance(rows, "dest")
    <2>1. BeginWithdrawal(c, 0, m, TRUE) /\ ~isPayment
      BY Zenon, <1>4 DEF createWalletAddressWithdrawal
    <2>2. m \in Int
      BY Zenon, <1>1, TotalType
    <2> HIDE DEF m
    <2>3. m > 0
      BY Zenon, <2>1, <2>2, CallBegun DEF BeginEffect
    <2>4. m \in Nat
      BY <2>2, <2>3
    <2>5. Begins(c, 0, m, TRUE)
      BY Zenon, <2>1 DEF Begins
    <2> QED BY Zenon, <2>4, <2>5 DEF m
  <1>5. 0 \in Nat /\ TRUE \in BOOLEAN /\ FALSE \in BOOLEAN
    BY Zenon
  <1>6. ASSUME NEW e \in DOMAIN events, withdrawEventLiquidity(c, e)
        PROVE  \E d \in Nat, m \in Nat, timed \in BOOLEAN : Begins(c, d, m, timed)
    BY Zenon, <1>2, <1>5, <1>6
  <1> QED BY Zenon, <1>3, <1>4, <1>5, <1>6

\* A withdrawal is posted or voided.
LEMMA UpdatedWithdrawal ==
    ASSUME Typed, NEW r \in DOMAIN rows, NEW state \in {"POSTED", "VOIDED"}, UpdateWithdrawal(r, state)
    PROVE  UpdateEffect(r)
  <1>1. /\ rows' = updateTransferState(rows, {r}, state) /\ r[1] = "event"
        /\ UNCHANGED <<dest, objects, cached, pkt, received, worker, events, calls, faults, hist>>
    BY Zenon DEF UpdateWithdrawal
  <1>2. /\ TypedRows(rows') /\ Loosened(rows, rows')
        /\ \A q \in DOMAIN rows \ {r} : rows'[q] = rows[q]
    BY Zenon, <1>1, UpdateRows DEF Typed
  <1> QED BY Zenon, <1>1, <1>2 DEF UpdateEffect

\* A hold expires.
LEMMA LapsedHold ==
    ASSUME Typed, NEW r \in DOMAIN rows, HoldLapses(r)
    PROVE  LapseEffect
  <1>1. /\ rows' = lapse(rows, r)
        /\ UNCHANGED <<dest, objects, cached, pkt, received, worker, events, calls, faults, hist>>
    BY Zenon DEF HoldLapses
  <1>2. /\ TypedRows(rows') /\ Loosened(rows, rows')
        /\ \A q \in DOMAIN rows : rows'[q].state = rows[q].state
    BY Zenon, <1>1, LapseRows DEF Typed
  <1> QED BY Zenon, <1>1, <1>2 DEF LapseEffect

\* Every step keeps the types.
LEMMA TypedNext ==
    ASSUME LedgerSums, Typed, LedgerInv, FinalInv, [Next]_vars
    PROVE  Typed'
  <1>1. /\ TypedRows(rows) /\ dest \in Dest /\ CreditsType /\ CacheType /\ WorkerType
        /\ EventsType /\ CallsType /\ HistType /\ CountsType
    BY Zenon DEF Typed
  <1>2. dest' \in Dest
    BY Zenon, <1>1, DestTyped
  <1> DEFINE T == /\ TypedRows(rows') /\ CreditsType' /\ CacheType' /\ WorkerType'
                  /\ EventsType' /\ CallsType' /\ HistType' /\ CountsType'
  <1>3. T => Typed'
    BY Zenon, <1>2 DEF Typed
  <1>4. \A p \in Packet : \A at : CreditTo(p, at) => CreditsType'
    BY Zenon DEF CreditTo, CreditsType
  <1>5. ASSUME NEW p \in Packet, Accept(p) PROVE T
    <2>1. /\ CacheType' /\ (CreditTo(p, "checked") \/ CreditTo(p, "rejected"))
          /\ received' = received + pkt'[p].amount \/ UNCHANGED received
          /\ UNCHANGED <<rows, dest, worker, events, calls, faults, hist>>
      BY Zenon, <1>5, AcceptCredit DEF AcceptEffect
    <2>2. pkt'[p].amount \in Nat
      BY Zenon, <2>1 DEF CreditTo
    <2>3. CountsType'
      BY <1>1, <2>1, <2>2 DEF CountsType
    <2> QED BY Zenon, <1>1, <1>4, <2>1, <2>3, TypesKept
  <1>6. ASSUME NEW p \in Packet, Pay(p) PROVE T
    BY Zenon, <1>1, <1>4, <1>6, PayCredit, TypesKept DEF PayEffect
  <1>7. ASSUME NEW p \in Packet, ValidateCredit(p) PROVE T
    <2>1. /\ CreditsType' /\ pkt[p] # Idle
          /\ received' = received - pkt[p].amount \/ UNCHANGED received
          /\ UNCHANGED <<rows, dest, objects, cached, worker, events, calls, faults, hist>>
      BY Zenon, <1>4, <1>7, ValidatedCredit DEF ValidateEffect
    <2>2. pkt[p].amount \in Nat
      BY Zenon, <2>1, CreditAt DEF Typed, CreditIs
    <2>3. CountsType'
      BY <1>1, <2>1, <2>2 DEF CountsType
    <2> QED BY Zenon, <1>1, <2>1, <2>3, TypesKept
  <1>8. ASSUME NEW p \in Packet, HoldCredit(p) PROVE T
    <2>1. /\ CreditTo(p, "held") /\ HoldOf(p, rows') /\ HistType'
          /\ UNCHANGED <<dest, objects, cached, received, worker, events, calls, faults>>
      BY Zenon, <1>8, HeldCredit DEF HoldEffect
    <2> QED BY Zenon, <1>1, <1>4, <2>1, TypesKept DEF HoldOf
  <1>9. ASSUME NEW p \in Packet, Post(p) PROVE T
    <2>1. /\ TypedRows(rows') /\ CreditsType' /\ HistType'
          /\ UNCHANGED <<dest, objects, cached, received, worker, events, calls, faults>>
      BY Zenon, <1>4, <1>9, PostedCredit DEF PostEffect
    <2> QED BY Zenon, <1>1, <2>1, TypesKept
  <1>10. ASSUME NEW p \in Packet, ReadTotal(p) PROVE T
    BY Zenon, <1>1, <1>4, <1>10, ReadCredit, TypesKept DEF ReadEffect
  <1>11. ASSUME NEW p \in Packet, OnCredit(p) PROVE T
    <2>1. /\ CreditsType' /\ CacheType' /\ HistType'
          /\ UNCHANGED <<rows, cached, received, worker, events, calls, faults>>
      BY Zenon, <1>4, <1>11, ReportedCredit DEF ReportEffect
    <2> QED BY Zenon, <1>1, <2>1, TypesKept
  <1>12. ASSUME NEW p \in Packet, Die(p) PROVE T
    <2>1. /\ CreditTo(p, "dead") /\ faults' \in 0..MaxFaults
          /\ UNCHANGED <<rows, dest, objects, cached, received, worker, events, calls, hist>>
      BY Zenon, <1>12, DeadCredit DEF DieEffect
    <2>2. CountsType'
      BY Zenon, <1>1, <2>1 DEF CountsType
    <2> QED BY Zenon, <1>1, <1>4, <2>1, <2>2, TypesKept
  <1>13. CASE CacheExpires
    <2>1. /\ cached' = 0
          /\ UNCHANGED <<rows, dest, objects, pkt, received, worker, events, calls, faults, hist>>
      BY Zenon, <1>13 DEF CacheExpires
    <2>2. CacheType'
      BY <1>1, <2>1, SeqIs DEF CacheType
    <2> QED BY Zenon, <1>1, <1>3, <2>1, <2>2, TypesKept
  <1>14. CASE Due \/ completeIncomingPayment
    <2>1. UNCHANGED <<rows, objects, cached, pkt, received, worker, events, calls, faults, hist>>
      BY Zenon, <1>14 DEF Due, completeIncomingPayment
    <2> QED BY Zenon, <1>1, <1>3, <2>1, TypesKept
  <1>15. CASE ProcessNext
    <2>1. /\ worker' = [at |-> "read", total |-> total]
          /\ UNCHANGED <<rows, dest, objects, cached, pkt, received, events, calls, faults, hist>>
      BY Zenon, <1>15 DEF ProcessNext
    <2>2. WorkerType'
      BY Zenon, <1>1, <2>1, TotalType DEF WorkerType
    <2> QED BY Zenon, <1>1, <1>3, <2>1, <2>2, TypesKept
  <1>16. CASE handleExpired \/ handleDeactivated \/ createWithdrawalEvent
    <2>1. /\ worker' = Idle
          /\ UNCHANGED <<rows, objects, cached, pkt, received, calls, faults, hist>>
      BY Zenon, <1>16 DEF handleExpired, handleDeactivated, createWithdrawalEvent
    <2>2. WorkerType'
      BY Zenon, <2>1 DEF WorkerType
    <2>3. EventsType'
      <3>1. locked => worker.total \in Nat
        BY Zenon, <1>1 DEF WorkerType, locked
      <3>2. ~isPayment => dest.totalEvents \in Nat
        BY Zenon, <1>1 DEF Dest, isPayment
      <3>3. \/ UNCHANGED events
            \/ locked /\ worker.total > 0 /\ announce(worker.total)
            \/ /\ locked /\ ~isPayment /\ worker.total > dest.totalEvents
               /\ announce(worker.total - dest.totalEvents)
        BY Zenon, <1>16 DEF handleExpired, handleDeactivated, createWithdrawalEvent
      <3>4. ASSUME locked, worker.total > 0, announce(worker.total) PROVE EventsType'
        BY <1>1, <3>1, <3>4, EventWritten DEF AnnounceEffect
      <3>5. ASSUME locked, ~isPayment, worker.total > dest.totalEvents,
                   announce(worker.total - dest.totalEvents)
            PROVE  EventsType'
        <4>1. worker.total - dest.totalEvents \in Nat \ {0}
          BY <3>1, <3>2, <3>5
        <4> QED BY Zenon, <1>1, <3>5, <4>1, EventWritten DEF AnnounceEffect
      <3> QED BY Zenon, <1>1, <3>3, <3>4, <3>5, TypesKept
    <2> QED BY Zenon, <1>1, <1>3, <2>1, <2>2, <2>3, TypesKept
  <1>17. CASE WorkerDies
    <2>1. /\ worker' = Idle /\ faults' \in 0..MaxFaults
          /\ UNCHANGED <<rows, dest, objects, cached, pkt, received, events, calls, hist>>
      BY <1>1, <1>17, AmountAssumption DEF WorkerDies, CountsType
    <2>2. WorkerType' /\ CountsType'
      BY Zenon, <1>1, <2>1 DEF WorkerType, CountsType
    <2> QED BY Zenon, <1>1, <1>3, <2>1, <2>2, TypesKept
  <1>18. ASSUME NEW e \in DOMAIN events, NEW known \in BOOLEAN, NEW done \in BOOLEAN,
                sendWebhook(e, known, done)
         PROVE  T
    <2>1. EventsType'
      BY Zenon, <1>1, <1>18, EventSent DEF SendEffect
    <2>2. UNCHANGED <<rows, dest, objects, cached, pkt, received, worker, calls, faults, hist>>
      BY Zenon, <1>18 DEF sendWebhook
    <2> QED BY Zenon, <1>1, <2>1, <2>2, TypesKept
  <1>19. ASSUME NEW c \in Caller,
                \/ \E e \in DOMAIN events : withdrawEventLiquidity(c, e)
                \/ createIncomingPaymentWithdrawal(c) \/ createWalletAddressWithdrawal(c)
         PROVE  T
    <2>1. PICK e \in Nat, m \in Nat, timed \in BOOLEAN : Begins(c, e, m, timed)
      BY Zenon, <1>19, BegunWithdrawal
    <2>2. CallsType'
          /\ UNCHANGED <<rows, dest, objects, cached, pkt, received, worker, events, faults, hist>>
      BY <2>1, CallBegun DEF Begins, BeginEffect
    <2> QED BY Zenon, <1>1, <2>2, TypesKept
  <1>20. ASSUME NEW c \in Caller, EndWithdrawal(c) PROVE T
    <2>1. /\ CallsType' /\ WithdrawnBy(calls[c].event, calls[c].amount, rows') /\ HistType'
          /\ UNCHANGED <<dest, objects, cached, pkt, received, worker, events, faults>>
      BY Zenon, <1>20, EndedWithdrawal DEF EndEffect
    <2> QED BY Zenon, <1>1, <2>1, TypesKept DEF WithdrawnBy
  <1>21. ASSUME NEW r \in DOMAIN rows, NEW state \in {"POSTED", "VOIDED"}, UpdateWithdrawal(r, state)
         PROVE  T
    BY Zenon, <1>1, <1>21, UpdatedWithdrawal, TypesKept DEF UpdateEffect
  <1>22. ASSUME NEW r \in DOMAIN rows, HoldLapses(r) PROVE T
    BY Zenon, <1>1, <1>22, LapsedHold, TypesKept DEF LapseEffect
  <1>23. CASE UNCHANGED vars
    BY Zenon, <1>1, <1>3, <1>23, TypesKept DEF vars
  <1> HIDE DEF T
  <1>24. ASSUME NEW p \in Packet, CreditStep(p) PROVE T
    BY Zenon, <1>5, <1>6, <1>7, <1>8, <1>9, <1>10, <1>11, <1>24 DEF CreditStep
  <1>25. CASE WorkerStep
    BY Zenon, <1>15, <1>16, <1>25 DEF WorkerStep
  <1>26. ASSUME NEW e \in DOMAIN events,
                sendWebhook(e, TRUE, TRUE) \/ sendWebhook(e, TRUE, FALSE) \/ sendWebhook(e, FALSE, FALSE)
         PROVE  T
    BY Zenon, <1>18, <1>26
  <1> QED BY Zenon, <1>3, <1>12, <1>13, <1>14, <1>17, <1>19, <1>20, <1>21, <1>22, <1>23, <1>24,
                <1>25, <1>26
          DEF Next

\* The destination's transfers.

\* The destination stays of its kind.
LEMMA KindKept ==
    ASSUME FinalInv, [Next]_vars
    PROVE  /\ isPayment' <=> isPayment
           /\ isPayment => PaymentInv /\ PaymentInv'
           /\ ~isPayment => \E T : dest \in WalletOf(T)
  <1>1. \A T : dest \in WalletOf(T) => ~isPayment
    BY Zenon DEF WalletOf, isPayment
  <1>2. PaymentInv => isPayment
    BY Zenon DEF PaymentInv, PaymentRow, isPayment
  <1>3. ASSUME NEW T, dest \in WalletOf(T) PROVE ~isPayment'
    <2>1. \E U : dest' \in WalletOf(U)
      BY Zenon, <1>3, WalletStep
    <2> QED BY Zenon, <2>1 DEF WalletOf, isPayment
  <1>4. PaymentInv => PaymentInv' /\ isPayment'
    BY Zenon, PaymentStep DEF PaymentInv, PaymentRow, isPayment
  <1> QED BY Zenon, <1>1, <1>2, <1>3, <1>4 DEF FinalInv

\* A deposit: from the settlement account of the account's asset.
LEMMA DepositType ==
    ASSUME NEW a \in {"peer", "outgoing", "assetB"}
    PROVE  /\ deposit(a) \in Transfer /\ deposit(a).ref = <<a, 0>>
           /\ deposit(a).debit[2] = "settlement" /\ deposit(a).debit # Dst /\ deposit(a).credit # Dst
  <1> DEFINE A == AssetOf[a]
             t == [ref |-> <<a, 0>>, debit |-> Settlement(A), credit |-> Liquidity(a),
                   amount |-> Funds, timed |-> FALSE]
  <1>1. deposit(a) = t
    BY Zenon DEF deposit, createDeposit
  <1>2. a \in Refs /\ a # "dest"
    BY Zenon DEF Refs, Payers
  <1>3. Settlement(A) \in Account /\ Liquidity(a) \in Account /\ Settlement(A) # Dst
        /\ Liquidity(a) # Dst
    BY Zenon, <1>2, Accounts DEF Dst
  <1>4. Settlement(A)[2] = "settlement"
    BY Zenon DEF Settlement
  <1> HIDE DEF A
  <1>5. <<a, 0>> \in {<<x, i>> : x \in Packet \cup {"event", "peer", "outgoing", "assetB"}, i \in Nat}
    OBVIOUS
  <1>6. t \in Transfer /\ t.ref = <<a, 0>> /\ t.debit = Settlement(A) /\ t.credit = Liquidity(a)
    BY <1>3, <1>5, AmountAssumption DEF Transfer
  <1> HIDE DEF t
  <1> QED BY Zenon, <1>1, <1>3, <1>4, <1>6

-----------------------------------------------------------------------------
\* The facts.

\* What the steps of a credit do.
LEMMA CreditSteps ==
    ASSUME LedgerSums
    PROVE  CreditFacts
  <1>1. ASSUME NEW p \in Packet, Typed PROVE CreditIs(p)
    BY Zenon, <1>1, CreditAt DEF Typed
  <1>2. ASSUME NEW p \in Packet, Typed
        PROVE  /\ Accept(p) => AcceptEffect(p)
               /\ Pay(p) => PayEffect(p)
               /\ ValidateCredit(p) => ValidateEffect(p)
               /\ LedgerInv /\ HoldCredit(p) => HoldEffect(p)
               /\ LedgerInv /\ Post(p) => PostEffect(p)
    BY Zenon, <1>2, AcceptCredit, PayCredit, ValidatedCredit, HeldCredit, PostedCredit
  <1>3. ASSUME NEW p \in Packet, Typed
        PROVE  /\ ReadTotal(p) => ReadEffect(p)
               /\ OnCredit(p) => ReportEffect(p)
               /\ Die(p) => DieEffect(p)
    BY Zenon, <1>3, ReadCredit, ReportedCredit, DeadCredit
  <1> QED BY Zenon, <1>1, <1>2, <1>3 DEF CreditFacts

\* What the steps of a withdrawal do.
LEMMA CallSteps ==
    ASSUME LedgerSums
    PROVE  CallFacts
  <1>1. ASSUME NEW c \in Caller, Typed, NEW e \in Nat, NEW m \in Nat, NEW timed \in BOOLEAN,
               BeginWithdrawal(c, e, m, timed)
        PROVE  BeginEffect(c, e, m)
    <2>1. m \in Int
      OBVIOUS
    <2> QED BY Zenon, <1>1, <2>1, CallBegun
  <1> QED BY Zenon, <1>1, BegunWithdrawal, EndedWithdrawal DEF CallFacts

\* What the steps of a transfer and of an event do.
LEMMA RowSteps == RowFacts /\ EventFacts
  BY Zenon, UpdatedWithdrawal, LapsedHold, EventWritten, EventSent DEF RowFacts, EventFacts

\* What the steps of the destination do.
LEMMA DestSteps == DestFacts
  <1>1. \A d \in PaymentRow, s \in Status, w \in When : PaymentTurns(d, s, w)
    BY Zenon, PaymentTurnedAt DEF PaymentTurns
  <1> QED BY Zenon, <1>1, NextCases, PaymentStep DEF DestFacts

\* Types by parts are the types of Receiving.
LEMMA TypedIsTypeOK == Typed => TypeOK
  BY Zenon DEF Typed, TypeOK, TypedRows, CreditsType, CreditState, CacheType, WorkerType, EventsType,
         Event, CallsType, Call, HistType, CountsType
=============================================================================
