------------------------ MODULE MCIncomingSettlement ------------------------
(* Small instances of IncomingSettlement, and the properties that need sums. *)
EXTENDS IncomingSettlement, FiniteSetsExt, TLC

CONSTANTS acc, k1, k2, k3

OneAccount == {acc}
Zero == [a \in OneAccount |-> 0]

Report(k, n, s) == [key |-> k, amount |-> n, scale |-> s]
\* An account with whole units, an engine that counts tenths or hundredths:
\* 1.5 and 1.65 units, and 2 units that need no rounding.
Rounded == {Report(k1, 15, 1), Report(k2, 165, 2)}
\* The same key for two amounts, and a call without a key.
AllReports == Rounded \cup {Report(k3, 2, 0), Report(k1, 7, 1), Report(NoKey, 15, 1)}

\* Everything in hundredths of the account's unit.
Fine(n, scale) == n * 10^(2 - scale)
Credited == Fine(Position(hash), AssetScale)
Left == FoldFunction(LAMBDA x, n : n + Fine(x.num, x.scale), 0, leftovers)

Undisturbed ==
    /\ \A f \in Fault : faults[f] = 0
    /\ \A i \in DOMAIN calls : calls[i].pc # "dead"

\* What was credited and what is left over is never more than the whole units
\* the engine reported, each key once, and a remainder for every call: a retry
\* that overlaps its first call, or follows one that failed half-way, may store
\* the remainder again, as save_uncredited_settlement_amount has no key, but
\* process_incoming_settlement never credits the settlement itself again.  And
\* once no call is open, if nothing failed and the engine waited for its answers,
\* it is exactly what the engine reported, each key once: settlements that overlap
\* neither lose nor duplicate each other's leftovers, although they are taken in
\* one transaction and put back in separate calls.
NothingLost ==
    LET whole(k) == Max({NormalizeScale(s.amount, s.scale, AssetScale) :
                            s \in {t \in Settlement : t.key = k}})
        rest(i) == Fine(PrecisionLoss(calls[i].input.amount, AssetScale, calls[i].input.scale),
                        calls[i].input.scale)
        reported(k) == Fine(saved[k].input.amount, saved[k].input.scale)
    IN  /\ Credited + Left <=
                MapThenSumSet(LAMBDA k : Fine(whole(k), AssetScale), usedKeys)
              + MapThenSumSet(rest, DOMAIN calls)
        /\ Undisturbed /\ Live = {} => Credited + Left = MapThenSumSet(reported, usedKeys)
=============================================================================
