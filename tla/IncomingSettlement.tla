------------------------- MODULE IncomingSettlement -------------------------
(***************************************************************************)
(* The node's settlement endpoint, for one account: the engine reports     *)
(* that the peer has paid, receive_settlement credits the account.  The    *)
(* engine's unit may be finer than the account's: what cannot be credited  *)
(* is kept as leftovers and added to a later settlement.                   *)
(*                                                                         *)
(* A call has one action for every store call.  The engine sends a         *)
(* settlement again, under the same idempotency key, when it had no        *)
(* answer.  Keys do not expire within a behaviour (the store keeps them    *)
(* for a day).                                                             *)
(***************************************************************************)
EXTENDS RedisAccounts, Sequences, FiniteSets, Functions

CONSTANTS
    Settlement,         \* what the engine reports: [key, amount, scale]
    NoKey,              \* the key of a call without the idempotency header
    AssetScale,         \* asset_scale of the account
    MaxU64,
    MaxCalls, MaxLive,
    MaxOverlaps,        \* how often the engine retries before its first call ended
    MaxCrashes, MaxStoreFailures

VARIABLES
    hash,       \* Redis: the account
    usedKeys,   \* Redis: the keys process_incoming_settlement has set
    saved,      \* Redis: the idempotency data by key
    leftovers,  \* Redis: list of uncredited amounts with their scales
    calls,      \* the calls to the endpoint so far
    faults

settlementVars == <<hash, usedKeys, saved, leftovers, calls, faults>>

Key == {s.key : s \in Settlement}
Amount == [num : Nat, scale : Nat]
Saved == [status : {"none", "ok", "error"}, input : Settlement]
Fault == {"overlap", "crash", "store"}
Half == {"todo", "ok", "error"}
Call == [input : Settlement, loaded : Nat, loss : Amount,
         update : Half, save : Half, reply : {"none", "ok", "error"},
         pc : {"check", "load", "push", "update", "save", "saveError", "done", "dead"}]

ASSUME SettlementAssumption ==
    /\ \A s \in Settlement : s.amount \in Nat /\ s.scale \in Nat
    /\ AssetScale \in Nat /\ MaxU64 \in Nat
    /\ {MaxCalls, MaxLive, MaxOverlaps, MaxCrashes, MaxStoreFailures} \subseteq Nat

\* The account, the leftovers and the calls have the types of the code: no
\* credited amount and no precision loss is negative.
SettlementTypeOK ==
    /\ hash \in Hash
    /\ usedKeys \subseteq Key
    /\ saved \in [Key -> Saved]
    /\ leftovers \in Seq(Amount)
    /\ calls \in Seq(Call)
    /\ faults \in [Fault -> Nat]

SettlementInit ==
    /\ hash = NewAccount
    /\ usedKeys = {}
    /\ saved = [k \in Key |-> [status |-> "none", input |-> CHOOSE s \in Settlement : TRUE]]
    /\ leftovers = <<>>
    /\ calls = <<>>
    /\ faults = [f \in Fault |-> 0]

-----------------------------------------------------------------------------
\* Convert::normalize_scale of a BigUint
NormalizeScale(n, from, to) ==
    IF to >= from THEN n * 10^(to - from) ELSE n \div 10^(from - to)

PrecisionLossSwapped(n, local, remote) ==
    LET upscaled == NormalizeScale(NormalizeScale(n, remote, local), local, remote)
    IN  IF local < remote THEN upscaled - n ELSE 0

\* scale_with_precision_loss: its second result, in the remote scale
PrecisionLoss(n, local, remote) ==
    LET upscaled == NormalizeScale(NormalizeScale(n, remote, local), local, remote)
    IN  IF local < remote /\ upscaled < n THEN n - upscaled ELSE 0

\* AmountWithScale::parse_multi_values: the sum, in the largest scale.
SumOfLeftovers ==
    LET max == FoldFunction(LAMBDA x, s : IF x.scale > s THEN x.scale ELSE s, 0, leftovers)
    IN  [num |-> FoldFunction(LAMBDA x, n : n + NormalizeScale(x.num, x.scale, max), 0, leftovers),
         scale |-> max]

OpenCall(c) == c.pc \notin {"done", "dead"}
Live == {i \in DOMAIN calls : OpenCall(calls[i])}
At(i, pc) == i \in Live /\ calls[i].pc = pc
Goto(i, pc) == calls' = [calls EXCEPT ![i].pc = pc]
Answer(i, reply) == calls' = [calls EXCEPT ![i] = [@ EXCEPT !.pc = "done", !.reply = reply]]
Happens(f, max) == faults[f] < max /\ faults' = [faults EXCEPT ![f] = @ + 1]

\* The engine posts a settlement.
Send(s) ==
    /\ Len(calls) < MaxCalls
    /\ Cardinality(Live) < MaxLive
    /\ IF \E i \in Live : calls[i].input.key = s.key /\ s.key # NoKey
       THEN Happens("overlap", MaxOverlaps)
       ELSE UNCHANGED faults
    /\ calls' = Append(calls,
          [input |-> s, loaded |-> 0, loss |-> [num |-> 0, scale |-> 0], update |-> "todo",
           save |-> "todo", reply |-> "none", pc |-> "check"])
    /\ UNCHANGED <<hash, usedKeys, saved, leftovers>>

CheckNever(i) ==
    /\ At(i, "check")
    /\ Goto(i, "load")
    /\ UNCHANGED <<hash, usedKeys, saved, leftovers, faults>>

\* make_idempotent_call: a known key is answered as before, or with a
\* conflict if its input was another one.
Check(i) ==
    LET k == calls[i].input.key
    IN  /\ At(i, "check")
        /\ IF k = NoKey \/ saved[k].status = "none" THEN Goto(i, "load")
           ELSE Answer(i, IF saved[k].input = calls[i].input THEN saved[k].status ELSE "error")
        /\ UNCHANGED <<hash, usedKeys, saved, leftovers, faults>>

LoadKeeps(i) ==
    LET sum == SumOfLeftovers
    IN  /\ At(i, "load")
        /\ calls' = [calls EXCEPT ![i] = [@ EXCEPT
                        !.loaded = NormalizeScale(sum.num, sum.scale, AssetScale),
                        !.pc = "update"]]
        /\ UNCHANGED <<hash, usedKeys, saved, leftovers, faults>>

\* load_uncredited_settlement_amount, up to its first await: takes the
\* leftovers out of the store and scales them.
Load(i) ==
    LET sum == SumOfLeftovers
        loss == PrecisionLoss(sum.num, AssetScale, sum.scale)
    IN  /\ At(i, "load")
        /\ leftovers' = <<>>
        /\ calls' = [calls EXCEPT ![i] = [@ EXCEPT
                        !.loaded = NormalizeScale(sum.num, sum.scale, AssetScale),
                        !.loss = [num |-> loss,
                                  scale |-> IF AssetScale > sum.scale THEN AssetScale ELSE sum.scale],
                        !.pc = IF loss > 0 THEN "push" ELSE "update"]]
        /\ UNCHANGED <<hash, usedKeys, saved, faults>>

\* ... and puts back what the account's scale cannot express.
Push(i) ==
    /\ At(i, "push")
    /\ leftovers' = Append(leftovers, calls[i].loss)
    /\ Goto(i, "update")
    /\ UNCHANGED <<hash, usedKeys, saved, faults>>

JoinUnchecked(c) ==
    IF c.update = "todo" \/ c.save = "todo" THEN c ELSE [c EXCEPT !.pc = "save"]

\* join_all: when both futures have finished, the call goes on.
Join(c) ==
    IF c.update = "todo" \/ c.save = "todo" THEN c
    ELSE [c EXCEPT !.pc = IF c.update = "error" \/ c.save = "error" THEN "saveError" ELSE "save"]

\* The whole units of this settlement and of the leftovers, at most u64::MAX.
CreditedAmount(c) ==
    LET total == NormalizeScale(c.input.amount, c.input.scale, AssetScale) + c.loaded
    IN  IF total > MaxU64 THEN MaxU64 ELSE total

\* update_balance_for_incoming_settlement: process_incoming_settlement does
\* nothing for a key it has seen.
UpdateBalance(i) ==
    /\ At(i, "update") /\ calls[i].update = "todo"
    /\ calls[i].input.key # NoKey
    /\ IF calls[i].input.key \in usedKeys
       THEN UNCHANGED <<hash, usedKeys>>
       ELSE /\ usedKeys' = usedKeys \cup {calls[i].input.key}
            /\ hash' = ProcessIncoming(hash, CreditedAmount(calls[i]))
    /\ calls' = [calls EXCEPT ![i] = Join([@ EXCEPT !.update = "ok"])]
    /\ UNCHANGED <<saved, leftovers, faults>>

\* ... and unwraps the key: without one the call panics before its other
\* future is polled.
Panic(i) ==
    /\ At(i, "update") /\ calls[i].update = "todo"
    /\ calls[i].input.key = NoKey
    /\ Goto(i, "dead")
    /\ UNCHANGED <<hash, usedKeys, saved, leftovers, faults>>

\* save_uncredited_settlement_amount, of a loss of zero too
SaveLeftover(i) ==
    LET s == calls[i].input
    IN  /\ At(i, "update") /\ calls[i].save = "todo"
        /\ s.key # NoKey
        /\ leftovers' = Append(leftovers, [num |-> PrecisionLoss(s.amount, AssetScale, s.scale),
                                           scale |-> s.scale])
        /\ calls' = [calls EXCEPT ![i] = Join([@ EXCEPT !.save = "ok"])]
        /\ UNCHANGED <<hash, usedKeys, saved, faults>>

\* save_idempotent_data, of a success or of an error, and the answer
SaveResponse(i, status) ==
    /\ At(i, IF status = "ok" THEN "save" ELSE "saveError")
    /\ saved' = IF calls[i].input.key = NoKey THEN saved
                ELSE [saved EXCEPT ![calls[i].input.key] =
                         [status |-> status, input |-> calls[i].input]]
    /\ Answer(i, status)
    /\ UNCHANGED <<hash, usedKeys, leftovers, faults>>

\* A store call fails, the load of the account included.  What the call has
\* done so far stays.
StoreFails(i) ==
    /\ i \in Live
    /\ Happens("store", MaxStoreFailures)
    /\ \/ calls[i].pc \in {"check", "save", "saveError"} /\ Answer(i, "error")
       \/ calls[i].pc \in {"load", "push"} /\ Goto(i, "saveError")
       \/ /\ calls[i].pc = "update" /\ calls[i].update = "todo" /\ calls[i].input.key # NoKey
          /\ calls' = [calls EXCEPT ![i] = Join([@ EXCEPT !.update = "error"])]
       \/ /\ calls[i].pc = "update" /\ calls[i].save = "todo" /\ calls[i].input.key # NoKey
          /\ calls' = [calls EXCEPT ![i] = Join([@ EXCEPT !.save = "error"])]
    /\ UNCHANGED <<hash, usedKeys, saved, leftovers>>

\* The node restarts in the middle of the open calls.
Crash ==
    /\ Happens("crash", MaxCrashes)
    /\ calls' = [i \in DOMAIN calls |->
                    IF OpenCall(calls[i]) THEN [calls[i] EXCEPT !.pc = "dead"] ELSE calls[i]]
    /\ UNCHANGED <<hash, usedKeys, saved, leftovers>>

CallStep(i) ==
    \/ Check(i) \/ Load(i) \/ Push(i) \/ UpdateBalance(i) \/ Panic(i) \/ SaveLeftover(i)
    \/ SaveResponse(i, "ok") \/ SaveResponse(i, "error") \/ StoreFails(i)

SettlementNext ==
    \/ \E s \in Settlement : Send(s)
    \/ \E i \in DOMAIN calls : CallStep(i)
    \/ Crash

SettlementSpec == SettlementInit /\ [][SettlementNext]_settlementVars

-----------------------------------------------------------------------------
\* A call that was answered with success has credited its settlement, now or
\* in an earlier call with its key: whatever overlaps, fails or crashes, the
\* engine may forget a settlement it was told is RECEIVED.
SuccessMeansCredited ==
    \A i \in DOMAIN calls : calls[i].reply = "ok" => calls[i].input.key \in usedKeys

\* What was saved under a key as a success is never replaced by an error, as
\* long as the engine waits for an answer before it tries a key again: the
\* saved answer, not another execution, answers the retry.
SuccessIsFinal ==
    [][faults["overlap"] = 0 =>
           \A k \in Key : saved[k].status = "ok" => saved'[k].status = "ok"]_settlementVars

=============================================================================
