--------------------------- MODULE BalanceService ---------------------------
(***************************************************************************)
(* The balance service of a node: what a Prepare, its Fulfill or its       *)
(* Reject do to the accounts, the settlements they trigger at once or      *)
(* after a delay, and the settlement client's retries.                     *)
(*                                                                         *)
(* A task is a request in send_request, or the spawned task that applies   *)
(* its reply, or the spawned task of an expired timeout.  It has one       *)
(* action for every store call, engine call or channel send.  A task that  *)
(* ended early, or that a crash ended, keeps the pc it had reached and is  *)
(* no longer alive.                                                        *)
(***************************************************************************)
EXTENDS RedisAccounts, Sequences, FiniteSets, Functions

CONSTANTS
    HasEngine,          \* accounts with settlement engine details
    Packet,             \* the requests the service is given
    IncomingAmount,     \* amounts of the incoming settlements
    TimeBased,          \* Policy::TimeBased, or Policy::ThresholdOnly
    ChannelSize,        \* capacity of the ManageTimeout channel
    MaxRetries,         \* MAX_RETRIES of the settlement client
    MaxPackets, MaxLive, MaxIncoming,
    MaxCrashes, MaxStoreFailures, MaxEngineFailures, MaxLostAnswers

VARIABLES
    accounts,   \* Redis: the hash of every account
    tasks,      \* every task so far, in the order they started
    channel,    \* ManageTimeout commands on their way to the background task
    timeouts,   \* the background task's DelayQueue: accounts with a pending timeout
    inQueue,    \* the background task's in_queue: accounts whose key it holds
    engine,     \* what the settlement engine has accepted to pay, by account
    received,   \* incoming settlements credited, by account
    faults      \* how many of each fault have happened

vars == <<accounts, tasks, channel, timeouts, inQueue, engine, received, faults>>

ASSUME PacketAssumption ==
    /\ \A p \in Packet :
          /\ p.from \in Account /\ p.to \in Account
          /\ p.incoming \in Nat /\ p.outgoing \in Nat
    /\ HasEngine \subseteq Account
    /\ IncomingAmount \subseteq Nat
    /\ TimeBased \in BOOLEAN

ASSUME BoundAssumption ==
    {ChannelSize, MaxRetries, MaxPackets, MaxLive, MaxIncoming,
     MaxCrashes, MaxStoreFailures, MaxEngineFailures, MaxLostAnswers} \subseteq Nat

Pc == {"forwarded", "fulfilled", "rejected", "credited", "expired",
       "settling", "refunding", "done"}
Replies == {"none", "fulfilled", "rejected"}
Fault == {"incoming", "crash", "store", "engine", "lost"}
Command == [cmd : {"Set", "Clear"}, id : Account]
Task == [from : Account, to : Account, incoming : Nat, outgoing : Nat, pc : Pc,
         reply : Replies, balance : Int, amount : Nat, attempt : Nat, alive : BOOLEAN]

\* The hashes, the tasks, the channel and the counters have the types of the
\* code: a prepaid amount and an amount to settle are never negative.
TypeOK ==
    /\ accounts \in [Account -> Hash]
    /\ tasks \in Seq(Task)
    /\ channel \in Seq(Command)
    /\ timeouts \subseteq Account
    /\ inQueue \subseteq Account
    /\ engine \in [Account -> Nat]
    /\ received \in [Account -> Nat]
    /\ faults \in [Fault -> Nat]

Init ==
    /\ accounts = [a \in Account |-> NewAccount]
    /\ tasks = <<>>
    /\ channel = <<>>
    /\ timeouts = {}
    /\ inQueue = {}
    /\ engine = [a \in Account |-> 0]
    /\ received = [a \in Account |-> 0]
    /\ faults = [f \in Fault |-> 0]

-----------------------------------------------------------------------------
NewTask(p, pc, reply) ==
    [from |-> p.from, to |-> p.to, incoming |-> p.incoming, outgoing |-> p.outgoing,
     pc |-> pc, reply |-> reply, balance |-> 0, amount |-> 0, attempt |-> 1, alive |-> TRUE]

Running(t) == t.alive /\ t.pc # "done"
Live == {i \in DOMAIN tasks : Running(tasks[i])}
At(i, pc) == i \in Live /\ tasks[i].pc = pc
Delayed(t) == t.reply = "none" /\ t.pc # "forwarded"

Goto(i, pc) == tasks' = [tasks EXCEPT ![i].pc = pc]
Happens(f, max) == faults[f] < max /\ faults' = [faults EXCEPT ![f] = @ + 1]

\* One request more: MaxPackets in all, MaxLive at a time.
Admitted ==
    /\ Cardinality({i \in DOMAIN tasks : ~Delayed(tasks[i])}) < MaxPackets
    /\ Cardinality(Live) < MaxLive

\* update_balances_for_prepare.  A packet that would bring the account under
\* its minimum is rejected and changes nothing.
Prepare(p) ==
    /\ Admitted
    /\ WithinMinimum(accounts[p.from], p.from, p.incoming)
    /\ accounts' = [accounts EXCEPT ![p.from] = ProcessPrepare(@, p.incoming)]
    /\ tasks' = Append(tasks, NewTask(p, "forwarded", "none"))
    /\ UNCHANGED <<channel, timeouts, inQueue, engine, received, faults>>

\* The store executes the prepare but its answer is lost: the request is
\* rejected and nothing restores the balance.
PrepareAnswerLost(p) ==
    /\ Admitted
    /\ WithinMinimum(accounts[p.from], p.from, p.incoming)
    /\ Happens("store", MaxStoreFailures)
    /\ accounts' = [accounts EXCEPT ![p.from] = ProcessPrepare(@, p.incoming)]
    /\ tasks' = Append(tasks, [NewTask(p, "rejected", "rejected") EXCEPT !.alive = FALSE])
    /\ UNCHANGED <<channel, timeouts, inQueue, engine, received>>

\* The next service answers.  The reply is relayed at once, and a task is
\* spawned for what it does to the balances.
Fulfilled(i) ==
    /\ At(i, "forwarded")
    /\ tasks' = [tasks EXCEPT ![i] = [@ EXCEPT
                    !.reply = "fulfilled",
                    !.pc = IF tasks[i].outgoing > 0 THEN "fulfilled" ELSE "done"]]
    /\ UNCHANGED <<accounts, channel, timeouts, inQueue, engine, received, faults>>

Rejected(i) ==
    /\ At(i, "forwarded")
    /\ tasks' = [tasks EXCEPT ![i] = [@ EXCEPT !.reply = "rejected", !.pc = "rejected"]]
    /\ UNCHANGED <<accounts, channel, timeouts, inQueue, engine, received, faults>>

\* update_balances_for_reject
RollBack(i) ==
    /\ At(i, "rejected")
    /\ accounts' = [accounts EXCEPT ![tasks[i].from] = ProcessReject(@, tasks[i].incoming)]
    /\ Goto(i, "done")
    /\ UNCHANGED <<channel, timeouts, inQueue, engine, received, faults>>

\* A settling script ran for the task: it is told the balance and the amount.
Apply(i, result, pc, alive) ==
    /\ accounts' = [accounts EXCEPT ![tasks[i].to] = result.hash]
    /\ tasks' = [tasks EXCEPT ![i] = [@ EXCEPT
                    !.pc = pc,
                    !.balance = Position(result.hash),
                    !.amount = result.amount,
                    !.alive = alive]]

FulfillResult(i) == ProcessFulfill(accounts[tasks[i].to], tasks[i].to, tasks[i].outgoing)
SettleResult(i) == ProcessSettle(accounts[tasks[i].to], tasks[i].to)
AfterSettle(i) == IF SettleResult(i).amount = 0 THEN "done" ELSE "settling"

\* update_balances_for_fulfill, in settle_or_rollback_now
Credit(i) ==
    /\ At(i, "fulfilled")
    /\ Apply(i, FulfillResult(i), "credited", TRUE)
    /\ UNCHANGED <<channel, timeouts, inQueue, engine, received, faults>>

\* try_send: a command that finds the channel full is dropped.
TrySend(cmd, id) ==
    channel' = IF TimeBased /\ Len(channel) < ChannelSize
               THEN Append(channel, [cmd |-> cmd, id |-> id])
               ELSE channel

ScheduleNever(i) ==
    /\ At(i, "credited")
    /\ tasks[i].amount = 0
    /\ channel' = channel
    /\ Goto(i, "done")
    /\ UNCHANGED <<accounts, timeouts, inQueue, engine, received, faults>>

\* Below the threshold: settle_later, if the account has anything.
Schedule(i) ==
    /\ At(i, "credited")
    /\ tasks[i].amount = 0
    /\ IF tasks[i].balance > 0 THEN TrySend("Set", tasks[i].to) ELSE channel' = channel
    /\ Goto(i, "done")
    /\ UNCHANGED <<accounts, timeouts, inQueue, engine, received, faults>>

\* Over the threshold: clear_later, then the settlement.
StartSettlement(i) ==
    /\ At(i, "credited")
    /\ tasks[i].amount > 0
    /\ TrySend("Clear", tasks[i].to)
    /\ Goto(i, "settling")
    /\ UNCHANGED <<accounts, timeouts, inQueue, engine, received, faults>>

-----------------------------------------------------------------------------
\* ManageTimeout::Set: an account whose timeout is pending keeps it.
SetTimeout(id) ==
    IF id \in inQueue
    THEN UNCHANGED <<timeouts, inQueue>>
    ELSE timeouts' = timeouts \cup {id} /\ inQueue' = inQueue \cup {id}

\* ManageTimeout::Clear
ClearTimeout(id) ==
    IF id \in inQueue
    THEN timeouts' = timeouts \ {id} /\ inQueue' = inQueue \ {id}
    ELSE UNCHANGED <<timeouts, inQueue>>

\* The background task of delayed settlements takes one command, ...
HandleCommand ==
    /\ channel # <<>>
    /\ channel' = Tail(channel)
    /\ IF Head(channel).cmd = "Set"
       THEN SetTimeout(Head(channel).id)
       ELSE ClearTimeout(Head(channel).id)
    /\ UNCHANGED <<accounts, tasks, engine, received, faults>>

DelayedTask(a) ==
    NewTask([from |-> a, to |-> a, incoming |-> 0, outgoing |-> 0], "expired", "none")

\* ... or one expired timeout, for which it spawns a task.
Expire(a) ==
    /\ a \in timeouts
    /\ timeouts' = timeouts \ {a}
    /\ inQueue' = inQueue \ {a}
    /\ tasks' = Append(tasks, DelayedTask(a))
    /\ UNCHANGED <<accounts, channel, engine, received, faults>>

\* update_balances_for_delayed_settlement, once the account was loaded.
SettleDelayed(i) ==
    /\ At(i, "expired")
    /\ Apply(i, SettleResult(i), AfterSettle(i), TRUE)
    /\ UNCHANGED <<channel, timeouts, inQueue, engine, received, faults>>

-----------------------------------------------------------------------------
\* settle_or_rollback: without engine details the task just ends.
NoEngine(i) ==
    /\ At(i, "settling")
    /\ tasks[i].to \notin HasEngine
    /\ Goto(i, "done")
    /\ UNCHANGED <<accounts, channel, timeouts, inQueue, engine, received, faults>>

\* send_settlement: the engine accepts and says so, ...
EngineAccepts(i) ==
    /\ At(i, "settling")
    /\ tasks[i].to \in HasEngine
    /\ engine' = [engine EXCEPT ![tasks[i].to] = @ + tasks[i].amount]
    /\ Goto(i, "done")
    /\ UNCHANGED <<accounts, channel, timeouts, inQueue, received, faults>>

\* ... or refuses with a 4xx, which is not retried, ...
EngineRefuses(i) ==
    /\ At(i, "settling")
    /\ tasks[i].to \in HasEngine
    /\ Happens("engine", MaxEngineFailures)
    /\ Goto(i, "refunding")
    /\ UNCHANGED <<accounts, channel, timeouts, inQueue, engine, received>>

\* RequestErrorHandler: retried, until the attempts are used up.
Retry(i) ==
    tasks' = [tasks EXCEPT ![i] = [@ EXCEPT
                 !.pc = IF tasks[i].attempt > MaxRetries THEN "refunding" ELSE "settling",
                 !.attempt = tasks[i].attempt + 1]]

\* ... or fails: a 5xx, a refused connection, a timeout.
EngineFails(i) ==
    /\ At(i, "settling")
    /\ tasks[i].to \in HasEngine
    /\ Happens("engine", MaxEngineFailures)
    /\ Retry(i)
    /\ UNCHANGED <<accounts, channel, timeouts, inQueue, engine, received>>

\* ... or accepts, but the answer comes too late or not at all.  Every
\* attempt has an idempotency key of its own, so the engine takes the next
\* one for another settlement.
EngineAnswerLost(i) ==
    /\ At(i, "settling")
    /\ tasks[i].to \in HasEngine
    /\ Happens("lost", MaxLostAnswers)
    /\ engine' = [engine EXCEPT ![tasks[i].to] = @ + tasks[i].amount]
    /\ Retry(i)
    /\ UNCHANGED <<accounts, channel, timeouts, inQueue, received>>

RefundNothing(i) ==
    /\ At(i, "refunding")
    /\ tasks' = [tasks EXCEPT ![i] = [@ EXCEPT !.pc = "done", !.amount = 0]]
    /\ UNCHANGED <<accounts, channel, timeouts, inQueue, engine, received, faults>>

\* refund_settlement: the amount is no longer settled.
Refund(i) ==
    /\ At(i, "refunding")
    /\ accounts' = [accounts EXCEPT ![tasks[i].to] = RefundSettlement(@, tasks[i].amount)]
    /\ tasks' = [tasks EXCEPT ![i] = [@ EXCEPT !.pc = "done", !.amount = 0]]
    /\ UNCHANGED <<channel, timeouts, inQueue, engine, received, faults>>

-----------------------------------------------------------------------------
\* An incoming settlement of a new idempotency key; receive_settlement refuses
\* one for an account without engine.
Incoming(a, amount) ==
    /\ a \in HasEngine
    /\ Happens("incoming", MaxIncoming)
    /\ accounts' = [accounts EXCEPT ![a] = ProcessIncoming(@, amount)]
    /\ received' = [received EXCEPT ![a] = @ + amount]
    /\ UNCHANGED <<tasks, channel, timeouts, inQueue, engine>>

\* A store call fails without having run: the error is logged, the task ends.
StoreFails(i) ==
    /\ i \in Live
    /\ tasks[i].pc \in {"fulfilled", "rejected", "expired", "refunding"}
    /\ Happens("store", MaxStoreFailures)
    /\ tasks' = [tasks EXCEPT ![i].alive = FALSE]
    /\ UNCHANGED <<accounts, channel, timeouts, inQueue, engine, received>>

\* A settling script runs but its answer is lost: so is the amount to settle.
StoreAnswerLost(i) ==
    /\ \/ At(i, "fulfilled") /\ Apply(i, FulfillResult(i), "credited", FALSE)
       \/ At(i, "expired") /\ Apply(i, SettleResult(i), AfterSettle(i), FALSE)
    /\ Happens("store", MaxStoreFailures)
    /\ UNCHANGED <<channel, timeouts, inQueue, engine, received>>

\* The node restarts: tasks, channel and timeouts are gone, Redis remains.
Crash ==
    /\ Happens("crash", MaxCrashes)
    /\ tasks' = [i \in DOMAIN tasks |->
                    IF Running(tasks[i]) THEN [tasks[i] EXCEPT !.alive = FALSE] ELSE tasks[i]]
    /\ channel' = <<>>
    /\ timeouts' = {}
    /\ inQueue' = {}
    /\ UNCHANGED <<accounts, engine, received>>

TaskStep(i) ==
    \/ Fulfilled(i) \/ Rejected(i) \/ RollBack(i) \/ Credit(i)
    \/ Schedule(i) \/ StartSettlement(i) \/ SettleDelayed(i)
    \/ NoEngine(i) \/ EngineAccepts(i) \/ EngineRefuses(i) \/ EngineFails(i)
    \/ EngineAnswerLost(i) \/ Refund(i) \/ StoreFails(i) \/ StoreAnswerLost(i)

Next ==
    \/ \E p \in Packet : Prepare(p) \/ PrepareAnswerLost(p)
    \/ \E i \in DOMAIN tasks : TaskStep(i)
    \/ HandleCommand
    \/ \E a \in Account : Expire(a)
    \/ \E a \in Account, amount \in IncomingAmount : Incoming(a, amount)
    \/ Crash

Spec == Init /\ [][Next]_vars

\* Tokio polls every task, the engine answers, timeouts expire.
Fairness ==
    /\ \A i \in 1..(2 * MaxPackets) : WF_vars(TaskStep(i))
    /\ WF_vars(HandleCommand)
    /\ \A a \in Account : WF_vars(Expire(a))

FairSpec == Spec /\ Fairness

-----------------------------------------------------------------------------
OverFloor(a, h) ==
    \/ Position(h) >= 0
    \/ Position(h) >= MinBalance[a]
    \/ a \in HasSettlement /\ Position(h) >= SettleTo[a]

\* An account with a minimum never falls below it, nor below zero, nor below
\* the level its settlements bring it down to, whatever tasks, settlements,
\* refunds and crashes interleave (process_prepare's check against the
\* balance that the other scripts move).
AboveFloor == \A a \in HasMinimum : OverFloor(a, accounts[a])

\* in_queue and the DelayQueue name the same accounts, so that an expired
\* account always has its key ("unsure if this can ever be none") and a
\* cleared key is always in the queue (DelayQueue::remove panics otherwise).
KeysMatchTimeouts == inQueue = timeouts

-----------------------------------------------------------------------------
\* The books.  A task's part in them, for account a: what its reply says that
\* the account is owed, ...
Owed(t, a) ==
    IF t.reply # "fulfilled" THEN 0
    ELSE (IF t.to = a THEN t.outgoing ELSE 0) - (IF t.from = a THEN t.incoming ELSE 0)

Earned(t, a) == IF t.to = a /\ t.reply = "fulfilled" THEN t.outgoing ELSE 0

\* ... what it has taken off the balance to be settled, ...
Settled(t, a) == IF t.to = a THEN t.amount ELSE 0
Underway(t, a) == IF Running(t) THEN Settled(t, a) ELSE 0

\* ... and what it still has to give to the account, or has settled.
Held(t, a) ==
    CASE t.pc \in {"forwarded", "rejected"} /\ t.from = a -> t.incoming
      [] t.pc = "fulfilled" /\ t.to = a -> t.outgoing
      [] t.pc \in {"credited", "settling", "refunding", "done"} -> Settled(t, a)
      [] OTHER -> 0

\* All tasks together.
AllOwed(a) == SumFunction([i \in DOMAIN tasks |-> Owed(tasks[i], a)])
AllEarned(a) == SumFunction([i \in DOMAIN tasks |-> Earned(tasks[i], a)])
AllSettled(a) == SumFunction([i \in DOMAIN tasks |-> Settled(tasks[i], a)])
AllUnderway(a) == SumFunction([i \in DOMAIN tasks |-> Underway(tasks[i], a)])
AllHeld(a) == SumFunction([i \in DOMAIN tasks |-> Held(tasks[i], a)])

NoFaults == \A f \in {"crash", "store", "lost"} : faults[f] = 0

\* At every moment, under crashes, store failures and retries, an account's
\* balance differs from what its incoming settlements and the relayed replies
\* say only by the work some task has pending (or lost) and by the settlements
\* made: no script is applied twice, to the wrong account, or by two tasks.
\* Where nothing failed, an account with an engine is left with exactly that less
\* what the engine accepted, as a settlement that failed was rolled back ("If the
\* settlement fails we'll roll back the balance change", process_fulfill.lua).
BooksBalance ==
    \A a \in Account :
        /\ Position(accounts[a]) = received[a] + AllOwed(a) - AllHeld(a)
        /\ a \in HasEngine /\ NoFaults /\ Live = {} => AllHeld(a) = engine[a]

\* How far below zero settlements may bring the account.
CreditLine(a) == IF a \in HasSettlement /\ SettleTo[a] < 0 THEN -SettleTo[a] ELSE 0

\* The scripts never take more off an account to settle than its fulfilled packets
\* and its own prepayments amount to, and a settle_to below zero allows, whatever
\* fails: overlapping fulfills, delayed settlements and refunds do not settle a
\* balance twice.  And the engine has accepted and may still be asked for no more
\* than that, until one of its answers is lost: then the retry, with an idempotency
\* key of its own, is another settlement (send_settlement draws the key anew for
\* every attempt).
NeverSettlesTwice ==
    \A a \in Account :
        /\ AllSettled(a) <= received[a] + AllEarned(a) + CreditLine(a)
        /\ faults["lost"] = 0 => engine[a] + AllUnderway(a) <= AllSettled(a)
=============================================================================
