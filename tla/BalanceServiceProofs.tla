------------------------ MODULE BalanceServiceProofs ------------------------
(* Theorems about BalanceService, for all accounts, packets and bounds: the  *)
(* types and the floor of every account (IInv), and then the books           *)
(* (BooksInv), which relate each account to sums over all tasks.             *)
EXTENDS BalanceService, SumTheorems

IInv == TypeOK /\ AboveFloor /\ KeysMatchTimeouts

-----------------------------------------------------------------------------
\* What the scripts compute: each keeps the hash well-formed and moves the
\* position by its amount, or settles it down to settle_to.

\* process_prepare takes its amount, from wherever it can.
LEMMA PrepareScript ==
    ASSUME NEW h \in Hash, NEW n \in Nat
    PROVE  /\ ProcessPrepare(h, n) \in Hash
           /\ Position(ProcessPrepare(h, n)) = Position(h) - n
<1>1. CASE h.prepaid >= n
    BY <1>1 DEF ProcessPrepare, Hash, Position
<1>2. CASE h.prepaid < n /\ h.prepaid > 0
    BY <1>2 DEF ProcessPrepare, Hash, Position
<1>3. CASE h.prepaid < n /\ ~(h.prepaid > 0)
    BY <1>3 DEF ProcessPrepare, Hash, Position
<1> QED BY <1>1, <1>2, <1>3 DEF Hash

\* process_reject, refund_settlement and process_incoming_settlement give it.
LEMMA CreditScripts ==
    ASSUME NEW h \in Hash, NEW n \in Nat
    PROVE  /\ ProcessReject(h, n) \in Hash
           /\ Position(ProcessReject(h, n)) = Position(h) + n
           /\ RefundSettlement(h, n) \in Hash
           /\ Position(RefundSettlement(h, n)) = Position(h) + n
           /\ ProcessIncoming(h, n) \in Hash
           /\ Position(ProcessIncoming(h, n)) = Position(h) + n
<1>1. CASE h.balance >= 0
    BY <1>1 DEF ProcessIncoming, ProcessReject, RefundSettlement, Hash, Position
<1>2. CASE h.balance < 0 /\ -h.balance >= n
    BY <1>2 DEF ProcessIncoming, ProcessReject, RefundSettlement, Hash, Position
<1>3. CASE h.balance < 0 /\ ~(-h.balance >= n)
    BY <1>3 DEF ProcessIncoming, ProcessReject, RefundSettlement, Hash, Position
<1> QED BY <1>1, <1>2, <1>3 DEF Hash

Result == [hash : Hash, amount : Nat]

\* process_fulfill and process_settle never ask for a negative settlement, and
\* leave the account where it was credited to or at settle_to.
LEMMA SettlingScripts ==
    ASSUME NEW h \in Hash, NEW n \in Nat, NEW a \in Account
    PROVE  /\ ProcessFulfill(h, a, n) \in Result
           /\ \/ Position(ProcessFulfill(h, a, n).hash) = Position(h) + n
              \/ /\ a \in HasSettlement
                 /\ Position(ProcessFulfill(h, a, n).hash) >= SettleTo[a]
           /\ ProcessSettle(h, a) \in Result
           /\ \/ Position(ProcessSettle(h, a).hash) = Position(h)
              \/ /\ a \in HasSettlement
                 /\ Position(ProcessSettle(h, a).hash) >= SettleTo[a]
<1> USE AccountAssumption
<1> DEFINE credited == [h EXCEPT !.balance = @ + n]
<1>1. credited \in Hash /\ Position(credited) = Position(h) + n
    BY DEF Hash, Position
<1>2. ASSUME NEW g \in Hash, CanSettle(a), g.balance >= SettleTo[a]
      PROVE  /\ SettledDown(g, a) \in Result
             /\ a \in HasSettlement
             /\ Position(SettledDown(g, a).hash) >= SettleTo[a]
    BY <1>2 DEF SettledDown, CanSettle, Hash, Result, Position
<1>3. ASSUME NEW g \in Hash
      PROVE  Kept(g) \in Result /\ Kept(g).hash = g
    BY Zenon DEF Kept, Result
<1> HIDE DEF credited
<1>4. ProcessFulfill(h, a, n) = IF CanSettle(a) /\ credited.balance >= SettleThreshold[a]
                                THEN SettledDown(credited, a) ELSE Kept(credited)
    BY Zenon DEF ProcessFulfill, credited
<1>5. CASE CanSettle(a) /\ credited.balance >= SettleThreshold[a]
    <2>1. credited.balance >= SettleTo[a]
        BY <1>1, <1>5 DEF CanSettle, Hash
    <2> QED BY Zenon, <1>1, <1>2, <1>3, <1>4, <1>5, <2>1 DEF ProcessSettle
<1>6. CASE ~(CanSettle(a) /\ credited.balance >= SettleThreshold[a])
    BY Zenon, <1>1, <1>2, <1>3, <1>4, <1>6 DEF ProcessSettle
<1> QED BY Zenon, <1>5, <1>6

-----------------------------------------------------------------------------
\* A script that ran for account a, which keeps it over its floor, keeps every
\* account over its floor.
LEMMA AccountStep ==
    ASSUME TypeOK, AboveFloor, NEW a \in Account, NEW h \in Hash,
           a \in HasMinimum => OverFloor(a, h),
           accounts' = [accounts EXCEPT ![a] = h]
    PROVE  accounts' \in [Account -> Hash] /\ AboveFloor'
<1>1. accounts' \in [Account -> Hash]
    BY Zenon DEF TypeOK
<1>2. ASSUME NEW b \in HasMinimum PROVE OverFloor(b, accounts'[b])
    BY Zenon, AccountAssumption DEF TypeOK, AboveFloor
<1> QED BY Zenon, <1>1, <1>2 DEF AboveFloor, OverFloor

\* A credit keeps an account over its floor.
LEMMA Higher ==
    ASSUME NEW a \in Account, NEW g \in Hash, NEW h \in Hash,
           OverFloor(a, g), Position(h) >= Position(g)
    PROVE  OverFloor(a, h)
BY AccountAssumption DEF OverFloor, Position, Hash

\* The tasks keep their type when one of them is updated.
LEMMA TaskUpdate ==
    ASSUME TypeOK, NEW i \in DOMAIN tasks, NEW t \in Task,
           tasks' = [tasks EXCEPT ![i] = t]
    PROVE  tasks' \in Seq(Task)
BY DEF TypeOK

\* An element of tasks is a task.
LEMMA TaskType ==
    ASSUME TypeOK, NEW i \in DOMAIN tasks
    PROVE  tasks[i] \in Task
BY DEF TypeOK

\* A task may go to any pc.
LEMMA GotoType ==
    ASSUME TypeOK, NEW i \in Live, NEW pc \in Pc, Goto(i, pc)
    PROVE  tasks' \in Seq(Task)
<1>1. i \in DOMAIN tasks /\ tasks[i] \in Task
    BY Zenon, TaskType DEF Live
<1>2. [tasks[i] EXCEPT !.pc = pc] \in Task
    BY Zenon, <1>1 DEF Task
<1> QED BY Zenon, <1>1, <1>2, TaskUpdate DEF Goto

\* A fault is counted.
LEMMA HappensType ==
    ASSUME TypeOK, NEW f \in Fault, NEW max, Happens(f, max)
    PROVE  faults' \in [Fault -> Nat]
BY DEF TypeOK, Happens

\* A settling script ran for task i.
LEMMA ApplyStep ==
    ASSUME TypeOK, AboveFloor, NEW i \in Live, NEW result \in Result,
           NEW pc \in Pc, NEW alive \in BOOLEAN, Apply(i, result, pc, alive),
           \/ Position(result.hash) >= Position(accounts[tasks[i].to])
           \/ /\ tasks[i].to \in HasSettlement
              /\ Position(result.hash) >= SettleTo[tasks[i].to]
    PROVE  /\ accounts' \in [Account -> Hash] /\ AboveFloor'
           /\ tasks' \in Seq(Task)
<1>1. i \in DOMAIN tasks /\ tasks[i] \in Task
    BY Zenon, TaskType DEF Live
<1>2. tasks[i].to \in Account
    BY Zenon, <1>1 DEF Task
<1>3. result.hash \in Hash /\ result.amount \in Nat
    BY Zenon DEF Result
<1>4. Position(result.hash) \in Int
    BY <1>3 DEF Position, Hash
<1>5. tasks[i].to \in HasMinimum => OverFloor(tasks[i].to, result.hash)
    <2>1. CASE Position(result.hash) >= Position(accounts[tasks[i].to])
        <3>1. accounts[tasks[i].to] \in Hash
            BY Zenon, <1>2 DEF TypeOK
        <3> QED BY Zenon, <1>2, <1>3, <2>1, <3>1, Higher DEF AboveFloor
    <2>2. CASE tasks[i].to \in HasSettlement /\ Position(result.hash) >= SettleTo[tasks[i].to]
        BY Zenon, <2>2 DEF OverFloor
    <2> QED BY Zenon, <2>1, <2>2
<1>6. accounts' = [accounts EXCEPT ![tasks[i].to] = result.hash]
    BY Zenon DEF Apply
<1>7. accounts' \in [Account -> Hash] /\ AboveFloor'
    BY Zenon, <1>2, <1>3, <1>5, <1>6, AccountStep
<1>8. [tasks[i] EXCEPT !.pc = pc, !.balance = Position(result.hash),
                       !.amount = result.amount, !.alive = alive] \in Task
    BY Zenon, <1>1, <1>3, <1>4 DEF Task
<1>9. tasks' \in Seq(Task)
    BY Zenon, <1>1, <1>8, TaskUpdate DEF Apply
<1> QED BY Zenon, <1>7, <1>9

-----------------------------------------------------------------------------
\* The initial state.
LEMMA InitIInv == Init => IInv
<1> SUFFICES ASSUME Init PROVE IInv
    BY Zenon
<1>1. NewAccount \in Hash /\ Position(NewAccount) = 0
    BY DEF NewAccount, Hash, Position
<1>2. TypeOK
    BY <1>1 DEF Init, TypeOK
<1>3. AboveFloor
    <2>1. ASSUME NEW a \in HasMinimum PROVE Position(accounts[a]) >= 0
        BY <1>1, AccountAssumption DEF Init
    <2> QED BY Zenon, <2>1 DEF AboveFloor, OverFloor
<1> QED BY Zenon, <1>2, <1>3 DEF Init, IInv, KeysMatchTimeouts

\* A new task has the type of a task.
LEMMA NewTaskType ==
    ASSUME NEW p, p.from \in Account, p.to \in Account,
           p.incoming \in Nat, p.outgoing \in Nat,
           NEW pc \in Pc, NEW reply \in Replies
    PROVE  NewTask(p, pc, reply) \in Task
BY DEF NewTask, Task

\* An admitted prepare leaves the account over its minimum.
LEMMA PrepareStep ==
    ASSUME IInv, NEW p \in Packet, Prepare(p) \/ PrepareAnswerLost(p)
    PROVE  IInv'
<1>1. /\ p.from \in Account /\ p.to \in Account
      /\ p.incoming \in Nat /\ p.outgoing \in Nat
    BY Zenon, PacketAssumption
<1> DEFINE g == accounts[p.from]
           h == ProcessPrepare(g, p.incoming)
<1>2. g \in Hash
    BY Zenon, <1>1 DEF IInv, TypeOK
<1>3. h \in Hash /\ Position(h) = Position(g) - p.incoming
    BY Zenon, <1>1, <1>2, PrepareScript
<1>4. WithinMinimum(g, p.from, p.incoming) /\ accounts' = [accounts EXCEPT ![p.from] = h]
    BY Zenon DEF Prepare, PrepareAnswerLost
<1> HIDE DEF g, h
<1>5. p.from \in HasMinimum => OverFloor(p.from, h)
    BY Zenon, <1>3, <1>4 DEF WithinMinimum, OverFloor
<1>6. accounts' \in [Account -> Hash] /\ AboveFloor'
    BY Zenon, <1>1, <1>3, <1>4, <1>5, AccountStep DEF IInv
<1>7. tasks' \in Seq(Task)
    <2>1. NewTask(p, "forwarded", "none") \in Task
        BY Zenon, <1>1, NewTaskType DEF Pc, Replies
    <2>2. [NewTask(p, "rejected", "rejected") EXCEPT !.alive = FALSE] \in Task
        <3>1. NewTask(p, "rejected", "rejected") \in Task
            BY Zenon, <1>1, NewTaskType DEF Pc, Replies
        <3> QED BY Zenon, <3>1 DEF Task
    <2>3. ASSUME NEW t \in Task PROVE Append(tasks, t) \in Seq(Task)
        BY DEF IInv, TypeOK
    <2> QED BY Zenon, <2>1, <2>2, <2>3 DEF Prepare, PrepareAnswerLost
<1>8. faults' \in [Fault -> Nat]
    BY Zenon, HappensType DEF Prepare, PrepareAnswerLost, IInv, TypeOK, Fault
<1>9. UNCHANGED <<channel, timeouts, inQueue, engine, received>>
    BY Zenon DEF Prepare, PrepareAnswerLost
<1> QED BY Zenon, <1>6, <1>7, <1>8, <1>9 DEF IInv, TypeOK, KeysMatchTimeouts

\* Steps of a task that leave the accounts and the background task alone.
LEMMA TasksOnly ==
    ASSUME IInv, tasks' \in Seq(Task), channel' \in Seq(Command),
           engine' \in [Account -> Nat], faults' \in [Fault -> Nat],
           UNCHANGED <<accounts, timeouts, inQueue, received>>
    PROVE  IInv'
BY Zenon DEF IInv, TypeOK, AboveFloor, OverFloor, KeysMatchTimeouts

\* Steps of a task that run a script.
LEMMA AccountsAndTasks ==
    ASSUME IInv, accounts' \in [Account -> Hash], AboveFloor', tasks' \in Seq(Task),
           faults' \in [Fault -> Nat],
           UNCHANGED <<channel, timeouts, inQueue, engine, received>>
    PROVE  IInv'
BY Zenon DEF IInv, TypeOK, KeysMatchTimeouts

\* A rejected packet, a refused settlement or an incoming one is credited.
LEMMA CreditStep ==
    ASSUME IInv, NEW a \in Account, NEW n \in Nat, NEW h,
           h = ProcessReject(accounts[a], n) \/ h = RefundSettlement(accounts[a], n)
               \/ h = ProcessIncoming(accounts[a], n),
           accounts' = [accounts EXCEPT ![a] = h]
    PROVE  accounts' \in [Account -> Hash] /\ AboveFloor'
<1>1. accounts[a] \in Hash
    BY Zenon DEF IInv, TypeOK
<1>2. h \in Hash /\ Position(h) = Position(accounts[a]) + n
    BY Zenon, <1>1, CreditScripts
<1>3. Position(h) >= Position(accounts[a])
    BY <1>1, <1>2 DEF Position, Hash
<1>4. a \in HasMinimum => OverFloor(a, h)
    BY Zenon, <1>1, <1>2, <1>3, Higher DEF IInv, AboveFloor
<1> QED BY Zenon, <1>2, <1>4, AccountStep DEF IInv

\* What a running task's fields are.
LEMMA Fields ==
    ASSUME IInv, NEW i \in Live
    PROVE  /\ i \in DOMAIN tasks /\ tasks[i] \in Task
           /\ tasks[i].from \in Account /\ tasks[i].to \in Account
           /\ tasks[i].incoming \in Nat /\ tasks[i].outgoing \in Nat
           /\ tasks[i].amount \in Nat /\ tasks[i].attempt \in Nat
           /\ accounts[tasks[i].to] \in Hash
<1>1. i \in DOMAIN tasks /\ tasks[i] \in Task
    BY Zenon, TaskType DEF IInv, Live
<1>2. tasks[i].to \in Account
    BY Zenon, <1>1 DEF Task
<1>3. accounts[tasks[i].to] \in Hash
    BY Zenon, <1>2 DEF IInv, TypeOK
<1> QED BY Zenon, <1>1, <1>3 DEF Task

\* A command sent over the channel is a command.
LEMMA TrySendType ==
    ASSUME IInv, NEW cmd \in {"Set", "Clear"}, NEW a \in Account, TrySend(cmd, a)
    PROVE  channel' \in Seq(Command)
<1>1. [cmd |-> cmd, id |-> a] \in Command
    BY Zenon DEF Command
<1> QED BY <1>1 DEF IInv, TypeOK, TrySend

\* The replies, the schedule and the exchange with the settlement engine.
LEMMA QuietStep ==
    ASSUME IInv, NEW i \in DOMAIN tasks,
           \/ Fulfilled(i) \/ Rejected(i) \/ Schedule(i) \/ StartSettlement(i)
           \/ NoEngine(i) \/ EngineAccepts(i) \/ EngineRefuses(i) \/ EngineFails(i)
           \/ EngineAnswerLost(i) \/ StoreFails(i)
    PROVE  IInv'
<1>1. i \in Live
    BY Zenon DEF Fulfilled, Rejected, Schedule, StartSettlement, NoEngine, EngineAccepts,
           EngineRefuses, EngineFails, EngineAnswerLost, StoreFails, At
<1>2. /\ tasks[i] \in Task /\ tasks[i].to \in Account
      /\ tasks[i].amount \in Nat /\ tasks[i].attempt \in Nat
    BY Zenon, <1>1, Fields
<1>3. channel \in Seq(Command) /\ engine \in [Account -> Nat] /\ faults \in [Fault -> Nat]
    BY Zenon DEF IInv, TypeOK
<1>4. ASSUME NEW pc \in Pc, Goto(i, pc) PROVE tasks' \in Seq(Task)
    BY Zenon, <1>1, <1>4, GotoType DEF IInv
<1>5. ASSUME NEW t \in Task, tasks' = [tasks EXCEPT ![i] = t] PROVE tasks' \in Seq(Task)
    BY Zenon, <1>5, TaskUpdate DEF IInv
<1>6. ASSUME NEW f \in Fault, NEW max, Happens(f, max) PROVE faults' \in [Fault -> Nat]
    BY Zenon, <1>6, HappensType DEF IInv
<1>7. ASSUME Retry(i) PROVE tasks' \in Seq(Task)
    <2>1. ASSUME NEW pc \in Pc, NEW n \in Nat
          PROVE  [tasks[i] EXCEPT !.pc = pc, !.attempt = n] \in Task
        BY Zenon, <1>2 DEF Task
    <2>2. tasks[i].attempt + 1 \in Nat
        BY <1>2
    <2> QED BY Zenon, <1>5, <1>7, <2>1, <2>2 DEF Retry, Pc
<1>8. engine' = [engine EXCEPT ![tasks[i].to] = @ + tasks[i].amount]
        => engine' \in [Account -> Nat]
    BY <1>2, <1>3
<1>9. CASE Fulfilled(i) \/ Rejected(i)
    <2>1. ASSUME NEW reply \in Replies, NEW pc \in Pc
          PROVE  [tasks[i] EXCEPT !.reply = reply, !.pc = pc] \in Task
        BY Zenon, <1>2 DEF Task
    <2>2. tasks' \in Seq(Task)
        BY Zenon, <1>5, <1>9, <2>1 DEF Fulfilled, Rejected, Pc, Replies
    <2> QED BY Zenon, <1>3, <1>9, <2>2, TasksOnly DEF Fulfilled, Rejected
<1>10. CASE Schedule(i)
    <2>1. tasks' \in Seq(Task)
        BY Zenon, <1>4, <1>10 DEF Schedule, Pc
    <2>2. channel' \in Seq(Command)
        BY Zenon, <1>2, <1>3, <1>10, TrySendType DEF Schedule
    <2> QED BY Zenon, <1>3, <1>10, <2>1, <2>2, TasksOnly DEF Schedule
<1>11. CASE StartSettlement(i)
    <2>1. tasks' \in Seq(Task)
        BY Zenon, <1>4, <1>11 DEF StartSettlement, Pc
    <2>2. channel' \in Seq(Command)
        BY Zenon, <1>2, <1>11, TrySendType DEF StartSettlement
    <2> QED BY Zenon, <1>3, <1>11, <2>1, <2>2, TasksOnly DEF StartSettlement
<1>12. CASE NoEngine(i)
    <2>1. tasks' \in Seq(Task)
        BY Zenon, <1>4, <1>12 DEF NoEngine, Pc
    <2> QED BY Zenon, <1>3, <1>12, <2>1, TasksOnly DEF NoEngine
<1>13. CASE EngineAccepts(i)
    <2>1. tasks' \in Seq(Task)
        BY Zenon, <1>4, <1>13 DEF EngineAccepts, Pc
    <2> QED BY Zenon, <1>3, <1>8, <1>13, <2>1, TasksOnly DEF EngineAccepts
<1>14. CASE EngineRefuses(i)
    <2>1. tasks' \in Seq(Task) /\ faults' \in [Fault -> Nat]
        BY Zenon, <1>4, <1>6, <1>14 DEF EngineRefuses, Pc, Fault
    <2> QED BY Zenon, <1>3, <1>14, <2>1, TasksOnly DEF EngineRefuses
<1>15. CASE EngineFails(i)
    <2>1. tasks' \in Seq(Task) /\ faults' \in [Fault -> Nat]
        BY Zenon, <1>6, <1>7, <1>15 DEF EngineFails, Fault
    <2> QED BY Zenon, <1>3, <1>15, <2>1, TasksOnly DEF EngineFails
<1>16. CASE EngineAnswerLost(i)
    <2>1. tasks' \in Seq(Task) /\ faults' \in [Fault -> Nat]
        BY Zenon, <1>6, <1>7, <1>16 DEF EngineAnswerLost, Fault
    <2> QED BY Zenon, <1>3, <1>8, <1>16, <2>1, TasksOnly DEF EngineAnswerLost
<1>17. CASE StoreFails(i)
    <2>1. [tasks[i] EXCEPT !.alive = FALSE] \in Task
        BY Zenon, <1>2 DEF Task
    <2>2. tasks' \in Seq(Task) /\ faults' \in [Fault -> Nat]
        BY Zenon, <1>5, <1>6, <1>17, <2>1 DEF StoreFails, Fault
    <2> QED BY Zenon, <1>3, <1>17, <2>2, TasksOnly DEF StoreFails
<1> QED BY Zenon, <1>9, <1>10, <1>11, <1>12, <1>13, <1>14, <1>15, <1>16, <1>17

\* The scripts of a reject, a fulfill, a delayed settlement and a refund.
LEMMA ScriptStep ==
    ASSUME IInv, NEW i \in DOMAIN tasks,
           \/ RollBack(i) \/ Credit(i) \/ SettleDelayed(i) \/ Refund(i) \/ StoreAnswerLost(i)
    PROVE  IInv'
<1>1. i \in Live
    BY Zenon DEF RollBack, Credit, SettleDelayed, Refund, StoreAnswerLost, At
<1>2. /\ tasks[i] \in Task /\ tasks[i].from \in Account /\ tasks[i].to \in Account
      /\ tasks[i].incoming \in Nat /\ tasks[i].outgoing \in Nat /\ tasks[i].amount \in Nat
      /\ accounts[tasks[i].to] \in Hash
    BY Zenon, <1>1, Fields
<1>3. faults \in [Fault -> Nat]
    BY Zenon DEF IInv, TypeOK
<1>4. CASE RollBack(i)
    <2>1. tasks' \in Seq(Task)
        BY Zenon, <1>1, <1>4, GotoType DEF RollBack, IInv, Pc
    <2>2. accounts' \in [Account -> Hash] /\ AboveFloor'
        BY Zenon, <1>2, <1>4, CreditStep DEF RollBack
    <2> QED BY Zenon, <1>3, <1>4, <2>1, <2>2, AccountsAndTasks DEF RollBack
<1>5. CASE Refund(i)
    <2>1. [tasks[i] EXCEPT !.pc = "done", !.amount = 0] \in Task
        BY Zenon, <1>2 DEF Task, Pc
    <2>2. tasks' \in Seq(Task)
        BY Zenon, <1>5, <2>1, TaskUpdate DEF Refund, IInv
    <2>3. accounts' \in [Account -> Hash] /\ AboveFloor'
        BY Zenon, <1>2, <1>5, CreditStep DEF Refund
    <2> QED BY Zenon, <1>3, <1>5, <2>2, <2>3, AccountsAndTasks DEF Refund
<1>6. ASSUME NEW alive \in BOOLEAN,
             \/ Apply(i, FulfillResult(i), "credited", alive)
             \/ Apply(i, SettleResult(i), AfterSettle(i), alive)
      PROVE  accounts' \in [Account -> Hash] /\ AboveFloor' /\ tasks' \in Seq(Task)
    <2> DEFINE a == tasks[i].to
               F == ProcessFulfill(accounts[a], a, tasks[i].outgoing)
               D == ProcessSettle(accounts[a], a)
    <2>1. /\ F \in Result
          /\ \/ Position(F.hash) = Position(accounts[a]) + tasks[i].outgoing
             \/ a \in HasSettlement /\ Position(F.hash) >= SettleTo[a]
          /\ D \in Result
          /\ \/ Position(D.hash) = Position(accounts[a])
             \/ a \in HasSettlement /\ Position(D.hash) >= SettleTo[a]
        BY Zenon, <1>2, SettlingScripts
    <2>2. FulfillResult(i) = F /\ SettleResult(i) = D
        BY Zenon DEF FulfillResult, SettleResult
    <2> HIDE DEF F, D
    <2>3. Position(accounts[a]) \in Int
        BY <1>2 DEF Position, Hash
    <2>4. CASE Apply(i, FulfillResult(i), "credited", alive)
        <3>1. \/ Position(F.hash) >= Position(accounts[a])
              \/ a \in HasSettlement /\ Position(F.hash) >= SettleTo[a]
            BY <1>2, <2>1, <2>3
        <3> QED BY Zenon, <1>1, <2>1, <2>2, <2>4, <3>1, ApplyStep DEF IInv, Pc
    <2>5. CASE Apply(i, SettleResult(i), AfterSettle(i), alive)
        <3>1. AfterSettle(i) \in Pc
            BY Zenon DEF AfterSettle, Pc
        <3>2. \/ Position(D.hash) >= Position(accounts[a])
              \/ a \in HasSettlement /\ Position(D.hash) >= SettleTo[a]
            BY <2>1, <2>3
        <3> QED BY Zenon, <1>1, <2>1, <2>2, <2>5, <3>1, <3>2, ApplyStep DEF IInv
    <2> QED BY Zenon, <1>6, <2>4, <2>5
<1>7. CASE Credit(i) \/ SettleDelayed(i)
    <2>1. accounts' \in [Account -> Hash] /\ AboveFloor' /\ tasks' \in Seq(Task)
        BY Zenon, <1>6, <1>7 DEF Credit, SettleDelayed
    <2> QED BY Zenon, <1>3, <1>7, <2>1, AccountsAndTasks DEF Credit, SettleDelayed
<1>8. CASE StoreAnswerLost(i)
    <2>1. accounts' \in [Account -> Hash] /\ AboveFloor' /\ tasks' \in Seq(Task)
        BY Zenon, <1>6, <1>8 DEF StoreAnswerLost
    <2>2. faults' \in [Fault -> Nat]
        BY Zenon, <1>8, HappensType DEF StoreAnswerLost, IInv, Fault
    <2> QED BY Zenon, <1>8, <2>1, <2>2, AccountsAndTasks DEF StoreAnswerLost
<1> QED BY Zenon, <1>4, <1>5, <1>7, <1>8

\* The background task's commands and timeouts.
LEMMA BackgroundStep ==
    ASSUME IInv, HandleCommand \/ \E a \in Account : Expire(a)
    PROVE  IInv'
<1>1. CASE HandleCommand
    <2>1. Head(channel) \in Command /\ Tail(channel) \in Seq(Command)
        BY <1>1 DEF HandleCommand, IInv, TypeOK
    <2>2. Head(channel).id \in Account
        BY Zenon, <2>1 DEF Command
    <2>3. timeouts' \subseteq Account /\ inQueue' = timeouts'
        BY Zenon, <1>1, <2>2 DEF HandleCommand, SetTimeout, ClearTimeout, IInv, TypeOK,
                          KeysMatchTimeouts
    <2> QED BY Zenon, <1>1, <2>1, <2>3
            DEF HandleCommand, IInv, TypeOK, AboveFloor, OverFloor, KeysMatchTimeouts
<1>2. ASSUME NEW a \in Account, Expire(a) PROVE IInv'
    <2>1. DelayedTask(a) \in Task
        BY Zenon, NewTaskType DEF DelayedTask, Pc, Replies
    <2>2. tasks' \in Seq(Task)
        BY <1>2, <2>1 DEF Expire, IInv, TypeOK
    <2> QED BY Zenon, <1>2, <2>2
            DEF Expire, IInv, TypeOK, AboveFloor, OverFloor, KeysMatchTimeouts
<1> QED BY Zenon, <1>1, <1>2

\* An incoming settlement.
LEMMA IncomingStep ==
    ASSUME IInv, NEW a \in Account, NEW n \in IncomingAmount, Incoming(a, n)
    PROVE  IInv'
<1>1. n \in Nat
    BY Zenon, PacketAssumption
<1>2. accounts' \in [Account -> Hash] /\ AboveFloor'
    BY Zenon, <1>1, CreditStep DEF Incoming
<1>3. faults' \in [Fault -> Nat]
    BY Zenon, HappensType DEF Incoming, IInv, Fault
<1>4. received' \in [Account -> Nat]
    BY <1>1 DEF Incoming, IInv, TypeOK
<1> QED BY Zenon, <1>2, <1>3, <1>4 DEF Incoming, IInv, TypeOK, KeysMatchTimeouts

\* A crash leaves the accounts alone.
LEMMA CrashStep == IInv /\ Crash => IInv'
<1> SUFFICES ASSUME IInv, Crash PROVE IInv'
    BY Zenon
<1>1. tasks' \in Seq(Task)
    <2>1. tasks \in Seq(Task) /\ DOMAIN tasks = 1..Len(tasks) /\ Len(tasks) \in Nat
        BY DEF IInv, TypeOK
    <2>2. ASSUME NEW i \in DOMAIN tasks PROVE tasks'[i] \in Task
        <3>1. tasks[i] \in Task
            BY Zenon, <2>2, TaskType DEF IInv
        <3>2. [tasks[i] EXCEPT !.alive = FALSE] \in Task
            BY Zenon, <3>1 DEF Task
        <3> QED BY Zenon, <2>2, <3>1, <3>2 DEF Crash
    <2>3. tasks' \in [1..Len(tasks) -> Task]
        BY Zenon, <2>1, <2>2 DEF Crash
    <2> QED BY <2>1, <2>3
<1>2. faults' \in [Fault -> Nat]
    BY Zenon, HappensType DEF Crash, IInv, Fault
<1>3. <<>> \in Seq(Command)
    OBVIOUS
<1> QED BY Zenon, <1>1, <1>2, <1>3
        DEF Crash, IInv, TypeOK, AboveFloor, OverFloor, KeysMatchTimeouts

\* Every step keeps the invariant.
LEMMA NextIInv == IInv /\ [Next]_vars => IInv'
<1> SUFFICES ASSUME IInv, [Next]_vars PROVE IInv'
    BY Zenon
<1>1. ASSUME NEW p \in Packet, Prepare(p) \/ PrepareAnswerLost(p) PROVE IInv'
    BY Zenon, <1>1, PrepareStep
<1>2. ASSUME NEW i \in DOMAIN tasks, TaskStep(i) PROVE IInv'
    BY Zenon, <1>2, QuietStep, ScriptStep DEF TaskStep
<1>3. ASSUME HandleCommand \/ \E a \in Account : Expire(a) PROVE IInv'
    BY Zenon, <1>3, BackgroundStep
<1>4. ASSUME NEW a \in Account, NEW n \in IncomingAmount, Incoming(a, n) PROVE IInv'
    BY Zenon, <1>4, IncomingStep
<1>5. CASE Crash
    BY Zenon, <1>5, CrashStep
<1>6. CASE UNCHANGED vars
    BY Zenon, <1>6 DEF vars, IInv, TypeOK, AboveFloor, OverFloor, KeysMatchTimeouts
<1> QED BY Zenon, <1>1, <1>2, <1>3, <1>4, <1>5, <1>6 DEF Next

\* IInv is an invariant of the balance service.
THEOREM Invariance == Spec => []IInv
BY InitIInv, NextIInv, PTL DEF Spec

\* A prepaid amount and an amount to settle are never negative, and every task
\* and command is well-formed.
THEOREM TypeCorrect == Spec => []TypeOK
BY Invariance, PTL DEF IInv

\* No interleaving of prepares, fulfills, rejects, settlements, refunds and
\* crashes brings an account below its minimum, zero and settle_to.
THEOREM FloorHolds == Spec => []AboveFloor
BY Invariance, PTL DEF IInv

\* in_queue and the DelayQueue agree in every state.
THEOREM KeysMatch == Spec => []KeysMatchTimeouts
BY Invariance, PTL DEF IInv

-----------------------------------------------------------------------------
\* The books.  What a task has had settled, and what stands behind the balance
\* of account a while it is at work: what the account has spent or has in
\* transit, and what it is about to be credited.
Paid(t, a) == IF t.pc = "done" THEN Settled(t, a) ELSE 0
Backing(t, a) ==
    (IF t.reply = "fulfilled" /\ t.from = a THEN t.incoming ELSE 0)
    + (IF t.pc \in {"forwarded", "rejected"} /\ t.from = a THEN t.incoming ELSE 0)
    + (IF t.pc = "fulfilled" /\ t.to = a THEN t.outgoing ELSE 0)

AllPaid(a) == SumFunction([i \in DOMAIN tasks |-> Paid(tasks[i], a)])
AllBacking(a) == SumFunction([i \in DOMAIN tasks |-> Backing(tasks[i], a)])

\* A task that no settling script has answered has nothing to settle, and one
\* that was forwarded has no reply.
Early(t) ==
    /\ t.pc \in {"forwarded", "fulfilled", "rejected", "expired"} => t.amount = 0
    /\ t.pc = "forwarded" => t.reply = "none"

\* What holds between the figures of account a: its position, what it received,
\* what its engine accepted, and the sums over the tasks.
Balanced(a, lost, position, got, accepted, owed, held, backing, earned, settled, underway, paid) ==
    /\ position = got + owed - held
    /\ position + backing = got + earned - settled
    /\ position + backing >= 0 - CreditLine(a)
    /\ ~lost => accepted + underway <= settled
    /\ ~lost /\ a \in HasEngine => accepted = paid

BalancedNow(a) ==
    Balanced(a, faults["lost"] # 0, Position(accounts[a]), received[a], engine[a], AllOwed(a),
             AllHeld(a), AllBacking(a), AllEarned(a), AllSettled(a), AllUnderway(a), AllPaid(a))

AllAlive == \A i \in DOMAIN tasks : tasks[i].alive

BooksInv ==
    /\ \A i \in DOMAIN tasks : Early(tasks[i])
    /\ NoFaults => AllAlive
    /\ \A a \in Account : BalancedNow(a)

\* What one task's change contributes, if the account's position changes by dp,
\* what it received by dr and what its engine accepted by de.
Keeps(t, u, a, lost, dp, dr, de) ==
    /\ dp = dr + (Owed(u, a) - Owed(t, a)) - (Held(u, a) - Held(t, a))
    /\ dp + (Backing(u, a) - Backing(t, a))
         = dr + (Earned(u, a) - Earned(t, a)) - (Settled(u, a) - Settled(t, a))
    /\ ~lost => de + (Underway(u, a) - Underway(t, a)) <= Settled(u, a) - Settled(t, a)
    /\ ~lost /\ a \in HasEngine => de = Paid(u, a) - Paid(t, a)

\* The figures of a task are numbers.
LEMMA Figures ==
    ASSUME NEW t \in Task, NEW a
    PROVE  /\ Owed(t, a) \in Int /\ Held(t, a) \in Nat /\ Backing(t, a) \in Nat
           /\ Earned(t, a) \in Nat /\ Settled(t, a) \in Nat /\ Underway(t, a) \in Nat
           /\ Paid(t, a) \in Nat
<1>1. /\ t.incoming \in Nat /\ t.outgoing \in Nat /\ t.amount \in Nat
  BY Zenon DEF Task
<1>2. Settled(t, a) \in Nat
  BY Zenon, <1>1 DEF Settled
<1>3. Held(t, a) \in Nat
  <2>1. CASE t.pc \in {"forwarded", "rejected"} /\ t.from = a
    BY Zenon, <1>1, <2>1 DEF Held
  <2>2. CASE t.pc = "fulfilled" /\ t.to = a
    BY Zenon, <1>1, <2>2 DEF Held
  <2>3. CASE t.pc \in {"credited", "settling", "refunding", "done"}
    BY Zenon, <1>2, <2>3 DEF Held
  <2>4. CASE /\ ~(t.pc \in {"forwarded", "rejected"} /\ t.from = a)
             /\ ~(t.pc = "fulfilled" /\ t.to = a)
             /\ t.pc \notin {"credited", "settling", "refunding", "done"}
    BY Zenon, <2>4 DEF Held
  <2> QED
    BY Zenon, <2>1, <2>2, <2>3, <2>4
<1>4. Backing(t, a) \in Nat
  BY <1>1 DEF Backing
<1> QED
  BY <1>1, <1>2, <1>3, <1>4 DEF Owed, Earned, Underway, Paid

\* What a task holds for an account, stage by stage.
LEMMA HeldAt ==
    ASSUME NEW t \in Task, NEW a
    PROVE  /\ t.pc \in {"forwarded", "rejected"} =>
                  Held(t, a) = IF t.from = a THEN t.incoming ELSE 0
           /\ t.pc = "fulfilled" => Held(t, a) = IF t.to = a THEN t.outgoing ELSE 0
           /\ t.pc = "expired" => Held(t, a) = 0
           /\ t.pc \in {"credited", "settling", "refunding", "done"} =>
                  Held(t, a) = Settled(t, a)
BY Zenon DEF Held, Task

\* A reply.
LEMMA RepliedTask ==
    ASSUME NEW t \in Task, Early(t), t.pc = "forwarded", NEW u \in Task, NEW a, NEW lost,
           \/ u = [t EXCEPT !.reply = "fulfilled",
                            !.pc = IF t.outgoing > 0 THEN "fulfilled" ELSE "done"]
           \/ u = [t EXCEPT !.reply = "rejected", !.pc = "rejected"]
    PROVE  /\ Early(u) /\ Keeps(t, u, a, lost, 0, 0, 0)
           /\ Backing(u, a) >= Backing(t, a)
<1>1. /\ t.incoming \in Nat /\ t.outgoing \in Nat /\ t.amount = 0 /\ t.reply = "none"
  BY Zenon DEF Task, Early
<1>2. Held(t, a) = IF t.from = a THEN t.incoming ELSE 0
  BY Zenon, HeldAt
<1>3. CASE u = [t EXCEPT !.reply = "rejected", !.pc = "rejected"]
  <2>1. /\ u.pc = "rejected" /\ u.reply = "rejected" /\ u.amount = 0 /\ u.to = t.to
        /\ u.from = t.from /\ u.incoming = t.incoming /\ u.outgoing = t.outgoing
    BY Zenon, <1>1, <1>3 DEF Task
  <2>2. Held(u, a) = IF t.from = a THEN t.incoming ELSE 0
    BY <2>1, HeldAt
  <2> QED
    BY <1>1, <1>2, <2>1, <2>2
       DEF Keeps, Early, Owed, Backing, Earned, Settled, Underway, Paid
<1>4. CASE u = [t EXCEPT !.reply = "fulfilled",
                         !.pc = IF t.outgoing > 0 THEN "fulfilled" ELSE "done"]
  <2>1. /\ u.pc = IF t.outgoing > 0 THEN "fulfilled" ELSE "done"
        /\ u.reply = "fulfilled" /\ u.amount = 0 /\ u.to = t.to
        /\ u.from = t.from /\ u.incoming = t.incoming /\ u.outgoing = t.outgoing
    BY Zenon, <1>1, <1>4 DEF Task
  <2>2. Held(u, a) = IF t.to = a THEN t.outgoing ELSE 0
    BY <1>1, <2>1, HeldAt DEF Settled
  <2> QED
    BY <1>1, <1>2, <2>1, <2>2
       DEF Keeps, Early, Owed, Backing, Earned, Settled, Underway, Paid
<1> QED
  BY Zenon, <1>3, <1>4

\* What a rejected packet gives back to account a.
Returned(t, a) == IF t.from = a THEN t.incoming ELSE 0

\* A rejected packet is given back.
LEMMA RolledBackTask ==
    ASSUME NEW t \in Task, Early(t), t.pc = "rejected", NEW u \in Task, NEW a, NEW lost,
           u = [t EXCEPT !.pc = "done"]
    PROVE  /\ Early(u) /\ Keeps(t, u, a, lost, Returned(t, a), 0, 0)
           /\ Returned(t, a) + Backing(u, a) = Backing(t, a)
<1>1. /\ t.incoming \in Nat /\ t.outgoing \in Nat /\ t.amount = 0
  BY Zenon DEF Task, Early
<1>2. /\ u.pc = "done" /\ u.reply = t.reply /\ u.amount = 0 /\ u.to = t.to
      /\ u.from = t.from /\ u.incoming = t.incoming /\ u.outgoing = t.outgoing
  BY Zenon, <1>1 DEF Task
<1>3. /\ Held(t, a) = IF t.from = a THEN t.incoming ELSE 0
      /\ Held(u, a) = 0
  BY Zenon, <1>2, HeldAt DEF Settled
<1> QED
  BY <1>1, <1>2, <1>3 DEF Returned, Keeps, Early, Owed, Backing, Earned, Settled, Underway, Paid

\* A settling script that is to settle n moves account a, and its task goes on.
Scripted(t, a, n) ==
    IF t.to = a THEN (IF t.pc = "fulfilled" THEN t.outgoing ELSE 0) - n ELSE 0
GoesOn(t, pc, n) ==
    \/ t.pc = "fulfilled" /\ pc = "credited"
    \/ t.pc = "expired" /\ pc = IF n = 0 THEN "done" ELSE "settling"

\* A settling script answers a fulfilled task, or one whose timeout expired, with
\* the amount to settle; or its answer is lost.
LEMMA ScriptedTask ==
    ASSUME NEW t \in Task, Early(t), NEW u \in Task, NEW a, NEW lost,
           NEW n \in Nat, NEW alive \in BOOLEAN, NEW pc, NEW balance,
           u = [t EXCEPT !.pc = pc, !.balance = balance, !.amount = n, !.alive = alive],
           GoesOn(t, pc, n)
    PROVE  /\ Early(u) /\ Keeps(t, u, a, lost, Scripted(t, a, n), 0, 0)
           /\ Scripted(t, a, n) + Backing(u, a) + Settled(u, a) = Backing(t, a)
<1> USE DEF GoesOn
<1> DEFINE dp == Scripted(t, a, n)
<1>1. /\ t.incoming \in Nat /\ t.outgoing \in Nat /\ t.amount = 0
  BY Zenon DEF Task, Early
<1>2. /\ u.pc = pc /\ u.reply = t.reply /\ u.amount = n /\ u.to = t.to /\ u.alive = alive
      /\ u.from = t.from /\ u.incoming = t.incoming /\ u.outgoing = t.outgoing
  BY Zenon DEF Task
<1>3. /\ Held(t, a) = IF t.pc = "fulfilled" /\ t.to = a THEN t.outgoing ELSE 0
      /\ Held(u, a) = Settled(u, a)
  <2>1. u.pc \in {"credited", "settling", "refunding", "done"}
    BY Zenon, <1>2
  <2>2. t.pc \in {"fulfilled", "expired"}
    BY Zenon
  <2> QED
    BY Zenon, <2>1, <2>2, HeldAt
<1>4. Settled(t, a) = 0 /\ Settled(u, a) = IF t.to = a THEN n ELSE 0
  BY Zenon, <1>1, <1>2 DEF Settled
<1>5. Paid(u, a) = 0 /\ Paid(t, a) = 0
  BY Zenon, <1>2, <1>4 DEF Paid
<1>6. Underway(t, a) = 0 /\ Underway(u, a) \in {0, Settled(u, a)}
  BY Zenon, <1>4 DEF Underway
<1>7. Owed(u, a) = Owed(t, a) /\ Earned(u, a) = Earned(t, a)
  BY <1>2 DEF Owed, Earned
<1>8. Owed(t, a) \in Int /\ Earned(t, a) \in Nat /\ Backing(t, a) \in Nat /\ Backing(u, a) \in Nat
  BY Zenon, Figures
<1>9. Backing(t, a) - Backing(u, a) = IF t.pc = "fulfilled" /\ t.to = a THEN t.outgoing ELSE 0
  BY <1>1, <1>2 DEF Backing
<1>10. Early(u)
  BY Zenon, <1>2 DEF Early
<1>0. dp = IF t.to = a THEN (IF t.pc = "fulfilled" THEN t.outgoing ELSE 0) - n ELSE 0
  BY Zenon DEF Scripted
<1> HIDE DEF dp
<1>11. dp = 0 + (Owed(u, a) - Owed(t, a)) - (Held(u, a) - Held(t, a))
  BY <1>0, <1>1, <1>3, <1>4, <1>7, <1>8
<1>12. dp + (Backing(u, a) - Backing(t, a))
         = 0 + (Earned(u, a) - Earned(t, a)) - (Settled(u, a) - Settled(t, a))
  <2>1. CASE t.to # a
    BY <1>0, <1>4, <1>7, <1>8, <1>9, <2>1
  <2>2. CASE t.to = a /\ t.pc = "fulfilled"
    BY <1>0, <1>1, <1>4, <1>7, <1>8, <1>9, <2>2
  <2>3. CASE t.to = a /\ t.pc # "fulfilled"
    BY <1>0, <1>4, <1>7, <1>8, <1>9, <2>3
  <2> QED
    BY Zenon, <2>1, <2>2, <2>3
<1>13. 0 + (Underway(u, a) - Underway(t, a)) <= Settled(u, a) - Settled(t, a)
  BY <1>4, <1>6
<1>14. Keeps(t, u, a, lost, dp, 0, 0)
  BY <1>5, <1>11, <1>12, <1>13 DEF Keeps
<1>15. dp + Backing(u, a) + Settled(u, a) = Backing(t, a)
  BY <1>0, <1>1, <1>4, <1>8, <1>9
<1> QED
  BY Zenon, <1>4, <1>10, <1>14, <1>15 DEF dp

\* The task of a settlement goes on, or it is over: there is nothing to settle,
\* there is no engine, or the engine accepts (n is what it accepts for account a).
Settles(t, pc, a, n, lost) ==
    \/ pc \in {"settling", "refunding"} /\ (n = 0 \/ lost)
    \/ pc = "done" /\ t.amount = 0 /\ n = 0
    \/ pc = "done" /\ t.to \notin HasEngine /\ n = 0
    \/ pc = "done" /\ n = Settled(t, a)

\* The settlement of a task.
LEMMA SettlingTask ==
    ASSUME NEW t \in Task, t.alive, t.pc \in {"credited", "settling"},
           NEW u \in Task, NEW a, NEW lost, NEW n \in Nat, NEW attempt, NEW pc,
           u = [t EXCEPT !.pc = pc, !.attempt = attempt], Settles(t, pc, a, n, lost)
    PROVE  Early(u) /\ Keeps(t, u, a, lost, 0, 0, n) /\ Backing(u, a) = Backing(t, a)
<1> USE DEF Settles
<1>1. /\ t.incoming \in Nat /\ t.outgoing \in Nat /\ t.amount \in Nat
  BY Zenon DEF Task
<1>2. /\ u.pc = pc /\ u.reply = t.reply /\ u.amount = t.amount /\ u.to = t.to
      /\ u.from = t.from /\ u.incoming = t.incoming /\ u.outgoing = t.outgoing
  BY Zenon DEF Task
<1>3. Settled(u, a) = Settled(t, a) /\ Settled(t, a) \in Nat
  BY Zenon, <1>1, <1>2 DEF Settled
<1>4. Held(t, a) = Settled(t, a) /\ Held(u, a) = Settled(t, a)
  <2>1. u.pc \in {"credited", "settling", "refunding", "done"}
    BY Zenon, <1>2
  <2> QED
    BY Zenon, <1>3, <2>1, HeldAt
<1>5. Owed(u, a) = Owed(t, a) /\ Earned(u, a) = Earned(t, a) /\ Backing(u, a) = Backing(t, a)
  BY <1>2 DEF Owed, Earned, Backing
<1>6. Owed(t, a) \in Int /\ Earned(t, a) \in Nat /\ Backing(t, a) \in Nat
  BY Zenon, Figures
<1> u.alive = t.alive
  BY Zenon DEF Task
<1>7. /\ pc # "done" => Underway(u, a) = Underway(t, a)
      /\ pc = "done" => Underway(u, a) = 0
      /\ Underway(t, a) = Settled(t, a)
  BY Zenon, <1>2, <1>3 DEF Underway, Running
<1>8. Paid(t, a) = 0 /\ Paid(u, a) = IF pc = "done" THEN Settled(t, a) ELSE 0
  BY Zenon, <1>2, <1>3 DEF Paid
<1>9. t.amount = 0 \/ (t.to \notin HasEngine /\ a \in HasEngine) => Settled(t, a) = 0
  BY Zenon DEF Settled
<1>10. Early(u)
  BY Zenon, <1>2 DEF Early
<1>11. ~lost => n + (Underway(u, a) - Underway(t, a)) <= Settled(u, a) - Settled(t, a)
  BY <1>3, <1>7, <1>9
<1>12. ~lost /\ a \in HasEngine => n = Paid(u, a) - Paid(t, a)
  BY <1>3, <1>8, <1>9
<1> QED
  BY <1>3, <1>4, <1>5, <1>6, <1>10, <1>11, <1>12 DEF Keeps

\* A settlement the engine refused is refunded.
LEMMA RefundedTask ==
    ASSUME NEW t \in Task, t.alive, t.pc = "refunding", NEW u \in Task, NEW a, NEW lost,
           u = [t EXCEPT !.pc = "done", !.amount = 0]
    PROVE  /\ Early(u) /\ Keeps(t, u, a, lost, Settled(t, a), 0, 0)
           /\ Backing(u, a) = Backing(t, a)
<1>1. /\ t.incoming \in Nat /\ t.outgoing \in Nat /\ t.amount \in Nat
  BY Zenon DEF Task
<1>2. /\ u.pc = "done" /\ u.reply = t.reply /\ u.amount = 0 /\ u.to = t.to
      /\ u.from = t.from /\ u.incoming = t.incoming /\ u.outgoing = t.outgoing
  BY Zenon DEF Task
<1>3. Settled(u, a) = 0 /\ Settled(t, a) \in Nat
  BY Zenon, <1>1, <1>2 DEF Settled
<1>4. Held(t, a) = Settled(t, a) /\ Held(u, a) = 0
  BY Zenon, <1>2, <1>3, HeldAt
<1>5. Owed(u, a) = Owed(t, a) /\ Earned(u, a) = Earned(t, a) /\ Backing(u, a) = Backing(t, a)
  BY <1>2 DEF Owed, Earned, Backing
<1>6. Owed(t, a) \in Int /\ Earned(t, a) \in Nat /\ Backing(t, a) \in Nat
  BY Zenon, Figures
<1>7. Underway(t, a) = Settled(t, a) /\ Underway(u, a) = 0
  BY Zenon, <1>2 DEF Underway, Running
<1>8. Paid(t, a) = 0 /\ Paid(u, a) = 0
  BY Zenon, <1>2, <1>3 DEF Paid
<1>9. Early(u)
  BY Zenon, <1>2 DEF Early
<1> QED
  BY <1>3, <1>4, <1>5, <1>6, <1>7, <1>8, <1>9 DEF Keeps

\* A task that dies.
LEMMA DeadTask ==
    ASSUME NEW t \in Task, Early(t), NEW u \in Task, NEW a,
           u = [t EXCEPT !.alive = FALSE]
    PROVE  /\ Early(u) /\ Owed(u, a) = Owed(t, a) /\ Held(u, a) = Held(t, a)
           /\ Backing(u, a) = Backing(t, a) /\ Earned(u, a) = Earned(t, a)
           /\ Settled(u, a) = Settled(t, a) /\ Paid(u, a) = Paid(t, a) /\ Underway(u, a) = 0
<1>1. /\ u.pc = t.pc /\ u.reply = t.reply /\ u.amount = t.amount /\ u.to = t.to
      /\ u.from = t.from /\ u.incoming = t.incoming /\ u.outgoing = t.outgoing
      /\ u.alive = FALSE
  BY Zenon DEF Task
<1>2. Settled(u, a) = Settled(t, a)
  BY Zenon, <1>1 DEF Settled
<1>3. Held(u, a) = Held(t, a)
  BY <1>1, <1>2, HeldAt DEF Task, Pc
<1> QED
  BY <1>1, <1>2, <1>3 DEF Early, Owed, Backing, Earned, Paid, Underway, Running

\* A new task: a forwarded packet, one whose prepare was lost, or a timeout.
LEMMA NewTaskFigures ==
    ASSUME NEW t \in Task, NEW a, t.amount = 0,
           \/ t.pc = "forwarded" /\ t.reply = "none"
           \/ t.pc = "rejected" /\ t.reply = "rejected"
           \/ t.pc = "expired" /\ t.reply = "none"
    PROVE  /\ Early(t) /\ Owed(t, a) = 0 /\ Earned(t, a) = 0 /\ Settled(t, a) = 0
           /\ Underway(t, a) = 0 /\ Paid(t, a) = 0
           /\ Held(t, a) = IF t.pc # "expired" /\ t.from = a THEN t.incoming ELSE 0
           /\ Backing(t, a) = Held(t, a)
<1>1. t.incoming \in Nat
  BY Zenon DEF Task
<1>2. Held(t, a) = IF t.pc # "expired" /\ t.from = a THEN t.incoming ELSE 0
  BY Zenon, HeldAt
<1>3. Settled(t, a) = 0
  BY Zenon DEF Settled
<1> QED
  BY <1>1, <1>2, <1>3 DEF Early, Owed, Earned, Underway, Paid, Backing

-----------------------------------------------------------------------------
\* The sums over all tasks.

\* The figures of a task by name, and their sum over the tasks of q.
Figure(k, t, a) ==
    CASE k = "owed" -> Owed(t, a)
      [] k = "held" -> Held(t, a)
      [] k = "backing" -> Backing(t, a)
      [] k = "earned" -> Earned(t, a)
      [] k = "settled" -> Settled(t, a)
      [] k = "underway" -> Underway(t, a)
      [] k = "paid" -> Paid(t, a)

Figured == {"owed", "held", "backing", "earned", "settled", "underway", "paid"}

Total(k, q, a) == SumFunction([j \in DOMAIN q |-> Figure(k, q[j], a)])

\* Which figure a name stands for.
LEMMA FigureIs ==
    ASSUME NEW t, NEW a
    PROVE  /\ Figure("owed", t, a) = Owed(t, a) /\ Figure("held", t, a) = Held(t, a)
           /\ Figure("backing", t, a) = Backing(t, a) /\ Figure("earned", t, a) = Earned(t, a)
           /\ Figure("settled", t, a) = Settled(t, a)
           /\ Figure("underway", t, a) = Underway(t, a) /\ Figure("paid", t, a) = Paid(t, a)
BY Zenon DEF Figure

\* The sums of the books are these sums.
LEMMA TotalIs ==
    ASSUME NEW a
    PROVE  /\ AllOwed(a) = Total("owed", tasks, a) /\ AllHeld(a) = Total("held", tasks, a)
           /\ AllBacking(a) = Total("backing", tasks, a)
           /\ AllEarned(a) = Total("earned", tasks, a)
           /\ AllSettled(a) = Total("settled", tasks, a)
           /\ AllUnderway(a) = Total("underway", tasks, a)
           /\ AllPaid(a) = Total("paid", tasks, a)
           /\ AllOwed(a)' = Total("owed", tasks', a) /\ AllHeld(a)' = Total("held", tasks', a)
           /\ AllBacking(a)' = Total("backing", tasks', a)
           /\ AllEarned(a)' = Total("earned", tasks', a)
           /\ AllSettled(a)' = Total("settled", tasks', a)
           /\ AllUnderway(a)' = Total("underway", tasks', a)
           /\ AllPaid(a)' = Total("paid", tasks', a)
BY Zenon, FigureIs DEF Total, AllOwed, AllHeld, AllBacking, AllEarned, AllSettled, AllUnderway, AllPaid

\* A figure and a sum are numbers, and only what is owed can be negative.
LEMMA TotalType ==
    ASSUME NEW q \in Seq(Task), NEW a, NEW k \in Figured
    PROVE  /\ IsFiniteSet(DOMAIN q)
           /\ \A j \in DOMAIN q : Figure(k, q[j], a) \in Int
           /\ Total(k, q, a) \in Int
           /\ k # "owed" => Total(k, q, a) \in Nat
<1> DEFINE f == [j \in DOMAIN q |-> Figure(k, q[j], a)]
<1>1. IsFiniteSet(DOMAIN q)
  BY FS_Interval
<1>2. ASSUME NEW t \in Task
      PROVE  Figure(k, t, a) \in Int /\ (k # "owed" => Figure(k, t, a) >= 0)
  BY Figures, FigureIs DEF Figured
<1>3. \A j \in DOMAIN q : q[j] \in Task
  OBVIOUS
<1>4. /\ DOMAIN f = DOMAIN q /\ \A j \in DOMAIN q : f[j] \in Int
      /\ k # "owed" => \A j \in DOMAIN q : f[j] >= 0
  BY Zenon, <1>2, <1>3
<1> HIDE DEF f
<1>5. SumFunction(f) \in Int /\ (k # "owed" => SumFunction(f) >= 0)
  BY Zenon, <1>1, <1>4, SumType DEF SumFunction
<1> QED
  BY <1>1, <1>2, <1>3, <1>5 DEF Total, f

\* One task changes.
LEMMA TotalMoves ==
    ASSUME NEW q \in Seq(Task), NEW i \in DOMAIN q, NEW a, NEW k \in Figured,
           NEW r \in Seq(Task), DOMAIN r = DOMAIN q, \A j \in DOMAIN q : j # i => r[j] = q[j]
    PROVE  Total(k, r, a) = Total(k, q, a) + (Figure(k, r[i], a) - Figure(k, q[i], a))
<1> DEFINE f == [j \in DOMAIN q |-> Figure(k, q[j], a)]
           g == [j \in DOMAIN q |-> Figure(k, r[j], a)]
<1>1. IsFiniteSet(DOMAIN q) /\ f \in [DOMAIN q -> Int] /\ g \in [DOMAIN q -> Int]
  BY Zenon, TotalType
<1>2. /\ \A j \in DOMAIN q : j # i => g[j] = f[j]
      /\ f[i] = Figure(k, q[i], a) /\ g[i] = Figure(k, r[i], a)
  BY Zenon
<1>3. Total(k, q, a) = SumFunction(f) /\ Total(k, r, a) = SumFunction(g)
  BY Zenon DEF Total
<1> HIDE DEF f, g
<1>4. f[i] \in Int /\ g[i] \in Int
  BY Zenon, <1>1
<1>5. SumFunction(f) \in Int /\ SumFunction(g) = SumFunction(f) - f[i] + g[i]
  BY Zenon, <1>1, <1>2, SumFunctionChange
<1>6. SumFunction(g) = SumFunction(f) + (g[i] - f[i])
  BY <1>4, <1>5
<1> QED
  BY Zenon, <1>2, <1>3, <1>6

\* One task more.
LEMMA TotalGrows ==
    ASSUME NEW q \in Seq(Task), NEW u \in Task, NEW a, NEW k \in Figured,
           NEW r, r = Append(q, u)
    PROVE  Total(k, r, a) = Total(k, q, a) + Figure(k, u, a)
<1> DEFINE n == Len(q) + 1
           f == [j \in DOMAIN q |-> Figure(k, q[j], a)]
           g == [j \in DOMAIN r |-> Figure(k, r[j], a)]
<1>1. /\ r \in Seq(Task) /\ DOMAIN r = (DOMAIN q) \cup {n} /\ n \notin DOMAIN q /\ r[n] = u
      /\ \A j \in DOMAIN q : r[j] = q[j]
  OBVIOUS
<1>2. /\ IsFiniteSet(DOMAIN q) /\ f \in [DOMAIN q -> Int]
      /\ g \in [(DOMAIN q) \cup {n} -> Int]
  BY Zenon, <1>1, TotalType
<1>3. (\A j \in DOMAIN q : g[j] = f[j]) /\ g[n] = Figure(k, u, a)
  BY Zenon, <1>1
<1>4. Total(k, q, a) = SumFunction(f) /\ Total(k, r, a) = SumFunction(g)
  BY Zenon DEF Total
<1> HIDE DEF f, g, n
<1>5. SumFunctionOnSet(g, (DOMAIN q) \cup {n}) = SumFunctionOnSet(g, DOMAIN q) + g[n]
  <2>1. (\A j \in DOMAIN q : g[j] \in Int) /\ g[n] \in Int
    BY Zenon, <1>2
  <2> QED
    BY SMTT(30), <1>1, <1>2, <2>1, SumAdd
<1>6. SumFunctionOnSet(g, DOMAIN q) = SumFunctionOnSet(f, DOMAIN q)
  BY Zenon, <1>2, <1>3, SumSame
<1>7. DOMAIN f = DOMAIN q /\ DOMAIN g = (DOMAIN q) \cup {n}
  BY Zenon, <1>2
<1>8. /\ SumFunction(g) = SumFunctionOnSet(g, (DOMAIN q) \cup {n})
      /\ SumFunction(f) = SumFunctionOnSet(f, DOMAIN q)
  BY Zenon, <1>7 DEF SumFunction
<1> QED
  BY Zenon, <1>3, <1>4, <1>5, <1>6, <1>8

\* Two figures that are the same for every task have the same sum.
LEMMA TotalSame ==
    ASSUME NEW q \in Seq(Task), NEW r \in Seq(Task), NEW a, NEW k \in Figured,
           NEW m \in Figured, DOMAIN r = DOMAIN q,
           \A j \in DOMAIN q : Figure(m, r[j], a) = Figure(k, q[j], a)
    PROVE  Total(m, r, a) = Total(k, q, a)
BY Zenon DEF Total

\* The sums are numbers.
LEMMA SumsType ==
    ASSUME TypeOK, NEW a
    PROVE  /\ AllOwed(a) \in Int /\ AllHeld(a) \in Int /\ AllBacking(a) \in Nat
           /\ AllEarned(a) \in Int /\ AllSettled(a) \in Int /\ AllUnderway(a) \in Nat
           /\ AllPaid(a) \in Int
BY TotalIs, TotalType DEF TypeOK, Figured

\* One task changes.
LEMMA SumsMove ==
    ASSUME TypeOK, NEW i \in DOMAIN tasks, NEW u \in Task,
           tasks' = [tasks EXCEPT ![i] = u], NEW a
    PROVE  /\ AllOwed(a)' = AllOwed(a) + (Owed(u, a) - Owed(tasks[i], a))
           /\ AllHeld(a)' = AllHeld(a) + (Held(u, a) - Held(tasks[i], a))
           /\ AllBacking(a)' = AllBacking(a) + (Backing(u, a) - Backing(tasks[i], a))
           /\ AllEarned(a)' = AllEarned(a) + (Earned(u, a) - Earned(tasks[i], a))
           /\ AllSettled(a)' = AllSettled(a) + (Settled(u, a) - Settled(tasks[i], a))
           /\ AllUnderway(a)' = AllUnderway(a) + (Underway(u, a) - Underway(tasks[i], a))
           /\ AllPaid(a)' = AllPaid(a) + (Paid(u, a) - Paid(tasks[i], a))
<1>1. /\ tasks \in Seq(Task) /\ tasks' \in Seq(Task) /\ tasks'[i] = u
      /\ DOMAIN tasks' = DOMAIN tasks /\ \A j \in DOMAIN tasks : j # i => tasks'[j] = tasks[j]
  BY DEF TypeOK
<1>2. \A k \in Figured :
          Total(k, tasks', a) = Total(k, tasks, a) + (Figure(k, u, a) - Figure(k, tasks[i], a))
  BY ONLY i \in DOMAIN tasks, <1>1, TotalMoves
<1>3. /\ "owed" \in Figured /\ "held" \in Figured /\ "backing" \in Figured
      /\ "earned" \in Figured /\ "settled" \in Figured /\ "underway" \in Figured
      /\ "paid" \in Figured
  BY Zenon DEF Figured
<1> QED
  BY ONLY <1>2, <1>3, TotalIs, FigureIs

\* One task more.
LEMMA SumsAppend ==
    ASSUME TypeOK, NEW u \in Task, tasks' = Append(tasks, u), NEW a
    PROVE  /\ AllOwed(a)' = AllOwed(a) + Owed(u, a)
           /\ AllHeld(a)' = AllHeld(a) + Held(u, a)
           /\ AllBacking(a)' = AllBacking(a) + Backing(u, a)
           /\ AllEarned(a)' = AllEarned(a) + Earned(u, a)
           /\ AllSettled(a)' = AllSettled(a) + Settled(u, a)
           /\ AllUnderway(a)' = AllUnderway(a) + Underway(u, a)
           /\ AllPaid(a)' = AllPaid(a) + Paid(u, a)
<1>1. ASSUME NEW k \in Figured
      PROVE  Total(k, tasks', a) = Total(k, tasks, a) + Figure(k, u, a)
  <2>1. tasks \in Seq(Task)
    BY Zenon DEF TypeOK
  <2> QED
    BY Zenon, <2>1, TotalGrows
<1>2. /\ "owed" \in Figured /\ "held" \in Figured /\ "backing" \in Figured
      /\ "earned" \in Figured /\ "settled" \in Figured /\ "underway" \in Figured
      /\ "paid" \in Figured
  BY Zenon DEF Figured
<1> QED
  BY <1>1, <1>2, TotalIs, FigureIs

-----------------------------------------------------------------------------
\* The books of one account over a step.

Lost == faults["lost"] # 0

\* An answer that was lost stays lost, and no fault is forgotten.
LEMMA FaultsStay ==
    ASSUME IInv, [Next]_vars
    PROVE  (Lost => Lost') /\ (NoFaults' => NoFaults)
<1>1. faults \in [Fault -> Nat] /\ {"crash", "store", "lost"} \subseteq Fault
  BY Zenon DEF IInv, TypeOK, Fault
<1>2. ASSUME NEW f \in Fault, NEW max, Happens(f, max), NEW g \in Fault, faults[g] # 0
      PROVE  faults'[g] # 0
  BY <1>1, <1>2 DEF Happens
<1>3. UNCHANGED faults \/ \E f \in Fault, max \in Nat : Happens(f, max)
  BY Zenon, BoundAssumption
     DEF Next, vars, Prepare, PrepareAnswerLost, TaskStep, Fulfilled, Rejected, RollBack,
         Credit, Schedule, StartSettlement, SettleDelayed, NoEngine, EngineAccepts,
         EngineRefuses, EngineFails, EngineAnswerLost, Refund, StoreFails, StoreAnswerLost,
         HandleCommand, Expire, Incoming, Crash, Fault
<1>4. \A g \in Fault : faults[g] # 0 => faults'[g] # 0
  BY Zenon, <1>2, <1>3
<1> QED
  BY Zenon, <1>1, <1>4 DEF Lost, NoFaults

\* The figures of the account after the step are typed.
LEMMA AccountFigures ==
    ASSUME IInv, NEW a \in Account
    PROVE  Position(accounts[a]) \in Int /\ received[a] \in Nat /\ engine[a] \in Nat
BY DEF IInv, TypeOK, Position, Hash

\* A credit line is a number.
LEMMA CreditLineType == ASSUME NEW a \in Account PROVE CreditLine(a) \in Nat
BY AccountAssumption DEF CreditLine

\* The sums, the position, what was received and what was accepted change by what
\* keeps the books.
LEMMA BooksChange ==
    ASSUME IInv, IInv', Lost => Lost', NEW a \in Account, BalancedNow(a),
           AllOwed(a)' \in Int, AllHeld(a)' \in Int, AllEarned(a)' \in Int,
           AllSettled(a)' \in Int, AllUnderway(a)' \in Int, AllPaid(a)' \in Int,
           Position(accounts'[a]) - Position(accounts[a])
              = (received'[a] - received[a]) + (AllOwed(a)' - AllOwed(a))
                  - (AllHeld(a)' - AllHeld(a)),
           (Position(accounts'[a]) - Position(accounts[a])) + (AllBacking(a)' - AllBacking(a))
              = (received'[a] - received[a]) + (AllEarned(a)' - AllEarned(a))
                  - (AllSettled(a)' - AllSettled(a)),
           ~Lost' => (engine'[a] - engine[a]) + (AllUnderway(a)' - AllUnderway(a))
                        <= AllSettled(a)' - AllSettled(a),
           ~Lost' /\ a \in HasEngine => engine'[a] - engine[a] = AllPaid(a)' - AllPaid(a),
           \/ Position(accounts'[a]) + AllBacking(a)' >= Position(accounts[a]) + AllBacking(a)
           \/ Position(accounts'[a]) >= 0 - CreditLine(a)
    PROVE  BalancedNow(a)'
<1> DEFINE p == Position(accounts[a])
           p2 == Position(accounts'[a])
<1>1. /\ AllOwed(a) \in Int /\ AllHeld(a) \in Int /\ AllBacking(a) \in Nat
      /\ AllEarned(a) \in Int /\ AllSettled(a) \in Int /\ AllUnderway(a) \in Int
      /\ AllPaid(a) \in Int
  BY SumsType DEF IInv
<1>2. p \in Int /\ received[a] \in Int /\ engine[a] \in Int
  BY AccountFigures
<1>3. p2 \in Int /\ received'[a] \in Int /\ engine'[a] \in Int
  <2>1. /\ accounts' \in [Account -> Hash] /\ received' \in [Account -> Nat]
        /\ engine' \in [Account -> Nat]
    BY Zenon DEF IInv, TypeOK
  <2>2. accounts'[a] \in Hash
    BY Zenon, <2>1
  <2> QED
    BY SMTT(30), <2>1, <2>2 DEF Position, Hash
<1>4. AllBacking(a)' \in Nat
  BY SMTT(30), TotalIs, TotalType DEF IInv, TypeOK, Figured
<1>5. CreditLine(a) \in Nat
  BY Zenon, CreditLineType
<1>6. Balanced(a, Lost, p, received[a], engine[a], AllOwed(a), AllHeld(a), AllBacking(a),
               AllEarned(a), AllSettled(a), AllUnderway(a), AllPaid(a))
  BY Zenon DEF BalancedNow, Lost
<1> DEFINE r == received[a]
           r2 == received'[a]
<1>7. p2 = received'[a] + AllOwed(a)' - AllHeld(a)'
  <2> DEFINE o == AllOwed(a)
             o2 == AllOwed(a)'
             h == AllHeld(a)
             h2 == AllHeld(a)'
  <2>1. {p, p2, r, r2, o, o2, h, h2} \subseteq Int
    BY Zenon, <1>1, <1>2, <1>3
  <2>2. p = r + o - h
    BY Zenon, <1>6 DEF Balanced
  <2>3. p2 - p = (r2 - r) + (o2 - o) - (h2 - h)
    BY Zenon
  <2> HIDE DEF p, p2, r, r2, o, o2, h, h2
  <2>4. p2 = r2 + o2 - h2
    BY ONLY <2>1, <2>2, <2>3
  <2> QED
    BY Zenon, <2>4 DEF r2, o2, h2
<1>8. p2 + AllBacking(a)' = received'[a] + AllEarned(a)' - AllSettled(a)'
  <2> DEFINE b == AllBacking(a)
             b2 == AllBacking(a)'
             e == AllEarned(a)
             e2 == AllEarned(a)'
             s == AllSettled(a)
             s2 == AllSettled(a)'
  <2>1. {p, p2, r, r2, e, e2, s, s2} \subseteq Int /\ b \in Nat /\ b2 \in Nat
    BY Zenon, <1>1, <1>2, <1>3, <1>4
  <2>2. p + b = r + e - s
    BY Zenon, <1>6 DEF Balanced
  <2>3. (p2 - p) + (b2 - b) = (r2 - r) + (e2 - e) - (s2 - s)
    BY Zenon
  <2> HIDE DEF p, p2, r, r2, b, b2, e, e2, s, s2
  <2>4. p2 + b2 = r2 + e2 - s2
    BY ONLY <2>1, <2>2, <2>3
  <2> QED
    BY Zenon, <2>4 DEF r2, b2, e2, s2
<1>9. p2 + AllBacking(a)' >= 0 - CreditLine(a)
  <2>1. p + AllBacking(a) >= 0 - CreditLine(a)
    BY Zenon, <1>6 DEF Balanced
  <2> HIDE DEF p, p2
  <2>2. p2 + AllBacking(a)' >= p + AllBacking(a) \/ p2 >= 0 - CreditLine(a)
    BY Zenon DEF p, p2
  <2> QED
    BY <1>1, <1>2, <1>3, <1>4, <1>5, <2>1, <2>2
<1>10. ~Lost' => engine'[a] + AllUnderway(a)' <= AllSettled(a)'
  <2>1. ~Lost => engine[a] + AllUnderway(a) <= AllSettled(a)
    BY Zenon, <1>6 DEF Balanced
  <2> QED
    BY <1>1, <1>2, <1>3, <2>1
<1>11. ~Lost' /\ a \in HasEngine => engine'[a] = AllPaid(a)'
  <2> SUFFICES ASSUME ~Lost', a \in HasEngine PROVE engine'[a] = AllPaid(a)'
    BY Zenon
  <2>1. engine[a] = AllPaid(a)
    BY Zenon, <1>6 DEF Balanced
  <2>2. engine'[a] - engine[a] = AllPaid(a)' - AllPaid(a)
    BY Zenon
  <2> QED
    BY SMTT(30), <1>1, <1>2, <1>3, <2>1, <2>2
<1> QED
  BY Zenon, <1>7, <1>8, <1>9, <1>10, <1>11 DEF BalancedNow, Balanced, Lost

\* One task changes.
LEMMA MovedBooks ==
    ASSUME IInv, IInv', Lost => Lost', NEW a \in Account, BalancedNow(a),
           NEW i \in DOMAIN tasks, NEW u \in Task, tasks' = [tasks EXCEPT ![i] = u],
           NEW dp \in Int, NEW dr \in Int, NEW de \in Int,
           Position(accounts'[a]) = Position(accounts[a]) + dp,
           received'[a] = received[a] + dr, engine'[a] = engine[a] + de,
           Keeps(tasks[i], u, a, Lost', dp, dr, de),
           \/ dp + Backing(u, a) >= Backing(tasks[i], a)
           \/ Position(accounts'[a]) >= 0 - CreditLine(a)
    PROVE  BalancedNow(a)'
<1> DEFINE t == tasks[i]
<1>1. t \in Task
  BY Zenon, TaskType DEF IInv
<1>2. /\ Owed(t, a) \in Int /\ Held(t, a) \in Nat /\ Backing(t, a) \in Nat
      /\ Earned(t, a) \in Nat /\ Settled(t, a) \in Nat /\ Underway(t, a) \in Nat
      /\ Paid(t, a) \in Nat
  BY Zenon, <1>1, Figures
<1>3. /\ Owed(u, a) \in Int /\ Held(u, a) \in Nat /\ Backing(u, a) \in Nat
      /\ Earned(u, a) \in Nat /\ Settled(u, a) \in Nat /\ Underway(u, a) \in Nat
      /\ Paid(u, a) \in Nat
  BY Zenon, Figures
<1> HIDE DEF t
<1>4. /\ AllOwed(a)' = AllOwed(a) + (Owed(u, a) - Owed(t, a))
      /\ AllHeld(a)' = AllHeld(a) + (Held(u, a) - Held(t, a))
      /\ AllBacking(a)' = AllBacking(a) + (Backing(u, a) - Backing(t, a))
      /\ AllEarned(a)' = AllEarned(a) + (Earned(u, a) - Earned(t, a))
      /\ AllSettled(a)' = AllSettled(a) + (Settled(u, a) - Settled(t, a))
      /\ AllUnderway(a)' = AllUnderway(a) + (Underway(u, a) - Underway(t, a))
      /\ AllPaid(a)' = AllPaid(a) + (Paid(u, a) - Paid(t, a))
  BY Zenon, SumsMove DEF IInv, t
<1>5. /\ AllOwed(a) \in Int /\ AllHeld(a) \in Int /\ AllBacking(a) \in Nat
      /\ AllEarned(a) \in Int /\ AllSettled(a) \in Int /\ AllUnderway(a) \in Int
      /\ AllPaid(a) \in Int
  BY SumsType DEF IInv
<1>6. Position(accounts[a]) \in Int /\ received[a] \in Int /\ engine[a] \in Int
  BY AccountFigures
<1>7. Keeps(t, u, a, Lost', dp, dr, de)
  BY Zenon DEF t
<1> DEFINE p == Position(accounts[a])
           p2 == Position(accounts'[a])
<1>8. p \in Int /\ p2 = p + dp /\ p2 \in Int
  BY <1>6
<1>9. p2 + AllBacking(a)' >= p + AllBacking(a) \/ p2 >= 0 - CreditLine(a)
  <2>1. CASE dp + Backing(u, a) >= Backing(t, a)
    <3> HIDE DEF p, p2
    <3> QED
      BY SMTT(30), <1>2, <1>3, <1>4, <1>5, <1>8, <2>1
  <2> QED
    BY Zenon, <2>1 DEF t
<1> HIDE DEF p, p2
<1>11. /\ AllOwed(a)' \in Int /\ AllHeld(a)' \in Int /\ AllEarned(a)' \in Int
       /\ AllSettled(a)' \in Int /\ AllUnderway(a)' \in Int /\ AllPaid(a)' \in Int
  BY SMTT(30), <1>2, <1>3, <1>4, <1>5
<1>12. p2 - p = (received'[a] - received[a]) + (AllOwed(a)' - AllOwed(a))
                  - (AllHeld(a)' - AllHeld(a))
  <2>1. dp = dr + (Owed(u, a) - Owed(t, a)) - (Held(u, a) - Held(t, a))
    BY Zenon, <1>7 DEF Keeps
  <2> QED
    BY SMTT(30), <1>2, <1>3, <1>4, <1>5, <1>6, <1>8, <2>1
<1>13. (p2 - p) + (AllBacking(a)' - AllBacking(a))
          = (received'[a] - received[a]) + (AllEarned(a)' - AllEarned(a))
              - (AllSettled(a)' - AllSettled(a))
  <2>1. dp + (Backing(u, a) - Backing(t, a))
         = dr + (Earned(u, a) - Earned(t, a)) - (Settled(u, a) - Settled(t, a))
    BY Zenon, <1>7 DEF Keeps
  <2> QED
    BY SMTT(30), <1>2, <1>3, <1>4, <1>5, <1>6, <1>8, <2>1
<1>14. ~Lost' => (engine'[a] - engine[a]) + (AllUnderway(a)' - AllUnderway(a))
                    <= AllSettled(a)' - AllSettled(a)
  <2>1. ~Lost' => de + (Underway(u, a) - Underway(t, a)) <= Settled(u, a) - Settled(t, a)
    BY Zenon, <1>7 DEF Keeps
  <2> QED
    BY SMTT(30), <1>2, <1>3, <1>4, <1>5, <1>6, <2>1
<1>15. ~Lost' /\ a \in HasEngine => engine'[a] - engine[a] = AllPaid(a)' - AllPaid(a)
  <2>1. ~Lost' /\ a \in HasEngine => de = Paid(u, a) - Paid(t, a)
    BY Zenon, <1>7 DEF Keeps
  <2> QED
    BY SMTT(30), <1>2, <1>3, <1>4, <1>5, <1>6, <2>1
<1> QED
  BY Zenon, <1>9, <1>11, <1>12, <1>13, <1>14, <1>15, BooksChange DEF p, p2

\* One task more.
LEMMA AppendedBooks ==
    ASSUME IInv, IInv', Lost => Lost', NEW a \in Account, BalancedNow(a),
           NEW u \in Task, tasks' = Append(tasks, u),
           Position(accounts'[a]) = Position(accounts[a]) - Held(u, a),
           received'[a] = received[a], engine'[a] = engine[a],
           Owed(u, a) = 0, Earned(u, a) = 0, Settled(u, a) = 0, Underway(u, a) = 0,
           Paid(u, a) = 0, Backing(u, a) = Held(u, a)
    PROVE  BalancedNow(a)'
<1> DEFINE p == Position(accounts[a])
           p2 == Position(accounts'[a])
<1>1. Held(u, a) \in Nat
  BY Zenon, Figures
<1>2. /\ AllOwed(a) \in Int /\ AllHeld(a) \in Int /\ AllBacking(a) \in Nat
      /\ AllEarned(a) \in Int /\ AllSettled(a) \in Int /\ AllUnderway(a) \in Int
      /\ AllPaid(a) \in Int
  BY SumsType DEF IInv
<1>3. /\ AllOwed(a)' = AllOwed(a) + Owed(u, a) /\ AllHeld(a)' = AllHeld(a) + Held(u, a)
      /\ AllBacking(a)' = AllBacking(a) + Backing(u, a)
      /\ AllEarned(a)' = AllEarned(a) + Earned(u, a)
      /\ AllSettled(a)' = AllSettled(a) + Settled(u, a)
      /\ AllUnderway(a)' = AllUnderway(a) + Underway(u, a)
      /\ AllPaid(a)' = AllPaid(a) + Paid(u, a)
  BY Zenon, SumsAppend DEF IInv
<1>4. /\ AllOwed(a)' = AllOwed(a) /\ AllEarned(a)' = AllEarned(a)
      /\ AllSettled(a)' = AllSettled(a) /\ AllUnderway(a)' = AllUnderway(a)
      /\ AllPaid(a)' = AllPaid(a) /\ AllHeld(a)' = AllHeld(a) + Held(u, a)
      /\ AllBacking(a)' = AllBacking(a) + Held(u, a) /\ AllHeld(a)' \in Int
  BY SMTT(30), <1>1, <1>2, <1>3
<1>5. p \in Int /\ received[a] \in Int /\ engine[a] \in Int
  BY AccountFigures
<1>6. p2 = p - Held(u, a)
  BY Zenon
<1> HIDE DEF p, p2
<1> DEFINE n == Held(u, a)
<1>11. /\ received'[a] - received[a] = 0 /\ AllOwed(a)' - AllOwed(a) = 0
      /\ AllEarned(a)' - AllEarned(a) = 0 /\ AllSettled(a)' - AllSettled(a) = 0
  BY SMTT(30), <1>2, <1>4, <1>5
<1>12. /\ AllHeld(a)' - AllHeld(a) = n /\ AllBacking(a)' - AllBacking(a) = n /\ p2 - p = 0 - n
      /\ n \in Nat
  <2>1. ASSUME NEW x \in Int, NEW y \in Nat PROVE (x + y) - x = y /\ (x - y) - x = 0 - y
    OBVIOUS
  <2>2. n \in Nat
    BY Zenon, <1>1
  <2>3. AllHeld(a)' - AllHeld(a) = n
    BY ONLY <1>2, <1>4, <2>1, <2>2 DEF n
  <2>4. AllBacking(a)' - AllBacking(a) = n
    BY ONLY <1>2, <1>4, <2>1, <2>2 DEF n
  <2>5. p2 - p = 0 - n
    BY ONLY Zenon, <1>5, <1>6, <2>1, <2>2 DEF n
  <2> QED
    BY Zenon, <2>2, <2>3, <2>4, <2>5
<1> HIDE DEF n
<1>7. p2 - p = (received'[a] - received[a]) + (AllOwed(a)' - AllOwed(a))
                 - (AllHeld(a)' - AllHeld(a))
  BY <1>11, <1>12
<1>8. (p2 - p) + (AllBacking(a)' - AllBacking(a))
         = (received'[a] - received[a]) + (AllEarned(a)' - AllEarned(a))
             - (AllSettled(a)' - AllSettled(a))
  BY <1>11, <1>12
<1>9. /\ (engine'[a] - engine[a]) + (AllUnderway(a)' - AllUnderway(a))
              <= AllSettled(a)' - AllSettled(a)
      /\ engine'[a] - engine[a] = AllPaid(a)' - AllPaid(a)
  BY SMTT(30), <1>2, <1>4, <1>5
<1>10. p2 + AllBacking(a)' >= p + AllBacking(a)
  BY SMTT(30), <1>1, <1>2, <1>4, <1>5, <1>6
<1> QED
  BY Zenon, <1>2, <1>4, <1>7, <1>8, <1>9, <1>10, BooksChange DEF p, p2

\* No task changes.
LEMMA SameTaskBooks ==
    ASSUME IInv, IInv', Lost => Lost', NEW a \in Account, BalancedNow(a), UNCHANGED tasks,
           NEW n \in Nat, Position(accounts'[a]) = Position(accounts[a]) + n,
           received'[a] = received[a] + n, engine'[a] = engine[a]
    PROVE  BalancedNow(a)'
<1> DEFINE p == Position(accounts[a])
           p2 == Position(accounts'[a])
<1>1. /\ AllOwed(a) \in Int /\ AllHeld(a) \in Int /\ AllBacking(a) \in Nat
      /\ AllEarned(a) \in Int /\ AllSettled(a) \in Int /\ AllUnderway(a) \in Int
      /\ AllPaid(a) \in Int
  BY SMTT(30), SumsType DEF IInv
<1>2. /\ AllOwed(a)' = AllOwed(a) /\ AllEarned(a)' = AllEarned(a)
      /\ AllSettled(a)' = AllSettled(a) /\ AllUnderway(a)' = AllUnderway(a)
      /\ AllPaid(a)' = AllPaid(a) /\ AllHeld(a)' = AllHeld(a)
      /\ AllBacking(a)' = AllBacking(a)
  BY Zenon DEF AllOwed, AllEarned, AllSettled, AllUnderway, AllPaid, AllHeld, AllBacking
<1>3. p \in Int /\ received[a] \in Int /\ engine[a] \in Int
  BY AccountFigures
<1>4. p2 = p + n
  BY Zenon
<1> HIDE DEF p, p2
<1>5. /\ p2 - p = (received'[a] - received[a]) + (AllOwed(a)' - AllOwed(a))
                      - (AllHeld(a)' - AllHeld(a))
      /\ (p2 - p) + (AllBacking(a)' - AllBacking(a))
            = (received'[a] - received[a]) + (AllEarned(a)' - AllEarned(a))
                - (AllSettled(a)' - AllSettled(a))
  BY SMTT(30), <1>1, <1>2, <1>3, <1>4
<1>6. /\ (engine'[a] - engine[a]) + (AllUnderway(a)' - AllUnderway(a))
              <= AllSettled(a)' - AllSettled(a)
      /\ engine'[a] - engine[a] = AllPaid(a)' - AllPaid(a)
  BY <1>1, <1>2, <1>3
<1>7. p2 + AllBacking(a)' >= p + AllBacking(a)
  BY <1>1, <1>2, <1>3, <1>4
<1> QED
  BY Zenon, <1>1, <1>2, <1>5, <1>6, <1>7, BooksChange DEF p, p2

-----------------------------------------------------------------------------
\* The steps of a task.

\* A settling script takes off the balance exactly what it asks to settle, and
\* settles no account below its settle_to.
LEMMA SettlesExactly ==
    ASSUME NEW h \in Hash, NEW n \in Nat, NEW a \in Account
    PROVE  /\ LET f == ProcessFulfill(h, a, n)
              IN  /\ Position(f.hash) = Position(h) + (n - f.amount)
                  /\ f.amount = 0 \/ Position(f.hash) >= 0 - CreditLine(a)
           /\ LET s == ProcessSettle(h, a)
              IN  /\ Position(s.hash) = Position(h) + (0 - s.amount)
                  /\ s.amount = 0 \/ Position(s.hash) >= 0 - CreditLine(a)
<1> DEFINE credited == [h EXCEPT !.balance = @ + n]
<1>1. credited \in Hash /\ Position(credited) = Position(h) + n /\ Position(h) \in Int
  BY DEF Hash, Position
<1>2. ASSUME NEW g \in Hash, CanSettle(a)
      PROVE  /\ Position(SettledDown(g, a).hash) = Position(g) - SettledDown(g, a).amount
             /\ Position(SettledDown(g, a).hash) >= 0 - CreditLine(a)
             /\ Position(g) \in Int /\ SettledDown(g, a).amount \in Int
  <2>1. SettleTo[a] \in Int /\ a \in HasSettlement
    BY Zenon, <1>2, AccountAssumption DEF CanSettle
  <2>2. /\ SettledDown(g, a).hash.balance = SettleTo[a]
        /\ SettledDown(g, a).hash.prepaid = g.prepaid
        /\ SettledDown(g, a).amount = g.balance - SettleTo[a]
    BY Zenon DEF SettledDown, Hash
  <2>3. g.balance \in Int /\ g.prepaid \in Nat
    BY Zenon DEF Hash
  <2> QED
    BY <2>1, <2>2, <2>3 DEF Position, CreditLine
<1>3. ASSUME NEW g PROVE Kept(g).hash = g /\ Kept(g).amount = 0
  BY Zenon DEF Kept
<1> HIDE DEF credited
<1>4. ProcessFulfill(h, a, n) = IF CanSettle(a) /\ credited.balance >= SettleThreshold[a]
                                THEN SettledDown(credited, a) ELSE Kept(credited)
  BY Zenon DEF ProcessFulfill, credited
<1>5. ProcessSettle(h, a) = IF CanSettle(a) /\ h.balance >= SettleTo[a]
                            THEN SettledDown(h, a) ELSE Kept(h)
  BY Zenon DEF ProcessSettle
<1>6. LET f == ProcessFulfill(h, a, n)
      IN  /\ Position(f.hash) = Position(h) + (n - f.amount)
          /\ f.amount = 0 \/ Position(f.hash) >= 0 - CreditLine(a)
  <2>1. CASE CanSettle(a) /\ credited.balance >= SettleThreshold[a]
    BY <1>1, <1>2, <1>4, <2>1
  <2>2. CASE ~(CanSettle(a) /\ credited.balance >= SettleThreshold[a])
    BY <1>1, <1>3, <1>4, <2>2
  <2> QED
    BY Zenon, <2>1, <2>2
<1>7. LET s == ProcessSettle(h, a)
      IN  /\ Position(s.hash) = Position(h) + (0 - s.amount)
          /\ s.amount = 0 \/ Position(s.hash) >= 0 - CreditLine(a)
  <2>1. CASE CanSettle(a) /\ h.balance >= SettleTo[a]
    BY <1>1, <1>2, <1>5, <2>1
  <2>2. CASE ~(CanSettle(a) /\ h.balance >= SettleTo[a])
    BY <1>1, <1>3, <1>5, <2>2
  <2> QED
    BY Zenon, <2>1, <2>2
<1> QED
  BY Zenon, <1>6, <1>7

\* Task i becomes u, and account a changes as that requires.
Moves(i, u, a) ==
    \E dp, de \in Int :
        /\ Position(accounts'[a]) = Position(accounts[a]) + dp
        /\ engine'[a] = engine[a] + de
        /\ Keeps(tasks[i], u, a, Lost', dp, 0, de)
        /\ \/ dp + Backing(u, a) >= Backing(tasks[i], a)
           \/ Position(accounts'[a]) >= 0 - CreditLine(a)

\* What a step of a task has to show.
LEMMA MovedInv ==
    ASSUME IInv, IInv', BooksInv, Lost => Lost', NoFaults' => NoFaults,
           NEW i \in DOMAIN tasks, NEW u \in Task, tasks' = [tasks EXCEPT ![i] = u],
           Early(u), NoFaults' => u.alive, UNCHANGED received,
           \A a \in Account : Moves(i, u, a)
    PROVE  BooksInv'
<1>1. /\ DOMAIN tasks' = DOMAIN tasks /\ tasks'[i] = u
      /\ \A j \in DOMAIN tasks : j # i => tasks'[j] = tasks[j]
  BY Zenon
<1>2. \A j \in DOMAIN tasks' : Early(tasks'[j])
  BY Zenon, <1>1 DEF BooksInv
<1>3. NoFaults' => AllAlive'
  BY Zenon, <1>1 DEF BooksInv, AllAlive
<1>4. ASSUME NEW a \in Account PROVE BalancedNow(a)'
  <2>1. PICK dp \in Int, de \in Int :
          /\ Position(accounts'[a]) = Position(accounts[a]) + dp
          /\ engine'[a] = engine[a] + de
          /\ Keeps(tasks[i], u, a, Lost', dp, 0, de)
          /\ \/ dp + Backing(u, a) >= Backing(tasks[i], a)
             \/ Position(accounts'[a]) >= 0 - CreditLine(a)
    BY Zenon DEF Moves
  <2>2. received'[a] = received[a] + 0
    BY AccountFigures
  <2>3. BalancedNow(a)
    BY Zenon DEF BooksInv
  <2>4. 0 \in Int
    OBVIOUS
  <2> QED
    BY Zenon, <2>1, <2>2, <2>3, <2>4, MovedBooks
<1> QED
  BY Zenon, <1>2, <1>3, <1>4 DEF BooksInv

\* What is known of a task that is at work.
LEMMA LiveTask ==
    ASSUME IInv, BooksInv, NEW i \in Live
    PROVE  /\ i \in DOMAIN tasks /\ tasks[i] \in Task /\ Early(tasks[i])
           /\ tasks[i].alive
BY Zenon, TaskType DEF IInv, BooksInv, Live, Running

\* The reply arrives.
LEMMA ReplyBooks ==
    ASSUME IInv, IInv', BooksInv, Lost => Lost', NoFaults' => NoFaults,
           NEW i \in DOMAIN tasks, Fulfilled(i) \/ Rejected(i)
    PROVE  BooksInv'
<1>1. i \in Live /\ tasks[i].pc = "forwarded" /\ UNCHANGED <<accounts, engine, received>>
  BY Zenon DEF Fulfilled, Rejected, At
<1>2. PICK t \in Task : t = tasks[i] /\ Early(t) /\ t.alive
  BY Zenon, <1>1, LiveTask
<1>3. PICK u :
        /\ tasks' = [tasks EXCEPT ![i] = u]
        /\ \/ u = [t EXCEPT !.reply = "fulfilled",
                            !.pc = IF t.outgoing > 0 THEN "fulfilled" ELSE "done"]
           \/ u = [t EXCEPT !.reply = "rejected", !.pc = "rejected"]
  BY Zenon, <1>2 DEF Fulfilled, Rejected
<1>4. u \in Task
  BY ZenonT(30), <1>3 DEF Task, Pc, Replies
<1>5. u.alive
  BY Zenon, <1>2, <1>3 DEF Task
<1>6. ASSUME NEW a \in Account PROVE Early(u) /\ Moves(i, u, a)
  <2>1. Early(u) /\ Keeps(t, u, a, Lost', 0, 0, 0) /\ Backing(u, a) >= Backing(t, a)
    BY Zenon, <1>1, <1>2, <1>3, <1>4, RepliedTask
  <2>2. Position(accounts'[a]) = Position(accounts[a]) + 0 /\ engine'[a] = engine[a] + 0
    BY <1>1, AccountFigures
  <2>3. 0 + Backing(u, a) >= Backing(t, a)
    BY <1>4, <2>1, Figures
  <2> QED
    BY SMTT(30), <1>2, <2>1, <2>2, <2>3 DEF Moves
<1>7. Early(u)
  BY Zenon, <1>6, <1>2 DEF Task
<1> QED
  BY Zenon, <1>1, <1>3, <1>4, <1>5, <1>6, <1>7, MovedInv

\* The engine has accepted what task t settles.
Accepts(t) == \A a \in Account : engine'[a] = engine[a] + Settled(t, a)

\* The schedule and the exchange with the settlement engine.
LEMMA EngineBooks ==
    ASSUME IInv, IInv', BooksInv, Lost => Lost', NoFaults' => NoFaults,
           NEW i \in DOMAIN tasks,
           \/ Schedule(i) \/ StartSettlement(i) \/ NoEngine(i) \/ EngineAccepts(i)
           \/ EngineRefuses(i) \/ EngineFails(i) \/ EngineAnswerLost(i)
    PROVE  BooksInv'
<1>1. /\ i \in Live /\ tasks[i].pc \in {"credited", "settling"}
      /\ UNCHANGED <<accounts, received>>
  BY Zenon DEF Schedule, StartSettlement, NoEngine, EngineAccepts, EngineRefuses, EngineFails,
         EngineAnswerLost, At
<1>2. PICK t \in Task : t = tasks[i] /\ Early(t) /\ t.alive
  BY Zenon, <1>1, LiveTask
<1>3. t.amount \in Nat /\ t.attempt \in Nat /\ t.to \in Account
  BY Zenon DEF Task
<1>4. ASSUME NEW pc, Goto(i, pc)
      PROVE  tasks' = [tasks EXCEPT ![i] = [t EXCEPT !.pc = pc, !.attempt = t.attempt]]
  <2>1. [t EXCEPT !.pc = pc] = [t EXCEPT !.pc = pc, !.attempt = t.attempt]
    BY Zenon DEF Task
  <2>2. tasks' = [tasks EXCEPT ![i] = [t EXCEPT !.pc = pc]]
    BY Zenon, <1>2, <1>4 DEF Goto
  <2> QED
    BY Zenon, <2>1, <2>2
<1>5. ASSUME engine' = [engine EXCEPT ![t.to] = @ + t.amount] PROVE Accepts(t)
  <2>1. engine \in [Account -> Nat]
    BY Zenon DEF IInv, TypeOK
  <2> QED
    BY <1>3, <1>5, <2>1 DEF Accepts, Settled
<1>6. ASSUME Retry(i)
      PROVE  \E pc \in {"settling", "refunding"} :
                tasks' = [tasks EXCEPT ![i] = [t EXCEPT !.pc = pc, !.attempt = t.attempt + 1]]
  BY Zenon, <1>2, <1>6 DEF Retry
<1>7. PICK pc \in {"settling", "refunding", "done"}, attempt \in Nat :
        /\ tasks' = [tasks EXCEPT ![i] = [t EXCEPT !.pc = pc, !.attempt = attempt]]
        /\ \/ pc \in {"settling", "refunding"} /\ (UNCHANGED engine \/ (Lost' /\ Accepts(t)))
           \/ pc = "done" /\ (t.amount = 0 \/ t.to \notin HasEngine) /\ UNCHANGED engine
           \/ pc = "done" /\ Accepts(t)
  <2>1. CASE Schedule(i)
    BY Zenon, <1>2, <1>3, <1>4, <2>1 DEF Schedule
  <2>2. CASE StartSettlement(i)
    BY Zenon, <1>2, <1>3, <1>4, <2>2 DEF StartSettlement
  <2>3. CASE NoEngine(i)
    BY Zenon, <1>2, <1>3, <1>4, <2>3 DEF NoEngine
  <2>4. CASE EngineAccepts(i)
    <3>1. Accepts(t) /\ Goto(i, "done")
      BY Zenon, <1>2, <1>5, <2>4 DEF EngineAccepts
    <3> QED
      BY Zenon, <1>3, <1>4, <3>1
  <2>5. CASE EngineRefuses(i)
    BY Zenon, <1>2, <1>3, <1>4, <2>5 DEF EngineRefuses
  <2>6. CASE EngineFails(i)
    <3>1. UNCHANGED engine /\ Retry(i) /\ t.attempt + 1 \in Nat
      BY <1>3, <2>6 DEF EngineFails
    <3> QED
      BY Zenon, <1>6, <3>1
  <2>7. CASE EngineAnswerLost(i)
    <3>1. Accepts(t) /\ Retry(i) /\ t.attempt + 1 \in Nat
      BY SMTT(30), <1>2, <1>3, <1>5, <2>7 DEF EngineAnswerLost
    <3>2. Lost'
      BY SMTT(30), <2>7 DEF EngineAnswerLost, Happens, Lost, IInv, TypeOK, Fault
    <3> QED
      BY Zenon, <1>6, <3>1, <3>2
  <2> QED
    BY Zenon, <2>1, <2>2, <2>3, <2>4, <2>5, <2>6, <2>7
<1>8. PICK u : u = [t EXCEPT !.pc = pc, !.attempt = attempt]
  BY Zenon
<1>9. u \in Task
  BY Zenon, <1>8 DEF Task, Pc
<1>10. u.alive
  BY Zenon, <1>2, <1>8 DEF Task
<1>11. ASSUME NEW a \in Account PROVE Early(u) /\ Moves(i, u, a)
  <2>1. Settled(t, a) \in Nat /\ engine[a] \in Nat /\ Position(accounts[a]) \in Int
    BY Zenon, Figures, AccountFigures
  <2>2. PICK n \in Nat :
          /\ engine'[a] = engine[a] + n
          /\ Settles(t, pc, a, n, Lost')
    <3>1. CASE UNCHANGED engine /\ ~(pc = "done" /\ Accepts(t))
      <4>1. engine'[a] = engine[a] + 0
        BY SMTT(30), <2>1, <3>1
      <4> QED
        BY Zenon, <1>7, <3>1, <4>1 DEF Settles
    <3>2. CASE Accepts(t)
      BY <1>7, <2>1, <3>2 DEF Accepts, Settles
    <3> QED
      BY Zenon, <1>7, <3>1, <3>2
  <2>3. Early(u) /\ Keeps(t, u, a, Lost', 0, 0, n) /\ Backing(u, a) = Backing(t, a)
    <3>1. t.alive /\ t.pc \in {"credited", "settling"}
      BY Zenon, <1>1, <1>2
    <3> QED
      BY Zenon, <1>8, <1>9, <2>2, <3>1, SettlingTask
  <2>4. 0 + Backing(u, a) >= Backing(t, a)
    BY <1>9, <2>3, Figures
  <2>5. Position(accounts'[a]) = Position(accounts[a]) + 0
    BY <1>1, <2>1
  <2> QED
    BY SMTT(30), <1>2, <2>2, <2>3, <2>4, <2>5 DEF Moves
<1>12. Early(u)
  BY Zenon, <1>3, <1>11
<1> QED
  BY Zenon, <1>1, <1>7, <1>8, <1>9, <1>10, <1>11, <1>12, MovedInv

\* A script that moves the position of account b moves no other.
LEMMA PositionMoves ==
    ASSUME IInv, NEW a \in Account, NEW b \in Account, NEW h, NEW n \in Int,
           Position(h) = Position(accounts[b]) + n, NEW g,
           g = IF b = a THEN h ELSE accounts[a], NEW dp, dp = IF b = a THEN n ELSE 0
    PROVE  Position(g) = Position(accounts[a]) + dp
<1>1. CASE b = a
  BY Zenon, <1>1
<1>2. CASE b # a
  BY <1>2, AccountFigures
<1> QED
  BY Zenon, <1>1, <1>2

\* A rejected packet is given back, and a refused settlement.
LEMMA GivenBackBooks ==
    ASSUME IInv, IInv', BooksInv, Lost => Lost', NoFaults' => NoFaults,
           NEW i \in DOMAIN tasks, RollBack(i) \/ Refund(i)
    PROVE  BooksInv'
<1>1. /\ i \in Live /\ UNCHANGED <<engine, received>>
      /\ tasks[i].pc = IF RollBack(i) THEN "rejected" ELSE "refunding"
  BY Zenon DEF RollBack, Refund, At
<1>2. PICK t \in Task : t = tasks[i] /\ Early(t) /\ t.alive
  BY Zenon, <1>1, LiveTask
<1>3. /\ t.from \in Account /\ t.to \in Account /\ t.incoming \in Nat /\ t.amount \in Nat
      /\ accounts[t.from] \in Hash /\ accounts[t.to] \in Hash
  BY Zenon DEF Task, IInv, TypeOK
<1>4. CASE RollBack(i)
  <2>1. /\ accounts' = [accounts EXCEPT ![t.from] = ProcessReject(accounts[t.from], t.incoming)]
        /\ tasks' = [tasks EXCEPT ![i] = [t EXCEPT !.pc = "done"]]
    BY Zenon, <1>2, <1>4 DEF RollBack, Goto
  <2>2. PICK u : u = [t EXCEPT !.pc = "done"]
    BY Zenon
  <2>3. u \in Task
    BY Zenon, <2>2 DEF Task, Pc
  <2>4. u.alive
    BY Zenon, <1>2, <2>2 DEF Task
  <2>5. ASSUME NEW a \in Account PROVE Early(u) /\ Moves(i, u, a)
    <3>1. Returned(t, a) \in Nat
      BY Zenon, <1>3 DEF Returned
    <3>2. t.pc = "rejected"
      BY Zenon, <1>1, <1>2, <1>4
    <3>3. /\ Early(u) /\ Keeps(t, u, a, Lost', Returned(t, a), 0, 0)
          /\ Returned(t, a) + Backing(u, a) = Backing(t, a)
      BY Zenon, <1>2, <2>2, <2>3, <3>2, RolledBackTask
    <3>4. Position(accounts'[a]) = Position(accounts[a]) + Returned(t, a)
      <4>1. Position(ProcessReject(accounts[t.from], t.incoming))
              = Position(accounts[t.from]) + t.incoming
        BY Zenon, <1>3, CreditScripts
      <4>2. Returned(t, a) = IF t.from = a THEN t.incoming ELSE 0
        BY Zenon DEF Returned
      <4>3. t.incoming \in Int
        BY <1>3
      <4>4. accounts'[a] = IF t.from = a THEN ProcessReject(accounts[t.from], t.incoming)
                           ELSE accounts[a]
        BY Zenon, <2>1 DEF IInv, TypeOK
      <4> QED
        BY ONLY IInv, a \in Account, <1>3, <4>1, <4>2, <4>3, <4>4, PositionMoves
    <3>5. Returned(t, a) \in Int /\ engine'[a] = engine[a] + 0 /\ Returned(t, a) + Backing(u, a) >= Backing(t, a)
      BY SMTT(30), <1>1, <1>3, <3>1, <3>3, AccountFigures, Figures
    <3> QED
      BY SMTT(30), <1>2, <3>3, <3>4, <3>5 DEF Moves
  <2>6. Early(u)
    BY Zenon, <1>3, <2>5
  <2> QED
    BY Zenon, <1>1, <2>1, <2>2, <2>3, <2>4, <2>5, <2>6, MovedInv
<1>5. CASE Refund(i)
  <2>1. /\ accounts' = [accounts EXCEPT ![t.to] = RefundSettlement(accounts[t.to], t.amount)]
        /\ tasks' = [tasks EXCEPT ![i] = [t EXCEPT !.pc = "done", !.amount = 0]]
    BY Zenon, <1>2, <1>5 DEF Refund
  <2>2. PICK u : u = [t EXCEPT !.pc = "done", !.amount = 0]
    BY Zenon
  <2>3. u \in Task
    BY Zenon, <2>2 DEF Task, Pc
  <2>4. u.alive
    BY Zenon, <1>2, <2>2 DEF Task
  <2>5. ASSUME NEW a \in Account PROVE Early(u) /\ Moves(i, u, a)
    <3>1. t.pc = "refunding"
      BY Zenon, <1>1, <1>2, <1>5 DEF Refund, At
    <3>2. /\ Early(u) /\ Keeps(t, u, a, Lost', Settled(t, a), 0, 0)
          /\ Backing(u, a) = Backing(t, a)
      BY Zenon, <1>2, <2>2, <2>3, <3>1, RefundedTask
    <3>3. Position(accounts'[a]) = Position(accounts[a]) + Settled(t, a)
      <4>1. Position(RefundSettlement(accounts[t.to], t.amount))
              = Position(accounts[t.to]) + t.amount
        BY Zenon, <1>3, CreditScripts
      <4>2. Settled(t, a) = IF t.to = a THEN t.amount ELSE 0
        BY Zenon DEF Settled
      <4>3. t.amount \in Int
        BY <1>3
      <4>4. accounts'[a] = IF t.to = a THEN RefundSettlement(accounts[t.to], t.amount)
                           ELSE accounts[a]
        BY Zenon, <2>1 DEF IInv, TypeOK
      <4> QED
        BY ONLY SMTT(30), IInv, a \in Account, <1>3, <4>1, <4>2, <4>3, <4>4, PositionMoves
    <3>4. /\ Settled(t, a) \in Int /\ engine'[a] = engine[a] + 0
          /\ Settled(t, a) + Backing(u, a) >= Backing(t, a)
      BY SMTT(30), <1>1, <2>3, <3>2, AccountFigures, Figures
    <3> QED
      BY SMTT(30), <1>2, <3>2, <3>3, <3>4 DEF Moves
  <2>6. Early(u)
    BY Zenon, <1>3, <2>5
  <2> QED
    BY Zenon, <1>1, <2>1, <2>2, <2>3, <2>4, <2>5, <2>6, MovedInv
<1> QED
  BY Zenon, <1>4, <1>5

\* A store call that fails, or whose answer is lost, is a fault.
LEMMA StoreFault ==
    ASSUME IInv, Happens("store", MaxStoreFailures)
    PROVE  ~NoFaults'
<1>1. faults["store"] \in Nat /\ faults'["store"] = faults["store"] + 1
  BY Zenon DEF IInv, TypeOK, Happens, Fault
<1> QED
  BY <1>1 DEF NoFaults

\* A store call that fails ends its task.
LEMMA StoreFailsBooks ==
    ASSUME IInv, IInv', BooksInv, Lost => Lost', NoFaults' => NoFaults,
           NEW i \in DOMAIN tasks, StoreFails(i)
    PROVE  BooksInv'
<1>1. i \in Live /\ ~NoFaults' /\ UNCHANGED <<accounts, engine, received>>
  BY Zenon, StoreFault DEF StoreFails
<1>2. PICK t \in Task : t = tasks[i] /\ Early(t)
  BY Zenon, <1>1, LiveTask
<1>3. PICK u : u = [t EXCEPT !.alive = FALSE] /\ tasks' = [tasks EXCEPT ![i] = u]
  BY Zenon, <1>2 DEF StoreFails
<1>4. u \in Task
  BY Zenon, <1>3 DEF Task
<1>5. ASSUME NEW a \in Account PROVE Early(u) /\ Moves(i, u, a)
  <2>1. /\ Early(u) /\ Owed(u, a) = Owed(t, a) /\ Held(u, a) = Held(t, a)
        /\ Backing(u, a) = Backing(t, a) /\ Earned(u, a) = Earned(t, a)
        /\ Settled(u, a) = Settled(t, a) /\ Paid(u, a) = Paid(t, a) /\ Underway(u, a) = 0
    BY <1>2, <1>3, <1>4, DeadTask
  <2>2. Keeps(t, u, a, Lost', 0, 0, 0) /\ 0 + Backing(u, a) >= Backing(t, a)
    BY <2>1, Figures DEF Keeps
  <2>3. Position(accounts'[a]) = Position(accounts[a]) + 0 /\ engine'[a] = engine[a] + 0
    BY SMTT(30), <1>1, AccountFigures
  <2> QED
    BY SMTT(30), <1>2, <2>1, <2>2, <2>3 DEF Moves
<1>6. Early(u)
  BY Zenon, <1>2, <1>5 DEF Task
<1> QED
  BY Zenon, <1>1, <1>3, <1>4, <1>5, <1>6, MovedInv

\* The scripts of a fulfilled packet and of an expired timeout, answered or not.
LEMMA ScriptBooks ==
    ASSUME IInv, IInv', BooksInv, Lost => Lost', NoFaults' => NoFaults,
           NEW i \in DOMAIN tasks, Credit(i) \/ SettleDelayed(i) \/ StoreAnswerLost(i)
    PROVE  BooksInv'
<1>1. PICK alive \in BOOLEAN :
        /\ i \in Live /\ UNCHANGED <<engine, received>> /\ (NoFaults' => alive)
        /\ \/ tasks[i].pc = "fulfilled" /\ Apply(i, FulfillResult(i), "credited", alive)
           \/ tasks[i].pc = "expired" /\ Apply(i, SettleResult(i), AfterSettle(i), alive)
  <2>1. CASE Credit(i) \/ SettleDelayed(i)
    BY Zenon, <2>1 DEF Credit, SettleDelayed, At
  <2>2. CASE StoreAnswerLost(i)
    BY Zenon, <2>2, StoreFault DEF StoreAnswerLost, At
  <2> QED
    BY Zenon, <2>1, <2>2
<1>2. PICK t \in Task : t = tasks[i] /\ Early(t)
  BY Zenon, <1>1, LiveTask
<1>3. t.to \in Account /\ t.outgoing \in Nat /\ accounts[t.to] \in Hash
  BY Zenon DEF Task, IInv, TypeOK
<1>4. PICK result \in Result, pc \in Pc :
        /\ Apply(i, result, pc, alive)
        /\ GoesOn(t, pc, result.amount)
        /\ Position(result.hash) = Position(accounts[t.to])
             + ((IF t.pc = "fulfilled" THEN t.outgoing ELSE 0) - result.amount)
        /\ result.amount = 0 \/ Position(result.hash) >= 0 - CreditLine(t.to)
  <2>1. CASE tasks[i].pc = "fulfilled" /\ Apply(i, FulfillResult(i), "credited", alive)
    <3> DEFINE f == ProcessFulfill(accounts[t.to], t.to, t.outgoing)
    <3>1. /\ f \in Result /\ Position(f.hash) = Position(accounts[t.to]) + (t.outgoing - f.amount)
          /\ f.amount = 0 \/ Position(f.hash) >= 0 - CreditLine(t.to)
      BY Zenon, <1>3, SettlingScripts, SettlesExactly
    <3>2. Apply(i, f, "credited", alive)
      BY Zenon, <1>2, <2>1 DEF FulfillResult
    <3> HIDE DEF f
    <3>3. GoesOn(t, "credited", f.amount) /\ "credited" \in Pc /\ t.pc = "fulfilled"
      BY Zenon, <1>2, <2>1 DEF GoesOn, Pc
    <3> QED
      BY Zenon, <3>1, <3>2, <3>3
  <2>2. CASE tasks[i].pc = "expired" /\ Apply(i, SettleResult(i), AfterSettle(i), alive)
    <3> DEFINE f == ProcessSettle(accounts[t.to], t.to)
               pc == IF f.amount = 0 THEN "done" ELSE "settling"
    <3>1. /\ f \in Result /\ Position(f.hash) = Position(accounts[t.to]) + (0 - f.amount)
          /\ f.amount = 0 \/ Position(f.hash) >= 0 - CreditLine(t.to)
      BY Zenon, <1>3, SettlingScripts, SettlesExactly
    <3>2. Apply(i, f, pc, alive)
      BY Zenon, <1>2, <2>2 DEF SettleResult, AfterSettle
    <3>3. GoesOn(t, pc, f.amount) /\ pc \in Pc /\ t.pc # "fulfilled"
      BY Zenon, <1>2, <2>2 DEF GoesOn, Pc
    <3> HIDE DEF f, pc
    <3> QED
      BY Zenon, <3>1, <3>2, <3>3
  <2> QED
    BY Zenon, <1>1, <2>1, <2>2
<1>5. result.hash \in Hash /\ result.amount \in Nat
  BY Zenon DEF Result
<1>6. PICK balance, u :
        /\ balance \in Int
        /\ u = [t EXCEPT !.pc = pc, !.balance = balance, !.amount = result.amount,
                         !.alive = alive]
        /\ tasks' = [tasks EXCEPT ![i] = u]
        /\ accounts' = [accounts EXCEPT ![t.to] = result.hash]
  <2>1. Position(result.hash) \in Int
    BY <1>5 DEF Position, Hash
  <2> QED
    BY Zenon, <1>2, <1>4, <2>1 DEF Apply
<1>7. u \in Task
  BY Zenon, <1>5, <1>6 DEF Task
<1>8. u.alive = alive
  BY Zenon, <1>6 DEF Task
<1>9. ASSUME NEW a \in Account PROVE Early(u) /\ Moves(i, u, a)
  <2> DEFINE n == result.amount
             dp == Scripted(t, a, n)
  <2>0. Settled(u, a) = IF t.to = a THEN n ELSE 0
    BY Zenon, <1>6 DEF Settled, Task
  <2>1. /\ Early(u) /\ Keeps(t, u, a, Lost', dp, 0, 0)
        /\ dp + Backing(u, a) + Settled(u, a) = Backing(t, a)
    <3>1. n \in Nat /\ Early(t) /\ GoesOn(t, pc, n)
      BY Zenon, <1>2, <1>4, <1>5
    <3> HIDE DEF n
    <3>2. u = [t EXCEPT !.pc = pc, !.balance = balance, !.amount = n, !.alive = alive]
      BY Zenon, <1>6 DEF n
    <3> QED
      BY ONLY t \in Task, alive \in BOOLEAN, <1>7, <3>1, <3>2, ScriptedTask, Zenon DEF dp
  <2>2. dp = IF t.to = a THEN (IF t.pc = "fulfilled" THEN t.outgoing ELSE 0) - n ELSE 0
    BY Zenon DEF Scripted
  <2>3. accounts'[a] = IF t.to = a THEN result.hash ELSE accounts[a]
    BY Zenon, <1>6 DEF IInv, TypeOK
  <2> HIDE DEF dp
  <2>4. Position(accounts'[a]) = Position(accounts[a]) + dp
    <3>1. (IF t.pc = "fulfilled" THEN t.outgoing ELSE 0) - n \in Int
      BY <1>3, <1>5
    <3> QED
      BY ONLY IInv, a \in Account, <1>3, <1>4, <2>2, <2>3, <3>1, PositionMoves
  <2>5. dp \in Int /\ engine'[a] = engine[a] + 0
    BY <1>1, <1>3, <1>5, <2>2, AccountFigures
  <2>6. \/ dp + Backing(u, a) >= Backing(t, a)
        \/ Position(accounts'[a]) >= 0 - CreditLine(a)
    <3>1. CASE n = 0 \/ t.to # a
      <4>1. Settled(u, a) = 0 /\ Backing(u, a) \in Nat /\ Backing(t, a) \in Nat
        BY Zenon, <1>7, <2>0, <3>1, Figures
      <4> QED
        BY <2>1, <2>5, <4>1
    <3>2. CASE n # 0 /\ t.to = a
      BY Zenon, <1>4, <2>3, <3>2
    <3> QED
      BY Zenon, <3>1, <3>2
  <2> QED
    BY SMTT(30), <1>2, <2>1, <2>4, <2>5, <2>6 DEF Moves
<1>10. Early(u)
  BY Zenon, <1>3, <1>9
<1> QED
  BY Zenon, <1>1, <1>6, <1>7, <1>8, <1>9, <1>10, MovedInv

-----------------------------------------------------------------------------
\* New tasks, incoming settlements and crashes.

\* What a step that starts a task has to show.
LEMMA StartedInv ==
    ASSUME IInv, IInv', BooksInv, Lost => Lost', NoFaults' => NoFaults,
           NEW u \in Task, tasks' = Append(tasks, u), NoFaults' => u.alive, u.amount = 0,
           \/ u.pc = "forwarded" /\ u.reply = "none"
           \/ u.pc = "rejected" /\ u.reply = "rejected"
           \/ u.pc = "expired" /\ u.reply = "none",
           UNCHANGED <<engine, received>>,
           \A a \in Account : Position(accounts'[a]) = Position(accounts[a]) - Held(u, a)
    PROVE  BooksInv'
<1>1. tasks \in Seq(Task)
  BY Zenon DEF IInv, TypeOK
<1>2. /\ DOMAIN tasks' = (DOMAIN tasks) \cup {Len(tasks) + 1} /\ tasks'[Len(tasks) + 1] = u
      /\ \A j \in DOMAIN tasks : tasks'[j] = tasks[j]
  BY <1>1
<1>3. ASSUME NEW a
      PROVE  /\ Early(u) /\ Owed(u, a) = 0 /\ Earned(u, a) = 0 /\ Settled(u, a) = 0
             /\ Underway(u, a) = 0 /\ Paid(u, a) = 0 /\ Backing(u, a) = Held(u, a)
  BY Zenon, NewTaskFigures
<1>4. Early(u)
  BY Zenon, <1>3
<1>5. \A j \in DOMAIN tasks' : Early(tasks'[j])
  BY Zenon, <1>2, <1>4 DEF BooksInv
<1>6. NoFaults' => AllAlive'
  BY Zenon, <1>2 DEF BooksInv, AllAlive
<1>7. ASSUME NEW a \in Account PROVE BalancedNow(a)'
  <2>1. BalancedNow(a) /\ received'[a] = received[a] /\ engine'[a] = engine[a]
    BY Zenon DEF BooksInv
  <2> QED
    BY Zenon, <1>3, <2>1, AppendedBooks
<1> QED
  BY Zenon, <1>5, <1>6, <1>7 DEF BooksInv

\* A packet is prepared, or its prepare's answer is lost.
LEMMA PrepareBooks ==
    ASSUME IInv, IInv', BooksInv, Lost => Lost', NoFaults' => NoFaults,
           NEW p \in Packet, Prepare(p) \/ PrepareAnswerLost(p)
    PROVE  BooksInv'
<1>1. /\ p.from \in Account /\ p.to \in Account
      /\ p.incoming \in Nat /\ p.outgoing \in Nat
  BY Zenon, PacketAssumption
<1>2. /\ accounts' = [accounts EXCEPT ![p.from] = ProcessPrepare(accounts[p.from], p.incoming)]
      /\ UNCHANGED <<engine, received>>
  BY Zenon DEF Prepare, PrepareAnswerLost
<1>3. PICK u \in Task :
        /\ tasks' = Append(tasks, u) /\ (NoFaults' => u.alive)
        /\ u.from = p.from /\ u.incoming = p.incoming /\ u.amount = 0
        /\ \/ u.pc = "forwarded" /\ u.reply = "none"
           \/ u.pc = "rejected" /\ u.reply = "rejected"
  <2>1. CASE Prepare(p)
    <3>1. NewTask(p, "forwarded", "none") \in Task
      BY Zenon, <1>1, NewTaskType DEF Pc, Replies
    <3> QED
      BY Zenon, <2>1, <3>1 DEF Prepare, NewTask
  <2>2. CASE PrepareAnswerLost(p)
    <3>1. PICK t \in Task : t = NewTask(p, "rejected", "rejected")
      BY Zenon, <1>1, NewTaskType DEF Pc, Replies
    <3>2. PICK u : u = [t EXCEPT !.alive = FALSE] /\ tasks' = Append(tasks, u)
      BY Zenon, <2>2, <3>1 DEF PrepareAnswerLost
    <3>3. /\ t.from = p.from /\ t.incoming = p.incoming /\ t.amount = 0
          /\ t.pc = "rejected" /\ t.reply = "rejected"
      BY Zenon, <3>1 DEF NewTask
    <3>4. u \in Task
      BY Zenon, <3>2 DEF Task
    <3>5. /\ u.from = p.from /\ u.incoming = p.incoming /\ u.amount = 0
          /\ u.pc = "rejected" /\ u.reply = "rejected"
      BY Zenon, <3>2, <3>3 DEF Task
    <3>6. ~NoFaults'
      BY Zenon, <2>2, StoreFault DEF PrepareAnswerLost
    <3> QED
      BY Zenon, <3>2, <3>4, <3>5, <3>6
  <2> QED
    BY Zenon, <2>1, <2>2
<1>4. ASSUME NEW a \in Account
      PROVE  Position(accounts'[a]) = Position(accounts[a]) - Held(u, a)
  <2> DEFINE h == ProcessPrepare(accounts[p.from], p.incoming)
             dp == IF p.from = a THEN 0 - p.incoming ELSE 0
  <2>1. Held(u, a) = IF p.from = a THEN p.incoming ELSE 0
    BY <1>3, HeldAt
  <2>2. /\ accounts[p.from] \in Hash /\ Position(accounts[p.from]) \in Int
        /\ Position(accounts[a]) \in Int
    BY Zenon, <1>1, AccountFigures DEF IInv, TypeOK
  <2>3. Position(h) = Position(accounts[p.from]) + (0 - p.incoming)
    BY <1>1, <2>2, PrepareScript
  <2>4. accounts'[a] = IF p.from = a THEN h ELSE accounts[a]
    BY Zenon, <1>2 DEF IInv, TypeOK
  <2>5. 0 - p.incoming \in Int
    BY <1>1
  <2> HIDE DEF h
  <2>6. Position(accounts'[a]) = Position(accounts[a]) + dp
    BY ONLY IInv, a \in Account, <1>1, <2>3, <2>4, <2>5, PositionMoves
  <2> QED
    BY SMTT(30), <1>1, <2>1, <2>2, <2>6
<1> QED
  BY Zenon, <1>2, <1>3, <1>4, StartedInv

\* A timeout expires.
LEMMA ExpireBooks ==
    ASSUME IInv, IInv', BooksInv, Lost => Lost', NoFaults' => NoFaults,
           NEW b \in Account, Expire(b)
    PROVE  BooksInv'
<1>1. PICK u \in Task :
        /\ tasks' = Append(tasks, u) /\ u.alive /\ u.amount = 0
        /\ u.pc = "expired" /\ u.reply = "none"
  <2>1. DelayedTask(b) \in Task
    BY Zenon, NewTaskType DEF DelayedTask, Pc, Replies
  <2> QED
    BY Zenon, <2>1 DEF Expire, DelayedTask, NewTask
<1>2. UNCHANGED <<accounts, engine, received>>
  BY Zenon DEF Expire
<1>3. ASSUME NEW a \in Account
      PROVE  Position(accounts'[a]) = Position(accounts[a]) - Held(u, a)
  BY <1>1, <1>2, HeldAt, AccountFigures
<1> QED
  BY Zenon, <1>1, <1>2, <1>3, StartedInv

\* An incoming settlement, a command to the background task, or nothing.
LEMMA SameTaskInv ==
    ASSUME IInv, IInv', BooksInv, Lost => Lost', NoFaults' => NoFaults,
           \/ HandleCommand \/ UNCHANGED vars
           \/ \E b \in Account, n \in IncomingAmount : Incoming(b, n)
    PROVE  BooksInv'
<1>1. UNCHANGED <<tasks, engine>>
  BY Zenon DEF HandleCommand, vars, Incoming
<1>2. ASSUME NEW a \in Account
      PROVE  \E m \in Nat : /\ Position(accounts'[a]) = Position(accounts[a]) + m
                            /\ received'[a] = received[a] + m
  <2>1. Position(accounts[a]) \in Int /\ received[a] \in Nat
    BY Zenon, AccountFigures
  <2>2. CASE UNCHANGED <<accounts, received>>
    <3>1. Position(accounts'[a]) = Position(accounts[a]) + 0 /\ received'[a] = received[a] + 0
      BY <2>1, <2>2
    <3> QED
      BY Zenon, <3>1
  <2>3. ASSUME NEW b \in Account, NEW n \in IncomingAmount, Incoming(b, n)
        PROVE  \E m \in Nat : /\ Position(accounts'[a]) = Position(accounts[a]) + m
                              /\ received'[a] = received[a] + m
    <3> DEFINE h == ProcessIncoming(accounts[b], n)
               m == IF b = a THEN n ELSE 0
    <3>1. n \in Nat /\ n \in Int /\ accounts[b] \in Hash
      BY PacketAssumption DEF IInv, TypeOK
    <3>2. Position(h) = Position(accounts[b]) + n
      BY Zenon, <3>1, CreditScripts
    <3>3. /\ accounts'[a] = IF b = a THEN h ELSE accounts[a]
          /\ received'[a] = received[a] + m
      BY SMTT(30), <2>1, <2>3 DEF Incoming, IInv, TypeOK
    <3> HIDE DEF h
    <3>4. Position(accounts'[a]) = Position(accounts[a]) + m
      BY ONLY IInv, a \in Account, b \in Account, <3>1, <3>2, <3>3, PositionMoves
    <3>5. m \in Nat
      BY Zenon, <3>1
    <3> HIDE DEF m
    <3> QED
      BY Zenon, <3>3, <3>4, <3>5
  <2> QED
    BY Zenon, <2>2, <2>3 DEF HandleCommand, vars
<1>3. ASSUME NEW a \in Account PROVE BalancedNow(a)'
  <2>1. PICK m \in Nat : /\ Position(accounts'[a]) = Position(accounts[a]) + m
                         /\ received'[a] = received[a] + m
    BY Zenon, <1>2
  <2>2. BalancedNow(a) /\ engine'[a] = engine[a]
    BY Zenon, <1>1 DEF BooksInv
  <2> QED
    BY Zenon, <1>1, <2>1, <2>2, SameTaskBooks
<1> QED
  BY Zenon, <1>1, <1>3 DEF BooksInv, AllAlive

\* A crash ends the tasks and changes no account.
LEMMA CrashBooks ==
    ASSUME IInv, IInv', BooksInv, Lost => Lost', Crash
    PROVE  BooksInv'
<1>1. /\ tasks \in Seq(Task) /\ tasks' \in Seq(Task) /\ DOMAIN tasks' = DOMAIN tasks
      /\ UNCHANGED <<accounts, engine, received>>
  BY Zenon DEF IInv, TypeOK, Crash
<1>2. ASSUME NEW i \in DOMAIN tasks, NEW a
      PROVE  /\ Early(tasks'[i])
             /\ \A k \in Figured \ {"underway"} : Figure(k, tasks'[i], a) = Figure(k, tasks[i], a)
             /\ Figure("underway", tasks'[i], a) = 0
  <2>1. PICK t \in Task : t = tasks[i] /\ Early(t)
    BY <1>1 DEF BooksInv
  <2>2. PICK u : u = tasks'[i] /\ u = IF Running(t) THEN [t EXCEPT !.alive = FALSE] ELSE t
    BY Zenon, <2>1 DEF Crash
  <2>3. CASE Running(t)
    <3>1. u = [t EXCEPT !.alive = FALSE]
      BY Zenon, <2>2, <2>3
    <3>2. u \in Task
      BY Zenon, <3>1 DEF Task
    <3>3. /\ Early(u) /\ Owed(u, a) = Owed(t, a) /\ Held(u, a) = Held(t, a)
          /\ Backing(u, a) = Backing(t, a) /\ Earned(u, a) = Earned(t, a)
          /\ Settled(u, a) = Settled(t, a) /\ Paid(u, a) = Paid(t, a) /\ Underway(u, a) = 0
      BY <2>1, <3>1, <3>2, DeadTask
    <3>4. ASSUME NEW k \in Figured \ {"underway"} PROVE Figure(k, u, a) = Figure(k, t, a)
      BY <3>3, FigureIs DEF Figured
    <3>5. Figure("underway", u, a) = 0
      BY Zenon, <3>3, FigureIs
    <3> QED
      BY Zenon, <2>1, <2>2, <3>3, <3>4, <3>5
  <2>4. CASE ~Running(t)
    <3>1. u = t /\ Underway(t, a) = 0
      BY Zenon, <2>2, <2>4 DEF Underway
    <3> QED
      BY Zenon, <2>1, <2>2, <3>1, FigureIs
  <2> QED
    BY Zenon, <2>3, <2>4
<1>3. ASSUME NEW a \in Account PROVE BalancedNow(a)'
  <2>1. \A k \in Figured \ {"underway"} : Total(k, tasks', a) = Total(k, tasks, a)
    BY SMTT(30), <1>1, <1>2, TotalSame
  <2>2. Total("underway", tasks', a) = 0
    <3> DEFINE f == [j \in DOMAIN tasks |-> Figure("underway", tasks'[j], a)]
    <3>1. DOMAIN f = DOMAIN tasks /\ \A j \in DOMAIN tasks : f[j] = 0
      BY Zenon, <1>2
    <3>2. Total("underway", tasks', a) = SumFunctionOnSet(f, DOMAIN f)
      BY Zenon, <1>1 DEF Total, SumFunction
    <3>3. IsFiniteSet(DOMAIN tasks)
      BY Zenon, <1>1, TotalType DEF Figured
    <3> HIDE DEF f
    <3> QED
      BY Zenon, <3>1, <3>2, <3>3, SumZero
  <2>3. /\ AllOwed(a)' = AllOwed(a) /\ AllHeld(a)' = AllHeld(a)
        /\ AllBacking(a)' = AllBacking(a) /\ AllEarned(a)' = AllEarned(a)
        /\ AllSettled(a)' = AllSettled(a) /\ AllPaid(a)' = AllPaid(a)
        /\ AllUnderway(a)' = 0
    BY <2>1, <2>2, TotalIs DEF Figured
  <2>4. /\ AllOwed(a) \in Int /\ AllHeld(a) \in Int /\ AllBacking(a) \in Nat
        /\ AllEarned(a) \in Int /\ AllSettled(a) \in Int /\ AllUnderway(a) \in Nat
        /\ AllPaid(a) \in Int
    BY Zenon, SumsType DEF IInv
  <2>5. Position(accounts[a]) \in Int /\ received[a] \in Nat /\ engine[a] \in Nat
    BY Zenon, AccountFigures
  <2>6. /\ Position(accounts'[a]) = Position(accounts[a]) /\ received'[a] = received[a]
        /\ engine'[a] = engine[a]
    BY Zenon, <1>1
  <2>7. /\ Position(accounts'[a]) - Position(accounts[a]) = 0 /\ received'[a] - received[a] = 0
        /\ engine'[a] - engine[a] = 0 /\ AllOwed(a)' - AllOwed(a) = 0
        /\ AllHeld(a)' - AllHeld(a) = 0 /\ AllBacking(a)' - AllBacking(a) = 0
        /\ AllEarned(a)' - AllEarned(a) = 0 /\ AllSettled(a)' - AllSettled(a) = 0
        /\ AllPaid(a)' - AllPaid(a) = 0 /\ AllUnderway(a)' - AllUnderway(a) <= 0
        /\ AllUnderway(a)' - AllUnderway(a) \in Int
        /\ Position(accounts'[a]) + AllBacking(a)' >= Position(accounts[a]) + AllBacking(a)
    <3>1. \A x \in Int : \A y \in Nat :
              x - x = 0 /\ x + y >= x + y /\ 0 - y <= 0 /\ 0 - y \in Int
      OBVIOUS
    <3>2. received[a] \in Int /\ engine[a] \in Int /\ AllBacking(a) \in Int
      BY <2>4, <2>5
    <3> QED
      BY Zenon, <2>3, <2>4, <2>5, <2>6, <3>1, <3>2
  <2>8. BalancedNow(a)
    BY Zenon DEF BooksInv
  <2> QED
    BY SMTT(30), <2>3, <2>4, <2>7, <2>8, BooksChange
<1>4. ~NoFaults'
  <2>1. faults["crash"] \in Nat /\ faults'["crash"] = faults["crash"] + 1
    BY Zenon DEF IInv, TypeOK, Crash, Happens, Fault
  <2> QED
    BY <2>1 DEF NoFaults
<1> QED
  BY Zenon, <1>1, <1>2, <1>3, <1>4 DEF BooksInv

-----------------------------------------------------------------------------
\* The invariant.

\* The books of a node that starts are empty.
LEMMA InitBooks == Init => BooksInv
<1> SUFFICES ASSUME Init PROVE BooksInv
  BY Zenon
<1>1. IInv
  BY Zenon, InitIInv
<1>2. DOMAIN tasks = {}
  BY DEF Init
<1>3. ASSUME NEW a \in Account PROVE BalancedNow(a)
  <2>1. Position(accounts[a]) = 0 /\ received[a] = 0 /\ engine[a] = 0
    BY DEF Init, NewAccount, Position
  <2>2. \A k \in Figured : Total(k, tasks, a) = 0
    BY Zenon, <1>2, SumEmpty DEF Total, SumFunction
  <2>3. /\ AllOwed(a) = 0 /\ AllHeld(a) = 0 /\ AllBacking(a) = 0 /\ AllEarned(a) = 0
        /\ AllSettled(a) = 0 /\ AllPaid(a) = 0 /\ AllUnderway(a) = 0
    BY Zenon, <2>2, TotalIs DEF Figured
  <2> QED
    BY <2>1, <2>3, CreditLineType DEF BalancedNow, Balanced
<1> QED
  BY Zenon, <1>2, <1>3 DEF BooksInv, AllAlive

\* Every step keeps the books.
LEMMA NextBooks == IInv /\ BooksInv /\ [Next]_vars => BooksInv'
<1> SUFFICES ASSUME IInv, BooksInv, [Next]_vars PROVE BooksInv'
  BY Zenon
<1>1. IInv'
  BY Zenon, NextIInv
<1>2. (Lost => Lost') /\ (NoFaults' => NoFaults)
  BY Zenon, FaultsStay
<1>3. ASSUME NEW p \in Packet, Prepare(p) \/ PrepareAnswerLost(p) PROVE BooksInv'
  BY Zenon, <1>1, <1>2, <1>3, PrepareBooks
<1>4. ASSUME NEW i \in DOMAIN tasks, TaskStep(i) PROVE BooksInv'
  BY Zenon, <1>1, <1>2, <1>4, ReplyBooks, EngineBooks, GivenBackBooks, StoreFailsBooks, ScriptBooks
     DEF TaskStep
<1>5. ASSUME NEW a \in Account, Expire(a) PROVE BooksInv'
  BY Zenon, <1>1, <1>2, <1>5, ExpireBooks
<1>6. ASSUME HandleCommand \/ UNCHANGED vars
             \/ \E b \in Account, n \in IncomingAmount : Incoming(b, n)
      PROVE  BooksInv'
  BY Zenon, <1>1, <1>2, <1>6, SameTaskInv
<1>7. CASE Crash
  BY Zenon, <1>1, <1>2, <1>7, CrashBooks
<1> QED
  BY Zenon, <1>3, <1>4, <1>5, <1>6, <1>7 DEF Next

\* The books and what makes them inductive hold in every state.
THEOREM BooksInvariant == Spec => [](IInv /\ BooksInv)
<1>1. Init => IInv /\ BooksInv
  BY Zenon, InitIInv, InitBooks
<1>2. IInv /\ BooksInv /\ [Next]_vars => (IInv /\ BooksInv)'
  BY Zenon, NextIInv, NextBooks
<1> QED
  BY <1>1, <1>2, PTL DEF Spec

\* Whatever requests, settlements, failures, retries and crashes interleave, an
\* account's balance differs from what was settled and relayed only by the work
\* that some task has pending or lost; and where nothing failed, every settlement
\* the engine did not accept was rolled back.
THEOREM BooksBalanceAlways == Spec => []BooksBalance
<1>1. IInv /\ BooksInv => BooksBalance
  <2> SUFFICES ASSUME IInv, BooksInv, NEW a \in Account
               PROVE  /\ Position(accounts[a]) = received[a] + AllOwed(a) - AllHeld(a)
                      /\ a \in HasEngine /\ NoFaults /\ Live = {} => AllHeld(a) = engine[a]
    BY Zenon DEF BooksBalance
  <2>1. BalancedNow(a)
    BY Zenon DEF BooksInv
  <2>2. Position(accounts[a]) = received[a] + AllOwed(a) - AllHeld(a)
    BY Zenon, <2>1 DEF BalancedNow, Balanced
  <2>3. ASSUME a \in HasEngine, NoFaults, Live = {} PROVE AllHeld(a) = engine[a]
    <3>1. tasks \in Seq(Task)
      BY Zenon DEF IInv, TypeOK
    <3>2. ASSUME NEW i \in DOMAIN tasks
          PROVE  Figure("held", tasks[i], a) = Figure("paid", tasks[i], a)
      <4>1. tasks[i] \in Task /\ tasks[i].pc = "done"
        BY SMTT(30), <2>3, <3>1 DEF BooksInv, AllAlive, Live, Running
      <4>2. Held(tasks[i], a) = Paid(tasks[i], a)
        BY Zenon, <4>1, HeldAt DEF Paid
      <4> QED
        BY Zenon, <4>2, FigureIs
    <3>3. Total("held", tasks, a) = Total("paid", tasks, a)
      BY Zenon, <3>1, <3>2, TotalSame DEF Figured
    <3>4. AllHeld(a) = AllPaid(a)
      BY Zenon, <3>3, TotalIs
    <3>5. engine[a] = AllPaid(a)
      BY Zenon, <2>1, <2>3 DEF BalancedNow, Balanced, NoFaults
    <3> QED
      BY Zenon, <3>4, <3>5
  <2> QED
    BY Zenon, <2>2, <2>3
<1> QED
  BY <1>1, BooksInvariant, PTL

\* The scripts take no more off an account to settle than it has earned and
\* prepaid and its settle_to allows, and the engine is asked for no more than
\* that, until one of its answers is lost.
THEOREM NeverSettlesTwiceAlways == Spec => []NeverSettlesTwice
<1>1. IInv /\ BooksInv => NeverSettlesTwice
  <2> SUFFICES ASSUME IInv, BooksInv, NEW a \in Account
               PROVE  /\ AllSettled(a) <= received[a] + AllEarned(a) + CreditLine(a)
                      /\ faults["lost"] = 0 => engine[a] + AllUnderway(a) <= AllSettled(a)
    BY Zenon DEF NeverSettlesTwice
  <2>1. BalancedNow(a)
    BY Zenon DEF BooksInv
  <2>2. /\ AllBacking(a) \in Int /\ AllEarned(a) \in Int /\ AllSettled(a) \in Int
        /\ Position(accounts[a]) \in Int /\ received[a] \in Int /\ CreditLine(a) \in Int
    BY SumsType, AccountFigures, CreditLineType DEF IInv
  <2>3. /\ Position(accounts[a]) + AllBacking(a) = received[a] + AllEarned(a) - AllSettled(a)
        /\ Position(accounts[a]) + AllBacking(a) >= 0 - CreditLine(a)
        /\ faults["lost"] = 0 => engine[a] + AllUnderway(a) <= AllSettled(a)
    BY Zenon, <2>1 DEF BalancedNow, Balanced
  <2> QED
    BY SMTT(30), <2>2, <2>3
<1> QED
  BY <1>1, BooksInvariant, PTL
=============================================================================
