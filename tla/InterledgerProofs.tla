-------------------------- MODULE InterledgerProofs --------------------------
(***************************************************************************)
(* Two parts of Interledger.rs.  What the STREAM sender keeps for every    *)
(* amount, rate, packet bound and integer width: its amounts stay in       *)
(* range, it never spends more than it was asked to, its packets are       *)
(* numbered apart, and it stops announcing its account only when it knows  *)
(* the recipient's asset.  Then its accounts: the amount in flight is the  *)
(* sum of the unanswered packets, so the receipt it returns is final, it   *)
(* never waits for nothing, and what it reports was delivered at its rate. *)
(* Last what the settlement endpoint answers, for any settlements, any     *)
(* number of overlapping calls, retries, store failures and crashes.       *)
(***************************************************************************)
EXTENDS StreamSender, IncomingSettlement, SequenceTheorems, SumTheorems, TLAPS

\* Arithmetic the model is built from.
LEMMA WrapType ==
    ASSUME NEW n \in Int
    PROVE  Wrap(n) \in 0..U64Max
  BY U64Assumption DEF Wrap

\* A quotient is no more than its dividend.
LEMMA DivNat ==
    ASSUME NEW n \in Nat, NEW d \in Nat \ {0}
    PROVE  n \div d \in 0..n
  OBVIOUS

\* A product of naturals is one.
LEMMA TimesNat ==
    ASSUME NEW m \in Nat, NEW n \in Nat
    PROVE  m * n \in Nat
  OBVIOUS

\* So is a division that rounds up.
LEMMA CeilDivNat ==
    ASSUME NEW a \in Nat, NEW b \in Nat \ {0}
    PROVE  CeilDiv(a, b) \in Nat
  <1>1. a + b - 1 \in Nat
    OBVIOUS
  <1> QED BY <1>1, DivNat DEF CeilDiv

-----------------------------------------------------------------------------
\* The congestion controller.

\* Its window is open.
Open(c) == c.maxInFlight > 0

\* Preparing a packet leaves the window as it is.
LEMMA PrepareOpen ==
    ASSUME NEW c \in Controller, Open(c), NEW a \in 0..U64Max
    PROVE  OnPrepare(c, a) \in Controller /\ Open(OnPrepare(c, a))
  <1>1. Wrap(c.inFlight + a) \in 0..U64Max
    BY WrapType, U64Assumption DEF Open, Controller
  <1> QED BY Zenon, <1>1 DEF OnPrepare, Open, Controller

\* A fulfill widens the window at most to the largest u64.
LEMMA FulfillOpen ==
    ASSUME NEW c \in Controller, Open(c), NEW a \in 0..U64Max
    PROVE  OnFulfill(c, a) \in Controller /\ Open(OnFulfill(c, a))
  <1> DEFINE w == Wrap(c.inFlight - a)
             m == Least(U64Max, IF c.state = "SlowStart" THEN 2 * c.maxInFlight
                                                         ELSE c.maxInFlight + c.increase)
  <1>1. w \in 0..U64Max
    BY WrapType, U64Assumption DEF Open, Controller
  <1>2. m \in 1..U64Max
    BY U64Assumption DEF Open, Controller, Least
  <1> DEFINE d == [c EXCEPT !.inFlight = w]
  <1>3. OnFulfill(c, a) = [d EXCEPT !.maxInFlight = m]
    BY Zenon DEF OnFulfill
  <1> HIDE DEF w, m
  <1>4. d \in Controller
    BY Zenon, <1>1 DEF Controller
  <1> HIDE DEF d
  <1> QED BY <1>2, <1>3, <1>4, U64Assumption DEF Open, Controller

\* The packet size an F08 proposes is a u64, even where the product wraps.
LEMMA ProposedType ==
    ASSUME NEW a \in 0..U64Max, NEW d, d.max \in Nat, d.received \in Nat \ {0}
    PROVE  NewMaxPacketAmount(a, d) \in 0..U64Max
  <1> DEFINE w == Wrap(a * d.max)
  <1>1. w \in 0..U64Max
    BY TimesNat, WrapType, U64Assumption
  <1>2. NewMaxPacketAmount(a, d) = w \div d.received
    BY Zenon DEF NewMaxPacketAmount
  <1> HIDE DEF w
  <1>3. w \in Nat
    BY <1>1, U64Assumption
  <1>4. w \div d.received \in 0..w
    BY Zenon, <1>3, DivNat
  <1> QED BY <1>1, <1>2, <1>3, <1>4, U64Assumption

\* No reject closes the window.
LEMMA RejectOpen ==
    ASSUME NEW c \in Controller, Open(c), NEW a \in 0..U64Max, NEW r \in Rejects
    PROVE  OnReject(c, a, r) \in Controller /\ Open(OnReject(c, a, r))
  <1> DEFINE d == [c EXCEPT !.inFlight = Wrap(@ - a)]
             proposed == NewMaxPacketAmount(a, r)
  <1>1. d \in Controller /\ Open(d)
    <2>1. Wrap(c.inFlight - a) \in 0..U64Max
      BY WrapType, U64Assumption DEF Open, Controller
    <2> QED BY Zenon, <2>1 DEF Open, Controller
  <1>2. r.received \in Nat /\ r.max \in Nat
    BY SenderAssumption DEF Rejects
  <1>3. r.received > 0 => proposed \in 0..U64Max
    BY <1>2, ProposedType
  <1>4. ReducedWindow(c) \in 1..U64Max
    BY U64Assumption DEF ReducedWindow, Greatest, Open, Controller
  <1>5. OnReject(c, a, r) =
          CASE r.code = "T04" ->
                 [d EXCEPT !.state = "AvoidCongestion", !.maxInFlight = ReducedWindow(c)]
            [] r.code = "F08" /\ r.received > 0 ->
                 [d EXCEPT !.maxPacket = IF @ = None THEN proposed ELSE Least(@, proposed)]
            [] r.code = "F08" /\ r.received = 0 ->
                 [d EXCEPT !.maxPacket = IF @ = None THEN None ELSE @ \div 2]
            [] OTHER -> d
    BY Zenon DEF OnReject
  <1> HIDE DEF d, proposed
  <1>6. CASE r.code = "T04"
    <2> DEFINE e == [d EXCEPT !.state = "AvoidCongestion"]
    <2>1. OnReject(c, a, r) = [e EXCEPT !.maxInFlight = ReducedWindow(c)]
      BY Zenon, <1>5, <1>6
    <2>2. e \in Controller
      BY Zenon, <1>1 DEF Controller
    <2> HIDE DEF e
    <2> QED BY <1>4, <2>1, <2>2, U64Assumption DEF Open, Controller
  <1>7. CASE r.code = "F08" /\ r.received > 0
    <2> DEFINE m == IF d.maxPacket = None THEN proposed ELSE Least(d.maxPacket, proposed)
    <2>1. m \in 0..U64Max
      BY Zenon, <1>1, <1>3, <1>7, U64Assumption DEF Open, Controller, Least, None
    <2>2. OnReject(c, a, r) = [d EXCEPT !.maxPacket = m]
      BY <1>5, <1>7
    <2> HIDE DEF m
    <2> QED BY Zenon, <1>1, <2>1, <2>2 DEF Open, Controller
  <1>8. CASE r.code = "F08" /\ r.received = 0
    <2> DEFINE m == IF d.maxPacket = None THEN None ELSE d.maxPacket \div 2
    <2>1. m \in {None} \union 0..U64Max
      BY <1>1, U64Assumption DEF Open, Controller, None
    <2>2. OnReject(c, a, r) = [d EXCEPT !.maxPacket = m]
      BY <1>5, <1>8
    <2> HIDE DEF m
    <2> QED BY Zenon, <1>1, <2>1, <2>2 DEF Open, Controller
  <1>9. CASE r.code \notin {"T04", "F08"}
    BY Zenon, <1>1, <1>5, <1>9
  <1> QED BY <1>2, <1>6, <1>7, <1>8, <1>9

-----------------------------------------------------------------------------
\* The packet tasks.

Stage == {"spawned", "sent"} \union Done
Task == [amount : 0..U64Max, min : 0..U64Max, seq : Nat, announced : BOOLEAN, stage : Stage]

\* A packet that was sent has its own number, below the next one, and announces the
\* account unless the asset is known.
Numbered ==
    \A i \in 1..Len(tasks) :
        tasks[i].stage # "spawned" => /\ tasks[i].seq < sequence
                                      /\ tasks[i].announced \/ assetKnown

IInv ==
    /\ TypeOK
    /\ NeverOverspends
    /\ UniqueSequences
    /\ AnnouncesUntilAssetKnown
    /\ Numbered

\* An element of tasks is a task.
LEMMA TaskType ==
    ASSUME TypeOK, NEW i \in 1..Len(tasks)
    PROVE  tasks[i] \in Task
  <1>1. tasks \in Seq(Task)
    BY Zenon DEF TypeOK, Task, Stage
  <1> QED BY Zenon, <1>1, ElementOfSeq

\* One task is replaced.
LEMMA Replaced ==
    ASSUME TypeOK, NEW i \in 1..Len(tasks), NEW t \in Task, tasks' = [tasks EXCEPT ![i] = t]
    PROVE  /\ tasks' \in Seq(Task)
           /\ Len(tasks') = Len(tasks)
           /\ tasks'[i] = t
           /\ \A j \in 1..Len(tasks) : j # i => tasks'[j] = tasks[j]
  <1>1. tasks \in Seq(Task)
    BY Zenon DEF TypeOK, Task, Stage
  <1> QED BY <1>1, ExceptSeq

\* What the actions do to tasks.
Moved(i, s) == tasks' = [tasks EXCEPT ![i].stage = s]
Sent(i) == tasks' = [tasks EXCEPT ![i].seq = sequence, ![i].announced = announce,
                                  ![i].stage = "sent"]

\* A task moves on after its packet was sent.
LEMMA TaskMoves ==
    ASSUME TypeOK, NEW i \in 1..Len(tasks), NEW s \in Done, Moved(i, s),
           tasks[i].stage # "spawned"
    PROVE  /\ tasks' \in Seq(Task)
           /\ Len(tasks') = Len(tasks)
           /\ \A j \in 1..Len(tasks) :
                  /\ tasks'[j].seq = tasks[j].seq
                  /\ tasks'[j].announced = tasks[j].announced
                  /\ tasks'[j].stage = "spawned" <=> tasks[j].stage = "spawned"
  <1>1. PICK d \in Task : d = tasks[i]
    BY Zenon, TaskType
  <1> DEFINE t == [d EXCEPT !.stage = s]
  <1>2. t \in Task /\ t.seq = d.seq /\ t.announced = d.announced /\ t.stage = s
    BY Zenon DEF Task, Stage
  <1>3. tasks' = [tasks EXCEPT ![i] = [tasks[i] EXCEPT !.stage = s]]
    BY Zenon DEF Moved
  <1>4. tasks' = [tasks EXCEPT ![i] = t]
    BY Zenon, <1>1, <1>3
  <1>5. s # "spawned"
    BY Zenon DEF Done
  <1> HIDE DEF t
  <1>6. /\ tasks' \in Seq(Task)
        /\ Len(tasks') = Len(tasks)
        /\ tasks'[i] = t
        /\ \A j \in 1..Len(tasks) : j # i => tasks'[j] = tasks[j]
    BY Zenon, <1>2, <1>4, Replaced
  <1> QED BY Zenon, <1>1, <1>2, <1>5, <1>6

\* The packet of a task is numbered and sent.
LEMMA TaskSent ==
    ASSUME TypeOK, NEW i \in 1..Len(tasks), Sent(i)
    PROVE  /\ tasks' \in Seq(Task)
           /\ Len(tasks') = Len(tasks)
           /\ tasks'[i].seq = sequence /\ tasks'[i].announced = announce
           /\ \A j \in 1..Len(tasks) : j # i => tasks'[j] = tasks[j]
  <1>1. PICK d \in Task : d = tasks[i]
    BY Zenon, TaskType
  <1> DEFINE e == [d EXCEPT !.seq = sequence]
             f == [e EXCEPT !.announced = announce]
             t == [f EXCEPT !.stage = "sent"]
  <1>2. e \in Task /\ e.seq = sequence
    BY Zenon DEF Task, TypeOK
  <1>3. tasks' = [tasks EXCEPT ![i] = [tasks[i] EXCEPT !.seq = sequence, !.announced = announce,
                                                       !.stage = "sent"]]
    BY Zenon DEF Sent
  <1>4. tasks' = [tasks EXCEPT ![i] = t]
    BY Zenon, <1>1, <1>3
  <1> HIDE DEF e
  <1>5. f \in Task /\ f.seq = sequence /\ f.announced = announce
    BY Zenon, <1>2 DEF Task, TypeOK
  <1> HIDE DEF f
  <1>6. t \in Task /\ t.seq = sequence /\ t.announced = announce
    BY Zenon, <1>5 DEF Task, Stage
  <1> HIDE DEF t
  <1> QED BY Zenon, <1>4, <1>6, Replaced

-----------------------------------------------------------------------------
\* The invariant holds initially.
LEMMA InitIInv == Init => IInv
  <1> SUFFICES ASSUME Init PROVE IInv
    BY Zenon
  <1>1. controller \in Controller /\ controller.maxInFlight > 0
    <2>1. SourceAmount \in Nat /\ SourceAmount \div 10 \in 0..SourceAmount
      BY SenderAssumption, U64Assumption
    <2> QED BY <2>1, SenderAssumption, U64Assumption DEF Init, New, Controller
  <1>2. tasks \in Seq(Task) /\ Len(tasks) = 0
    BY DEF Init
  <1>3. TypeOK
    <2>1. receipt \in [sent : 0..U64Max, inFlight : 0..U64Max, delivered : 0..U64Max]
      BY U64Assumption DEF Init
    <2>2. counts \in [fulfilled : Nat, rejected : Nat, failFast : Nat]
      BY Zenon DEF Init
    <2>3. phase \in {"loop", "waiting", "closing"} \union Returned /\ sequence \in Nat \ {0}
      BY DEF Init
    <2>4. assetKnown \in BOOLEAN /\ announce \in BOOLEAN /\ timedOut \in BOOLEAN
      BY Zenon DEF Init
    <2> QED BY Zenon, <1>1, <1>2, <2>1, <2>2, <2>3, <2>4 DEF TypeOK, Task, Stage
  <1> QED BY <1>2, <1>3, SenderAssumption, U64Assumption
          DEF Init, IInv, NeverOverspends, UniqueSequences, AnnouncesUntilAssetKnown, Numbered

\* Steps that leave the payment and the tasks alone.
LEMMA LoopStep ==
    ASSUME IInv, Timeout \/ FailFast \/ CloseConnection \/ MaxInFlight \/ WaitDeadline
    PROVE  IInv'
  <1>1. phase' \in {"loop", "waiting", "closing"} \union Returned /\ UNCHANGED <<payment, tasks>>
    BY Zenon DEF Timeout, FailFast, CloseConnection, MaxInFlight, WaitDeadline, Returned
  <1> QED BY Zenon, <1>1 DEF IInv, TypeOK, NeverOverspends, UniqueSequences, AnnouncesUntilAssetKnown,
                      Numbered, payment

\* A finished task is taken.
LEMMA TakeStep ==
    ASSUME IInv, NEW i \in 1..Len(tasks), TakeResult(i)
    PROVE  IInv'
  <1>1. /\ Moved(i, "consumed") /\ tasks[i].stage # "spawned" /\ UNCHANGED payment
        /\ phase' \in {"loop", "waiting", "closing"} \union Returned
    BY Zenon DEF TakeResult, Moved, Returned
  <1>2. /\ tasks' \in Seq(Task)
        /\ Len(tasks') = Len(tasks)
        /\ \A j \in 1..Len(tasks) :
               /\ tasks'[j].seq = tasks[j].seq
               /\ tasks'[j].announced = tasks[j].announced
               /\ tasks'[j].stage = "spawned" <=> tasks[j].stage = "spawned"
    BY Zenon, <1>1, TaskMoves DEF IInv, Done
  <1>3. TypeOK'
    BY Zenon, <1>1, <1>2 DEF IInv, TypeOK, payment, Task, Stage
  <1>4. UniqueSequences' /\ Numbered'
    BY <1>1, <1>2 DEF IInv, UniqueSequences, Numbered, payment
  <1> QED BY Zenon, <1>1, <1>3, <1>4 DEF IInv, NeverOverspends, AnnouncesUntilAssetKnown, payment

\* A packet is numbered and sent.
LEMMA SendPacketStep ==
    ASSUME IInv, NEW i \in 1..Len(tasks), SendPacket(i)
    PROVE  IInv'
  <1>1. /\ Sent(i) /\ sequence' = sequence + 1 /\ sequence \in Nat \ {0}
        /\ UNCHANGED <<phase, controller, receipt, assetKnown, announce, counts, timedOut>>
    BY Zenon DEF SendPacket, Sent, IInv, TypeOK
  <1>2. /\ tasks' \in Seq(Task)
        /\ Len(tasks') = Len(tasks)
        /\ tasks'[i].seq = sequence /\ tasks'[i].announced = announce
        /\ \A j \in 1..Len(tasks) : j # i => tasks'[j] = tasks[j]
    BY Zenon, <1>1, TaskSent DEF IInv
  <1>3. TypeOK'
    <2>1. sequence' \in Nat \ {0}
      BY ONLY <1>1
    <2> QED BY Zenon, <1>1, <1>2, <2>1 DEF IInv, TypeOK, Task, Stage
  <1>4. \A j \in 1..Len(tasks) : tasks[j].seq \in Nat
    BY Zenon, TaskType DEF IInv, Task
  <1>5. UniqueSequences'
    BY <1>1, <1>2, <1>4 DEF IInv, UniqueSequences, Numbered
  <1>6. Numbered'
    BY <1>1, <1>2, <1>4 DEF IInv, Numbered, AnnouncesUntilAssetKnown
  <1> QED BY Zenon, <1>1, <1>3, <1>5, <1>6 DEF IInv, NeverOverspends, AnnouncesUntilAssetKnown

\* The connection is closed.
LEMMA CloseStep ==
    ASSUME IInv, Close
    PROVE  IInv'
  <1>1. /\ sequence' = sequence + 1 /\ sequence \in Nat \ {0} /\ phase' = "delivered"
        /\ UNCHANGED <<controller, receipt, assetKnown, announce, counts, timedOut, tasks>>
    BY Zenon DEF Close, IInv, TypeOK
  <1>2. \A j \in 1..Len(tasks) : tasks[j].seq \in Nat
    BY Zenon, TaskType DEF IInv, Task
  <1>3. TypeOK'
    <2>1. sequence' \in Nat \ {0}
      BY ONLY <1>1
    <2> QED BY Zenon, <1>1, <2>1 DEF IInv, TypeOK, Returned
  <1>4. Numbered'
    BY <1>1, <1>2 DEF IInv, Numbered
  <1> QED BY Zenon, <1>1, <1>3, <1>4 DEF IInv, NeverOverspends, UniqueSequences,
                                  AnnouncesUntilAssetKnown

\* Time passes.
LEMMA ElapseStep ==
    ASSUME IInv, Elapse
    PROVE  IInv'
  <1>1. timedOut' \in BOOLEAN
    BY Zenon DEF Elapse
  <1>2. UNCHANGED <<phase, controller, receipt, assetKnown, announce, sequence, counts, tasks>>
    BY Zenon DEF Elapse
  <1> QED BY Zenon, <1>1, <1>2 DEF IInv, TypeOK, NeverOverspends, UniqueSequences,
                            AnnouncesUntilAssetKnown, Numbered

\* A packet takes no more than what is left to send.
LEMMA PacketAmountBound ==
    ASSUME TypeOK, NeverOverspends, ~IsMaxInFlight
    PROVE  PacketAmount \in 0..(SourceAmount - receipt.sent)
  <1> DEFINE left == AvailableToSend
             min == MinSourceAmount
             window == Greatest(AmountLeftInWindow(controller), min)
             packets == left \div window
             dust == packets > 0 /\ left % window < CeilDiv(6 * min, 5)
             spread == IF dust THEN CeilDiv(left, packets) ELSE window
  <1>1. left \in Nat /\ left = SourceAmount - receipt.sent
    BY SenderAssumption, U64Assumption DEF AvailableToSend, Greatest, TypeOK, NeverOverspends
  <1>2. min \in Nat
    <2>1. MarginInverse * RateDen \in Nat
      BY Zenon, SenderAssumption, TimesNat
    <2> QED BY Zenon, <2>1, SenderAssumption, CeilDivNat DEF MinSourceAmount
  <1>3. window \in Nat \ {0}
    <2>1. AmountLeftInWindow(controller) \in Nat \ {0}
      BY U64Assumption DEF IsMaxInFlight, AmountLeftInWindow, Greatest, TypeOK, Controller
    <2> QED BY <1>2, <2>1 DEF Greatest
  <1>4. MaxPacketAmount(controller) \in Nat
    BY U64Assumption DEF MaxPacketAmount, TypeOK, Controller, None
  <1>5. PacketAmount = Least(Least(spread, MaxPacketAmount(controller)), left)
    BY Zenon DEF PacketAmount
  <1> HIDE DEF left, min, window
  <1>6. packets \in Nat
    BY <1>1, <1>3, DivNat
  <1> HIDE DEF packets
  <1>7. spread \in Nat
    BY <1>1, <1>3, <1>6, CeilDivNat
  <1> HIDE DEF spread
  <1> QED BY <1>1, <1>4, <1>5, <1>7 DEF Least

\* A packet's minimum is a u64.
LEMMA MinimumType ==
    ASSUME NEW a \in Nat
    PROVE  MinDestinationAmount(a) \in 0..U64Max
  <1>1. a * RateNum \in Nat
    BY Zenon, SenderAssumption, TimesNat
  <1>2. CeilDiv(a * RateNum, RateDen) \in Nat
    BY Zenon, <1>1, SenderAssumption, CeilDivNat
  <1> QED BY <1>2, U64Assumption DEF MinDestinationAmount

\* What SendMoney does with the amount it has chosen.
Prepared(a) ==
    /\ controller' = OnPrepare(controller, a)
    /\ receipt' = [receipt EXCEPT !.sent = @ + a, !.inFlight = @ + a]
    /\ tasks' = Append(tasks, [amount |-> a, min |-> MinDestinationAmount(a),
                               seq |-> 0, announced |-> FALSE, stage |-> "spawned"])

Receipt == [sent : 0..U64Max, inFlight : 0..U64Max, delivered : 0..U64Max]

\* The receipt after a packet is prepared.
LEMMA ReceiptPrepared ==
    ASSUME NEW r \in Receipt, r.sent <= SourceAmount, r.inFlight <= r.sent,
           NEW a \in 0..(SourceAmount - r.sent)
    PROVE  /\ [r EXCEPT !.sent = @ + a, !.inFlight = @ + a] \in Receipt
           /\ [r EXCEPT !.sent = @ + a, !.inFlight = @ + a].sent <= SourceAmount
           /\ [r EXCEPT !.sent = @ + a, !.inFlight = @ + a].inFlight
                 <= [r EXCEPT !.sent = @ + a, !.inFlight = @ + a].sent
  <1> DEFINE m == r.sent + a
             n == r.inFlight + a
             q == [r EXCEPT !.sent = m]
             p == [q EXCEPT !.inFlight = n]
  <1>1. m \in 0..U64Max /\ n \in 0..U64Max /\ m <= SourceAmount /\ n <= m
    BY SenderAssumption, U64Assumption DEF Receipt
  <1>2. [r EXCEPT !.sent = @ + a, !.inFlight = @ + a] = p
    BY Zenon DEF Receipt
  <1> HIDE DEF m, n
  <1>3. q \in Receipt /\ q.sent = m
    BY Zenon, <1>1 DEF Receipt
  <1> HIDE DEF q
  <1>4. p \in Receipt /\ p.sent = m /\ p.inFlight = n
    BY Zenon, <1>1, <1>3 DEF Receipt
  <1> HIDE DEF p
  <1> QED BY Zenon, <1>1, <1>2, <1>4

\* A packet is prepared and its task spawned.
LEMMA SendMoneyStep ==
    ASSUME IInv, SendMoney
    PROVE  IInv'
  <1>1. PICK a \in 0..(SourceAmount - receipt.sent) : a = PacketAmount
    BY Zenon, PacketAmountBound DEF SendMoney, IInv
  <1>2. Prepared(a)
    BY Zenon, <1>1 DEF SendMoney, Prepared
  <1>3. UNCHANGED <<phase, assetKnown, announce, sequence, counts, timedOut>>
    BY Zenon DEF SendMoney
  <1>4. receipt \in Receipt /\ receipt.sent <= SourceAmount /\ receipt.inFlight <= receipt.sent
    BY Zenon DEF IInv, TypeOK, Receipt, NeverOverspends
  <1>5. a \in 0..U64Max
    BY <1>4, SenderAssumption, U64Assumption DEF Receipt
  <1>6. receipt' \in Receipt /\ NeverOverspends'
    BY Zenon, <1>2, <1>4, ReceiptPrepared DEF Prepared, NeverOverspends
  <1>7. controller' \in Controller /\ Open(controller')
    <2>1. controller \in Controller /\ Open(controller)
      BY Zenon DEF IInv, TypeOK, Open
    <2> QED BY Zenon, <1>2, <1>5, <2>1, PrepareOpen DEF Prepared
  <1>8. /\ tasks' \in Seq(Task) /\ Len(tasks') = Len(tasks) + 1
        /\ \A j \in 1..Len(tasks) : tasks'[j] = tasks[j]
        /\ tasks'[Len(tasks) + 1].stage = "spawned"
    <2> DEFINE t == [amount |-> a, min |-> MinDestinationAmount(a),
                     seq |-> 0, announced |-> FALSE, stage |-> "spawned"]
    <2>1. t \in Task /\ t.stage = "spawned"
      <3>1. MinDestinationAmount(a) \in 0..U64Max
        BY <1>5, U64Assumption, MinimumType
      <3> QED BY Zenon, <1>5, <3>1 DEF Task, Stage
    <2>2. tasks' = Append(tasks, t)
      BY Zenon, <1>2 DEF Prepared
    <2>3. tasks \in Seq(Task)
      BY Zenon DEF IInv, TypeOK, Task, Stage
    <2> HIDE DEF t
    <2> QED BY <2>1, <2>2, <2>3, AppendProperties
  <1>9. TypeOK'
    BY Zenon, <1>3, <1>6, <1>7, <1>8 DEF IInv, TypeOK, Open, Receipt, Task, Stage
  <1>10. UniqueSequences' /\ Numbered'
    <2>1. \A j \in 1..Len(tasks') : tasks'[j].stage # "spawned"
                                    => j \in 1..Len(tasks) /\ tasks'[j] = tasks[j]
      <3>1. Len(tasks) \in Nat
        BY Zenon, LenProperties DEF IInv, TypeOK
      <3> QED BY <1>8, <3>1
    <2> QED BY Zenon, <1>3, <2>1 DEF IInv, UniqueSequences, Numbered
  <1> QED BY Zenon, <1>3, <1>6, <1>9, <1>10 DEF IInv, AnnouncesUntilAssetKnown

\* The receipt after a reply: the packet is no longer in flight, and counts as sent only
\* if it was fulfilled.
LEMMA ReceiptReplied ==
    ASSUME NEW r \in Receipt, r.sent <= SourceAmount, r.inFlight <= r.sent,
           NEW a \in 0..U64Max, NEW m \in 0..U64Max, NEW q,
           \/ q = [r EXCEPT !.inFlight = Greatest(@ - a, 0), !.delivered = m]
           \/ q = [r EXCEPT !.sent = Greatest(@ - a, 0), !.inFlight = Greatest(@ - a, 0)]
    PROVE  q \in Receipt /\ q.sent <= SourceAmount /\ q.inFlight <= q.sent
  <1> DEFINE n == Greatest(r.inFlight - a, 0)
             k == Greatest(r.sent - a, 0)
  <1>1. /\ n \in 0..U64Max /\ n <= r.sent
        /\ k \in 0..U64Max /\ k <= SourceAmount /\ n <= k
    BY SenderAssumption, U64Assumption DEF Receipt, Greatest
  <1>2. CASE q = [r EXCEPT !.inFlight = Greatest(@ - a, 0), !.delivered = m]
    <2> DEFINE p == [r EXCEPT !.inFlight = n]
    <2>1. q = [p EXCEPT !.delivered = m]
      BY Zenon, <1>2
    <2> HIDE DEF n, k
    <2>2. p \in Receipt /\ p.sent = r.sent /\ p.inFlight = n
      BY Zenon, <1>1 DEF Receipt
    <2> HIDE DEF p
    <2>3. q \in Receipt /\ q.sent = r.sent /\ q.inFlight = n
      BY Zenon, <2>1, <2>2 DEF Receipt
    <2> QED BY Zenon, <1>1, <2>3
  <1>3. CASE q = [r EXCEPT !.sent = Greatest(@ - a, 0), !.inFlight = Greatest(@ - a, 0)]
    <2> DEFINE p == [r EXCEPT !.sent = k]
    <2>1. q = [p EXCEPT !.inFlight = n]
      BY Zenon, <1>3 DEF Receipt
    <2> HIDE DEF n, k
    <2>2. p \in Receipt /\ p.sent = k
      BY Zenon, <1>1 DEF Receipt
    <2> HIDE DEF p
    <2>3. q \in Receipt /\ q.sent = k /\ q.inFlight = n
      BY Zenon, <1>1, <2>1, <2>2 DEF Receipt
    <2> QED BY Zenon, <1>1, <2>3
  <1> QED BY Zenon, <1>2, <1>3

\* What a reply to packet i does to the announcement: once its answer is read the asset is
\* known, because the packet announced the account or the asset was known before.
LEMMA ReplyRead ==
    ASSUME IInv, NEW i \in 1..Len(tasks), tasks[i].stage # "spawned",
           NEW readable \in BOOLEAN, ReadReply(i, readable)
    PROVE  /\ announce' \in BOOLEAN /\ assetKnown' \in BOOLEAN
           /\ AnnouncesUntilAssetKnown'
           /\ assetKnown => assetKnown'
  <1>1. tasks[i].announced \/ assetKnown
    BY Zenon DEF IInv, Numbered
  <1>2. announce \in BOOLEAN /\ assetKnown \in BOOLEAN /\ AnnouncesUntilAssetKnown
    BY Zenon DEF IInv, TypeOK
  <1> QED BY Zenon, <1>1, <1>2 DEF ReadReply, AnnouncesUntilAssetKnown

\* What is common to the replies.
LEMMA ReplyKeeps ==
    ASSUME IInv, NEW i \in 1..Len(tasks), tasks[i].stage # "spawned",
           NEW readable \in BOOLEAN, ReadReply(i, readable),
           NEW s \in Done, Moved(i, s), UNCHANGED <<phase, sequence>>,
           controller' \in Controller, Open(controller'),
           receipt' \in Receipt, NeverOverspends',
           counts' \in [fulfilled : Nat, rejected : Nat, failFast : Nat],
           timedOut' \in BOOLEAN
    PROVE  IInv'
  <1>1. /\ announce' \in BOOLEAN /\ assetKnown' \in BOOLEAN
        /\ AnnouncesUntilAssetKnown'
        /\ assetKnown => assetKnown'
    BY Zenon, ReplyRead
  <1>2. /\ tasks' \in Seq(Task)
        /\ Len(tasks') = Len(tasks)
        /\ \A j \in 1..Len(tasks) :
               /\ tasks'[j].seq = tasks[j].seq
               /\ tasks'[j].announced = tasks[j].announced
               /\ tasks'[j].stage = "spawned" <=> tasks[j].stage = "spawned"
    BY Zenon, TaskMoves DEF IInv
  <1>3. TypeOK'
    BY Zenon, <1>1, <1>2 DEF IInv, TypeOK, Open, Receipt, Task, Stage
  <1>4. UniqueSequences'
    BY <1>2 DEF IInv, UniqueSequences
  <1>5. Numbered'
    BY Zenon, <1>1, <1>2 DEF IInv, Numbered
  <1> QED BY Zenon, <1>1, <1>3, <1>4, <1>5 DEF IInv

\* What a reply finds.
LEMMA ReplyFinds ==
    ASSUME IInv, NEW i \in 1..Len(tasks)
    PROVE  /\ tasks[i].amount \in 0..U64Max /\ tasks[i].min \in 0..U64Max
           /\ controller \in Controller /\ Open(controller)
           /\ receipt \in Receipt /\ receipt.sent <= SourceAmount
           /\ receipt.inFlight <= receipt.sent
           /\ counts \in [fulfilled : Nat, rejected : Nat, failFast : Nat]
           /\ timedOut \in BOOLEAN
  <1>1. tasks[i].amount \in 0..U64Max /\ tasks[i].min \in 0..U64Max
    BY Zenon, TaskType DEF IInv, Task
  <1> QED BY Zenon, <1>1 DEF IInv, TypeOK, Open, Receipt, NeverOverspends

\* A fulfill.
LEMMA FulfillStep ==
    ASSUME IInv, NEW i \in 1..Len(tasks), NEW readable \in BOOLEAN, NEW claimed \in Nat,
           OnFulfillReply(i, readable, claimed)
    PROVE  IInv'
  <1> DEFINE m == Least(U64Max, receipt.delivered
                                  + Greatest(tasks[i].min, IF readable THEN claimed ELSE 0))
  <1>1. PICK a \in 0..U64Max : a = tasks[i].amount
    BY Zenon, ReplyFinds
  <1>2. m \in 0..U64Max
    <2>1. receipt.delivered \in 0..U64Max /\ tasks[i].min \in 0..U64Max
      BY Zenon, ReplyFinds DEF Receipt
    <2> QED BY <2>1, U64Assumption DEF Least, Greatest
  <1>3. receipt' = [receipt EXCEPT !.inFlight = Greatest(@ - a, 0), !.delivered = m]
    BY Zenon, <1>1 DEF OnFulfillReply
  <1> HIDE DEF m
  <1>4. receipt' \in Receipt /\ NeverOverspends'
    BY Zenon, <1>2, <1>3, ReplyFinds, ReceiptReplied DEF NeverOverspends
  <1>5. controller' \in Controller /\ Open(controller')
    <2>1. controller' = OnFulfill(controller, a)
      BY Zenon, <1>1 DEF OnFulfillReply
    <2> QED BY Zenon, <2>1, ReplyFinds, FulfillOpen
  <1>6. counts' \in [fulfilled : Nat, rejected : Nat, failFast : Nat]
    <2>1. PICK c \in [fulfilled : Nat, rejected : Nat, failFast : Nat] : c = counts
      BY Zenon, ReplyFinds
    <2>2. counts' = [c EXCEPT !.fulfilled = @ + 1]
      BY Zenon, <2>1 DEF OnFulfillReply
    <2> QED BY <2>2
  <1>7. timedOut' \in BOOLEAN
    BY Zenon DEF OnFulfillReply
  <1>8. /\ Moved(i, "ok") /\ tasks[i].stage # "spawned" /\ ReadReply(i, readable)
        /\ UNCHANGED <<phase, sequence>>
    BY Zenon DEF OnFulfillReply, Moved
  <1> QED BY Zenon, <1>4, <1>5, <1>6, <1>7, <1>8, ReplyKeeps DEF Done

\* A reject.
LEMMA RejectStep ==
    ASSUME IInv, NEW i \in 1..Len(tasks), NEW reject \in Rejects, NEW readable \in BOOLEAN,
           OnRejectReply(i, reject, readable)
    PROVE  IInv'
  <1>1. PICK a \in 0..U64Max : a = tasks[i].amount
    BY Zenon, ReplyFinds
  <1>2. receipt' \in Receipt /\ NeverOverspends'
    <2>1. receipt' = [receipt EXCEPT !.sent = Greatest(@ - a, 0),
                                     !.inFlight = Greatest(@ - a, 0)]
      BY Zenon, <1>1 DEF OnRejectReply
    <2>2. U64Max \in 0..U64Max
      BY U64Assumption
    <2> QED BY Zenon, <2>1, <2>2, ReplyFinds, ReceiptReplied DEF NeverOverspends
  <1>3. controller' \in Controller /\ Open(controller')
    <2>1. controller' = OnReject(controller, a, reject)
      BY Zenon, <1>1 DEF OnRejectReply
    <2> QED BY Zenon, <2>1, ReplyFinds, RejectOpen
  <1>4. counts' \in [fulfilled : Nat, rejected : Nat, failFast : Nat]
    <2> DEFINE n == IF reject.code \in {"T00", "F99"} THEN 1 ELSE 0
    <2>1. PICK c \in [fulfilled : Nat, rejected : Nat, failFast : Nat] : c = counts
      BY Zenon, ReplyFinds
    <2> DEFINE d == [c EXCEPT !.rejected = @ + 1]
    <2>2. counts' = [d EXCEPT !.failFast = @ + n]
      BY Zenon, <2>1 DEF OnRejectReply
    <2>3. d \in [fulfilled : Nat, rejected : Nat, failFast : Nat] /\ n \in Nat
      OBVIOUS
    <2> HIDE DEF d, n
    <2> QED BY <2>2, <2>3
  <1>5. timedOut' \in BOOLEAN
    BY Zenon, ReplyFinds DEF OnRejectReply
  <1> DEFINE s == IF reject.code = "F00" THEN "err" ELSE "ok"
  <1>6. /\ Moved(i, s) /\ tasks[i].stage # "spawned" /\ ReadReply(i, readable)
        /\ UNCHANGED <<phase, sequence>>
    BY Zenon DEF OnRejectReply, Moved
  <1>7. s \in Done
    BY Zenon DEF Done
  <1> HIDE DEF s
  <1> QED BY Zenon, <1>2, <1>3, <1>4, <1>5, <1>6, <1>7, ReplyKeeps

\* The invariant is kept by every step.
LEMMA NextIInv == IInv /\ [Next]_vars => IInv'
  <1> SUFFICES ASSUME IInv, [Next]_vars PROVE IInv'
    BY Zenon
  <1>1. CASE Timeout \/ FailFast \/ CloseConnection \/ MaxInFlight \/ WaitDeadline
    BY Zenon, <1>1, LoopStep
  <1>2. CASE SendMoney
    BY Zenon, <1>2, SendMoneyStep
  <1>3. CASE \E i \in 1..Len(tasks) : TakeResult(i)
    BY Zenon, <1>3, TakeStep
  <1>4. CASE Close
    BY Zenon, <1>4, CloseStep
  <1>5. CASE \E i \in 1..Len(tasks) : SendPacket(i)
    BY Zenon, <1>5, SendPacketStep
  <1>6. CASE \E i \in 1..Len(tasks) : Reply(i)
    <2>1. PICK i \in 1..Len(tasks) : Reply(i)
      BY Zenon, <1>6
    <2>2. tasks[i].min .. tasks[i].min + 1 \subseteq Nat
      BY ReplyFinds, U64Assumption
    <2>3. CASE \E readable \in BOOLEAN, claimed \in tasks[i].min .. tasks[i].min + 1 :
                   OnFulfillReply(i, readable, claimed)
      BY Zenon, <2>2, <2>3, FulfillStep
    <2>4. CASE \E reject \in Rejects, readable \in BOOLEAN : OnRejectReply(i, reject, readable)
      BY Zenon, <2>4, RejectStep
    <2> QED BY Zenon, <2>1, <2>3, <2>4 DEF Reply
  <1>7. CASE Elapse
    BY Zenon, <1>7, ElapseStep
  <1>8. CASE UNCHANGED vars
    BY Zenon, <1>8 DEF IInv, TypeOK, NeverOverspends, UniqueSequences, AnnouncesUntilAssetKnown,
                Numbered, payment, vars
  <1> QED BY Zenon, <1>1, <1>2, <1>3, <1>4, <1>5, <1>6, <1>7, <1>8 DEF Next, Loop

\* The inductive invariant of send_money and its packet tasks.
THEOREM Invariant == Spec => []IInv
  BY InitIInv, NextIInv, PTL DEF Spec

-----------------------------------------------------------------------------
\* The controller's window (congestion.rs) never closes, and its amounts and those of the
\* receipt stay u64s, for every integer width and every F08 a connector may report.
THEOREM TypeCorrect == Spec => []TypeOK
  <1>1. IInv => TypeOK
    BY Zenon DEF IInv
  <1> QED BY <1>1, Invariant, PTL

\* However its packet tasks interleave, send_money (client.rs, apply_prepare) never has more
\* than the requested amount fulfilled or in flight.
THEOREM NeverOverspendsAlways == Spec => []NeverOverspends
  <1>1. IInv => NeverOverspends
    BY Zenon DEF IInv
  <1> QED BY <1>1, Invariant, PTL

\* The number each task takes under the lock (client.rs, next_sequence) is its packet's own,
\* so no two packets of a connection ask for the same on-chain payment.
THEOREM UniqueSequencesAlways == Spec => []UniqueSequences
  <1>1. IInv => UniqueSequences
    BY Zenon DEF IInv
  <1> QED BY <1>1, Invariant, PTL

\* The account is announced until the asset is known (client.rs, send_money_packet): a reply
\* read to a packet sent before the first answer never silences the announcement too early.
THEOREM AnnouncesUntilAssetKnownAlways == Spec => []AnnouncesUntilAssetKnown
  <1>1. IInv => AnnouncesUntilAssetKnown
    BY Zenon DEF IInv
  <1> QED BY <1>1, Invariant, PTL

-----------------------------------------------------------------------------
\* The amount in flight: the sum over the unanswered packets.

InFlight == SumFunctionOnSet(Amounts, Unanswered)

\* It is a natural number, none of its packets is larger, and without any it is zero.
LEMMA InFlightType ==
    ASSUME TypeOK
    PROVE  /\ Len(tasks) \in Nat /\ IsFiniteSet(Unanswered)
           /\ \A i \in 1..Len(tasks) : Amounts[i] = tasks[i].amount /\ Amounts[i] \in Nat
           /\ InFlight \in Nat
           /\ \A i \in Unanswered : tasks[i].amount <= InFlight
           /\ Unanswered = {} => InFlight = 0
  <1>1. Len(tasks) \in Nat
    BY Zenon, LenProperties DEF TypeOK
  <1>2. IsFiniteSet(Unanswered) /\ Unanswered \subseteq 1..Len(tasks)
    <2>1. IsFiniteSet(1..Len(tasks))
      BY <1>1, FS_Interval
    <2>2. Unanswered \subseteq 1..Len(tasks)
      BY Zenon DEF Unanswered
    <2> QED BY Zenon, <2>1, <2>2, FS_Subset
  <1>3. \A i \in 1..Len(tasks) : tasks[i].amount \in Nat
    BY TaskType, U64Assumption DEF Task
  <1>4. \A i \in 1..Len(tasks) : Amounts[i] = tasks[i].amount /\ Amounts[i] \in Nat
    BY Zenon, <1>3 DEF Amounts
  <1>5. \A i \in Unanswered : Amounts[i] \in Nat
    BY Zenon, <1>2, <1>4
  <1>6. InFlight \in Nat
    <2>1. \A i \in Unanswered : Amounts[i] \in Int /\ Amounts[i] >= 0
      BY <1>5
    <2>2. InFlight \in Int
      BY Zenon, <1>2, <2>1, SumType DEF InFlight
    <2>3. InFlight >= 0
      BY Zenon, <1>2, <2>1, SumType DEF InFlight
    <2> QED BY <2>2, <2>3
  <1>7. \A i \in Unanswered : Amounts[i] <= InFlight
    BY Zenon, <1>2, <1>5, SumElement DEF InFlight
  <1>8. Unanswered = {} => InFlight = 0
    BY Zenon, SumEmpty DEF InFlight
  <1> QED BY Zenon, <1>1, <1>2, <1>4, <1>6, <1>7, <1>8

\* It does not change while the packets and the answers stay the same.
LEMMA InFlightSame ==
    ASSUME TypeOK, Len(tasks') = Len(tasks),
           \A j \in 1..Len(tasks) : /\ tasks'[j].amount = tasks[j].amount
                                    /\ tasks'[j].stage \in {"spawned", "sent"}
                                         <=> tasks[j].stage \in {"spawned", "sent"}
    PROVE  InFlight' = InFlight /\ Unanswered' = Unanswered
  <1>1. Amounts' = Amounts
    BY Zenon DEF Amounts
  <1>2. Unanswered' = Unanswered
    BY Zenon DEF Unanswered
  <1> QED BY Zenon, <1>1, <1>2 DEF InFlight

\* An answer takes its packet out.
LEMMA InFlightAnswered ==
    ASSUME TypeOK, NEW i \in Unanswered, Len(tasks') = Len(tasks),
           \A j \in 1..Len(tasks) : tasks'[j].amount = tasks[j].amount,
           \A j \in 1..Len(tasks) : j # i => tasks'[j].stage = tasks[j].stage,
           tasks'[i].stage \notin {"spawned", "sent"}
    PROVE  InFlight' = InFlight - tasks[i].amount
  <1>1. Amounts' = Amounts
    BY Zenon DEF Amounts
  <1>2. Unanswered' = Unanswered \ {i}
    BY Zenon DEF Unanswered
  <1>3. IsFiniteSet(Unanswered) /\ i \in 1..Len(tasks) /\ Amounts[i] = tasks[i].amount
    BY Zenon, InFlightType DEF Unanswered
  <1>4. \A j \in Unanswered : Amounts[j] \in Int
    BY InFlightType DEF Unanswered
  <1>5. SumFunctionOnSet(Amounts, Unanswered) =
          Amounts[i] + SumFunctionOnSet(Amounts, Unanswered \ {i})
    BY ONLY Zenon, <1>3, <1>4, i \in Unanswered, SumRemove
  <1>6. SumFunctionOnSet(Amounts, Unanswered \ {i}) \in Int
    <2>1. IsFiniteSet(Unanswered \ {i})
      BY Zenon, <1>3, FS_RemoveElement
    <2> QED BY Zenon, <1>4, <2>1, SumType
  <1>7. Amounts[i] \in Int
    BY Zenon, <1>4
  <1> QED BY <1>1, <1>2, <1>3, <1>5, <1>6, <1>7 DEF InFlight

\* A new packet is put in.
LEMMA InFlightSpawned ==
    ASSUME TypeOK, NEW a \in Nat, Len(tasks') = Len(tasks) + 1,
           \A j \in 1..Len(tasks) : tasks'[j] = tasks[j],
           tasks'[Len(tasks) + 1].stage = "spawned", tasks'[Len(tasks) + 1].amount = a
    PROVE  InFlight' = InFlight + a
  <1> DEFINE y == Len(tasks) + 1
             S == Unanswered
             f == Amounts
             g == Amounts'
  <1>1. Len(tasks) \in Nat /\ IsFiniteSet(S)
    BY Zenon, InFlightType
  <1>2. Unanswered' = S \cup {y} /\ y \notin S
    BY <1>1 DEF Unanswered
  <1>3. g[y] = a /\ \A j \in 1..Len(tasks) : g[j] = tasks[j].amount
    BY <1>1 DEF Amounts
  <1>4. \A j \in S : f[j] \in Int /\ g[j] = f[j]
    BY <1>3, InFlightType DEF Unanswered
  <1>5. g[y] \in Int
    BY <1>3
  <1> HIDE DEF y, S, f, g
  <1>6. \A j \in S : g[j] \in Int
    BY Zenon, <1>4
  <1>7. SumFunctionOnSet(g, S \cup {y}) = SumFunctionOnSet(g, S) + g[y]
    BY ONLY Zenon, <1>1, <1>2, <1>5, <1>6, SumAdd
  <1>8. SumFunctionOnSet(g, S) = SumFunctionOnSet(f, S)
    BY ONLY Zenon, <1>1, <1>4, SumSame
  <1> QED BY Zenon, <1>2, <1>3, <1>7, <1>8 DEF InFlight, S, f, g

\* Which packet a task carries never changes; its stage does.
LEMMA MovedTo ==
    ASSUME TypeOK, NEW i \in 1..Len(tasks), NEW s \in Done, Moved(i, s)
    PROVE  /\ Len(tasks') = Len(tasks)
           /\ \A j \in 1..Len(tasks) : /\ tasks'[j].amount = tasks[j].amount
                                       /\ tasks'[j].min = tasks[j].min
           /\ \A j \in 1..Len(tasks) : j # i => tasks'[j].stage = tasks[j].stage
           /\ tasks'[i].stage = s
  <1>1. PICK d \in Task : d = tasks[i]
    BY Zenon, TaskType
  <1> DEFINE t == [d EXCEPT !.stage = s]
  <1>2. t \in Task /\ t.amount = d.amount /\ t.min = d.min /\ t.stage = s
    BY Zenon DEF Task, Stage
  <1>3. tasks' = [tasks EXCEPT ![i] = [tasks[i] EXCEPT !.stage = s]]
    BY Zenon DEF Moved
  <1>4. tasks' = [tasks EXCEPT ![i] = t]
    BY Zenon, <1>1, <1>3
  <1> HIDE DEF t
  <1> QED BY Zenon, <1>1, <1>2, <1>4, Replaced

\* A packet that leaves changes nothing but its own stage.
LEMMA SentTo ==
    ASSUME TypeOK, NEW i \in 1..Len(tasks), Sent(i)
    PROVE  /\ Len(tasks') = Len(tasks)
           /\ \A j \in 1..Len(tasks) : /\ tasks'[j].amount = tasks[j].amount
                                       /\ tasks'[j].min = tasks[j].min
           /\ \A j \in 1..Len(tasks) : j # i => tasks'[j].stage = tasks[j].stage
           /\ tasks'[i].stage = "sent"
  <1>1. PICK d \in Task : d = tasks[i]
    BY Zenon, TaskType
  <1> DEFINE e == [d EXCEPT !.seq = sequence]
             f == [e EXCEPT !.announced = announce]
             t == [f EXCEPT !.stage = "sent"]
  <1>2. e \in Task /\ e.amount = d.amount /\ e.min = d.min
    BY Zenon DEF Task, TypeOK
  <1>3. tasks' = [tasks EXCEPT ![i] = [tasks[i] EXCEPT !.seq = sequence, !.announced = announce,
                                                       !.stage = "sent"]]
    BY Zenon DEF Sent
  <1>4. tasks' = [tasks EXCEPT ![i] = t]
    BY Zenon, <1>1, <1>3
  <1> HIDE DEF e
  <1>5. f \in Task /\ f.amount = d.amount /\ f.min = d.min
    BY Zenon, <1>2 DEF Task, TypeOK
  <1> HIDE DEF f
  <1>6. t \in Task /\ t.amount = d.amount /\ t.min = d.min /\ t.stage = "sent"
    BY Zenon, <1>5 DEF Task, Stage
  <1> HIDE DEF t
  <1> QED BY Zenon, <1>1, <1>4, <1>6, Replaced

-----------------------------------------------------------------------------
\* What a step does to the amounts.

\* An amount that fits is not wrapped.
LEMMA WrapSame ==
    ASSUME NEW n \in 0..U64Max
    PROVE  Wrap(n) = n
  BY U64Assumption DEF Wrap

\* The controller counts a packet in, and out again whatever its answer is.
LEMMA ControllerCounts ==
    ASSUME NEW c \in Controller, NEW a \in 0..U64Max, NEW r \in Rejects
    PROVE  /\ OnPrepare(c, a).inFlight = Wrap(c.inFlight + a)
           /\ OnFulfill(c, a).inFlight = Wrap(c.inFlight - a)
           /\ OnReject(c, a, r).inFlight = Wrap(c.inFlight - a)
  <1> DEFINE w == Wrap(c.inFlight - a)
             d == [c EXCEPT !.inFlight = w]
             proposed == NewMaxPacketAmount(a, r)
  <1>1. OnPrepare(c, a).inFlight = Wrap(c.inFlight + a)
    BY Zenon DEF OnPrepare, Controller
  <1>2. w \in 0..U64Max
    BY WrapType, U64Assumption DEF Controller
  <1>3. d \in Controller /\ d.inFlight = w
    <2> HIDE DEF w
    <2> QED BY Zenon, <1>2 DEF Controller
  <1>4. OnFulfill(c, a).inFlight = w
    <2> DEFINE m == Least(U64Max, IF c.state = "SlowStart" THEN 2 * c.maxInFlight
                                                           ELSE c.maxInFlight + c.increase)
    <2>1. OnFulfill(c, a) = [d EXCEPT !.maxInFlight = m]
      BY Zenon DEF OnFulfill
    <2> HIDE DEF m, d
    <2> QED BY Zenon, <1>3, <2>1 DEF Controller
  <1>5. OnReject(c, a, r).inFlight = w
    <2>1. OnReject(c, a, r) =
            CASE r.code = "T04" ->
                   [d EXCEPT !.state = "AvoidCongestion", !.maxInFlight = ReducedWindow(c)]
              [] r.code = "F08" /\ r.received > 0 ->
                   [d EXCEPT !.maxPacket = IF @ = None THEN proposed ELSE Least(@, proposed)]
              [] r.code = "F08" /\ r.received = 0 ->
                   [d EXCEPT !.maxPacket = IF @ = None THEN None ELSE @ \div 2]
              [] OTHER -> d
      BY Zenon DEF OnReject
    <2>2. r.received \in Nat
      BY SenderAssumption DEF Rejects
    <2> HIDE DEF d, proposed, w
    <2>3. CASE r.code = "T04"
      <3> DEFINE e == [d EXCEPT !.state = "AvoidCongestion"]
      <3>1. OnReject(c, a, r) = [e EXCEPT !.maxInFlight = ReducedWindow(c)]
        BY Zenon, <2>1, <2>3
      <3>2. e \in Controller /\ e.inFlight = d.inFlight
        BY Zenon, <1>3 DEF Controller
      <3> HIDE DEF e
      <3> QED BY Zenon, <1>3, <3>1, <3>2 DEF Controller
    <2>4. CASE r.code = "F08" /\ r.received > 0
      <3> DEFINE m == IF d.maxPacket = None THEN proposed ELSE Least(d.maxPacket, proposed)
      <3>1. OnReject(c, a, r) = [d EXCEPT !.maxPacket = m]
        BY <2>1, <2>4
      <3> HIDE DEF m
      <3> QED BY Zenon, <1>3, <3>1 DEF Controller
    <2>5. CASE r.code = "F08" /\ r.received = 0
      <3> DEFINE m == IF d.maxPacket = None THEN None ELSE d.maxPacket \div 2
      <3>1. OnReject(c, a, r) = [d EXCEPT !.maxPacket = m]
        BY <2>1, <2>5
      <3> HIDE DEF m
      <3> QED BY Zenon, <1>3, <3>1 DEF Controller
    <2>6. CASE r.code \notin {"T04", "F08"}
      BY Zenon, <1>3, <2>1, <2>6
    <2> QED BY <2>2, <2>3, <2>4, <2>5, <2>6
  <1> QED BY Zenon, <1>1, <1>4, <1>5

\* The receipt's amounts after a packet is prepared, fulfilled or rejected.
LEMMA ReceiptAmounts ==
    ASSUME NEW r \in Receipt, NEW m, NEW n
    PROVE  /\ LET q == [r EXCEPT !.sent = m, !.inFlight = n]
              IN  q.sent = m /\ q.inFlight = n /\ q.delivered = r.delivered
           /\ LET q == [r EXCEPT !.inFlight = n, !.delivered = m]
              IN  q.sent = r.sent /\ q.inFlight = n /\ q.delivered = m
  BY Zenon DEF Receipt

-----------------------------------------------------------------------------
\* The accounts of a payment.

\* From the moment the loop decides to close the connection everything is fulfilled and
\* nothing of value in flight; when it has closed, every task has ended.
Closed ==
    /\ phase \in {"closing", "delivered"} => receipt.sent = SourceAmount /\ receipt.inFlight = 0
    /\ phase = "delivered" => \A i \in 1..Len(tasks) : tasks[i].stage \in Done

Accounts == InFlightAccounting /\ Closed /\ NeverWaitsOnNothing

\* What the accounts say about the amounts.
LEMMA AccountsFind ==
    ASSUME IInv, InFlightAccounting
    PROVE  /\ receipt \in Receipt /\ controller \in Controller
           /\ controller.inFlight = InFlight /\ receipt.inFlight = InFlight /\ InFlight \in Nat
           /\ receipt.sent \in Nat /\ receipt.sent <= SourceAmount /\ InFlight <= receipt.sent
           /\ SourceAmount \in Nat /\ SourceAmount <= U64Max /\ U64Max \in Nat
           /\ FulfilledAmount = receipt.sent - InFlight
  <1>1. receipt \in Receipt /\ controller \in Controller
    BY Zenon DEF IInv, TypeOK, Receipt
  <1>2. controller.inFlight = InFlight /\ receipt.inFlight = InFlight /\ InFlight \in Nat
    BY Zenon, InFlightType DEF InFlightAccounting, InFlight, IInv
  <1>3. SourceAmount \in Nat /\ SourceAmount <= U64Max /\ U64Max \in Nat
    BY SenderAssumption, U64Assumption
  <1>4. receipt.sent \in Nat /\ receipt.sent <= SourceAmount /\ receipt.inFlight <= receipt.sent
    BY <1>1, <1>3 DEF IInv, NeverOverspends, Receipt
  <1> QED BY <1>1, <1>2, <1>3, <1>4 DEF FulfilledAmount, Greatest

\* Preparing a packet counts its amount as sent and as in flight.
LEMMA PreparedAmounts ==
    ASSUME IInv, InFlightAccounting, SendMoney
    PROVE  \E a \in Nat :
              /\ InFlightAccounting'
              /\ receipt'.sent = receipt.sent + a
              /\ receipt'.inFlight = receipt.inFlight + a
              /\ receipt'.delivered = receipt.delivered
              /\ phase' = "loop"
              /\ Len(tasks') = Len(tasks) + 1
              /\ \A j \in 1..Len(tasks) : tasks'[j] = tasks[j]
              /\ tasks'[Len(tasks) + 1].amount = a
              /\ tasks'[Len(tasks) + 1].min = MinDestinationAmount(a)
  <1>1. PICK a \in 0..(SourceAmount - receipt.sent) : a = PacketAmount
    BY Zenon, PacketAmountBound DEF SendMoney, IInv
  <1>2. Prepared(a) /\ phase' = "loop"
    BY Zenon, <1>1 DEF SendMoney, Prepared
  <1>3. a \in 0..U64Max /\ a \in Nat /\ receipt.inFlight + a \in 0..U64Max
    BY AccountsFind
  <1>4. receipt'.sent = receipt.sent + a /\ receipt'.inFlight = receipt.inFlight + a
        /\ receipt'.delivered = receipt.delivered
    BY <1>2, AccountsFind, ReceiptAmounts DEF Prepared
  <1>5. controller'.inFlight = controller.inFlight + a
    <2>1. OnPrepare(controller, a).inFlight = Wrap(controller.inFlight + a)
      BY Zenon, AccountsFind DEF OnPrepare, Controller
    <2> QED BY Zenon, <1>2, <1>3, <2>1, AccountsFind, WrapSame DEF Prepared
  <1>6. /\ Len(tasks') = Len(tasks) + 1
        /\ \A j \in 1..Len(tasks) : tasks'[j] = tasks[j]
        /\ tasks'[Len(tasks) + 1].stage = "spawned"
        /\ tasks'[Len(tasks) + 1].amount = a
        /\ tasks'[Len(tasks) + 1].min = MinDestinationAmount(a)
    <2> DEFINE t == [amount |-> a, min |-> MinDestinationAmount(a),
                     seq |-> 0, announced |-> FALSE, stage |-> "spawned"]
    <2>1. /\ t \in Task /\ t.stage = "spawned" /\ t.amount = a
          /\ t.min = MinDestinationAmount(a)
      <3>1. MinDestinationAmount(a) \in 0..U64Max
        BY Zenon, <1>3, MinimumType
      <3> QED BY Zenon, <1>3, <3>1 DEF Task, Stage
    <2>2. tasks' = Append(tasks, t)
      BY Zenon, <1>2 DEF Prepared
    <2>3. tasks \in Seq(Task)
      BY Zenon DEF IInv, TypeOK, Task, Stage
    <2> HIDE DEF t
    <2> QED BY <2>1, <2>2, <2>3, AppendProperties
  <1>7. InFlight' = InFlight + a
    BY Zenon, <1>3, <1>6, InFlightSpawned DEF IInv
  <1>8. InFlightAccounting'
    BY Zenon, <1>4, <1>5, <1>7, AccountsFind DEF InFlightAccounting, InFlight
  <1> QED BY Zenon, <1>2, <1>3, <1>4, <1>6, <1>8

\* An answer takes the packet's amount out of flight; a reject also out of what is sent.
Answered(i) ==
    /\ InFlightAccounting'
    /\ tasks[i].stage = "sent"
    /\ tasks[i].amount \in Nat /\ tasks[i].amount <= receipt.inFlight
    /\ receipt'.inFlight = receipt.inFlight - tasks[i].amount
    /\ phase' = phase
    /\ Len(tasks') = Len(tasks)
    /\ \A j \in 1..Len(tasks) : /\ tasks'[j].amount = tasks[j].amount
                                /\ tasks'[j].min = tasks[j].min
    /\ \A j \in 1..Len(tasks) : j # i => tasks'[j].stage = tasks[j].stage
    /\ tasks'[i].stage \in {"ok", "err"}

\* The part the two kinds of answer share.
LEMMA AnsweredAmounts ==
    ASSUME IInv, InFlightAccounting, NEW i \in 1..Len(tasks), tasks[i].stage = "sent",
           NEW s \in {"ok", "err"}, Moved(i, s), phase' = phase,
           controller'.inFlight = Wrap(controller.inFlight - tasks[i].amount),
           receipt'.inFlight = Greatest(receipt.inFlight - tasks[i].amount, 0)
    PROVE  Answered(i)
  <1>1. TypeOK /\ s \in Done
    BY Zenon DEF IInv, Done
  <1>2. i \in Unanswered
    BY Zenon DEF Unanswered
  <1>3. tasks[i].amount \in Nat /\ tasks[i].amount <= InFlight
    BY Zenon, <1>1, <1>2, InFlightType
  <1>4. /\ Len(tasks') = Len(tasks)
        /\ \A j \in 1..Len(tasks) : /\ tasks'[j].amount = tasks[j].amount
                                    /\ tasks'[j].min = tasks[j].min
        /\ \A j \in 1..Len(tasks) : j # i => tasks'[j].stage = tasks[j].stage
        /\ tasks'[i].stage = s
    BY Zenon, <1>1, MovedTo
  <1>5. InFlight' = InFlight - tasks[i].amount
    BY Zenon, <1>1, <1>2, <1>4, InFlightAnswered
  <1>6. InFlight - tasks[i].amount \in 0..U64Max
    BY <1>3, AccountsFind
  <1>7. controller'.inFlight = InFlight'
    BY Zenon, <1>5, <1>6, AccountsFind, WrapSame
  <1>8. receipt'.inFlight = InFlight'
    BY <1>3, <1>5, AccountsFind DEF Greatest
  <1> QED BY Zenon, <1>3, <1>4, <1>5, <1>7, <1>8, AccountsFind DEF Answered, InFlightAccounting,
                InFlight

\* A fulfill leaves what was sent and adds to what was delivered.
LEMMA FulfilledAmounts ==
    ASSUME IInv, InFlightAccounting, NEW i \in 1..Len(tasks), NEW readable \in BOOLEAN,
           NEW claimed \in Nat, OnFulfillReply(i, readable, claimed)
    PROVE  /\ Answered(i)
           /\ receipt'.sent = receipt.sent
           /\ receipt'.delivered = Least(U64Max, receipt.delivered
                                     + Greatest(tasks[i].min, IF readable THEN claimed ELSE 0))
  <1> DEFINE m == Least(U64Max, receipt.delivered
                                  + Greatest(tasks[i].min, IF readable THEN claimed ELSE 0))
             n == Greatest(receipt.inFlight - tasks[i].amount, 0)
  <1>1. receipt' = [receipt EXCEPT !.inFlight = n, !.delivered = m]
    BY Zenon DEF OnFulfillReply
  <1> HIDE DEF m, n
  <1>2. receipt'.inFlight = n /\ receipt'.delivered = m /\ receipt'.sent = receipt.sent
    BY <1>1, AccountsFind, ReceiptAmounts
  <1>3. PICK a \in 0..U64Max : a = tasks[i].amount
    BY Zenon, ReplyFinds
  <1>4. controller' = OnFulfill(controller, a)
    BY Zenon, <1>3 DEF OnFulfillReply
  <1>5. [code |-> "T00", received |-> 0, max |-> 0] \in Rejects
    BY Zenon DEF Rejects
  <1>6. controller'.inFlight = Wrap(controller.inFlight - a)
    BY Zenon, <1>4, <1>5, AccountsFind, ControllerCounts
  <1>7. Moved(i, "ok") /\ phase' = phase /\ tasks[i].stage = "sent"
    BY Zenon DEF OnFulfillReply, Moved
  <1>8. Answered(i)
    BY Zenon, <1>2, <1>3, <1>6, <1>7, AnsweredAmounts DEF n
  <1> QED BY Zenon, <1>2, <1>8 DEF m

\* A reject takes its amount back from what was sent.
LEMMA RejectedAmounts ==
    ASSUME IInv, InFlightAccounting, NEW i \in 1..Len(tasks), NEW reject \in Rejects,
           NEW readable \in BOOLEAN, OnRejectReply(i, reject, readable)
    PROVE  /\ Answered(i)
           /\ receipt'.sent = receipt.sent - tasks[i].amount
           /\ receipt'.delivered = receipt.delivered
  <1> DEFINE m == Greatest(receipt.sent - tasks[i].amount, 0)
             n == Greatest(receipt.inFlight - tasks[i].amount, 0)
             s == IF reject.code = "F00" THEN "err" ELSE "ok"
  <1>1. receipt' = [receipt EXCEPT !.sent = m, !.inFlight = n]
    BY Zenon DEF OnRejectReply
  <1>2. Moved(i, s) /\ phase' = phase /\ tasks[i].stage = "sent" /\ s \in {"ok", "err"}
    BY Zenon DEF OnRejectReply, Moved
  <1> HIDE DEF m, n, s
  <1>3. receipt'.inFlight = n /\ receipt'.delivered = receipt.delivered /\ receipt'.sent = m
    BY <1>1, AccountsFind, ReceiptAmounts
  <1>4. PICK a \in 0..U64Max : a = tasks[i].amount
    BY Zenon, ReplyFinds
  <1>5. controller' = OnReject(controller, a, reject)
    BY Zenon, <1>4 DEF OnRejectReply
  <1>6. controller'.inFlight = Wrap(controller.inFlight - a)
    BY Zenon, <1>5, AccountsFind, ControllerCounts
  <1>7. Answered(i)
    BY Zenon, <1>2, <1>3, <1>4, <1>6, AnsweredAmounts DEF n
  <1>8. m = receipt.sent - tasks[i].amount
    BY <1>7, AccountsFind DEF m, Greatest, Answered
  <1> QED BY Zenon, <1>3, <1>7, <1>8

-----------------------------------------------------------------------------
\* The accounts are kept.

\* They say which task a waiting loop waits for.
LEMMA SomethingToWaitFor ==
    ASSUME IInv, InFlightAccounting, ~IsComplete, IsMaxInFlight
    PROVE  \E i \in 1..Len(tasks) : tasks[i].stage # "consumed"
  <1>1. controller.maxInFlight \in Nat \ {0}
    BY U64Assumption DEF IInv, TypeOK, Controller
  <1>2. InFlight > 0
    BY <1>1, AccountsFind
       DEF IsComplete, IsMaxInFlight, AmountLeftInWindow, AvailableToSend, Greatest
  <1>3. PICK i \in Unanswered : TRUE
    BY <1>2, InFlightType DEF IInv
  <1> QED BY Zenon, <1>3 DEF Unanswered

\* The accounts hold in the beginning.
LEMMA AccountsInit == Init => Accounts
  <1> SUFFICES ASSUME Init PROVE Accounts
    BY Zenon
  <1>1. TypeOK
    BY Zenon, InitIInv DEF IInv
  <1>2. Unanswered = {}
    BY DEF Init, Unanswered
  <1>3. InFlight = 0
    BY Zenon, <1>1, <1>2, InFlightType
  <1> QED BY Zenon, <1>3 DEF Init, New, Accounts, InFlightAccounting, InFlight, Closed,
                      NeverWaitsOnNothing

\* Steps that change neither the amounts nor the answers.
LEMMA AccountsSame ==
    ASSUME IInv, Accounts, UNCHANGED <<controller, receipt>>, InFlight' = InFlight
    PROVE  InFlightAccounting'
  BY Zenon DEF Accounts, InFlightAccounting, InFlight

\* Every step of the sender keeps the accounts.
LEMMA AccountsNext == IInv /\ Accounts /\ [Next]_vars => Accounts'
  <1> SUFFICES ASSUME IInv, Accounts, [Next]_vars PROVE Accounts'
    BY Zenon
  <1>1. /\ InFlightAccounting /\ Closed /\ NeverWaitsOnNothing /\ TypeOK
        /\ Len(tasks) \in Nat
    BY Zenon, InFlightType DEF Accounts, IInv
  <1>2. ASSUME UNCHANGED tasks PROVE InFlight' = InFlight
    BY Zenon, <1>2 DEF InFlight, Amounts, Unanswered
  <1>3. CASE Timeout \/ FailFast \/ WaitDeadline
    BY Zenon, <1>1, <1>2, <1>3, AccountsSame
       DEF Timeout, FailFast, WaitDeadline, payment, Accounts, Closed, NeverWaitsOnNothing
  <1>4. CASE CloseConnection
    <2>1. phase' = "closing" /\ IsComplete /\ UNCHANGED <<payment, tasks>>
      BY Zenon, <1>4 DEF CloseConnection
    <2>2. receipt.sent = SourceAmount /\ receipt.inFlight = 0
      BY <1>1, <2>1, AccountsFind DEF IsComplete, Greatest
    <2> QED BY Zenon, <1>1, <1>2, <2>1, <2>2, AccountsSame DEF payment, Accounts, Closed,
                                                        NeverWaitsOnNothing
  <1>5. CASE MaxInFlight
    <2>1. phase' = "waiting" /\ ~IsComplete /\ IsMaxInFlight /\ UNCHANGED <<payment, tasks>>
      BY Zenon, <1>5 DEF MaxInFlight
    <2>2. \E i \in 1..Len(tasks) : tasks[i].stage # "consumed"
      BY Zenon, <1>1, <2>1, SomethingToWaitFor
    <2> QED BY Zenon, <1>1, <1>2, <2>1, <2>2, AccountsSame DEF payment, Accounts, Closed,
                                                        NeverWaitsOnNothing
  <1>6. CASE SendMoney
    BY Zenon, <1>1, <1>6, PreparedAmounts DEF Accounts, Closed, NeverWaitsOnNothing
  <1>7. ASSUME NEW i \in 1..Len(tasks), TakeResult(i) PROVE Accounts'
    <2>1. /\ Moved(i, "consumed") /\ tasks[i].stage \in {"ok", "err"}
          /\ UNCHANGED payment /\ phase' \in {"error", "loop"} /\ "consumed" \in Done
      BY Zenon, <1>7 DEF TakeResult, Moved, Done
    <2>2. InFlight' = InFlight
      BY Zenon, <1>1, <2>1, MovedTo, InFlightSame
    <2> QED BY Zenon, <1>1, <2>1, <2>2, AccountsSame DEF payment, Accounts, Closed,
                                                  NeverWaitsOnNothing
  <1>8. CASE Close
    <2>1. /\ phase = "closing" /\ phase' = "delivered" /\ UNCHANGED <<controller, receipt, tasks>>
          /\ \A i \in 1..Len(tasks) : tasks[i].stage \in Done
      BY Zenon, <1>8 DEF Close
    <2> QED BY Zenon, <1>1, <1>2, <2>1, AccountsSame DEF Accounts, Closed, NeverWaitsOnNothing
  <1>9. ASSUME NEW i \in 1..Len(tasks), SendPacket(i) PROVE Accounts'
    <2>1. /\ Sent(i) /\ tasks[i].stage = "spawned"
          /\ UNCHANGED <<phase, controller, receipt>>
      BY Zenon, <1>9 DEF SendPacket, Sent
    <2>2. /\ Len(tasks') = Len(tasks)
          /\ \A j \in 1..Len(tasks) : /\ tasks'[j].amount = tasks[j].amount
                                      /\ tasks'[j].min = tasks[j].min
          /\ \A j \in 1..Len(tasks) : j # i => tasks'[j].stage = tasks[j].stage
          /\ tasks'[i].stage = "sent"
      BY Zenon, <1>1, <2>1, SentTo
    <2>3. InFlight' = InFlight
      BY Zenon, <1>1, <2>1, <2>2, InFlightSame
    <2>4. Closed'
      BY Zenon, <1>1, <2>1, <2>2 DEF Closed, Done
    <2>5. NeverWaitsOnNothing'
      BY Zenon, <1>1, <2>1, <2>2 DEF NeverWaitsOnNothing
    <2> QED BY Zenon, <2>1, <2>3, <2>4, <2>5, AccountsSame DEF Accounts
  <1>10. ASSUME NEW i \in 1..Len(tasks), Answered(i),
                receipt'.sent \in {receipt.sent, receipt.sent - tasks[i].amount}
         PROVE  Accounts'
    <2>1. Closed'
      <3>1. phase # "delivered"
        BY Zenon, <1>1, <1>10 DEF Closed, Answered, Done
      <3>2. ASSUME phase = "closing" PROVE receipt'.sent = SourceAmount /\ receipt'.inFlight = 0
        <4>1. receipt.sent = SourceAmount /\ receipt.inFlight = 0 /\ SourceAmount \in Nat
          BY Zenon, <1>1, <3>2, AccountsFind DEF Closed
        <4>2. tasks[i].amount = 0
          BY <1>10, <4>1 DEF Answered
        <4> QED BY <1>10, <4>1, <4>2 DEF Answered
      <3> QED BY Zenon, <1>10, <3>1, <3>2 DEF Closed, Answered
    <2>2. NeverWaitsOnNothing'
      BY Zenon, <1>1, <1>10 DEF NeverWaitsOnNothing, Answered
    <2> QED BY Zenon, <1>10, <2>1, <2>2 DEF Accounts, Answered
  <1>11. ASSUME NEW i \in 1..Len(tasks), Reply(i) PROVE Accounts'
    <2>1. tasks[i].min .. tasks[i].min + 1 \subseteq Nat
      BY ReplyFinds, U64Assumption
    <2>2. CASE \E readable \in BOOLEAN, claimed \in tasks[i].min .. tasks[i].min + 1 :
                   OnFulfillReply(i, readable, claimed)
      BY Zenon, <1>1, <1>10, <2>1, <2>2, FulfilledAmounts
    <2>3. CASE \E reject \in Rejects, readable \in BOOLEAN : OnRejectReply(i, reject, readable)
      BY Zenon, <1>1, <1>10, <2>3, RejectedAmounts
    <2> QED BY Zenon, <1>11, <2>2, <2>3 DEF Reply
  <1>12. CASE Elapse
    BY Zenon, <1>1, <1>2, <1>12, AccountsSame DEF Elapse, Accounts, Closed, NeverWaitsOnNothing
  <1>13. CASE UNCHANGED vars
    BY Zenon, <1>1, <1>2, <1>13, AccountsSame
       DEF vars, payment, Accounts, Closed, NeverWaitsOnNothing
  <1> QED BY Zenon, <1>3, <1>4, <1>5, <1>6, <1>7, <1>8, <1>9, <1>11, <1>12, <1>13 DEF Next, Loop

\* The accounts of send_money in every reachable state.
LEMMA AccountsAlways == Spec => [](IInv /\ Accounts)
  BY InitIInv, NextIInv, AccountsInit, AccountsNext, PTL DEF Spec

\* The controller's amount_in_flight, the receipt's in_flight_amount and the unanswered
\* packets agree, so that no saturating or wrapping subtraction in client.rs or congestion.rs
\* ever hides a packet counted twice, for any number of packets and any width of the integers.
THEOREM InFlightAccounted == Spec => []InFlightAccounting
  <1>1. Accounts => InFlightAccounting
    BY Zenon DEF Accounts
  <1> QED BY <1>1, AccountsAlways, PTL

\* send_money (client.rs, CloseConnection) returns a receipt only when the whole amount is
\* fulfilled and no task is left to change it.
THEOREM ReceiptIsFinalAlways == Spec => []ReceiptIsFinal
  <1>1. IInv /\ Accounts => ReceiptIsFinal
    BY AccountsFind DEF Accounts, Closed, ReceiptIsFinal
  <1> QED BY <1>1, AccountsAlways, PTL

\* The loop of send_money (client.rs, MaxInFlight) never waits for a task when there is none.
THEOREM NeverWaitsOnNothingAlways == Spec => []NeverWaitsOnNothing
  <1>1. Accounts => NeverWaitsOnNothing
    BY Zenon DEF Accounts
  <1> QED BY <1>1, AccountsAlways, PTL

-----------------------------------------------------------------------------
\* The rate.  The receipt's delivered_amount saturates at the largest u64, so the floor is
\* proved for payments whose amount at the rate is a u64.

\* A packet is sent with its amount at the rate as its minimum, rounded up, or with none.
Promised ==
    \A i \in 1..Len(tasks) :
        tasks[i].min = 0 \/ tasks[i].min * RateDen >= tasks[i].amount * RateNum

\* Rounding up never falls below.
LEMMA CeilDivFloor ==
    ASSUME NEW a \in Nat, NEW b \in Nat \ {0}
    PROVE  CeilDiv(a, b) * b >= a
  <1> DEFINE n == a + b - 1
             q == n \div b
             r == n % b
  <1>1. n \in Nat
    OBVIOUS
  <1> HIDE DEF n
  <1>2. q \in Int /\ r \in 0..(b - 1) /\ n = b * q + r
    BY <1>1
  <1> HIDE DEF q, r
  <1>3. b * q = q * b /\ b * q \in Int
    BY <1>2
  <1>4. q * b >= n - (b - 1)
    BY <1>1, <1>2, <1>3
  <1> QED BY <1>4 DEF CeilDiv, n, q

\* Products grow with their factors.
LEMMA TimesMonotonic ==
    ASSUME NEW m \in Nat, NEW n \in Nat, m <= n, NEW k \in Nat
    PROVE  m * k <= n * k
  OBVIOUS

\* Multiplication distributes, as a fact to cite by name.
LEMMA TimesDistributes ==
    ASSUME NEW m \in Nat, NEW n \in Nat, NEW k \in Nat
    PROVE  (m + n) * k = m * k + n * k
  OBVIOUS

\* What one fulfilled packet adds: delivered and fulfilled amounts before it are d and f, its
\* minimum and amount n and a, and g is what its reply claims.
LEMMA FloorKept ==
    ASSUME NEW d \in Nat, NEW f \in Nat, NEW n \in Nat, NEW a \in Nat, NEW g \in Nat, n <= g,
           d * RateDen >= f * RateNum, n * RateDen >= a * RateNum,
           f + a <= SourceAmount, SourceAmount * RateNum <= U64Max * RateDen
    PROVE  Least(U64Max, d + g) * RateDen >= (f + a) * RateNum
  <1>1. RateDen \in Nat /\ RateNum \in Nat /\ SourceAmount \in Nat /\ U64Max \in Nat
    BY SenderAssumption, U64Assumption
  <1>2. CASE U64Max <= d + g
    <2>1. (f + a) * RateNum <= SourceAmount * RateNum
      BY <1>1, TimesMonotonic
    <2>2. /\ (f + a) * RateNum \in Nat /\ SourceAmount * RateNum \in Nat
          /\ U64Max * RateDen \in Nat
      BY <1>1, TimesNat
    <2> QED BY <1>2, <2>1, <2>2 DEF Least
  <1>3. CASE ~(U64Max <= d + g)
    <2>1. (d + g) * RateDen = d * RateDen + g * RateDen
          /\ (f + a) * RateNum = f * RateNum + a * RateNum
      BY <1>1, TimesDistributes
    <2>2. n * RateDen <= g * RateDen
      BY Zenon, <1>1, TimesMonotonic
    <2>3. /\ d * RateDen \in Nat /\ g * RateDen \in Nat /\ n * RateDen \in Nat
          /\ f * RateNum \in Nat /\ a * RateNum \in Nat
      BY Zenon, <1>1, TimesNat
    <2>4. Least(U64Max, d + g) = d + g
      BY Zenon, <1>3 DEF Least
    <2> QED BY <2>1, <2>2, <2>3, <2>4
  <1> QED BY Zenon, <1>2, <1>3

\* Nothing is promised and nothing delivered in the beginning.
LEMMA RatesInit == Init => Promised /\ RateFloor
  <1> SUFFICES ASSUME Init PROVE Promised /\ RateFloor
    BY Zenon
  <1>1. FulfilledAmount = 0 /\ receipt.delivered = 0
    BY DEF Init, FulfilledAmount, Greatest
  <1> QED BY <1>1, SenderAssumption DEF Init, Promised, RateFloor

\* The minimum of a new packet keeps the promise.
LEMMA PromiseMade ==
    ASSUME NEW a \in Nat
    PROVE  LET n == MinDestinationAmount(a) IN n = 0 \/ n * RateDen >= a * RateNum
  <1>1. a * RateNum \in Nat
    BY Zenon, SenderAssumption, TimesNat
  <1>2. CeilDiv(a * RateNum, RateDen) * RateDen >= a * RateNum
    BY Zenon, <1>1, SenderAssumption, CeilDivFloor
  <1> QED BY Zenon, <1>2 DEF MinDestinationAmount

\* Only a fulfill changes what counts as fulfilled.
LEMMA FulfilledBy ==
    ASSUME IInv, InFlightAccounting, NEW i \in 1..Len(tasks), Answered(i)
    PROVE  /\ FulfilledAmount \in Nat
           /\ receipt'.sent = receipt.sent =>
                 /\ FulfilledAmount' = FulfilledAmount + tasks[i].amount
                 /\ FulfilledAmount + tasks[i].amount <= SourceAmount
           /\ receipt'.sent = receipt.sent - tasks[i].amount => FulfilledAmount' = FulfilledAmount
  <1> DEFINE n == tasks[i].amount
             f == receipt.inFlight
             s == receipt.sent
             f2 == receipt'.inFlight
             s2 == receipt'.sent
  <1>1. /\ f \in Nat /\ s \in Nat /\ f <= s /\ s <= SourceAmount /\ SourceAmount \in Nat
        /\ FulfilledAmount = s - f
    BY Zenon, AccountsFind
  <1>2. n \in Nat /\ n <= f /\ f2 = f - n
    BY Zenon DEF Answered
  <1>3. FulfilledAmount' = Greatest(s2 - f2, 0)
    BY Zenon DEF FulfilledAmount
  <1> HIDE DEF n, f, s, f2, s2
  <1>4. s2 = s => FulfilledAmount' = (s - f) + n /\ (s - f) + n <= SourceAmount
    BY <1>1, <1>2, <1>3 DEF Greatest
  <1>5. s2 = s - n => FulfilledAmount' = s - f
    BY <1>1, <1>2, <1>3 DEF Greatest
  <1>6. s - f \in Nat
    BY <1>1
  <1> QED BY Zenon, <1>1, <1>4, <1>5, <1>6 DEF n, f, s, f2, s2

\* Every step keeps the promised rate of packets and of the receipt.
LEMMA RatesNext ==
    ASSUME SourceAmount * RateNum <= U64Max * RateDen,
           IInv, InFlightAccounting, Promised, RateFloor, [Next]_vars
    PROVE  Promised' /\ RateFloor'
  <1>1. TypeOK /\ Len(tasks) \in Nat
    BY Zenon, InFlightType DEF IInv
  <1>2. IInv' /\ RateDen \in Nat /\ RateNum \in Nat
    BY Zenon, NextIInv, SenderAssumption
  <1>3. ASSUME UNCHANGED receipt PROVE RateFloor'
    BY Zenon, <1>3 DEF RateFloor, FulfilledAmount
  <1>4. ASSUME Len(tasks') = Len(tasks),
               \A j \in 1..Len(tasks) : /\ tasks'[j].amount = tasks[j].amount
                                        /\ tasks'[j].min = tasks[j].min
        PROVE  Promised'
    BY Zenon, <1>4 DEF Promised
  <1>5. CASE UNCHANGED <<receipt, tasks>>
    BY Zenon, <1>3, <1>4, <1>5
  <1>6. CASE SendMoney
    <2>1. PICK a \in Nat :
              /\ InFlightAccounting'
              /\ receipt'.sent = receipt.sent + a
              /\ receipt'.inFlight = receipt.inFlight + a
              /\ receipt'.delivered = receipt.delivered
              /\ phase' = "loop"
              /\ Len(tasks') = Len(tasks) + 1
              /\ \A j \in 1..Len(tasks) : tasks'[j] = tasks[j]
              /\ tasks'[Len(tasks) + 1].amount = a
              /\ tasks'[Len(tasks) + 1].min = MinDestinationAmount(a)
      BY Zenon, <1>6, PreparedAmounts
    <2>2. FulfilledAmount' = FulfilledAmount
      BY <2>1, AccountsFind DEF FulfilledAmount, Greatest
    <2>3. Promised'
      BY <1>1, <2>1, PromiseMade DEF Promised
    <2> QED BY Zenon, <2>1, <2>2, <2>3 DEF RateFloor
  <1>7. ASSUME NEW i \in 1..Len(tasks), TakeResult(i) PROVE Promised' /\ RateFloor'
    <2>1. Moved(i, "consumed") /\ "consumed" \in Done /\ UNCHANGED receipt
      BY Zenon, <1>7 DEF TakeResult, Moved, Done, payment
    <2> QED BY Zenon, <1>1, <1>3, <1>4, <2>1, MovedTo
  <1>8. ASSUME NEW i \in 1..Len(tasks), SendPacket(i) PROVE Promised' /\ RateFloor'
    <2>1. Sent(i) /\ UNCHANGED receipt
      BY Zenon, <1>8 DEF SendPacket, Sent
    <2> QED BY Zenon, <1>1, <1>3, <1>4, <2>1, SentTo
  <1>9. ASSUME NEW i \in 1..Len(tasks), NEW readable \in BOOLEAN,
               NEW claimed \in tasks[i].min .. tasks[i].min + 1,
               OnFulfillReply(i, readable, claimed)
        PROVE  Promised' /\ RateFloor'
    <2> DEFINE a == tasks[i].amount
               n == tasks[i].min
               g == Greatest(tasks[i].min, IF readable THEN claimed ELSE 0)
               d == receipt.delivered
    <2>1. n \in Nat /\ a \in Nat /\ claimed \in Nat /\ d \in Nat
      BY ReplyFinds, U64Assumption DEF Receipt
    <2>2. /\ Answered(i) /\ receipt'.sent = receipt.sent
          /\ receipt'.delivered = Least(U64Max, d + g)
      BY Zenon, <1>9, <2>1, FulfilledAmounts
    <2>3. g \in Nat /\ n <= g
      BY <2>1 DEF Greatest
    <2>4. n * RateDen >= a * RateNum
      <3>1. n > 0
        BY Zenon, <1>9 DEF OnFulfillReply, Fulfillable
      <3>2. n = 0 \/ n * RateDen >= a * RateNum
        BY Zenon DEF Promised
      <3>3. n # 0
        BY <2>1, <3>1
      <3> QED BY Zenon, <3>2, <3>3
    <2>5. /\ FulfilledAmount \in Nat /\ FulfilledAmount' = FulfilledAmount + a
          /\ FulfilledAmount + a <= SourceAmount
      BY Zenon, <2>2, FulfilledBy
    <2>6. d * RateDen >= FulfilledAmount * RateNum
      BY Zenon DEF RateFloor
    <2>7. Promised'
      BY Zenon, <1>4, <2>2 DEF Answered
    <2> HIDE DEF a, n, g, d
    <2>8. Least(U64Max, d + g) * RateDen >= (FulfilledAmount + a) * RateNum
      BY Zenon, <2>1, <2>3, <2>4, <2>5, <2>6, FloorKept
    <2> QED BY Zenon, <2>2, <2>5, <2>7, <2>8 DEF RateFloor
  <1>10. ASSUME NEW i \in 1..Len(tasks), NEW reject \in Rejects, NEW readable \in BOOLEAN,
                OnRejectReply(i, reject, readable)
         PROVE  Promised' /\ RateFloor'
    <2>1. /\ Answered(i) /\ receipt'.sent = receipt.sent - tasks[i].amount
          /\ receipt'.delivered = receipt.delivered
      BY Zenon, <1>10, RejectedAmounts
    <2>2. FulfilledAmount' = FulfilledAmount
      BY Zenon, <2>1, FulfilledBy
    <2> QED BY Zenon, <1>4, <2>1, <2>2 DEF RateFloor, Answered
  <1>11. \/ UNCHANGED <<receipt, tasks>>
         \/ SendMoney
         \/ \E i \in 1..Len(tasks) : TakeResult(i) \/ SendPacket(i) \/ Reply(i)
    BY Zenon DEF Next, Loop, Timeout, FailFast, CloseConnection, MaxInFlight, WaitDeadline, Close,
           Elapse, payment, vars
  <1> QED BY Zenon, <1>5, <1>6, <1>7, <1>8, <1>9, <1>10, <1>11 DEF Reply

\* What send_money reports as delivered (client.rs) is worth what was fulfilled at the rate
\* it asked for, rounding included, provided the whole payment at that rate is a u64: a
\* packet sent without a minimum has a condition nobody can fulfill.
THEOREM RateFloorAlways ==
    ASSUME SourceAmount * RateNum <= U64Max * RateDen
    PROVE  Spec => []RateFloor
  <1>1. Init => Promised /\ RateFloor
    BY Zenon, RatesInit
  <1>2. IInv /\ Accounts /\ (Promised /\ RateFloor) /\ [Next]_vars => (Promised /\ RateFloor)'
    BY Zenon, RatesNext DEF Accounts
  <1> QED BY <1>1, <1>2, AccountsAlways, PTL DEF Spec

-----------------------------------------------------------------------------
\* The settlement endpoint.

Pc == {"check", "load", "push", "update", "save", "saveError", "done", "dead"}
Replies == {"none", "ok", "error"}

\* A call, of which the amounts it has loaded are left open: they are sums over
\* a list of any length.
CallWith(L, M) ==
    [input : Settlement, loaded : L, loss : M, update : Half, save : Half, reply : Replies, pc : Pc]

\* The types of what the answers depend on.
Shape ==
    /\ \E L, M : calls \in Seq(CallWith(L, M))
    /\ usedKeys \subseteq Key
    /\ saved \in [Key -> Saved]
    /\ faults \in [Fault -> Nat]

\* join_all goes on when both futures have ended, with a success if both have.
LEMMA Joined ==
    ASSUME NEW L, NEW M, NEW f \in CallWith(L, M)
    PROVE  /\ Join(f) \in CallWith(L, M)
           /\ Join(f).pc \in {f.pc, "save", "saveError"}
           /\ f.pc # "save" => (Join(f).pc = "save" => f.update = "ok")
           /\ Join(f).reply = f.reply /\ Join(f).update = f.update /\ Join(f).input = f.input
  BY Zenon DEF Join, CallWith, Half, Pc

\* One call is replaced.
LEMMA Updated ==
    ASSUME NEW L, NEW M, calls \in Seq(CallWith(L, M)), NEW K, NEW N,
           NEW i \in DOMAIN calls, NEW c \in CallWith(L \cup K, M \cup N),
           calls' = [calls EXCEPT ![i] = c]
    PROVE  /\ \E P, Q : calls' \in Seq(CallWith(P, Q))
           /\ DOMAIN calls' = DOMAIN calls
           /\ calls'[i] = c
           /\ \A j \in DOMAIN calls : j # i => calls'[j] = calls[j]
  <1> DEFINE B == CallWith(L \cup K, M \cup N)
  <1>1. CallWith(L, M) \subseteq B
    BY Zenon DEF CallWith
  <1> HIDE DEF B
  <1>2. calls \in Seq(B)
    BY Zenon, <1>1, SeqMonotonic
  <1>3. DOMAIN calls = 1..Len(calls)
    BY Zenon, LenProperties
  <1>4. calls' \in Seq(B)
    BY Zenon, <1>2, <1>3, ExceptSeq DEF B
  <1> QED BY Zenon, <1>4 DEF B

\* A call that has updated the balance, or is answered with success, has its key set.
CallInv(c) ==
    /\ c.reply = "ok" => c.input.key \in usedKeys
    /\ c.update = "ok" => c.input.key \in usedKeys
    /\ c.pc = "save" => c.update = "ok"

\* A success rests on a balance update that has set the key.
AnswerInv ==
    /\ \A k \in Key : saved[k].status = "ok" => k \in usedKeys
    /\ \A i \in DOMAIN calls : CallInv(calls[i])

\* While the engine waits for its answers, an open call is the only one of its
\* key, and once it has looked it up nothing is saved under it.
WaitingInv ==
    faults["overlap"] = 0 =>
        \A i \in Live : calls[i].input.key # NoKey =>
            /\ \A j \in Live : calls[j].input.key = calls[i].input.key => j = i
            /\ calls[i].pc # "check" => saved[calls[i].input.key].status = "none"

SettlementInv == Shape /\ AnswerInv /\ WaitingInv

\* A step of call i that saves no answer.
LEMMA CallMoves ==
    ASSUME SettlementInv, NEW L, NEW M, calls \in Seq(CallWith(L, M)), NEW K, NEW N,
           NEW i \in Live, NEW c \in CallWith(L \cup K, M \cup N),
           calls' = [calls EXCEPT ![i] = c], c.input = calls[i].input,
           usedKeys \subseteq usedKeys', usedKeys' \subseteq Key, UNCHANGED saved,
           faults' \in [Fault -> Nat], faults'["overlap"] = faults["overlap"],
           CallInv(c)',
           \/ c.pc \in {"check", "done", "dead"}
           \/ calls[i].pc # "check"
           \/ c.input.key = NoKey
           \/ saved[c.input.key].status = "none"
    PROVE  SettlementInv'
  <1>1. i \in DOMAIN calls /\ OpenCall(calls[i])
    BY Zenon DEF Live
  <1>2. /\ \E P, Q : calls' \in Seq(CallWith(P, Q))
        /\ DOMAIN calls' = DOMAIN calls
        /\ calls'[i] = c
        /\ \A j \in DOMAIN calls : j # i => calls'[j] = calls[j]
    BY Zenon, <1>1, Updated
  <1>3. Shape'
    BY Zenon, <1>2 DEF SettlementInv, Shape
  <1>4. AnswerInv'
    BY Zenon, <1>2 DEF SettlementInv, AnswerInv, CallInv
  <1>5. WaitingInv'
    <2>1. \A j \in Live' : j \in Live /\ calls'[j].input = calls[j].input
      BY Zenon, <1>1, <1>2 DEF Live, OpenCall
    <2> QED BY <1>1, <1>2, <2>1 DEF SettlementInv, WaitingInv, Live, OpenCall
  <1> QED BY Zenon, <1>3, <1>4, <1>5 DEF SettlementInv

\* The call and its key.
LEMMA CallType ==
    ASSUME Shape, NEW i \in Live
    PROVE  \E L, M :
               /\ calls \in Seq(CallWith(L, M))
               /\ calls[i] \in CallWith(L, M)
               /\ calls[i].input.key \in Key
  <1>1. PICK L, M : calls \in Seq(CallWith(L, M))
    BY Zenon DEF Shape
  <1>2. calls[i] \in CallWith(L, M)
    BY Zenon, <1>1, ElementOfSeq, LenProperties DEF Live
  <1>3. calls[i].input.key \in Key
    BY Zenon, <1>2 DEF CallWith, Key
  <1> QED BY Zenon, <1>1, <1>2, <1>3

\* What the actions do to calls.
UpdateEnds(i, h) == calls' = [calls EXCEPT ![i] = Join([@ EXCEPT !.update = h])]
SaveEnds(i, h) == calls' = [calls EXCEPT ![i] = Join([@ EXCEPT !.save = h])]
Loads(i, l, m, v) == calls' = [calls EXCEPT ![i] = [@ EXCEPT !.loaded = l, !.loss = m, !.pc = v]]

\* A call moves on.
LEMMA GotoCall ==
    ASSUME NEW L, NEW M, calls \in Seq(CallWith(L, M)), NEW i \in Live, NEW v \in Pc,
           Goto(i, v)
    PROVE  \E c \in CallWith(L, M) :
               /\ calls' = [calls EXCEPT ![i] = c] /\ c.input = calls[i].input
               /\ c.pc = v /\ c.reply = calls[i].reply /\ c.update = calls[i].update
  <1>1. PICK d \in CallWith(L, M) : d = calls[i]
    BY Zenon, ElementOfSeq, LenProperties DEF Live
  <1> DEFINE c == [d EXCEPT !.pc = v]
  <1>2. /\ c \in CallWith(L, M) /\ c.input = d.input
        /\ c.pc = v /\ c.reply = d.reply /\ c.update = d.update
    BY Zenon DEF CallWith
  <1>3. calls' = [calls EXCEPT ![i] = [calls[i] EXCEPT !.pc = v]]
    BY Zenon DEF Goto
  <1>4. calls' = [calls EXCEPT ![i] = c]
    BY Zenon, <1>1, <1>3
  <1> HIDE DEF c
  <1> QED BY Zenon, <1>1, <1>2, <1>4

\* A call is answered.
LEMMA AnswerCall ==
    ASSUME NEW L, NEW M, calls \in Seq(CallWith(L, M)), NEW i \in Live, NEW w \in Replies,
           Answer(i, w)
    PROVE  \E c \in CallWith(L, M) :
               /\ calls' = [calls EXCEPT ![i] = c] /\ c.input = calls[i].input
               /\ c.pc = "done" /\ c.reply = w /\ c.update = calls[i].update
  <1>1. PICK d \in CallWith(L, M) : d = calls[i]
    BY Zenon, ElementOfSeq, LenProperties DEF Live
  <1> DEFINE c == [d EXCEPT !.pc = "done", !.reply = w]
  <1>2. /\ c \in CallWith(L, M) /\ c.input = d.input
        /\ c.pc = "done" /\ c.reply = w /\ c.update = d.update
    BY Zenon DEF CallWith, Pc
  <1>3. calls' = [calls EXCEPT ![i] = [calls[i] EXCEPT !.pc = "done", !.reply = w]]
    BY Zenon DEF Answer
  <1>4. calls' = [calls EXCEPT ![i] = c]
    BY Zenon, <1>1, <1>3
  <1> HIDE DEF c
  <1> QED BY Zenon, <1>1, <1>2, <1>4

\* One future of join_all has ended.
LEMMA UpdateCall ==
    ASSUME NEW L, NEW M, calls \in Seq(CallWith(L, M)), NEW i \in Live, NEW h \in {"ok", "error"},
           UpdateEnds(i, h)
    PROVE  \E c \in CallWith(L, M) :
               /\ calls' = [calls EXCEPT ![i] = c] /\ c.input = calls[i].input
               /\ c.reply = calls[i].reply /\ c.update = h
               /\ c.pc \in {calls[i].pc, "save", "saveError"}
               /\ calls[i].pc # "save" => (c.pc = "save" => h = "ok")
  <1>1. PICK d \in CallWith(L, M) : d = calls[i]
    BY Zenon, ElementOfSeq, LenProperties DEF Live
  <1> DEFINE e == [d EXCEPT !.update = h]
             c == Join(e)
  <1>2. /\ e \in CallWith(L, M) /\ e.input = d.input /\ e.reply = d.reply /\ e.pc = d.pc
        /\ e.update = h /\ e.save = d.save
    BY Zenon DEF CallWith, Half
  <1> HIDE DEF e
  <1>3. /\ c \in CallWith(L, M) /\ c.input = d.input
        /\ c.reply = d.reply /\ c.update = h
        /\ c.pc \in {d.pc, "save", "saveError"}
        /\ d.pc # "save" => (c.pc = "save" => h = "ok")
    BY Zenon, <1>2, Joined
  <1>4. calls' = [calls EXCEPT ![i] = Join([calls[i] EXCEPT !.update = h])]
    BY Zenon DEF UpdateEnds
  <1>5. calls' = [calls EXCEPT ![i] = c]
    BY Zenon, <1>1, <1>4 DEF e
  <1> HIDE DEF c
  <1> QED BY Zenon, <1>1, <1>3, <1>5

\* The other one has.
LEMMA SaveCall ==
    ASSUME NEW L, NEW M, calls \in Seq(CallWith(L, M)), NEW i \in Live, NEW h \in {"ok", "error"},
           SaveEnds(i, h)
    PROVE  \E c \in CallWith(L, M) :
               /\ calls' = [calls EXCEPT ![i] = c] /\ c.input = calls[i].input
               /\ c.reply = calls[i].reply /\ c.update = calls[i].update
               /\ c.pc \in {calls[i].pc, "save", "saveError"}
               /\ calls[i].pc # "save" => (c.pc = "save" => calls[i].update = "ok")
  <1>1. PICK d \in CallWith(L, M) : d = calls[i]
    BY Zenon, ElementOfSeq, LenProperties DEF Live
  <1> DEFINE e == [d EXCEPT !.save = h]
             c == Join(e)
  <1>2. /\ e \in CallWith(L, M) /\ e.input = d.input /\ e.reply = d.reply /\ e.pc = d.pc
        /\ e.save = h /\ e.update = d.update
    BY Zenon DEF CallWith, Half
  <1> HIDE DEF e
  <1>3. /\ c \in CallWith(L, M) /\ c.input = d.input
        /\ c.reply = d.reply /\ c.update = d.update
        /\ c.pc \in {d.pc, "save", "saveError"}
        /\ d.pc # "save" => (c.pc = "save" => d.update = "ok")
    BY <1>2, Joined
  <1>4. calls' = [calls EXCEPT ![i] = Join([calls[i] EXCEPT !.save = h])]
    BY Zenon DEF SaveEnds
  <1>5. calls' = [calls EXCEPT ![i] = c]
    BY Zenon, <1>1, <1>4 DEF e
  <1> HIDE DEF c
  <1> QED BY Zenon, <1>1, <1>3, <1>5

\* A call has loaded the leftovers.
LEMMA LoadCall ==
    ASSUME NEW L, NEW M, calls \in Seq(CallWith(L, M)), NEW i \in Live, NEW l, NEW m, NEW v \in Pc,
           Loads(i, l, m, v)
    PROVE  \E c \in CallWith(L \cup {l}, M \cup {m}) :
               /\ calls' = [calls EXCEPT ![i] = c] /\ c.input = calls[i].input
               /\ c.pc = v /\ c.reply = calls[i].reply /\ c.update = calls[i].update
  <1>1. PICK d \in CallWith(L, M) : d = calls[i]
    BY Zenon, ElementOfSeq, LenProperties DEF Live
  <1> DEFINE c == [d EXCEPT !.loaded = l, !.loss = m, !.pc = v]
  <1>2. /\ c \in CallWith(L \cup {l}, M \cup {m}) /\ c.input = d.input
        /\ c.pc = v /\ c.reply = d.reply /\ c.update = d.update
    BY Zenon DEF CallWith
  <1>3. calls' = [calls EXCEPT ![i] = [calls[i] EXCEPT !.loaded = l, !.loss = m, !.pc = v]]
    BY Zenon DEF Loads
  <1>4. calls' = [calls EXCEPT ![i] = c]
    BY Zenon, <1>1, <1>3
  <1> HIDE DEF c
  <1> QED BY Zenon, <1>1, <1>2, <1>4


\* A fault other than an overlap is counted.
LEMMA HappensType ==
    ASSUME Shape, NEW f \in {"crash", "store"}, NEW max, Happens(f, max)
    PROVE  faults' \in [Fault -> Nat] /\ faults'["overlap"] = faults["overlap"]
  BY DEF Shape, Happens, Fault

\* A call that moves on or is answered, with nothing else changed but a fault.
LEMMA Moves ==
    ASSUME SettlementInv, NEW i \in Live, UNCHANGED <<usedKeys, saved>>,
           faults' \in [Fault -> Nat], faults'["overlap"] = faults["overlap"],
           \/ /\ \E v \in Pc \ {"save"} : Goto(i, v)
              /\ \/ calls[i].pc # "check"
                 \/ calls[i].input.key = NoKey
                 \/ saved[calls[i].input.key].status = "none"
           \/ \E w \in Replies : Answer(i, w) /\ (w = "ok" => calls[i].input.key \in usedKeys)
    PROVE  SettlementInv'
  <1>1. PICK L, M : calls \in Seq(CallWith(L, M)) /\ calls[i] \in CallWith(L, M)
    BY Zenon, CallType DEF SettlementInv
  <1>2. CallInv(calls[i]) /\ usedKeys \subseteq Key
    BY Zenon DEF SettlementInv, AnswerInv, Shape, Live
  <1>3. CASE \E v \in Pc \ {"save"} : Goto(i, v) /\
              (calls[i].pc # "check" \/ calls[i].input.key = NoKey
                 \/ saved[calls[i].input.key].status = "none")
    <2>1. PICK v \in Pc \ {"save"} : Goto(i, v)
      BY Zenon, <1>3
    <2>2. PICK c \in CallWith(L, M) :
               /\ calls' = [calls EXCEPT ![i] = c] /\ c.input = calls[i].input
               /\ c.pc = v /\ c.reply = calls[i].reply /\ c.update = calls[i].update
      BY <1>1, <2>1, GotoCall
    <2>3. c \in CallWith(L \cup {}, M \cup {})
      BY Zenon
    <2>4. CallInv(c)'
      BY Zenon, <1>2, <2>2 DEF CallInv
    <2> QED BY Zenon, <1>1, <1>2, <1>3, <2>2, <2>3, <2>4, CallMoves
  <1>4. CASE \E w \in Replies : Answer(i, w) /\ (w = "ok" => calls[i].input.key \in usedKeys)
    <2>1. PICK w \in Replies : Answer(i, w) /\ (w = "ok" => calls[i].input.key \in usedKeys)
      BY Zenon, <1>4
    <2>2. PICK c \in CallWith(L, M) :
               /\ calls' = [calls EXCEPT ![i] = c] /\ c.input = calls[i].input
               /\ c.pc = "done" /\ c.reply = w /\ c.update = calls[i].update
      BY <1>1, <2>1, AnswerCall
    <2>3. c \in CallWith(L \cup {}, M \cup {})
      BY Zenon
    <2>4. CallInv(c)'
      BY Zenon, <1>2, <2>1, <2>2 DEF CallInv
    <2> QED BY Zenon, <1>1, <1>2, <2>2, <2>3, <2>4, CallMoves
  <1> QED BY Zenon, <1>3, <1>4

\* One of the two futures ends, as update_balance_for_incoming_settlement may
\* do when the key is set.
LEMMA Ends ==
    ASSUME SettlementInv, NEW i \in Live, UNCHANGED saved, calls[i].pc = "update",
           usedKeys \subseteq usedKeys', usedKeys' \subseteq Key,
           faults' \in [Fault -> Nat], faults'["overlap"] = faults["overlap"],
           NEW h \in {"ok", "error"},
           \/ UpdateEnds(i, h) /\ (h = "ok" => calls[i].input.key \in usedKeys')
           \/ SaveEnds(i, h)
    PROVE  SettlementInv'
  <1>1. PICK L, M : calls \in Seq(CallWith(L, M)) /\ calls[i] \in CallWith(L, M)
    BY Zenon, CallType DEF SettlementInv
  <1>2. CallInv(calls[i])
    BY Zenon DEF SettlementInv, AnswerInv, Live
  <1>3. PICK c \in CallWith(L, M) :
               /\ calls' = [calls EXCEPT ![i] = c] /\ c.input = calls[i].input
               /\ c.reply = calls[i].reply
               /\ c.update = "ok" => calls[i].input.key \in usedKeys'
               /\ c.pc \in {calls[i].pc, "save", "saveError"}
               /\ c.pc = "save" => c.update = "ok"
    <2>1. CASE UpdateEnds(i, h) /\ (h = "ok" => calls[i].input.key \in usedKeys')
      BY <1>1, <2>1, UpdateCall
    <2>2. CASE SaveEnds(i, h)
      BY <1>1, <1>2, <2>2, SaveCall DEF CallInv
    <2> QED BY Zenon, <2>1, <2>2
  <1>4. c \in CallWith(L \cup {}, M \cup {})
    BY Zenon
  <1>5. CallInv(c)'
    BY Zenon, <1>2, <1>3 DEF CallInv
  <1> QED BY Zenon, <1>1, <1>3, <1>4, <1>5, CallMoves

\* The leftovers are taken out of the store.
LEMMA LoadStep ==
    ASSUME SettlementInv, NEW i \in DOMAIN calls, Load(i)
    PROVE  SettlementInv'
  <1>1. i \in Live /\ calls[i].pc = "load"
    BY Zenon DEF Load, At
  <1>2. PICK L, M : calls \in Seq(CallWith(L, M)) /\ calls[i] \in CallWith(L, M)
    BY Zenon, <1>1, CallType DEF SettlementInv
  <1>3. CallInv(calls[i]) /\ UNCHANGED <<usedKeys, saved, faults>>
        /\ usedKeys \subseteq Key /\ faults \in [Fault -> Nat]
    BY Zenon DEF SettlementInv, AnswerInv, Shape, Load
  <1>4. PICK l, m : \E v \in {"push", "update"} : Loads(i, l, m, v)
    BY Zenon DEF Load, Loads
  <1>5. PICK v \in {"push", "update"} : Loads(i, l, m, v)
    BY Zenon, <1>4
  <1>6. PICK c \in CallWith(L \cup {l}, M \cup {m}) :
               /\ calls' = [calls EXCEPT ![i] = c] /\ c.input = calls[i].input
               /\ c.pc = v /\ c.reply = calls[i].reply /\ c.update = calls[i].update
    <2>1. v \in Pc
      BY Zenon DEF Pc
    <2> QED BY <1>1, <1>2, <1>5, <2>1, LoadCall
  <1>7. CallInv(c)'
    BY Zenon, <1>3, <1>6 DEF CallInv
  <1> QED BY Zenon, <1>1, <1>2, <1>3, <1>6, <1>7, CallMoves

\* The steps of a call that save no answer.
LEMMA CallStepInv ==
    ASSUME SettlementInv, NEW i \in DOMAIN calls,
           Check(i) \/ Push(i) \/ UpdateBalance(i) \/ Panic(i) \/ SaveLeftover(i) \/ StoreFails(i)
    PROVE  SettlementInv'
  <1>1. i \in Live
    BY Zenon DEF Check, Push, UpdateBalance, Panic, SaveLeftover, StoreFails, At
  <1> DEFINE k == calls[i].input.key
  <1>2. k \in Key /\ usedKeys \subseteq Key /\ faults \in [Fault -> Nat] /\ Shape
    BY Zenon, <1>1, CallType DEF SettlementInv, Shape
  <1>3. CASE Check(i)
    <2>1. CASE k = NoKey \/ saved[k].status = "none"
      <3>1. Goto(i, "load") /\ UNCHANGED <<usedKeys, saved, faults>>
        BY Zenon, <1>3, <2>1 DEF Check
      <3>2. "load" \in Pc \ {"save"}
        BY Zenon DEF Pc
      <3> QED BY Zenon, <1>1, <1>2, <2>1, <3>1, <3>2, Moves
    <2>2. CASE ~(k = NoKey \/ saved[k].status = "none")
      <3>1. saved[k].status \in Replies /\ (saved[k].status = "ok" => k \in usedKeys)
        BY Zenon, <1>2 DEF SettlementInv, AnswerInv, Shape, Saved, Replies
      <3>2. Answer(i, saved[k].status) \/ Answer(i, "error")
        BY Zenon, <1>3, <2>2 DEF Check
      <3>3. UNCHANGED <<usedKeys, saved, faults>>
        BY Zenon, <1>3 DEF Check
      <3>4. \E w \in Replies : Answer(i, w) /\ (w = "ok" => k \in usedKeys)
        BY Zenon, <3>1, <3>2 DEF Replies
      <3> QED BY Zenon, <1>1, <1>2, <3>3, <3>4, Moves
    <2> QED BY Zenon, <2>1, <2>2
  <1>4. CASE Push(i) \/ Panic(i)
    <2>1. \E v \in Pc \ {"save"} : Goto(i, v)
      BY Zenon, <1>4 DEF Push, Panic, Pc
    <2>2. calls[i].pc # "check" /\ UNCHANGED <<usedKeys, saved, faults>>
      BY Zenon, <1>4 DEF Push, Panic, At
    <2> QED BY Zenon, <1>1, <1>2, <2>1, <2>2, Moves
  <1>5. CASE UpdateBalance(i)
    <2>1. /\ UNCHANGED <<saved, faults>> /\ calls[i].pc = "update"
          /\ usedKeys' = usedKeys \cup {k}
      BY Zenon, <1>5 DEF UpdateBalance, At
    <2>2. UpdateEnds(i, "ok")
      BY Zenon, <1>5 DEF UpdateBalance, UpdateEnds
    <2> QED BY Zenon, <1>1, <1>2, <2>1, <2>2, Ends
  <1>6. CASE SaveLeftover(i)
    <2>1. UNCHANGED <<usedKeys, saved, faults>> /\ calls[i].pc = "update"
      BY Zenon, <1>6 DEF SaveLeftover, At
    <2>2. SaveEnds(i, "ok")
      BY Zenon, <1>6 DEF SaveLeftover, SaveEnds
    <2> QED BY Zenon, <1>1, <1>2, <2>1, <2>2, Ends
  <1>7. CASE StoreFails(i)
    <2>1. /\ UNCHANGED <<usedKeys, saved>>
          /\ faults' \in [Fault -> Nat] /\ faults'["overlap"] = faults["overlap"]
      BY Zenon, <1>2, <1>7, HappensType DEF StoreFails
    <2>2. CASE Answer(i, "error")
      <3>1. \E w \in Replies : Answer(i, w) /\ (w = "ok" => k \in usedKeys)
        BY Zenon, <2>2 DEF Replies
      <3> QED BY Zenon, <1>1, <2>1, <3>1, Moves
    <2>3. CASE calls[i].pc \in {"load", "push"} /\ Goto(i, "saveError")
      <3>1. \E v \in Pc \ {"save"} : Goto(i, v)
        BY Zenon, <2>3 DEF Pc
      <3> QED BY Zenon, <1>1, <2>1, <2>3, <3>1, Moves
    <2>4. CASE calls[i].pc = "update" /\ UpdateEnds(i, "error")
      BY Zenon, <1>1, <1>2, <2>1, <2>4, Ends
    <2>5. CASE calls[i].pc = "update" /\ SaveEnds(i, "error")
      BY Zenon, <1>1, <1>2, <2>1, <2>5, Ends
    <2> QED BY Zenon, <1>7, <2>2, <2>3, <2>4, <2>5 DEF StoreFails, UpdateEnds, SaveEnds
  <1> QED BY Zenon, <1>3, <1>4, <1>5, <1>6, <1>7

\* An answer is saved and given: nothing that waits for its own has the key.
LEMMA SaveResponseInv ==
    ASSUME SettlementInv, NEW i \in DOMAIN calls, NEW status \in {"ok", "error"}, SaveResponse(i, status)
    PROVE  SettlementInv'
  <1>1. i \in Live /\ calls[i].pc = (IF status = "ok" THEN "save" ELSE "saveError")
    BY Zenon DEF SaveResponse, At
  <1> DEFINE k == calls[i].input.key
  <1>2. PICK L, M : /\ calls \in Seq(CallWith(L, M))
                    /\ calls[i] \in CallWith(L, M)
                    /\ k \in Key
    BY Zenon, <1>1, CallType DEF SettlementInv
  <1>3. calls[i].input \in Settlement
    BY Zenon, <1>2 DEF CallWith
  <1>4. CallInv(calls[i]) /\ UNCHANGED <<usedKeys, faults>>
    BY Zenon DEF SettlementInv, AnswerInv, SaveResponse
  <1>5. status = "ok" => k \in usedKeys
    BY Zenon, <1>1, <1>4 DEF CallInv
  <1>6. PICK c \in CallWith(L, M) :
               /\ calls' = [calls EXCEPT ![i] = c] /\ c.input = calls[i].input
               /\ c.pc = "done" /\ c.reply = status /\ c.update = calls[i].update
    BY <1>1, <1>2, AnswerCall DEF SaveResponse, Replies
  <1>7. c \in CallWith(L \cup {}, M \cup {})
    BY Zenon
  <1>8. /\ \E P, Q : calls' \in Seq(CallWith(P, Q))
        /\ DOMAIN calls' = DOMAIN calls
        /\ calls'[i] = c
        /\ \A j \in DOMAIN calls : j # i => calls'[j] = calls[j]
    BY Zenon, <1>2, <1>6, <1>7, Updated
  <1>9. /\ saved' \in [Key -> Saved]
        /\ saved'[k].status \in {saved[k].status, status}
        /\ \A x \in Key : x # k => saved'[x] = saved[x]
        /\ k = NoKey => saved' = saved
    <2>1. [status |-> status, input |-> calls[i].input] \in Saved
      BY Zenon, <1>3 DEF Saved
    <2> QED BY Zenon, <1>2, <2>1 DEF SaveResponse, SettlementInv, Shape
  <1>10. Shape'
    BY Zenon, <1>4, <1>8, <1>9 DEF SettlementInv, Shape
  <1>11. AnswerInv'
    <2>1. CallInv(c)'
      BY Zenon, <1>4, <1>5, <1>6 DEF CallInv
    <2>2. \A x \in Key : saved'[x].status = "ok" => x \in usedKeys'
      BY Zenon, <1>2, <1>4, <1>5, <1>9 DEF SettlementInv, AnswerInv
    <2> QED BY Zenon, <1>4, <1>8, <2>1, <2>2 DEF SettlementInv, AnswerInv, CallInv
  <1>12. WaitingInv'
    <2>1. \A j \in Live' : j \in Live /\ j # i /\ calls'[j] = calls[j]
      BY Zenon, <1>6, <1>8 DEF Live, OpenCall
    <2>2. \A j \in Live : calls[j].input.key \in Key
      BY Zenon, CallType DEF SettlementInv
    <2> QED BY <1>1, <1>4, <1>9, <2>1, <2>2 DEF SettlementInv, WaitingInv
  <1> QED BY Zenon, <1>10, <1>11, <1>12 DEF SettlementInv

\* The engine posts a settlement; if a call of its key is open, that counts as
\* an overlap.
LEMMA SendInv ==
    ASSUME SettlementInv, NEW s \in Settlement, Send(s)
    PROVE  SettlementInv'
  <1> DEFINE zero == [num |-> 0, scale |-> 0]
             c == [input |-> s, loaded |-> 0, loss |-> zero, update |-> "todo",
                   save |-> "todo", reply |-> "none", pc |-> "check"]
  <1>1. PICK L, M : calls \in Seq(CallWith(L, M))
    BY Zenon DEF SettlementInv, Shape
  <1> DEFINE B == CallWith(L \cup {0}, M \cup {zero})
  <1>2. c \in B /\ CallWith(L, M) \subseteq B
    BY Zenon DEF CallWith, Half, Replies, Pc
  <1>3. c.input = s /\ c.update = "todo" /\ c.reply = "none" /\ c.pc = "check"
    BY Zenon
  <1>4. calls' = Append(calls, c) /\ UNCHANGED <<usedKeys, saved>>
    BY Zenon DEF Send
  <1> HIDE DEF c, B, zero
  <1>5. calls \in Seq(B)
    BY Zenon, <1>1, <1>2, SeqMonotonic
  <1>6. /\ calls' \in Seq(B) /\ Len(calls) \in Nat
        /\ DOMAIN calls = 1..Len(calls) /\ DOMAIN calls' = 1..(Len(calls) + 1)
        /\ calls'[Len(calls) + 1] = c
        /\ \A j \in DOMAIN calls : calls'[j] = calls[j]
    BY <1>2, <1>4, <1>5, AppendProperties, LenProperties
  <1>7. /\ faults' \in [Fault -> Nat]
        /\ faults'["overlap"] = 0 => faults["overlap"] = 0
        /\ faults'["overlap"] = 0 /\ s.key # NoKey => \A j \in Live : calls[j].input.key # s.key
    BY DEF Send, Happens, SettlementInv, Shape, Fault
  <1>8. Shape'
    BY Zenon, <1>4, <1>6, <1>7 DEF SettlementInv, Shape, B
  <1>9. AnswerInv'
    BY <1>3, <1>4, <1>6 DEF SettlementInv, AnswerInv, CallInv
  <1>10. WaitingInv'
    <2>1. \A j \in Live' : j = Len(calls) + 1 \/ (j \in Live /\ calls'[j] = calls[j])
      BY <1>6 DEF Live
    <2> SUFFICES ASSUME faults'["overlap"] = 0, NEW i \in Live', calls'[i].input.key # NoKey
                 PROVE  /\ \A j \in Live' : calls'[j].input.key = calls'[i].input.key => j = i
                        /\ calls'[i].pc # "check" =>
                             saved'[calls'[i].input.key].status = "none"
      BY Zenon DEF WaitingInv
    <2>2. CASE i = Len(calls) + 1
      BY Zenon, <1>3, <1>6, <1>7, <2>1, <2>2
    <2>3. CASE i \in Live /\ calls'[i] = calls[i]
      <3>1. /\ \A j \in Live : calls[j].input.key = calls[i].input.key => j = i
            /\ calls[i].pc # "check" => saved[calls[i].input.key].status = "none"
        BY Zenon, <1>7, <2>3 DEF SettlementInv, WaitingInv
      <3>2. calls'[Len(calls) + 1].input.key # calls'[i].input.key
        BY Zenon, <1>3, <1>6, <1>7, <2>3
      <3> QED BY Zenon, <1>4, <2>1, <2>3, <3>1, <3>2
    <2> QED BY Zenon, <2>1, <2>2, <2>3
  <1> QED BY Zenon, <1>8, <1>9, <1>10 DEF SettlementInv

\* A crash ends all open calls.
LEMMA CrashInv ==
    ASSUME SettlementInv, Crash
    PROVE  SettlementInv'
  <1>1. PICK L, M : calls \in Seq(CallWith(L, M))
    BY Zenon DEF SettlementInv, Shape
  <1>2. DOMAIN calls = 1..Len(calls) /\ Len(calls) \in Nat
    BY Zenon, <1>1, LenProperties
  <1>3. DOMAIN calls' = DOMAIN calls /\ UNCHANGED <<usedKeys, saved>>
    BY Zenon DEF Crash
  <1>4. ASSUME NEW i \in DOMAIN calls
        PROVE  /\ calls'[i] \in CallWith(L, M) /\ ~OpenCall(calls'[i])
               /\ CallInv(calls[i]) => CallInv(calls[i])'
    <2>1. PICK d \in CallWith(L, M) : d = calls[i]
      BY Zenon, <1>1, <1>2, ElementOfSeq
    <2>2. CASE OpenCall(calls[i])
      <3> DEFINE c == [d EXCEPT !.pc = "dead"]
      <3>1. /\ c \in CallWith(L, M) /\ c.pc = "dead" /\ c.reply = d.reply
            /\ c.update = d.update /\ c.input = d.input
        BY Zenon DEF CallWith, Pc
      <3>2. calls'[i] = [calls[i] EXCEPT !.pc = "dead"]
        BY Zenon, <1>4, <2>2 DEF Crash
      <3>3. calls'[i] = c
        BY Zenon, <2>1, <3>2
      <3> HIDE DEF c
      <3> QED BY Zenon, <1>3, <2>1, <3>1, <3>3 DEF OpenCall, CallInv
    <2>3. CASE ~OpenCall(calls[i])
      <3>1. calls'[i] = calls[i]
        BY Zenon, <1>4, <2>3 DEF Crash
      <3> QED BY Zenon, <1>3, <2>1, <2>3, <3>1 DEF CallInv
    <2> QED BY Zenon, <2>2, <2>3
  <1>5. calls' \in Seq(CallWith(L, M))
    <2>1. calls' \in [1..Len(calls) -> CallWith(L, M)]
      BY Zenon, <1>2, <1>3, <1>4 DEF Crash
    <2> QED BY <1>2, <2>1
  <1>6. faults' \in [Fault -> Nat]
    BY Zenon, HappensType DEF Crash, SettlementInv
  <1>7. Shape'
    BY Zenon, <1>3, <1>5, <1>6 DEF SettlementInv, Shape
  <1>8. AnswerInv'
    BY Zenon, <1>3, <1>4 DEF SettlementInv, AnswerInv
  <1>9. WaitingInv'
    BY Zenon, <1>3, <1>4 DEF WaitingInv, Live
  <1> QED BY Zenon, <1>7, <1>8, <1>9 DEF SettlementInv

\* A node that has heard of no settlement.
LEMMA InitInv == SettlementInit => SettlementInv
  <1> SUFFICES ASSUME SettlementInit PROVE SettlementInv
    BY Zenon
  <1>1. calls \in Seq(CallWith({}, {})) /\ DOMAIN calls = {}
    BY DEF SettlementInit
  <1>2. saved \in [Key -> Saved]
    <2>1. ASSUME NEW k \in Key PROVE saved[k] \in Saved /\ saved[k].status = "none"
      <3>1. (CHOOSE s \in Settlement : TRUE) \in Settlement
        BY Zenon DEF Key
      <3> QED BY Zenon, <3>1 DEF SettlementInit, Saved
    <2> QED BY Zenon, <2>1 DEF SettlementInit
  <1>3. \A k \in Key : saved[k].status = "none"
    BY Zenon DEF SettlementInit
  <1>4. usedKeys = {} /\ faults \in [Fault -> Nat]
    BY Zenon DEF SettlementInit
  <1> QED BY Zenon, <1>1, <1>2, <1>3, <1>4 DEF SettlementInv, Shape, AnswerInv, WaitingInv, Live

\* Every step preserves the invariant.
LEMMA NextInv == SettlementInv /\ [SettlementNext]_settlementVars => SettlementInv'
  <1> SUFFICES ASSUME SettlementInv, [SettlementNext]_settlementVars PROVE SettlementInv'
    BY Zenon
  <1>1. ASSUME NEW i \in DOMAIN calls, CallStep(i) PROVE SettlementInv'
    BY Zenon, <1>1, CallStepInv, LoadStep, SaveResponseInv DEF CallStep
  <1>2. CASE UNCHANGED settlementVars
    BY Zenon, <1>2 DEF settlementVars, SettlementInv, Shape, AnswerInv, CallInv, WaitingInv, Live
  <1> QED BY Zenon, <1>1, <1>2, SendInv, CrashInv DEF SettlementNext

\* SettlementInv is an invariant of the endpoint.
THEOREM Invariance == SettlementSpec => []SettlementInv
  BY InitInv, NextInv, PTL DEF SettlementSpec

\* For any settlements, overlaps, retries, failures and crashes, a call answered
\* with success has its settlement credited.
THEOREM SuccessMeansCreditedAlways == SettlementSpec => []SuccessMeansCredited
  <1>1. SettlementInv => SuccessMeansCredited
    BY Zenon DEF SettlementInv, AnswerInv, CallInv, SuccessMeansCredited
  <1> QED BY <1>1, Invariance, PTL

\* As long as the engine waits for its answers, no saved success is replaced.
THEOREM SuccessIsFinalAlways == SettlementSpec => SuccessIsFinal
  <1> DEFINE Final == faults["overlap"] = 0 =>
                \A k \in Key : saved[k].status = "ok" => saved'[k].status = "ok"
  <1>1. SettlementInv /\ [SettlementNext]_settlementVars => [Final]_settlementVars
    <2> SUFFICES ASSUME SettlementInv, SettlementNext PROVE Final
      BY Zenon
    <2>1. CASE UNCHANGED saved
      BY Zenon, <2>1
    <2>2. ASSUME NEW i \in DOMAIN calls, NEW status \in {"ok", "error"}, SaveResponse(i, status)
          PROVE  Final
      <3>1. i \in Live /\ calls[i].pc # "check"
        BY Zenon, <2>2 DEF SaveResponse, At
      <3>2. calls[i].input.key \in Key
        BY Zenon, <3>1, CallType DEF SettlementInv
      <3>3. saved \in [Key -> Saved]
        BY Zenon DEF SettlementInv, Shape
      <3> QED BY Zenon, <2>2, <3>1, <3>2, <3>3 DEF SaveResponse, SettlementInv, WaitingInv
    <2>3. UNCHANGED saved \/ \E i \in DOMAIN calls, status \in {"ok", "error"} : SaveResponse(i, status)
      BY Zenon DEF SettlementNext, CallStep, Send, Crash, Check, Load, Push, UpdateBalance, Panic,
            SaveLeftover,
             StoreFails
    <2> QED BY Zenon, <2>1, <2>2, <2>3
  <1> QED BY <1>1, Invariance, PTL DEF SettlementSpec, SuccessIsFinal
=============================================================================
