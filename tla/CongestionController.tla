------------------------ MODULE CongestionController ------------------------
(***************************************************************************)
(* The STREAM sender's AIMD congestion controller                          *)
(* (interledger-stream/src/congestion.rs) as functions on its record.      *)
(* Amounts are u64; the release build the scripts make wraps on overflow.  *)
(***************************************************************************)
EXTENDS Integers

CONSTANT U64Max   \* u64::max_value()

ASSUME U64Assumption == U64Max \in Nat \ {0}

None == -1        \* max_packet_amount before any F08 was seen
Wrap(n) == n % (U64Max + 1)
Least(a, b) == IF a <= b THEN a ELSE b
Greatest(a, b) == IF a >= b THEN a ELSE b

Controller == [state : {"SlowStart", "AvoidCongestion"}, increase : 0..U64Max,
               maxPacket : {None} \union 0..U64Max,
               inFlight : 0..U64Max, maxInFlight : 0..U64Max]

\* CongestionController::new; decrease_factor is 2.0 at its only call site.
New(start, increase) ==
    [state |-> "SlowStart", increase |-> increase, maxPacket |-> None,
     inFlight |-> 0, maxInFlight |-> start]

MaxPacketAmount(c) == IF c.maxPacket = None THEN U64Max ELSE c.maxPacket

AmountLeftInWindow(c) == Greatest(c.maxInFlight - c.inFlight, 0)

OnPrepare(c, amount) == [c EXCEPT !.inFlight = Wrap(@ + amount)]

OnFulfill(c, amount) ==
    [c EXCEPT !.inFlight = Wrap(@ - amount),
              !.maxInFlight = Least(U64Max, IF c.state = "SlowStart" THEN 2 * @
                                                                     ELSE @ + c.increase)]

\* Halving the window without the floor of 1.
ReducedWindowToZero(c) == c.maxInFlight \div 2

\* T04: the window is divided by the decrease factor but never closes.
ReducedWindow(c) == Greatest(c.maxInFlight \div 2, 1)

\* F08 with details: scale the packet to the node that found it too large.
NewMaxPacketAmount(amount, details) == Wrap(amount * details.max) \div details.received

\* A reject that gives nothing back to the window.
OnRejectLeaks(c, amount, reject) == c

OnReject(c, amount, reject) ==
    LET d == [c EXCEPT !.inFlight = Wrap(@ - amount)]
        proposed == NewMaxPacketAmount(amount, reject)
    IN  CASE reject.code = "T04" ->
                 [d EXCEPT !.state = "AvoidCongestion", !.maxInFlight = ReducedWindow(c)]
          [] reject.code = "F08" /\ reject.received > 0 ->
                 [d EXCEPT !.maxPacket = IF @ = None THEN proposed ELSE Least(@, proposed)]
          [] reject.code = "F08" /\ reject.received = 0 ->
                 [d EXCEPT !.maxPacket = IF @ = None THEN None ELSE @ \div 2]
          [] OTHER -> d
=============================================================================
