-------------------------- MODULE MCBalanceService --------------------------
(* Small instances of BalanceService. *)
EXTENDS BalanceService, TLC

CONSTANTS alice, bob

\* alice sends through the node to bob, and now and then bob to alice.
Accounts == {alice, bob}
OnlyBob == {bob}
Minimum == [a \in Accounts |-> IF a = alice THEN -4 ELSE -2]
Threshold == [a \in Accounts |-> 3]
To == [a \in Accounts |-> 1]
ToZero == [a \in Accounts |-> 0]

Pkt(f, t, i, o) == [from |-> f, to |-> t, incoming |-> i, outgoing |-> o]
BothWays == {Pkt(alice, bob, 2, 2), Pkt(bob, alice, 2, 1)}
OneWay == {Pkt(alice, bob, 1, 0), Pkt(alice, bob, 1, 1), Pkt(alice, bob, 3, 3)}

\* settle_every: an account above settle_to is brought down to it, by its
\* timeout if not by the threshold ("the peering accounts will be settled
\* after this many seconds after the first fulfill packet").
EventuallySettled ==
    \A a \in Account :
        accounts[a].balance > SettleTo[a] ~> accounts[a].balance <= SettleTo[a]
=============================================================================
