-------------------------- MODULE MCReceiverPayout --------------------------
(***************************************************************************)
(* ReceiverPayout on small instances.  Destinations are the addresses an   *)
(* SPSP server of the receiver issues: an account address followed by a    *)
(* fresh stream token; "wallet" records whose account it was.              *)
(***************************************************************************)
EXTENDS ReceiverPayout

CONSTANTS zero, vault, deployer, operator

MCAddress == {zero, vault, deployer, operator, "0xuser", "0xhost"}
MCChainSegment == {"31337", "1"}
MCRecipientSegment == {"0xuser", "0xhost", "0xnothex"}

\* The chain takes every amount and id the packets have.
MCAmount == {p.amount : p \in Prepare}
MCPaymentId == {IdOf(p) : p \in Prepare}

EthAddress(token) == <<"test", "receiver", "eth", "31337", "EURC", "0xuser", token>>

Packet(destination, sequence, amount, minAmount) ==
    [destination |-> destination, sequence |-> sequence, amount |-> amount,
     minAmount |-> minAmount, wallet |-> "0xuser", decrypts |-> TRUE, fulfillable |-> TRUE]

\* Two packets of one stream, one of another: what a paying sender has in flight.
TwoStreams ==
    { Packet(EthAddress("t1"), 1, 1, 1),
      Packet(EthAddress("t1"), 2, 2, 1),
      Packet(EthAddress("t2"), 1, 1, 1) }

\* One packet replayed with another amount, a zero amount; and, to no effect, an amount below
\* the minimum, a probe with a random condition and a packet for another server.
OddAmounts ==
    { Packet(EthAddress("t1"), 1, 1, 1),
      Packet(EthAddress("t1"), 1, 2, 1),
      Packet(EthAddress("t1"), 2, 0, 0),
      Packet(EthAddress("t1"), 3, 1, 2),
      [Packet(EthAddress("t1"), 4, 1, 1) EXCEPT !.fulfillable = FALSE],
      [Packet(EthAddress("t3"), 1, 1, 1) EXCEPT !.decrypts = FALSE] }

\* Another stream, to a host named like a recipient on another chain; a recipient that is no
\* hexadecimal number, an account address too short for the parser, an ordinary ILP account.
OddDestinations ==
    { Packet(<<"test", "0xhost", "eth", "1", "EURC", "0xuser", "t2">>, 1, 1, 1),
      Packet(<<"test", "receiver", "eth", "31337", "EURC", "0xnothex", "t3">>, 1, 1, 1),
      Packet(<<"test", "eth", "31337", "EURC", "0xuser", "t4">>, 1, 1, 1),
      Packet(<<"test", "receiver", "alice", "t5">>, 1, 1, 1) }

OddPackets == OddAmounts \cup OddDestinations
=============================================================================
