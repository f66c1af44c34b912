------------------------ MODULE EthereumDestination ------------------------
(***************************************************************************)
(* The pure part of interledger-stream/src/ethereum.rs: how an ILP         *)
(* destination address names an on-chain recipient, and how a payment id   *)
(* is derived from a packet.  An address is the sequence of its segments,  *)
(* what split('.') returns.                                                *)
(***************************************************************************)
EXTENDS Naturals, Sequences

CONSTANTS
    ChainSegment,     \* the segments that parse as a u64 chain id
    RecipientSegment  \* the segments that start with 0x and have 42 characters

NoDestination == [recipient |-> "none", chain |-> "none"]

\* destination.contains(".eth."): the marker is neither the first nor the last segment.
ContainsEthMarker(parts) ==
    \E i \in 2..(Len(parts) - 1) : parts[i] = "eth"

\* A parser that takes the first segment that looks like a recipient.
ParseFirstAddress(parts) ==
    LET found == {i \in 1..Len(parts) : parts[i] \in RecipientSegment}
        first == CHOOSE i \in found : \A j \in found : i <= j
    IN  IF /\ Len(parts) >= 7
           /\ found # {}
        THEN [recipient |-> parts[first], chain |-> parts[4]]
        ELSE NoDestination

\* EthereumDestination::parse; NoDestination is None.
Parse(parts) ==
    LET markers == {i \in 1..Len(parts) : parts[i] = "eth"}
        eth == CHOOSE i \in markers : \A j \in markers : i <= j
    IN  IF /\ Len(parts) >= 7
           /\ markers # {}
           /\ eth + 3 <= Len(parts)
           /\ parts[eth + 1] \in ChainSegment
           /\ parts[eth + 3] \in RecipientSegment
        THEN [recipient |-> parts[eth + 3], chain |-> parts[eth + 1]]
        ELSE NoDestination

\* generate_payment_id: SHA-256 of the destination and the 8-byte sequence number.
\* The fixed-length suffix makes the preimage injective, so the pair stands for the hash.
GeneratePaymentId(parts, sequence) == <<parts, sequence>>
=============================================================================
