--------------------------- MODULE MCStreamSender ---------------------------
(* Instances of StreamSender.                                                *)
EXTENDS StreamSender

\* An F08 that asks for three quarters of the packet, and one for half of it, for which the
\* product with the largest packet overflows the u64 to zero.
QuartersAndOverflow == {[received |-> 4, max |-> 3], [received |-> 8, max |-> 4]}
=============================================================================
