--------------------------- MODULE MCCardPayments ---------------------------
(* A small instance of CardPayments: two requests, of which one finds its    *)
(* card service.                                                             *)
EXTENDS CardPayments

MCRequest == {"q1", "q2"}
MCReachable == {"q1"}
=============================================================================
