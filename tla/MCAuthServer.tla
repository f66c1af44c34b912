---------------------------- MODULE MCAuthServer ----------------------------
(* Small instances of AuthServer. *)
EXTENDS AuthServer, TLC

\* Handlers are interchangeable.
Interchangeable == Permutations(Request)
=============================================================================
