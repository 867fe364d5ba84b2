--------------------------- MODULE MCAuthSessions ---------------------------
(* AuthSessions on a small instance. *)
EXTENDS AuthSessions, TLC

\* Requests are interchangeable.
Symmetry == Permutations(Reqs)
=============================================================================
