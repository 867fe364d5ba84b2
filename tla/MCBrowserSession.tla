--------------------------- MODULE MCBrowserSession ---------------------------
(* BrowserSession on a small instance. *)
EXTENDS BrowserSession, TLC

\* The calls are interchangeable.
Symmetry == Permutations(Calls)
=============================================================================
