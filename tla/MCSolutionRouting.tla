-------------------------- MODULE MCSolutionRouting --------------------------
(* SolutionRouting on a small instance: two names, prefixes and places for
   solutions to run at. *)
EXTENDS SolutionRouting, TLC

\* Requests, names, prefixes and places are interchangeable.
Symmetry == Permutations(Reqs) \union Permutations(Names)
            \union Permutations(Prefixes) \union Permutations(Urls)
=============================================================================
