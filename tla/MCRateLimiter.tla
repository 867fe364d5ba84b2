---------------------------- MODULE MCRateLimiter ----------------------------
(* RateLimiter on a small instance: four requests, two organizations, a limit
   of two requests in a window of two seconds. *)
EXTENDS RateLimiter, TLC

\* Requests and organizations are interchangeable.
Symmetry == Permutations(Reqs) \union Permutations(Orgs)
=============================================================================
