---------------------------- MODULE MCOnboarding ----------------------------
(* Onboarding on a small instance. *)
EXTENDS Onboarding, TLC

Symmetry == Permutations(Reqs) \union Permutations(Emails) \union Permutations(Slugs)
=============================================================================
