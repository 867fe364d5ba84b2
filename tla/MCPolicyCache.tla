---------------------------- MODULE MCPolicyCache ----------------------------
(* PolicyCache on a small instance: one user and one group of organization o1,
   one policy of o1 and one of o2. *)
EXTENDS PolicyCache, TLC

CONSTANTS u1, g1, p1, p2, o1, o2

MCUsers    == {u1}
MCGroups   == {g1}
MCPolicies == {p1, p2}
MCOrgs     == {o1, o2}
MCOrgOf    == [x \in {u1, g1, p1, p2} |-> IF x = p2 THEN o2 ELSE o1]

\* Requests are interchangeable.
Symmetry == Permutations(Reqs)
=============================================================================
