---------------------------- MODULE MCPolicyAdmin ----------------------------
(* PolicyAdmin on a small instance: two organizations and names, and four
   statements that differ in one column, in two, or in all; the last has an
   effect that the table refuses.  Edits that overlap can leave a mixture that
   nobody asked for, as ("groups", "write", "allow"). *)
EXTENDS PolicyAdmin, TLC

CONSTANTS o1, o2

Statement(res, act, eff) ==
    [c \in Columns |-> CASE c = "resource" -> res [] c = "action" -> act [] OTHER -> eff]

MCOrgs    == {o1, o2}
MCValues  == {"users", "groups", "read", "write", "allow", "deny", "grant"}
MCEffects == {"allow", "deny"}
MCBodies  == {Statement("users", "read", "deny"), Statement("groups", "read", "allow"),
              Statement("users", "write", "deny"), Statement("groups", "read", "grant")}

\* Requests are interchangeable, and so are organizations and names.
Symmetry == Permutations(Reqs) \union Permutations(MCOrgs) \union Permutations(Names)
=============================================================================
