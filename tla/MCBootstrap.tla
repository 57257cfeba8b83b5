---------------------------- MODULE MCBootstrap ----------------------------
(* Bounded instances of Bootstrap and, inside it, of Rbac.                  *)
EXTENDS Bootstrap, TLC

Symmetric ==
  Permutations(Users) \cup Permutations(RoleIds \ {Admin}) \cup Permutations(Tasks)
    \cup Permutations(Boots)
=============================================================================
