------------------------- MODULE MCAccountLifecycle -------------------------
(* Instances of AccountLifecycle for TLC.                                  *)
EXTENDS AccountLifecycle, TLC

\* Handlers are interchangeable, and so are sessions and tokens of a kind.
Symmetry == Permutations(Tasks) \cup Permutations(SessionIds)
              \cup Permutations(VTokens) \cup Permutations(RTokens)

\* For runs without the histories of mails, claims, status answers and refused
\* logins, which no guard reads: TLC need not tell states apart by them.
View ==
  <<identity, row, root, cred, artifacts, changes, voidSessions, voidTokens,
    [p \in Tasks |-> [task[p] EXCEPT !.solo = FALSE]]>>
=============================================================================
