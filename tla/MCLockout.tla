----------------------------- MODULE MCLockout -----------------------------
(* Model-checking instance of Lockout.                                     *)
EXTENDS Lockout, TLC

\* Handlers are interchangeable.
Symmetry == Permutations(Tasks)
=============================================================================
