------------------------------- MODULE MCMfa -------------------------------
(* Model-checking instance of Mfa.                                         *)
EXTENDS Mfa, TLC

\* Handlers, secrets and backup codes are interchangeable.
Symmetry == Permutations(Tasks) \cup Permutations(Secrets)
              \cup Permutations(BackupCodes)
=============================================================================
