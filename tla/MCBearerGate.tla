---------------------------- MODULE MCBearerGate ----------------------------
(* Instances of BearerGate for TLC.                                        *)
EXTENDS BearerGate, TLC

CONSTANTS u1, t1, t2

OneOwner == t1 :> u1
TwoTokens == t1 :> u1 @@ t2 :> u1

\* Requests are interchangeable, and so are the revoking handlers.
Symmetry == Permutations(Requests) \cup Permutations(Revokers)
=============================================================================
