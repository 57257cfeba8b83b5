----------------------------- MODULE MCAiActor -----------------------------
(* Bounded instances of AiActor: slots, nonces and key pairs are symmetric. *)
EXTENDS AiActor, TLC

Symmetric ==
  Permutations(Tasks) \cup Permutations(Actors) \cup Permutations(Keys)
    \cup Permutations(Nonces)
=============================================================================
