------------------------------ MODULE OneTime ------------------------------
(***************************************************************************)
(* What a credential for one use promises: a nonce to sign, a mailed       *)
(* token, an authorization code, a refresh token that is rotated.  One     *)
(* request may claim it, while it is open; only the one that has claimed   *)
(* it can finish, once, with one effect; and whatever was used, voided,    *)
(* expired or given up half way never opens again.  AiActor,               *)
(* AccountLifecycle and OidcTokens implement it.                           *)
(***************************************************************************)

CONSTANT Tokens

VARIABLES
  life,    \* where in its life a token is
  effects  \* what was obtained with it: a session, a password, a pair

lifeVars == <<life, effects>>

Init ==
  /\ life = [t \in Tokens |-> "unissued"]
  /\ effects = [t \in Tokens |-> {}]

Issue(t) ==
  /\ life[t] = "unissued"
  /\ life' = [life EXCEPT ![t] = "open"]
  /\ UNCHANGED effects

Claim(t) ==
  /\ life[t] = "open"
  /\ life' = [life EXCEPT ![t] = "claimed"]
  /\ UNCHANGED effects

Finish(t) ==
  /\ life[t] = "claimed"
  /\ life' = [life EXCEPT ![t] = "done"]
  /\ \E x \in effects'[t] : effects' = [effects EXCEPT ![t] = {x}]

\* Tokens are voided or expire, or a request gives up what it has claimed.
Close(S) ==
  /\ \A t \in S : life[t] \in {"open", "claimed"}
  /\ life' = [t \in Tokens |-> IF t \in S THEN "closed" ELSE life[t]]
  /\ UNCHANGED effects

Next ==
  \/ \E S \in SUBSET Tokens : Close(S)
  \/ \E t \in Tokens : Issue(t) \/ Claim(t) \/ Finish(t)

Spec == Init /\ [][Next]_lifeVars
=============================================================================
