------------------------------ MODULE AiActor ------------------------------
(***************************************************************************)
(* AI actors: services/ai_actor.rs behind routes/actors.rs, the extractor  *)
(* AuthedActor of utils/jwt.rs and the identity root they read.            *)
(*                                                                         *)
(* An administrator registers an actor with a public key, adds and revokes *)
(* keys and changes the actor's status.  The actor fetches a challenge,    *)
(* signs it and exchanges the signature for a session.  Every await on the *)
(* database ends a step, so handlers interleave there; every statement may *)
(* fail, and its handler then stops where it is.                           *)
(*                                                                         *)
(* A public key is its ai_actor_credential row (the key has a unique       *)
(* index), a nonce its ai_actor_challenge row.  A signature is the pair of *)
(* the key and the nonce and actor it was made for: canonical_payload      *)
(* binds all of them, so it verifies under that key and payload only.      *)
(***************************************************************************)
EXTENDS Naturals, FiniteSets

CONSTANTS
  Actors,   \* record keys of actor_identity rows of kind ai_actor
  Keys,     \* Ed25519 key pairs
  Nonces,
  Tasks,    \* slots for handlers in flight
  Ops,      \* the operations clients and administrators ask for
  None

AllOps == {"register", "add", "revoke", "status", "challenge", "authenticate", "me"}

ASSUME AiActorAssumption == Ops \subseteq AllOps /\ None \notin Actors \cup Keys \cup Nonces

VARIABLES
  status,    \* actor_identity.status, "none" before the row exists
  cred,      \* ai_actor_credential
  chal,      \* ai_actor_challenge
  sessions,  \* the session rows that exist
  issued,    \* history: every session ever answered to a client
  swept,     \* history: keys whose revocation was answered with success
  task

vars == <<status, cred, chal, sessions, issued, swept, task>>

Stati == {"active", "suspended", "retired"}
CredRow == [owner : Actors \cup {None}, state : {"unused", "active", "revoked"}]
ChalRow == [actor : Actors \cup {None}, state : {"unused", "open", "consumed", "expired"}]
\* early and late are history: the key was not revoked when the authentication
\* began, and was when the row was written.
Session == [by : Tasks, nonce : Nonces, actor : Actors, key : Keys,
            early : BOOLEAN, late : BOOLEAN]
Task == [op : AllOps \cup {"idle"},
         pc : {"idle", "first", "gate", "match", "session", "sweep", "write",
               "drop", "addkey", "create", "load", "served"},
         actor : Actors \cup {None}, key : Keys \cup {None}, nonce : Nonces \cup {None},
         to : Stati,
         row : Session \cup {None},  \* the session whose token a request carries
         early : BOOLEAN,            \* history, see Session
         void : BOOLEAN,             \* history: that row was gone at the start
         stopped : BOOLEAN]          \* history: all along since the start, the actor has
                                     \* not been active or, for a change of its status,
                                     \* has been retired
Idle == [op |-> "idle", pc |-> "idle", actor |-> None, key |-> None, nonce |-> None,
         to |-> "active", row |-> None, early |-> FALSE, void |-> FALSE,
         stopped |-> FALSE]

TypeOK ==
  /\ status \in [Actors -> Stati \cup {"none"}]
  /\ cred \in [Keys -> CredRow]
  /\ chal \in [Nonces -> ChalRow]
  /\ sessions \subseteq issued /\ issued \subseteq Session
  /\ swept \subseteq Keys
  /\ task \in [Tasks -> Task]

Init ==
  /\ status = [a \in Actors |-> "none"]
  /\ cred = [k \in Keys |-> [owner |-> None, state |-> "unused"]]
  /\ chal = [n \in Nonces |-> [actor |-> None, state |-> "unused"]]
  /\ sessions = {} /\ issued = {} /\ swept = {}
  /\ task = [p \in Tasks |-> Idle]

At(p, op, pc) == task[p].op = op /\ task[p].pc = pc
Goto(p, pc) == task' = [task EXCEPT ![p].pc = pc]
End(p) == task' = [task EXCEPT ![p] = Idle]
Begin(p, t) == task[p].pc = "idle" /\ task' = [task EXCEPT ![p] = t]
db == <<status, cred, chal, sessions, issued, swept>>

CanAuthenticate(a) == status[a] = "active"
KeyUsable(k) == cred[k].state = "active"

----------------------------------------------------------------------------
(* Registration and keys.                                                  *)

StartRegister(p) ==
  /\ "register" \in Ops
  /\ \E a \in Actors, k \in Keys :
       /\ status[a] = "none"
       /\ \A q \in Tasks : task[q].op = "register" => task[q].actor # a
       /\ Begin(p, [Idle EXCEPT !.op = "register", !.pc = "first", !.actor = a, !.key = k])
  /\ UNCHANGED db

\* create_ai_actor: the identity exists before its first key.
CreateActor(p) ==
  /\ At(p, "register", "first")
  /\ status' = [status EXCEPT ![task[p].actor] = "active"]
  /\ Goto(p, "addkey")
  /\ UNCHANGED <<cred, chal, sessions, issued, swept>>

StartAdd(p) ==
  /\ "add" \in Ops
  /\ \E a \in Actors, k \in Keys :
       Begin(p, [Idle EXCEPT !.op = "add", !.pc = "first", !.actor = a, !.key = k])
  /\ UNCHANGED db

\* require_ai_actor: any status will do.
AddFindsActor(p) ==
  /\ At(p, "add", "first")
  /\ IF status[task[p].actor] # "none" THEN Goto(p, "addkey") ELSE End(p)
  /\ UNCHANGED db

\* add_credential_for: the unique index refuses a key that is already stored.
StoreKey(p) ==
  /\ task[p].pc = "addkey"
  /\ cred' = IF cred[task[p].key].state = "unused"
             THEN [cred EXCEPT ![task[p].key] =
                     [owner |-> task[p].actor, state |-> "active"]]
             ELSE cred
  /\ End(p)
  /\ UNCHANGED <<status, chal, sessions, issued, swept>>

StartRevoke(p) ==
  /\ "revoke" \in Ops
  /\ \E a \in Actors, k \in Keys :
       Begin(p, [Idle EXCEPT !.op = "revoke", !.pc = "first", !.actor = a, !.key = k])
  /\ UNCHANGED db

\* revoke_credential: the guarded UPDATE; no row answers NotFound.
RevokeKey(p) ==
  /\ At(p, "revoke", "first")
  /\ IF KeyUsable(task[p].key) /\ cred[task[p].key].owner = task[p].actor
     THEN /\ cred' = [cred EXCEPT ![task[p].key].state = "revoked"]
          /\ Goto(p, "sweep")
     ELSE End(p) /\ UNCHANGED cred
  /\ UNCHANGED <<status, chal, sessions, issued, swept>>

\* Mutant of SweepKeySessions: Revoking changes the key only, as an earlier version of the code did.
SweepNothing(p) ==
  /\ At(p, "revoke", "sweep")
  /\ swept' = swept \cup {task[p].key}
  /\ End(p)
  /\ UNCHANGED <<status, cred, chal, sessions, issued>>

\* revoke_credential: then the sessions this key opened are deleted.
SweepKeySessions(p) ==
  /\ At(p, "revoke", "sweep")
  /\ sessions' = {s \in sessions : ~(s.actor = task[p].actor /\ s.key = task[p].key)}
  /\ swept' = swept \cup {task[p].key}
  /\ End(p)
  /\ UNCHANGED <<status, cred, chal, issued>>

----------------------------------------------------------------------------
(* The actor's status.                                                     *)

StartStatus(p) ==
  /\ "status" \in Ops
  /\ \E a \in Actors, s \in Stati :
       Begin(p, [Idle EXCEPT !.op = "status", !.pc = "first", !.actor = a, !.to = s,
                             !.stopped = (status[a] = "retired")])
  /\ UNCHANGED db

\* Mutant of StatusFindsActor: any actor that exists will do.
StatusFindsAny(p) ==
  /\ At(p, "status", "first")
  /\ IF status[task[p].actor] = "none" THEN End(p) ELSE Goto(p, "write")
  /\ UNCHANGED db

\* set_actor_status: an unknown or a retired actor is refused.
StatusFindsActor(p) ==
  /\ At(p, "status", "first")
  /\ IF status[task[p].actor] \in {"none", "retired"} THEN End(p) ELSE Goto(p, "write")
  /\ UNCHANGED db

\* History: the status s does not end what t.stopped says.
StaysStopped(t, s) ==
  t.stopped /\ IF t.op = "status" THEN s = "retired" ELSE s # "active"

\* IdentityService::set_status writes without a condition.
WriteStatus(p) ==
  /\ At(p, "status", "write")
  /\ LET a == task[p].actor  s == task[p].to IN
     /\ status' = [status EXCEPT ![a] = s]
     /\ task' = [q \in Tasks |->
          IF q = p THEN IF s = "active" THEN Idle ELSE [task[p] EXCEPT !.pc = "drop"]
          ELSE IF task[q].actor = a
               THEN [task[q] EXCEPT !.stopped = StaysStopped(task[q], s)] ELSE task[q]]
  /\ UNCHANGED <<cred, chal, sessions, issued, swept>>

DropSessions(p) ==
  /\ At(p, "status", "drop")
  /\ sessions' = {s \in sessions : s.actor # task[p].actor}
  /\ End(p)
  /\ UNCHANGED <<status, cred, chal, issued, swept>>

----------------------------------------------------------------------------
(* Challenge and authentication.                                           *)

StartChallenge(p) ==
  /\ "challenge" \in Ops
  /\ \E a \in Actors :
       Begin(p, [Idle EXCEPT !.op = "challenge", !.pc = "first", !.actor = a])
  /\ UNCHANGED db

\* issue_challenge: the actor must exist and be active.
ChallengeFindsActor(p) ==
  /\ At(p, "challenge", "first")
  /\ IF CanAuthenticate(task[p].actor) THEN Goto(p, "create") ELSE End(p)
  /\ UNCHANGED db

CreateChallenge(p) ==
  /\ At(p, "challenge", "create")
  /\ \E n \in Nonces :
       /\ chal[n].state = "unused"
       /\ chal' = [chal EXCEPT ![n] = [actor |-> task[p].actor, state |-> "open"]]
  /\ End(p)
  /\ UNCHANGED <<status, cred, sessions, issued, swept>>

\* CHALLENGE_TTL_SECONDS pass.
ChallengeExpires(n) ==
  /\ chal[n].state = "open"
  /\ chal' = [chal EXCEPT ![n].state = "expired"]
  /\ UNCHANGED <<status, cred, sessions, issued, swept, task>>

\* A signature by key k over the payload of actor a and nonce n.  Malformed
\* signatures and other algorithms are refused before any state is read.
StartAuthenticate(p) ==
  /\ "authenticate" \in Ops
  /\ \E a \in Actors, k \in Keys, n \in Nonces :
       /\ chal[n].state # "unused"
       /\ Begin(p, [Idle EXCEPT !.op = "authenticate", !.pc = "first", !.actor = a,
                                !.key = k, !.nonce = n, !.early = (cred[k].state # "revoked")])
  /\ UNCHANGED db

\* Mutant of ConsumeChallenge: The challenge is not marked as consumed.
ConsumeWithoutMark(p) ==
  /\ At(p, "authenticate", "first")
  /\ IF chal[task[p].nonce] = [actor |-> task[p].actor, state |-> "open"]
     THEN Goto(p, "gate") ELSE End(p)
  /\ UNCHANGED db

\* Mutant of ConsumeChallenge: The UPDATE does not compare the actor.
ConsumeForAnyActor(p) ==
  /\ At(p, "authenticate", "first")
  /\ IF chal[task[p].nonce].state = "open"
     THEN /\ chal' = [chal EXCEPT ![task[p].nonce].state = "consumed"]
          /\ Goto(p, "gate")
     ELSE End(p) /\ UNCHANGED chal
  /\ UNCHANGED <<status, cred, sessions, issued, swept>>

\* Mutant of ConsumeChallenge: The UPDATE does not ask whether it has expired.
ConsumeExpired(p) ==
  /\ At(p, "authenticate", "first")
  /\ IF /\ chal[task[p].nonce].actor = task[p].actor
        /\ chal[task[p].nonce].state \in {"open", "expired"}
     THEN /\ chal' = [chal EXCEPT ![task[p].nonce].state = "consumed"]
          /\ Goto(p, "gate")
     ELSE End(p) /\ UNCHANGED chal
  /\ UNCHANGED <<status, cred, sessions, issued, swept>>

\* authenticate, step 1: one UPDATE consumes a challenge of this actor.
ConsumeChallenge(p) ==
  /\ At(p, "authenticate", "first")
  /\ IF chal[task[p].nonce] = [actor |-> task[p].actor, state |-> "open"]
     THEN /\ chal' = [chal EXCEPT ![task[p].nonce].state = "consumed"]
          /\ Goto(p, "gate")
     ELSE End(p) /\ UNCHANGED chal
  /\ UNCHANGED <<status, cred, sessions, issued, swept>>

\* Step 2: the identity must still be active.
CheckActor(p) ==
  /\ At(p, "authenticate", "gate")
  /\ IF CanAuthenticate(task[p].actor) THEN Goto(p, "match") ELSE End(p)
  /\ UNCHANGED db

\* Steps 3 and 4: the signature verifies under a usable key of this actor.
\* (touch_credential writes last_used_at, which nothing reads.)
MatchCredential(p) ==
  /\ At(p, "authenticate", "match")
  /\ IF KeyUsable(task[p].key) /\ cred[task[p].key].owner = task[p].actor
     THEN Goto(p, "session") ELSE End(p)
  /\ UNCHANGED db

\* issue_session: the row records the key that opened it.
IssueSession(p) ==
  /\ At(p, "authenticate", "session")
  /\ LET s == [by |-> p, nonce |-> task[p].nonce, actor |-> task[p].actor,
               key |-> task[p].key, early |-> task[p].early,
               late |-> ~KeyUsable(task[p].key)]
     IN sessions' = sessions \cup {s} /\ issued' = issued \cup {s}
  /\ End(p)
  /\ UNCHANGED <<status, cred, chal, swept>>

----------------------------------------------------------------------------
(* GET /me with a session token.                                           *)

StartMe(p) ==
  /\ "me" \in Ops
  /\ \E s \in issued :
       Begin(p, [Idle EXCEPT !.op = "me", !.pc = "first", !.actor = s.actor, !.row = s,
                             !.void = (s \notin sessions),
                             !.stopped = ~CanAuthenticate(s.actor)])
  /\ UNCHANGED db

\* decode_and_verify_token: the session row must exist.
MeFindsSession(p) ==
  /\ At(p, "me", "first")
  /\ IF task[p].row \in sessions THEN Goto(p, "load") ELSE End(p)
  /\ UNCHANGED db

\* Mutant of MeLoadsActor: The extractor trusts the session row.
MeTrustsSession(p) ==
  /\ At(p, "me", "load")
  /\ Goto(p, "served")
  /\ UNCHANGED db

\* AuthedActor: the identity must be active now.
MeLoadsActor(p) ==
  /\ At(p, "me", "load")
  /\ IF CanAuthenticate(task[p].actor) THEN Goto(p, "served") ELSE End(p)
  /\ UNCHANGED db

Answer(p) == At(p, "me", "served") /\ End(p) /\ UNCHANGED db

\* A statement is answered with an error and `?` ends the handler.
Fail(p) == task[p].pc \notin {"idle", "served"} /\ End(p) /\ UNCHANGED db

Next ==
  \/ \E p \in Tasks :
       \/ StartRegister(p) \/ CreateActor(p) \/ StartAdd(p) \/ AddFindsActor(p)
       \/ StoreKey(p) \/ StartRevoke(p) \/ RevokeKey(p) \/ SweepKeySessions(p)
       \/ StartStatus(p) \/ StatusFindsActor(p) \/ WriteStatus(p) \/ DropSessions(p)
       \/ StartChallenge(p) \/ ChallengeFindsActor(p) \/ CreateChallenge(p)
       \/ StartAuthenticate(p) \/ ConsumeChallenge(p) \/ CheckActor(p)
       \/ MatchCredential(p) \/ IssueSession(p)
       \/ StartMe(p) \/ MeFindsSession(p) \/ MeLoadsActor(p) \/ Answer(p)
       \/ Fail(p)
  \/ \E n \in Nonces : ChallengeExpires(n)

Spec == Init /\ [][Next]_vars

----------------------------------------------------------------------------
(* What the code promises.                                                 *)

\* However many authentications carry the same nonce at once, one of them at
\* most gets a session (the guarded UPDATE of authenticate).
ChallengeOnce == \A s, t \in issued : s.nonce = t.nonce => s = t

\* A session always rests on a challenge that was issued to its actor and is
\* used up, and on a key that belongs to its actor: a proof for one actor never
\* opens a session of another.
SessionIsProved ==
  \A s \in issued :
    /\ chal[s.nonce] = [actor |-> s.actor, state |-> "consumed"]
    /\ cred[s.key].owner = s.actor

\* Once revoke_credential has answered, the sessions left under that key come
\* from authentications that had found it active before the revocation and
\* wrote their row after it: earlier rows are gone, later requests get none.
RevocationComplete ==
  \A s \in sessions : s.key \in swept => s.early /\ s.late

\* A token whose session row was gone when the request began is refused, and so
\* is one whose actor has not been active since: the row outlives a status
\* change whose DELETE failed or came too early, the extractor does not care.
StoppedActorRefused ==
  \A p \in Tasks : task[p].pc = "served" => ~task[p].void /\ ~task[p].stopped

\* A retired actor does not come back (set_actor_status refuses it) except by a
\* change of status that began before the retirement was written, or before
\* such a change had undone it.
RetiredIsLast ==
  [][\A a \in Actors : status[a] = "retired" /\ status'[a] # "retired" =>
       \E p \in Tasks : /\ At(p, "status", "write") /\ task'[p].pc # "write"
                       /\ task[p].actor = a /\ ~task[p].stopped]_vars

\* An authentication that has consumed its challenge and not answered yet.
Holding(t) == t.op = "authenticate" /\ t.pc \in {"gate", "match", "session"}

Held(n) == \E p \in Tasks : Holding(task[p]) /\ task[p].nonce = n
SessionsOf(n) == {s \in issued : s.nonce = n}

Life(n) ==
  IF SessionsOf(n) # {} THEN "done"
  ELSE IF Held(n) THEN "claimed"
  ELSE IF chal[n].state = "unused" THEN "unissued"
  ELSE IF chal[n].state = "open" THEN "open"
  ELSE "closed"

Challenge == INSTANCE OneTime WITH
  Tokens <- Nonces, life <- [n \in Nonces |-> Life(n)],
  effects <- [n \in Nonces |-> SessionsOf(n)]

\* A challenge is a credential for one use: expired, consumed, or consumed by an
\* authentication that failed afterwards, it never opens a session again (the
\* UPDATE of authenticate comes first and asks for consumed and expires_at).
ImplementsOneTime == Challenge!Spec

\* Refuted: set_actor_status checks for "retired" in one statement and writes in
\* another, so a change that read before a retirement undoes it.
RetiredIsFinal ==
  [][\A a \in Actors : status[a] = "retired" => status'[a] = "retired"]_vars

\* Refuted: an authentication that matched the key before the revocation may
\* write its session after the sweep.
RevokedKeyHasNoSession == \A s \in sessions : s.key \notin swept
=============================================================================
