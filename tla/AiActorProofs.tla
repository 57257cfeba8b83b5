--------------------------- MODULE AiActorProofs ---------------------------
(***************************************************************************)
(* Proofs about AiActor, for every set of actors, keys, nonces and         *)
(* handlers in flight.                                                     *)
(*                                                                         *)
(* None of the four safety properties is inductive: each speaks of rows,   *)
(* and what a row is worth rests on what the handler that wrote it had     *)
(* found out and on what the other handlers could do in between.  The      *)
(* invariant AiInv says what the tables promise (RowsOK), what a handler   *)
(* may rely on at each of its steps (HandlerOK), and which handlers        *)
(* exclude each other (Exclusive).                                         *)
(***************************************************************************)
EXTENDS AiActor, TLAPS

\* A key without an owner is unused, a swept key is revoked, a session's actor
\* has an identity.
RowsOK ==
  /\ \A k \in Keys : cred[k].state = "unused" => cred[k].owner = None
  /\ \A k \in swept : cred[k].state = "revoked"
  /\ \A s \in issued : status[s.actor] # "none"
  /\ ChallengeOnce
  /\ SessionIsProved
  /\ RevocationComplete

\* What a handler carries.
Carries(t) ==
  /\ t.op # "idle" => t.actor \in Actors
  /\ t.op \in {"register", "add", "revoke", "authenticate"} => t.key \in Keys
  /\ t.op = "authenticate" => t.nonce \in Nonces
  /\ t.pc = "addkey" => t.op \in {"register", "add"}
  /\ t.pc = "served" => t.op = "me"

\* What a handler that manages an actor or its keys may rely on.
ManagerOK(t) ==
  /\ t.op = "register" /\ t.pc = "first" => status[t.actor] = "none"
  /\ t.op = "status" /\ t.pc = "write" => status[t.actor] # "none"
  /\ t.op = "status" /\ t.stopped => status[t.actor] = "retired" /\ t.pc # "write"
  /\ t.op = "revoke" /\ t.pc = "sweep" =>
       cred[t.key].state = "revoked" /\ cred[t.key].owner = t.actor

\* What an authentication may rely on: the challenge it consumed is its own,
\* the key it matched is its actor's, and the key was revoked at the start only
\* if it still is.
AuthOK(t) ==
  /\ Holding(t) => /\ chal[t.nonce] = [actor |-> t.actor, state |-> "consumed"]
                   /\ \A s \in issued : s.nonce # t.nonce
  /\ t.op = "authenticate" /\ ~t.early => cred[t.key].state = "revoked"
  /\ t.op = "authenticate" /\ t.pc \in {"match", "session"} => status[t.actor] # "none"
  /\ t.op = "authenticate" /\ t.pc = "session" => cred[t.key].owner = t.actor /\ t.early

\* What a request with a session token may rely on.
MeOK(t) ==
  t.op = "me" =>
    /\ t.row \in issued /\ t.row.actor = t.actor
    /\ t.void => t.row \notin sessions /\ t.pc = "first"
    /\ t.stopped => status[t.actor] # "active" /\ t.pc # "served"

HandlerOK(t) == Carries(t) /\ ManagerOK(t) /\ AuthOK(t) /\ MeOK(t)

\* No two handlers hold one challenge, and no two register one actor.
Exclusive ==
  \A p, q \in Tasks :
    /\ Holding(task[p]) /\ Holding(task[q]) /\ task[p].nonce = task[q].nonce => p = q
    /\ task[p].op = "register" /\ task[q].op = "register"
         /\ task[p].actor = task[q].actor => p = q

AiInv == TypeOK /\ RowsOK /\ (\A p \in Tasks : HandlerOK(task[p])) /\ Exclusive

----------------------------------------------------------------------------

\* An idle slot relies on nothing.
LEMMA IdleOK == Idle \in Task /\ HandlerOK(Idle) /\ Idle.op = "idle"
  <1>1. Idle \in Task
    BY DEF Idle, Task, Stati, AllOps
  <1>2. HandlerOK(Idle)
    BY DEF Idle, HandlerOK, Carries, ManagerOK, AuthOK, MeOK, Holding
  <1> QED
    BY <1>1, <1>2 DEF Idle

\* A step that changes only its own handler keeps the invariant if the handler
\* may rely on what it should, and takes no challenge and no registration that
\* another one has.
LEMMA OwnStep ==
  ASSUME AiInv, NEW p \in Tasks, NEW t \in Task,
         UNCHANGED db, task' = [task EXCEPT ![p] = t], HandlerOK(t),
         Holding(t) => Holding(task[p]) /\ t.nonce = task[p].nonce,
         t.op = "register" =>
           \/ task[p].op = "register" /\ t.actor = task[p].actor
           \/ \A q \in Tasks : task[q].op = "register" => task[q].actor # t.actor
  PROVE  AiInv'
  <1>0. task \in [Tasks -> Task] /\ UNCHANGED <<status, cred, chal, sessions, issued, swept>>
    BY DEF AiInv, TypeOK, db
  <1>1. TypeOK'
    BY <1>0 DEF AiInv, TypeOK
  <1>2. RowsOK'
    BY <1>0 DEF AiInv, RowsOK, ChallengeOnce, SessionIsProved, RevocationComplete
  <1>3. \A q \in Tasks : task'[q] = IF q = p THEN t ELSE task[q]
    BY <1>0
  <1>4. ASSUME NEW q \in Tasks PROVE HandlerOK(task[q])'
    <2>1. HandlerOK(task'[q])
      BY <1>3 DEF AiInv
    <2> QED
      BY <1>0, <2>1 DEF HandlerOK, Carries, ManagerOK, AuthOK, MeOK, Holding
  <1>5. Exclusive'
    BY <1>3 DEF AiInv, Exclusive, Holding
  <1> QED
    BY <1>1, <1>2, <1>4, <1>5 DEF AiInv

\* A handler that ends relies on nothing any more.
LEMMA EndKeeps ==
  ASSUME AiInv, NEW p \in Tasks, End(p), UNCHANGED db
  PROVE  AiInv'
  BY IdleOK, OwnStep DEF End, Idle, Holding

\* Sending a handler on changes its pc and nothing else.
LEMMA GotoShape ==
  ASSUME AiInv, NEW p \in Tasks,
         NEW x \in {"first", "gate", "match", "session", "sweep", "write",
                    "drop", "addkey", "create", "load", "served"},
         Goto(p, x)
  PROVE  \E t \in Task :
           /\ task' = [task EXCEPT ![p] = t]
           /\ t.pc = x /\ t.op = task[p].op /\ t.actor = task[p].actor
           /\ t.key = task[p].key /\ t.nonce = task[p].nonce
           /\ t.row = task[p].row /\ t.early = task[p].early
           /\ t.void = task[p].void /\ t.stopped = task[p].stopped
           /\ HandlerOK(task[p])
  <1> DEFINE t == [task[p] EXCEPT !.pc = x]
  <1>1. task[p] \in Task /\ t \in Task
    BY DEF AiInv, TypeOK, Task
  <1>2. task' = [task EXCEPT ![p] = t]
    BY DEF Goto
  <1>3. /\ t.pc = x /\ t.op = task[p].op /\ t.actor = task[p].actor
        /\ t.key = task[p].key /\ t.nonce = task[p].nonce
        /\ t.row = task[p].row /\ t.early = task[p].early
        /\ t.void = task[p].void /\ t.stopped = task[p].stopped
    BY <1>1 DEF Task
  <1>4. HandlerOK(task[p])
    BY DEF AiInv
  <1> QED
    BY <1>1, <1>2, <1>3, <1>4

\* A handler may be sent on when it has found out what the next step relies on.
LEMMA GotoKeeps ==
  ASSUME AiInv, NEW p \in Tasks,
         NEW x \in {"gate", "match", "session", "write", "addkey", "create", "load",
                    "served"},
         Goto(p, x), UNCHANGED db,
         x = "addkey" => task[p].op \in {"register", "add"},
         x = "served" => task[p].op = "me" /\ status[task[p].actor] = "active",
         x = "write" /\ task[p].op = "status" => status[task[p].actor] \notin {"none", "retired"},
         x \in {"gate", "match", "session"} => Holding(task[p]) \/ task[p].op # "authenticate",
         x \in {"match", "session"} => status[task[p].actor] # "none",
         x = "session" =>
           KeyUsable(task[p].key) /\ cred[task[p].key].owner = task[p].actor,
         task[p].op = "me" /\ task[p].void => task[p].row \in sessions
  PROVE  AiInv'
  <1>1. PICK t \in Task :
          /\ task' = [task EXCEPT ![p] = t]
          /\ t.pc = x /\ t.op = task[p].op /\ t.actor = task[p].actor
          /\ t.key = task[p].key /\ t.nonce = task[p].nonce
          /\ t.row = task[p].row /\ t.early = task[p].early
          /\ t.void = task[p].void /\ t.stopped = task[p].stopped
          /\ HandlerOK(task[p])
    BY GotoShape
  <1>2. Carries(t) /\ ManagerOK(t)
    BY <1>1 DEF HandlerOK, Carries, ManagerOK
  <1>3. AuthOK(t)
    BY <1>1 DEF HandlerOK, AuthOK, Holding, KeyUsable
  <1>4. MeOK(t)
    BY <1>1 DEF HandlerOK, MeOK
  <1>5. Holding(t) => Holding(task[p]) /\ t.nonce = task[p].nonce
    BY <1>1 DEF Holding
  <1> QED
    BY <1>1, <1>2, <1>3, <1>4, <1>5, OwnStep DEF HandlerOK

\* A step that reads one row and goes on or ends keeps the invariant.
LEMMA ReadKeeps ==
  ASSUME AiInv, NEW p \in Tasks,
         \/ AddFindsActor(p) \/ StatusFindsActor(p) \/ ChallengeFindsActor(p)
         \/ CheckActor(p) \/ MatchCredential(p) \/ MeFindsSession(p) \/ MeLoadsActor(p)
  PROVE  AiInv'
  <1>1. HandlerOK(task[p])
    BY DEF AiInv
  <1>2. CASE AddFindsActor(p)
    BY <1>1, <1>2, GotoKeeps, EndKeeps DEF AddFindsActor, At
  <1>3. CASE StatusFindsActor(p)
    BY <1>1, <1>3, GotoKeeps, EndKeeps DEF StatusFindsActor, At
  <1>4. CASE ChallengeFindsActor(p)
    BY <1>1, <1>4, GotoKeeps, EndKeeps DEF ChallengeFindsActor, At
  <1>5. CASE CheckActor(p)
    BY <1>1, <1>5, GotoKeeps, EndKeeps DEF CheckActor, At, Holding, CanAuthenticate
  <1>6. CASE MatchCredential(p)
    <2>1. Holding(task[p]) /\ status[task[p].actor] # "none" /\ task[p].op = "authenticate"
      BY <1>1, <1>6 DEF MatchCredential, At, HandlerOK, AuthOK, Holding
    <2> QED
      BY <1>6, <2>1, GotoKeeps, EndKeeps DEF MatchCredential
  <1>7. CASE MeFindsSession(p)
    BY <1>1, <1>7, GotoKeeps, EndKeeps DEF MeFindsSession, At
  <1>8. CASE MeLoadsActor(p)
    <2>1. task[p].op = "me" /\ task[p].pc = "load" /\ ~task[p].void
      BY <1>1, <1>8, Zenon DEF MeLoadsActor, At, HandlerOK, MeOK
    <2> QED
      BY <1>8, <2>1, GotoKeeps, EndKeeps DEF MeLoadsActor, CanAuthenticate
  <1> QED
    BY <1>2, <1>3, <1>4, <1>5, <1>6, <1>7, <1>8

----------------------------------------------------------------------------
(* Requests arrive.                                                        *)

\* A handler that begins, at its first step, relies on what its request was
\* found to be.
LEMMA StartKeeps ==
  ASSUME AiInv, NEW p \in Tasks,
         \/ StartRegister(p) \/ StartAdd(p) \/ StartRevoke(p) \/ StartStatus(p)
         \/ StartChallenge(p) \/ StartAuthenticate(p) \/ StartMe(p)
  PROVE  /\ AiInv'
         /\ \E t \in Task : t.pc = "first" /\ task' = [task EXCEPT ![p] = t]
  <1>0. UNCHANGED db
    BY DEF StartRegister, StartAdd, StartRevoke, StartStatus, StartChallenge,
           StartAuthenticate, StartMe
  <1> USE DEF HandlerOK, Carries, ManagerOK, AuthOK, MeOK, Holding
  <1>1. CASE StartRegister(p)
    <2>1. PICK a \in Actors, k \in Keys :
            /\ status[a] = "none"
            /\ \A q \in Tasks : task[q].op = "register" => task[q].actor # a
            /\ task' = [task EXCEPT ![p] = [Idle EXCEPT !.op = "register", !.pc = "first",
                                                        !.actor = a, !.key = k]]
      BY <1>1 DEF StartRegister, Begin
    <2> DEFINE t == [Idle EXCEPT !.op = "register", !.pc = "first", !.actor = a, !.key = k]
    <2>2. t \in Task /\ t.op = "register" /\ t.pc = "first" /\ t.actor = a /\ t.key = k
      BY DEF Task, Idle, AllOps, Stati
    <2> HIDE DEF t
    <2> QED
      BY <1>0, <2>1, <2>2, OwnStep DEF t
  <1>2. CASE StartAdd(p)
    <2>1. PICK a \in Actors, k \in Keys :
            task' = [task EXCEPT ![p] =
              [Idle EXCEPT !.op = "add", !.pc = "first", !.actor = a, !.key = k]]
      BY <1>2 DEF StartAdd, Begin
    <2> DEFINE t == [Idle EXCEPT !.op = "add", !.pc = "first", !.actor = a, !.key = k]
    <2>2. t \in Task /\ t.op = "add" /\ t.pc = "first" /\ t.actor = a /\ t.key = k
      BY DEF Task, Idle, AllOps, Stati, AiInv, TypeOK, CanAuthenticate
    <2> HIDE DEF t
    <2>3. HandlerOK(t) /\ t.op # "register" /\ ~Holding(t)
      BY <2>1, <2>2 DEF AiInv, TypeOK, CanAuthenticate
    <2> QED
      BY <1>0, <2>1, <2>2, <2>3, OwnStep DEF t
  <1>3. CASE StartRevoke(p)
    <2>1. PICK a \in Actors, k \in Keys :
            task' = [task EXCEPT ![p] =
              [Idle EXCEPT !.op = "revoke", !.pc = "first", !.actor = a, !.key = k]]
      BY <1>3 DEF StartRevoke, Begin
    <2> DEFINE t == [Idle EXCEPT !.op = "revoke", !.pc = "first", !.actor = a, !.key = k]
    <2>2. t \in Task /\ t.op = "revoke" /\ t.pc = "first" /\ t.actor = a /\ t.key = k
      BY DEF Task, Idle, AllOps, Stati, AiInv, TypeOK, CanAuthenticate
    <2> HIDE DEF t
    <2>3. HandlerOK(t) /\ t.op # "register" /\ ~Holding(t)
      BY <2>1, <2>2 DEF AiInv, TypeOK, CanAuthenticate
    <2> QED
      BY <1>0, <2>1, <2>2, <2>3, OwnStep DEF t
  <1>4. CASE StartStatus(p)
    <2>1. PICK a \in Actors, x \in Stati :
            task' = [task EXCEPT ![p] =
              [Idle EXCEPT !.op = "status", !.pc = "first", !.actor = a, !.to = x,
                           !.stopped = (status[a] = "retired")]]
      BY <1>4 DEF StartStatus, Begin
    <2>2. PICK e \in BOOLEAN : e = (status[a] = "retired")
      OBVIOUS
    <2> DEFINE t == [Idle EXCEPT !.op = "status", !.pc = "first", !.actor = a, !.to = x,
                                 !.stopped = e]
    <2>3. /\ t \in Task /\ t.op = "status" /\ t.pc = "first" /\ t.actor = a
          /\ t.stopped = e
      BY DEF Task, Idle, AllOps, Stati
    <2>4. task' = [task EXCEPT ![p] = t]
      BY <2>1, <2>2, Zenon
    <2> HIDE DEF t
    <2>5. HandlerOK(t) /\ t.op # "register" /\ ~Holding(t)
      BY <2>2, <2>3
    <2> QED
      BY <1>0, <2>3, <2>4, <2>5, OwnStep
  <1>5. CASE StartChallenge(p)
    <2>1. PICK a \in Actors :
            task' = [task EXCEPT ![p] =
              [Idle EXCEPT !.op = "challenge", !.pc = "first", !.actor = a]]
      BY <1>5 DEF StartChallenge, Begin
    <2> DEFINE t == [Idle EXCEPT !.op = "challenge", !.pc = "first", !.actor = a]
    <2>2. t \in Task /\ t.op = "challenge" /\ t.pc = "first" /\ t.actor = a
      BY DEF Task, Idle, AllOps, Stati, AiInv, TypeOK, CanAuthenticate
    <2> HIDE DEF t
    <2>3. HandlerOK(t) /\ t.op # "register" /\ ~Holding(t)
      BY <2>1, <2>2 DEF AiInv, TypeOK, CanAuthenticate
    <2> QED
      BY <1>0, <2>1, <2>2, <2>3, OwnStep DEF t
  <1>6. CASE StartAuthenticate(p)
    <2>0. PICK a \in Actors, k \in Keys, n \in Nonces :
            /\ chal[n].state # "unused"
            /\ Begin(p, [Idle EXCEPT !.op = "authenticate", !.pc = "first", !.actor = a,
                                     !.key = k, !.nonce = n,
                                     !.early = (cred[k].state # "revoked")])
      BY <1>6, Zenon DEF StartAuthenticate
    <2>1. task' = [task EXCEPT ![p] = [Idle EXCEPT !.op = "authenticate", !.pc = "first",
                     !.actor = a, !.key = k, !.nonce = n,
                     !.early = (cred[k].state # "revoked")]]
      BY <2>0, Zenon DEF Begin
    <2>2. PICK e \in BOOLEAN : e = (cred[k].state # "revoked")
      OBVIOUS
    <2> DEFINE t == [Idle EXCEPT !.op = "authenticate", !.pc = "first",
                                 !.actor = a, !.key = k, !.nonce = n, !.early = e]
    <2>3. t \in Task /\ t.op = "authenticate" /\ t.pc = "first" /\ t.actor = a
            /\ t.key = k /\ t.nonce = n /\ t.early = e
      BY DEF Task, Idle, AllOps, Stati
    <2>4. task' = [task EXCEPT ![p] = t]
      BY <2>1, <2>2, Zenon
    <2> HIDE DEF t
    <2>5. HandlerOK(t) /\ t.op # "register" /\ ~Holding(t)
      BY <2>2, <2>3
    <2> QED
      BY <1>0, <2>3, <2>4, <2>5, OwnStep
  <1>7. CASE StartMe(p)
    <2>1. PICK r \in issued :
            task' = [task EXCEPT ![p] = [Idle EXCEPT !.op = "me", !.pc = "first",
                       !.actor = r.actor, !.row = r, !.void = (r \notin sessions),
                       !.stopped = ~CanAuthenticate(r.actor)]]
      BY <1>7 DEF StartMe, Begin
    <2>2. PICK v \in BOOLEAN : v = (r \notin sessions)
      OBVIOUS
    <2>3. PICK x \in BOOLEAN : x = ~CanAuthenticate(r.actor)
      OBVIOUS
    <2>4. r \in Session /\ r.actor \in Actors
      BY DEF AiInv, TypeOK, Session
    <2> DEFINE t == [Idle EXCEPT !.op = "me", !.pc = "first", !.actor = r.actor, !.row = r,
                                 !.void = v, !.stopped = x]
    <2>5. t \in Task /\ t.op = "me" /\ t.pc = "first" /\ t.actor = r.actor /\ t.row = r
            /\ t.void = v /\ t.stopped = x
      BY <2>4 DEF Task, Idle, AllOps, Stati
    <2>6. task' = [task EXCEPT ![p] = t]
      BY <2>1, <2>2, <2>3, Zenon
    <2> HIDE DEF t
    <2>7. HandlerOK(t) /\ t.op # "register" /\ ~Holding(t)
      BY <2>2, <2>3, <2>4, <2>5 DEF CanAuthenticate
    <2> QED
      BY <1>0, <2>5, <2>6, <2>7, OwnStep
  <1> QED
    BY <1>1, <1>2, <1>3, <1>4, <1>5, <1>6, <1>7

----------------------------------------------------------------------------
(* Steps that write rows.                                                  *)

\* A step that writes rows and changes only its own handler leaves of the
\* invariant to show: the rows, its own handler, the others, the exclusion.
LEMMA WriteStep ==
  ASSUME AiInv, NEW p \in Tasks, NEW t \in Task, task' = [task EXCEPT ![p] = t],
         status' \in [Actors -> Stati \cup {"none"}], cred' \in [Keys -> CredRow],
         chal' \in [Nonces -> ChalRow],
         sessions' \subseteq issued', issued' \subseteq Session, swept' \subseteq Keys,
         RowsOK', HandlerOK(t)',
         \A q \in Tasks : q # p => HandlerOK(task[q])',
         Holding(t) => \/ Holding(task[p]) /\ t.nonce = task[p].nonce
                       \/ \A q \in Tasks : Holding(task[q]) => task[q].nonce # t.nonce,
         t.op = "register" => task[p].op = "register" /\ t.actor = task[p].actor
  PROVE  AiInv'
  <1>0. task \in [Tasks -> Task]
    BY DEF AiInv, TypeOK
  <1>1. \A q \in Tasks : task'[q] = IF q = p THEN t ELSE task[q]
    BY <1>0
  <1>2. TypeOK'
    BY <1>0 DEF TypeOK
  <1>3. ASSUME NEW q \in Tasks PROVE HandlerOK(task[q])'
    <2>1. CASE q = p
      <3>1. task'[p] = t
        BY <1>1
      <3> QED
        BY <2>1, <3>1 DEF HandlerOK, Carries, ManagerOK, AuthOK, MeOK, Holding
    <2> QED
      BY <1>1, <2>1
  <1>4. Exclusive'
    BY <1>1 DEF AiInv, Exclusive, Holding
  <1> QED
    BY <1>2, <1>3, <1>4 DEF AiInv

\* The typed parts of the invariant, for citing.
LEMMA Parts ==
  ASSUME AiInv
  PROVE  /\ status \in [Actors -> Stati \cup {"none"}] /\ cred \in [Keys -> CredRow]
         /\ chal \in [Nonces -> ChalRow]
         /\ sessions \subseteq issued /\ issued \subseteq Session /\ swept \subseteq Keys
         /\ task \in [Tasks -> Task]
         /\ RowsOK /\ Exclusive
         /\ \A q \in Tasks : HandlerOK(task[q])
         /\ \A s \in Session : s.actor \in Actors /\ s.nonce \in Nonces /\ s.key \in Keys
  BY DEF AiInv, TypeOK, Session

\* create_ai_actor makes an identity that nobody relied on yet.
LEMMA CreateKeeps ==
  ASSUME AiInv, NEW p \in Tasks, CreateActor(p)
  PROVE  AiInv'
  <1>1. PICK t \in Task :
          /\ task' = [task EXCEPT ![p] = t]
          /\ t.pc = "addkey" /\ t.op = task[p].op /\ t.actor = task[p].actor
          /\ t.key = task[p].key /\ HandlerOK(task[p])
    BY GotoShape DEF CreateActor
  <1> DEFINE a == task[p].actor
  <1>2. /\ task[p].op = "register" /\ task[p].pc = "first" /\ a \in Actors
        /\ task[p].key \in Keys
        /\ status[a] = "none" /\ status' = [status EXCEPT ![a] = "active"]
        /\ UNCHANGED <<cred, chal, sessions, issued, swept>>
    BY <1>1 DEF CreateActor, At, HandlerOK, Carries, ManagerOK
  <1>3. RowsOK'
    BY <1>2, Parts DEF RowsOK, ChallengeOnce, SessionIsProved, RevocationComplete
  <1>4. HandlerOK(t)'
    BY <1>1, <1>2, Parts DEF HandlerOK, Carries, ManagerOK, AuthOK, MeOK, Holding
  <1>5. ASSUME NEW q \in Tasks, q # p PROVE HandlerOK(task[q])'
    <2>1. task'[q] = task[q] /\ HandlerOK(task[q])
      BY <1>1, <1>5, Parts
    <2>2. task[q].op = "register" => task[q].actor # a
      BY <1>2, <1>5, Parts DEF Exclusive
    <2>3. Carries(task[q])'
      BY <2>1 DEF HandlerOK, Carries
    <2>4. ManagerOK(task[q])'
      BY <1>2, <2>1, <2>2, Parts DEF HandlerOK, Carries, ManagerOK
    <2>5. AuthOK(task[q])'
      BY <1>2, <2>1, Parts DEF HandlerOK, Carries, AuthOK, Holding
    <2>6. MeOK(task[q])'
      BY <1>2, <2>1, Parts DEF HandlerOK, MeOK, RowsOK
    <2> QED
      BY <2>3, <2>4, <2>5, <2>6 DEF HandlerOK
  <1>6. status' \in [Actors -> Stati \cup {"none"}]
    BY <1>2, Parts DEF Stati
  <1> QED
    BY <1>1, <1>2, <1>3, <1>4, <1>5, <1>6, Parts, WriteStep DEF Holding

\* add_credential_for gives an owner to a key that has none.
LEMMA StoreKeeps ==
  ASSUME AiInv, NEW p \in Tasks, StoreKey(p)
  PROVE  AiInv'
  <1>1. task' = [task EXCEPT ![p] = Idle] /\ Idle \in Task /\ Idle.op = "idle"
    BY IdleOK DEF StoreKey, End
  <1>2. /\ task[p].actor \in Actors /\ task[p].key \in Keys
        /\ cred' = IF cred[task[p].key].state = "unused"
                   THEN [cred EXCEPT ![task[p].key] =
                           [owner |-> task[p].actor, state |-> "active"]]
                   ELSE cred
        /\ UNCHANGED <<status, chal, sessions, issued, swept>>
    BY Parts DEF StoreKey, At, HandlerOK, Carries, ManagerOK, AuthOK, Holding, KeyUsable
  <1>3. RowsOK'
    BY <1>2, Parts, AiActorAssumption DEF RowsOK, ChallengeOnce, SessionIsProved, RevocationComplete
  <1>a. \A k \in Keys : cred[k].state # "unused" => cred'[k] = cred[k]
    BY <1>2, Parts
  <1>b. \A k \in Keys : cred[k].owner # None => cred[k].state # "unused"
    BY Parts DEF RowsOK
  <1>4. ASSUME NEW q \in Tasks, q # p PROVE HandlerOK(task[q])'
    <2>1. task'[q] = task[q] /\ HandlerOK(task[q])
      BY <1>1, <1>4, Parts
    <2>2. Carries(task[q])'
      BY <2>1 DEF HandlerOK, Carries
    <2>3. ManagerOK(task[q])'
      BY <1>2, <1>a, <2>1, Parts DEF HandlerOK, Carries, ManagerOK
    <2>4. AuthOK(task[q])'
      BY AiActorAssumption, <1>a, <1>b, <1>2, <2>1, <1>4, Parts DEF HandlerOK, Carries, AuthOK, Holding, RowsOK
    <2>5. MeOK(task[q])'
      BY <1>2, <2>1, <1>4, Parts DEF HandlerOK, MeOK
    <2> QED
      BY <2>2, <2>3, <2>4, <2>5 DEF HandlerOK
  <1>5. HandlerOK(Idle)'
    BY DEF Idle, HandlerOK, Carries, ManagerOK, AuthOK, MeOK, Holding
  <1>6. cred' \in [Keys -> CredRow]
    BY <1>2, Parts DEF CredRow, ChalRow
  <1> QED
    BY <1>1, <1>2, <1>3, <1>4, <1>5, <1>6, Parts, WriteStep DEF Holding

\* revoke_credential: what relied on a key that was active may rely on its owner.
LEMMA RevokeKeeps ==
  ASSUME AiInv, NEW p \in Tasks, RevokeKey(p),
         KeyUsable(task[p].key) /\ cred[task[p].key].owner = task[p].actor
  PROVE  AiInv'
  <1>1. PICK t \in Task :
          /\ task' = [task EXCEPT ![p] = t]
          /\ t.pc = "sweep" /\ t.op = task[p].op /\ t.actor = task[p].actor
          /\ t.key = task[p].key /\ t.nonce = task[p].nonce /\ t.early = task[p].early
          /\ HandlerOK(task[p])
    BY GotoShape DEF RevokeKey
  <1>2. /\ task[p].op = "revoke" /\ task[p].actor \in Actors /\ task[p].key \in Keys
        /\ cred[task[p].key].state = "active" /\ cred[task[p].key].owner = task[p].actor
        /\ cred' = [cred EXCEPT ![task[p].key].state = "revoked"]
        /\ UNCHANGED <<status, chal, sessions, issued, swept>>
    BY <1>1 DEF RevokeKey, At, HandlerOK, Carries, KeyUsable
  <1>a. \A k \in Keys : /\ cred'[k].owner = cred[k].owner
                        /\ cred'[k].state \in {cred[k].state, "revoked"}
                        /\ cred[k].state = "revoked" => cred'[k].state = "revoked"
                        /\ cred'[k].state = "unused" => cred[k].state = "unused"
    BY <1>2, Parts DEF CredRow
  <1>b. cred'[task[p].key].state = "revoked"
    BY <1>2, Parts DEF CredRow
  <1>3. RowsOK'
    BY <1>a, <1>2, Parts DEF RowsOK, ChallengeOnce, SessionIsProved, RevocationComplete
  <1>4. ASSUME NEW q \in Tasks, q # p PROVE HandlerOK(task[q])'
    <2>1. task'[q] = task[q] /\ HandlerOK(task[q])
      BY <1>1, <1>4, Parts
    <2>2. Carries(task[q])'
      BY <2>1 DEF HandlerOK, Carries
    <2>3. ManagerOK(task[q])'
      BY <1>a, <1>2, <2>1, Parts DEF HandlerOK, Carries, ManagerOK
    <2>4. AuthOK(task[q])'
      BY <1>a, <1>2, <2>1, Parts DEF HandlerOK, Carries, AuthOK, Holding
    <2>5. MeOK(task[q])'
      BY <1>2, <2>1, Parts DEF HandlerOK, MeOK
    <2> QED
      BY <2>2, <2>3, <2>4, <2>5 DEF HandlerOK
  <1>5. HandlerOK(t)'
    BY <1>a, <1>b, <1>1, <1>2, Parts DEF HandlerOK, Carries, ManagerOK, AuthOK, MeOK, Holding
  <1>6. cred' \in [Keys -> CredRow]
    BY <1>2, Parts DEF CredRow, ChalRow
  <1> QED
    BY <1>1, <1>2, <1>3, <1>4, <1>5, <1>6, Parts, WriteStep DEF Holding

\* The sessions that are left under a swept key are not its owner's, so there are
\* none.
LEMMA SweepKeeps ==
  ASSUME AiInv, NEW p \in Tasks, SweepKeySessions(p)
  PROVE  AiInv'
  <1>1. task' = [task EXCEPT ![p] = Idle] /\ Idle \in Task /\ Idle.op = "idle"
    BY IdleOK DEF SweepKeySessions, End
  <1>2. /\ task[p].key \in Keys
        /\ cred[task[p].key].state = "revoked" /\ cred[task[p].key].owner = task[p].actor
        /\ sessions' = {s \in sessions : ~(s.actor = task[p].actor /\ s.key = task[p].key)}
        /\ swept' = swept \cup {task[p].key}
        /\ UNCHANGED <<status, cred, chal, issued>>
    BY Parts DEF SweepKeySessions, At, HandlerOK, Carries, ManagerOK
  <1>3. RowsOK'
    BY <1>2, Parts DEF RowsOK, ChallengeOnce, SessionIsProved, RevocationComplete
  <1>4. ASSUME NEW q \in Tasks, q # p PROVE HandlerOK(task[q])'
    <2>1. task'[q] = task[q] /\ HandlerOK(task[q])
      BY <1>1, <1>4, Parts
    <2>2. Carries(task[q])'
      BY <2>1 DEF HandlerOK, Carries
    <2>3. ManagerOK(task[q])'
      BY <1>2, <2>1, Parts DEF HandlerOK, Carries, ManagerOK
    <2>4. AuthOK(task[q])'
      BY <1>2, <2>1, Parts DEF HandlerOK, Carries, AuthOK, Holding
    <2>5. MeOK(task[q])'
      BY <1>2, <2>1, Parts DEF HandlerOK, MeOK
    <2> QED
      BY <2>2, <2>3, <2>4, <2>5 DEF HandlerOK
  <1>5. HandlerOK(Idle)'
    BY DEF Idle, HandlerOK, Carries, ManagerOK, AuthOK, MeOK, Holding
  <1>6. sessions' \subseteq issued' /\ swept' \subseteq Keys
    BY <1>2, Parts DEF CredRow, ChalRow
  <1> QED
    BY <1>1, <1>2, <1>3, <1>4, <1>5, <1>6, Parts, WriteStep DEF Holding

\* set_actor_status: fewer sessions break nothing.
LEMMA DropKeeps ==
  ASSUME AiInv, NEW p \in Tasks, DropSessions(p)
  PROVE  AiInv'
  <1>1. task' = [task EXCEPT ![p] = Idle] /\ Idle \in Task /\ Idle.op = "idle"
    BY IdleOK DEF DropSessions, End
  <1>2. /\ sessions' = {s \in sessions : s.actor # task[p].actor}
        /\ UNCHANGED <<status, cred, chal, issued, swept>>
    BY DEF DropSessions
  <1>3. RowsOK'
    BY <1>2, Parts DEF RowsOK, ChallengeOnce, SessionIsProved, RevocationComplete
  <1>4. ASSUME NEW q \in Tasks, q # p PROVE HandlerOK(task[q])'
    <2>1. task'[q] = task[q] /\ HandlerOK(task[q])
      BY <1>1, <1>4, Parts
    <2>2. Carries(task[q])'
      BY <2>1 DEF HandlerOK, Carries
    <2>3. ManagerOK(task[q])'
      BY <1>2, <2>1, Parts DEF HandlerOK, Carries, ManagerOK
    <2>4. AuthOK(task[q])'
      BY <1>2, <2>1, Parts DEF HandlerOK, Carries, AuthOK, Holding
    <2>5. MeOK(task[q])'
      BY <1>2, <2>1, Parts DEF HandlerOK, MeOK
    <2> QED
      BY <2>2, <2>3, <2>4, <2>5 DEF HandlerOK
  <1>5. HandlerOK(Idle)'
    BY DEF Idle, HandlerOK, Carries, ManagerOK, AuthOK, MeOK, Holding
  <1>6. sessions' \subseteq issued'
    BY <1>2, Parts DEF CredRow, ChalRow
  <1> QED
    BY <1>1, <1>2, <1>3, <1>4, <1>5, <1>6, Parts, WriteStep DEF Holding

\* issue_challenge draws a nonce that was never used.
LEMMA ChallengeKeeps ==
  ASSUME AiInv, NEW p \in Tasks, CreateChallenge(p)
  PROVE  AiInv'
  <1>1. task' = [task EXCEPT ![p] = Idle] /\ Idle \in Task /\ Idle.op = "idle"
    BY IdleOK DEF CreateChallenge, End
  <1>2. /\ task[p].actor \in Actors
        /\ \E n \in Nonces :
             /\ chal[n].state = "unused"
             /\ chal' = [chal EXCEPT ![n] = [actor |-> task[p].actor, state |-> "open"]]
        /\ UNCHANGED <<status, cred, sessions, issued, swept>>
    BY Parts DEF CreateChallenge, At, HandlerOK, Carries
  <1>a. \A n \in Nonces : chal[n].state = "consumed" => chal'[n] = chal[n]
    BY <1>2, Parts
  <1>3. RowsOK'
    BY <1>a, <1>2, Parts DEF RowsOK, ChallengeOnce, SessionIsProved, RevocationComplete
  <1>4. ASSUME NEW q \in Tasks, q # p PROVE HandlerOK(task[q])'
    <2>1. task'[q] = task[q] /\ HandlerOK(task[q])
      BY <1>1, <1>4, Parts
    <2>2. Carries(task[q])'
      BY <2>1 DEF HandlerOK, Carries
    <2>3. ManagerOK(task[q])'
      BY <1>2, <2>1, Parts DEF HandlerOK, Carries, ManagerOK
    <2>4. AuthOK(task[q])'
      BY <1>a, <1>2, <2>1, Parts DEF HandlerOK, Carries, AuthOK, Holding
    <2>5. MeOK(task[q])'
      BY <1>2, <2>1, Parts DEF HandlerOK, MeOK
    <2> QED
      BY <2>2, <2>3, <2>4, <2>5 DEF HandlerOK
  <1>5. HandlerOK(Idle)'
    BY DEF Idle, HandlerOK, Carries, ManagerOK, AuthOK, MeOK, Holding
  <1>6. chal' \in [Nonces -> ChalRow]
    BY <1>2, Parts DEF CredRow, ChalRow
  <1> QED
    BY <1>1, <1>2, <1>3, <1>4, <1>5, <1>6, Parts, WriteStep DEF Holding

\* authenticate: the challenge it consumes was open, so nobody holds it and no
\* session rests on it.
LEMMA ConsumeKeeps ==
  ASSUME AiInv, NEW p \in Tasks, ConsumeChallenge(p),
         chal[task[p].nonce] = [actor |-> task[p].actor, state |-> "open"]
  PROVE  AiInv'
  <1>1. PICK t \in Task :
          /\ task' = [task EXCEPT ![p] = t]
          /\ t.pc = "gate" /\ t.op = task[p].op /\ t.actor = task[p].actor
          /\ t.key = task[p].key /\ t.nonce = task[p].nonce /\ t.early = task[p].early
          /\ HandlerOK(task[p])
    BY GotoShape DEF ConsumeChallenge
  <1>2. /\ task[p].op = "authenticate" /\ task[p].actor \in Actors /\ task[p].nonce \in Nonces
        /\ chal[task[p].nonce] = [actor |-> task[p].actor, state |-> "open"]
        /\ chal' = [chal EXCEPT ![task[p].nonce].state = "consumed"]
        /\ UNCHANGED <<status, cred, sessions, issued, swept>>
    BY <1>1 DEF ConsumeChallenge, At, HandlerOK, Carries
  <1>a. /\ \A n \in Nonces : chal[n].state = "consumed" => chal'[n] = chal[n]
        /\ chal'[task[p].nonce] = [actor |-> task[p].actor, state |-> "consumed"]
    BY <1>2, Parts DEF ChalRow
  <1>d. chal[task[p].nonce].state = "open"
    BY <1>2
  <1>b. ASSUME NEW s \in issued PROVE s.nonce # task[p].nonce
    <2>1. chal[s.nonce] = [actor |-> s.actor, state |-> "consumed"]
      BY Parts DEF RowsOK, SessionIsProved
    <2>2. chal[s.nonce].state = "consumed"
      BY <2>1
    <2> QED
      BY <1>d, <2>2
  <1>c. ASSUME NEW q \in Tasks, Holding(task[q]) PROVE task[q].nonce # t.nonce
    <2>1. chal[task[q].nonce] = [actor |-> task[q].actor, state |-> "consumed"]
      BY <1>c, Parts DEF HandlerOK, AuthOK
    <2>2. chal[task[q].nonce].state = "consumed"
      BY <2>1
    <2> QED
      BY <1>1, <1>d, <2>2
  <1>3. RowsOK'
    BY <1>a, <1>2, Parts DEF RowsOK, ChallengeOnce, SessionIsProved, RevocationComplete
  <1>4. ASSUME NEW q \in Tasks, q # p PROVE HandlerOK(task[q])'
    <2>1. task'[q] = task[q] /\ HandlerOK(task[q])
      BY <1>1, <1>4, Parts
    <2>2. Carries(task[q])'
      BY <2>1 DEF HandlerOK, Carries
    <2>3. ManagerOK(task[q])'
      BY <1>2, <2>1, Parts DEF HandlerOK, Carries, ManagerOK
    <2>4. AuthOK(task[q])'
      BY <1>a, <1>2, <2>1, Parts DEF HandlerOK, Carries, AuthOK, Holding
    <2>5. MeOK(task[q])'
      BY <1>2, <2>1, Parts DEF HandlerOK, MeOK
    <2> QED
      BY <2>2, <2>3, <2>4, <2>5 DEF HandlerOK
  <1>5. HandlerOK(t)'
    BY <1>a, <1>b, <1>1, <1>2, Parts DEF HandlerOK, Carries, ManagerOK, AuthOK, MeOK, Holding
  <1>6. chal' \in [Nonces -> ChalRow]
    BY <1>2, Parts DEF CredRow, ChalRow
  <1> QED
    BY <1>c, <1>1, <1>2, <1>3, <1>4, <1>5, <1>6, Parts, WriteStep DEF Holding

\* issue_session: the new row rests on a challenge nobody else holds, and if
\* its key has been swept it was matched before that.
LEMMA IssueKeeps ==
  ASSUME AiInv, NEW p \in Tasks, IssueSession(p)
  PROVE  AiInv'
  <1> DEFINE n == task[p].nonce
             k == task[p].key
  <1>1. task' = [task EXCEPT ![p] = Idle] /\ Idle \in Task /\ Idle.op = "idle"
    BY IdleOK DEF IssueSession, End
  <1>2. /\ task[p].op = "authenticate" /\ Holding(task[p])
        /\ task[p].actor \in Actors /\ k \in Keys /\ n \in Nonces
        /\ chal[n] = [actor |-> task[p].actor, state |-> "consumed"]
        /\ cred[k].owner = task[p].actor /\ status[task[p].actor] # "none"
        /\ \A s \in issued : s.nonce # n
        /\ task[p].early
        /\ UNCHANGED <<status, cred, chal, swept>>
    BY Parts DEF IssueSession, At, HandlerOK, Carries, AuthOK, Holding
  <1>a. PICK late \in BOOLEAN : late = ~KeyUsable(k)
    OBVIOUS
  <1> DEFINE new == [by |-> p, nonce |-> n, actor |-> task[p].actor, key |-> k,
                     early |-> task[p].early, late |-> late]
  <1>b. sessions' = sessions \cup {new} /\ issued' = issued \cup {new}
    BY <1>a, Zenon DEF IssueSession
  <1>c. new \in Session
    BY <1>2, Parts DEF Session, Task
  <1>d. /\ new.nonce = n /\ new.actor = task[p].actor /\ new.key = k
        /\ new.early /\ (k \in swept => new.late)
    BY <1>2, <1>a, Parts DEF KeyUsable, RowsOK
  <1> HIDE DEF new
  <1>3. RowsOK'
    <2>1. (\A x \in Keys : cred[x].state = "unused" => cred[x].owner = None)'
            /\ (\A x \in swept : cred[x].state = "revoked")'
            /\ (\A s \in issued : status[s.actor] # "none")'
      BY <1>2, <1>b, <1>d, Parts DEF RowsOK
    <2>2. ChallengeOnce'
      BY <1>2, <1>b, <1>d, Parts DEF RowsOK, ChallengeOnce
    <2>3. SessionIsProved'
      BY <1>2, <1>b, <1>d, Parts DEF RowsOK, SessionIsProved
    <2>4. RevocationComplete'
      BY <1>2, <1>b, <1>d, Parts DEF RowsOK, RevocationComplete
    <2> QED
      BY <2>1, <2>2, <2>3, <2>4 DEF RowsOK
  <1>4. ASSUME NEW q \in Tasks, q # p PROVE HandlerOK(task[q])'
    <2>1. task'[q] = task[q] /\ HandlerOK(task[q])
      BY <1>1, <1>4, Parts
    <2>2. Carries(task[q])'
      BY <2>1 DEF HandlerOK, Carries
    <2>3. ManagerOK(task[q])'
      BY <1>2, <2>1 DEF HandlerOK, ManagerOK
    <2>4. AuthOK(task[q])'
      <3>1. Holding(task[q]) => task[q].nonce # n
        BY <1>2, <1>4, Parts DEF Exclusive
      <3> QED
        BY <1>2, <1>b, <1>d, <2>1, <3>1 DEF HandlerOK, AuthOK, Holding
    <2>5. MeOK(task[q])'
      BY <1>2, <1>b, <1>d, <2>1 DEF HandlerOK, MeOK
    <2> QED
      BY <2>2, <2>3, <2>4, <2>5 DEF HandlerOK
  <1>5. HandlerOK(Idle)'
    BY DEF Idle, HandlerOK, Carries, ManagerOK, AuthOK, MeOK, Holding
  <1>6. sessions' \subseteq issued' /\ issued' \subseteq Session
    BY <1>b, <1>c, Parts
  <1> QED
    BY <1>1, <1>2, <1>3, <1>4, <1>5, <1>6, Parts, WriteStep DEF Holding

\* Setting what a handler's actor was since its start changes nothing else.
LEMMA StoppedOnly ==
  ASSUME NEW t \in Task, NEW b \in BOOLEAN
  PROVE  LET u == [t EXCEPT !.stopped = b] IN
         /\ u \in Task /\ u.stopped = b
         /\ u.op = t.op /\ u.pc = t.pc /\ u.actor = t.actor /\ u.key = t.key
         /\ u.nonce = t.nonce /\ u.row = t.row /\ u.early = t.early /\ u.void = t.void
  <1> DEFINE u == [t EXCEPT !.stopped = b]
  <1>1. t \in [op : AllOps \cup {"idle"},
               pc : {"idle", "first", "gate", "match", "session", "sweep", "write",
                     "drop", "addkey", "create", "load", "served"},
               actor : Actors \cup {None}, key : Keys \cup {None},
               nonce : Nonces \cup {None}, to : Stati, row : Session \cup {None},
               early : BOOLEAN, void : BOOLEAN, stopped : BOOLEAN]
    BY DEF Task
  <1>2. u \in Task
    BY <1>1 DEF Task
  <1>3. u.stopped = b
    BY <1>1
  <1>4. /\ u.op = t.op /\ u.pc = t.pc /\ u.actor = t.actor /\ u.key = t.key
        /\ u.nonce = t.nonce /\ u.row = t.row
    BY <1>1
  <1>5. u.early = t.early /\ u.void = t.void
    BY <1>1
  <1> QED
    BY <1>2, <1>3, <1>4, <1>5

\* What set_status leaves of the handlers: its own one ends or goes on to drop
\* the sessions, a request of an actor that is active again no longer counts as
\* stopped, nor does a change of status whose actor is not retired any more.
LEMMA StatusShape ==
  ASSUME AiInv, NEW p \in Tasks, WriteStatus(p), NEW q \in Tasks
  PROVE  /\ task'[q] \in Task
         /\ q = p => task'[q] = Idle \/ /\ task'[q].op = "status" /\ task'[q].pc = "drop"
                                        /\ task'[q].actor = task[p].actor
                                        /\ ~task'[q].stopped
         /\ q # p =>
              /\ task'[q].op = task[q].op /\ task'[q].pc = task[q].pc
              /\ task'[q].actor = task[q].actor /\ task'[q].key = task[q].key
              /\ task'[q].nonce = task[q].nonce /\ task'[q].row = task[q].row
              /\ task'[q].early = task[q].early /\ task'[q].void = task[q].void
              /\ task'[q].stopped =>
                   /\ task[q].stopped
                   /\ task[q].actor = task[p].actor =>
                        IF task[q].op = "status" THEN task[p].to = "retired"
                                                 ELSE task[p].to # "active"
  <1>1. /\ task[p] \in Task /\ task[q] \in Task
        /\ task[p].op = "status" /\ ~task[p].stopped
    BY Parts DEF WriteStatus, At, HandlerOK, ManagerOK
  <1>2. task'[q] = IF q = p
                   THEN IF task[p].to = "active" THEN Idle ELSE [task[p] EXCEPT !.pc = "drop"]
                   ELSE IF task[q].actor = task[p].actor
                        THEN [task[q] EXCEPT !.stopped = StaysStopped(task[q], task[p].to)]
                        ELSE task[q]
    BY DEF WriteStatus
  <1>3. CASE q = p /\ task[p].to = "active"
    BY <1>2, <1>3, IdleOK
  <1>4. CASE q = p /\ task[p].to # "active"
    <2>1. task'[q] = [task[p] EXCEPT !.pc = "drop"]
      BY <1>2, <1>4
    <2> QED
      BY <1>1, <1>4, <2>1 DEF Task
  <1>5. CASE q # p /\ task[q].actor = task[p].actor
    <2>1. PICK b \in BOOLEAN : b = StaysStopped(task[q], task[p].to)
      BY <1>1, Zenon DEF StaysStopped
    <2>2. task'[q] = [task[q] EXCEPT !.stopped = b]
      BY <1>2, <1>5, <2>1, Zenon
    <2>3. b => /\ task[q].stopped
               /\ IF task[q].op = "status" THEN task[p].to = "retired"
                                           ELSE task[p].to # "active"
      BY <2>1 DEF StaysStopped
    <2> QED
      BY <1>1, <1>5, <2>2, <2>3, StoppedOnly
  <1>6. CASE q # p /\ task[q].actor # task[p].actor
    <2>1. task'[q] = task[q]
      BY <1>2, <1>6
    <2> QED
      BY <1>1, <1>6, <2>1
  <1> QED
    BY <1>3, <1>4, <1>5, <1>6

\* set_status: the new status is one of an existing actor.
LEMMA StatusKeeps ==
  ASSUME AiInv, NEW p \in Tasks, WriteStatus(p)
  PROVE  AiInv'
  <1> DEFINE a == task[p].actor
             x == task[p].to
  <1>1. /\ task[p].op = "status" /\ task[p].pc = "write" /\ a \in Actors
        /\ x \in Stati /\ status[a] # "none"
        /\ status' = [status EXCEPT ![a] = x]
        /\ UNCHANGED <<cred, chal, sessions, issued, swept>>
    BY Parts DEF WriteStatus, At, HandlerOK, Carries, ManagerOK, Task
  <1>2. DOMAIN task' = Tasks /\ task' = [q \in Tasks |-> task'[q]]
    BY DEF WriteStatus
  <1>3. /\ \A b \in Actors : status'[b] = IF b = a THEN x ELSE status[b]
        /\ \A b \in Actors : status[b] # "none" => status'[b] # "none"
    BY <1>1, Parts DEF Stati
  <1>4. TypeOK'
    <2>1. task' \in [Tasks -> Task]
      BY <1>2, StatusShape
    <2>2. status' \in [Actors -> Stati \cup {"none"}]
      BY <1>1, Parts
    <2> QED
      BY <1>1, <2>1, <2>2, Parts DEF TypeOK
  <1>5. RowsOK'
    BY <1>1, <1>3, Parts DEF RowsOK, ChallengeOnce, SessionIsProved, RevocationComplete, Session
  <1>6. ASSUME NEW q \in Tasks PROVE HandlerOK(task[q])'
    <2> DEFINE u == task'[q]
    <2>1. CASE q = p
      <3>1. u = Idle \/ (u.op = "status" /\ u.pc = "drop" /\ u.actor = a /\ ~u.stopped)
        BY <2>1, StatusShape
      <3>2. CASE u = Idle
        BY <3>2 DEF Idle, HandlerOK, Carries, ManagerOK, AuthOK, MeOK, Holding
      <3>3. CASE u.op = "status" /\ u.pc = "drop" /\ u.actor = a /\ ~u.stopped
        BY <1>1, <3>3 DEF HandlerOK, Carries, ManagerOK, AuthOK, MeOK, Holding
      <3> QED
        BY <3>1, <3>2, <3>3
    <2>2. CASE q # p
      <3>1. /\ u.op = task[q].op /\ u.pc = task[q].pc
            /\ u.actor = task[q].actor /\ u.key = task[q].key
            /\ u.nonce = task[q].nonce /\ u.row = task[q].row
            /\ u.early = task[q].early /\ u.void = task[q].void
            /\ u.stopped =>
                 /\ task[q].stopped
                 /\ task[q].actor = a =>
                      IF task[q].op = "status" THEN x = "retired" ELSE x # "active"
        BY <2>2, StatusShape
      <3>2. HandlerOK(task[q])
        BY Parts
      <3> HIDE DEF x, a
      <3>3. Carries(task[q])'
        BY <3>1, <3>2 DEF HandlerOK, Carries
      <3>4. ManagerOK(task[q])'
        BY <1>1, <1>3, <3>1, <3>2 DEF HandlerOK, Carries, ManagerOK
      <3>5. AuthOK(task[q])'
        BY <1>1, <1>3, <3>1, <3>2 DEF HandlerOK, Carries, AuthOK, Holding
      <3>6. MeOK(task[q])'
        BY <1>1, <1>3, <3>1, <3>2 DEF HandlerOK, Carries, MeOK
      <3> QED
        BY <3>3, <3>4, <3>5, <3>6 DEF HandlerOK
    <2> QED
      BY <2>1, <2>2
  <1>7. Exclusive'
    <2>1. ASSUME NEW q \in Tasks
          PROVE /\ Holding(task[q])' => Holding(task[q]) /\ task'[q].nonce = task[q].nonce
                /\ task'[q].op = "register" =>
                     task[q].op = "register" /\ task'[q].actor = task[q].actor
      BY StatusShape, IdleOK DEF Holding
    <2> QED
      BY <2>1, Parts DEF Exclusive
  <1> QED
    BY <1>4, <1>5, <1>6, <1>7 DEF AiInv

\* A challenge that expires was held by nobody.
LEMMA ExpiryKeeps ==
  ASSUME AiInv, NEW n \in Nonces, ChallengeExpires(n)
  PROVE  AiInv'
  <1>1. /\ chal[n].state = "open" /\ chal' = [chal EXCEPT ![n].state = "expired"]
        /\ UNCHANGED <<status, cred, sessions, issued, swept, task>>
    BY DEF ChallengeExpires
  <1>2. \A m \in Nonces : chal[m].state = "consumed" => chal'[m] = chal[m]
    BY <1>1, Parts
  <1>3. chal' \in [Nonces -> ChalRow]
    BY <1>1, Parts DEF ChalRow
  <1>4. TypeOK'
    BY <1>1, <1>3, Parts DEF TypeOK
  <1>5. RowsOK'
    BY <1>1, <1>2, Parts DEF RowsOK, ChallengeOnce, SessionIsProved, RevocationComplete
  <1>6. ASSUME NEW q \in Tasks PROVE HandlerOK(task[q])'
    BY <1>1, <1>2, Parts DEF HandlerOK, Carries, ManagerOK, AuthOK, MeOK, Holding
  <1>7. Exclusive'
    BY <1>1, Parts DEF Exclusive, Holding
  <1> QED
    BY <1>4, <1>5, <1>6, <1>7 DEF AiInv

----------------------------------------------------------------------------

\* AiInv is inductive.
LEMMA AiInvInit == Init => AiInv
  <1> SUFFICES ASSUME Init PROVE AiInv
    OBVIOUS
  <1>1. TypeOK
    BY IdleOK DEF Init, TypeOK, CredRow, ChalRow, Stati
  <1>2. RowsOK
    BY DEF Init, RowsOK, ChallengeOnce, SessionIsProved, RevocationComplete
  <1>3. \A p \in Tasks : task[p] = Idle
    BY DEF Init
  <1>4. Exclusive
    BY <1>3, IdleOK DEF Exclusive, Holding
  <1> QED
    BY <1>1, <1>2, <1>3, <1>4, IdleOK DEF AiInv

LEMMA AiInvStep == AiInv /\ [Next]_vars => AiInv'
  <1> SUFFICES ASSUME AiInv, [Next]_vars PROVE AiInv'
    OBVIOUS
  <1>1. CASE UNCHANGED vars
    BY <1>1 DEF vars, AiInv, TypeOK, RowsOK, ChallengeOnce, SessionIsProved,
      RevocationComplete, HandlerOK, Carries, ManagerOK, AuthOK, MeOK, Holding, Exclusive
  <1>2. ASSUME NEW n \in Nonces, ChallengeExpires(n) PROVE AiInv'
    BY <1>2, ExpiryKeeps
  <1>3. ASSUME NEW p \in Tasks,
               \/ StartRegister(p) \/ StartAdd(p) \/ StartRevoke(p) \/ StartStatus(p)
               \/ StartChallenge(p) \/ StartAuthenticate(p) \/ StartMe(p)
        PROVE AiInv'
    BY <1>3, StartKeeps
  <1>4. ASSUME NEW p \in Tasks, AddFindsActor(p) \/ StatusFindsActor(p)
          \/ ChallengeFindsActor(p) \/ CheckActor(p) \/ MatchCredential(p)
          \/ MeFindsSession(p) \/ MeLoadsActor(p)
        PROVE AiInv'
    BY <1>4, ReadKeeps
  <1>5. ASSUME NEW p \in Tasks, Answer(p) \/ Fail(p) PROVE AiInv'
    BY <1>5, EndKeeps DEF Answer, Fail
  <1>6. ASSUME NEW p \in Tasks, RevokeKey(p) PROVE AiInv'
    <2>1. CASE KeyUsable(task[p].key) /\ cred[task[p].key].owner = task[p].actor
      BY <1>6, <2>1, RevokeKeeps
    <2>2. CASE ~(KeyUsable(task[p].key) /\ cred[task[p].key].owner = task[p].actor)
      BY <1>6, <2>2, EndKeeps DEF RevokeKey, db
    <2> QED
      BY <2>1, <2>2
  <1>7. ASSUME NEW p \in Tasks, ConsumeChallenge(p) PROVE AiInv'
    <2>1. CASE chal[task[p].nonce] = [actor |-> task[p].actor, state |-> "open"]
      BY <1>7, <2>1, ConsumeKeeps
    <2>2. CASE chal[task[p].nonce] # [actor |-> task[p].actor, state |-> "open"]
      BY <1>7, <2>2, EndKeeps DEF ConsumeChallenge, db
    <2> QED
      BY <2>1, <2>2
  <1>8. ASSUME NEW p \in Tasks, CreateActor(p) \/ StoreKey(p) \/ SweepKeySessions(p)
          \/ WriteStatus(p) \/ DropSessions(p) \/ CreateChallenge(p) \/ IssueSession(p)
        PROVE AiInv'
    BY <1>8, CreateKeeps, StoreKeeps, SweepKeeps, StatusKeeps, DropKeeps, ChallengeKeeps,
       IssueKeeps
  <1> QED
    BY <1>1, <1>2, <1>3, <1>4, <1>5, <1>6, <1>7, <1>8 DEF Next

LEMMA AiInvHolds == Spec => []AiInv
  BY AiInvInit, AiInvStep, PTL DEF Spec

\* Type correctness: every row and every handler keeps its type.
THEOREM TypeCorrect == Spec => []TypeOK
  <1>1. AiInv => TypeOK
    BY DEF AiInv
  <1> QED
    BY <1>1, AiInvHolds, PTL

\* The guarded UPDATE of authenticate lets one session come from a nonce, for
\* any number of authentications at once.
THEOREM ChallengeOnceHolds == Spec => []ChallengeOnce
  <1>1. AiInv => ChallengeOnce
    BY DEF AiInv, RowsOK
  <1> QED
    BY <1>1, AiInvHolds, PTL

\* Every session rests on its own actor's challenge and key.
THEOREM SessionIsProvedHolds == Spec => []SessionIsProved
  <1>1. AiInv => SessionIsProved
    BY DEF AiInv, RowsOK
  <1> QED
    BY <1>1, AiInvHolds, PTL

\* After revoke_credential has answered, only sessions of authentications it
\* overlapped are left under the key.
THEOREM RevocationCompleteHolds == Spec => []RevocationComplete
  <1>1. AiInv => RevocationComplete
    BY DEF AiInv, RowsOK
  <1> QED
    BY <1>1, AiInvHolds, PTL

\* The extractor AuthedActor serves neither an ended session nor an actor that
\* has not been active since the request began.
THEOREM StoppedActorRefusedHolds == Spec => []StoppedActorRefused
  <1>1. AiInv => StoppedActorRefused
    BY DEF AiInv, HandlerOK, Carries, MeOK, StoppedActorRefused
  <1> QED
    BY <1>1, AiInvHolds, PTL

\* set_actor_status brings no retired actor back unless it had read the actor
\* as not retired: of all steps only its UPDATE changes the status of an actor
\* that exists, and a change that began on a retired actor gets that far only
\* after another one has undone the retirement.
THEOREM RetiredIsLastHolds == Spec => RetiredIsLast
  <1> DEFINE Allowed ==
        \A a \in Actors : status[a] = "retired" /\ status'[a] # "retired" =>
          \E p \in Tasks : /\ At(p, "status", "write") /\ task'[p].pc # "write"
                          /\ task[p].actor = a /\ ~task[p].stopped
  <1>1. ASSUME AiInv, Next PROVE Allowed
    <2>1. CASE UNCHANGED status
      BY <2>1
    <2>2. ASSUME NEW p \in Tasks, CreateActor(p) PROVE Allowed
      <3>1. task[p].actor \in Actors /\ status[task[p].actor] = "none"
        BY <2>2, <1>1, Parts DEF CreateActor, At, HandlerOK, Carries, ManagerOK
      <3>2. \A a \in Actors : status[a] = "retired" => status'[a] = "retired"
        BY <2>2, <1>1, <3>1, Parts DEF CreateActor
      <3> QED
        BY <3>2
    <2>3. ASSUME NEW p \in Tasks, WriteStatus(p) PROVE Allowed
      <3>1. /\ At(p, "status", "write") /\ ~task[p].stopped /\ task[p].actor \in Actors
            /\ status' = [status EXCEPT ![task[p].actor] = task[p].to]
        BY <2>3, <1>1, Parts DEF WriteStatus, At, HandlerOK, Carries, ManagerOK
      <3>2. task'[p].pc # "write"
        BY <2>3, <1>1, StatusShape DEF Idle
      <3>3. \A a \in Actors : a # task[p].actor => status'[a] = status[a]
        BY <1>1, <3>1, Parts
      <3> QED
        BY <3>1, <3>2, <3>3
    <2> QED
      BY <1>1, <2>1, <2>2, <2>3 DEF Next, StartRegister, StartAdd, AddFindsActor, StoreKey,
         StartRevoke, RevokeKey, SweepKeySessions, StartStatus, StatusFindsActor,
         DropSessions, StartChallenge, ChallengeFindsActor, CreateChallenge,
         StartAuthenticate, ConsumeChallenge, CheckActor, MatchCredential, IssueSession,
         StartMe, MeFindsSession, MeLoadsActor, Answer, Fail, ChallengeExpires, db
  <1>2. ASSUME AiInv, [Next]_vars PROVE [Allowed]_vars
    BY <1>1, <1>2
  <1>3. AiInv /\ [Next]_vars => [Allowed]_vars
    BY <1>2
  <1> QED
    BY <1>3, AiInvHolds, PTL DEF Spec, RetiredIsLast

----------------------------------------------------------------------------
(* A challenge is a credential for one use.                                *)

\* What a challenge is to OneTime rests on its row, its sessions and whether
\* an authentication holds it.
LEMMA SameLife ==
  ASSUME NEW n \in Nonces, chal'[n] = chal[n], UNCHANGED issued, Held(n)' <=> Held(n)
  PROVE  Life(n)' = Life(n)
  BY DEF Life, SessionsOf

\* A held challenge is consumed, has no session and so counts as claimed; the
\* row of one that has a session is consumed.
LEMMA HeldIs ==
  ASSUME AiInv, NEW n \in Nonces
  PROVE  /\ Held(n) => chal[n].state = "consumed" /\ SessionsOf(n) = {}
         /\ SessionsOf(n) # {} => chal[n].state = "consumed"
  <1>1. ASSUME NEW q \in Tasks, Holding(task[q]), task[q].nonce = n
        PROVE  chal[n].state = "consumed" /\ SessionsOf(n) = {}
    <2>1. /\ chal[n] = [actor |-> task[q].actor, state |-> "consumed"]
          /\ \A s \in issued : s.nonce # n
      BY <1>1, Parts DEF HandlerOK, AuthOK
    <2> QED
      BY <2>1 DEF SessionsOf
  <1>2. ASSUME NEW s \in SessionsOf(n) PROVE chal[n].state = "consumed"
    <2>1. s \in issued /\ s.nonce = n
      BY <1>2 DEF SessionsOf
    <2>2. chal[n] = [actor |-> s.actor, state |-> "consumed"]
      BY <2>1, Parts DEF RowsOK, SessionIsProved
    <2> QED
      BY <2>2
  <1> QED
    BY <1>1, <1>2 DEF Held

\* Challenges that expire or are given up.
LEMMA CloseRefines ==
  ASSUME NEW S \in SUBSET Nonces, UNCHANGED issued,
         \A n \in S : Life(n) \in {"open", "claimed"},
         \A n \in Nonces : Life(n)' = IF n \in S THEN "closed" ELSE Life(n)
  PROVE  Challenge!Next
  <1>1. \A n \in Nonces : SessionsOf(n)' = SessionsOf(n)
    BY DEF SessionsOf
  <1>2. Challenge!Close(S)
    BY <1>1 DEF Challenge!Close
  <1> QED
    BY <1>2 DEF Challenge!Next

\* A step that writes neither challenges nor sessions and consumes nothing can
\* only give up what authentications hold.
LEMMA GiveUpRefines ==
  ASSUME AiInv, UNCHANGED <<chal, issued>>,
         \A q \in Tasks : Holding(task[q])' =>
           Holding(task[q]) /\ task'[q].nonce = task[q].nonce
  PROVE  Challenge!Next
  <1> DEFINE S == {n \in Nonces : Life(n) = "claimed" /\ ~Held(n)'}
  <1>1. \A n \in Nonces : Held(n)' => Held(n)
    BY DEF Held
  <1>2. ASSUME NEW n \in S PROVE Life(n)' = "closed"
    <2>1. Held(n) /\ SessionsOf(n) = {} /\ ~Held(n)'
      BY <1>2 DEF Life
    <2>2. chal[n].state = "consumed"
      BY <1>2, <2>1, HeldIs
    <2> QED
      BY <2>1, <2>2 DEF Life, SessionsOf
  <1>3. ASSUME NEW n \in Nonces, n \notin S PROVE Life(n)' = Life(n)
    <2>1. CASE Held(n)' <=> Held(n)
      BY <2>1, SameLife
    <2>2. CASE Held(n) /\ ~Held(n)'
      BY <1>3, <2>2, HeldIs DEF Life
    <2> QED
      BY <1>1, <2>1, <2>2
  <1>4. \A n \in S : Life(n) \in {"open", "claimed"}
    OBVIOUS
  <1> HIDE DEF S
  <1>5. S \in SUBSET Nonces
    BY DEF S
  <1> QED
    BY <1>2, <1>3, <1>4, <1>5, CloseRefines

\* A handler that ends holds nothing.
LEMMA EndHolds ==
  ASSUME AiInv, NEW p \in Tasks, End(p), NEW q \in Tasks
  PROVE  /\ Holding(task[q])' <=> q # p /\ Holding(task[q])
         /\ Holding(task[q])' => task'[q].nonce = task[q].nonce
  <1>1. task'[q] = IF q = p THEN Idle ELSE task[q]
    BY Parts DEF End
  <1> QED
    BY <1>1, IdleOK DEF Holding

\* issue_challenge opens a challenge that was never used.
LEMMA CreateRefines ==
  ASSUME AiInv, NEW p \in Tasks, CreateChallenge(p)
  PROVE  Challenge!Next
  <1>1. PICK n \in Nonces :
          /\ chal[n].state = "unused"
          /\ chal' = [chal EXCEPT ![n] = [actor |-> task[p].actor, state |-> "open"]]
    BY DEF CreateChallenge
  <1>2. UNCHANGED issued /\ ~Holding(task[p])
    BY DEF CreateChallenge, At, Holding
  <1>3. \A m \in Nonces : Held(m)' <=> Held(m)
    BY <1>2, EndHolds DEF CreateChallenge, Held
  <1>4. ~Held(n) /\ SessionsOf(n) = {}
    BY <1>1, HeldIs
  <1>5. chal'[n].state = "open" /\ \A m \in Nonces : m # n => chal'[m] = chal[m]
    BY <1>1, Parts
  <1>6. Life(n) = "unissued" /\ Life(n)' = "open"
    BY <1>1, <1>2, <1>3, <1>4, <1>5 DEF Life, SessionsOf
  <1>7. \A m \in Nonces : m # n => Life(m)' = Life(m)
    BY <1>2, <1>3, <1>5, SameLife
  <1>8. \A m \in Nonces : SessionsOf(m)' = SessionsOf(m)
    BY <1>2 DEF SessionsOf
  <1>9. Challenge!Issue(n)
    BY <1>6, <1>7, <1>8 DEF Challenge!Issue
  <1> QED
    BY <1>9 DEF Challenge!Next

\* The guarded UPDATE claims an open challenge.
LEMMA ConsumeRefines ==
  ASSUME AiInv, NEW p \in Tasks, ConsumeChallenge(p),
         chal[task[p].nonce] = [actor |-> task[p].actor, state |-> "open"]
  PROVE  Challenge!Next
  <1>0. PICK n : n = task[p].nonce
    OBVIOUS
  <1>1. /\ n \in Nonces /\ chal[n].state = "open" /\ UNCHANGED issued
        /\ chal' = [chal EXCEPT ![n].state = "consumed"] /\ Goto(p, "gate")
        /\ task[p].op = "authenticate" /\ ~Holding(task[p])
    BY <1>0, Parts DEF ConsumeChallenge, At, Holding, HandlerOK, Carries
  <1>2. PICK t \in Task : /\ task' = [task EXCEPT ![p] = t]
                          /\ t.pc = "gate" /\ t.op = task[p].op /\ t.nonce = n
    BY <1>0, <1>1, GotoShape
  <1>3. \A q \in Tasks : task'[q] = IF q = p THEN t ELSE task[q]
    BY <1>2, Parts
  <1>4. Holding(t)
    BY <1>1, <1>2 DEF Holding
  <1>5. Held(n)' /\ ~Held(n) /\ SessionsOf(n) = {}
    <2>1. Held(n)'
      BY <1>2, <1>3, <1>4 DEF Held, Holding
    <2> QED
      BY <1>1, <2>1, HeldIs
  <1>6. \A m \in Nonces : m # n => (Held(m)' <=> Held(m))
    <2>1. task'[p].nonce = n /\ \A q \in Tasks : q # p => task'[q] = task[q]
      BY <1>2, <1>3
    <2>2. ASSUME NEW m \in Nonces, m # n, NEW q \in Tasks
          PROVE  Holding(task[q])' /\ task'[q].nonce = m
                   <=> Holding(task[q]) /\ task[q].nonce = m
      BY <1>1, <2>1, <2>2 DEF Holding
    <2> QED
      BY <2>2 DEF Held
  <1>7. \A m \in Nonces : m # n => chal'[m] = chal[m]
    BY <1>1, Parts
  <1>8. Life(n) = "open" /\ Life(n)' = "claimed"
    BY <1>1, <1>5 DEF Life, SessionsOf
  <1>9. \A m \in Nonces : m # n => Life(m)' = Life(m)
    BY <1>1, <1>6, <1>7, SameLife
  <1>10. \A m \in Nonces : SessionsOf(m)' = SessionsOf(m)
    BY <1>1 DEF SessionsOf
  <1>11. Challenge!Claim(n)
    BY <1>1, <1>8, <1>9, <1>10 DEF Challenge!Claim
  <1> QED
    BY <1>1, <1>11 DEF Challenge!Next

\* issue_session finishes with the challenge that its handler holds.
LEMMA IssueRefines ==
  ASSUME AiInv, NEW p \in Tasks, IssueSession(p)
  PROVE  Challenge!Next
  <1>0. PICK n : n = task[p].nonce
    OBVIOUS
  <1>1. n \in Nonces /\ Holding(task[p]) /\ UNCHANGED chal
    BY <1>0, Parts DEF IssueSession, At, Holding, HandlerOK, Carries
  <1>2. PICK s : issued' = issued \cup {s} /\ s.nonce = n
    <2>1. PICK late \in BOOLEAN : late = ~KeyUsable(task[p].key)
      OBVIOUS
    <2> DEFINE new == [by |-> p, nonce |-> n, actor |-> task[p].actor,
                       key |-> task[p].key, early |-> task[p].early, late |-> late]
    <2>2. issued' = issued \cup {new}
      BY <1>0, <2>1, Zenon DEF IssueSession
    <2>3. new.nonce = n
      OBVIOUS
    <2> HIDE DEF new
    <2> QED
      BY <2>2, <2>3
  <1>3. Held(n) /\ SessionsOf(n) = {}
    BY <1>0, <1>1, HeldIs DEF Held
  <1>4. SessionsOf(n)' = {s} /\ \A m \in Nonces : m # n => SessionsOf(m)' = SessionsOf(m)
    <2>1. \A m \in Nonces : SessionsOf(m)' = {x \in issued \cup {s} : x.nonce = m}
      BY <1>2 DEF SessionsOf
    <2>2. \A x \in issued : x.nonce # n
      BY <1>3 DEF SessionsOf
    <2>3. {x \in issued \cup {s} : x.nonce = n} = {s}
      BY <1>2, <2>2
    <2>4. ASSUME NEW m \in Nonces, m # n
          PROVE  {x \in issued \cup {s} : x.nonce = m} = {x \in issued : x.nonce = m}
      BY <1>2, <2>4
    <2> QED
      BY <1>1, <2>1, <2>3, <2>4 DEF SessionsOf
  <1>5. \A m \in Nonces : m # n => (Held(m)' <=> Held(m))
    BY <1>0, <1>1, EndHolds DEF IssueSession, Held
  <1>6. Life(n) = "claimed" /\ Life(n)' = "done"
    BY <1>3, <1>4 DEF Life
  <1>7. \A m \in Nonces : m # n => Life(m)' = Life(m)
    BY <1>1, <1>4, <1>5 DEF Life
  <1>8. Challenge!Finish(n)
    BY <1>1, <1>4, <1>6, <1>7 DEF Challenge!Finish
  <1> QED
    BY <1>1, <1>8 DEF Challenge!Next

\* CHALLENGE_TTL_SECONDS close a challenge that nobody holds.
LEMMA ExpiryRefines ==
  ASSUME AiInv, NEW n \in Nonces, ChallengeExpires(n)
  PROVE  Challenge!Next
  <1>1. /\ chal[n].state = "open" /\ chal' = [chal EXCEPT ![n].state = "expired"]
        /\ UNCHANGED <<issued, task>>
    BY DEF ChallengeExpires
  <1>2. ~Held(n) /\ SessionsOf(n) = {} /\ \A m \in Nonces : Held(m)' <=> Held(m)
    BY <1>1, HeldIs DEF Held
  <1>3. chal'[n].state = "expired" /\ \A m \in Nonces : m # n => chal'[m] = chal[m]
    BY <1>1, Parts DEF ChalRow
  <1>4. Life(n) = "open" /\ Life(n)' = "closed"
    BY <1>1, <1>2, <1>3 DEF Life, SessionsOf
  <1>5. \A m \in Nonces : m # n => Life(m)' = Life(m)
    BY <1>1, <1>2, <1>3, SameLife
  <1> QED
    BY <1>1, <1>4, <1>5, CloseRefines, {n} \in SUBSET Nonces

\* Every other step leaves challenges and sessions alone and consumes nothing.
LEMMA OtherRefines ==
  ASSUME AiInv, NEW p \in Tasks,
         \/ StartRegister(p) \/ CreateActor(p) \/ StartAdd(p) \/ AddFindsActor(p)
         \/ StoreKey(p) \/ StartRevoke(p) \/ RevokeKey(p) \/ SweepKeySessions(p)
         \/ StartStatus(p) \/ StatusFindsActor(p) \/ WriteStatus(p) \/ DropSessions(p)
         \/ StartChallenge(p) \/ ChallengeFindsActor(p) \/ StartAuthenticate(p)
         \/ CheckActor(p) \/ MatchCredential(p)
         \/ StartMe(p) \/ MeFindsSession(p) \/ MeLoadsActor(p) \/ Answer(p)
         \/ Fail(p)
  PROVE  Challenge!Next
  <1>1. UNCHANGED <<chal, issued>>
    BY Zenon DEF StartRegister, CreateActor, StartAdd, AddFindsActor, StoreKey, StartRevoke,
         RevokeKey, SweepKeySessions, StartStatus, StatusFindsActor, WriteStatus,
         DropSessions, StartChallenge, ChallengeFindsActor, StartAuthenticate, CheckActor,
         MatchCredential, StartMe, MeFindsSession, MeLoadsActor, Answer, Fail, db
  <1>2. CASE End(p)
    BY <1>1, <1>2, EndHolds, GiveUpRefines
  <1>3. CASE \E x \in {"match", "session", "sweep", "write", "addkey", "create", "load",
                       "served"} :
               /\ Goto(p, x)
               /\ x \in {"match", "session"} => Holding(task[p])
    <2>1. PICK x \in {"match", "session", "sweep", "write", "addkey", "create", "load",
                      "served"} :
                 Goto(p, x) /\ (x \in {"match", "session"} => Holding(task[p]))
      BY <1>3
    <2>2. PICK t \in Task : /\ task' = [task EXCEPT ![p] = t]
                            /\ t.pc = x /\ t.nonce = task[p].nonce
      BY <2>1, GotoShape
    <2>3. \A q \in Tasks : task'[q] = IF q = p THEN t ELSE task[q]
      BY <2>2, Parts
    <2>4. Holding(t) => Holding(task[p])
      BY <2>1, <2>2 DEF Holding
    <2> QED
      BY <1>1, <2>2, <2>3, <2>4, GiveUpRefines DEF Holding
  <1>4. CASE \E t : t.pc = "first" /\ task' = [task EXCEPT ![p] = t]
    <2>1. PICK t : t.pc = "first" /\ task' = [task EXCEPT ![p] = t]
      BY <1>4
    <2>2. \A q \in Tasks : task'[q] = IF q = p THEN t ELSE task[q]
      BY <2>1, Parts
    <2> QED
      BY <1>1, <2>1, <2>2, GiveUpRefines DEF Holding
  <1>5. CASE WriteStatus(p)
    <2>1. \A q \in Tasks : Holding(task[q])' =>
            Holding(task[q]) /\ task'[q].nonce = task[q].nonce
      BY <1>5, StatusShape, IdleOK DEF Holding
    <2> QED
      BY <1>1, <2>1, GiveUpRefines
  <1>6. ASSUME \/ StartRegister(p) \/ StartAdd(p) \/ StartRevoke(p) \/ StartStatus(p)
               \/ StartChallenge(p) \/ StartAuthenticate(p) \/ StartMe(p)
        PROVE  \E t : t.pc = "first" /\ task' = [task EXCEPT ![p] = t]
    BY <1>6, StartKeeps
  <1>7. ASSUME \/ CreateActor(p) \/ AddFindsActor(p) \/ StoreKey(p) \/ RevokeKey(p)
               \/ SweepKeySessions(p) \/ StatusFindsActor(p) \/ DropSessions(p)
               \/ ChallengeFindsActor(p) \/ CheckActor(p) \/ MatchCredential(p)
               \/ MeFindsSession(p) \/ MeLoadsActor(p) \/ Answer(p) \/ Fail(p)
        PROVE  \/ End(p)
               \/ \E x \in {"match", "session", "sweep", "write", "addkey", "create",
                             "load", "served"} :
                    /\ Goto(p, x)
                    /\ x \in {"match", "session"} => Holding(task[p])
    BY <1>7 DEF CreateActor, AddFindsActor, StoreKey, RevokeKey, SweepKeySessions,
                StatusFindsActor, DropSessions, ChallengeFindsActor, CheckActor,
                MatchCredential, MeFindsSession, MeLoadsActor, Answer, Fail, At, Holding
  <1> QED
    BY <1>2, <1>3, <1>4, <1>5, <1>6, <1>7

LEMMA StepRefines == AiInv /\ [Next]_vars => [Challenge!Next]_(Challenge!lifeVars)
  <1> SUFFICES ASSUME AiInv, [Next]_vars PROVE [Challenge!Next]_(Challenge!lifeVars)
    OBVIOUS
  <1>1. CASE UNCHANGED vars
    BY <1>1 DEF vars, Challenge!lifeVars, Life, Held, SessionsOf, Holding
  <1>2. ASSUME NEW n \in Nonces, ChallengeExpires(n) PROVE Challenge!Next
    BY <1>2, ExpiryRefines
  <1>3. ASSUME NEW p \in Tasks, CreateChallenge(p) \/ IssueSession(p) PROVE Challenge!Next
    BY <1>3, CreateRefines, IssueRefines
  <1>4. ASSUME NEW p \in Tasks, ConsumeChallenge(p) PROVE Challenge!Next
    <2>1. CASE chal[task[p].nonce] = [actor |-> task[p].actor, state |-> "open"]
      BY <1>4, <2>1, ConsumeRefines
    <2>2. CASE chal[task[p].nonce] # [actor |-> task[p].actor, state |-> "open"]
      <3>1. End(p) /\ UNCHANGED <<chal, issued>>
        BY <1>4, <2>2 DEF ConsumeChallenge
      <3> QED
        BY <3>1, EndHolds, GiveUpRefines
    <2> QED
      BY <2>1, <2>2
  <1> QED
    BY <1>1, <1>2, <1>3, <1>4, OtherRefines DEF Next

\* A nonce is claimed once, by the UPDATE that found it open, and what comes of
\* it is one session or none, however its handlers interleave, fail or stop.
THEOREM ImplementsOneTimeHolds == Spec => ImplementsOneTime
  <1>1. Init => Challenge!Init
    BY DEF Init, Challenge!Init, Life, Held, Holding, SessionsOf, Idle
  <1> QED
    BY <1>1, StepRefines, AiInvHolds, PTL DEF Spec, ImplementsOneTime, Challenge!Spec
=============================================================================
