----------------------------- MODULE OidcTokens -----------------------------
(***************************************************************************)
(* The OpenID provider of SoulAuth (services/oidc.rs, routes/oidc.rs) for  *)
(* one user and one client: authorization codes, the code and refresh      *)
(* grants, userinfo, and the handlers that revoke what was issued:         *)
(* logout-all, a password reset, a status change by an administrator, the  *)
(* provider's own logout endpoint, and the detection of a refresh token    *)
(* presented twice.                                                        *)
(*                                                                         *)
(* Each database statement is one step.  A pair is what one call of        *)
(* generate_tokens stores: an access token and the refresh token that      *)
(* names it.  Requests that are refused without effect (wrong client,      *)
(* redirect URI, verifier or secret, no openid scope) are covered by Fail. *)
(***************************************************************************)
EXTENDS Naturals, FiniteSets

CONSTANTS
  Codes,    \* authorization codes that may be issued
  Pairs,    \* token pairs that may be issued
  NoCode, NoPair,
  Tasks,    \* slots for handlers in flight
  Kinds,    \* the kinds of request that arrive
  Expiring  \* the tables whose rows reach their expires_at

AllKinds == {"authorize", "exchange", "refresh", "userinfo", "revokeall",
             "status", "rplogout"}

ASSUME OidcTokensAssumption ==
  /\ NoCode \notin Codes /\ NoPair \notin Pairs
  /\ Kinds \subseteq AllKinds
  /\ Expiring \subseteq {"code", "access", "refresh"}

VARIABLES
  signedIn,   \* the user has a live session
  row, root,  \* user.account_status and actor_identity.status
  code,       \* oidc_authorization_code rows
  access,     \* oidc_access_token rows
  refresh,    \* oidc_refresh_token rows
  expired,    \* rows that are there and whose expires_at has passed
  origin,     \* the code a pair descends from
  parent,     \* the pair whose refresh token it was exchanged for
  idToken,    \* some ID token is out
  task,       \* the handlers in flight
  voidPairs   \* history: pairs an answered logout-all, reset or reuse
              \* detection found settled

rows == <<code, access, refresh, expired, origin, parent, idToken>>
account == <<signedIn, row, root>>
vars == <<account, rows, task, voidPairs>>

Pcs == {"idle", "session", "gate", "user", "save", "readcode", "mark",
        "readrefresh", "consume", "drop", "readaccess", "load", "loadgate",
        "saveaccess", "saverefresh", "idtoken", "subject", "row",
        "root", "sessions", "revokeaccess", "revokerefresh"}

Task ==
  [pc : Pcs, kind : AllKinds, code : Codes \cup {NoCode},
   old : Pairs \cup {NoPair}, new : Pairs \cup {NoPair},
   usable : BOOLEAN,                 \* its copy of the user row says Active
   status : {"Active", "Suspended"},
   key : {"user", "actor", "subject"},  \* the key a revocation matches by
   barred : BOOLEAN,                 \* history: began on a suspended root
   pairs : SUBSET Pairs]             \* history: what it found

IdleTask ==
  [pc |-> "idle", kind |-> "userinfo", code |-> NoCode, old |-> NoPair,
   new |-> NoPair, usable |-> FALSE, status |-> "Active", key |-> "user",
   barred |-> FALSE, pairs |-> {}]

\* A row's name in the set of expired rows.
CodeRow(c) == <<"code", c>>
AccessRow(n) == <<"access", n>>
RefreshRow(n) == <<"refresh", n>>
RowNames == {CodeRow(c) : c \in Codes} \cup {AccessRow(n) : n \in Pairs}
              \cup {RefreshRow(n) : n \in Pairs}

TypeOK ==
  /\ signedIn \in BOOLEAN
  /\ row \in {"Active", "Suspended"}
  /\ root \in {"active", "suspended"}
  /\ code \in [Codes -> {"none", "fresh", "used", "gone"}]
  /\ access \in [Pairs -> {"none", "live", "gone"}]
  /\ refresh \in [Pairs -> {"none", "fresh", "used", "gone"}]
  /\ expired \in SUBSET RowNames
  /\ origin \in [Pairs -> Codes \cup {NoCode}]
  /\ parent \in [Pairs -> Pairs \cup {NoPair}]
  /\ idToken \in BOOLEAN
  /\ task \in [Tasks -> Task]
  /\ voidPairs \in SUBSET Pairs

Init ==
  /\ signedIn = FALSE /\ row = "Active" /\ root = "active"
  /\ code = [c \in Codes |-> "none"]
  /\ access = [n \in Pairs |-> "none"]
  /\ refresh = [n \in Pairs |-> "none"]
  /\ expired = {}
  /\ origin = [n \in Pairs |-> NoCode]
  /\ parent = [n \in Pairs |-> NoPair]
  /\ idToken = FALSE
  /\ task = [p \in Tasks |-> IdleTask]
  /\ voidPairs = {}

Goto(p, pc) == task' = [task EXCEPT ![p].pc = pc]
End(p) == task' = [task EXCEPT ![p] = IdleTask]

\* A token that its endpoint would accept.
UsableAccess(n) == access[n] = "live" /\ AccessRow(n) \notin expired
UsableRefresh(n) == refresh[n] = "fresh" /\ RefreshRow(n) \notin expired

\* Pairs that can be used and are not still being stored.
Settled ==
  {n \in Pairs : /\ UsableAccess(n) \/ UsableRefresh(n)
                 /\ \A p \in Tasks : task[p].new # n}

---------------------------------------------------------------------------
(* The account around the provider.                                        *)

\* A login or a logout elsewhere (AccountLifecycle and BearerGate have them).
SessionChanges ==
  /\ \/ ~signedIn /\ root = "active" /\ row = "Active"
     \/ signedIn
  /\ signedIn' = ~signedIn
  /\ UNCHANGED <<row, root, rows, task, voidPairs>>

StatusChanging == \E p \in Tasks : task[p].pc # "idle" /\ task[p].kind = "status"

\* Where a handler begins; the bearer path of authorize asks more than the
\* cookie path, and both begin with the session.
FirstPc(k) ==
  CASE k = "authorize" -> "session"
    [] k = "exchange"  -> "readcode"
    [] k = "refresh"   -> "readrefresh"
    [] k = "userinfo"  -> "readaccess"
    [] k = "revokeall" -> "sessions"
    [] k = "status"    -> "row"
    [] k = "rplogout"  -> "revokeaccess"

\* The key each caller of the revocation passes: a user id from the session or
\* the path, the actor a stored refresh token names, or the `sub` claim of an
\* ID token, which is the root's subject_key.
KeyOf(k) ==
  CASE k = "refresh"  -> "actor"
    [] k = "rplogout" -> "subject"
    [] OTHER          -> "user"

\* What a caller may present: a code or a token that was issued at some time.
CodesFor(k) == IF k = "exchange" THEN {c \in Codes : code[c] # "none"}
                                 ELSE {NoCode}
PairsFor(k) ==
  CASE k = "refresh"  -> {n \in Pairs : refresh[n] # "none"}
    [] k = "userinfo" -> {n \in Pairs : access[n] # "none"}
    [] OTHER          -> {NoPair}

\* A request reaches its handler.  A "revokeall" is a logout-all, which asks for
\* a session, or the tail of a password reset, which asks for none: the two
\* then run the same statements.
Start(p, k) ==
  /\ task[p].pc = "idle"
  /\ k = "rplogout" => idToken
  /\ \E c \in CodesFor(k), n \in PairsFor(k),
        s \in IF k = "status" THEN {"Active", "Suspended"} ELSE {"Active"} :
       LET new == [IdleTask EXCEPT
                     !.pc = FirstPc(k), !.kind = k, !.code = c, !.old = n,
                     !.status = s, !.key = KeyOf(k),
                     !.barred = root = "suspended" /\ ~StatusChanging
                                  /\ k \in {"exchange", "refresh", "userinfo"},
                     !.pairs = IF k = "revokeall" THEN Settled ELSE {}]
       IN  task' = [q \in Tasks |->
                      IF q = p THEN new
                      ELSE IF k = "status" THEN [task[q] EXCEPT !.barred = FALSE]
                      ELSE task[q]]
  /\ UNCHANGED <<account, rows, voidPairs>>

---------------------------------------------------------------------------
(* authorize: a code for a signed-in user.                                 *)

\* decode_and_verify_token on the bearer path, browser_session_is_active on
\* the cookie path; only the first asks the identity root.
CheckSession(p) ==
  /\ task[p].pc = "session"
  /\ IF signedIn THEN Goto(p, "gate") \/ Goto(p, "user") ELSE End(p)
  /\ UNCHANGED <<account, rows, voidPairs>>

\* A request that also carries the cookie falls through to it when the bearer
\* path does not succeed.
AuthorizeGate(p) ==
  /\ task[p].pc = "gate"
  /\ IF root = "active" THEN Goto(p, "user") ELSE Goto(p, "session") \/ End(p)
  /\ UNCHANGED <<account, rows, voidPairs>>

\* load_user_from_actor or resolve_existing_user_id: the row must be usable.
\* A client that is unknown or inactive, or a request it does not allow, ends
\* the request as well (Fail).
AuthorizeUser(p) ==
  /\ task[p].pc = "user"
  /\ IF row = "Active" THEN Goto(p, "save") ELSE Goto(p, "session") \/ End(p)
  /\ UNCHANGED <<account, rows, voidPairs>>

SaveCode(p) ==
  /\ task[p].pc = "save"
  /\ \E c \in Codes : /\ code[c] = "none"
                      /\ code' = [code EXCEPT ![c] = "fresh"]
  /\ End(p)
  /\ UNCHANGED <<account, access, refresh, expired, origin, parent, idToken,
                 voidPairs>>

---------------------------------------------------------------------------
(* The two grants.                                                         *)

ReadCode(p) ==
  LET c == task[p].code
  IN  /\ task[p].pc = "readcode"
      /\ IF code[c] = "fresh" /\ CodeRow(c) \notin expired
           THEN Goto(p, "mark") ELSE End(p)
      /\ UNCHANGED <<account, rows, voidPairs>>

\* Mutant: the UPDATE does not ask whether the code is still unused.
MarkCodeUnguarded(p) ==
  LET c == task[p].code
  IN  /\ task[p].pc = "mark"
      /\ IF code[c] # "gone"
           THEN code' = [code EXCEPT ![c] = "used"] /\ Goto(p, "load")
           ELSE End(p) /\ UNCHANGED code
      /\ UNCHANGED <<account, access, refresh, expired, origin, parent, idToken,
                     voidPairs>>

\* update_authorization_code: SET used = true WHERE used = false.
MarkCode(p) ==
  LET c == task[p].code
  IN  /\ task[p].pc = "mark"
      /\ IF code[c] = "fresh"
           THEN code' = [code EXCEPT ![c] = "used"] /\ Goto(p, "load")
           ELSE End(p) /\ UNCHANGED code
      /\ UNCHANGED <<account, access, refresh, expired, origin, parent, idToken,
                     voidPairs>>

\* A refresh token presented after it was used: everything the user has at
\* this client is revoked.
ReadRefresh(p) ==
  LET n == task[p].old
  IN  /\ task[p].pc = "readrefresh"
      /\ CASE UsableRefresh(n) -> Goto(p, "consume")
           [] refresh[n] = "used" /\ RefreshRow(n) \notin expired ->
                task' = [task EXCEPT ![p] = [@ EXCEPT !.pc = "revokeaccess",
                                             !.pairs = Settled]]
           [] OTHER -> End(p)
      /\ UNCHANGED <<account, rows, voidPairs>>

\* Mutant: the UPDATE does not ask whether the token is still unused.
ConsumeUnguarded(p) ==
  LET n == task[p].old
  IN  /\ task[p].pc = "consume"
      /\ IF refresh[n] # "gone"
           THEN refresh' = [refresh EXCEPT ![n] = "used"] /\ Goto(p, "drop")
           ELSE End(p) /\ UNCHANGED refresh
      /\ UNCHANGED <<account, code, access, expired, origin, parent, idToken,
                     voidPairs>>

\* consume_refresh_token_by_hash: SET used = true WHERE used = false.
ConsumeRefresh(p) ==
  LET n == task[p].old
  IN  /\ task[p].pc = "consume"
      /\ IF refresh[n] = "fresh"
           THEN refresh' = [refresh EXCEPT ![n] = "used"] /\ Goto(p, "drop")
           ELSE End(p) /\ UNCHANGED refresh
      /\ UNCHANGED <<account, code, access, expired, origin, parent, idToken,
                     voidPairs>>

\* Mutant: the access token of the old pair is left to expire.
DropNothing(p) ==
  /\ task[p].pc = "drop"
  /\ Goto(p, "load")
  /\ UNCHANGED <<account, rows, voidPairs>>

\* revoke_access_token_by_hash; a scope that exceeds the grant is refused only
\* now, when the refresh token is already spent.
DropAccess(p) ==
  /\ task[p].pc = "drop"
  /\ access' = [access EXCEPT ![task[p].old] = "gone"]
  /\ expired' = expired \ {AccessRow(task[p].old)}
  /\ Goto(p, "load") \/ End(p)
  /\ UNCHANGED <<account, code, refresh, origin, parent, idToken, voidPairs>>

\* load_active_user: the user row first,
LoadUser(p) ==
  /\ task[p].pc = "load"
  /\ task' = [task EXCEPT ![p] = [@ EXCEPT !.pc = "loadgate",
                                           !.usable = row = "Active"]]
  /\ UNCHANGED <<account, rows, voidPairs>>

\* Mutant: only the user row is asked.
LoadGateByRow(p) ==
  /\ task[p].pc = "loadgate"
  /\ IF task[p].usable
       THEN Goto(p, IF task[p].kind = "userinfo" THEN "subject" ELSE "saveaccess")
       ELSE End(p)
  /\ UNCHANGED <<account, rows, voidPairs>>

\* then the identity root, then the status in the row that was read.
LoadGate(p) ==
  /\ task[p].pc = "loadgate"
  /\ IF root = "active" /\ task[p].usable
       THEN Goto(p, IF task[p].kind = "userinfo" THEN "subject" ELSE "saveaccess")
       ELSE End(p)
  /\ UNCHANGED <<account, rows, voidPairs>>

\* generate_tokens stores the access token under a hash not seen before; which
\* unused name stands for it makes no difference,
SaveAccess(p) ==
  LET t == task[p]
  IN  /\ t.pc = "saveaccess"
      /\ \E n \in Pairs : access[n] = "none"
      /\ LET n == CHOOSE m \in Pairs : access[m] = "none"
         IN  /\ access' = [access EXCEPT ![n] = "live"]
             /\ origin' = [origin EXCEPT ![n] =
                  IF t.kind = "exchange" THEN t.code ELSE origin[t.old]]
             /\ parent' = [parent EXCEPT ![n] = t.old]
             /\ task' = [task EXCEPT ![p] = [@ EXCEPT !.pc = "saverefresh",
                                                      !.new = n]]
      /\ UNCHANGED <<account, code, refresh, expired, idToken, voidPairs>>

\* then the refresh token that names it, if the client may refresh.
SaveRefresh(p) ==
  /\ task[p].pc = "saverefresh"
  /\ \/ refresh' = [refresh EXCEPT ![task[p].new] = "fresh"]
     \/ UNCHANGED refresh
  /\ Goto(p, "idtoken") \/ End(p)
  /\ UNCHANGED <<account, code, access, expired, origin, parent, idToken,
                 voidPairs>>

\* The subject of the ID token passes the gate once more.
GenerateIdToken(p) ==
  /\ task[p].pc = "idtoken"
  /\ idToken' = (idToken \/ root = "active")
  /\ End(p)
  /\ UNCHANGED <<account, code, access, refresh, expired, origin, parent,
                 voidPairs>>

---------------------------------------------------------------------------
(* userinfo.                                                               *)

ReadAccess(p) ==
  LET n == task[p].old
  IN  /\ task[p].pc = "readaccess"
      /\ IF UsableAccess(n) THEN Goto(p, "load") ELSE End(p)
      /\ UNCHANGED <<account, rows, voidPairs>>

\* stable_subject_of_user asks the root again; the claims are answered.
UserinfoSubject(p) ==
  /\ task[p].pc = "subject"
  /\ End(p)
  /\ UNCHANGED <<account, rows, voidPairs>>

---------------------------------------------------------------------------
(* Revocation.                                                             *)

SetRowStatus(p) ==
  /\ task[p].pc = "row"
  /\ row' = task[p].status
  /\ Goto(p, "root")
  /\ UNCHANGED <<signedIn, root, rows, voidPairs>>

\* The root follows, unless it cannot be loaded, which is only logged; then
\* only a status other than Active ends sessions and tokens.
SetRootStatus(p) ==
  /\ task[p].pc = "root"
  /\ \/ root' = IF task[p].status = "Active" THEN "active" ELSE "suspended"
     \/ UNCHANGED root
  /\ IF task[p].status = "Active" THEN End(p) ELSE Goto(p, "sessions")
  /\ UNCHANGED <<signedIn, row, rows, voidPairs>>

\* delete_sessions_by_user_id finds the sessions by the key of the user row.
DeleteSessions(p) ==
  /\ task[p].pc = "sessions"
  /\ signedIn' = (signedIn /\ task[p].key # "user")
  /\ IF task[p].kind = "rplogout"
       THEN End(p) ELSE Goto(p, "revokeaccess")
  /\ UNCHANGED <<row, root, rows, voidPairs>>

\* Mutant: the key is taken for an actor's, as in the tokens' own column.
MatchesActorOnly(key) == key = "actor"

\* user_id IN [actor_identity:key, subject_id of user:key].
Matches(key) == key \in {"actor", "user"}

\* revoke_client_tokens_for_user, revoke_all_tokens_for_user: the access
\* tokens first,
RevokeAccess(p) ==
  /\ task[p].pc = "revokeaccess"
  /\ access' = [n \in Pairs |-> IF access[n] = "live" /\ Matches(task[p].key)
                                  THEN "gone" ELSE access[n]]
  /\ expired' = {x \in expired : x[1] # "access" \/ ~Matches(task[p].key)}
  /\ Goto(p, "revokerefresh")
  /\ UNCHANGED <<account, code, refresh, origin, parent, idToken, voidPairs>>

\* then, in a statement of its own, the refresh tokens, used ones included.
RevokeRefresh(p) ==
  LET t == task[p]
  IN  /\ t.pc = "revokerefresh"
      /\ refresh' = [n \in Pairs |->
                      IF refresh[n] # "none" /\ Matches(t.key)
                        THEN "gone" ELSE refresh[n]]
      /\ expired' = {x \in expired : x[1] # "refresh" \/ ~Matches(t.key)}
      /\ IF t.kind = "rplogout" THEN Goto(p, "sessions") ELSE End(p)
      /\ voidPairs' = IF t.kind \in {"revokeall", "refresh"}
                        THEN voidPairs \cup t.pairs ELSE voidPairs
      /\ UNCHANGED <<account, code, access, origin, parent, idToken>>

---------------------------------------------------------------------------
(* Failures, expiry.                                                       *)

\* A check refuses the request, a statement fails or the process ends: what
\* has been written stays written.
Fail(p) ==
  /\ task[p].pc # "idle"
  /\ End(p)
  /\ UNCHANGED <<account, rows, voidPairs>>

\* A status change and an RP logout log a failed step and go on to the next:
\* after a failed DELETE of access tokens that is the next service call.
FailsSilently(p) ==
  LET t == task[p]
  IN  /\ t.kind \in {"status", "rplogout"}
      /\ t.pc \in {"sessions", "revokeaccess", "revokerefresh"}
      /\ IF (t.kind = "status") = (t.pc = "sessions")
           THEN Goto(p, IF t.kind = "status" THEN "revokeaccess" ELSE "sessions")
           ELSE End(p)
      /\ UNCHANGED <<account, rows, voidPairs>>

CodeExpires(c) ==
  /\ "code" \in Expiring /\ code[c] \in {"fresh", "used"}
  /\ CodeRow(c) \notin expired
  /\ expired' = expired \cup {CodeRow(c)}
  /\ UNCHANGED <<account, code, access, refresh, origin, parent, idToken, task,
                 voidPairs>>

AccessExpires(n) ==
  /\ "access" \in Expiring /\ access[n] = "live"
  /\ AccessRow(n) \notin expired
  /\ expired' = expired \cup {AccessRow(n)}
  /\ UNCHANGED <<account, code, access, refresh, origin, parent, idToken, task,
                 voidPairs>>

RefreshExpires(n) ==
  /\ "refresh" \in Expiring /\ refresh[n] \in {"fresh", "used"}
  /\ RefreshRow(n) \notin expired
  /\ expired' = expired \cup {RefreshRow(n)}
  /\ UNCHANGED <<account, code, access, refresh, origin, parent, idToken, task,
                 voidPairs>>

\* cleanup_expired_artifacts: a DELETE for each of the three tables.
CleanupCodes ==
  /\ code' = [c \in Codes |-> IF CodeRow(c) \in expired THEN "gone" ELSE code[c]]
  /\ code' # code
  /\ expired' = {x \in expired : x[1] # "code"}
  /\ UNCHANGED <<account, access, refresh, origin, parent, idToken, task,
                 voidPairs>>

CleanupAccess ==
  /\ access' = [n \in Pairs |->
                 IF AccessRow(n) \in expired THEN "gone" ELSE access[n]]
  /\ access' # access
  /\ expired' = {x \in expired : x[1] # "access"}
  /\ UNCHANGED <<account, code, refresh, origin, parent, idToken, task,
                 voidPairs>>

CleanupRefresh ==
  /\ refresh' = [n \in Pairs |->
                  IF RefreshRow(n) \in expired THEN "gone" ELSE refresh[n]]
  /\ refresh' # refresh
  /\ expired' = {x \in expired : x[1] # "refresh"}
  /\ UNCHANGED <<account, code, access, origin, parent, idToken, task,
                 voidPairs>>

TaskStep(p) ==
  \/ \E k \in Kinds : Start(p, k)
  \/ CheckSession(p) \/ AuthorizeGate(p) \/ AuthorizeUser(p) \/ SaveCode(p)
  \/ ReadCode(p) \/ MarkCode(p)
  \/ ReadRefresh(p) \/ ConsumeRefresh(p) \/ DropAccess(p)
  \/ LoadUser(p) \/ LoadGate(p)
  \/ SaveAccess(p) \/ SaveRefresh(p) \/ GenerateIdToken(p)
  \/ ReadAccess(p) \/ UserinfoSubject(p)
  \/ SetRowStatus(p) \/ SetRootStatus(p) \/ DeleteSessions(p)
  \/ RevokeAccess(p) \/ RevokeRefresh(p)
  \/ Fail(p) \/ FailsSilently(p)

Next ==
  \/ SessionChanges
  \/ \E p \in Tasks : TaskStep(p)
  \/ \E c \in Codes : CodeExpires(c)
  \/ \E n \in Pairs : AccessExpires(n) \/ RefreshExpires(n)
  \/ CleanupCodes \/ CleanupAccess \/ CleanupRefresh

Spec == Init /\ [][Next]_vars

---------------------------------------------------------------------------
(* What the provider promises, and keeps.                                  *)

\* However many requests present a code or a refresh token at the same time,
\* each leads to one pair at most: no two pairs have the same predecessor
\* (the guarded UPDATEs of update_authorization_code and
\* consume_refresh_token_by_hash).
OneSuccessor ==
  \A m, n \in Pairs :
    m # n /\ origin[m] # NoCode /\ origin[m] = origin[n] => parent[m] # parent[n]

\* Everything that descends from one code is one chain with one usable end: at
\* no time can two access tokens, or two refresh tokens, of it be used
\* (handle_refresh_token_grant spends the old pair before it stores the new).
OneUsableEnd ==
  \A m, n \in Pairs :
    m # n /\ origin[m] # NoCode /\ origin[m] = origin[n]
      => ~(UsableAccess(m) /\ UsableAccess(n)) /\ ~(UsableRefresh(m) /\ UsableRefresh(n))

\* A request that begins while the root is suspended and no status change is
\* under way stores no token and is told no subject (load_active_user).
BarredGetsNothing ==
  \A p \in Tasks :
    task[p].pc \in {"saveaccess", "saverefresh", "idtoken", "subject"}
      => ~task[p].barred

\* When logout-all, a password reset, or the detection of a reused refresh
\* token, has been answered, no pair that was complete when it began can be used again.
RevocationIsComplete ==
  \A n \in voidPairs : ~UsableAccess(n) /\ ~UsableRefresh(n)

\* A grant that has marked its code, or consumed its refresh token, and has not
\* stored the pair yet.
HoldsCode(t) == t.kind = "exchange" /\ t.pc \in {"load", "loadgate", "saveaccess"}
HoldsPair(t) == t.kind = "refresh" /\ t.pc \in {"drop", "load", "loadgate", "saveaccess"}

CodeInUse(c) == \E p \in Tasks : HoldsCode(task[p]) /\ task[p].code = c
PairInUse(n) == \E p \in Tasks : HoldsPair(task[p]) /\ task[p].old = n

\* A grant read the row in time, and its guarded UPDATE is still to come.
CodeRead(c) == \E p \in Tasks : task[p].pc = "mark" /\ task[p].code = c
RefreshRead(n) == \E p \in Tasks : task[p].pc = "consume" /\ task[p].old = n

PairsOfCode(c) == {n \in Pairs : origin[n] = c /\ parent[n] = NoPair}
Successors(n) == {m \in Pairs : parent[m] = n}

CodeLife(c) ==
  IF PairsOfCode(c) # {} THEN "done"
  ELSE IF CodeInUse(c) THEN "claimed"
  ELSE IF code[c] = "none" THEN "unissued"
  ELSE IF code[c] = "fresh" /\ (CodeRow(c) \notin expired \/ CodeRead(c)) THEN "open"
  ELSE "closed"

RefreshLife(n) ==
  IF Successors(n) # {} THEN "done"
  ELSE IF PairInUse(n) THEN "claimed"
  ELSE IF refresh[n] = "none" THEN "unissued"
  ELSE IF UsableRefresh(n) \/ (refresh[n] = "fresh" /\ RefreshRead(n)) THEN "open"
  ELSE "closed"

CodeUse == INSTANCE OneTime WITH
  Tokens <- Codes, life <- [c \in Codes |-> CodeLife(c)],
  effects <- [c \in Codes |-> PairsOfCode(c)]

RefreshUse == INSTANCE OneTime WITH
  Tokens <- Pairs, life <- [n \in Pairs |-> RefreshLife(n)],
  effects <- [n \in Pairs |-> Successors(n)]

\* A code and a refresh token are credentials for one use: spent by a grant that
\* is refused afterwards, revoked, deleted, or expired before any grant has read
\* it, neither leads to a pair any more; and a grant that expiry or a revocation
\* overtakes has claimed its own, and stores one pair or none.
ImplementsOneTime == CodeUse!Spec /\ RefreshUse!Spec
=============================================================================
