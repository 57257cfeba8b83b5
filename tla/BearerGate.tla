----------------------------- MODULE BearerGate -----------------------------
(***************************************************************************)
(* The bearer gate of SoulAuth: how a request that carries a session token *)
(* is admitted (utils/jwt.rs, the AuthedUser and AuthedSession             *)
(* extractors), through the in-process authentication cache                *)
(* (services/auth_cache.rs), and how a session is taken back: logout,      *)
(* logout of all sessions, a password reset, and an administrator's change *)
(* of the account status (services/auth.rs, services/user_management.rs,   *)
(* routes/auth.rs, routes/user_management.rs).                             *)
(*                                                                         *)
(* Every `.await` on the database or on the cache lock is a step of its    *)
(* own, so a revocation can fall between any two steps of a request.       *)
(* The service may run as several replicas: they share the database and    *)
(* each has a cache of its own.                                            *)
(*                                                                         *)
(* Time is a counter of cache-TTL units.  MaxLag bounds how long a request *)
(* may stay between its session check and its cache insert; the code has   *)
(* no such bound, so MaxLag is an explicit assumption on the deployment.   *)
(***************************************************************************)
EXTENDS Naturals, FiniteSets

CONSTANTS
  Users,       \* human accounts, each with its identity root
  Tokens,      \* session tokens the service may issue
  Owner,       \* Owner[t] is the account token t is issued to
  Replicas,    \* instances of the service
  Requests,    \* slots for requests in flight
  NewStatuses, \* the statuses administrators set
  Revokers,    \* slots for revoking handlers in flight
  Ttl,         \* AUTH_SESSION_CACHE_TTL_SECONDS; 0 switches the cache off
  MaxLag,      \* longest time from a session check to the cache insert
  MaxNow,      \* bound on the clock
  MaxEntries   \* MAX_ENTRIES of the cache

AccountStatus == {"Active", "Suspended", "Inactive", "Deleted"}

ASSUME BearerGateAssumption ==
  /\ NewStatuses \subseteq AccountStatus
  /\ Users # {} /\ Replicas # {}
  /\ IsFiniteSet(Tokens) /\ Tokens # {}
  /\ Owner \in [Tokens -> Users]
  /\ Ttl \in Nat /\ MaxLag \in Nat /\ MaxNow \in Nat
  /\ MaxEntries \in Nat \ {0}

VARIABLES
  session,     \* session[t]: the row of the session table behind token t
  endedAt,     \* history: when session[t] stopped being live
  rowStatus,   \* user.account_status
  rowSeen,     \* every status the user row has held: what a stale copy may hold
  rootStatus,  \* actor_identity.status, the identity root
  cache,       \* cache[p][t]: the entry of token t in the cache of replica p
  now,
  req,         \* the requests in flight
  rev,         \* the revoking handlers in flight
  revoked,     \* history: tokens whose revocation was answered with success
  barred       \* history: how far the last answered suspension of u reached

vars == <<session, endedAt, rowStatus, rowSeen, rootStatus, cache, now,
          req, rev, revoked, barred>>

RootStatus    == {"active", "suspended"}
SessionState  == {"unissued", "live", "expired", "deleted"}

\* "row": a suspension was answered with success but only the user row was
\* written; "root": the identity root was written as well.
Barred == {"no", "row", "root"}

\* CacheEntry: the status of the cached account row, and the expiry instant.
\* An entry whose expiry is 0 is not in the map.
Entry  == [row : AccountStatus, exp : Nat]
Absent == [row |-> "Active", exp |-> 0]

ReqPc == {"idle", "lookup", "hitGate", "session", "rootGate", "loadUser",
          "insert", "reread", "ok"}
Request ==
  [pc : ReqPc, kind : {"AuthedUser", "AuthedSession"}, token : Tokens,
   rep : Replicas, row : AccountStatus,
   since : Nat,       \* when the token was last found good for this request
   late : BOOLEAN,    \* history: the token was already revoked when it started
   barred : Barred]   \* history: its account was barred when it started

IdleReq ==
  [pc |-> "idle", kind |-> "AuthedUser", token |-> CHOOSE t \in Tokens : TRUE,
   rep |-> CHOOSE p \in Replicas : TRUE, row |-> "Active", since |-> 0,
   late |-> FALSE, barred |-> "no"]

RevPc == {"idle", "row", "root", "log", "inv", "inv2", "del"}
Revoker ==
  [pc : RevPc, kind : {"logout", "logoutAll", "reset", "status"},
   targets : SUBSET Tokens, user : Users, rep : Replicas,
   status : AccountStatus,
   solo : BOOLEAN,    \* history: no other status change of the account overlaps
   rooted : BOOLEAN]  \* history: this handler wrote the identity root

IdleRev ==
  [pc |-> "idle", kind |-> "logout", targets |-> {},
   user |-> CHOOSE u \in Users : TRUE, rep |-> CHOOSE p \in Replicas : TRUE,
   status |-> "Active", solo |-> FALSE, rooted |-> FALSE]

TypeOK ==
  /\ session \in [Tokens -> SessionState]
  /\ endedAt \in [Tokens -> Nat]
  /\ rowStatus \in [Users -> AccountStatus]
  /\ rowSeen \in [Users -> SUBSET AccountStatus]
  /\ rootStatus \in [Users -> RootStatus]
  /\ cache \in [Replicas -> [Tokens -> Entry]]
  /\ now \in Nat
  /\ req \in [Requests -> Request]
  /\ rev \in [Revokers -> Revoker]
  /\ revoked \in SUBSET Tokens
  /\ barred \in [Users -> Barred]

Init ==
  /\ session = [t \in Tokens |-> "unissued"]
  /\ endedAt = [t \in Tokens |-> 0]
  /\ rowStatus = [u \in Users |-> "Active"]
  /\ rowSeen = [u \in Users |-> {"Active"}]
  /\ rootStatus = [u \in Users |-> "active"]
  /\ cache = [p \in Replicas |-> [t \in Tokens |-> Absent]]
  /\ now = 0
  /\ req = [r \in Requests |-> IdleReq]
  /\ rev = [v \in Revokers |-> IdleRev]
  /\ revoked = {}
  /\ barred = [u \in Users |-> "no"]

TokensOf(u) == {t \in Tokens : Owner[t] = u}

---------------------------------------------------------------------------
(* Sessions come and go.                                                   *)

\* Some login path of services/auth.rs has created the session row of t and
\* handed out the token.  When a login may do so is AccountLifecycle's subject:
\* here it may at any time.
IssueSession(t) ==
  /\ session[t] = "unissued"
  /\ session' = [session EXCEPT ![t] = "live"]
  /\ UNCHANGED <<endedAt, rowStatus, rowSeen, rootStatus, cache, now, req,
                 rev, revoked, barred>>

\* The row is still there, but its expires_at has passed.
SessionExpires(t) ==
  /\ session[t] = "live"
  /\ session' = [session EXCEPT ![t] = "expired"]
  /\ endedAt' = [endedAt EXCEPT ![t] = now]
  /\ UNCHANGED <<rowStatus, rowSeen, rootStatus, cache, now, req, rev,
                 revoked, barred>>

\* The hourly task drops every expired row.
CleanupExpired ==
  /\ \E t \in Tokens : session[t] = "expired"
  /\ session' = [t \in Tokens |->
                   IF session[t] = "expired" THEN "deleted" ELSE session[t]]
  /\ UNCHANGED <<endedAt, rowStatus, rowSeen, rootStatus, cache, now, req,
                 rev, revoked, barred>>

\* The same task drops expired cache entries.
PurgeExpired(p) ==
  /\ Ttl > 0
  /\ cache' = [cache EXCEPT ![p] =
                 [t \in Tokens |-> IF cache[p][t].exp > now THEN cache[p][t]
                                                            ELSE Absent]]
  /\ UNCHANGED <<session, endedAt, rowStatus, rowSeen, rootStatus, now, req,
                 rev, revoked, barred>>

---------------------------------------------------------------------------
(* A request that presents a bearer token.                                 *)

ReqUnchanged == UNCHANGED <<session, endedAt, rowStatus, rowSeen, rootStatus,
                            now, rev, revoked, barred>>

Goto(r, pc) == req' = [req EXCEPT ![r].pc = pc]

\* The extractor returns an error: the request ends with 401 or 403.
Reject(r) == req' = [req EXCEPT ![r] = IdleReq]

StartRequest(r, t, p, k) ==
  /\ req[r].pc = "idle"
  /\ session[t] # "unissued"
  /\ req' = [req EXCEPT ![r] =
               [pc |-> IF k = "AuthedUser" THEN "lookup" ELSE "session",
                kind |-> k, token |-> t, rep |-> p, row |-> "Active",
                since |-> 0, late |-> t \in revoked,
                barred |-> barred[Owner[t]]]]
  /\ UNCHANGED cache /\ ReqUnchanged

\* Mutant: get returns whatever entry it finds, expired or not.
CacheLookupIgnoringExpiry(r) ==
  LET e == cache[req[r].rep][req[r].token]
  IN  /\ req[r].pc = "lookup"
      /\ IF Ttl > 0 /\ e.exp # 0
           THEN req' = [req EXCEPT ![r] = [@ EXCEPT !.pc = "hitGate",
                                      !.row = e.row, !.since = now]]
           ELSE Goto(r, "session")
      /\ UNCHANGED cache /\ ReqUnchanged

\* AuthCache::get.
CacheLookup(r) ==
  LET e == cache[req[r].rep][req[r].token]
  IN  /\ req[r].pc = "lookup"
      /\ IF Ttl > 0 /\ e.exp > now
           THEN req' = [req EXCEPT ![r] = [@ EXCEPT !.pc = "hitGate",
                                      !.row = e.row, !.since = now]]
           ELSE Goto(r, "session")
      /\ UNCHANGED cache /\ ReqUnchanged

\* Mutant: a hit is admitted on the cached row alone.
HitGateWithoutRoot(r) ==
  /\ req[r].pc = "hitGate"
  /\ IF req[r].row = "Active" THEN Goto(r, "ok") ELSE Reject(r)
  /\ UNCHANGED cache /\ ReqUnchanged

\* A hit skips the session row but not the identity root
\* (authenticable_actor_of_user, then ensure_account_usable on the cached row).
HitGate(r) ==
  /\ req[r].pc = "hitGate"
  /\ IF rootStatus[Owner[req[r].token]] = "active" /\ req[r].row = "Active"
       THEN Goto(r, "ok")
       ELSE Reject(r)
  /\ UNCHANGED cache /\ ReqUnchanged

\* verify_session_active: the row exists and has not expired.
VerifySession(r) ==
  /\ req[r].pc = "session"
  /\ IF session[req[r].token] = "live"
       THEN req' = [req EXCEPT ![r] = [@ EXCEPT !.pc = "rootGate",
                                                !.since = now]]
       ELSE Reject(r)
  /\ UNCHANGED cache /\ ReqUnchanged

\* authenticable_actor(claims.sub, Human).
RootGate(r) ==
  /\ req[r].pc = "rootGate"
  /\ IF rootStatus[Owner[req[r].token]] = "active"
       THEN Goto(r, "loadUser")
       ELSE Reject(r)
  /\ UNCHANGED cache /\ ReqUnchanged

\* load_user_from_actor, then ensure_account_usable on the row it returned.
LoadUser(r) ==
  LET row == rowStatus[Owner[req[r].token]]
  IN  /\ req[r].pc = "loadUser"
      /\ IF row = "Active"
           THEN req' = [req EXCEPT ![r] = [@ EXCEPT !.row = row,
                         !.pc = IF req[r].kind = "AuthedUser"
                                  THEN "insert" ELSE "reread"]]
           ELSE Reject(r)
      /\ UNCHANGED cache /\ ReqUnchanged

\* The entries of a cache map.
Held(c) == {t \in Tokens : c[t].exp # 0}

Retain(c) == [t \in Tokens |-> IF c[t].exp > now THEN c[t] ELSE Absent]

\* Room for one more entry: when the map is full, drop what has expired, and
\* if it is still full, everything.
MakeRoom(c) ==
  IF Cardinality(Held(c)) < MaxEntries THEN c
  ELSE IF Cardinality(Held(Retain(c))) < MaxEntries THEN Retain(c)
  ELSE [t \in Tokens |-> Absent]

\* AuthCache::insert; the request is then admitted.
Insert(r) ==
  LET p == req[r].rep
  IN  /\ req[r].pc = "insert"
      /\ cache' = IF Ttl = 0 THEN cache
                  ELSE [cache EXCEPT ![p] =
                         [MakeRoom(cache[p]) EXCEPT ![req[r].token] =
                           [row |-> req[r].row, exp |-> now + Ttl]]]
      /\ Goto(r, "ok")
      /\ ReqUnchanged

\* AuthedSession reads the session row a second time, expired or not.
RereadSession(r) ==
  /\ req[r].pc = "reread"
  /\ IF session[req[r].token] \in {"live", "expired"}
       THEN Goto(r, "ok")
       ELSE Reject(r)
  /\ UNCHANGED cache /\ ReqUnchanged

\* The handler behind the extractor has run and the response is sent.
FinishRequest(r) ==
  /\ req[r].pc = "ok"
  /\ req' = [req EXCEPT ![r] = IdleReq]
  /\ UNCHANGED cache /\ ReqUnchanged

---------------------------------------------------------------------------
(* Handlers that take sessions back.                                       *)

RevUnchanged == UNCHANGED <<rowSeen, now>>

RevGoto(v, pc) == rev' = [rev EXCEPT ![v].pc = pc]

\* The handler ends without having answered success.
Abort(v) ==
  /\ rev' = [rev EXCEPT ![v] = IdleRev]
  /\ UNCHANGED <<revoked, barred>>

\* The handler answers success.
Answer(v) ==
  /\ rev' = [rev EXCEPT ![v] = IdleRev]
  /\ revoked' = revoked \cup {t \in rev[v].targets : session'[t] = "deleted"}
  /\ barred' = IF rev[v].kind = "status" /\ rev[v].solo
                  /\ rev[v].status # "Active"
               THEN [barred EXCEPT ![rev[v].user] =
                      IF rev[v].rooted THEN "root" ELSE "row"]
               ELSE barred

\* POST /logout and /logout-all run behind AuthedUser; the admitted request
\* goes on as a revoking handler on the same replica.
StartLogout(v, r, k) ==
  LET t == req[r].token
  IN  /\ rev[v].pc = "idle"
      /\ req[r].pc = "ok" /\ req[r].kind = "AuthedUser"
      /\ rev' = [rev EXCEPT ![v] =
                   [pc |-> "del", kind |-> k,
                    targets |-> IF k = "logout" THEN {t}
                                               ELSE TokensOf(Owner[t]),
                    user |-> Owner[t], rep |-> req[r].rep,
                    status |-> "Active", solo |-> FALSE, rooted |-> FALSE]]
      /\ req' = [req EXCEPT ![r] = IdleReq]
      /\ UNCHANGED <<session, endedAt, rowStatus, rootStatus, cache, revoked,
                     barred>> /\ RevUnchanged

\* The tail of reset_password, once the new password has been stored.
StartReset(v, u, p) ==
  /\ rev[v].pc = "idle"
  /\ rev' = [rev EXCEPT ![v] =
               [pc |-> "del", kind |-> "reset", targets |-> TokensOf(u),
                user |-> u, rep |-> p, status |-> "Active", solo |-> FALSE,
                rooted |-> FALSE]]
  /\ UNCHANGED <<session, endedAt, rowStatus, rootStatus, cache, req, revoked,
                 barred>> /\ RevUnchanged

\* An administrator's update_user_account_status begins.  It may overlap
\* another one for the same account: then neither is solo.
StartStatus(v, u, s, p) ==
  LET other(w) == rev[w].pc # "idle" /\ rev[w].kind = "status"
                    /\ rev[w].user = u
  IN  /\ rev[v].pc = "idle"
      /\ rev' = [w \in Revokers |->
                   IF w = v
                     THEN [pc |-> "row", kind |-> "status",
                           targets |-> TokensOf(u), user |-> u, rep |-> p,
                           status |-> s, solo |-> \A x \in Revokers : ~other(x),
                           rooted |-> FALSE]
                   ELSE IF other(w) THEN [rev[w] EXCEPT !.solo = FALSE]
                   ELSE rev[w]]
      /\ barred' = [barred EXCEPT ![u] = "no"]
      /\ req' = [r \in Requests |->
                   IF Owner[req[r].token] = u
                     THEN [req[r] EXCEPT !.barred = "no"] ELSE req[r]]
      /\ UNCHANGED <<session, endedAt, rowStatus, rootStatus, cache, revoked>>
      /\ RevUnchanged

\* UPDATE user SET account_status.
WriteRow(v) ==
  LET u == rev[v].user
  IN  /\ rev[v].pc = "row"
      /\ rowStatus' = [rowStatus EXCEPT ![u] = rev[v].status]
      /\ rowSeen' = [rowSeen EXCEPT ![u] = @ \cup {rev[v].status}]
      /\ RevGoto(v, "root")
      /\ UNCHANGED <<session, endedAt, rootStatus, cache, now, req, revoked,
                     barred>>

\* Mutant: the account status is stored in the root without being translated.
WriteRootUntranslated(v) ==
  /\ rev[v].pc = "root"
  /\ rootStatus' = [rootStatus EXCEPT ![rev[v].user] = rev[v].status]
  /\ rev' = [rev EXCEPT ![v] = [@ EXCEPT !.pc = "log", !.rooted = TRUE]]
  /\ UNCHANGED <<session, endedAt, rowStatus, cache, req, revoked, barred>>
  /\ RevUnchanged

\* IdentityService::set_status on the root: active, or else suspended.
WriteRoot(v) ==
  /\ rev[v].pc = "root"
  /\ rootStatus' = [rootStatus EXCEPT ![rev[v].user] =
                     IF rev[v].status = "Active" THEN "active"
                                                 ELSE "suspended"]
  /\ rev' = [rev EXCEPT ![v] = [@ EXCEPT !.pc = "log", !.rooted = TRUE]]
  /\ UNCHANGED <<session, endedAt, rowStatus, cache, req, revoked, barred>>
  /\ RevUnchanged

\* Loading the root failed: the error is logged and the handler goes on.
LoadRootFails(v) ==
  /\ rev[v].pc = "root"
  /\ RevGoto(v, "log")
  /\ UNCHANGED <<session, endedAt, rowStatus, rootStatus, cache, req, revoked,
                 barred>> /\ RevUnchanged

\* revoke_password (for Deleted) and log_user_activity have succeeded.
LogActivity(v) ==
  /\ rev[v].pc = "log"
  /\ RevGoto(v, "inv")
  /\ UNCHANGED <<session, endedAt, rowStatus, rootStatus, cache, req, revoked,
                 barred>> /\ RevUnchanged

\* A database error that the handler returns with `?`: in the row update, the
\* root update, revoke_password, log_user_activity, or, for a logout and a
\* reset, the deletion of the session rows.  What is written stays written.
DbError(v) ==
  /\ \/ rev[v].pc \in {"row", "root", "log"}
     \/ rev[v].pc = "del" /\ rev[v].kind # "status"
  /\ Abort(v)
  /\ UNCHANGED <<session, endedAt, rowStatus, rootStatus, cache, req>>
  /\ RevUnchanged

\* invalidate_token or invalidate_user on the handler's own replica; a logout
\* does it once in the service and once more in the route.
Invalidate(v) ==
  LET p == rev[v].rep
      k == rev[v].kind
  IN  /\ rev[v].pc \in {"inv", "inv2"}
      /\ cache' = [cache EXCEPT ![p] =
                    [t \in Tokens |-> IF t \in rev[v].targets THEN Absent
                                                              ELSE cache[p][t]]]
      /\ UNCHANGED <<session, endedAt, rowStatus, rootStatus, req>>
      /\ IF rev[v].pc = "inv" /\ k \in {"logout", "logoutAll"}
           THEN RevGoto(v, "inv2") /\ UNCHANGED <<revoked, barred>>
         ELSE IF rev[v].pc = "inv" /\ k = "status" /\ rev[v].status # "Active"
           THEN RevGoto(v, "del") /\ UNCHANGED <<revoked, barred>>
         ELSE Answer(v)
      /\ RevUnchanged

\* delete_session_by_token or delete_sessions_by_user_id.
DeleteSessions(v) ==
  LET T == rev[v].targets
  IN  /\ rev[v].pc = "del"
      /\ session' = [t \in Tokens |->
                       IF t \in T /\ session[t] # "unissued"
                         THEN "deleted" ELSE session[t]]
      /\ endedAt' = [t \in Tokens |->
                       IF t \in T /\ session[t] = "live"
                         THEN now ELSE endedAt[t]]
      /\ UNCHANGED <<rowStatus, rootStatus, cache, req>>
      /\ IF rev[v].kind = "status"
           THEN Answer(v)
           ELSE RevGoto(v, "inv") /\ UNCHANGED <<revoked, barred>>
      /\ RevUnchanged

\* After a status change a failed deletion is only logged.
DeleteFailsSilently(v) ==
  /\ rev[v].pc = "del" /\ rev[v].kind = "status"
  /\ UNCHANGED <<session, endedAt, rowStatus, rootStatus, cache, req>>
  /\ Answer(v)
  /\ RevUnchanged

---------------------------------------------------------------------------
(* The rest of the service, and time.                                      *)

\* A handler that read the whole user row earlier (touch_last_login,
\* resend_verification_email, update_membership) writes its copy back, the
\* account_status of that time included.
StaleRowWrite(u, s) ==
  /\ s \in rowSeen[u]
  /\ rowStatus' = [rowStatus EXCEPT ![u] = s]
  /\ UNCHANGED <<session, endedAt, rowSeen, rootStatus, cache, now, req, rev,
                 revoked, barred>>

\* Time passes, except while it would keep a request longer than MaxLag
\* between its session check and its cache insert.
Tick ==
  /\ now < MaxNow
  /\ \A r \in Requests : req[r].pc \in {"rootGate", "loadUser", "insert"}
                            => now < req[r].since + MaxLag
  /\ now' = now + 1
  /\ UNCHANGED <<session, endedAt, rowStatus, rowSeen, rootStatus, cache, req,
                 rev, revoked, barred>>

RequestStep(r) ==
  \/ \E t \in Tokens, p \in Replicas, k \in {"AuthedUser", "AuthedSession"} :
       StartRequest(r, t, p, k)
  \/ CacheLookup(r) \/ HitGate(r) \/ VerifySession(r) \/ RootGate(r)
  \/ LoadUser(r) \/ Insert(r) \/ RereadSession(r) \/ FinishRequest(r)

RevokerStep(v) ==
  \/ \E r \in Requests, k \in {"logout", "logoutAll"} : StartLogout(v, r, k)
  \/ \E u \in Users, p \in Replicas : StartReset(v, u, p)
  \/ \E u \in Users, s \in NewStatuses, p \in Replicas :
       StartStatus(v, u, s, p)
  \/ WriteRow(v) \/ WriteRoot(v) \/ LoadRootFails(v) \/ LogActivity(v)
  \/ DbError(v) \/ Invalidate(v) \/ DeleteSessions(v)
  \/ DeleteFailsSilently(v)

Environment ==
  \/ \E t \in Tokens : IssueSession(t) \/ SessionExpires(t)
  \/ CleanupExpired
  \/ \E p \in Replicas : PurgeExpired(p)
  \/ \E u \in Users, s \in AccountStatus : StaleRowWrite(u, s)
  \/ Tick

Next ==
  \/ \E r \in Requests : RequestStep(r)
  \/ \E v \in Revokers : RevokerStep(v)
  \/ Environment

Spec == Init /\ [][Next]_vars

---------------------------------------------------------------------------
(* What the gate promises.                                                 *)

\* The longest a token may be accepted after its session ended: the whole
\* cache TTL, counted from an insert that came MaxLag after the session check.
Staleness == IF Ttl = 0 THEN 0 ELSE MaxLag + Ttl - 1

\* An admitted request found its token good no later than Staleness after the
\* session had been logged out, revoked or had expired, on whatever replica
\* (the bound the module comment of services/auth_cache.rs promises).
StaleBound ==
  \A r \in Requests :
    LET t == req[r].token
    IN  req[r].pc = "ok" /\ session[t] \in {"expired", "deleted"}
          => req[r].since <= endedAt[t] + Staleness

\* Once an administrator's change to a status other than Active has been
\* answered and had reached the identity root, no request that starts
\* afterwards is admitted before the next status change of that account
\* begins, whatever the caches hold and whichever stale copies of the user row
\* are written back.
SuspensionHolds ==
  \A r \in Requests : req[r].pc = "ok" => req[r].barred # "root"

\* The comment in routes/user_management.rs: a suspension takes effect at once
\* and does not wait for the cache to expire, whether or not the root could be
\* loaded.
SuspensionImmediate ==
  \A r \in Requests : req[r].pc = "ok" => req[r].barred = "no"

\* A request that starts after the logout (or reset, or suspension) that
\* deleted its session has been answered is refused: with the cache off
\* always; the module comment of services/auth_cache.rs says so of a single
\* replica with the cache on.
RevocationImmediate == \A r \in Requests : req[r].pc = "ok" => ~req[r].late

\* AuthCache::insert never lets the map of a replica grow past MAX_ENTRIES.
CacheBounded ==
  \A p \in Replicas : Cardinality(Held(cache[p])) <= MaxEntries
=============================================================================
