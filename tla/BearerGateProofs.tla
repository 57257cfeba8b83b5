-------------------------- MODULE BearerGateProofs --------------------------
(***************************************************************************)
(* Proofs about BearerGate, for every set of accounts, tokens, replicas,   *)
(* requests and handlers and for every TTL and lag.                        *)
(***************************************************************************)
EXTENDS BearerGate, FiniteSetTheorems, TLAPS

(***************************************************************************)
(* Typing.                                                                 *)
(***************************************************************************)

\* The records of an idle request and of an idle handler have their type.
LEMMA IdleTypes == IdleReq \in Request /\ IdleRev \in Revoker
  BY BearerGateAssumption
  DEF IdleReq, IdleRev, Request, Revoker, ReqPc, RevPc, AccountStatus, Barred

\* MakeRoom and Retain return a cache map of the same type.
LEMMA MakeRoomType ==
  ASSUME NEW c \in [Tokens -> Entry], now \in Nat
  PROVE  /\ MakeRoom(c) \in [Tokens -> Entry]
         /\ \A t \in Tokens : MakeRoom(c)[t] \in {c[t], Absent}
  BY DEF MakeRoom, Retain, Entry, Absent, AccountStatus

\* The type invariant holds initially.
LEMMA TypeInit == Init => TypeOK
  BY IdleTypes
  DEF Init, TypeOK, SessionState, AccountStatus, RootStatus, Entry, Absent,
      Barred

\* Changing fields of a request or a handler keeps its type.
LEMMA FieldTypes ==
  /\ \A q \in Request, x \in ReqPc : [q EXCEPT !.pc = x] \in Request
  /\ \A q \in Request, x \in ReqPc, n \in Nat :
       [q EXCEPT !.pc = x, !.since = n] \in Request
  /\ \A q \in Request, x \in ReqPc, s \in AccountStatus, n \in Nat :
       [q EXCEPT !.pc = x, !.row = s, !.since = n] \in Request
  /\ \A q \in Request, x \in ReqPc, s \in AccountStatus :
       [q EXCEPT !.row = s, !.pc = x] \in Request
  /\ \A w \in Revoker, x \in RevPc : [w EXCEPT !.pc = x] \in Revoker
  /\ \A w \in Revoker, x \in RevPc, b \in BOOLEAN :
       [w EXCEPT !.pc = x, !.rooted = b] \in Revoker
  BY DEF Request, Revoker

\* Moving a request to another step keeps the type of req.
LEMMA GotoType ==
  ASSUME TypeOK, NEW r \in Requests, NEW x \in ReqPc, Goto(r, x)
  PROVE  req' \in [Requests -> Request]
  BY FieldTypes DEF TypeOK, Goto

\* Rejecting a request keeps the type of req.
LEMMA RejectType ==
  ASSUME TypeOK, NEW r \in Requests, Reject(r)
  PROVE  req' \in [Requests -> Request]
  BY IdleTypes DEF TypeOK, Reject

\* The parts of a request that the steps look up.
LEMMA RequestParts ==
  ASSUME TypeOK, NEW r \in Requests
  PROVE  /\ req[r] \in Request
         /\ req[r].token \in Tokens
         /\ req[r].rep \in Replicas
         /\ req[r].row \in AccountStatus
         /\ Owner[req[r].token] \in Users
         /\ cache[req[r].rep][req[r].token] \in Entry
  BY BearerGateAssumption DEF TypeOK, Request

\* Every step of a request keeps the type of req.
LEMMA TypeReq ==
  ASSUME TypeOK, NEW r \in Requests, RequestStep(r)
  PROVE  req' \in [Requests -> Request]
  <1> USE RequestParts
  <1>0. ReqPc = {"idle", "lookup", "hitGate", "session", "rootGate",
                 "loadUser", "insert", "reread", "ok"}
    BY DEF ReqPc
  <1>1. ASSUME NEW t \in Tokens, NEW p \in Replicas,
               NEW k \in {"AuthedUser", "AuthedSession"},
               StartRequest(r, t, p, k)
        PROVE  req' \in [Requests -> Request]
    BY <1>1, BearerGateAssumption
    DEF StartRequest, TypeOK, Request, ReqPc, AccountStatus
  <1>2. CASE CacheLookup(r)
    <2> DEFINE e == cache[req[r].rep][req[r].token]
    <2>1. CASE req' = [req EXCEPT ![r] = [@ EXCEPT !.pc = "hitGate",
                                          !.row = e.row, !.since = now]]
      <3>1. e.row \in AccountStatus
        BY DEF Entry
      <3> QED
        BY <1>0, <2>1, <3>1, FieldTypes DEF TypeOK
    <2> QED
      BY <1>0, <1>2, <2>1, GotoType DEF CacheLookup
  <1>3. CASE HitGate(r)
    BY <1>0, <1>3, GotoType, RejectType DEF HitGate
  <1>4. CASE VerifySession(r)
    <2>1. CASE req' = [req EXCEPT ![r] = [@ EXCEPT !.pc = "rootGate",
                                                    !.since = now]]
      BY <1>0, <2>1, FieldTypes DEF TypeOK
    <2> QED
      BY <1>4, <2>1, RejectType DEF VerifySession
  <1>5. CASE RootGate(r)
    BY <1>0, <1>5, GotoType, RejectType DEF RootGate
  <1>6. CASE LoadUser(r)
    <2> DEFINE row == rowStatus[Owner[req[r].token]]
               pc == IF req[r].kind = "AuthedUser" THEN "insert" ELSE "reread"
    <2>1. CASE req' = [req EXCEPT ![r] = [@ EXCEPT !.row = row, !.pc = pc]]
      <3>1. row \in AccountStatus /\ pc \in ReqPc
        BY <1>0 DEF TypeOK
      <3> QED
        BY <2>1, <3>1, FieldTypes DEF TypeOK
    <2> QED
      BY <1>6, <2>1, RejectType DEF LoadUser
  <1>7. CASE Insert(r)
    BY <1>0, <1>7, GotoType DEF Insert
  <1>8. CASE RereadSession(r)
    BY <1>0, <1>8, GotoType, RejectType DEF RereadSession
  <1>9. CASE FinishRequest(r)
    BY <1>9, IdleTypes DEF FinishRequest, TypeOK
  <1> QED
    BY <1>1, <1>2, <1>3, <1>4, <1>5, <1>6, <1>7, <1>8, <1>9 DEF RequestStep

\* Every step of a request keeps the type of the caches.
LEMMA TypeCache ==
  ASSUME TypeOK, NEW r \in Requests, RequestStep(r)
  PROVE  cache' \in [Replicas -> [Tokens -> Entry]]
  <1>1. CASE Insert(r)
    <2> DEFINE p == req[r].rep
               e == [row |-> req[r].row, exp |-> now + Ttl]
    <2>1. p \in Replicas /\ e \in Entry /\ req[r].token \in Tokens
      BY RequestParts, BearerGateAssumption DEF TypeOK, Entry
    <2>2. MakeRoom(cache[p]) \in [Tokens -> Entry]
      BY <2>1, MakeRoomType DEF TypeOK
    <2>3. [MakeRoom(cache[p]) EXCEPT ![req[r].token] = e] \in [Tokens -> Entry]
      BY <2>1, <2>2
    <2> QED
      BY <1>1, <2>1, <2>3 DEF Insert, TypeOK
  <1> QED
    BY <1>1 DEF RequestStep, TypeOK, StartRequest, CacheLookup, HitGate,
       VerifySession, RootGate, LoadUser, RereadSession, FinishRequest

\* A request changes nothing but itself and the cache.
LEMMA RequestFrame ==
  ASSUME NEW r \in Requests, RequestStep(r)
  PROVE  UNCHANGED <<session, endedAt, rowStatus, rowSeen, rootStatus, now,
                     rev, revoked, barred>>
  BY DEF RequestStep, ReqUnchanged, StartRequest, CacheLookup, HitGate,
     VerifySession, RootGate, LoadUser, Insert, RereadSession, FinishRequest

\* Every step of a request keeps the type invariant.
LEMMA TypeRequest ==
  ASSUME TypeOK, NEW r \in Requests, RequestStep(r)
  PROVE  TypeOK'
  BY TypeReq, TypeCache, RequestFrame DEF TypeOK

\* What a handler ends with, and the history it leaves, have their type.
LEMMA AnswerType ==
  ASSUME TypeOK, NEW v \in Revokers, Answer(v)
  PROVE  /\ rev' \in [Revokers -> Revoker]
         /\ revoked' \in SUBSET Tokens
         /\ barred' \in [Users -> Barred]
  <1>1. rev[v] \in Revoker
    BY DEF TypeOK
  <1>2. rev[v].targets \in SUBSET Tokens /\ rev[v].user \in Users
    BY <1>1 DEF Revoker
  <1>3. "root" \in Barred /\ "row" \in Barred
    BY DEF Barred
  <1> QED
    BY <1>2, <1>3, IdleTypes DEF TypeOK, Answer

\* Moving a handler to another step keeps the type of rev.
LEMMA RevGotoType ==
  ASSUME TypeOK, NEW v \in Revokers, NEW x \in RevPc, RevGoto(v, x)
  PROVE  rev' \in [Revokers -> Revoker]
  BY FieldTypes DEF TypeOK, RevGoto

\* Every step of a revoking handler keeps the type invariant.
LEMMA TypeRevoker ==
  ASSUME TypeOK, NEW v \in Revokers, RevokerStep(v)
  PROVE  TypeOK'
  <1>0. RevPc = {"idle", "row", "root", "log", "inv", "inv2", "del"}
    BY DEF RevPc
  <1>a. /\ rev[v] \in Revoker
        /\ rev[v].user \in Users
        /\ rev[v].status \in AccountStatus
        /\ rev[v].rep \in Replicas
    BY DEF TypeOK, Revoker
  <1>1. ASSUME NEW r \in Requests, NEW k \in {"logout", "logoutAll"},
               StartLogout(v, r, k)
        PROVE  TypeOK'
    <2>1. rev' \in [Revokers -> Revoker]
      BY <1>0, <1>1, RequestParts
      DEF StartLogout, TokensOf, Revoker, AccountStatus, TypeOK
    <2> QED
      BY <1>1, <2>1, IdleTypes DEF StartLogout, TypeOK, RevUnchanged
  <1>2. ASSUME NEW u \in Users, NEW p \in Replicas, StartReset(v, u, p)
        PROVE  TypeOK'
    <2>1. rev' \in [Revokers -> Revoker]
      BY <1>0, <1>2 DEF StartReset, TokensOf, Revoker, AccountStatus, TypeOK
    <2> QED
      BY <1>2, <2>1 DEF StartReset, TypeOK, RevUnchanged
  <1>3. ASSUME NEW u \in Users, NEW s \in NewStatuses, NEW p \in Replicas,
               StartStatus(v, u, s, p)
        PROVE  TypeOK'
    <2>1. rev' \in [Revokers -> Revoker]
      <3>1. \A w \in Revoker : [w EXCEPT !.solo = FALSE] \in Revoker
        BY DEF Revoker
      <3>2. \A b \in BOOLEAN :
              [pc |-> "row", kind |-> "status", targets |-> TokensOf(u),
               user |-> u, rep |-> p, status |-> s, solo |-> b,
               rooted |-> FALSE] \in Revoker
        BY <1>0, BearerGateAssumption DEF TokensOf, Revoker
      <3> QED
        BY <1>3, <3>1, <3>2 DEF StartStatus, TypeOK
    <2>2. req' \in [Requests -> Request]
      <3>1. \A q \in Request : [q EXCEPT !.barred = "no"] \in Request
        BY DEF Request, Barred
      <3> QED
        BY <1>3, <3>1 DEF StartStatus, TypeOK
    <2>3. barred' \in [Users -> Barred]
      BY <1>3 DEF StartStatus, Barred, TypeOK
    <2> QED
      BY <1>3, <2>1, <2>2, <2>3 DEF StartStatus, TypeOK, RevUnchanged
  <1>4. CASE WriteRow(v)
    <2>1. rev' \in [Revokers -> Revoker]
      BY <1>0, <1>4, RevGotoType DEF WriteRow
    <2> QED
      BY <1>4, <1>a, <2>1 DEF WriteRow, TypeOK
  <1>5. CASE WriteRoot(v)
    <2>1. rev' \in [Revokers -> Revoker]
      BY <1>0, <1>5, FieldTypes DEF WriteRoot, TypeOK
    <2> QED
      BY <1>5, <1>a, <2>1 DEF WriteRoot, TypeOK, RootStatus, RevUnchanged
  <1>6. CASE LoadRootFails(v) \/ LogActivity(v)
    <2>1. rev' \in [Revokers -> Revoker]
      BY <1>0, <1>6, RevGotoType DEF LoadRootFails, LogActivity
    <2> QED
      BY <1>6, <2>1 DEF LoadRootFails, LogActivity, TypeOK, RevUnchanged
  <1>8. CASE DbError(v)
    BY <1>8, IdleTypes DEF DbError, Abort, TypeOK, RevUnchanged
  <1>9. CASE Invalidate(v)
    <2>1. cache' \in [Replicas -> [Tokens -> Entry]]
      <3>1. Absent \in Entry
        BY DEF Absent, Entry, AccountStatus
      <3> QED
        BY <1>9, <1>a, <3>1 DEF Invalidate, TypeOK
    <2>2. /\ rev' \in [Revokers -> Revoker]
          /\ revoked' \in SUBSET Tokens
          /\ barred' \in [Users -> Barred]
      <3>1. CASE Answer(v)
        BY <3>1, AnswerType
      <3>2. CASE (RevGoto(v, "inv2") \/ RevGoto(v, "del"))
                   /\ UNCHANGED <<revoked, barred>>
        BY <1>0, <3>2, RevGotoType DEF TypeOK
      <3> QED
        BY <1>9, <3>1, <3>2 DEF Invalidate
    <2> QED
      BY <1>9, <2>1, <2>2 DEF Invalidate, TypeOK, RevUnchanged
  <1>10. CASE DeleteSessions(v)
    <2>1. /\ rev' \in [Revokers -> Revoker]
          /\ revoked' \in SUBSET Tokens
          /\ barred' \in [Users -> Barred]
      <3>1. CASE Answer(v)
        BY <3>1, AnswerType
      <3>2. CASE RevGoto(v, "inv") /\ UNCHANGED <<revoked, barred>>
        BY <1>0, <3>2, RevGotoType DEF TypeOK
      <3> QED
        BY <1>10, <3>1, <3>2 DEF DeleteSessions
    <2> QED
      BY <1>10, <2>1 DEF DeleteSessions, SessionState, TypeOK, RevUnchanged
  <1>11. CASE DeleteFailsSilently(v)
    BY <1>11, AnswerType DEF DeleteFailsSilently, TypeOK, RevUnchanged
  <1> QED
    BY <1>1, <1>2, <1>3, <1>4, <1>5, <1>6, <1>8, <1>9, <1>10, <1>11
    DEF RevokerStep

\* Every other step keeps the type invariant.
LEMMA TypeEnvironment ==
  ASSUME TypeOK, Environment
  PROVE  TypeOK'
  <1> USE DEF TypeOK
  <1>1. ASSUME NEW t \in Tokens, IssueSession(t) \/ SessionExpires(t)
        PROVE  TypeOK'
    BY <1>1 DEF IssueSession, SessionExpires, SessionState
  <1>2. CASE CleanupExpired
    BY <1>2 DEF CleanupExpired, SessionState
  <1>3. ASSUME NEW p \in Replicas, PurgeExpired(p)
        PROVE  TypeOK'
    BY <1>3 DEF PurgeExpired, Entry, Absent, AccountStatus
  <1>4. ASSUME NEW u \in Users, NEW s \in AccountStatus, StaleRowWrite(u, s)
        PROVE  TypeOK'
    BY <1>4 DEF StaleRowWrite
  <1>5. CASE Tick
    BY <1>5 DEF Tick
  <1> QED
    BY <1>1, <1>2, <1>3, <1>4, <1>5 DEF Environment

\* Type correctness: every variable keeps its type in every behaviour.
THEOREM TypeCorrect == Spec => []TypeOK
  <1>1. TypeOK /\ [Next]_vars => TypeOK'
    <2>1. CASE UNCHANGED vars
      BY <2>1 DEF TypeOK, vars
    <2> QED
      BY <2>1, TypeRequest, TypeRevoker, TypeEnvironment DEF Next
  <1> QED
    BY <1>1, TypeInit, PTL DEF Spec

(***************************************************************************)
(* The staleness bound.                                                    *)
(*                                                                         *)
(* StaleBound is not inductive: what a hit may find depends on what was    *)
(* inserted, and that on when the inserting request checked the session.   *)
(* StaleInv follows the chain: a request between check and insert is at    *)
(* most MaxLag old and its check preceded the end of the session, so an    *)
(* entry expires at most MaxLag + Ttl after that end.                      *)
(***************************************************************************)
Ended(t) == session[t] \in {"expired", "deleted"}

EndsInPast == \A t \in Tokens : Ended(t) => endedAt[t] <= now

EntryBounded ==
  \A p \in Replicas, t \in Tokens :
    /\ cache[p][t].exp <= now + Ttl
    /\ Ended(t) => cache[p][t].exp <= endedAt[t] + MaxLag + Ttl

RequestBounded ==
  \A r \in Requests :
    /\ req[r].since <= now
    /\ req[r].pc \in {"rootGate", "loadUser", "insert"} =>
         /\ now <= req[r].since + MaxLag
         /\ Ended(req[r].token) => req[r].since <= endedAt[req[r].token]
    /\ req[r].pc \in {"hitGate", "reread", "ok"} =>
         (Ended(req[r].token)
            => req[r].since <= endedAt[req[r].token] + Staleness)

StaleInv == EndsInPast /\ EntryBounded /\ RequestBounded

\* Staleness is a natural number, and with the cache on it is one less than
\* the lag and the TTL together.
LEMMA StalenessNat ==
  Staleness \in Nat /\ (Ttl > 0 => Staleness = MaxLag + Ttl - 1)
  BY BearerGateAssumption DEF Staleness

\* A step that lets no time pass, ends sessions only now, only removes cache
\* entries, and touches no pc, token or time of a request that it does not
\* end, keeps StaleInv.
LEMMA StaleQuiet ==
  ASSUME TypeOK, TypeOK', StaleInv,
         now' = now,
         \A t \in Tokens :
            Ended(t)' => (endedAt'[t] = now
                           \/ (Ended(t) /\ endedAt'[t] = endedAt[t])),
         \A p \in Replicas, t \in Tokens :
            cache'[p][t].exp = cache[p][t].exp \/ cache'[p][t].exp = 0,
         \A r \in Requests : \/ req'[r] = IdleReq
                             \/ /\ req'[r].pc = req[r].pc
                                /\ req'[r].token = req[r].token
                                /\ req'[r].since = req[r].since
  PROVE  StaleInv'
  <1>1. EndsInPast'
    <2> SUFFICES ASSUME NEW t \in Tokens, Ended(t)'
                 PROVE  endedAt'[t] <= now
      BY DEF EndsInPast
    <2>1. now \in Nat /\ (Ended(t) => endedAt[t] <= now)
      BY DEF StaleInv, EndsInPast, TypeOK
    <2> QED
      BY <2>1
  <1>2. EntryBounded'
    <2> SUFFICES ASSUME NEW p \in Replicas, NEW t \in Tokens
                 PROVE  /\ cache'[p][t].exp <= now + Ttl
                        /\ Ended(t)' => cache'[p][t].exp
                                          <= endedAt'[t] + MaxLag + Ttl
      BY DEF EntryBounded
    <2>1. cache[p][t].exp \in Nat /\ endedAt[t] \in Nat /\ endedAt'[t] \in Nat
            /\ now \in Nat
      BY DEF TypeOK, Entry
    <2>2. /\ cache[p][t].exp <= now + Ttl
          /\ Ended(t) => cache[p][t].exp <= endedAt[t] + MaxLag + Ttl
      BY DEF StaleInv, EntryBounded
    <2> QED
      BY <2>1, <2>2, BearerGateAssumption
  <1>3. RequestBounded'
    <2> SUFFICES ASSUME NEW r \in Requests
                 PROVE  RequestBounded!(r)'
      BY DEF RequestBounded
    <2>1. CASE req'[r] = IdleReq
      BY <2>1 DEF IdleReq, TypeOK
    <2>2. CASE /\ req'[r].pc = req[r].pc
               /\ req'[r].token = req[r].token
               /\ req'[r].since = req[r].since
      <3>1. /\ req[r].token \in Tokens /\ req[r].since \in Nat /\ now \in Nat
            /\ endedAt[req[r].token] \in Nat
            /\ endedAt'[req[r].token] \in Nat
        BY DEF TypeOK, Request
      <3>2. RequestBounded!(r)
        BY DEF StaleInv, RequestBounded
      <3> QED
        BY <2>2, <3>1, <3>2, StalenessNat, BearerGateAssumption
    <2> QED
      BY <2>1, <2>2
  <1> QED
    BY <1>1, <1>2, <1>3 DEF StaleInv

\* A request step keeps StaleInv: the insert is where MaxLag + Ttl comes from,
\* the hit is where the bound is used.
LEMMA StaleRequest ==
  ASSUME TypeOK, TypeOK', StaleInv, NEW r \in Requests, RequestStep(r)
  PROVE  StaleInv'
  <1>0. UNCHANGED <<session, endedAt, now>>
    BY RequestFrame
  <1> DEFINE t == req[r].token
             p == req[r].rep
  <1>a. /\ t \in Tokens /\ p \in Replicas /\ req[r].since \in Nat
        /\ now \in Nat /\ endedAt[t] \in Nat /\ cache[p][t].exp \in Nat
    BY RequestParts DEF TypeOK, Request, Entry
  <1>b. /\ RequestBounded!(r)
        /\ cache[p][t].exp <= now + Ttl
        /\ Ended(t) => cache[p][t].exp <= endedAt[t] + MaxLag + Ttl
        /\ Ended(t) => endedAt[t] <= now
    BY <1>a DEF StaleInv, RequestBounded, EntryBounded, EndsInPast
  <1>1. EndsInPast'
    BY <1>0 DEF StaleInv, EndsInPast, Ended
  <1>2. EntryBounded'
    <2>1. CASE Insert(r) /\ Ttl # 0
      <3> SUFFICES ASSUME NEW q \in Replicas, NEW x \in Tokens
                   PROVE  /\ cache'[q][x].exp <= now + Ttl
                          /\ Ended(x) => cache'[q][x].exp
                                            <= endedAt[x] + MaxLag + Ttl
        BY <1>0 DEF EntryBounded, Ended
      <3>1. /\ cache[q][x].exp <= now + Ttl
            /\ Ended(x) => cache[q][x].exp <= endedAt[x] + MaxLag + Ttl
        BY DEF StaleInv, EntryBounded
      <3>2. \/ cache'[q][x] = cache[q][x]
            \/ cache'[q][x] = Absent
            \/ x = t /\ cache'[q][x].exp = now + Ttl
        <4>1. MakeRoom(cache[p])[x] \in {cache[p][x], Absent}
                /\ MakeRoom(cache[p]) \in [Tokens -> Entry]
          BY <1>a, MakeRoomType DEF TypeOK
        <4> QED
          BY <1>a, <2>1, <4>1 DEF Insert, TypeOK
      <3>3. req[r].pc = "insert"
        BY <2>1 DEF Insert
      <3>4. endedAt[x] \in Nat
        BY DEF TypeOK
      <3> QED
        BY <1>a, <1>b, <3>1, <3>2, <3>3, <3>4, BearerGateAssumption DEF Absent
    <2>2. CASE UNCHANGED cache
      BY <1>0, <2>2 DEF StaleInv, EntryBounded, Ended
    <2> QED
      BY <2>1, <2>2 DEF RequestStep, StartRequest, CacheLookup, HitGate,
         VerifySession, RootGate, LoadUser, Insert, RereadSession, FinishRequest
  <1>3. RequestBounded'
    <2>1. ASSUME NEW s \in Requests, s # r
          PROVE  RequestBounded!(s)'
      <3>1. req'[s] = req[s]
        BY <2>1 DEF TypeOK, RequestStep, StartRequest, CacheLookup, HitGate,
           VerifySession, RootGate, LoadUser, Insert, RereadSession,
           FinishRequest, Goto, Reject
      <3> QED
        BY <1>0, <3>1 DEF StaleInv, RequestBounded, Ended
    <2>2. RequestBounded!(r)'
      <3> USE <1>0, <1>a, <1>b DEF Ended
      <3>1. CASE req'[r] = IdleReq
        BY <3>1 DEF IdleReq
      <3>2. CASE req'[r].pc \in {"lookup", "session"} /\ req'[r].since = 0
        BY <3>2
      <3>3. CASE CacheLookup(r)
        <4>1. CASE Ttl > 0 /\ cache[p][t].exp > now
          <5>1. /\ req'[r].pc = "hitGate" /\ req'[r].token = t
                /\ req'[r].since = now
            <6>1. req'[r] = [req[r] EXCEPT !.pc = "hitGate",
                               !.row = cache[p][t].row, !.since = now]
              BY <3>3, <4>1 DEF CacheLookup, TypeOK
            <6> QED
              BY <6>1, RequestParts DEF Request
          <5> QED
            BY <4>1, <5>1, StalenessNat, BearerGateAssumption
        <4>2. CASE Goto(r, "session")
          <5>1. /\ req'[r].pc = "session" /\ req'[r].since = req[r].since
            BY <4>2 DEF Goto, TypeOK, Request
          <5> QED
            BY <5>1
        <4> QED
          BY <3>3, <4>1, <4>2 DEF CacheLookup
      <3>4. CASE VerifySession(r) /\ session[t] = "live"
        <4>1. /\ req'[r].pc = "rootGate" /\ req'[r].token = t
              /\ req'[r].since = now
          BY <3>4 DEF VerifySession, TypeOK, Request
        <4> QED
          BY <3>4, <4>1, BearerGateAssumption
      <3>5. ASSUME NEW x, NEW y, req[r].pc = x, req'[r].pc = y,
                   req'[r].token = t, req'[r].since = req[r].since,
                   \/ x = "rootGate" /\ y = "loadUser"
                   \/ x = "loadUser" /\ y \in {"insert", "reread"}
                   \/ x = "insert" /\ y = "ok"
                   \/ x \in {"reread", "hitGate"} /\ y = "ok"
            PROVE  RequestBounded!(r)'
        BY <3>5, StalenessNat, BearerGateAssumption
      <3>6. CASE HitGate(r) /\ Goto(r, "ok")
        BY <3>5, <3>6 DEF HitGate, Goto, TypeOK, Request
      <3>7. CASE RootGate(r) /\ Goto(r, "loadUser")
        BY <3>5, <3>7 DEF RootGate, Goto, TypeOK, Request
      <3>8. CASE LoadUser(r) /\ rowStatus[Owner[t]] = "Active"
        <4>1. /\ req[r].pc = "loadUser" /\ req'[r].pc \in {"insert", "reread"}
              /\ req'[r].token = t /\ req'[r].since = req[r].since
          <5>1. req'[r] = [req[r] EXCEPT !.row = rowStatus[Owner[t]],
                             !.pc = IF req[r].kind = "AuthedUser"
                                      THEN "insert" ELSE "reread"]
            BY <3>8 DEF LoadUser, TypeOK
          <5>2. req[r].pc = "loadUser"
            BY <3>8 DEF LoadUser
          <5> QED
            BY <5>1, <5>2, RequestParts DEF Request
        <4> QED
          BY <3>5, <4>1
      <3>9. CASE Insert(r)
        BY <3>5, <3>9 DEF Insert, Goto, TypeOK, Request
      <3>10. CASE RereadSession(r) /\ Goto(r, "ok")
        BY <3>5, <3>10 DEF RereadSession, Goto, TypeOK, Request
      <3>11. ASSUME NEW z \in Tokens, NEW q \in Replicas,
                    NEW k \in {"AuthedUser", "AuthedSession"},
                    StartRequest(r, z, q, k)
             PROVE  RequestBounded!(r)'
        BY <3>2, <3>11 DEF StartRequest, TypeOK
      <3>12. CASE Reject(r) \/ FinishRequest(r)
        BY <3>1, <3>12 DEF Reject, FinishRequest, TypeOK
      <3> QED
        BY <3>3, <3>4, <3>6, <3>7, <3>8, <3>9, <3>10, <3>11, <3>12
        DEF RequestStep, HitGate, VerifySession, RootGate, LoadUser,
            RereadSession
    <2> QED
      BY <2>1, <2>2 DEF RequestBounded
  <1> QED
    BY <1>1, <1>2, <1>3 DEF StaleInv

\* A revoking handler keeps StaleInv.
LEMMA StaleRevoker ==
  ASSUME TypeOK, TypeOK', StaleInv, NEW v \in Revokers, RevokerStep(v)
  PROVE  StaleInv'
  <1>1. now' = now
    BY DEF RevokerStep, RevUnchanged, StartLogout, StartReset, StartStatus,
       WriteRow, WriteRoot, LoadRootFails, LogActivity, DbError, Invalidate,
       DeleteSessions, DeleteFailsSilently
  <1>2. \A t \in Tokens :
            Ended(t)' => (endedAt'[t] = now
                           \/ (Ended(t) /\ endedAt'[t] = endedAt[t]))
    <2>1. CASE DeleteSessions(v)
      <3> SUFFICES ASSUME NEW t \in Tokens, Ended(t)'
                   PROVE  \/ endedAt'[t] = now
                          \/ Ended(t) /\ endedAt'[t] = endedAt[t]
        BY DEF Ended
      <3>1. /\ session'[t] = IF t \in rev[v].targets /\ session[t] # "unissued"
                               THEN "deleted" ELSE session[t]
            /\ endedAt'[t] = IF t \in rev[v].targets /\ session[t] = "live"
                               THEN now ELSE endedAt[t]
        BY <2>1 DEF DeleteSessions
      <3>2. session[t] \in SessionState
        BY DEF TypeOK
      <3> QED
        BY <3>1, <3>2 DEF Ended, SessionState
    <2>2. CASE UNCHANGED <<session, endedAt>>
      BY <2>2 DEF Ended
    <2> QED
      BY <2>1, <2>2 DEF RevokerStep, StartLogout, StartReset, StartStatus,
         WriteRow, WriteRoot, LoadRootFails, LogActivity, DbError, Invalidate,
         DeleteFailsSilently
  <1>3. \A p \in Replicas, t \in Tokens :
          cache'[p][t].exp = cache[p][t].exp \/ cache'[p][t].exp = 0
    <2>1. CASE Invalidate(v)
      <3>1. \A p \in Replicas, t \in Tokens :
              cache'[p][t] = cache[p][t] \/ cache'[p][t] = Absent
        BY <2>1 DEF Invalidate, TypeOK
      <3> QED
        BY <3>1 DEF Absent
    <2>2. CASE UNCHANGED cache
      BY <2>2
    <2> QED
      BY <2>1, <2>2 DEF RevokerStep, StartLogout, StartReset, StartStatus,
         WriteRow, WriteRoot, LoadRootFails, LogActivity, DbError,
         DeleteSessions, DeleteFailsSilently
  <1>4. \A r \in Requests : \/ req'[r] = IdleReq
                            \/ /\ req'[r].pc = req[r].pc
                               /\ req'[r].token = req[r].token
                               /\ req'[r].since = req[r].since
    <2>1. ASSUME NEW s \in Requests, NEW k \in {"logout", "logoutAll"},
                 StartLogout(v, s, k)
          PROVE  \A r \in Requests : req'[r] \in {IdleReq, req[r]}
      BY <2>1 DEF StartLogout, TypeOK
    <2>2. ASSUME NEW u \in Users, NEW s \in NewStatuses, NEW p \in Replicas,
                 StartStatus(v, u, s, p)
          PROVE  \A r \in Requests : /\ req'[r].pc = req[r].pc
                                     /\ req'[r].token = req[r].token
                                     /\ req'[r].since = req[r].since
      BY <2>2 DEF StartStatus, TypeOK, Request
    <2>3. CASE UNCHANGED req
      BY <2>3
    <2> QED
      BY <2>1, <2>2, <2>3 DEF RevokerStep, StartReset, WriteRow, WriteRoot,
         LoadRootFails, LogActivity, DbError, Invalidate, DeleteSessions,
         DeleteFailsSilently
  <1> QED
    BY <1>1, <1>2, <1>3, <1>4, StaleQuiet

\* Everything else keeps StaleInv; Tick because of its guard.
LEMMA StaleEnvironment ==
  ASSUME TypeOK, TypeOK', StaleInv, Environment
  PROVE  StaleInv'
  <1>1. CASE Tick
    <2>1. EndsInPast' /\ EntryBounded'
      BY <1>1, BearerGateAssumption
      DEF Tick, StaleInv, EndsInPast, EntryBounded, Ended, TypeOK, Entry
    <2>2. RequestBounded'
      <3> SUFFICES ASSUME NEW r \in Requests PROVE RequestBounded!(r)'
        BY DEF RequestBounded
      <3>1. req[r].since \in Nat /\ now \in Nat
        BY DEF TypeOK, Request
      <3>2. RequestBounded!(r)
        BY DEF StaleInv, RequestBounded
      <3> QED
        BY <1>1, <3>1, <3>2, BearerGateAssumption DEF Tick, Ended
    <2> QED
      BY <2>1, <2>2 DEF StaleInv
  <1>2. ASSUME NEW t \in Tokens, IssueSession(t) \/ SessionExpires(t)
        PROVE  StaleInv'
    <2>1. \A x \in Tokens :
            Ended(x)' => (endedAt'[x] = now
                           \/ (Ended(x) /\ endedAt'[x] = endedAt[x]))
      <3>1. CASE IssueSession(t)
        <4>1. /\ \A x \in Tokens :
                   session'[x] = IF x = t THEN "live" ELSE session[x]
              /\ endedAt' = endedAt
          BY <3>1 DEF IssueSession, TypeOK
        <4> QED
          BY <4>1 DEF Ended
      <3>2. CASE SessionExpires(t)
        BY <3>2 DEF SessionExpires, Ended, TypeOK
      <3> QED
        BY <1>2, <3>1, <3>2
    <2> QED
      BY <1>2, <2>1, StaleQuiet DEF IssueSession, SessionExpires
  <1>3. CASE CleanupExpired
    BY <1>3, StaleQuiet DEF CleanupExpired, Ended, TypeOK
  <1>4. ASSUME NEW p \in Replicas, PurgeExpired(p)
        PROVE  StaleInv'
    <2>1. \A q \in Replicas, t \in Tokens :
            cache'[q][t] = cache[q][t] \/ cache'[q][t] = Absent
      BY <1>4 DEF PurgeExpired, TypeOK
    <2>2. \A q \in Replicas, t \in Tokens :
            cache'[q][t].exp = cache[q][t].exp \/ cache'[q][t].exp = 0
      BY <2>1 DEF Absent
    <2> QED
      BY <1>4, <2>2, StaleQuiet DEF PurgeExpired, Ended
  <1>5. ASSUME NEW u \in Users, NEW s \in AccountStatus, StaleRowWrite(u, s)
        PROVE  StaleInv'
    BY <1>5, StaleQuiet DEF StaleRowWrite, Ended
  <1> QED
    BY <1>1, <1>2, <1>3, <1>4, <1>5 DEF Environment

\* On every replica, a token is accepted no later than Staleness after its
\* session was logged out, revoked or expired.
THEOREM StaleBoundHolds == Spec => []StaleBound
  <1>1. Init => StaleInv
    BY BearerGateAssumption
    DEF Init, StaleInv, EndsInPast, EntryBounded, RequestBounded, Ended,
        IdleReq, Absent
  <1>2. TypeOK /\ TypeOK' /\ StaleInv /\ [Next]_vars => StaleInv'
    <2>1. CASE UNCHANGED vars
      BY <2>1 DEF vars, StaleInv, EndsInPast, EntryBounded, RequestBounded,
         Ended
    <2> QED
      BY <2>1, StaleRequest, StaleRevoker, StaleEnvironment DEF Next
  <1>3. StaleInv => StaleBound
    BY DEF StaleInv, RequestBounded, StaleBound, Ended
  <1> QED
    BY <1>1, <1>2, <1>3, TypeCorrect, PTL DEF Spec

(***************************************************************************)
(* A suspension that reached the root holds.                               *)
(*                                                                         *)
(* The invariant ties the flag a request carries to the root it will read: *)
(* while the account is barred no status change is in flight, so nobody    *)
(* writes the root, and a request that started then cannot be past the     *)
(* root gate.                                                              *)
(***************************************************************************)
Changing(v, u) ==
  rev[v].pc # "idle" /\ rev[v].kind = "status" /\ rev[v].user = u

BarredRoot ==
  \A u \in Users : barred[u] = "root" =>
    rootStatus[u] = "suspended" /\ \A v \in Revokers : ~Changing(v, u)

BarredRequest ==
  \A r \in Requests : req[r].barred = "root" =>
    /\ barred[Owner[req[r].token]] = "root"
    /\ req[r].pc \notin {"loadUser", "insert", "reread", "ok"}

StatusHandler ==
  \A v \in Revokers :
    /\ rev[v].pc \in {"row", "root", "log"} => rev[v].kind = "status"
    /\ Changing(v, rev[v].user) /\ rev[v].solo =>
         /\ \A w \in Revokers \ {v} : ~Changing(w, rev[v].user)
         /\ rev[v].rooted /\ rev[v].status # "Active"
              => rootStatus[rev[v].user] = "suspended"

SuspensionInv == BarredRoot /\ BarredRequest /\ StatusHandler

\* A request step keeps SuspensionInv: both gates read the root.
LEMMA SuspensionRequest ==
  ASSUME TypeOK, TypeOK', SuspensionInv, NEW r \in Requests, RequestStep(r)
  PROVE  SuspensionInv'
  <1>0. UNCHANGED <<rootStatus, rev, barred>>
    BY RequestFrame
  <1>1. BarredRoot' /\ StatusHandler'
    BY <1>0 DEF SuspensionInv, BarredRoot, StatusHandler, Changing
  <1>2. ASSUME NEW s \in Requests, s # r
        PROVE  BarredRequest!(s)'
    <2>1. req'[s] = req[s]
      BY <1>2 DEF TypeOK, RequestStep, StartRequest, CacheLookup, HitGate,
         VerifySession, RootGate, LoadUser, Insert, RereadSession,
         FinishRequest, Goto, Reject
    <2> QED
      BY <1>0, <2>1 DEF SuspensionInv, BarredRequest
  <1>3. BarredRequest!(r)'
    <2> DEFINE u == Owner[req[r].token]
    <2>a. u \in Users /\ req[r] \in Request
      BY RequestParts
    <2>b. req[r].barred = "root" =>
            /\ barred[u] = "root"
            /\ req[r].pc \notin {"loadUser", "insert", "reread", "ok"}
            /\ rootStatus[u] = "suspended"
      BY <2>a DEF SuspensionInv, BarredRequest, BarredRoot
    <2>1. ASSUME NEW t \in Tokens, NEW p \in Replicas,
                 NEW k \in {"AuthedUser", "AuthedSession"},
                 StartRequest(r, t, p, k)
          PROVE  BarredRequest!(r)'
      BY <1>0, <2>1 DEF StartRequest, TypeOK
    <2>2. CASE Reject(r) \/ FinishRequest(r)
      <3>1. req'[r] = IdleReq
        BY <2>2 DEF Reject, FinishRequest, TypeOK
      <3> QED
        BY <3>1 DEF IdleReq
    <2>3. ASSUME req'[r].token = req[r].token, req'[r].barred = req[r].barred,
                 \/ req'[r].pc \in {"session", "hitGate", "rootGate"}
                 \/ rootStatus[u] = "active"
                 \/ req[r].pc \in {"loadUser", "insert", "reread", "ok"}
          PROVE  BarredRequest!(r)'
      BY <1>0, <2>b, <2>3
    <2>4. CASE CacheLookup(r)
      <3>1. \/ req'[r] = [req[r] EXCEPT !.pc = "hitGate",
                  !.row = cache[req[r].rep][req[r].token].row, !.since = now]
            \/ req'[r] = [req[r] EXCEPT !.pc = "session"]
        BY <2>4 DEF CacheLookup, Goto, TypeOK
      <3> QED
        BY <2>3, <2>a, <3>1 DEF Request
    <2>5. CASE VerifySession(r) /\ session[req[r].token] = "live"
      <3>1. req'[r] = [req[r] EXCEPT !.pc = "rootGate", !.since = now]
        BY <2>5 DEF VerifySession, TypeOK
      <3> QED
        BY <2>3, <2>a, <3>1 DEF Request
    <2>6. CASE /\ HitGate(r) \/ RootGate(r)
               /\ rootStatus[u] = "active"
               /\ Goto(r, "ok") \/ Goto(r, "loadUser")
      <3>1. \E x \in ReqPc : req'[r] = [req[r] EXCEPT !.pc = x]
        BY <2>6 DEF Goto, TypeOK, ReqPc
      <3> QED
        BY <2>3, <2>6, <2>a, <3>1 DEF Request
    <2>7. CASE LoadUser(r) /\ rowStatus[u] = "Active"
      <3>1. req'[r] = [req[r] EXCEPT !.row = rowStatus[u],
                         !.pc = IF req[r].kind = "AuthedUser"
                                  THEN "insert" ELSE "reread"]
        BY <2>7 DEF LoadUser, TypeOK
      <3>2. req[r].pc = "loadUser"
        BY <2>7 DEF LoadUser
      <3> QED
        BY <2>3, <2>a, <3>1, <3>2 DEF Request
    <2>8. CASE (Insert(r) \/ RereadSession(r)) /\ Goto(r, "ok")
      <3>1. req'[r] = [req[r] EXCEPT !.pc = "ok"]
        BY <2>8 DEF Goto, TypeOK
      <3>2. req[r].pc \in {"insert", "reread"}
        BY <2>8 DEF Insert, RereadSession
      <3> QED
        BY <2>3, <2>a, <3>1, <3>2 DEF Request
    <2> QED
      BY <2>1, <2>2, <2>4, <2>5, <2>6, <2>7, <2>8
      DEF RequestStep, HitGate, VerifySession, RootGate, LoadUser, Insert,
          RereadSession
  <1> QED
    BY <1>1, <1>2, <1>3 DEF SuspensionInv, BarredRequest

\* A handler that moves on without writing the root, and without ending,
\* keeps SuspensionInv.
LEMMA SuspensionMove ==
  ASSUME TypeOK, TypeOK', SuspensionInv, NEW v \in Revokers, NEW x \in RevPc,
         RevGoto(v, x), x # "idle", rev[v].pc # "idle",
         x \in {"row", "root", "log"} => rev[v].kind = "status",
         UNCHANGED <<rootStatus, barred, req>>
  PROVE  SuspensionInv'
  <1>1. \A w \in Revokers : /\ rev'[w].kind = rev[w].kind
                            /\ rev'[w].user = rev[w].user
                            /\ rev'[w].solo = rev[w].solo
                            /\ rev'[w].rooted = rev[w].rooted
                            /\ rev'[w].status = rev[w].status
                            /\ rev'[w].pc = IF w = v THEN x ELSE rev[w].pc
    BY DEF RevGoto, TypeOK, Revoker
  <1>2. \A w \in Revokers, u \in Users : Changing(w, u)' <=> Changing(w, u)
    BY <1>1 DEF Changing
  <1>3. \A w \in Revokers : rev[w].user \in Users
    BY DEF TypeOK, Revoker
  <1>4. BarredRoot' /\ BarredRequest'
    BY <1>2 DEF SuspensionInv, BarredRoot, BarredRequest
  <1>5. StatusHandler'
    <2> SUFFICES ASSUME NEW w \in Revokers PROVE StatusHandler!(w)'
      BY DEF StatusHandler
    <2>1. StatusHandler!(w)
      BY DEF SuspensionInv, StatusHandler
    <2> QED
      BY <1>1, <1>2, <1>3, <2>1
  <1> QED
    BY <1>4, <1>5 DEF SuspensionInv

\* A handler that ends, with or without an answer, keeps SuspensionInv.
LEMMA SuspensionEnd ==
  ASSUME TypeOK, TypeOK', SuspensionInv, NEW v \in Revokers,
         Answer(v) \/ Abort(v), rev[v].pc # "idle",
         UNCHANGED <<rootStatus, req>>
  PROVE  SuspensionInv'
  <1>1. rev' = [rev EXCEPT ![v] = IdleRev]
    BY DEF Answer, Abort
  <1>2. rev'[v].pc = "idle" /\ \A w \in Revokers \ {v} : rev'[w] = rev[w]
    BY <1>1 DEF IdleRev, TypeOK
  <1>3. \A w \in Revokers, u \in Users :
          Changing(w, u)' <=> Changing(w, u) /\ w # v
    BY <1>2 DEF Changing
  <1>4. rev[v].user \in Users
    BY DEF TypeOK, Revoker
  <1>5. StatusHandler'
    <2> SUFFICES ASSUME NEW w \in Revokers PROVE StatusHandler!(w)'
      BY DEF StatusHandler
    <2>1. StatusHandler!(w)
      BY DEF SuspensionInv, StatusHandler
    <2>2. CASE w = v
      BY <1>2, <2>2 DEF Changing
    <2>3. CASE w # v
      <3>1. rev'[w] = rev[w] /\ rev[w].user \in Users
        BY <1>2, <2>3 DEF TypeOK, Revoker
      <3> QED
        BY <1>3, <2>1, <2>3, <3>1
    <2> QED
      BY <2>2, <2>3
  <1>6. CASE barred' = barred
    BY <1>3, <1>5, <1>6 DEF SuspensionInv, BarredRoot, BarredRequest
  <1>7. CASE /\ rev[v].kind = "status" /\ rev[v].solo
             /\ rev[v].status # "Active"
             /\ barred' = [barred EXCEPT ![rev[v].user] =
                             IF rev[v].rooted THEN "root" ELSE "row"]
    <2>1. Changing(v, rev[v].user)
      BY <1>7 DEF Changing
    <2>2. barred[rev[v].user] # "root"
      BY <1>4, <2>1 DEF SuspensionInv, BarredRoot
    <2>3. /\ \A w \in Revokers \ {v} : ~Changing(w, rev[v].user)
          /\ rev[v].rooted => rootStatus[rev[v].user] = "suspended"
      BY <1>7, <2>1 DEF SuspensionInv, StatusHandler
    <2>4. BarredRoot'
      <3> SUFFICES ASSUME NEW u \in Users, barred'[u] = "root"
                   PROVE  rootStatus[u] = "suspended"
                            /\ \A w \in Revokers : ~Changing(w, u)'
        BY DEF BarredRoot
      <3>1. CASE u = rev[v].user
        BY <1>3, <1>4, <1>7, <2>3, <3>1 DEF TypeOK
      <3>2. CASE u # rev[v].user
        BY <1>3, <1>7, <3>2 DEF SuspensionInv, BarredRoot, TypeOK
      <3> QED
        BY <3>1, <3>2
    <2>5. BarredRequest'
      <3> SUFFICES ASSUME NEW r \in Requests, req[r].barred = "root"
                   PROVE  /\ barred'[Owner[req[r].token]] = "root"
                          /\ req[r].pc \notin {"loadUser", "insert", "reread",
                                               "ok"}
        BY DEF BarredRequest
      <3>1. /\ barred[Owner[req[r].token]] = "root"
            /\ req[r].pc \notin {"loadUser", "insert", "reread", "ok"}
            /\ Owner[req[r].token] \in Users
        BY RequestParts DEF SuspensionInv, BarredRequest
      <3> QED
        BY <1>7, <2>2, <3>1 DEF TypeOK
    <2> QED
      BY <1>5, <2>4, <2>5 DEF SuspensionInv
  <1> QED
    BY <1>6, <1>7 DEF Answer, Abort

\* Starting a logout or a reset keeps SuspensionInv.
LEMMA SuspensionStart ==
  ASSUME TypeOK, TypeOK', SuspensionInv, NEW v \in Revokers,
         rev[v].pc = "idle",
         rev'[v].pc = "del", rev'[v].kind # "status",
         \A w \in Revokers \ {v} : rev'[w] = rev[w],
         \A r \in Requests : req'[r] = IdleReq \/ req'[r] = req[r],
         UNCHANGED <<rootStatus, barred>>
  PROVE  SuspensionInv'
  <1>1. \A w \in Revokers, u \in Users : Changing(w, u)' <=> Changing(w, u)
    BY DEF Changing
  <1>2. \A w \in Revokers : rev[w].user \in Users
    BY DEF TypeOK, Revoker
  <1>3. BarredRoot'
    BY <1>1 DEF SuspensionInv, BarredRoot
  <1>4. BarredRequest'
    <2> SUFFICES ASSUME NEW r \in Requests PROVE BarredRequest!(r)'
      BY DEF BarredRequest
    <2>1. CASE req'[r] = IdleReq
      BY <2>1 DEF IdleReq
    <2>2. CASE req'[r] = req[r]
      BY <2>2 DEF SuspensionInv, BarredRequest
    <2> QED
      BY <2>1, <2>2
  <1>5. StatusHandler'
    <2> SUFFICES ASSUME NEW w \in Revokers PROVE StatusHandler!(w)'
      BY DEF StatusHandler
    <2>1. CASE w = v
      BY <2>1 DEF Changing
    <2>2. CASE w # v
      BY <1>1, <1>2, <2>2 DEF SuspensionInv, StatusHandler
    <2> QED
      BY <2>1, <2>2
  <1> QED
    BY <1>3, <1>4, <1>5 DEF SuspensionInv

\* A revoking handler keeps SuspensionInv.
LEMMA SuspensionRevoker ==
  ASSUME TypeOK, TypeOK', SuspensionInv, NEW v \in Revokers, RevokerStep(v)
  PROVE  SuspensionInv'
  <1>0. RevPc = {"idle", "row", "root", "log", "inv", "inv2", "del"}
    BY DEF RevPc
  <1>a. rev[v] \in Revoker /\ rev[v].user \in Users
    BY DEF TypeOK, Revoker
  <1>b. rev[v].pc \in {"row", "root", "log"} => rev[v].kind = "status"
    BY DEF SuspensionInv, StatusHandler
  <1>1. ASSUME NEW r \in Requests, NEW k \in {"logout", "logoutAll"},
               StartLogout(v, r, k)
        PROVE  SuspensionInv'
    <2>1. /\ rev[v].pc = "idle" /\ rev'[v].pc = "del"
          /\ rev'[v].kind # "status"
          /\ \A w \in Revokers \ {v} : rev'[w] = rev[w]
      BY <1>1 DEF StartLogout, TypeOK
    <2>2. \A s \in Requests : req'[s] = IdleReq \/ req'[s] = req[s]
      BY <1>1 DEF StartLogout, TypeOK
    <2> QED
      BY <1>1, <2>1, <2>2, SuspensionStart DEF StartLogout
  <1>2. ASSUME NEW u \in Users, NEW p \in Replicas, StartReset(v, u, p)
        PROVE  SuspensionInv'
    <2>1. /\ rev[v].pc = "idle" /\ rev'[v].pc = "del"
          /\ rev'[v].kind # "status"
          /\ \A w \in Revokers \ {v} : rev'[w] = rev[w]
      BY <1>2 DEF StartReset, TypeOK
    <2> QED
      BY <1>2, <2>1, SuspensionStart DEF StartReset
  <1>3. ASSUME NEW u \in Users, NEW s \in NewStatuses, NEW p \in Replicas,
               StartStatus(v, u, s, p)
        PROVE  SuspensionInv'
    <2>1. /\ rev'[v].pc = "row" /\ rev'[v].kind = "status"
          /\ rev'[v].user = u /\ ~rev'[v].rooted
          /\ rev'[v].solo => \A w \in Revokers : ~Changing(w, u)
      BY <1>3 DEF StartStatus, TypeOK, Changing
    <2>2. ASSUME NEW w \in Revokers, w # v
          PROVE  /\ rev'[w].pc = rev[w].pc /\ rev'[w].kind = rev[w].kind
                 /\ rev'[w].user = rev[w].user
                 /\ rev'[w].status = rev[w].status
                 /\ rev'[w].rooted = rev[w].rooted
                 /\ rev'[w].solo => rev[w].solo /\ ~Changing(w, u)
      <3>1. rev[w] \in Revoker
        BY DEF TypeOK
      <3>2. rev'[w] = IF Changing(w, u) THEN [rev[w] EXCEPT !.solo = FALSE]
                                        ELSE rev[w]
        BY <1>3, <2>2 DEF StartStatus, Changing
      <3> QED
        BY <3>1, <3>2 DEF Revoker
    <2>3. \A w \in Revokers \ {v}, x \in Users :
            Changing(w, x)' <=> Changing(w, x)
      BY <2>2 DEF Changing
    <2>4. \A x \in Users : barred'[x] = IF x = u THEN "no" ELSE barred[x]
      BY <1>3 DEF StartStatus, TypeOK
    <2>5. UNCHANGED rootStatus
      BY <1>3 DEF StartStatus
    <2>6. BarredRoot'
      BY <2>1, <2>3, <2>4, <2>5 DEF SuspensionInv, BarredRoot, Changing
    <2>7. BarredRequest'
      <3> SUFFICES ASSUME NEW r \in Requests PROVE BarredRequest!(r)'
        BY DEF BarredRequest
      <3>1. req'[r] = IF Owner[req[r].token] = u
                        THEN [req[r] EXCEPT !.barred = "no"] ELSE req[r]
        BY <1>3 DEF StartStatus
      <3>2. CASE Owner[req[r].token] = u
        BY <3>1, <3>2, RequestParts DEF Request
      <3>3. CASE Owner[req[r].token] # u
        BY <2>4, <3>1, <3>3, RequestParts DEF SuspensionInv, BarredRequest
      <3> QED
        BY <3>2, <3>3
    <2>8. StatusHandler'
      <3> SUFFICES ASSUME NEW w \in Revokers PROVE StatusHandler!(w)'
        BY DEF StatusHandler
      <3>1. CASE w = v
        BY <2>1, <2>3, <3>1
      <3>2. CASE w # v
        <4>1. rev[w].user \in Users /\ rev'[w].user = rev[w].user
          BY <2>2, <3>2 DEF TypeOK, Revoker
        <4>2. StatusHandler!(w)
          BY DEF SuspensionInv, StatusHandler
        <4>3. Changing(w, rev[w].user)' /\ rev'[w].solo =>
                 Changing(w, rev[w].user) /\ rev[w].solo /\ rev[w].user # u
          BY <2>2, <2>3, <3>2, <4>1 DEF Changing
        <4>4. Changing(w, rev[w].user)' /\ rev'[w].solo
                => ~Changing(v, rev[w].user)'
          BY <2>1, <4>1, <4>3 DEF Changing
        <4>5. rev'[w].pc \in {"row", "root", "log"} => rev'[w].kind = "status"
          BY <2>2, <3>2, <4>2
        <4>6. ASSUME Changing(w, rev[w].user)', rev'[w].solo
              PROVE  /\ \A x \in Revokers \ {w} : ~Changing(x, rev[w].user)'
                     /\ rev'[w].rooted /\ rev'[w].status # "Active"
                          => rootStatus'[rev[w].user] = "suspended"
          <5>1. ~Changing(v, rev[w].user)'
            BY <4>4, <4>6
          <5>2. Changing(w, rev[w].user) /\ rev[w].solo
            BY <4>3, <4>6
          <5> QED
            BY <2>2, <2>3, <2>5, <3>2, <4>1, <4>2, <5>1, <5>2
        <4> QED
          BY <4>1, <4>5, <4>6 DEF Changing
      <3> QED
        BY <3>1, <3>2
    <2> QED
      BY <2>6, <2>7, <2>8 DEF SuspensionInv
  <1>4. CASE WriteRow(v)
    BY <1>0, <1>4, <1>b, SuspensionMove DEF WriteRow
  <1>5. CASE WriteRoot(v)
    <2>1. Changing(v, rev[v].user) /\ rev[v].kind = "status"
      BY <1>5, <1>b DEF WriteRoot, Changing
    <2>2. barred[rev[v].user] # "root"
      BY <1>a, <2>1 DEF SuspensionInv, BarredRoot
    <2>3. /\ rev'[v].pc = "log" /\ rev'[v].kind = "status"
          /\ rev'[v].user = rev[v].user /\ rev'[v].solo = rev[v].solo
          /\ rev'[v].status = rev[v].status
      <3>1. rev'[v] = [rev[v] EXCEPT !.pc = "log", !.rooted = TRUE]
        BY <1>5 DEF WriteRoot, TypeOK
      <3> QED
        BY <1>a, <2>1, <3>1 DEF Revoker
    <2>4. \A w \in Revokers \ {v} : rev'[w] = rev[w]
      BY <1>5 DEF WriteRoot, TypeOK
    <2>5. \A w \in Revokers, x \in Users : Changing(w, x)' <=> Changing(w, x)
      BY <2>1, <2>3, <2>4 DEF Changing
    <2>6. /\ \A x \in Users \ {rev[v].user} : rootStatus'[x] = rootStatus[x]
          /\ rev[v].status # "Active"
               => rootStatus'[rev[v].user] = "suspended"
      BY <1>5, <1>a DEF WriteRoot, TypeOK
    <2>7. BarredRoot' /\ BarredRequest'
      BY <1>5, <2>2, <2>5, <2>6
      DEF WriteRoot, SuspensionInv, BarredRoot, BarredRequest
    <2>8. StatusHandler'
      <3> SUFFICES ASSUME NEW w \in Revokers PROVE StatusHandler!(w)'
        BY DEF StatusHandler
      <3>0. rev[w].user \in Users
        BY DEF TypeOK, Revoker
      <3>1. StatusHandler!(w)
        BY DEF SuspensionInv, StatusHandler
      <3>2. CASE w = v
        BY <1>a, <2>3, <2>5, <2>6, <3>1, <3>2
      <3>3. CASE w # v
        BY <1>a, <2>1, <2>4, <2>5, <2>6, <3>0, <3>1, <3>3
      <3> QED
        BY <3>2, <3>3
    <2> QED
      BY <2>7, <2>8 DEF SuspensionInv
  <1>6. CASE LoadRootFails(v)
    BY <1>0, <1>6, <1>b, SuspensionMove DEF LoadRootFails
  <1>7. CASE LogActivity(v)
    BY <1>0, <1>7, <1>b, SuspensionMove DEF LogActivity
  <1>8. CASE DbError(v)
    BY <1>8, SuspensionEnd DEF DbError
  <1>9. CASE Invalidate(v)
    BY <1>0, <1>9, SuspensionEnd, SuspensionMove DEF Invalidate
  <1>10. CASE DeleteSessions(v)
    BY <1>0, <1>10, SuspensionEnd, SuspensionMove DEF DeleteSessions
  <1>11. CASE DeleteFailsSilently(v)
    BY <1>11, SuspensionEnd DEF DeleteFailsSilently
  <1> QED
    BY <1>1, <1>2, <1>3, <1>4, <1>5, <1>6, <1>7, <1>8, <1>9, <1>10, <1>11
    DEF RevokerStep

\* After a suspension that reached the identity root was answered, no later
\* request is admitted until the next status change of the account begins,
\* whatever the caches and the stale copies of the user row hold.
THEOREM SuspensionHoldsAlways == Spec => []SuspensionHolds
  <1>1. Init => SuspensionInv
    BY DEF Init, SuspensionInv, BarredRoot, BarredRequest, StatusHandler,
       Changing, IdleReq, IdleRev
  <1>2. TypeOK /\ TypeOK' /\ SuspensionInv /\ [Next]_vars => SuspensionInv'
    <2>1. ASSUME TypeOK, SuspensionInv, UNCHANGED <<rootStatus, req, rev, barred>>
          PROVE  SuspensionInv'
      BY <2>1 DEF SuspensionInv, BarredRoot, BarredRequest, StatusHandler,
         Changing
    <2>2. Environment => UNCHANGED <<rootStatus, req, rev, barred>>
      BY DEF Environment, IssueSession, SessionExpires, CleanupExpired,
         PurgeExpired, StaleRowWrite, Tick
    <2>3. UNCHANGED vars => UNCHANGED <<rootStatus, req, rev, barred>>
      BY DEF vars
    <2> QED
      BY <2>1, <2>2, <2>3, SuspensionRequest, SuspensionRevoker DEF Next
  <1>3. SuspensionInv => SuspensionHolds
    BY DEF SuspensionInv, BarredRequest, SuspensionHolds
  <1> QED
    BY <1>1, <1>2, <1>3, TypeCorrect, PTL DEF Spec

(***************************************************************************)
(* With the cache off a revocation is immediate.                           *)
(***************************************************************************)
RevokedDeleted == \A t \in revoked : session[t] = "deleted"

LateRequest ==
  \A r \in Requests :
    /\ req[r].late => /\ req[r].token \in revoked
                      /\ req[r].pc \in {"lookup", "session"}
    /\ req[r].pc # "hitGate"

LateInv == RevokedDeleted /\ LateRequest

\* A deleted session row never comes back, and revoked only gains tokens whose
\* row is deleted.
LEMMA RevokedStep ==
  ASSUME TypeOK, RevokedDeleted, [Next]_vars
  PROVE  RevokedDeleted' /\ revoked \subseteq revoked'
  <1>1. ASSUME NEW t \in Tokens, session[t] = "deleted"
        PROVE  session'[t] = "deleted"
    <2>1. ASSUME NEW r \in Requests, RequestStep(r)
          PROVE  session' = session
      BY <2>1, RequestFrame
    <2>2. ASSUME NEW v \in Revokers, RevokerStep(v)
          PROVE  session'[t] = "deleted"
      BY <1>1, <2>2 DEF RevokerStep, StartLogout, StartReset, StartStatus,
         WriteRow, WriteRoot, LoadRootFails, LogActivity, DbError, Invalidate,
         DeleteSessions, DeleteFailsSilently
    <2>3. CASE Environment
      BY <1>1, <2>3 DEF Environment, IssueSession, SessionExpires,
         CleanupExpired, PurgeExpired, StaleRowWrite, Tick, TypeOK
    <2>4. CASE UNCHANGED vars
      BY <1>1, <2>4 DEF vars
    <2> QED
      BY <1>1, <2>1, <2>2, <2>3, <2>4 DEF Next
  <1>2. \/ revoked' = revoked
        \/ \E T \in SUBSET Tokens :
             revoked' = revoked \cup {t \in T : session'[t] = "deleted"}
    <2>1. ASSUME NEW r \in Requests, RequestStep(r)
          PROVE  revoked' = revoked
      BY <2>1, RequestFrame
    <2>2. ASSUME NEW v \in Revokers, Answer(v)
          PROVE  \E T \in SUBSET Tokens :
                   revoked' = revoked \cup {t \in T : session'[t] = "deleted"}
      <3>1. rev[v].targets \in SUBSET Tokens
        BY DEF TypeOK, Revoker
      <3> QED
        BY <2>2, <3>1 DEF Answer
    <2>3. ASSUME NEW v \in Revokers, RevokerStep(v)
          PROVE  revoked' = revoked \/ Answer(v)
      BY <2>3 DEF RevokerStep, StartLogout, StartReset, StartStatus,
         WriteRow, WriteRoot, LoadRootFails, LogActivity, DbError, Abort,
         Invalidate, DeleteSessions, DeleteFailsSilently
    <2>4. CASE Environment
      BY <2>4 DEF Environment, IssueSession, SessionExpires, CleanupExpired,
         PurgeExpired, StaleRowWrite, Tick
    <2>5. CASE UNCHANGED vars
      BY <2>5 DEF vars
    <2> QED
      BY <2>1, <2>2, <2>3, <2>4, <2>5 DEF Next
  <1>3. revoked \subseteq Tokens
    BY DEF TypeOK
  <1> QED
    BY <1>1, <1>2, <1>3 DEF RevokedDeleted

\* With the cache off, a request step keeps LateRequest: only the session
\* check leads on, and it finds the row of a late request deleted.
LEMMA LateStep ==
  ASSUME TypeOK, TypeOK', LateInv, Ttl = 0, NEW r \in Requests, RequestStep(r)
  PROVE  LateRequest'
  <1>0. UNCHANGED <<session, revoked>>
    BY RequestFrame
  <1>1. ASSUME NEW s \in Requests, s # r
        PROVE  LateRequest!(s)'
    <2>1. req'[s] = req[s]
      BY <1>1 DEF TypeOK, RequestStep, StartRequest, CacheLookup, HitGate,
         VerifySession, RootGate, LoadUser, Insert, RereadSession,
         FinishRequest, Goto, Reject
    <2> QED
      BY <1>0, <2>1 DEF LateInv, LateRequest
  <1>2. LateRequest!(r)'
    <2>a. req[r] \in Request /\ LateRequest!(r)
      BY RequestParts DEF LateInv, LateRequest
    <2>b. req[r].late => session[req[r].token] = "deleted"
      BY <2>a DEF LateInv, RevokedDeleted
    <2>1. ASSUME NEW t \in Tokens, NEW p \in Replicas,
                 NEW k \in {"AuthedUser", "AuthedSession"},
                 StartRequest(r, t, p, k)
          PROVE  LateRequest!(r)'
      BY <1>0, <2>1 DEF StartRequest, TypeOK
    <2>2. CASE Reject(r) \/ FinishRequest(r)
      <3>1. req'[r] = IdleReq
        BY <2>2 DEF Reject, FinishRequest, TypeOK
      <3> QED
        BY <3>1 DEF IdleReq
    <2>3. CASE CacheLookup(r)
      <3>1. req'[r] = [req[r] EXCEPT !.pc = "session"]
        BY <2>3 DEF CacheLookup, Goto, TypeOK
      <3> QED
        BY <1>0, <2>a, <3>1 DEF Request
    <2>4. CASE VerifySession(r) /\ session[req[r].token] = "live"
      <3>1. req'[r] = [req[r] EXCEPT !.pc = "rootGate", !.since = now]
        BY <2>4 DEF VerifySession, TypeOK
      <3> QED
        BY <2>4, <2>a, <2>b, <3>1 DEF Request
    <2>5. CASE LoadUser(r) /\ rowStatus[Owner[req[r].token]] = "Active"
      <3>1. req'[r] = [req[r] EXCEPT !.row = rowStatus[Owner[req[r].token]],
                         !.pc = IF req[r].kind = "AuthedUser"
                                  THEN "insert" ELSE "reread"]
        BY <2>5 DEF LoadUser, TypeOK
      <3>2. req[r].pc = "loadUser"
        BY <2>5 DEF LoadUser
      <3> QED
        BY <2>a, <3>1, <3>2 DEF Request
    <2>6. CASE /\ HitGate(r) \/ RootGate(r) \/ Insert(r) \/ RereadSession(r)
               /\ Goto(r, "ok") \/ Goto(r, "loadUser")
      <3>1. req[r].pc \in {"hitGate", "rootGate", "insert", "reread"}
        BY <2>6 DEF HitGate, RootGate, Insert, RereadSession
      <3>2. \E x \in {"ok", "loadUser"} : req'[r] = [req[r] EXCEPT !.pc = x]
        BY <2>6 DEF Goto, TypeOK
      <3> QED
        BY <2>a, <3>1, <3>2 DEF Request
    <2> QED
      BY <2>1, <2>2, <2>3, <2>4, <2>5, <2>6
      DEF RequestStep, HitGate, VerifySession, RootGate, LoadUser, Insert,
          RereadSession
  <1> QED
    BY <1>1, <1>2 DEF LateRequest

\* With AUTH_SESSION_CACHE_TTL_SECONDS = 0, a request that starts after its
\* session's revocation was answered is refused, on every replica.
THEOREM UncachedRevocationImmediate == Ttl = 0 => (Spec => []RevocationImmediate)
  <1> SUFFICES ASSUME Ttl = 0 PROVE Spec => []RevocationImmediate
    OBVIOUS
  <1>1. Init => LateInv
    BY DEF Init, LateInv, RevokedDeleted, LateRequest, IdleReq
  <1>2. TypeOK /\ TypeOK' /\ LateInv /\ [Next]_vars => LateInv'
    <2> SUFFICES ASSUME TypeOK, TypeOK', LateInv, [Next]_vars
                 PROVE  LateInv'
      OBVIOUS
    <2>1. RevokedDeleted' /\ revoked \subseteq revoked'
      BY RevokedStep DEF LateInv
    <2>2. ASSUME NEW r \in Requests, RequestStep(r)
          PROVE  LateRequest'
      BY <2>2, LateStep
    <2>3. ASSUME \A r \in Requests : \/ req'[r] = IdleReq
                                     \/ /\ req'[r].pc = req[r].pc
                                        /\ req'[r].token = req[r].token
                                        /\ req'[r].late = req[r].late
          PROVE  LateRequest'
      <3> SUFFICES ASSUME NEW r \in Requests PROVE LateRequest!(r)'
        BY DEF LateRequest
      <3>1. CASE req'[r] = IdleReq
        BY <3>1 DEF IdleReq
      <3>2. CASE /\ req'[r].pc = req[r].pc
                 /\ req'[r].token = req[r].token
                 /\ req'[r].late = req[r].late
        BY <2>1, <3>2 DEF LateInv, LateRequest
      <3> QED
        BY <2>3, <3>1, <3>2
    <2>4. ASSUME NEW v \in Revokers, RevokerStep(v)
          PROVE  LateRequest'
      <3>1. ASSUME NEW s \in Requests, NEW k \in {"logout", "logoutAll"},
                   StartLogout(v, s, k)
            PROVE  \A r \in Requests : req'[r] \in {IdleReq, req[r]}
        BY <3>1 DEF StartLogout, TypeOK
      <3>2. ASSUME NEW u \in Users, NEW s \in NewStatuses, NEW p \in Replicas,
                   StartStatus(v, u, s, p)
            PROVE  \A r \in Requests : /\ req'[r].pc = req[r].pc
                                       /\ req'[r].token = req[r].token
                                       /\ req'[r].late = req[r].late
        BY <3>2 DEF StartStatus, TypeOK, Request
      <3>3. CASE UNCHANGED req
        BY <2>1, <3>3 DEF LateInv, LateRequest
      <3> QED
        BY <2>3, <2>4, <3>1, <3>2, <3>3
        DEF RevokerStep, StartReset, WriteRow, WriteRoot,
            LoadRootFails, LogActivity, DbError, Invalidate, DeleteSessions,
            DeleteFailsSilently
    <2>5. CASE UNCHANGED req
      BY <2>1, <2>5 DEF LateInv, LateRequest
    <2>6. Environment \/ UNCHANGED vars => UNCHANGED req
      BY DEF Environment, IssueSession, SessionExpires, CleanupExpired,
         PurgeExpired, StaleRowWrite, Tick, vars
    <2> QED
      BY <2>1, <2>2, <2>4, <2>5, <2>6 DEF Next, LateInv
  <1>3. LateInv => RevocationImmediate
    BY DEF LateInv, LateRequest, RevocationImmediate
  <1> QED
    BY <1>1, <1>2, <1>3, TypeCorrect, PTL DEF Spec

(***************************************************************************)
(* The map of a replica never grows past MAX_ENTRIES.                      *)
(***************************************************************************)

\* A map that holds no entry another does not hold is not larger.
LEMMA HeldSubset ==
  ASSUME NEW c, NEW d, Held(c) \subseteq Held(d)
  PROVE  /\ Cardinality(Held(c)) \in Nat /\ Cardinality(Held(d)) \in Nat
         /\ Cardinality(Held(c)) <= Cardinality(Held(d))
  <1>1. IsFiniteSet(Held(d))
    BY BearerGateAssumption, FS_Subset DEF Held
  <1> QED
    BY <1>1, FS_Subset, FS_CardinalityType

\* MakeRoom leaves room for one entry.
LEMMA RoomForOne ==
  ASSUME NEW c \in [Tokens -> Entry]
  PROVE  Cardinality(Held(MakeRoom(c))) < MaxEntries
  <1>1. CASE MakeRoom(c) = [t \in Tokens |-> Absent]
    <2>1. Held(MakeRoom(c)) = {}
      BY <1>1 DEF Held, Absent
    <2> QED
      BY <2>1, FS_EmptySet, BearerGateAssumption
  <1> QED
    BY <1>1 DEF MakeRoom

\* A new entry makes a map larger by one at most.
LEMMA OneMore ==
  ASSUME NEW c \in [Tokens -> Entry], NEW t \in Tokens, NEW e
  PROVE  Cardinality(Held([c EXCEPT ![t] = e])) <= Cardinality(Held(c)) + 1
  <1> DEFINE H == Held(c)
             K == Held([c EXCEPT ![t] = e])
  <1>1. IsFiniteSet(H)
    BY BearerGateAssumption, FS_Subset DEF Held
  <1>2. IsFiniteSet(H \cup {t}) /\ Cardinality(H) \in Nat
        /\ Cardinality(H \cup {t}) <= Cardinality(H) + 1
    BY <1>1, FS_AddElement, FS_CardinalityType
  <1>3. K \subseteq H \cup {t}
    BY DEF Held
  <1>4. Cardinality(K) <= Cardinality(H \cup {t})
          /\ Cardinality(K) \in Nat /\ Cardinality(H \cup {t}) \in Nat
    BY <1>2, <1>3, FS_Subset, FS_CardinalityType
  <1> QED
    BY <1>2, <1>4

\* Only an insert adds an entry; whatever else touches a map takes entries out.
LEMMA CacheStep ==
  ASSUME TypeOK, CacheBounded, [Next]_vars
  PROVE  CacheBounded'
  <1>1. ASSUME NEW r \in Requests, Insert(r)
        PROVE  CacheBounded'
    <2> DEFINE p == req[r].rep
               e == [row |-> req[r].row, exp |-> now + Ttl]
    <2>1. CASE UNCHANGED cache
      BY <2>1 DEF CacheBounded
    <2>2. CASE cache' = [cache EXCEPT ![p] = [MakeRoom(cache[p]) EXCEPT ![req[r].token] = e]]
      <3>1. p \in Replicas /\ req[r].token \in Tokens /\ cache[p] \in [Tokens -> Entry]
        BY RequestParts DEF TypeOK
      <3>2. MakeRoom(cache[p]) \in [Tokens -> Entry]
        BY <3>1, MakeRoomType DEF TypeOK
      <3>3. Cardinality(Held(MakeRoom(cache[p]))) < MaxEntries
              /\ Cardinality(Held(MakeRoom(cache[p]))) \in Nat
        BY <3>1, RoomForOne, HeldSubset
      <3>4. Cardinality(Held([MakeRoom(cache[p]) EXCEPT ![req[r].token] = e]))
              <= Cardinality(Held(MakeRoom(cache[p]))) + 1
        BY <3>1, <3>2, OneMore
      <3>5. Cardinality(Held([MakeRoom(cache[p]) EXCEPT ![req[r].token] = e])) \in Nat
        BY HeldSubset
      <3>6. Cardinality(Held([MakeRoom(cache[p]) EXCEPT ![req[r].token] = e])) <= MaxEntries
        BY <3>3, <3>4, <3>5, BearerGateAssumption
      <3> QED
        BY <2>2, <3>1, <3>6 DEF CacheBounded, TypeOK
    <2> QED
      BY <1>1, <2>1, <2>2 DEF Insert
  <1>2. ASSUME \A p \in Replicas : Held(cache'[p]) \subseteq Held(cache[p])
        PROVE  CacheBounded'
    <2> SUFFICES ASSUME NEW p \in Replicas
                 PROVE  Cardinality(Held(cache'[p])) <= MaxEntries
      BY DEF CacheBounded
    <2>1. /\ Cardinality(Held(cache'[p])) <= Cardinality(Held(cache[p]))
          /\ Cardinality(Held(cache'[p])) \in Nat /\ Cardinality(Held(cache[p])) \in Nat
      BY <1>2, HeldSubset
    <2> QED
      BY <2>1, BearerGateAssumption DEF CacheBounded
  <1>3. ASSUME NEW p \in Replicas, PurgeExpired(p)
        PROVE  CacheBounded'
    <2>1. \A q \in Replicas : Held(cache'[q]) \subseteq Held(cache[q])
      BY <1>3 DEF PurgeExpired, TypeOK, Held, Absent
    <2> QED
      BY <1>2, <2>1
  <1>4. ASSUME NEW v \in Revokers, Invalidate(v)
        PROVE  CacheBounded'
    <2>1. \A q \in Replicas : Held(cache'[q]) \subseteq Held(cache[q])
      BY <1>4 DEF Invalidate, TypeOK, Held, Absent
    <2> QED
      BY <1>2, <2>1
  <1>5. CASE UNCHANGED cache
    BY <1>5 DEF CacheBounded
  <1>6. \/ \E r \in Requests : Insert(r)
        \/ \E p \in Replicas : PurgeExpired(p)
        \/ \E v \in Revokers : Invalidate(v)
        \/ UNCHANGED cache
    BY DEF Next, vars, RequestStep, RevokerStep, Environment, StartRequest, CacheLookup, HitGate,
       VerifySession, RootGate, LoadUser, RereadSession, FinishRequest, StartLogout, StartReset,
       StartStatus, WriteRow, WriteRoot, LoadRootFails, LogActivity, DbError, DeleteSessions,
       DeleteFailsSilently, IssueSession, SessionExpires, CleanupExpired, StaleRowWrite, Tick
  <1> QED
    BY <1>1, <1>3, <1>4, <1>5, <1>6

\* AuthCache::insert: the map of a replica never grows past MAX_ENTRIES, whatever
\* is inserted, purged and invalidated.
THEOREM CacheBoundedHolds == Spec => []CacheBounded
  <1>1. Init => CacheBounded
    <2> SUFFICES ASSUME Init, NEW p \in Replicas
                 PROVE  Cardinality(Held(cache[p])) <= MaxEntries
      BY DEF CacheBounded
    <2>1. Held(cache[p]) = {}
      BY DEF Init, Held, Absent
    <2> QED
      BY <2>1, FS_EmptySet, BearerGateAssumption
  <1>2. TypeOK /\ CacheBounded /\ [Next]_vars => CacheBounded'
    BY CacheStep
  <1> QED
    BY <1>1, <1>2, TypeCorrect, PTL DEF Spec
=============================================================================
