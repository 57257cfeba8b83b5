# TLA+ specifications of SoulAuth

SoulAuth is an identity service written in Rust: accounts with passwords,
TOTP and upstream OAuth, sessions carried by bearer tokens, an OpenID provider
for other applications, identities for AI actors, roles, rate limits, lockout
and an audit log. All durable state is in SurrealDB; a process keeps an
authentication cache, local rate-limit windows and the audit queue in memory,
and several processes may serve one database.

These modules model the parts in which an order of events decides whether the
service is right: who is let in, and when somebody stops being let in. They are
checked with TLC on small instances, and their safety properties are proved with
TLAPS for every instance. `PROJECT.json` maps each definition to the lines it
models, and lists the runs, the hazards and the theorems.

## 1. Inventory

| Component | State | Operations | Interacts with | What makes it correct | Module |
|---|---|---|---|---|---|
| Bearer gate, authentication cache (`utils/jwt.rs`, `services/auth_cache.rs`) | one map per process: token to user row and expiry | lookup, insert, remove, clear per user, retain | reads sessions, user rows, identity roots; every revoking handler clears it | an ended session is accepted no longer than the TTL allows; a suspension is not hidden by the cache; the map stays bounded | `BearerGate` |
| Account lifecycle (`services/auth.rs`, `identity.rs`, `credential.rs`, `user_management.rs`) | user row, `human_account`, `actor_identity`, credential, bindings, verification and reset tokens, sessions | register, three kinds of login, verify, resend, forgot, reset, initialize-password, membership, status | creates sessions; clears cache and OIDC tokens through its routes | tokens work once; a reset ends the old sessions; a suspended account gets no session; answered status changes stay | `AccountLifecycle` |
| OpenID provider (`services/oidc.rs`, `routes/oidc.rs`) | codes, access tokens, refresh tokens | authorize, both grants, userinfo, RP logout, revocation, cleanup | asks sessions, rows and roots; revoked by logout-all, reset and status changes | one successor per code and refresh token; revocation reaches everything | `OidcTokens` |
| MFA (`services/mfa.rs`) | one `user_mfa` record per account | setup, enable, verify, backup code, disable | second step of the login | codes work once; only a current code switches it off | `Mfa` |
| Lockout (`services/account_lockout.rs`) | one record per email and per IP | check, count and lock, reset, unlock, query, cleanup | around both login steps; failures are counted by a spawned task | guesses are bounded; a lock lasts | `Lockout` |
| Session store and cleanup (`services/database.rs`, `main.rs`) | session rows | create, verify, delete by token or user, hourly cleanup | gate, login, logout | an ended session stays ended | in `BearerGate`, `AccountLifecycle` |
| AI actors (`services/ai_actor.rs`, `routes/actors.rs`) | actors, Ed25519 keys, challenges, sessions | register, add and revoke a key, status, challenge, authenticate, `AuthedActor` | identity root, session table | a challenge opens one session, of its own actor; revocation reaches the sessions of a key; a stopped actor is refused | `AiActor` |
| Rate limiter (`services/rate_limiter.rs`) | windows in memory per replica, one shared row per bucket | check, shared decision with retries, cleanup | middleware in front of every route; an audit event per block | never more than the limit per window and replica set, or an explicit fall-back; a block lasts and is announced once | `RateLimiter` |
| Audit log (`services/audit_logger.rs`, `audit_integrity.rs`, `main.rs`) | bounded queue, hash chain, checkpoints | record, flush, write with retry, checkpoint, verify, shutdown | every handler records | a chain without gaps or forks; no event disappears uncounted | `AuditChain`, `AuditLog` |
| Roles (`services/rbac.rs`) | roles, permissions, two tables of assignments | create, delete, assign, remove, grant, revoke, check | permission checks of the routes | what a handler found is still true when it writes | `Rbac` |
| Bootstrap (`routes/bootstrap.rs`) | a singleton claim | bootstrap_admin | account creation, roles | at most one first administrator, also across a crash; an interrupted bootstrap can be resumed | `Bootstrap` |
| OIDC clients (`services/oidc_client_management.rs`) | client rows | create, update, disable, regenerate secret | the provider's grants | a disabled client gets nothing | not modelled |
| Database connection (`services/database.rs`) | one authenticated client | reauth, retry on unauthorized, fresh client | every statement | a statement is not lost or repeated unnoticed | not modelled |
| Audit queries, profiles, mail, configuration, keys, upstream OAuth | rows or none | reads, HTTP, pure functions | - | - | not modelled |

What is hard in this code: handlers are async functions that read rows, await,
and write them back, so any two handlers interleave between statements; there
is no transaction around most handlers; a failed step after the first write is
often only logged; each process has its own cache; and the retries after a
write conflict may repeat what was already done. The hazards, with the line at
which each one bites, are in `PROJECT.json`.

## 2. How the modules are written

Common to all of them:

* One database statement (one `.await`) is one step. A handler is a record in
  `task` (in `BearerGate`: `req` and `rev`) with a program counter and the
  copies it read. SurrealDB executes a statement atomically; that is the one
  property of the database the models rely on.
* An error of the database or the end of the process stops a handler between
  any two steps (`Fail`, and the alternatives of `BearerGate`); nothing in
  memory survives in a way that matters, so restart needs no action of its own.
* A variable marked *history* records what was promised or done; no guard of a
  modelled operation reads it. Properties compare promises with the state.
* Names, mails, hashes, passwords and payloads are model values or left out.
  Requests that are refused without any effect are covered by `Fail`.
* Definitions called *Mutant* in their comment are wrong versions of the
  definition that follows. They are not part of any specification; they show
  that a property notices the mistake.

### Fairness

Most properties are safety properties, and most specifications assume no
fairness: a handler of this service may stop at any step for good (the client
disconnects and axum drops the future, the database fails, the process is
killed), and the code promises nothing about eventual progress of a request.
Two modules promise something eventually:

* `AuditChain!FairSpec`: weak fairness of the writer, a task that tokio runs
  whenever it can run, and strong fairness of each task that waits for room in
  the queue, since the channel hands out free slots in turn. Nothing is assumed
  of the database: statements may fail as long as faults are left. A crash
  settles an event too, it is then counted as lost with its process.
* `Bootstrap!FairSpec`: weak fairness of a bootstrap request that runs, and
  strong fairness of the operator's retry, which is what the documentation tells
  the operator to do. The retry is strongly fair because request slots are a
  bound of the model, not of the server; other requests fill them over and over.

### BearerGate

State: `session` (session rows), `rowStatus` and `rootStatus` (the two places an
account status is kept), `cache` per replica, a clock in units of the cache
TTL. Actions: `StartRequest`, `CacheLookup`, `HitGate`, `VerifySession`,
`RootGate`, `LoadUser`, `Insert`, `RereadSession` are the steps of the
`AuthedUser` and `AuthedSession` extractors; the revoking handlers are logout,
logout-all, password reset and the change of the account status, each with its
steps in the order of the code. Other handlers can write any status the row has
ever held back to it (`rowSeen`), which is what a whole-row update of a stale
copy does. `MaxLag` bounds the time between a request's session check and its
insert into the cache. The code has no such bound, so it is an assumption on the
deployment (a request timeout gives it); without it no bound on staleness holds.

### AccountLifecycle

One account, every handler that creates it, signs it in or changes its rows.
The user row is read whole and written back whole (`Database::update_record`),
which is why `task[p].copy` exists. `row.status`, `root`, `cred` and
`accountVerified` are kept apart, since the code keeps them in four tables.
Clocks are abstracted: a token expires when `ResetTokenExpires` or
`ChallengeExpires` says so, a session ends by `SessionEnds`.

The history `raced` says that two requests for a reset mail overlapped; without
such a race only the newest mail works (`NewestMailOnly`).

### OidcTokens

One user and one client. A *pair* is what one call of `generate_tokens` stores:
an access token and a refresh token. `origin` and `parent` record which code and
which refresh token it came from. A logout-all, a password reset and the
detection of a refresh token used twice revoke in the same two statements
(`RevokeAccess`, `RevokeRefresh`), before or after their own steps. Revocation
matches rows by a key (`task[p].key`): tokens are stored under the actor, and
`Matches` is true only if the caller passed a key that resolves to it, which the
provider's own logout does not. `UsableAccess` and `UsableRefresh` are what the
endpoints would accept. Expiry marks rows; cleanup removes them.

### Mfa

One `user_mfa` record. A TOTP code is the pair of the secret and its time step,
a backup code the pair of its enrolment and a number. Secrets are drawn without
repetition (`SaveRecord`), as 160 random bits are. `AcceptCode` and
`ConsumeBackupCode` are the guarded UPDATEs, `SaveRecord` the overwrite, and
`SetupReadFails` the setup that goes on because `if let Ok` passes over a failed
read. The UPDATE of `accept_totp_code` writes back the secret its handler read
(`WriteStep`). `late` is history: a setup about to overwrite the record that did
not see it enabled, or a handler whose code belongs to a secret the record no
longer has. These are the handlers an enrolment overtakes, and the properties
name them.

### Lockout

One record, for an email or for an IP. `CountFailure` and `LockAtThreshold` are
the two writing statements of `increment_failed_attempts`; `Conflict` sends the
whole query again after either of them, as the code does. `CheckLockout`,
`ReadToReset` and `ReadToUnlock` read the record, `SaveRecord` writes the copy
back. The history variable `guesses` counts wrong guesses since the record was
last zeroed, except those whose recording ended with an error.

### AiActor

Any number of actors, each with an identity root; keys are rows of
`ai_actor_credential`, nonces rows of `ai_actor_challenge`. A signature is the
pair of the key and of the actor and nonce it was made for, since
`canonical_payload` binds all of them. The steps of `authenticate` are
`ConsumeChallenge` (the guarded UPDATE), `CheckActor`, `MatchCredential` and
`IssueSession`; `RevokeKey` and `SweepKeySessions` are the two statements of
`revoke_credential`; `StatusFindsActor`, `WriteStatus` and `DropSessions` those
of `set_actor_status`. `StartMe` to `Answer` are a request with a session token,
through the extractor `AuthedActor`. `stopped` is history: since a request
began its actor has not been active, or since a change of status began its actor
has been retired.

### Rbac and Bootstrap

`Rbac` has the handlers of `routes/rbac.rs`: each checks the caller's permission
in its first step, finds the role by name in the next, and writes rows by the
identifier it found. Identifiers are never used again, names are (`gone`). The
`user_role` and `role_permission` checks before an insert are one step with it,
because the unique index makes the insert fail where the check would have.
`overlapped` is history: the rows that were written after the deletion of their
role had looked for users.

`Bootstrap` EXTENDS `Rbac` and adds `bootstrap_admin` step by step: `BootReads`,
`ClaimGate` or `ResumeClaim`, `BootRegisters`, then `ReleaseClaim`, or
`MarkRolePending`, `BootAssigns` and `FinishClaim`. A statement may fail without
effect, or take effect and be answered with an error; and a request may stop
anywhere. The two modules run together: an administrator made by bootstrap can
then assign and remove roles, her own included. `OpenRegister` lets anybody
register any address at any time.

### OneTime

The promise of a credential for one use, which three components give: issued,
then open, claimed by one request while it is open, and finished by that request
with one effect; or closed, from open or claimed, and never open again. Each of
them implements it with a mapping of its own, defined at the end of its module
from its tables and the handlers in flight:

| | `AiActor!Challenge` | `AccountLifecycle!Reset` | `OidcTokens!CodeUse` | `OidcTokens!RefreshUse` |
|---|---|---|---|---|
| token | nonce | reset token | authorization code | refresh token |
| claimed by | `ConsumeChallenge` | `ClaimReset` | `MarkCode` | `ConsumeRefresh` |
| finished by | `IssueSession` | `SetPassword` | `SaveAccess` | `SaveAccess` |
| effect | sessions that rest on it | changes of the password | pairs of the code | its successors |

Closed are tokens that were voided, expired, revoked or cleaned up, and those
whose request was refused, failed or stopped after the claim. The two grants of
the provider read the row first and claim it with a guarded UPDATE that does not
ask for the expiry again, so in `OidcTokens` a row that a grant has read in time
is open until that grant has ended, also when it expires meanwhile (`CodeRead`,
`RefreshRead`).

### AuditLog and AuditChain

`AuditLog` is the promise: a log that grows at its end, of recorded events, none
twice. `AuditChain` is the code: `Record` puts an event into the channel or, if
that is full, into a task that waits (`Enqueue`); the writer receives, loads the
head of its chain after a start, and writes with retries (`StoreRow`,
`WriteFails`, `AfterError`); the hourly task and the shutdown sign the head
(`SignHead`, `SignLast`, `SignCreate`); a verification reads the rows and then
the checkpoints (`ScanRows`, `ScanCheckpoints`); `Shutdown` to `Exit` are the
end of `main`, `Crash` and `Restart` the other one. A hash is the sequence of
what was hashed, so equal hashes mean equal histories. `ImplementsLog` is the
refinement: the rows in the order of their numbers are the abstract log.

### RateLimiter

One client at one endpoint that has a rule. `Arrive` is the local window under
its lock; `ResetHits`, `CountHit`, `BlockClient` and `Decide` are the four
statements of `shared_decision`. They are sent in one query and are not a
transaction, so statements of other replicas come between them and one may
conflict while the others take effect; the query is then sent again with the
window number of the first attempt. `QueryLost` is the fall-back of
`check_shared`: the request passes on the word of the local window, as it does
when every try of the query met a conflict (`Decide`). `admitted` holds the
requests that the counter itself let pass. The vector of
timestamps is a set of stamps, each a time and a number that tells requests of one
time apart. Names that `Lockout` has too carry the prefix `Rate` here, so that
`LimitsProofs` can extend both.

## 3. Runs

| Run | Bounds | Shows |
|---|---|---|
| `gate_replicas` | 2 replicas, 1 token, 1 request, 1 revoker, TTL 1, lag 1, 3 ticks | `StaleBound`, `SuspensionHolds`: the request can start, hit or miss, and insert on a replica that heard nothing of the revocation, and the clock passes the bound by one |
| `account_verify` | 2 handlers, 2 verification tokens, verification on | `VerifiedMayLogin` is violated: see below |
| `account_reset` | 2 handlers, 2 reset tokens, 2 sessions, verification off | `ResetTokenOnce`, `ResetEndsSessions`, `ResetVoidsTokens`, `NewestMailOnly`; `ImplementsOneTime` for reset tokens |
| `account_suspend` | 2 handlers, 2 verification tokens, 1 session; suspension, deletion, reactivation | `SuspendedGetsNoSession` |
| `oidc_tokens` | 2 handlers of all 7 kinds, 1 code, 3 pairs, expiry of all three tables | `OneSuccessor`, `OneUsableEnd`, `BarredGetsNothing`, `RevocationIsComplete`; `ImplementsOneTime` for codes and for refresh tokens; three pairs are needed for two refreshes of one token |
| `mfa_handlers` | 2 handlers, 2 secrets, 1 backup code, clock to step 3 | `CodeOnce`, `BackupCodeOnce`, `OnlyCurrentCodeDisables`: an enrolment, its removal and a second one all happen under a handler in flight |
| `lockout_guesses` | 3 handlers, threshold 2, lock of 1, window of 1, 2 tries, 2 ticks | `GuessBound`: the bound MaxAttempts + handlers - 1 is reached |
| `ai_actor` | 2 actors, 2 keys, 1 nonce, 2 handlers of all 7 kinds | `ChallengeOnce`, `SessionIsProved`, `RevocationComplete`, `StoppedActorRefused`, `RetiredIsLast`; `ImplementsOneTime` for the nonce: two authentications share the nonce, one of them for the wrong actor or by the wrong key |
| `rbac_roles` | 2 handlers, 2 roles besides the built-in one, 1 name for both, 1 custom permission | `CleanDelete`, row by row: a name is free again and given to the second role |
| `bootstrap_gate` | 3 addresses, 2 bootstrap requests, 1 administrator's handler, 2 faults | `OneBootstrapAdmin`, `BootstrapGrantsOwn`, and `PendingResumes` under fairness |
| `audit_writer` | 2 events, one of them recorded by a task that outlives its login, queue of 1, 2 attempts, 2 faults | `ImplementsLog` (refinement), `ChainIntact`, `NoSilentLoss`, `CleanStop`, `AlarmOnlyAhead`, and `EventsSettle` under fairness |
| `rate_limits` | 2 replicas, 2 requests, 1 request per window of 2, block of 2, time to 3, 2 tries, 1 fault | `LocalBound`, `SharedBound` (for requests the counter answered, in windows without an earlier query), `BlockHolds`, `OneBlockAtATime` |

Why these bounds are enough to be interesting: the races here need two handlers
that interleave on one row (three where a stale writer, a writer and a victim
are different), one token more than a handler consumes, and one tick beyond the
bound that is claimed. Two faults make a lost answer and a crash after it. The
run of each property also fails when the definition it is about is replaced by
its mutant, so the case it guards against does occur within the bounds. Account
statuses other than Active are alike to every gate (Deleted also revokes the
password), so one or two of them stand for all. `CountCap` stops the lockout
counter one above the threshold, where the code no longer tells values apart;
`claims`, `changes` and `grants` stop at 2.

Handlers, requests, sessions, tokens, codes, keys and actors are interchangeable
where no definition orders them, and the safety runs use that symmetry; the two
runs with liveness do not. The `VIEW`s of `MCAccountLifecycle` and
`MCOidcTokens` leave out what no later step and no property of that run reads:
histories of other properties, and the difference between a row that has expired
and one that is gone, unless a grant has read the row in time.

Deadlock is checked except in `ai_actor`, `rbac_roles`, `bootstrap_gate` and
`rate_limits`, where the bounds can be used up: every identifier is taken, or
time stands at its last value.

`TypeOK` of `AccountLifecycle`, `OidcTokens` and `AiActor` is proved for every
instance (`TypeCorrect`) and is no property of their runs; that of `Bootstrap`,
`AuditChain` and `RateLimiter` only says what the state looks like. `CacheBounded`
of `BearerGate` is proved for every instance too (`CacheBoundedHolds`);
`BearerGateFull.cfg` checks it with two tokens and a cache of one entry, where
both evictions happen.

### What the code does not keep

While the models were written, some statements of comments and documents turned
out to be false, and some natural guarantees not to be given. Each is a
definition of its module, with a comment that says so, and TLC refutes it within
seconds to minutes when it stands as the INVARIANT (or PROPERTY, where it is a
temporal formula) of the named configuration, without that configuration's VIEW.

| Definition | Configuration | Statement | Counterexample |
|---|---|---|---|
| `VerifiedMayLogin` | `AccountVerify.cfg`, the run `account_verify` | `tests/integration.sh:604`: send the mail, take the link, verify, log in works end to end | verification sets the flag in the user row (`auth.rs:801`), login also asks `human_account` (`auth.rs:585`), which nothing sets after the registration; the test itself logs in only after a restart with verification off (`tests/integration.sh:681`) or after setting both columns with SQL (`tests/integration.sh:1812`) |
| `RevocationImmediate` | `BearerGateReplicas.cfg` | `auth_cache.rs:8`, `routes/auth.rs:950`: on one instance revocation is immediate | a request that checked its session before the logout inserts its entry after the logout cleared the cache; true if `Ttl = 0`, section 4 |
| `SuspensionImmediate` | `BearerGateReplicas.cfg` | `routes/user_management.rs:222`: a suspension takes effect at once | the root could not be loaded, which is only logged, and a cached or restored row keeps the account usable |
| `EveryPathIsGated` | `AccountVerify.cfg` | `services/identity.rs:324`: every authentication path passes the gate | `verify_email` creates a session without it |
| `VerificationTokenOnce` | `AccountVerify.cfg` | `services/auth.rs:788`: a cleared token never matches again | `touch_last_login` and others write the row they read before, token included |
| `StatusSticks` | `AccountSuspend.cfg` | `services/user_management.rs:618`: row and root must not disagree | the same stale write restores the old status in the row; the root, which every gate asks, keeps the new one |
| `OneLiveResetToken` | `AccountReset.cfg` | `services/auth.rs:904`: only the newest reset mail works | two requests void first and store afterwards |
| `DeletedHasNoPassword` | `AccountSuspend.cfg` | `services/user_management.rs:632`: the credential of a deleted account is not usable | `set_password` in a handler past its check makes the revoked credential active again |
| `CodeOnceEver` | `MfaHandlers.cfg` | `services/mfa.rs:381`: a TOTP code works once | a disable and a second setup set the watermark to NONE under a handler that has matched its code already; its UPDATE puts the old secret back and takes the code again. `CodeOnce` says that nothing else does |
| `OnlyCodeDisables` | `MfaHandlers.cfg`, PROPERTY | `routes/auth.rs:725`: switching MFA off needs a current code | a setup that read the record before it was enabled, or failed to read it, overwrites it with a pending one; a check that had matched a code of the secret before puts that one back. `OnlyCurrentCodeDisables` says that only these do |
| `LockLasts` | `LockoutGuesses.cfg`, threshold 1, window 5 | `DEPLOYMENT.md:176`: how long the lock lasts | a check that read a lock that had run out writes the record back unlocked after it was locked again |
| `RetiredIsFinal` | `AiActorKeys.cfg`, PROPERTY | `services/ai_actor.rs:262`: a retired actor cannot go back | the check and the write of `set_actor_status` are two statements; a change that read before the retirement writes after it; `RetiredIsLast` says that this is the only way |
| `RevokedKeyHasNoSession` | `AiActorKeys.cfg` | no session of a revoked key is left | an authentication that had matched the key stores its session after the sweep; `RevocationComplete` says that this is the only way |
| `NoGhostPermission` | `RbacRoles.cfg` | a deleted role gives nobody a permission | an assignment and a grant that found the role before its deletion write after it, and the permission query does not ask whether the role exists; `CleanDelete` says that it takes both |
| `ClosedForGood` | `BootstrapGate.cfg` | `README.md:301`, `routes/bootstrap.rs:313`: the gate is closed for good once there is an administrator | the last administrator's role is removed, and an interrupted finish left the claim in a stage that may be resumed: the role is granted a second time, to the same account |
| `NeverStuck` | `BootstrapGate.cfg`, PROPERTY | a claim ends in an administrator or is released | a crash between the claim and `mark_role_pending` leaves a row in stage claiming that nothing removes |
| `HiccupCostsOne` | `AuditWriter.cfg` | `services/audit_logger.rs:60`: a hiccup of the database does not make events disappear | a row that was stored and answered with an error keeps its number; the head does not move, so this event and every later one is refused by the index until the process restarts |
| `FlushLosesNothing` | `AuditWriter.cfg` | `services/audit_logger.rs:227`: after the flush the process may end without losing events | a task that a login spawned (`routes/auth.rs:497`) records after the flush message, or waits for room while it passes |
| `NoFalseAlarm` | `AuditWriter.cfg` | `routes/audit.rs:1361`: a checkpoint without its row is evidence of tampering | the checkpoint was issued between the two reads of the verification, for a row stored after the first |
| `EveryWindowBound` | `RateLimits.cfg` | `services/rate_limiter.rs:134`: N replicas do not mean N times the quota | a query that was sent in one window and ran in the next sets the row back to its own window, and the following one to zero again |

Four more disagreements show in the actions themselves and have no definition:
the comment on `rate_limit_layer` (`utils/rate_limit_middleware.rs:75-76`) says
that the counter lives in the memory of one process and each replica counts its
own, but `main.rs:213` attaches the shared backend for every endpoint with a rule
of its own, so the comment is right only for the default rule;
the provider's RP logout (`routes/oidc.rs:858`) passes the `sub` claim of the ID
token (`routes/oidc.rs:887`), a random key (`identity.rs:93`) under which no
token is stored, so it revokes nothing; the detection of a reused refresh token
(`README.md:409`) does not reach the pair that the first exchange stores after
it; and a logout-all (`routes/auth.rs:978`) leaves authorization codes, which
are exchanged afterwards. `RevocationIsComplete` says what is revoked.

## 4. Proofs

The theorems hold for any constants that satisfy the assumptions of the module
they are about: `BearerGateAssumption`, `AccountLifecycleAssumption`,
`OidcTokensAssumption`, `MfaAssumption`, `LockoutAssumption`, `AiActorAssumption`,
`RbacAssumption` with `BootstrapAssumption`, `AuditAssumption` and
`RateLimiterAssumption`. They ask
that bounds are numbers, that placeholders are no members of the sets they stand
beside, and, where a proof counts, that the handlers in flight are finitely many.

* `BearerGateProofs!TypeCorrect`: typing, action by action.
* `StaleBoundHolds`. `StaleBound` says nothing of cache entries, so it is not
  inductive. `StaleInv` adds: sessions ended in the past (`EndsInPast`), an entry
  for an ended session expires within `MaxLag + Ttl` of its end
  (`EntryBounded`), and a request past its session check carries the instant of
  that check, at most `MaxLag` ago while it can still insert
  (`RequestBounded`).
* `SuspensionHoldsAlways`. `SuspensionInv`: an account recorded as barred at the
  root has a suspended root (`BarredRoot`), a request that began then has got no
  further than a gate that reads the root (`BarredRequest`), and a handler of a
  status change knows whether it wrote the root (`StatusHandler`). The caches
  and the user row do not occur in it: that is the argument why neither can
  undo a suspension.
* `UncachedRevocationImmediate`: with `Ttl = 0` a request that starts after an
  answered revocation is refused (`RevocationImmediate`), because answered
  revocations deleted their sessions (`RevokedDeleted`) and without a cache a
  late request cannot pass the session check (`LateRequest`). With the cache on
  it is false (section 3).
* `CacheBoundedHolds`: inserting purges, and evicts one entry if that made no
  room (`RoomForOne`), before it adds one key (`OneMore`); every other step leaves
  a subset of the keys (`HeldSubset`).

* `AccountLifecycleProofs`: six theorems besides the refinement. They rest on the order of a handler's
  statements, stated once: a step ends a handler or sends it to the statement
  that may follow (`Onward`, `Follows`), and carries what it holds along.
  `ResetInv` follows a reset: no two handlers have claimed one token (`OneClaim`),
  a claimed token has set no password yet (`ClaimOK`, `ChangesOK`), and what the
  reset found live or usable was issued, so that it can end and never come back
  (`VoidOK`). `ResetTokenOnceHolds`, `ResetEndsSessionsHolds` and
  `ResetVoidsTokensHolds` follow. `MailInv` for `NewestMailOnlyHolds`: as long as
  no two requests raced, there is one usable token, or one handler about to store
  one and no usable token. `BarredInv` for `SuspendedGetsNoSessionHolds`: a login
  that began on a suspended root has not passed the gate and nobody is changing
  the root. The user row does not occur in it, so no stale copy written back can
  disturb it.
* `OidcTokensProofs`: five theorems besides the refinements. A grant that has marked its code or consumed
  its refresh token, and has not stored its pair, holds it: nobody else does
  (`Exclusive`) and nobody has stored a pair for it (`HoldsOK`). That gives
  `OneSuccessorHolds`. `ChainOK` gives `OneUsableEndHolds`: a pair is spent, both
  tokens, before its successor is stored, and of two pairs of one code at least
  one has a successor. `VoidOK` and `FoundOK` give `RevocationIsCompleteHolds`: a
  revocation finds complete pairs only, no handler is storing one of them, so what
  the two DELETEs removed stays removed. `BarredInv` gives `BarredGetsNothingHolds`
  as for the account.

* `MfaProofs!TypeCorrect`, with `CodeFits`: the code of a handler about to accept
  is a TOTP code.
* `BackupCodeOnceHolds`. `Unspent`: accepted backup codes are not in the record,
  and all codes belong to secrets already shown, so that an enrolment cannot
  bring one back.
* `CodeOnceHolds`: as long as the record keeps a secret, the watermark stays at or
  beyond every step accepted for it (`Watermark`), because a new enrolment, which
  sets it to NONE, has a secret that no code was accepted for.
* `OnlyCurrentCodeDisablesHolds`, an action property. `SecretsOK` follows the
  secrets: the record has none or one that was shown (`RecordOK`), and a handler
  about to accept or delete either carries the secret of the record or is `late`,
  and one about to overwrite is `late` or the record is not enabled
  (`HandlerOK`).
* `LimitsProofs!TypeCorrect` and `GuessBoundHolds`, from `LockoutInv`. The proof
  counts handlers: those whose wrong guess is not recorded to the end (`Fresh`),
  those of them that have not counted it (`Uncounted`), and those about to try a
  password (`Trying`). While the record is not locked the guesses are fewer than
  `MaxAttempts` plus `Fresh`, and below the threshold they are at most what is
  counted plus `Uncounted`: so a handler that finds the count below the threshold
  may end. When the record is locked, `Fresh` and `Trying` are disjoint, and
  afterwards nobody joins `Trying`, because a check passes only on a record that
  is not locked and lifts a lock that ran out first (`CheckKeeps`). Whatever
  writes a copy back writes one without failures (`HandlersOK`).
* `LimitsProofs`, second part: four theorems about `RateLimiter`, from `RateInv`.
  `LocalBoundHolds`: the requests that passed a replica in the last window are
  what its entry remembers of it (`LocalOK`), before and after a cleanup, because
  a cleanup forgets only what is older than a window. `BlockHoldsAlways` and
  `OneBlockAtATimeHolds`: an entry or row carries the end of the last block until
  that has passed (`BlocksOK`), so neither a new window nor the cleanup loses it.
  `SharedBoundHolds` counts: the row has counted every request that was admitted,
  that has been counted (`Counted`) and that has moreover found no reason to block
  (`Cleared`), and while no block runs the first and the last are within the limit
  (`SharedOK`). A request joins `Cleared` only if the row's count, its own hit
  included, is within the limit, and only `Cleared` requests are admitted. The row
  is not set back meanwhile, since a query begun in the same unit of time has the
  same window number, and it is not cleaned up, since its last hit lies in this
  window (`OtherWindow`). Where `straggled` holds none of this is claimed, and
  `EveryWindowBound` is false (section 3). Requests that pass because the counter
  gave no answer are not in `admitted`; `LocalBoundHolds` is what bounds them.

* `AiActorProofs`: six theorems besides the refinement, from one inductive invariant, `AiInv`. No
  property of `AiActor` is inductive, since each speaks of rows and what a row is
  worth rests on what the handler that wrote it had found out. `RowsOK` says what
  the tables promise (the four properties about rows, and that an unused key has
  no owner and a swept one is revoked); `HandlerOK` what a handler may rely on at
  each step, split by what it does (`Carries`, `ManagerOK`, `AuthOK`, `MeOK`);
  `Exclusive` that no two handlers hold one challenge or register one actor. The
  guarded UPDATE of `authenticate` is what makes `Exclusive` true: the challenge
  it consumes was open, so nobody held it and no session rested on it
  (`ConsumeKeeps`). `TypeCorrect`, `ChallengeOnceHolds`, `SessionIsProvedHolds`,
  `RevocationCompleteHolds` and `StoppedActorRefusedHolds` follow, and the action
  property `RetiredIsLastHolds`: a change of status that began on a retired actor
  gets no further than its read as long as the actor stays retired.
* `BootstrapProofs!OneBootstrapAdminHolds` and `BootstrapGrantsOwnHolds`, from
  `ClaimInv`: only one request holds the claim, and nobody is past the gate
  while it does (`HolderAlone`); without a claim there is neither (`ClaimFirst`);
  and everybody past the gate agrees on one account, which a bootstrap
  registered (`OneAccount`). `ClaimInv` does not speak of users, roles or
  assignments, so no registration and no administrator can disturb it
  (`Elsewhere`): that is the argument why registering the operator's address
  first gains nothing.
* `BootstrapProofs!CleanDeleteHolds`, about the roles in the composition with
  bootstrap. `RolesInv`: a deletion in progress has removed the users, and then the
  permissions, of its role, up to rows that were written behind it (`Achieved`), and
  the role bootstrap grants is never deleted. Assignments of bootstrap need that
  last part.
* `AuditChainProofs`: five theorems, three of them from `ChainInv`. The stored rows are numbered
  without a gap and hold on to each other (`RowsOK`); the head the writer uses is
  the last row or, after a write that was stored and answered with an error, a
  row before it, so that the next number is taken and nothing is written
  (`WriterOK`); an event is in one place only, and one that is stored is still
  with the writer only if its number is taken (`QueueOK`, `OnePlace`).
  `ChainIntactHolds` follows. `NoSilentLossHolds` follows action by action from
  where an event goes next. `ImplementsLogHolds` is the refinement: `StoreRow`
  and a `WriteFails` whose row was stored append one event that the log has not
  taken (`StoreAppends`), and every other step leaves the log alone or records an
  event (`Stutters`, `StepRefines`). `AlarmOnlyAheadHolds`: every checkpoint,
  issued or being issued, names a row (`CheckpointsOK`), and a verification holds
  the rows up to some number (`ScanOK`); a checkpoint that names none of them was
  issued for a later one. `CleanStopHolds` follows the phases of a shutdown
  (`PhaseOK`): as long as nothing has gone wrong, the flush is the last message of
  the queue, its answer means that the writer has nothing left, and the table
  stays as it is until its last row is signed (`CleanOK`).

* The refinements of `OneTime`: `ImplementsOneTimeHolds` in `AiActorProofs`,
  `AccountLifecycleProofs` and `OidcTokensProofs`. Each follows from the inductive
  invariant of its module (in `OidcTokens` with `CodeRowsOK`: only rows that were
  stored expire), which says that the token a handler has claimed is used up,
  has had no effect yet and is claimed by nobody else. One lemma for each statement
  that issues, claims or finishes maps it to that action of `OneTime`
  (`ConsumeRefines`, `ClaimRefines`, `MarkCodeClaims`, `ExchangeFinishes` and the
  like). All other steps are covered by one lemma for each kind of token: a step
  that lets no handler claim anything and only takes rows away is a `Close` of the
  tokens whose life it ends (`CodesClose`, `PairsClose`, `ClosesRefines`, `CloseRefines`), so what
  is left to show of an action is that it is such a step.

Only model-checked:

* The liveness properties `EventsSettle` and `PendingResumes`: fairness and
  ENABLED are beyond the prover.

## 5. What is not modelled

Cookies, CORS, wording of answers, logging, and the cryptography (a signature,
hash or code is right or wrong). Several accounts that compete for one email or
username: the unique index decides, and `Fail` covers the loser. Discovery and
JWKS documents. Mail: a token is handed out when its row is stored. Audit
queries, profiles and preferences, which read rows or write one row that no
other component reads. Configuration, keys and the HTTP of upstream OAuth: pure
functions and input and output.

*OIDC client management*: each operation is one statement on one row, and what
matters of it, that a disabled client gets nothing, is a refusal without effect
in `OidcTokens`. *Database connection*: one authenticated connection with
re-authentication and one retry. Its effect on callers, a statement that took
effect and is answered with an error, is a fault of `AuditChain`, `Bootstrap`,
`Lockout` and `RateLimiter`; the state of the connection is not modelled.

`update_role` and `update_permission` change what is shown and are left out of
`Rbac`. Requests to endpoints under the default rate-limit rule have the local
window of `RateLimiter` only.

## 6. Plan

1. Client management joined to `OidcTokens`: disabling a client between the check
   and the storing of a pair.
2. Reconnection and retry of statements in `database.rs` as a module that the
   fault models of the others refine.
3. An abstract session specification (issued, live, ended) with `BearerGate`,
   `AiActor` and `AccountLifecycle` as refinements.
