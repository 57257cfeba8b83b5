-------------------------- MODULE AccountLifecycle --------------------------
(***************************************************************************)
(* One human account of SoulAuth and every handler that creates it, signs  *)
(* it in, or changes its rows: register, password login, the second MFA    *)
(* step, OAuth login, email verification and its resend, forgotten and     *)
(* reset passwords, initialize-password (services/auth.rs), membership and *)
(* status changes by an administrator (services/user_management.rs,        *)
(* routes/user_management.rs), with the password credential                *)
(* (services/credential.rs) and the identity root (services/identity.rs).  *)
(*                                                                         *)
(* Every database statement is one step, so handlers interleave between    *)
(* the read of the user row and the write of the whole row that            *)
(* Database::update_record performs.  An error of the database, or the end *)
(* of the process, may stop a handler at any step.                         *)
(*                                                                         *)
(* What is abstracted: the password itself (a login may present the right  *)
(* or a wrong one), clocks (an expired token is one that stops working),   *)
(* mail delivery, rate limits and lockout.                                 *)
(***************************************************************************)
EXTENDS Naturals, FiniteSets

CONSTANTS
  Tasks,        \* slots for handlers in flight
  SessionIds,   \* sessions that may be created
  VTokens,      \* email verification tokens
  RTokens,      \* password reset tokens
  NoToken,      \* verification_token_hash = NONE
  NewStatuses,  \* the statuses administrators set
  VerificationEnabled   \* EMAIL_VERIFICATION_ENABLED

AccountStatus == {"Active", "Suspended", "Inactive", "Deleted"}

ASSUME AccountLifecycleAssumption ==
  /\ IsFiniteSet(Tasks)   \* raced counts them
  /\ NewStatuses \subseteq AccountStatus
  /\ NoToken \notin VTokens \cup RTokens
  /\ VerificationEnabled \in BOOLEAN

VARIABLES
  created,          \* the human aggregate exists
  bound,            \* it has an external identity binding
  row,              \* the user row: verified, verification token, status
  root,             \* actor_identity.status
  accountVerified,  \* human_account.email_verified
  cred,             \* the password credential
  vtok,             \* verification tokens that have been handed out
  rtok,             \* password_reset_token rows
  session,          \* session rows
  challenged,       \* an MFA challenge token is out
  task,             \* the handlers in flight
  claims,           \* history: how often a verification token was accepted
  changes,          \* history: how often a reset token set the password
                    \* (both count up to 2, which stands for more than once)
  voidSessions,     \* history: sessions an answered reset promised to end
  voidTokens,       \* history: reset tokens an answered reset promised to void
  raced,            \* history: two requests for a mail both voided the old
                    \* tokens before either stored its own
  answered,         \* history: the last undisturbed, answered status change
  emailRefused      \* history: a verified account was refused as unverified

vars == <<created, bound, row, root, accountVerified, cred, vtok, rtok, session,
          challenged, task, claims, changes, voidSessions, voidTokens, raced,
          answered, emailRefused>>

Row == [verified : BOOLEAN, token : VTokens \cup {NoToken},
        status : AccountStatus]
NoRow == [verified |-> FALSE, token |-> NoToken, status |-> "Active"]

Kinds == {"register", "login", "mfa", "oauth", "verify", "resend", "init",
          "forgot", "reset", "membership", "status"}
Pcs == {"idle", "check", "create", "readback", "resolve", "find", "cred",
        "gate", "mfa", "touch", "session", "claim", "setpw", "write",
        "invalidate", "issue", "delete", "row", "root", "revoke"}

\* A handler: its copy of the user row, the token or status it was given.
Task ==
  [pc : Pcs, kind : Kinds, copy : Row, token : VTokens \cup RTokens \cup {NoToken},
   status : AccountStatus,
   barred : BOOLEAN,   \* history: the account was barred when it started
   solo : BOOLEAN,     \* history: no other status change overlaps
   oldSessions : SUBSET SessionIds,  \* history: live when it claimed its token
   oldTokens : SUBSET RTokens]       \* history: usable when it claimed its token

IdleTask ==
  [pc |-> "idle", kind |-> "login", copy |-> NoRow, token |-> NoToken,
   status |-> "Active", barred |-> FALSE, solo |-> FALSE, oldSessions |-> {},
   oldTokens |-> {}]

TypeOK ==
  /\ created \in BOOLEAN /\ bound \in BOOLEAN
  /\ row \in Row
  /\ root \in {"active", "suspended"}
  /\ accountVerified \in BOOLEAN
  /\ cred \in {"none", "active", "revoked"}
  /\ vtok \in SUBSET VTokens
  /\ rtok \in [RTokens -> {"unissued", "fresh", "used", "expired"}]
  /\ session \in [SessionIds -> {"unissued", "live", "ended"}]
  /\ challenged \in BOOLEAN
  /\ task \in [Tasks -> Task]
  /\ claims \in [VTokens -> 0..2]
  /\ changes \in [RTokens -> 0..2]
  /\ voidSessions \in SUBSET SessionIds
  /\ voidTokens \in SUBSET RTokens
  /\ raced \in BOOLEAN
  /\ answered \in AccountStatus \cup {"none"}
  /\ emailRefused \in BOOLEAN

Init ==
  /\ created = FALSE /\ bound = FALSE
  /\ row = NoRow
  /\ root = "active"
  /\ accountVerified = FALSE
  /\ cred = "none"
  /\ vtok = {}
  /\ rtok = [t \in RTokens |-> "unissued"]
  /\ session = [s \in SessionIds |-> "unissued"]
  /\ challenged = FALSE
  /\ task = [p \in Tasks |-> IdleTask]
  /\ claims = [t \in VTokens |-> 0]
  /\ changes = [t \in RTokens |-> 0]
  /\ voidSessions = {} /\ voidTokens = {}
  /\ raced = FALSE
  /\ answered = "none"
  /\ emailRefused = FALSE

Live  == {s \in SessionIds : session[s] = "live"}
Fresh == {t \in RTokens : rtok[t] = "fresh"}

\* Variables by what they describe.
identity == <<created, bound, accountVerified>>
artifacts == <<vtok, rtok, session, challenged>>
history == <<claims, changes, voidSessions, voidTokens, raced, answered,
             emailRefused>>

\* A counter that stops at 2.
OneMore(n) == IF n = 2 THEN 2 ELSE n + 1

Goto(p, pc) == task' = [task EXCEPT ![p].pc = pc]
End(p) == task' = [task EXCEPT ![p] = IdleTask]

\* The handler's copy of the user row is what the row holds now.
GotoWithRow(p, pc) == task' = [task EXCEPT ![p] = [@ EXCEPT !.pc = pc, !.copy = row]]

---------------------------------------------------------------------------
(* A handler starts.                                                       *)

FirstPc(k) ==
  CASE k = "register" -> "check"
    [] k = "oauth" -> "resolve"
    [] k \in {"verify", "reset"} -> "claim"
    [] k = "status" -> "row"
    [] OTHER -> "find"

\* What a caller must hold to reach the handler: a token that was mailed, an
\* MFA challenge, a session the bearer gate admits (when it may admit an ended
\* one from its cache is BearerGate's subject), or an administrator's session.
MayStart(k, tok) ==
  CASE k = "verify" -> tok \in vtok
    [] k = "reset"  -> tok \in RTokens /\ rtok[tok] # "unissued"
    [] k = "mfa"    -> challenged /\ tok = NoToken
    [] k = "init"   -> /\ Live # {} /\ root = "active"
                       /\ row.status = "Active" /\ tok = NoToken
    [] k \in {"membership", "status"} -> created /\ tok = NoToken
    [] OTHER -> tok = NoToken

StatusChanging == \E p \in Tasks : task[p].pc # "idle" /\ task[p].kind = "status"

Start(p, k, tok, s) ==
  /\ task[p].pc = "idle"
  /\ MayStart(k, tok)
  /\ k # "status" => s = "Active"
  /\ task' =
       [q \in Tasks |->
         IF q = p
           THEN [pc |-> FirstPc(k), kind |-> k, copy |-> NoRow, token |-> tok,
                 status |-> s,
                 barred |-> root = "suspended" /\ ~StatusChanging
                              /\ k # "status",
                 solo |-> k = "status" /\ ~StatusChanging,
                 oldSessions |-> {}, oldTokens |-> {}]
         ELSE IF k = "status"
           THEN [task[q] EXCEPT !.barred = FALSE, !.solo = FALSE]
         ELSE task[q]]
  /\ answered' = IF k = "status" THEN "none" ELSE answered
  /\ UNCHANGED <<identity, row, root, cred, artifacts, claims, changes,
                 voidSessions, voidTokens, raced, emailRefused>>

---------------------------------------------------------------------------
(* Creating the account.                                                   *)

\* register: the email must not be taken (and the username, likewise).
CheckEmail(p) ==
  /\ task[p].pc = "check"
  /\ IF created THEN End(p) ELSE Goto(p, "create")
  /\ UNCHANGED <<identity, row, root, cred, artifacts, history>>

\* create_human_aggregate: root, account, user row, credential or binding in
\* one transaction; a unique index refuses the second one.
CreateAggregate(p) ==
  LET oauth == task[p].kind = "oauth"
      verified == oauth \/ ~VerificationEnabled
  IN  /\ task[p].pc = "create"
      /\ IF created
           THEN End(p) /\ UNCHANGED <<identity, row, root, cred, vtok>>
           ELSE \E t \in IF verified THEN {NoToken} ELSE VTokens \ vtok :
                  /\ created' = TRUE
                  /\ bound' = oauth
                  /\ row' = [verified |-> verified, token |-> t,
                             status |-> "Active"]
                  /\ root' = "active"
                  /\ accountVerified' = verified
                  /\ cred' = IF oauth THEN "none" ELSE "active"
                  /\ vtok' = vtok \cup ({t} \ {NoToken})
                  /\ IF verified THEN Goto(p, "readback") ELSE End(p)
      /\ UNCHANGED <<rtok, session, challenged, history>>

\* OAuth login: only a binding leads to an account; an email that is already
\* taken is refused, and a new subject gets an account of its own.
ResolveBinding(p) ==
  /\ task[p].pc = "resolve"
  /\ IF bound THEN Goto(p, "readback")
     ELSE IF created THEN End(p)
     ELSE Goto(p, "create")
  /\ UNCHANGED <<identity, row, root, cred, artifacts, history>>

\* The row just created, claimed or bound is read back.
ReadBack(p) ==
  /\ task[p].pc = "readback"
  /\ GotoWithRow(p, IF task[p].kind = "oauth" THEN "gate" ELSE "touch")
  /\ UNCHANGED <<identity, row, root, cred, artifacts, history>>

---------------------------------------------------------------------------
(* Signing in.                                                             *)

\* A handler's first read of the user row: it goes on with a copy of it, or
\* returns at once.
Find(p, k, ok, next) ==
  /\ task[p].pc = "find" /\ task[p].kind = k
  /\ IF created /\ ok THEN GotoWithRow(p, next) ELSE End(p)
  /\ UNCHANGED <<identity, row, root, cred, artifacts, history>>

LoginFindsUser(p)      == Find(p, "login", TRUE, "cred")
MfaFindsUser(p)        == Find(p, "mfa", TRUE, "gate")
InitFindsUser(p)       == Find(p, "init", TRUE, "cred")
MembershipFindsUser(p) == Find(p, "membership", TRUE, "write")
ForgotFindsUser(p)     == Find(p, "forgot", row.status = "Active", "invalidate")
ResetFindsUser(p)      == Find(p, "reset", row.status = "Active", "setpw")
ResendFindsUser(p)     ==
  Find(p, "resend", VerificationEnabled /\ ~row.verified /\ row.status = "Active",
       "write")

\* login: the active password credential is read, the password compared, and
\* the row must be verified.
CheckPassword(p) ==
  /\ task[p].pc = "cred" /\ task[p].kind = "login"
  /\ \/ /\ cred = "active"
        /\ VerificationEnabled => task[p].copy.verified
        /\ Goto(p, "gate")
     \/ End(p)
  /\ UNCHANGED <<identity, row, root, cred, artifacts, history>>

\* initialize_password: there must be no usable password.
CheckNoPassword(p) ==
  /\ task[p].pc = "cred" /\ task[p].kind = "init"
  /\ IF cred = "active" THEN End(p) ELSE Goto(p, "setpw")
  /\ UNCHANGED <<identity, row, root, cred, artifacts, history>>

\* authenticable_actor_of_user, then what the path asks of its own copy.
Gate(p, ok, next) ==
  /\ task[p].pc = "gate"
  /\ IF root = "active" /\ ok THEN Goto(p, next) ELSE End(p)
  /\ UNCHANGED <<identity, row, root, cred, artifacts, claims, changes,
                 voidSessions, voidTokens, raced, answered>>

Usable(p) == task[p].copy.status = "Active"

\* login asks human_account.email_verified as well.
LoginGate(p) ==
  LET unverified == VerificationEnabled /\ ~accountVerified
  IN  /\ task[p].kind = "login"
      /\ Gate(p, Usable(p) /\ ~unverified, "mfa")
      /\ emailRefused' = \/ emailRefused
                         \/ /\ root = "active" /\ Usable(p)
                            /\ unverified /\ task[p].copy.verified

\* Mutant: the second MFA step trusts the account row it read.
MfaGateByRow(p) ==
  /\ task[p].kind = "mfa" /\ task[p].pc = "gate"
  /\ IF Usable(p) THEN Goto(p, "touch") ELSE End(p)
  /\ UNCHANGED <<identity, row, root, cred, artifacts, history>>

\* complete_mfa_login.
MfaGate(p) ==
  /\ task[p].kind = "mfa"
  /\ Gate(p, Usable(p), "touch")
  /\ UNCHANGED emailRefused

\* handle_google_callback, handle_github_callback: the root alone is asked.
OauthGate(p) ==
  /\ task[p].kind = "oauth"
  /\ Gate(p, TRUE, "touch")
  /\ UNCHANGED emailRefused

\* enabled_method: with MFA switched on login ends with a challenge token.
CheckMfa(p) ==
  /\ task[p].pc = "mfa"
  /\ \/ End(p) /\ challenged' = TRUE
     \/ Goto(p, "touch") /\ UNCHANGED challenged
  /\ UNCHANGED <<identity, row, root, cred, vtok, rtok, session, history>>

\* touch_last_login writes the handler's whole copy of the row back.
TouchLastLogin(p) ==
  /\ task[p].pc = "touch"
  /\ row' = task[p].copy
  /\ Goto(p, "session")
  /\ UNCHANGED <<identity, root, cred, artifacts, history>>

CreateSession(p) ==
  /\ task[p].pc = "session"
  /\ \E s \in SessionIds :
       /\ session[s] = "unissued"
       /\ session' = [session EXCEPT ![s] = "live"]
  /\ End(p)
  /\ UNCHANGED <<identity, row, root, cred, vtok, rtok, challenged, history>>

---------------------------------------------------------------------------
(* Tokens that arrive by mail.                                             *)

\* verify_email: one conditional UPDATE checks the token, clears it and marks
\* the row verified.
ClaimVerification(p) ==
  /\ task[p].pc = "claim" /\ task[p].kind = "verify"
  /\ IF created /\ row.token = task[p].token /\ ~row.verified
       THEN /\ row' = [row EXCEPT !.verified = TRUE, !.token = NoToken]
            /\ claims' = [claims EXCEPT ![task[p].token] = OneMore(@)]
            /\ Goto(p, "readback")
       ELSE End(p) /\ UNCHANGED <<row, claims>>
  /\ UNCHANGED <<identity, root, cred, artifacts, changes, voidSessions,
                 voidTokens, raced, answered, emailRefused>>

\* Mutant: the token is looked at, and marked used only with the other tokens.
ClaimResetByReading(p) ==
  /\ task[p].pc = "claim" /\ task[p].kind = "reset"
  /\ IF rtok[task[p].token] = "fresh"
       THEN task' = [task EXCEPT ![p] = [@ EXCEPT !.pc = "find",
                       !.oldSessions = Live, !.oldTokens = Fresh]]
       ELSE End(p)
  /\ UNCHANGED <<identity, row, root, cred, artifacts, history>>

\* Mutant: the conditional UPDATE does not ask whether the token has expired.
ClaimExpiredReset(p) ==
  /\ task[p].pc = "claim" /\ task[p].kind = "reset"
  /\ IF rtok[task[p].token] \in {"fresh", "expired"}
       THEN /\ rtok' = [rtok EXCEPT ![task[p].token] = "used"]
            /\ task' = [task EXCEPT ![p] = [@ EXCEPT !.pc = "find",
                          !.oldSessions = Live, !.oldTokens = Fresh]]
       ELSE End(p) /\ UNCHANGED rtok
  /\ UNCHANGED <<identity, row, root, cred, vtok, session, challenged, history>>

\* reset_password: one conditional UPDATE checks the token and marks it used.
ClaimReset(p) ==
  /\ task[p].pc = "claim" /\ task[p].kind = "reset"
  /\ IF rtok[task[p].token] = "fresh"
       THEN /\ rtok' = [rtok EXCEPT ![task[p].token] = "used"]
            /\ task' = [task EXCEPT ![p] = [@ EXCEPT !.pc = "find",
                          !.oldSessions = Live, !.oldTokens = Fresh]]
       ELSE End(p) /\ UNCHANGED rtok
  /\ UNCHANGED <<identity, row, root, cred, vtok, session, challenged, history>>

\* set_password: rotated if there is a credential, else created; active either
\* way.
SetPassword(p) ==
  /\ task[p].pc = "setpw"
  /\ cred' = "active"
  /\ changes' = IF task[p].kind = "reset"
                  THEN [changes EXCEPT ![task[p].token] = OneMore(@)] ELSE changes
  /\ Goto(p, "write")
  /\ UNCHANGED <<identity, row, root, artifacts, claims, voidSessions,
                 voidTokens, raced, answered, emailRefused>>

\* update_record writes the handler's whole copy back.
WriteRow(p) ==
  /\ task[p].pc = "write" /\ task[p].kind # "resend"
  /\ row' = task[p].copy
  /\ IF task[p].kind = "reset" THEN Goto(p, "invalidate") ELSE End(p)
  /\ UNCHANGED <<identity, root, cred, artifacts, history>>

\* resend_verification_email puts a new token into the copy first.
ReplaceVerificationToken(p) ==
  /\ task[p].pc = "write" /\ task[p].kind = "resend"
  /\ \E t \in VTokens \ vtok :
       /\ row' = [task[p].copy EXCEPT !.token = t]
       /\ vtok' = vtok \cup {t}
  /\ End(p)
  /\ UNCHANGED <<identity, root, cred, rtok, session, challenged, history>>

\* Mutant: a reset leaves the other reset tokens alone.
InvalidateNothing(p) ==
  /\ task[p].pc = "invalidate"
  /\ Goto(p, IF task[p].kind = "forgot" THEN "issue" ELSE "delete")
  /\ UNCHANGED <<identity, row, root, cred, artifacts, history>>

\* invalidate_password_reset_tokens.
InvalidateResetTokens(p) ==
  /\ task[p].pc = "invalidate"
  /\ rtok' = [t \in RTokens |-> IF rtok[t] = "fresh" THEN "used" ELSE rtok[t]]
  /\ Goto(p, IF task[p].kind = "forgot" THEN "issue" ELSE "delete")
  /\ raced' = (Cardinality({q \in Tasks : task'[q].pc = "issue"}) > 1)
  /\ UNCHANGED <<identity, row, root, cred, vtok, session, challenged, claims,
                 changes, voidSessions, voidTokens, answered, emailRefused>>

\* request_password_reset stores and mails a new token.
IssueResetToken(p) ==
  /\ task[p].pc = "issue"
  /\ \E t \in RTokens : /\ rtok[t] = "unissued"
                        /\ rtok' = [rtok EXCEPT ![t] = "fresh"]
  /\ End(p)
  /\ UNCHANGED <<identity, row, root, cred, vtok, session, challenged, history>>

---------------------------------------------------------------------------
(* A status change by an administrator, and the end of sessions.           *)

\* UPDATE user SET account_status: this statement changes one column only.
SetRowStatus(p) ==
  /\ task[p].pc = "row"
  /\ row' = [row EXCEPT !.status = task[p].status]
  /\ Goto(p, "root")
  /\ UNCHANGED <<identity, root, cred, artifacts, history>>

\* The status change is answered; sessions and tokens a reset ends are gone.
Answer(p) ==
  /\ End(p)
  /\ answered' = IF task[p].kind = "status" /\ task[p].solo
                   THEN task[p].status ELSE answered
  /\ voidSessions' = voidSessions \cup task[p].oldSessions
  /\ voidTokens' = voidTokens \cup task[p].oldTokens
  /\ UNCHANGED <<claims, changes, raced, emailRefused>>

\* What follows once the identity root has been dealt with.
AfterRoot(p) ==
  CASE task[p].status = "Deleted" -> Goto(p, "revoke") /\ UNCHANGED history
    [] task[p].status = "Active"  -> Answer(p)
    [] OTHER                      -> Goto(p, "delete") /\ UNCHANGED history

\* set_status: active, or else suspended.
SetRootStatus(p) ==
  /\ task[p].pc = "root"
  /\ root' = IF task[p].status = "Active" THEN "active" ELSE "suspended"
  /\ AfterRoot(p)
  /\ UNCHANGED <<identity, row, cred, artifacts>>

\* The root could not be loaded: logged, and the handler goes on.
LoadRootFails(p) ==
  /\ task[p].pc = "root"
  /\ AfterRoot(p)
  /\ UNCHANGED <<identity, row, root, cred, artifacts>>

RevokePassword(p) ==
  /\ task[p].pc = "revoke"
  /\ cred' = IF cred = "none" THEN "none" ELSE "revoked"
  /\ Goto(p, "delete")
  /\ UNCHANGED <<identity, row, root, artifacts, history>>

\* delete_sessions_by_user_id, the last step of a reset and of a suspension.
DeleteSessions(p) ==
  /\ task[p].pc = "delete"
  /\ session' = [s \in SessionIds |->
                  IF session[s] = "live" THEN "ended" ELSE session[s]]
  /\ Answer(p)
  /\ UNCHANGED <<identity, row, root, cred, vtok, rtok, challenged>>

\* Mutant: a reset, too, only logs that the sessions could not be deleted.
DeleteFailsForAll(p) ==
  /\ task[p].pc = "delete"
  /\ Answer(p)
  /\ UNCHANGED <<identity, row, root, cred, artifacts>>

\* After a status change a failed deletion is only logged.
DeleteFailsSilently(p) ==
  /\ task[p].pc = "delete" /\ task[p].kind = "status"
  /\ Answer(p)
  /\ UNCHANGED <<identity, row, root, cred, artifacts>>

---------------------------------------------------------------------------
(* Failures, expiry.                                                       *)

\* A statement fails and the handler returns its error, or the process ends:
\* what has been written stays written.
Fail(p) ==
  /\ task[p].pc # "idle"
  /\ ~(task[p].pc = "delete" /\ task[p].kind = "status")
  /\ End(p)
  /\ UNCHANGED <<identity, row, root, cred, artifacts, history>>

\* A logout, or the session's expiry.
SessionEnds(s) ==
  /\ session[s] = "live"
  /\ session' = [session EXCEPT ![s] = "ended"]
  /\ UNCHANGED <<identity, row, root, cred, vtok, rtok, challenged, task,
                 history>>

ResetTokenExpires(t) ==
  /\ rtok[t] = "fresh"
  /\ rtok' = [rtok EXCEPT ![t] = "expired"]
  /\ UNCHANGED <<identity, row, root, cred, vtok, session, challenged, task,
                 history>>

ChallengeExpires ==
  /\ challenged
  /\ challenged' = FALSE
  /\ UNCHANGED <<identity, row, root, cred, vtok, rtok, session, task, history>>

TaskStep(p) ==
  \/ \E k \in Kinds, tok \in VTokens \cup RTokens \cup {NoToken},
        s \in NewStatuses \cup {"Active"} :
       (k = "status" => s \in NewStatuses) /\ Start(p, k, tok, s)
  \/ CheckEmail(p) \/ CreateAggregate(p) \/ ResolveBinding(p) \/ ReadBack(p)
  \/ LoginFindsUser(p) \/ MfaFindsUser(p) \/ InitFindsUser(p)
  \/ MembershipFindsUser(p) \/ ForgotFindsUser(p) \/ ResetFindsUser(p)
  \/ ResendFindsUser(p)
  \/ CheckPassword(p) \/ CheckNoPassword(p)
  \/ LoginGate(p) \/ MfaGate(p) \/ OauthGate(p) \/ CheckMfa(p)
  \/ TouchLastLogin(p) \/ CreateSession(p)
  \/ ClaimVerification(p) \/ ClaimReset(p) \/ SetPassword(p) \/ WriteRow(p)
  \/ ReplaceVerificationToken(p)
  \/ InvalidateResetTokens(p) \/ IssueResetToken(p)
  \/ SetRowStatus(p) \/ SetRootStatus(p) \/ LoadRootFails(p)
  \/ RevokePassword(p) \/ DeleteSessions(p) \/ DeleteFailsSilently(p)
  \/ Fail(p)

Next ==
  \/ \E p \in Tasks : TaskStep(p)
  \/ \E s \in SessionIds : SessionEnds(s)
  \/ \E t \in RTokens : ResetTokenExpires(t)
  \/ ChallengeExpires

Spec == Init /\ [][Next]_vars

---------------------------------------------------------------------------
(* What the account code promises, and keeps.                              *)

\* A reset token sets the password at most once, however many requests present
\* it at the same time (the conditional UPDATE at the head of reset_password).
ResetTokenOnce == \A t \in RTokens : changes[t] <= 1

\* When a reset is answered with success, every session that was live when it
\* claimed its token has ended, and stays ended.
ResetEndsSessions == \A s \in voidSessions : session[s] = "ended"

\* When a reset is answered with success, no reset token that was usable when
\* it claimed its own can be used any more.
ResetVoidsTokens == \A t \in voidTokens : rtok[t] # "fresh"

\* Only the newest mail works (request_password_reset voids the others first):
\* two reset tokens are usable at the same time only if two requests had both
\* voided the old ones before either stored its own, and then only until the
\* next request or reset voids them.
NewestMailOnly == ~raced => Cardinality(Fresh) <= 1

\* No password, MFA or OAuth login that starts while the root is suspended and
\* no status change is under way gets as far as creating a session, however the
\* user row is overwritten in the meantime.
SuspendedGetsNoSession ==
  \A p \in Tasks : task[p].pc = "session" /\ task[p].kind \in {"login", "mfa", "oauth"}
                     => ~task[p].barred

\* A reset that has claimed its token and has not set the password yet.
Claimed(t) == t.kind = "reset" /\ t.pc \in {"find", "setpw"}
InClaim(r) == \E p \in Tasks : Claimed(task[p]) /\ task[p].token = r

ResetLife(r) ==
  IF changes[r] # 0 THEN "done"
  ELSE IF InClaim(r) THEN "claimed"
  ELSE IF rtok[r] = "unissued" THEN "unissued"
  ELSE IF rtok[r] = "fresh" THEN "open"
  ELSE "closed"

Reset == INSTANCE OneTime WITH
  Tokens <- RTokens, life <- [r \in RTokens |-> ResetLife(r)],
  effects <- [r \in RTokens |-> 1..changes[r]]

\* A reset token is a credential for one use: claimed by a request that fails
\* before it has set the password, voided by another mail or a reset, or
\* expired, it never sets one (the conditional UPDATE of reset_password asks
\* for used and expires_at, and no other statement clears them).
ImplementsOneTime == Reset!Spec

---------------------------------------------------------------------------
(* What its comments say, and the code does not keep.                      *)

\* services/identity.rs calls authenticable_actor the one gate every
\* authentication path must pass: no path creates a session for an account
\* whose root was suspended before the request started.
EveryPathIsGated ==
  \A p \in Tasks : task[p].pc = "session" => ~task[p].barred

\* verify_email: once the conditional UPDATE has cleared the token, presenting
\* it again can never match.
VerificationTokenOnce == \A t \in VTokens : claims[t] <= 1

\* request_password_reset: at any time only the newest mail works, even if two
\* are asked for at once.
OneLiveResetToken == Cardinality(Fresh) <= 1

\* update_account_status: the status an administrator was told is in force in
\* both places until the next status change begins.
StatusSticks ==
  answered # "none" => row.status = answered

\* update_account_status: the password of a deleted account is not usable.
DeletedHasNoPassword == answered = "Deleted" => cred # "active"

\* verify_email completes the verification: a login that reads the verified
\* row is not refused as unverified.
VerifiedMayLogin == ~emailRefused
=============================================================================
