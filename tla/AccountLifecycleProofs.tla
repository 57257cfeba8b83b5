----------------------- MODULE AccountLifecycleProofs -----------------------
(***************************************************************************)
(* Proofs about AccountLifecycle, for any handlers in flight, sessions,    *)
(* tokens and statuses.                                                    *)
(*                                                                         *)
(* The argument has three parts.  ResetInv follows a reset from the        *)
(* conditional UPDATE that claims its token to its answer: the claimed     *)
(* token is the handler's own, and what it found live or usable can only   *)
(* end.  MailInv says that a request for a mail finds the tables clear.    *)
(* BarredInv says that a login that began on a suspended root has not      *)
(* passed the gate, and that nobody changes the root meanwhile.  All three *)
(* rest on the order of a handler's statements, which Onward states.       *)
(***************************************************************************)
EXTENDS AccountLifecycle, FiniteSetTheorems, TLAPS

----------------------------------------------------------------------------
(* The invariants.                                                         *)

\* Which handlers come to which statement.
StageOK(t) ==
  /\ t.pc = "check" => t.kind = "register"
  /\ t.pc = "resolve" => t.kind = "oauth"
  /\ t.pc = "create" => t.kind \in {"register", "oauth"}
  /\ t.pc = "readback" => t.kind \in {"register", "oauth", "verify"}
  /\ t.pc = "mfa" => t.kind = "login"
  /\ t.pc \in {"row", "root", "revoke"} => t.kind = "status"
  /\ t.kind = "reset" => t.token \in RTokens
  /\ t.kind # "reset" \/ t.pc = "claim" => t.oldSessions = {} /\ t.oldTokens = {}

\* Its token is used up and has not set a password; what it found has been
\* issued, and at its last statement the tokens among that are void.
ClaimOK(t) ==
  /\ Claimed(t) => rtok[t.token] = "used" /\ changes[t.token] = 0
  /\ \A s \in t.oldSessions : session[s] # "unissued"
  /\ \A r \in t.oldTokens : /\ rtok[r] # "unissued"
                            /\ t.pc = "delete" => rtok[r] # "fresh"

HandlerOK(t) == StageOK(t) /\ ClaimOK(t)

\* No two handlers have claimed one token.
OneClaim ==
  \A p, q \in Tasks : Claimed(task[p]) /\ Claimed(task[q]) /\ task[p].token = task[q].token
                        => p = q

ChangesOK ==
  \A r \in RTokens : /\ changes[r] <= 1
                     /\ rtok[r] \in {"unissued", "fresh"} => changes[r] = 0

VoidOK ==
  /\ \A s \in voidSessions : session[s] = "ended"
  /\ \A r \in voidTokens : rtok[r] \in {"used", "expired"}

ResetInv ==
  /\ TypeOK /\ OneClaim /\ ChangesOK /\ VoidOK
  /\ \A p \in Tasks : HandlerOK(task[p])

\* Between the mails that did not race, there is one usable token or one
\* handler about to store one, or neither.
Issuing(p) == task[p].pc = "issue"
AtMostOne(S) == \A x, y \in S : x = y
MailInv ==
  ~raced =>
    /\ AtMostOne(Fresh) /\ \A p, q \in Tasks : Issuing(p) /\ Issuing(q) => p = q
    /\ (\E p \in Tasks : Issuing(p)) => Fresh = {}

\* The root is suspended only by a status change, and while one is under way no
\* handler counts as barred.
BarredInv ==
  /\ ~created => root = "active" /\ ~StatusChanging
  /\ \A p \in Tasks : task[p].barred =>
       /\ root = "suspended" /\ ~StatusChanging
       /\ ~(/\ task[p].kind \in {"login", "mfa", "oauth"}
            /\ task[p].pc \in {"mfa", "touch", "session"})

----------------------------------------------------------------------------
(* The order of a handler's statements.                                    *)

LEMMA IdleOK ==
  /\ IdleTask \in Task /\ IdleTask.pc = "idle" /\ IdleTask.kind = "login"
  /\ IdleTask.barred = FALSE /\ IdleTask.oldSessions = {} /\ IdleTask.oldTokens = {}
  BY DEF IdleTask, Task, Pcs, Kinds, NoRow, Row, AccountStatus

\* A handler goes on with what it carries.
Carries(u, t) ==
  /\ t.kind = u.kind /\ t.token = u.token /\ t.barred = u.barred /\ t.solo = u.solo
  /\ t.oldSessions = u.oldSessions /\ t.oldTokens = u.oldTokens

\* The statement that may come after u's, in a handler of its kind.
Follows(u, x) ==
  \/ u.pc = "check" /\ x = "create"
  \/ u.pc = "create" /\ x = "readback"
  \/ u.pc = "resolve" /\ x \in {"create", "readback"}
  \/ u.pc = "readback" /\ x = (IF u.kind = "oauth" THEN "gate" ELSE "touch")
  \/ u.pc = "find" /\ u.kind \in {"login", "init"} /\ x = "cred"
  \/ u.pc = "find" /\ u.kind = "mfa" /\ x = "gate"
  \/ u.pc = "find" /\ u.kind \in {"membership", "resend"} /\ x = "write"
  \/ u.pc = "find" /\ u.kind = "forgot" /\ x = "invalidate"
  \/ u.pc = "find" /\ u.kind = "reset" /\ x = "setpw"
  \/ u.pc = "cred" /\ u.kind = "login" /\ x = "gate"
  \/ u.pc = "cred" /\ u.kind = "init" /\ x = "setpw"
  \/ u.pc = "gate" /\ u.kind = "login" /\ x = "mfa" /\ root = "active"
  \/ u.pc = "gate" /\ u.kind \in {"mfa", "oauth"} /\ x = "touch" /\ root = "active"
  \/ u.pc = "mfa" /\ x = "touch"
  \/ u.pc = "touch" /\ x = "session"
  \/ u.pc = "claim" /\ u.kind = "verify" /\ x = "readback"
  \/ u.pc = "setpw" /\ x = "write"
  \/ u.pc = "write" /\ u.kind = "reset" /\ x = "invalidate"
  \/ u.pc = "invalidate" /\ x = (IF u.kind = "forgot" THEN "issue" ELSE "delete")
  \/ u.pc = "row" /\ x = "root"
  \/ u.pc = "root" /\ x \in {"revoke", "delete"}
  \/ u.pc = "revoke" /\ x = "delete"

\* A claimed reset token: the handler notes what it found.
ClaimsToken(p, t) ==
  /\ task[p].pc = "claim" /\ task[p].kind = "reset" /\ t.pc = "find"
  /\ t.kind = "reset" /\ t.token = task[p].token /\ t.barred = task[p].barred
  /\ t.oldSessions = Live /\ t.oldTokens = Fresh
  /\ rtok[t.token] = "fresh" /\ rtok' = [rtok EXCEPT ![t.token] = "used"]

\* A step of a handler ends it, or sends it to its next statement.
Onward(p, t) ==
  /\ task[p].pc # "idle" /\ task' = [task EXCEPT ![p] = t]
  /\ \/ t = IdleTask
     \/ Carries(task[p], t) /\ Follows(task[p], t.pc)
     \/ ClaimsToken(p, t)

LEMMA GotoCarries ==
  ASSUME TypeOK, NEW p \in Tasks, NEW x \in Pcs,
         Goto(p, x) \/ GotoWithRow(p, x)
  PROVE  \E t \in Task : task' = [task EXCEPT ![p] = t] /\ t.pc = x /\ Carries(task[p], t)
  <1>1. task[p] \in Task /\ row \in Row
    BY DEF TypeOK
  <1>2. CASE Goto(p, x)
    <2> DEFINE t == [task[p] EXCEPT !.pc = x]
    <2>1. t \in Task /\ t.pc = x /\ Carries(task[p], t)
      BY <1>1 DEF Task, Carries
    <2>2. task' = [task EXCEPT ![p] = t]
      BY <1>2 DEF Goto
    <2> QED
      BY <2>1, <2>2
  <1>3. CASE GotoWithRow(p, x)
    <2> DEFINE t == [task[p] EXCEPT !.pc = x, !.copy = row]
    <2>1. t \in Task /\ t.pc = x /\ Carries(task[p], t)
      BY <1>1 DEF Task, Carries
    <2>2. task' = [task EXCEPT ![p] = t]
      BY <1>3 DEF GotoWithRow
    <2> QED
      BY <2>1, <2>2
  <1> QED
    BY <1>2, <1>3

LEMMA EndsOnward ==
  ASSUME TypeOK, NEW p \in Tasks, task[p].pc # "idle", End(p)
  PROVE  \E t \in Task : Onward(p, t)
  BY IdleOK DEF End, Onward

LEMMA GoesOnward ==
  ASSUME TypeOK, NEW p \in Tasks, task[p].pc # "idle", NEW x \in Pcs,
         Goto(p, x) \/ GotoWithRow(p, x), Follows(task[p], x)
  PROVE  \E t \in Task : Onward(p, t)
  BY GotoCarries DEF Onward

\* The first read of the row, and the gate, by kind of handler.
Finds(p) ==
  \/ LoginFindsUser(p) \/ MfaFindsUser(p) \/ InitFindsUser(p) \/ MembershipFindsUser(p)
  \/ ForgotFindsUser(p) \/ ResetFindsUser(p) \/ ResendFindsUser(p)

\* Steps that leave the tables of tokens and sessions alone, and the root too.
Quiet(p) ==
  \/ CheckEmail(p) \/ ResolveBinding(p) \/ ReadBack(p) \/ Finds(p)
  \/ CheckPassword(p) \/ CheckNoPassword(p)
  \/ LoginGate(p) \/ MfaGate(p) \/ OauthGate(p) \/ CheckMfa(p)
  \/ TouchLastLogin(p) \/ ClaimVerification(p) \/ WriteRow(p)
  \/ ReplaceVerificationToken(p) \/ SetRowStatus(p) \/ RevokePassword(p) \/ Fail(p)

\* Steps that write them.
Loud(p) ==
  \/ CreateAggregate(p) \/ CreateSession(p) \/ ClaimReset(p) \/ SetPassword(p)
  \/ InvalidateResetTokens(p) \/ IssueResetToken(p) \/ SetRootStatus(p)
  \/ LoadRootFails(p) \/ DeleteSessions(p) \/ DeleteFailsSilently(p)

LEMMA QuietOnward ==
  ASSUME TypeOK, NEW p \in Tasks, Quiet(p)
  PROVE  \E t \in Task : Onward(p, t)
  <1> USE DEF Pcs
  <1>1. CASE CheckEmail(p) \/ ResolveBinding(p) \/ ReadBack(p)
    <2>1. /\ task[p].pc # "idle"
          /\ \/ End(p)
             \/ \E x \in Pcs : (Goto(p, x) \/ GotoWithRow(p, x)) /\ Follows(task[p], x)
      BY <1>1 DEF CheckEmail, ResolveBinding, ReadBack, Follows
    <2> QED
      BY <2>1, EndsOnward, GoesOnward
  <1>2. CASE Finds(p)
    <2>1. /\ task[p].pc # "idle"
          /\ \/ End(p)
             \/ \E x \in Pcs : GotoWithRow(p, x) /\ Follows(task[p], x)
      BY <1>2 DEF Finds, LoginFindsUser, MfaFindsUser, InitFindsUser, MembershipFindsUser,
                  ForgotFindsUser, ResetFindsUser, ResendFindsUser, Find, Follows
    <2> QED
      BY <2>1, EndsOnward, GoesOnward
  <1>3. CASE \/ CheckPassword(p) \/ CheckNoPassword(p) \/ LoginGate(p) \/ MfaGate(p)
             \/ OauthGate(p) \/ CheckMfa(p)
    <2>1. /\ task[p].pc # "idle"
          /\ \/ End(p)
             \/ \E x \in Pcs : Goto(p, x) /\ Follows(task[p], x)
      BY <1>3 DEF CheckPassword, CheckNoPassword, LoginGate, MfaGate, OauthGate, CheckMfa,
                  Gate, Follows
    <2> QED
      BY <2>1, EndsOnward, GoesOnward
  <1>4. CASE \/ TouchLastLogin(p) \/ ClaimVerification(p) \/ WriteRow(p)
             \/ ReplaceVerificationToken(p) \/ SetRowStatus(p) \/ RevokePassword(p) \/ Fail(p)
    <2>1. /\ task[p].pc # "idle"
          /\ \/ End(p)
             \/ \E x \in Pcs : Goto(p, x) /\ Follows(task[p], x)
      BY <1>4 DEF TouchLastLogin, ClaimVerification, WriteRow, ReplaceVerificationToken,
                  SetRowStatus, RevokePassword, Fail, Follows
    <2> QED
      BY <2>1, EndsOnward, GoesOnward
  <1> QED
    BY <1>1, <1>2, <1>3, <1>4 DEF Quiet

LEMMA LoudOnward ==
  ASSUME TypeOK, NEW p \in Tasks, Loud(p)
  PROVE  \E t \in Task : Onward(p, t)
  <1> USE DEF Pcs
  <1>1. CASE ClaimReset(p)
    <2>1. task[p].pc = "claim" /\ task[p].kind = "reset" /\ task[p] \in Task
      BY <1>1 DEF ClaimReset, TypeOK
    <2> DEFINE t == [task[p] EXCEPT !.pc = "find", !.oldSessions = Live, !.oldTokens = Fresh]
    <2>2. Live \subseteq SessionIds /\ Fresh \subseteq RTokens
      BY DEF Live, Fresh
    <2>3. /\ t \in Task /\ t.pc = "find" /\ t.kind = "reset" /\ t.token = task[p].token
          /\ t.barred = task[p].barred /\ t.oldSessions = Live /\ t.oldTokens = Fresh
      BY <2>1, <2>2 DEF Task
    <2>4. \/ End(p)
          \/ /\ task' = [task EXCEPT ![p] = t] /\ rtok[t.token] = "fresh"
             /\ rtok' = [rtok EXCEPT ![t.token] = "used"]
      BY <1>1, <2>3 DEF ClaimReset
    <2> QED
      BY <2>1, <2>3, <2>4, EndsOnward DEF Onward, ClaimsToken
  <1>2. CASE \/ CreateAggregate(p) \/ CreateSession(p) \/ SetPassword(p)
             \/ InvalidateResetTokens(p) \/ IssueResetToken(p)
    <2>1. /\ task[p].pc # "idle"
          /\ \/ End(p)
             \/ \E x \in Pcs : Goto(p, x) /\ Follows(task[p], x)
      BY <1>2 DEF CreateAggregate, CreateSession, SetPassword, InvalidateResetTokens,
                  IssueResetToken, Follows
    <2> QED
      BY <2>1, EndsOnward, GoesOnward
  <1>3. CASE SetRootStatus(p) \/ LoadRootFails(p) \/ DeleteSessions(p) \/ DeleteFailsSilently(p)
    <2>1. /\ task[p].pc # "idle"
          /\ \/ End(p)
             \/ \E x \in Pcs : Goto(p, x) /\ Follows(task[p], x)
      BY <1>3 DEF SetRootStatus, LoadRootFails, DeleteSessions, DeleteFailsSilently,
                  AfterRoot, Answer, Follows
    <2> QED
      BY <2>1, EndsOnward, GoesOnward
  <1> QED
    BY <1>1, <1>2, <1>3 DEF Loud

\* What a request is when it reaches its handler.
Begun(p, k, tok, t) ==
  /\ task' \in [Tasks -> Task] /\ task'[p] = t /\ task[p].pc = "idle"
  /\ t.pc = FirstPc(k) /\ t.kind = k /\ t.token = tok
  /\ t.oldSessions = {} /\ t.oldTokens = {}
  /\ t.barred => root = "suspended" /\ ~StatusChanging /\ k # "status"
  /\ \A q \in Tasks : q # p =>
       \/ k # "status" /\ task'[q] = task[q]
       \/ k = "status" /\ task'[q] = [task[q] EXCEPT !.barred = FALSE, !.solo = FALSE]

\* The arguments a request may come with.
Arrives(p, k, tok, s) ==
  /\ k \in Kinds /\ tok \in VTokens \cup RTokens \cup {NoToken}
  /\ s \in NewStatuses \cup {"Active"} /\ Start(p, k, tok, s)

LEMMA StartBegins ==
  ASSUME TypeOK, NEW p \in Tasks, NEW k, NEW tok, NEW s, Arrives(p, k, tok, s)
  PROVE  \E t \in Task : Begun(p, k, tok, t)
  <1>0. /\ \A q \in Tasks : task[q] \in Task
        /\ s \in AccountStatus /\ NoRow \in Row /\ FirstPc(k) \in Pcs
        /\ k \in Kinds /\ tok \in VTokens \cup RTokens \cup {NoToken}
    BY AccountLifecycleAssumption
       DEF TypeOK, Arrives, AccountStatus, NoRow, Row, FirstPc, Pcs, Kinds
  <1> DEFINE B == root = "suspended" /\ ~StatusChanging /\ k # "status"
             S == k = "status" /\ ~StatusChanging
  <1>1. PICK b \in BOOLEAN : b = B
    OBVIOUS
  <1>2. PICK d \in BOOLEAN : d = S
    OBVIOUS
  <1> DEFINE t == [pc |-> FirstPc(k), kind |-> k, copy |-> NoRow, token |-> tok,
                   status |-> s, barred |-> b, solo |-> d,
                   oldSessions |-> {}, oldTokens |-> {}]
  <1>3. /\ t \in Task /\ t.pc = FirstPc(k) /\ t.kind = k /\ t.token = tok /\ t.barred = b
        /\ t.oldSessions = {} /\ t.oldTokens = {}
    BY <1>0 DEF Task
  <1>4. task' = [q \in Tasks |->
                   IF q = p THEN t
                   ELSE IF k = "status"
                     THEN [task[q] EXCEPT !.barred = FALSE, !.solo = FALSE]
                   ELSE task[q]]
    BY <1>1, <1>2, Zenon DEF Arrives, Start
  <1> HIDE DEF t
  <1>5. \A q \in Tasks : [task[q] EXCEPT !.barred = FALSE, !.solo = FALSE] \in Task
    BY <1>0 DEF Task
  <1>6. task' \in [Tasks -> Task] /\ task'[p] = t
    BY <1>0, <1>3, <1>4, <1>5
  <1>7. \A q \in Tasks : q # p =>
          \/ k # "status" /\ task'[q] = task[q]
          \/ k = "status" /\ task'[q] = [task[q] EXCEPT !.barred = FALSE, !.solo = FALSE]
    BY <1>4
  <1>8. b => root = "suspended" /\ ~StatusChanging /\ k # "status"
    BY <1>1
  <1>9. task[p].pc = "idle"
    BY DEF Arrives, Start
  <1> QED
    BY <1>3, <1>6, <1>7, <1>8, <1>9 DEF Begun

\* Steps outside the handlers.
Elsewhere ==
  \/ \E s \in SessionIds : SessionEnds(s)
  \/ \E r \in RTokens : ResetTokenExpires(r)
  \/ ChallengeExpires

\* Every step is one of these kinds.
LEMMA NextIs ==
  ASSUME [Next]_vars
  PROVE  \/ UNCHANGED vars \/ Elsewhere
         \/ \E p \in Tasks : \/ Quiet(p) \/ Loud(p)
                             \/ \E k, tok, s : Arrives(p, k, tok, s)
  BY DEF Next, TaskStep, Quiet, Finds, Loud, Arrives, Elsewhere

----------------------------------------------------------------------------
(* Typing.                                                                 *)

LEMMA OnwardTyped ==
  ASSUME TypeOK, NEW p \in Tasks, NEW t \in Task, Onward(p, t)
  PROVE  task' \in [Tasks -> Task]
  BY DEF Onward, TypeOK

LEMMA TaskTyped ==
  ASSUME TypeOK, NEW p \in Tasks, Quiet(p) \/ Loud(p)
  PROVE  task' \in [Tasks -> Task]
  BY QuietOnward, LoudOnward, OnwardTyped

LEMMA QuietTyped ==
  ASSUME TypeOK, NEW p \in Tasks, Quiet(p)
  PROVE  TypeOK'
  <1>0. task' \in [Tasks -> Task] /\ task[p] \in Task
    BY TaskTyped DEF TypeOK
  <1>00. task[p].copy \in Row /\ task[p].status \in AccountStatus
    BY <1>0 DEF Task
  <1>1. CASE CheckEmail(p) \/ ResolveBinding(p) \/ ReadBack(p) \/ CheckPassword(p)
             \/ CheckNoPassword(p) \/ Fail(p)
    BY <1>0, <1>1 DEF CheckEmail, ResolveBinding, ReadBack, CheckPassword, CheckNoPassword,
                      Fail, TypeOK, identity, artifacts, history
  <1>2. CASE Finds(p)
    <2>1. UNCHANGED <<identity, row, root, cred, artifacts, history>>
      BY <1>2 DEF Finds, LoginFindsUser, MfaFindsUser, InitFindsUser, MembershipFindsUser,
                  ForgotFindsUser, ResetFindsUser, ResendFindsUser, Find
    <2> QED
      BY <1>0, <2>1 DEF TypeOK, identity, artifacts, history
  <1>3. CASE LoginGate(p) \/ MfaGate(p) \/ OauthGate(p)
    <2>1. UNCHANGED <<identity, row, root, cred, artifacts, claims, changes, voidSessions,
                      voidTokens, raced, answered>>
      BY <1>3 DEF LoginGate, MfaGate, OauthGate, Gate
    <2>2. emailRefused' \in BOOLEAN
      <3>1. CASE LoginGate(p)
        BY <3>1 DEF LoginGate, TypeOK
      <3>2. CASE MfaGate(p) \/ OauthGate(p)
        BY <3>2 DEF MfaGate, OauthGate, TypeOK
      <3> QED
        BY <1>3, <3>1, <3>2
    <2> QED
      BY <1>0, <2>1, <2>2 DEF TypeOK, identity, artifacts
  <1>4. CASE CheckMfa(p)
    BY <1>0, <1>4 DEF CheckMfa, TypeOK, identity, history
  <1>5. CASE TouchLastLogin(p) \/ WriteRow(p)
    BY <1>0, <1>00, <1>5 DEF TouchLastLogin, WriteRow, TypeOK, identity, artifacts, history
  <1>6. CASE ClaimVerification(p)
    <2>1. row' \in Row
      BY <1>6 DEF ClaimVerification, TypeOK, Row
    <2>2. claims' \in [VTokens -> 0..2]
      BY <1>6 DEF ClaimVerification, TypeOK, OneMore
    <2> QED
      BY <1>0, <1>6, <2>1, <2>2 DEF ClaimVerification, TypeOK, identity, artifacts
  <1>7. CASE ReplaceVerificationToken(p)
    <2>1. row' \in Row /\ vtok' \in SUBSET VTokens
      BY <1>00, <1>7 DEF ReplaceVerificationToken, TypeOK, Row
    <2> QED
      BY <1>0, <1>7, <2>1 DEF ReplaceVerificationToken, TypeOK, identity, history
  <1>8. CASE SetRowStatus(p)
    <2>1. row' \in Row
      BY <1>00, <1>8 DEF SetRowStatus, TypeOK, Row
    <2> QED
      BY <1>0, <1>8, <2>1 DEF SetRowStatus, TypeOK, identity, artifacts, history
  <1>9. CASE RevokePassword(p)
    BY <1>0, <1>9 DEF RevokePassword, TypeOK, identity, artifacts, history
  <1> QED
    BY <1>1, <1>2, <1>3, <1>4, <1>5, <1>6, <1>7, <1>8, <1>9 DEF Quiet

LEMMA AnswerTyped ==
  ASSUME TypeOK, NEW p \in Tasks, Answer(p) \/ UNCHANGED history
  PROVE  /\ claims' \in [VTokens -> 0..2] /\ changes' \in [RTokens -> 0..2]
         /\ voidSessions' \in SUBSET SessionIds /\ voidTokens' \in SUBSET RTokens
         /\ raced' \in BOOLEAN /\ answered' \in AccountStatus \cup {"none"}
         /\ emailRefused' \in BOOLEAN
  <1>1. /\ task[p].oldSessions \subseteq SessionIds /\ task[p].oldTokens \subseteq RTokens
        /\ task[p].status \in AccountStatus
    BY DEF TypeOK, Task
  <1> QED
    BY <1>1 DEF Answer, history, TypeOK

LEMMA LoudTyped ==
  ASSUME TypeOK, NEW p \in Tasks, Loud(p)
  PROVE  TypeOK'
  <1>0. task' \in [Tasks -> Task]
    BY TaskTyped
  <1>1. CASE CreateAggregate(p)
    <2>1. CASE created
      BY <1>0, <1>1, <2>1 DEF CreateAggregate, TypeOK, identity, history
    <2>2. CASE ~created
      <3>1. PICK v \in BOOLEAN : v = (task[p].kind = "oauth" \/ ~VerificationEnabled)
        OBVIOUS
      <3>2. PICK o \in BOOLEAN : o = (task[p].kind = "oauth")
        OBVIOUS
      <3>3. PICK r \in VTokens \cup {NoToken} :
              /\ row' = [verified |-> v, token |-> r, status |-> "Active"]
              /\ vtok' = vtok \cup ({r} \ {NoToken})
              /\ created' = TRUE /\ bound' = o /\ root' = "active" /\ accountVerified' = v
              /\ cred' \in {"none", "active"}
        BY <1>1, <2>2, <3>1, <3>2 DEF CreateAggregate
      <3>4. row' \in Row /\ vtok' \in SUBSET VTokens
        BY <3>3 DEF Row, AccountStatus, TypeOK
      <3>5. UNCHANGED <<rtok, session, challenged, history>>
        BY <1>1 DEF CreateAggregate
      <3> QED
        BY <1>0, <3>3, <3>4, <3>5 DEF TypeOK, history
    <2> QED
      BY <2>1, <2>2
  <1>2. CASE CreateSession(p)
    BY <1>0, <1>2 DEF CreateSession, TypeOK, identity, history
  <1>3. CASE ClaimReset(p)
    <2>1. rtok' \in [RTokens -> {"unissued", "fresh", "used", "expired"}]
      BY <1>3 DEF ClaimReset, TypeOK
    <2> QED
      BY <1>0, <1>3, <2>1 DEF ClaimReset, TypeOK, identity, history
  <1>4. CASE SetPassword(p)
    <2>1. changes' \in [RTokens -> 0..2]
      <3>1. \A n \in 0..2 : OneMore(n) \in 0..2
        BY DEF OneMore
      <3>2. \/ UNCHANGED changes
            \/ changes' = [changes EXCEPT ![task[p].token] = OneMore(changes[task[p].token])]
        BY <1>4 DEF SetPassword
      <3> QED
        BY <3>1, <3>2 DEF TypeOK
    <2> QED
      BY <1>0, <1>4, <2>1 DEF SetPassword, TypeOK, identity, artifacts
  <1>5. CASE InvalidateResetTokens(p)
    <2>1. raced' \in BOOLEAN /\ rtok' \in [RTokens -> {"unissued", "fresh", "used", "expired"}]
      BY <1>5 DEF InvalidateResetTokens, TypeOK
    <2> QED
      BY <1>0, <1>5, <2>1 DEF InvalidateResetTokens, TypeOK, identity
  <1>6. CASE IssueResetToken(p)
    BY <1>0, <1>6 DEF IssueResetToken, TypeOK, identity, history
  <1>7. CASE SetRootStatus(p) \/ LoadRootFails(p)
    <2>1. AfterRoot(p) /\ UNCHANGED <<identity, row, cred, artifacts>>
          /\ root' \in {"active", "suspended"}
      BY <1>7 DEF SetRootStatus, LoadRootFails, TypeOK
    <2>2. Answer(p) \/ UNCHANGED history
      BY <2>1 DEF AfterRoot
    <2> QED
      BY <1>0, <2>1, <2>2, AnswerTyped DEF TypeOK, identity, artifacts
  <1>8. CASE DeleteSessions(p) \/ DeleteFailsSilently(p)
    <2>1. /\ Answer(p) /\ UNCHANGED <<identity, row, root, cred, vtok, rtok, challenged>>
          /\ session' \in [SessionIds -> {"unissued", "live", "ended"}]
      BY <1>8 DEF DeleteSessions, DeleteFailsSilently, artifacts, TypeOK
    <2> QED
      BY <1>0, <2>1, AnswerTyped DEF TypeOK, identity
  <1> QED
    BY <1>1, <1>2, <1>3, <1>4, <1>5, <1>6, <1>7, <1>8 DEF Loud

LEMMA TypeStep ==
  ASSUME TypeOK, [Next]_vars
  PROVE  TypeOK'
  <1>1. CASE UNCHANGED vars
    BY <1>1 DEF vars, TypeOK
  <1>2. CASE Elsewhere
    <2>1. CASE \E s \in SessionIds : SessionEnds(s)
      BY <2>1 DEF SessionEnds, TypeOK, identity, history
    <2>2. CASE \E r \in RTokens : ResetTokenExpires(r)
      BY <2>2 DEF ResetTokenExpires, TypeOK, identity, history
    <2>3. CASE ChallengeExpires
      BY <2>3 DEF ChallengeExpires, TypeOK, identity, history
    <2> QED
      BY <1>2, <2>1, <2>2, <2>3 DEF Elsewhere
  <1>3. ASSUME NEW p \in Tasks, NEW k, NEW tok, NEW s, Arrives(p, k, tok, s) PROVE TypeOK'
    <2>1. task' \in [Tasks -> Task]
      BY <1>3, StartBegins DEF Begun
    <2> QED
      BY <1>3, <2>1 DEF Arrives, Start, TypeOK, identity, artifacts
  <1> QED
    BY <1>1, <1>2, <1>3, QuietTyped, LoudTyped, NextIs

----------------------------------------------------------------------------
(* Resets.                                                                 *)

\* All that a step does to sessions and reset tokens: a row is issued, used up
\* or ended, and never comes back.
Ages ==
  /\ \A s \in SessionIds : \/ session'[s] = session[s]
                           \/ session[s] = "unissued" /\ session'[s] = "live"
                           \/ session[s] = "live" /\ session'[s] = "ended"
  /\ \A r \in RTokens : \/ rtok'[r] = rtok[r]
                        \/ rtok[r] = "unissued" /\ rtok'[r] = "fresh"
                        \/ rtok[r] = "fresh" /\ rtok'[r] \in {"used", "expired"}
  /\ \A r \in RTokens : changes'[r] = changes[r]

\* Handlers that do not differ in what ResetInv reads.
Like(u, t) ==
  /\ u.pc = t.pc /\ u.kind = t.kind /\ u.token = t.token
  /\ u.oldSessions = t.oldSessions /\ u.oldTokens = t.oldTokens

LEMMA AgesHandler ==
  ASSUME Ages, NEW t \in Task, NEW u \in Task, HandlerOK(t), Like(u, t)
  PROVE  HandlerOK(u)'
  <1>1. StageOK(u) /\ u.oldSessions \subseteq SessionIds /\ u.oldTokens \subseteq RTokens
    BY DEF HandlerOK, StageOK, Like, Task
  <1>2. Claimed(u) => u.token \in RTokens /\ rtok[u.token] = "used" /\ changes[u.token] = 0
    BY <1>1 DEF HandlerOK, ClaimOK, Claimed, StageOK, Like
  <1>3. \A s \in u.oldSessions : session'[s] # "unissued"
    BY <1>1 DEF HandlerOK, ClaimOK, Like, Ages
  <1>4. \A r \in u.oldTokens : rtok'[r] # "unissued" /\ (u.pc = "delete" => rtok'[r] # "fresh")
    BY <1>1 DEF HandlerOK, ClaimOK, Like, Ages
  <1>5. Claimed(u) => rtok'[u.token] = "used" /\ changes'[u.token] = 0
    BY <1>2 DEF Ages
  <1> QED
    BY <1>1, <1>3, <1>4, <1>5 DEF HandlerOK, StageOK, ClaimOK, Claimed

\* The order of the statements keeps each handler where its kind belongs.
LEMMA StageStep ==
  ASSUME NEW p \in Tasks, NEW t \in Task, StageOK(task[p]), Onward(p, t)
  PROVE  StageOK(t)
  <1>1. CASE t = IdleTask
    BY <1>1, IdleOK DEF StageOK
  <1>2. CASE Carries(task[p], t) /\ Follows(task[p], t.pc)
    BY <1>2 DEF StageOK, Carries, Follows
  <1>3. CASE ClaimsToken(p, t)
    BY <1>3 DEF StageOK, ClaimsToken
  <1> QED
    BY <1>1, <1>2, <1>3 DEF Onward

\* A handler that goes on relies only on what it relied on before, or on the
\* token it has just claimed.
LEMMA ClaimStep ==
  ASSUME TypeOK, ChangesOK, Ages, NEW p \in Tasks, NEW t \in Task,
         HandlerOK(task[p]), Onward(p, t),
         t.pc = "delete" => \A r \in t.oldTokens : rtok'[r] # "fresh"
  PROVE  /\ HandlerOK(t)'
         /\ Claimed(t) => \/ Claimed(task[p]) /\ t.token = task[p].token
                          \/ rtok[t.token] = "fresh"
  <1>0. StageOK(t) /\ t.oldSessions \subseteq SessionIds /\ t.oldTokens \subseteq RTokens
    BY StageStep DEF HandlerOK, Task
  <1>1. CASE t = IdleTask
    BY <1>0, <1>1, IdleOK DEF HandlerOK, StageOK, ClaimOK, Claimed
  <1>2. CASE Carries(task[p], t) /\ Follows(task[p], t.pc)
    <2>1. Claimed(t) => /\ Claimed(task[p]) /\ t.token = task[p].token
                        /\ t.token \in RTokens
      BY <1>0, <1>2 DEF Claimed, Carries, Follows, StageOK
    <2>2. Claimed(t) => rtok'[t.token] = "used" /\ changes'[t.token] = 0
      BY <2>1 DEF HandlerOK, ClaimOK, Ages
    <2>3. \A s \in t.oldSessions : session'[s] # "unissued"
      BY <1>0, <1>2 DEF HandlerOK, ClaimOK, Carries, Ages
    <2>4. \A r \in t.oldTokens : rtok'[r] # "unissued"
      BY <1>0, <1>2 DEF HandlerOK, ClaimOK, Carries, Ages
    <2> QED
      BY <1>0, <2>1, <2>2, <2>3, <2>4 DEF HandlerOK, StageOK, ClaimOK, Claimed
  <1>3. CASE ClaimsToken(p, t)
    <2>1. /\ t.token \in RTokens /\ rtok[t.token] = "fresh" /\ t.pc = "find"
          /\ rtok' = [rtok EXCEPT ![t.token] = "used"]
      BY <1>0, <1>3 DEF ClaimsToken, StageOK
    <2>2. rtok'[t.token] = "used" /\ changes'[t.token] = 0
      BY <2>1 DEF TypeOK, ChangesOK, Ages
    <2>3. \A s \in t.oldSessions : session'[s] # "unissued"
      BY <1>0, <1>3 DEF ClaimsToken, Live, Ages
    <2>4. \A r \in t.oldTokens : rtok'[r] # "unissued"
      BY <1>0, <1>3 DEF ClaimsToken, Fresh, Ages
    <2> QED
      BY <1>0, <2>1, <2>2, <2>3, <2>4 DEF HandlerOK, StageOK, ClaimOK, Claimed
  <1> QED
    BY <1>1, <1>2, <1>3 DEF Onward

\* A step that ages the tables and sends one handler on.
LEMMA AgesKeeps ==
  ASSUME ResetInv, TypeOK', Ages, NEW p \in Tasks, NEW t \in Task, Onward(p, t),
         t.pc = "delete" => \A r \in t.oldTokens : rtok'[r] # "fresh",
         \A s \in voidSessions' : s \in voidSessions \/ session'[s] = "ended",
         \A r \in voidTokens' : r \in voidTokens \/ rtok'[r] \in {"used", "expired"}
  PROVE  ResetInv'
  <1>0. /\ TypeOK /\ OneClaim /\ ChangesOK /\ VoidOK
        /\ \A q \in Tasks : task[q] \in Task /\ task'[q] \in Task /\ HandlerOK(task[q])
        /\ task'[p] = t /\ \A q \in Tasks : q # p => task'[q] = task[q]
    BY DEF ResetInv, TypeOK, Onward
  <1>1. /\ HandlerOK(t)'
        /\ Claimed(t) => \/ Claimed(task[p]) /\ t.token = task[p].token
                         \/ rtok[t.token] = "fresh"
    BY <1>0, ClaimStep
  <1>2. ASSUME NEW q \in Tasks PROVE HandlerOK(task[q])'
    <2>1. CASE q = p
      BY <1>0, <1>1, <2>1 DEF HandlerOK, StageOK, ClaimOK, Claimed
    <2>2. CASE q # p
      <3>1. PICK u \in Task : u = task[q] /\ u = task'[q] /\ HandlerOK(u) /\ Like(u, u)
        BY <1>0, <2>2 DEF Like
      <3>2. HandlerOK(u)'
        BY <3>1, AgesHandler
      <3> QED
        BY <3>1, <3>2 DEF HandlerOK, StageOK, ClaimOK, Claimed
    <2> QED
      BY <2>1, <2>2
  <1>3. OneClaim'
    <2>1. \A q \in Tasks : Claimed(task[q]) => rtok[task[q].token] = "used"
      BY <1>0 DEF HandlerOK, ClaimOK
    <2>2. \A q, s \in Tasks : Claimed(task'[q]) /\ Claimed(task'[s])
                                /\ task'[q].token = task'[s].token => q = s
      BY <1>0, <1>1, <2>1 DEF OneClaim
    <2> QED
      BY <2>2 DEF OneClaim, Claimed
  <1>4. ChangesOK'
    BY <1>0 DEF ChangesOK, Ages
  <1>5. VoidOK'
    <2>1. voidSessions \subseteq SessionIds /\ voidTokens \subseteq RTokens
      BY <1>0 DEF TypeOK
    <2>2. \A s \in voidSessions : session'[s] = "ended"
      BY <1>0, <2>1 DEF VoidOK, Ages
    <2>3. \A r \in voidTokens : rtok'[r] \in {"used", "expired"}
      BY <1>0, <2>1 DEF VoidOK, Ages
    <2> QED
      BY <2>2, <2>3 DEF VoidOK
  <1> QED
    BY <1>2, <1>3, <1>4, <1>5 DEF ResetInv

\* Only a reset that has just voided the other tokens brings some to its last
\* statement.
LEMMA DeleteFollows ==
  ASSUME NEW p \in Tasks, NEW t \in Task, StageOK(task[p]), Onward(p, t), t.pc = "delete"
  PROVE  task[p].pc = "invalidate" \/ t.oldTokens = {}
  BY IdleOK DEF Onward, StageOK, Carries, Follows, ClaimsToken

LEMMA QuietKeeps ==
  ASSUME ResetInv, TypeOK', NEW p \in Tasks, Quiet(p)
  PROVE  ResetInv'
  <1>1. UNCHANGED <<session, rtok, changes, voidSessions, voidTokens>>
    BY DEF Quiet, CheckEmail, ResolveBinding, ReadBack, Finds, LoginFindsUser, MfaFindsUser,
           InitFindsUser, MembershipFindsUser, ForgotFindsUser, ResetFindsUser,
           ResendFindsUser, Find, CheckPassword, CheckNoPassword, LoginGate, MfaGate,
           OauthGate, Gate, CheckMfa, TouchLastLogin, ClaimVerification, WriteRow,
           ReplaceVerificationToken, SetRowStatus, RevokePassword, Fail, artifacts, history
  <1>2. Ages
    BY <1>1 DEF Ages
  <1>3. TypeOK /\ StageOK(task[p])
    BY DEF ResetInv, HandlerOK
  <1>4. PICK t \in Task : Onward(p, t)
    BY <1>3, QuietOnward
  <1>5. task[p].pc # "invalidate" \/ Fail(p)
    BY DEF Quiet, CheckEmail, ResolveBinding, ReadBack, Finds, LoginFindsUser, MfaFindsUser,
           InitFindsUser, MembershipFindsUser, ForgotFindsUser, ResetFindsUser,
           ResendFindsUser, Find, CheckPassword, CheckNoPassword, LoginGate, MfaGate,
           OauthGate, Gate, CheckMfa, TouchLastLogin, ClaimVerification, WriteRow,
           ReplaceVerificationToken, SetRowStatus, RevokePassword
  <1>6. Fail(p) => t.pc = "idle"
    BY <1>3, <1>4, IdleOK DEF Fail, End, Onward, TypeOK
  <1>7. t.pc = "delete" => t.oldTokens = {}
    BY <1>3, <1>4, <1>5, <1>6, DeleteFollows
  <1> QED
    BY <1>1, <1>2, <1>4, <1>7, AgesKeeps

\* SetPassword is the one step that raises a counter: the handler's own.
LEMMA SetPasswordKeeps ==
  ASSUME ResetInv, TypeOK', NEW p \in Tasks, SetPassword(p)
  PROVE  ResetInv'
  <1>0. /\ TypeOK /\ OneClaim /\ ChangesOK /\ VoidOK
        /\ \A q \in Tasks : task[q] \in Task /\ task'[q] \in Task /\ HandlerOK(task[q])
    BY DEF ResetInv, TypeOK
  <1>1. UNCHANGED <<session, rtok, voidSessions, voidTokens>>
    BY DEF SetPassword, artifacts
  <1>2. PICK t \in Task : Onward(p, t)
    BY <1>0, LoudOnward DEF Loud
  <1>3. task[p].pc = "setpw" /\ Goto(p, "write")
    BY DEF SetPassword
  <1>4. t.pc = "write" /\ t.kind = task[p].kind
    BY <1>0, <1>2, <1>3, IdleOK DEF Onward, Carries, Follows, ClaimsToken, Goto, TypeOK, Task
  <1>5. CASE UNCHANGED changes
    <2>1. Ages
      BY <1>1, <1>5 DEF Ages
    <2> QED
      BY <1>1, <1>2, <1>4, <2>1, AgesKeeps
  <1>6. CASE /\ task[p].kind = "reset"
             /\ changes' = [changes EXCEPT ![task[p].token] = OneMore(@)]
    <2>1. /\ Claimed(task[p]) /\ task[p].token \in RTokens
          /\ rtok[task[p].token] = "used" /\ changes[task[p].token] = 0
      BY <1>0, <1>3, <1>6 DEF Claimed, HandlerOK, StageOK, ClaimOK
    <2>2. /\ changes'[task[p].token] = 1
          /\ \A r \in RTokens : r # task[p].token => changes'[r] = changes[r]
      BY <1>0, <1>6, <2>1 DEF OneMore, TypeOK
    <2>3. ChangesOK'
      BY <1>0, <1>1, <2>1, <2>2 DEF ChangesOK
    <2>4. task'[p] = t /\ \A q \in Tasks : q # p => task'[q] = task[q]
      BY <1>0, <1>2 DEF Onward, TypeOK
    <2>5. ~Claimed(t) /\ StageOK(t)
      BY <1>0, <1>2, <1>4, StageStep DEF Claimed, HandlerOK
    <2>6. Carries(task[p], t)
      BY <1>2, <1>3, <1>4, IdleOK DEF Onward, ClaimsToken
    <2>7. ASSUME NEW q \in Tasks PROVE HandlerOK(task[q])'
      <3>1. CASE q = p
        BY <1>0, <1>1, <1>4, <2>4, <2>5, <2>6, <3>1
           DEF HandlerOK, StageOK, ClaimOK, Claimed, Carries
      <3>2. CASE q # p
        <4>1. Claimed(task[q]) => task[q].token # task[p].token /\ task[q].token \in RTokens
          BY <1>0, <2>1, <3>2 DEF OneClaim, HandlerOK, StageOK, Claimed
        <4> QED
          BY <1>0, <1>1, <2>2, <2>4, <3>2, <4>1 DEF HandlerOK, StageOK, ClaimOK, Claimed
      <3> QED
        BY <3>1, <3>2
    <2>8. OneClaim'
      BY <1>0, <2>4, <2>5 DEF OneClaim, Claimed
    <2>9. VoidOK'
      BY <1>0, <1>1 DEF VoidOK
    <2> QED
      BY <2>3, <2>7, <2>8, <2>9 DEF ResetInv
  <1> QED
    BY <1>5, <1>6 DEF SetPassword

\* A handler that answers leaves behind what it found, which has ended.
LEMMA AnswerKeeps ==
  ASSUME ResetInv, TypeOK', Ages, NEW p \in Tasks, task[p].pc # "idle", Answer(p),
         task[p].kind = "reset" =>
           /\ task[p].pc = "delete"
           /\ \A s \in SessionIds : session'[s] # "live"
  PROVE  ResetInv'
  <1>0. /\ TypeOK /\ HandlerOK(task[p])
        /\ task[p].oldSessions \subseteq SessionIds /\ task[p].oldTokens \subseteq RTokens
    BY DEF ResetInv, TypeOK, Task
  <1>1. Onward(p, IdleTask) /\ IdleTask \in Task /\ IdleTask.pc = "idle"
    BY IdleOK DEF Answer, End, Onward
  <1>2. CASE task[p].kind # "reset"
    <2>1. voidSessions' = voidSessions /\ voidTokens' = voidTokens
      BY <1>0, <1>2 DEF Answer, HandlerOK, StageOK
    <2> QED
      BY <1>1, <2>1, AgesKeeps
  <1>3. CASE task[p].kind = "reset"
    <2>1. \A s \in task[p].oldSessions : session'[s] = "ended"
      <3>1. \A s \in SessionIds : session'[s] \in {"unissued", "ended"}
        BY <1>3 DEF TypeOK
      <3>2. \A s \in task[p].oldSessions : session[s] # "unissued"
        BY <1>0 DEF HandlerOK, ClaimOK
      <3> QED
        BY <1>0, <3>1, <3>2 DEF Ages
    <2>2. \A r \in task[p].oldTokens : rtok'[r] \in {"used", "expired"}
      <3>1. \A r \in task[p].oldTokens : rtok[r] \in {"used", "expired"}
        BY <1>0, <1>3 DEF HandlerOK, ClaimOK, TypeOK
      <3> QED
        BY <1>0, <3>1 DEF Ages
    <2>3. /\ voidSessions' = voidSessions \cup task[p].oldSessions
          /\ voidTokens' = voidTokens \cup task[p].oldTokens
      BY DEF Answer
    <2> QED
      BY <1>1, <2>1, <2>2, <2>3, AgesKeeps
  <1> QED
    BY <1>2, <1>3

LEMMA LoudKeeps ==
  ASSUME ResetInv, TypeOK', NEW p \in Tasks, Loud(p)
  PROVE  ResetInv'
  <1>0. TypeOK /\ StageOK(task[p])
    BY DEF ResetInv, HandlerOK
  <1>1. PICK t \in Task : Onward(p, t)
    BY <1>0, LoudOnward
  <1>2. ASSUME Ages, UNCHANGED <<voidSessions, voidTokens>>, task[p].pc # "invalidate"
        PROVE  ResetInv'
    BY <1>0, <1>1, <1>2, DeleteFollows, AgesKeeps
  <1>3. CASE CreateAggregate(p) \/ CreateSession(p) \/ IssueResetToken(p)
    <2>1. /\ Ages /\ UNCHANGED <<voidSessions, voidTokens>> /\ task[p].pc # "invalidate"
      BY <1>0, <1>3 DEF CreateAggregate, CreateSession, IssueResetToken, Ages, TypeOK, history
    <2> QED
      BY <1>2, <2>1
  <1>4. CASE ClaimReset(p)
    <2>1. /\ Ages /\ UNCHANGED <<voidSessions, voidTokens>> /\ task[p].pc # "invalidate"
      BY <1>0, <1>4 DEF ClaimReset, Ages, TypeOK, history
    <2> QED
      BY <1>2, <2>1
  <1>5. CASE InvalidateResetTokens(p)
    <2>1. /\ UNCHANGED <<session, changes, voidSessions, voidTokens>>
          /\ \A r \in RTokens : rtok'[r] = IF rtok[r] = "fresh" THEN "used" ELSE rtok[r]
      BY <1>5 DEF InvalidateResetTokens
    <2>2. Ages
      BY <2>1 DEF Ages
    <2>3. t.oldTokens \subseteq RTokens
      BY DEF Task
    <2> QED
      BY <1>1, <2>1, <2>2, <2>3, AgesKeeps
  <1>6. CASE SetRootStatus(p) \/ LoadRootFails(p)
    <2>1. task[p].pc = "root" /\ AfterRoot(p) /\ UNCHANGED <<session, rtok>>
      BY <1>6 DEF SetRootStatus, LoadRootFails, artifacts
    <2>2. Answer(p) \/ UNCHANGED history
      BY <2>1 DEF AfterRoot
    <2>3. Ages
      BY <2>1, <2>2 DEF Ages, Answer, history
    <2>4. CASE UNCHANGED history
      BY <1>2, <2>1, <2>3, <2>4 DEF history
    <2>5. CASE Answer(p)
      BY <1>0, <2>1, <2>3, <2>5, AnswerKeeps DEF StageOK
    <2> QED
      BY <2>2, <2>4, <2>5
  <1>7. CASE DeleteSessions(p) \/ DeleteFailsSilently(p)
    <2>1. task[p].pc = "delete" /\ Answer(p) /\ Ages
      BY <1>0, <1>7 DEF DeleteSessions, DeleteFailsSilently, Answer, Ages, artifacts
    <2>2. task[p].kind = "reset" => \A s \in SessionIds : session'[s] # "live"
      BY <1>7 DEF DeleteSessions, DeleteFailsSilently
    <2> QED
      BY <2>1, <2>2, AnswerKeeps
  <1> QED
    BY <1>3, <1>4, <1>5, <1>6, <1>7, SetPasswordKeeps DEF Loud

LEMMA StartKeeps ==
  ASSUME ResetInv, TypeOK', NEW p \in Tasks, NEW k, NEW tok, NEW s, Arrives(p, k, tok, s)
  PROVE  ResetInv'
  <1>0. /\ TypeOK /\ OneClaim /\ ChangesOK /\ VoidOK
        /\ \A q \in Tasks : task[q] \in Task /\ task'[q] \in Task /\ HandlerOK(task[q])
    BY DEF ResetInv, TypeOK
  <1>1. PICK t \in Task : Begun(p, k, tok, t)
    BY <1>0, StartBegins
  <1>2. UNCHANGED <<session, rtok, changes, voidSessions, voidTokens>> /\ k \in Kinds
        /\ MayStart(k, tok)
    BY DEF Arrives, Start, artifacts
  <1>3. StageOK(t) /\ ~Claimed(t) /\ t.oldSessions = {} /\ t.oldTokens = {} /\ task'[p] = t
    BY <1>1, <1>2 DEF Begun, FirstPc, StageOK, Claimed, MayStart, Kinds
  <1>4. ASSUME NEW q \in Tasks, q # p PROVE Like(task'[q], task[q])
    <2>1. \/ task'[q] = task[q]
          \/ task'[q] = [task[q] EXCEPT !.barred = FALSE, !.solo = FALSE]
      BY <1>1, <1>4 DEF Begun
    <2> QED
      BY <1>0, <2>1 DEF Like, Task
  <1>5. ASSUME NEW q \in Tasks PROVE HandlerOK(task[q])'
    <2>1. CASE q = p
      BY <1>3, <2>1 DEF HandlerOK, StageOK, ClaimOK, Claimed
    <2>2. CASE q # p
      BY <1>0, <1>2, <1>4, <2>2 DEF HandlerOK, StageOK, ClaimOK, Claimed, Like
    <2> QED
      BY <2>1, <2>2
  <1>6. OneClaim'
    BY <1>0, <1>3, <1>4 DEF OneClaim, Claimed, Like
  <1>7. ChangesOK' /\ VoidOK'
    BY <1>0, <1>2 DEF ChangesOK, VoidOK
  <1> QED
    BY <1>5, <1>6, <1>7 DEF ResetInv

LEMMA ElsewhereKeeps ==
  ASSUME ResetInv, TypeOK', Elsewhere \/ UNCHANGED vars
  PROVE  ResetInv'
  <1>0. /\ TypeOK /\ OneClaim /\ ChangesOK /\ VoidOK
        /\ \A q \in Tasks : task[q] \in Task /\ HandlerOK(task[q])
    BY DEF ResetInv, TypeOK
  <1>1. Ages /\ UNCHANGED <<task, voidSessions, voidTokens>>
    <2>1. CASE \E s \in SessionIds : SessionEnds(s)
      BY <1>0, <2>1 DEF SessionEnds, Ages, TypeOK, history
    <2>2. CASE \E r \in RTokens : ResetTokenExpires(r)
      BY <1>0, <2>2 DEF ResetTokenExpires, Ages, TypeOK, history
    <2>3. CASE ChallengeExpires \/ UNCHANGED vars
      BY <2>3 DEF ChallengeExpires, vars, Ages, history
    <2> QED
      BY <2>1, <2>2, <2>3 DEF Elsewhere
  <1>2. ASSUME NEW q \in Tasks PROVE HandlerOK(task[q])'
    <2>1. PICK t \in Task : t = task[q] /\ HandlerOK(t) /\ Like(t, t)
      BY <1>0 DEF Like
    <2>2. HandlerOK(t)'
      BY <1>1, <2>1, AgesHandler
    <2> QED
      BY <1>1, <2>1, <2>2 DEF HandlerOK, StageOK, ClaimOK, Claimed
  <1>3. OneClaim' /\ ChangesOK'
    BY <1>0, <1>1 DEF OneClaim, Claimed, ChangesOK, Ages
  <1>4. VoidOK'
    BY <1>0, <1>1 DEF VoidOK, Ages, TypeOK
  <1> QED
    BY <1>2, <1>3, <1>4 DEF ResetInv

LEMMA ResetInvHolds == Spec => []ResetInv
  <1>1. Init => ResetInv
    <2> SUFFICES ASSUME Init PROVE ResetInv
      OBVIOUS
    <2>1. TypeOK
      <3>1. NoRow \in Row
        BY DEF NoRow, Row, AccountStatus
      <3>2. /\ claims \in [VTokens -> 0..2] /\ changes \in [RTokens -> 0..2]
            /\ task \in [Tasks -> Task]
        BY IdleOK DEF Init
      <3> QED
        BY <3>1, <3>2 DEF Init, TypeOK
    <2>2. \A p \in Tasks : task[p] = IdleTask
      BY DEF Init
    <2>3. OneClaim /\ \A p \in Tasks : HandlerOK(task[p])
      BY <2>2, IdleOK DEF OneClaim, Claimed, HandlerOK, StageOK, ClaimOK
    <2>4. ChangesOK /\ VoidOK
      BY DEF Init, ChangesOK, VoidOK
    <2> QED
      BY <2>1, <2>3, <2>4 DEF ResetInv
  <1>2. ResetInv /\ [Next]_vars => ResetInv'
    <2> SUFFICES ASSUME ResetInv, [Next]_vars PROVE ResetInv'
      OBVIOUS
    <2>1. TypeOK'
      BY TypeStep DEF ResetInv
    <2> QED
      BY <2>1, QuietKeeps, LoudKeeps, StartKeeps, ElsewhereKeeps, NextIs
  <1> QED
    BY <1>1, <1>2, PTL DEF Spec

----------------------------------------------------------------------------
(* Mails.                                                                  *)

\* A step of a handler that neither voids tokens nor stores one.
LEMMA OtherMail ==
  ASSUME TypeOK, MailInv, UNCHANGED raced, Fresh' \subseteq Fresh,
         \A q \in Tasks : Issuing(q)' => Issuing(q)
  PROVE  MailInv'
  BY DEF MailInv, AtMostOne

\* Only the statement that voids the tokens leads to the one that stores one.
LEMMA IssuingFollows ==
  ASSUME TypeOK, NEW p \in Tasks, NEW t \in Task, Onward(p, t), task[p].pc # "invalidate"
  PROVE  ~Issuing(p)' /\ \A q \in Tasks : Issuing(q)' => Issuing(q)
  <1>1. t.pc # "issue"
    BY IdleOK DEF Onward, Follows, ClaimsToken
  <1>2. task'[p] = t /\ \A q \in Tasks : q # p => task'[q] = task[q]
    BY DEF Onward, TypeOK
  <1> QED
    BY <1>1, <1>2 DEF Issuing

\* A handler that ends stores nothing.
LEMMA IssuingEnds ==
  ASSUME TypeOK, NEW p \in Tasks, End(p)
  PROVE  ~Issuing(p)' /\ \A q \in Tasks : Issuing(q)' => Issuing(q)
  BY IdleOK DEF End, TypeOK, Issuing

LEMMA QuietMail ==
  ASSUME TypeOK, MailInv, NEW p \in Tasks, Quiet(p)
  PROVE  MailInv'
  <1>1. UNCHANGED <<rtok, raced>>
    BY DEF Quiet, CheckEmail, ResolveBinding, ReadBack, Finds, LoginFindsUser, MfaFindsUser,
           InitFindsUser, MembershipFindsUser, ForgotFindsUser, ResetFindsUser,
           ResendFindsUser, Find, CheckPassword, CheckNoPassword, LoginGate, MfaGate,
           OauthGate, Gate, CheckMfa, TouchLastLogin, ClaimVerification, WriteRow,
           ReplaceVerificationToken, SetRowStatus, RevokePassword, Fail, artifacts, history
  <1>2. task[p].pc # "invalidate" \/ Fail(p)
    BY DEF Quiet, CheckEmail, ResolveBinding, ReadBack, Finds, LoginFindsUser, MfaFindsUser,
           InitFindsUser, MembershipFindsUser, ForgotFindsUser, ResetFindsUser,
           ResendFindsUser, Find, CheckPassword, CheckNoPassword, LoginGate, MfaGate,
           OauthGate, Gate, CheckMfa, TouchLastLogin, ClaimVerification, WriteRow,
           ReplaceVerificationToken, SetRowStatus, RevokePassword
  <1>3. \A q \in Tasks : Issuing(q)' => Issuing(q)
    BY <1>2, QuietOnward, IssuingFollows, IssuingEnds DEF Fail
  <1>4. Fresh' = Fresh
    BY <1>1 DEF Fresh
  <1> QED
    BY <1>1, <1>3, <1>4, OtherMail

\* What Cardinality counts.
LEMMA AtMostOneCounts ==
  ASSUME NEW S
  PROVE  /\ AtMostOne(S) => Cardinality(S) <= 1
         /\ IsFiniteSet(S) /\ ~(Cardinality(S) > 1) => AtMostOne(S)
  <1>1. ASSUME AtMostOne(S) PROVE Cardinality(S) <= 1
    <2>1. CASE S = {}
      BY <2>1, FS_EmptySet
    <2>2. CASE \E x \in S : S = {x}
      BY <2>2, FS_Singleton
    <2> QED
      BY <1>1, <2>1, <2>2 DEF AtMostOne
  <1>2. ASSUME IsFiniteSet(S), ~(Cardinality(S) > 1), NEW x \in S, NEW y \in S, x # y
        PROVE  FALSE
    <2>1. IsFiniteSet({x}) /\ Cardinality({x}) = 1
      BY FS_Singleton
    <2>2. Cardinality({x} \cup {y}) = 2
      BY <1>2, <2>1, FS_AddElement
    <2>3. {x} \cup {y} \subseteq S
      OBVIOUS
    <2>4. Cardinality({x} \cup {y}) <= Cardinality(S) /\ Cardinality(S) \in Nat
      BY <1>2, <2>3, FS_Subset, FS_CardinalityType
    <2> QED
      BY <1>2, <2>2, <2>4
  <1> QED
    BY <1>1, <1>2 DEF AtMostOne

LEMMA LoudMail ==
  ASSUME TypeOK, MailInv, NEW p \in Tasks, Loud(p)
  PROVE  MailInv'
  <1>1. CASE InvalidateResetTokens(p)
    <2>1. Fresh' = {}
      BY <1>1 DEF InvalidateResetTokens, Fresh
    <2> DEFINE I == {q \in Tasks : task'[q].pc = "issue"}
    <2>2. raced' = (Cardinality(I) > 1)
      BY <1>1 DEF InvalidateResetTokens
    <2>3. IsFiniteSet(I)
      BY AccountLifecycleAssumption, FS_Subset
    <2>4. ~raced' => AtMostOne(I)
      BY <2>2, <2>3, AtMostOneCounts
    <2>5. ~raced' => \A q, s \in Tasks : Issuing(q)' /\ Issuing(s)' => q = s
      BY <2>4 DEF Issuing, AtMostOne
    <2> QED
      BY <2>1, <2>5 DEF MailInv, AtMostOne
  <1>2. CASE IssueResetToken(p)
    <2>1. PICK r \in RTokens : rtok' = [rtok EXCEPT ![r] = "fresh"]
      BY <1>2 DEF IssueResetToken
    <2>2. UNCHANGED raced /\ Issuing(p) /\ End(p)
      BY <1>2 DEF IssueResetToken, Issuing, history
    <2>3. Fresh' \subseteq Fresh \cup {r}
      BY <2>1 DEF Fresh, TypeOK
    <2>4. ~Issuing(p)' /\ \A q \in Tasks : Issuing(q)' => Issuing(q)
      BY <2>2, IssuingEnds
    <2>5. ~raced => Fresh = {} /\ \A q \in Tasks : ~Issuing(q)'
      BY <2>2, <2>4 DEF MailInv
    <2> QED
      BY <2>2, <2>3, <2>5 DEF MailInv, AtMostOne
  <1>3. CASE ~InvalidateResetTokens(p) /\ ~IssueResetToken(p)
    <2>1. UNCHANGED raced /\ Fresh' \subseteq Fresh /\ task[p].pc # "invalidate"
      <3>1. CASE ClaimReset(p)
        BY <3>1 DEF ClaimReset, Fresh, TypeOK, history
      <3>2. CASE CreateAggregate(p) \/ CreateSession(p) \/ SetPassword(p)
        BY <3>2 DEF CreateAggregate, CreateSession, SetPassword, artifacts, history, Fresh
      <3>3. CASE SetRootStatus(p) \/ LoadRootFails(p) \/ DeleteSessions(p)
                 \/ DeleteFailsSilently(p)
        BY <3>3 DEF SetRootStatus, LoadRootFails, DeleteSessions, DeleteFailsSilently,
                    AfterRoot, Answer, artifacts, history, Fresh
      <3> QED
        BY <1>3, <3>1, <3>2, <3>3 DEF Loud
    <2>2. \A q \in Tasks : Issuing(q)' => Issuing(q)
      BY <2>1, LoudOnward, IssuingFollows
    <2> QED
      BY <2>1, <2>2, OtherMail
  <1> QED
    BY <1>1, <1>2, <1>3

LEMMA MailInvHolds == Spec => []MailInv
  <1>1. Init => MailInv
    BY IdleOK DEF Init, MailInv, AtMostOne, Issuing, Fresh
  <1>2. TypeOK /\ MailInv /\ [Next]_vars => MailInv'
    <2> SUFFICES ASSUME TypeOK, MailInv, [Next]_vars PROVE MailInv'
      OBVIOUS
    <2>1. CASE Elsewhere \/ UNCHANGED vars
      <3>1. UNCHANGED <<raced, task>> /\ Fresh' \subseteq Fresh
        <4>1. CASE \E r \in RTokens : ResetTokenExpires(r)
          BY <4>1 DEF ResetTokenExpires, Fresh, TypeOK, history
        <4>2. CASE (\E s \in SessionIds : SessionEnds(s)) \/ ChallengeExpires \/ UNCHANGED vars
          BY <4>2 DEF SessionEnds, ChallengeExpires, vars, Fresh, history
        <4> QED
          BY <2>1, <4>1, <4>2 DEF Elsewhere
      <3> QED
        BY <3>1, OtherMail DEF Issuing
    <2>2. ASSUME NEW p \in Tasks, NEW k, NEW tok, NEW s, Arrives(p, k, tok, s) PROVE MailInv'
      <3>1. PICK t \in Task : Begun(p, k, tok, t)
        BY <2>2, StartBegins
      <3>2. UNCHANGED <<rtok, raced>> /\ k \in Kinds
        BY <2>2 DEF Arrives, Start, artifacts
      <3>3. t.pc # "issue" /\ task'[p] = t
        BY <3>1, <3>2 DEF Begun, FirstPc, Kinds
      <3>4. ASSUME NEW q \in Tasks, q # p PROVE task'[q].pc = task[q].pc
        <4>1. \/ task'[q] = task[q]
              \/ task'[q] = [task[q] EXCEPT !.barred = FALSE, !.solo = FALSE]
          BY <3>1, <3>4 DEF Begun
        <4> QED
          BY <4>1 DEF TypeOK, Task
      <3>5. \A q \in Tasks : Issuing(q)' => Issuing(q)
        BY <3>3, <3>4 DEF Issuing
      <3> QED
        BY <3>2, <3>5, OtherMail DEF Fresh
    <2> QED
      BY <2>1, <2>2, QuietMail, LoudMail, NextIs
  <1>3. ResetInv => TypeOK
    BY DEF ResetInv
  <1> QED
    BY <1>1, <1>2, <1>3, ResetInvHolds, PTL DEF Spec

----------------------------------------------------------------------------
(* Suspended accounts.                                                     *)

\* A handler's step that leaves the root alone.
LEMMA OnwardBarred ==
  ASSUME TypeOK, BarredInv, NEW p \in Tasks, NEW t \in Task, StageOK(task[p]),
         Onward(p, t), UNCHANGED <<root, created>>
  PROVE  BarredInv'
  <1>1. task'[p] = t /\ \A q \in Tasks : q # p => task'[q] = task[q]
    BY DEF Onward, TypeOK
  <1>2. /\ t.pc # "idle" => t.kind = task[p].kind
        /\ task[p].pc # "idle"
        /\ t.barred => task[p].barred
    BY IdleOK DEF Onward, Carries, ClaimsToken
  <1>3. StatusChanging' => StatusChanging
    BY <1>1, <1>2 DEF StatusChanging
  <1>4. ASSUME t.barred, t.kind \in {"login", "mfa", "oauth"}
        PROVE  t.pc \notin {"mfa", "touch", "session"}
    <2>1. t # IdleTask /\ ~ClaimsToken(p, t)
      BY <1>4, IdleOK DEF ClaimsToken
    <2>2. Carries(task[p], t) /\ Follows(task[p], t.pc)
      BY <2>1 DEF Onward
    <2>3. task[p].barred /\ task[p].kind = t.kind
      BY <1>4, <2>2 DEF Carries
    <2>4. root = "suspended" /\ task[p].pc \notin {"mfa", "touch", "session"}
      BY <1>4, <2>3 DEF BarredInv
    <2>5. t.pc \in {"mfa", "touch", "session"} =>
            task[p].pc = "readback" /\ task[p].kind # "oauth"
      BY <2>2, <2>4 DEF Follows
    <2> QED
      BY <1>4, <2>3, <2>5 DEF StageOK
  <1>5. \A q \in Tasks : task'[q].barred =>
          /\ root' = "suspended" /\ ~StatusChanging'
          /\ ~(/\ task'[q].kind \in {"login", "mfa", "oauth"}
               /\ task'[q].pc \in {"mfa", "touch", "session"})
    BY <1>1, <1>2, <1>3, <1>4 DEF BarredInv
  <1>6. ~created' => root' = "active" /\ ~StatusChanging'
    BY <1>3 DEF BarredInv
  <1> QED
    BY <1>5, <1>6 DEF BarredInv, StatusChanging

\* A step that may change the root is one at which nobody counts as barred.
LEMMA RootBarred ==
  ASSUME TypeOK, NEW p \in Tasks, NEW t \in Task, Onward(p, t), created',
         \A q \in Tasks : ~task[q].barred
  PROVE  BarredInv'
  <1>1. \A q \in Tasks : ~task'[q].barred
    BY IdleOK DEF Onward, TypeOK, Carries, ClaimsToken
  <1> QED
    BY <1>1 DEF BarredInv

LEMMA StepBarred ==
  ASSUME TypeOK, BarredInv, NEW p \in Tasks, StageOK(task[p]), Quiet(p) \/ Loud(p)
  PROVE  BarredInv'
  <1>1. PICK t \in Task : Onward(p, t)
    BY QuietOnward, LoudOnward
  <1>2. CASE Quiet(p)
    <2>1. UNCHANGED <<root, created>>
      BY <1>2 DEF Quiet, CheckEmail, ResolveBinding, ReadBack, Finds, LoginFindsUser,
             MfaFindsUser, InitFindsUser, MembershipFindsUser, ForgotFindsUser,
             ResetFindsUser, ResendFindsUser, Find, CheckPassword, CheckNoPassword,
             LoginGate, MfaGate, OauthGate, Gate, CheckMfa, TouchLastLogin,
             ClaimVerification, WriteRow, ReplaceVerificationToken, SetRowStatus,
             RevokePassword, Fail, identity
    <2> QED
      BY <1>1, <2>1, OnwardBarred
  <1>3. CASE CreateAggregate(p)
    <2>1. CASE created
      BY <1>1, <1>3, <2>1, OnwardBarred DEF CreateAggregate, identity
    <2>2. CASE ~created
      BY <1>1, <1>3, <2>2, RootBarred DEF CreateAggregate, BarredInv
    <2> QED
      BY <2>1, <2>2
  <1>4. CASE SetRootStatus(p)
    <2>1. task[p].pc = "root" /\ task[p].kind = "status" /\ UNCHANGED created
      BY <1>4 DEF SetRootStatus, StageOK, identity
    <2>2. StatusChanging
      BY <2>1 DEF StatusChanging
    <2> QED
      BY <1>1, <2>1, <2>2, RootBarred DEF BarredInv
  <1>5. CASE \/ CreateSession(p) \/ ClaimReset(p) \/ SetPassword(p)
             \/ InvalidateResetTokens(p) \/ IssueResetToken(p) \/ LoadRootFails(p)
             \/ DeleteSessions(p) \/ DeleteFailsSilently(p)
    <2>1. UNCHANGED <<root, created>>
      BY <1>5 DEF CreateSession, ClaimReset, SetPassword, InvalidateResetTokens,
                  IssueResetToken, LoadRootFails, DeleteSessions, DeleteFailsSilently, identity
    <2> QED
      BY <1>1, <2>1, OnwardBarred
  <1> QED
    BY <1>2, <1>3, <1>4, <1>5 DEF Loud

LEMMA StartBarred ==
  ASSUME TypeOK, BarredInv, NEW p \in Tasks, NEW k, NEW tok, NEW s, Arrives(p, k, tok, s)
  PROVE  BarredInv'
  <1>1. PICK t \in Task : Begun(p, k, tok, t)
    BY StartBegins
  <1>2. UNCHANGED <<root, created>> /\ k \in Kinds /\ (k = "status" => created)
    BY DEF Arrives, Start, MayStart, identity
  <1>3. /\ task'[p] = t /\ t.kind = k /\ t.pc \notin {"mfa", "touch", "session"}
        /\ t.barred => root = "suspended" /\ ~StatusChanging /\ k # "status"
    BY <1>1, <1>2 DEF Begun, FirstPc, Kinds
  <1>4. ASSUME NEW q \in Tasks, q # p
        PROVE  /\ task'[q].pc = task[q].pc /\ task'[q].kind = task[q].kind
               /\ task'[q].barred => task[q].barred /\ k # "status"
    <2>1. \/ k # "status" /\ task'[q] = task[q]
          \/ k = "status" /\ task'[q] = [task[q] EXCEPT !.barred = FALSE, !.solo = FALSE]
      BY <1>1, <1>4 DEF Begun
    <2> QED
      BY <2>1 DEF TypeOK, Task
  <1>5. StatusChanging' => StatusChanging \/ k = "status"
    BY <1>3, <1>4 DEF StatusChanging
  <1>6. ASSUME NEW q \in Tasks, task'[q].barred
        PROVE  /\ root' = "suspended" /\ ~StatusChanging'
               /\ ~(/\ task'[q].kind \in {"login", "mfa", "oauth"}
                    /\ task'[q].pc \in {"mfa", "touch", "session"})
    <2>1. CASE q = p
      BY <1>2, <1>3, <1>5, <1>6, <2>1
    <2>2. CASE q # p
      BY <1>2, <1>4, <1>5, <1>6, <2>2 DEF BarredInv
    <2> QED
      BY <2>1, <2>2
  <1>7. ~created' => root' = "active" /\ ~StatusChanging'
    BY <1>2, <1>5 DEF BarredInv
  <1> QED
    BY <1>6, <1>7 DEF BarredInv, StatusChanging

LEMMA BarredInvHolds == Spec => []BarredInv
  <1>1. Init => BarredInv
    BY IdleOK DEF Init, BarredInv, StatusChanging
  <1>2. ResetInv /\ BarredInv /\ [Next]_vars => BarredInv'
    <2> SUFFICES ASSUME ResetInv, BarredInv, [Next]_vars PROVE BarredInv'
      OBVIOUS
    <2>1. TypeOK /\ \A p \in Tasks : StageOK(task[p])
      BY DEF ResetInv, HandlerOK
    <2>2. CASE Elsewhere \/ UNCHANGED vars
      <3>1. UNCHANGED <<root, created, task>>
        BY <2>2 DEF Elsewhere, SessionEnds, ResetTokenExpires, ChallengeExpires, vars, identity
      <3> QED
        BY <3>1 DEF BarredInv, StatusChanging
    <2>3. ASSUME NEW p \in Tasks, Quiet(p) \/ Loud(p) PROVE BarredInv'
      BY <2>1, <2>3, StepBarred
    <2>4. ASSUME NEW p \in Tasks, NEW k, NEW tok, NEW s, Arrives(p, k, tok, s) PROVE BarredInv'
      BY <2>1, <2>4, StartBarred
    <2> QED
      BY <2>2, <2>3, <2>4, NextIs
  <1> QED
    BY <1>1, <1>2, ResetInvHolds, PTL DEF Spec

----------------------------------------------------------------------------
(* The theorems.                                                           *)

\* The rows of the account and the handlers in flight are always of their
\* types, whatever copies of the row are written back.
THEOREM TypeCorrect == Spec => []TypeOK
  <1>1. ResetInv => TypeOK
    BY DEF ResetInv
  <1> QED
    BY <1>1, ResetInvHolds, PTL

\* However many requests present one reset token, it sets the password once at
\* most: the conditional UPDATE at the head of reset_password lets one through.
THEOREM ResetTokenOnceHolds == Spec => []ResetTokenOnce
  <1>1. ResetInv => ResetTokenOnce
    BY DEF ResetInv, ChangesOK, ResetTokenOnce
  <1> QED
    BY <1>1, ResetInvHolds, PTL

\* A reset that is answered with success has ended every session that was live
\* when it claimed its token, whatever else runs and fails
\* (delete_sessions_by_user_id at the end of reset_password).
THEOREM ResetEndsSessionsHolds == Spec => []ResetEndsSessions
  <1>1. ResetInv => ResetEndsSessions
    BY DEF ResetInv, VoidOK, ResetEndsSessions
  <1> QED
    BY <1>1, ResetInvHolds, PTL

\* And has voided every reset token that was usable then
\* (invalidate_password_reset_tokens).
THEOREM ResetVoidsTokensHolds == Spec => []ResetVoidsTokens
  <1>1. ResetInv => ResetVoidsTokens
    BY DEF ResetInv, VoidOK, ResetVoidsTokens
  <1> QED
    BY <1>1, ResetInvHolds, PTL

\* Two reset tokens are usable at once only after two requests for a mail had
\* both voided the old tokens before either stored its own
\* (request_password_reset).
THEOREM NewestMailOnlyHolds == Spec => []NewestMailOnly
  <1>1. MailInv => NewestMailOnly
    BY AtMostOneCounts DEF MailInv, NewestMailOnly
  <1> QED
    BY <1>1, MailInvHolds, PTL

\* No password, MFA or OAuth login that starts on a suspended root, with no
\* status change under way, reaches the creation of a session: authenticable_actor
\* asks the root on each of these paths, and no write-back of the row undoes it.
THEOREM SuspendedGetsNoSessionHolds == Spec => []SuspendedGetsNoSession
  <1>1. BarredInv => SuspendedGetsNoSession
    BY DEF BarredInv, SuspendedGetsNoSession
  <1> QED
    BY <1>1, BarredInvHolds, PTL

----------------------------------------------------------------------------
(* A reset token is a credential for one use.                              *)

\* What the invariant says of a token by where it is in its life.
LEMMA LifeIs ==
  ASSUME ResetInv, NEW r \in RTokens
  PROVE  /\ changes[r] \in {0, 1}
         /\ InClaim(r) => rtok[r] = "used" /\ changes[r] = 0
         /\ rtok[r] \in {"unissued", "fresh", "used", "expired"}
  BY DEF ResetInv, TypeOK, ChangesOK, HandlerOK, ClaimOK, InClaim

\* The table of reset tokens stays as it is, or loses usable ones.
Shuts ==
  \A r \in RTokens : \/ rtok'[r] = rtok[r]
                     \/ rtok[r] = "fresh" /\ rtok'[r] \in {"used", "expired"}

\* A step that issues no token, claims none and sets no password can only void
\* tokens and give up claims.
LEMMA ClosesRefines ==
  ASSUME ResetInv, UNCHANGED changes, Shuts,
         \A q \in Tasks : Claimed(task[q])' =>
           Claimed(task[q]) /\ task'[q].token = task[q].token
  PROVE  Reset!Next
  <1>1. \A r \in RTokens : InClaim(r)' => InClaim(r)
    BY DEF InClaim
  <1> DEFINE S == {r \in RTokens : /\ ResetLife(r) \in {"open", "claimed"}
                                  /\ ResetLife(r)' # ResetLife(r)}
  <1>2. \A r \in RTokens : ResetLife(r)' = IF r \in S THEN "closed" ELSE ResetLife(r)
    BY <1>1, LifeIs DEF ResetLife, Shuts
  <1>3. S \in SUBSET RTokens /\ \A r \in S : ResetLife(r) \in {"open", "claimed"}
    OBVIOUS
  <1> HIDE DEF S
  <1>4. Reset!Close(S)
    BY <1>2, <1>3 DEF Reset!Close
  <1> QED
    BY <1>3, <1>4 DEF Reset!Next

\* A handler that goes on claims nothing, unless its statement is the claim.
LEMMA OnwardClaims ==
  ASSUME ResetInv, NEW p \in Tasks, NEW t \in Task, Onward(p, t), ~ClaimsToken(p, t)
  PROVE  \A q \in Tasks : Claimed(task[q])' =>
           Claimed(task[q]) /\ task'[q].token = task[q].token
  <1>1. task'[p] = t /\ \A q \in Tasks : q # p => task'[q] = task[q]
    BY DEF Onward, ResetInv, TypeOK
  <1>2. Claimed(t) => Claimed(task[p]) /\ t.token = task[p].token
    BY IdleOK DEF Onward, Claimed, Carries, Follows, ResetInv, HandlerOK, StageOK
  <1> QED
    BY <1>1, <1>2 DEF Claimed

\* The steps of a handler that neither issue, nor claim, nor use a reset token.
LEMMA PlainRefines ==
  ASSUME ResetInv, NEW p \in Tasks, Quiet(p) \/ Loud(p),
         ~IssueResetToken(p), UNCHANGED changes,
         ClaimReset(p) => UNCHANGED rtok
  PROVE  Reset!Next
  <1>1. PICK t \in Task : Onward(p, t)
    BY QuietOnward, LoudOnward DEF ResetInv
  <1>2. Shuts /\ (task[p].pc = "claim" => UNCHANGED rtok)
    <2>1. CASE Quiet(p)
      <3>1. UNCHANGED rtok
        BY <2>1 DEF Quiet, CheckEmail, ResolveBinding, ReadBack, Finds, LoginFindsUser,
           MfaFindsUser, InitFindsUser, MembershipFindsUser, ForgotFindsUser,
           ResetFindsUser, ResendFindsUser, Find, CheckPassword, CheckNoPassword,
           LoginGate, MfaGate, OauthGate, Gate, CheckMfa, TouchLastLogin,
           ClaimVerification, WriteRow, ReplaceVerificationToken, SetRowStatus,
           RevokePassword, Fail, artifacts
      <3> QED
        BY <3>1 DEF Shuts
    <2>2. CASE Loud(p) /\ ~InvalidateResetTokens(p)
      <3>1. UNCHANGED rtok
        BY <2>2 DEF Loud, CreateAggregate, CreateSession, SetPassword, SetRootStatus,
           LoadRootFails, DeleteSessions, DeleteFailsSilently, artifacts
      <3> QED
        BY <3>1 DEF Shuts
    <2>3. CASE InvalidateResetTokens(p)
      BY <2>3 DEF InvalidateResetTokens, Shuts
    <2> QED
      BY <2>1, <2>2, <2>3
  <1>3. CASE ~ClaimsToken(p, t)
    BY <1>1, <1>2, <1>3, OnwardClaims, ClosesRefines
  <1>4. CASE ClaimsToken(p, t)
    <2>1. /\ task[p].pc = "claim" /\ t.token \in RTokens
          /\ rtok[t.token] = "fresh" /\ rtok'[t.token] = "used"
      BY <1>4 DEF ClaimsToken, ResetInv, HandlerOK, StageOK, TypeOK
    <2> QED
      BY <1>2, <2>1
  <1> QED
    BY <1>3, <1>4

\* The conditional UPDATE of reset_password claims a usable token.
LEMMA ClaimRefines ==
  ASSUME ResetInv, NEW p \in Tasks, ClaimReset(p), rtok[task[p].token] = "fresh"
  PROVE  Reset!Next
  <1>1. PICK r : r = task[p].token
    OBVIOUS
  <1>2. /\ r \in RTokens /\ rtok[r] = "fresh" /\ rtok' = [rtok EXCEPT ![r] = "used"]
        /\ UNCHANGED changes /\ task[p].kind = "reset" /\ task[p].pc = "claim"
        /\ task' = [task EXCEPT ![p] =
             [@ EXCEPT !.pc = "find", !.oldSessions = Live, !.oldTokens = Fresh]]
    BY <1>1 DEF ClaimReset, ResetInv, HandlerOK, StageOK, history
  <1>3. PICK t : t.kind = "reset" /\ t.pc = "find" /\ t.token = r
                   /\ task' = [task EXCEPT ![p] = t]
    <2>1. task[p] \in Task
      BY DEF ResetInv, TypeOK
    <2> DEFINE t == [task[p] EXCEPT !.pc = "find", !.oldSessions = Live, !.oldTokens = Fresh]
    <2>2. t.kind = "reset" /\ t.pc = "find" /\ t.token = r
      BY <1>1, <1>2, <2>1 DEF Task
    <2>3. task' = [task EXCEPT ![p] = t]
      BY <1>2
    <2> QED
      BY <2>2, <2>3
  <1>4. task'[p] = t /\ \A q \in Tasks : q # p => task'[q] = task[q]
    BY <1>3 DEF ResetInv, TypeOK
  <1>5. InClaim(r)' /\ \A x \in RTokens : x # r => (InClaim(x)' <=> InClaim(x))
    BY <1>2, <1>3, <1>4 DEF InClaim, Claimed
  <1>6. ~InClaim(r) /\ changes[r] = 0
    BY <1>2, LifeIs DEF ResetInv, ChangesOK
  <1>7. \A x \in RTokens : x # r => rtok'[x] = rtok[x]
    BY <1>2 DEF ResetInv, TypeOK
  <1>8. ResetLife(r) = "open" /\ ResetLife(r)' = "claimed"
    BY <1>2, <1>5, <1>6 DEF ResetLife
  <1>9. \A x \in RTokens : x # r => ResetLife(x)' = ResetLife(x)
    BY <1>2, <1>5, <1>7 DEF ResetLife
  <1>10. Reset!Claim(r)
    BY <1>2, <1>8, <1>9 DEF Reset!Claim
  <1> QED
    BY <1>2, <1>10 DEF Reset!Next

\* request_password_reset stores a token that was never used.
LEMMA IssueRefines ==
  ASSUME ResetInv, NEW p \in Tasks, IssueResetToken(p)
  PROVE  Reset!Next
  <1>1. PICK r \in RTokens : rtok[r] = "unissued" /\ rtok' = [rtok EXCEPT ![r] = "fresh"]
    BY DEF IssueResetToken
  <1>2. UNCHANGED changes /\ task[p].pc = "issue" /\ End(p)
    BY DEF IssueResetToken, history
  <1>3. \A q \in Tasks : task'[q] = IF q = p THEN IdleTask ELSE task[q]
    BY <1>2 DEF End, ResetInv, TypeOK
  <1>4. \A x \in RTokens : InClaim(x)' <=> InClaim(x)
    BY <1>2, <1>3, IdleOK DEF InClaim, Claimed
  <1>5. ~InClaim(r) /\ changes[r] = 0
    BY <1>1, LifeIs DEF ResetInv, ChangesOK
  <1>6. rtok'[r] = "fresh" /\ \A x \in RTokens : x # r => rtok'[x] = rtok[x]
    BY <1>1 DEF ResetInv, TypeOK
  <1>7. ResetLife(r) = "unissued" /\ ResetLife(r)' = "open"
    BY <1>1, <1>2, <1>4, <1>5, <1>6 DEF ResetLife
  <1>8. \A x \in RTokens : x # r => ResetLife(x)' = ResetLife(x)
    BY <1>2, <1>4, <1>6 DEF ResetLife
  <1>9. Reset!Issue(r)
    BY <1>2, <1>7, <1>8 DEF Reset!Issue
  <1> QED
    BY <1>9 DEF Reset!Next

\* set_password finishes with the token its handler has claimed.
LEMMA UseRefines ==
  ASSUME ResetInv, NEW p \in Tasks, SetPassword(p), task[p].kind = "reset"
  PROVE  Reset!Next
  <1>1. PICK r : r = task[p].token
    OBVIOUS
  <1>2. /\ r \in RTokens /\ Claimed(task[p]) /\ UNCHANGED rtok
        /\ changes' = [changes EXCEPT ![r] = OneMore(@)]
    BY <1>1 DEF SetPassword, ResetInv, HandlerOK, StageOK, Claimed, artifacts
  <1>3. InClaim(r) /\ changes[r] = 0
    BY <1>1, <1>2, LifeIs DEF InClaim
  <1>4. changes'[r] = 1 /\ \A x \in RTokens : x # r => changes'[x] = changes[x]
    BY <1>2, <1>3 DEF OneMore, ResetInv, TypeOK
  <1>5. \A q \in Tasks : q # p => task'[q] = task[q]
    BY DEF SetPassword, Goto, ResetInv, TypeOK
  <1>6. ~Claimed(task[p])' /\ \A q \in Tasks : task[q].token = r /\ Claimed(task[q]) => q = p
    <2>1. task'[p].pc = "write"
      BY DEF SetPassword, Goto, ResetInv, TypeOK, Task
    <2> QED
      BY <1>1, <1>2, <2>1 DEF Claimed, ResetInv, OneClaim
  <1>7. \A x \in RTokens : x # r => (InClaim(x)' <=> InClaim(x))
    BY <1>1, <1>5, <1>6 DEF InClaim, Claimed
  <1>8. ResetLife(r) = "claimed" /\ ResetLife(r)' = "done"
    BY <1>3, <1>4 DEF ResetLife
  <1>9. \A x \in RTokens : x # r => ResetLife(x)' = ResetLife(x)
    BY <1>2, <1>4, <1>7 DEF ResetLife
  <1>10. 1..changes'[r] = {1} /\ \A x \in RTokens : x # r => 1..changes'[x] = 1..changes[x]
    BY <1>4
  <1>11. Reset!Finish(r)
    BY <1>2, <1>8, <1>9, <1>10 DEF Reset!Finish
  <1> QED
    BY <1>2, <1>11 DEF Reset!Next

\* A request that arrives claims nothing yet.
LEMMA StartRefines ==
  ASSUME ResetInv, NEW p \in Tasks, NEW k, NEW tok, NEW s, Arrives(p, k, tok, s)
  PROVE  Reset!Next
  <1>1. PICK t \in Task : Begun(p, k, tok, t)
    BY StartBegins DEF ResetInv
  <1>2. UNCHANGED <<rtok, changes>> /\ k \in Kinds
    BY DEF Arrives, Start, artifacts
  <1>3. ~Claimed(t)
    BY <1>1, <1>2 DEF Begun, FirstPc, Claimed, Kinds
  <1>4. ASSUME NEW q \in Tasks, q # p PROVE Like(task'[q], task[q])
    <2>1. /\ task[q] \in Task
          /\ \/ task'[q] = task[q]
             \/ task'[q] = [task[q] EXCEPT !.barred = FALSE, !.solo = FALSE]
      BY <1>1, <1>4 DEF Begun, ResetInv, TypeOK
    <2> QED
      BY <2>1 DEF Like, Task
  <1>5. \A q \in Tasks : Claimed(task[q])' =>
          Claimed(task[q]) /\ task'[q].token = task[q].token
    BY <1>1, <1>3, <1>4 DEF Begun, Claimed, Like
  <1> QED
    BY <1>2, <1>5, ClosesRefines DEF Shuts

LEMMA StepRefines == ResetInv /\ [Next]_vars => [Reset!Next]_(Reset!lifeVars)
  <1> SUFFICES ASSUME ResetInv, [Next]_vars PROVE [Reset!Next]_(Reset!lifeVars)
    OBVIOUS
  <1>1. CASE UNCHANGED vars
    BY <1>1 DEF vars, Reset!lifeVars, ResetLife, InClaim, Claimed
  <1>2. CASE Elsewhere
    <2>1. UNCHANGED <<task, changes>> /\ Shuts
      BY <1>2 DEF Elsewhere, SessionEnds, ResetTokenExpires, ChallengeExpires, history,
                  Shuts, ResetInv, TypeOK
    <2> QED
      BY <2>1, ClosesRefines DEF Claimed
  <1>3. ASSUME NEW p \in Tasks, NEW k, NEW tok, NEW s, Arrives(p, k, tok, s)
        PROVE  Reset!Next
    BY <1>3, StartRefines
  <1>4. ASSUME NEW p \in Tasks, Quiet(p) \/ Loud(p) PROVE Reset!Next
    <2>1. CASE UNCHANGED changes /\ (ClaimReset(p) => UNCHANGED rtok)
      BY <1>4, <2>1, PlainRefines, IssueRefines
    <2>2. CASE ClaimReset(p) /\ rtok' # rtok
      BY <2>2, ClaimRefines DEF ClaimReset
    <2>3. CASE SetPassword(p) /\ changes' # changes
      BY <2>3, UseRefines DEF SetPassword
    <2>4. SetPassword(p) \/ UNCHANGED changes
      BY <1>4 DEF Quiet, CheckEmail, ResolveBinding, ReadBack, Finds, LoginFindsUser,
         MfaFindsUser, InitFindsUser, MembershipFindsUser, ForgotFindsUser, ResetFindsUser,
         ResendFindsUser, Find, CheckPassword, CheckNoPassword, LoginGate, MfaGate,
         OauthGate, Gate, CheckMfa, TouchLastLogin, ClaimVerification, WriteRow,
         ReplaceVerificationToken, SetRowStatus, RevokePassword, Fail, history, Loud,
         CreateAggregate, CreateSession, ClaimReset, InvalidateResetTokens, IssueResetToken,
         SetRootStatus, LoadRootFails, AfterRoot, Answer, DeleteSessions, DeleteFailsSilently
    <2>5. SetPassword(p) => ~ClaimReset(p)
      BY DEF SetPassword, ClaimReset
    <2> QED
      BY <2>1, <2>2, <2>3, <2>4, <2>5
  <1> QED
    BY <1>1, <1>2, <1>3, <1>4, NextIs

\* A reset token is claimed once, by the UPDATE that found it usable, and sets
\* the password once or never, however requests interleave, fail or stop.
THEOREM ImplementsOneTimeHolds == Spec => ImplementsOneTime
  <1>1. Init => Reset!Init
    <2> SUFFICES ASSUME Init PROVE Reset!Init
      OBVIOUS
    <2>1. \A r \in RTokens : changes[r] = 0 /\ rtok[r] = "unissued" /\ 1..changes[r] = {}
      BY DEF Init
    <2>2. \A r \in RTokens : ~InClaim(r)
      BY IdleOK DEF Init, InClaim, Claimed
    <2> QED
      BY <2>1, <2>2 DEF Reset!Init, ResetLife
  <1> QED
    BY <1>1, StepRefines, ResetInvHolds, PTL DEF Spec, ImplementsOneTime, Reset!Spec
=============================================================================
