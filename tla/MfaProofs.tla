----------------------------- MODULE MfaProofs -----------------------------
(***************************************************************************)
(* Proofs about Mfa, for every set of secrets, backup codes and handlers   *)
(* and for every bound on the clock.                                       *)
(***************************************************************************)
EXTENDS Mfa, TLAPS

(***************************************************************************)
(* Typing.  TypeOK alone is not inductive: AcceptCode and ConsumeBackup-   *)
(* Code use the code of the handler as a TOTP code and as a backup code,   *)
(* which is what it is because of the steps that led there.                *)
(***************************************************************************)

\* A handler that is about to accept a code has a TOTP code, and it is on its
\* way there from reading only if it was given one.
CodeFits ==
  \A p \in Tasks :
    /\ task[p].pc = "read" /\ task[p].kind \in {"enable", "verify", "disable"}
         => task[p].code \in TotpCodes
    /\ task[p].pc = "accept" => task[p].code \in TotpCodes

TypeInv == TypeOK /\ CodeFits

\* An idle handler, and one that moves to its next step, have their type.
LEMMA TaskTypes ==
  /\ IdleTask \in Task
  /\ \A t \in Task, x \in {"idle", "read", "save", "accept", "consume",
                           "reread", "delete"} : [t EXCEPT !.pc = x] \in Task
  /\ \A t \in Task, s \in Secrets \cup {NoSecret} :
       [t EXCEPT !.pc = "accept", !.secret = s] \in Task
  /\ \A t \in Task : [t EXCEPT !.pc = "save", !.late = TRUE] \in Task
  /\ \A t \in Task, b \in BOOLEAN : [t EXCEPT !.late = b] \in Task
  BY DEF IdleTask, Task, Kinds

\* A code that Start admits for a TOTP handler is a TOTP code.
LEMMA StartCode ==
  ASSUME TypeOK, NEW c, c \in shown \X (1..(now + 1))
  PROVE  c \in TotpCodes
  BY MfaAssumption DEF TypeOK, TotpCodes, Steps

\* Ending a handler and sending it on keep the types and the codes.
LEMMA MoveKeeps ==
  ASSUME TypeInv, NEW p \in Tasks,
         \/ End(p)
         \/ \E x \in {"save", "consume", "reread", "delete"} : Goto(p, x)
  PROVE  task' \in [Tasks -> Task] /\ CodeFits'
  <1>1. task \in [Tasks -> Task]
    BY DEF TypeInv, TypeOK
  <1>2. CASE End(p)
    BY <1>1, <1>2, TaskTypes DEF End, CodeFits, TypeInv, IdleTask
  <1>3. ASSUME NEW x \in {"save", "consume", "reread", "delete"}, Goto(p, x)
        PROVE  task' \in [Tasks -> Task] /\ CodeFits'
    <2>1. task' = [task EXCEPT ![p] = [task[p] EXCEPT !.pc = x]]
      BY <1>3 DEF Goto
    <2>2. [task[p] EXCEPT !.pc = x] \in Task
      BY <1>1, TaskTypes
    <2>3. task'[p].pc = x /\ \A q \in Tasks : q # p => task'[q] = task[q]
      BY <1>1, <2>1 DEF Task
    <2> QED
      BY <1>1, <1>3, <2>1, <2>2, <2>3 DEF CodeFits, TypeInv
  <1> QED
    BY <1>2, <1>3

\* So do the writes that overtake other handlers.
LEMMA OvertakeKeeps ==
  ASSUME TypeInv, NEW p \in Tasks, NEW t \in Task, t.pc \in {"idle", "reread"},
         NEW s, NEW enabled \in BOOLEAN, Overtakes(p, t, s, enabled)
  PROVE  task' \in [Tasks -> Task] /\ CodeFits'
  <1>1. task \in [Tasks -> Task]
    BY DEF TypeInv, TypeOK
  <1>2. ASSUME NEW q \in Tasks, q # p
        PROVE  /\ task'[q] \in Task
               /\ task'[q].pc = task[q].pc /\ task'[q].kind = task[q].kind
               /\ task'[q].code = task[q].code
    <2> DEFINE b == \/ task[q].late
                    \/ task[q].pc = "save" /\ enabled
                    \/ task[q].pc \in {"accept", "reread", "delete"} /\ s # rec.secret
    <2>1. b \in BOOLEAN /\ task[q] \in Task
      BY <1>1 DEF Task
    <2>2. task'[q] = [task[q] EXCEPT !.late = b]
      BY <1>2 DEF Overtakes
    <2>3. [task[q] EXCEPT !.late = b] \in Task
      BY <2>1, TaskTypes
    <2>4. \A x \in BOOLEAN, u \in Task : LET w == [u EXCEPT !.late = x] IN
            w.pc = u.pc /\ w.kind = u.kind /\ w.code = u.code
      BY DEF Task
    <2> HIDE DEF b
    <2> QED
      BY <2>1, <2>2, <2>3, <2>4
  <1>3. task'[p] = t /\ DOMAIN task' = Tasks /\ task' = [q \in Tasks |-> task'[q]]
    BY DEF Overtakes
  <1>4. task' \in [Tasks -> Task]
    BY <1>2, <1>3
  <1> QED
    BY <1>2, <1>3, <1>4 DEF CodeFits, TypeInv

\* Reading the record and comparing the code leads to a TOTP code.
LEMMA MatchKeeps ==
  ASSUME TypeInv, NEW p \in Tasks, NEW status,
         task[p].kind \in {"enable", "verify", "disable"},
         ReadsAndMatches(p, status)
  PROVE  task' \in [Tasks -> Task] /\ CodeFits'
  <1>1. task \in [Tasks -> Task] /\ rec.secret \in Secrets \cup {NoSecret}
    BY DEF TypeInv, TypeOK, Record
  <1>2. task[p].code \in TotpCodes
    BY DEF ReadsAndMatches, CodeFits, TypeInv
  <1>3. CASE task' = [task EXCEPT ![p] = [@ EXCEPT !.pc = "accept",
                                                   !.secret = rec.secret]]
    <2>1. [task[p] EXCEPT !.pc = "accept", !.secret = rec.secret] \in Task
      BY <1>1, TaskTypes
    <2>2. task'[p].code = task[p].code
      BY <1>1, <1>3 DEF Task
    <2>3. task'[p].pc = "accept" /\ \A q \in Tasks : q # p => task'[q] = task[q]
      BY <1>1, <1>3 DEF Task
    <2> QED
      BY <1>1, <1>2, <1>3, <2>1, <2>2, <2>3 DEF CodeFits, TypeInv
  <1> QED
    BY <1>3, MoveKeeps DEF ReadsAndMatches

\* Every step keeps the types.
LEMMA TypeStep == TypeInv /\ [Next]_vars => TypeInv'
  <1> SUFFICES ASSUME TypeInv, [Next]_vars
               PROVE  TypeInv'
    OBVIOUS
  <1> USE DEF history
  <1>0. TypeOK /\ task \in [Tasks -> Task]
    BY DEF TypeInv, TypeOK
  <1>1. ASSUME NEW p \in Tasks, NEW k \in Kinds,
               NEW c \in TotpCodes \cup RecoveryCodes \cup {<<>>}, Start(p, k, c)
        PROVE  TypeInv'
    <2> DEFINE new == [pc |-> "read", kind |-> k, code |-> c, secret |-> NoSecret,
                       late |-> FALSE]
    <2>1. new \in Task
      BY DEF Task
    <2>2. k \in {"enable", "verify", "disable"} => c \in TotpCodes
      BY <1>0, <1>1, StartCode DEF Start
    <2>3. task' = [task EXCEPT ![p] = new]
      BY <1>1 DEF Start
    <2>4. CodeFits'
      BY <1>0, <2>2, <2>3 DEF CodeFits, TypeInv
    <2> QED
      BY <1>0, <1>1, <2>1, <2>3, <2>4 DEF Start, TypeInv, TypeOK
  <1>2. ASSUME NEW p \in Tasks, SetupReads(p)
        PROVE  TypeInv'
    BY <1>0, <1>2, MoveKeeps DEF SetupReads, TypeInv, TypeOK
  <1>3. ASSUME NEW p \in Tasks, SaveRecord(p)
        PROVE  TypeInv'
    <2>1. PICK s \in Secrets \ shown :
            /\ rec' = NewRecord(s)
            /\ shown' = shown \cup {s}
            /\ Overtakes(p, IdleTask, s, FALSE)
      BY <1>3 DEF SaveRecord
    <2>2. rec' \in Record
      BY <2>1 DEF NewRecord, Record, RecoveryCodes
    <2>3. task' \in [Tasks -> Task] /\ CodeFits'
      BY <2>1, TaskTypes, OvertakeKeeps DEF IdleTask
    <2> QED
      BY <1>0, <1>3, <2>1, <2>2, <2>3 DEF SaveRecord, TypeInv, TypeOK
  <1>4. ASSUME NEW p \in Tasks, EnableReads(p) \/ VerifyReads(p)
        PROVE  TypeInv'
    <2>1. task' \in [Tasks -> Task] /\ CodeFits'
      BY <1>4, MatchKeeps DEF EnableReads, VerifyReads
    <2> QED
      BY <1>0, <1>4, <2>1
      DEF EnableReads, VerifyReads, ReadsAndMatches, TypeInv, TypeOK
  <1>5. ASSUME NEW p \in Tasks, AcceptCode(p)
        PROVE  TypeInv'
    <2>1. task[p].code \in TotpCodes
      BY <1>5 DEF AcceptCode, CodeFits, TypeInv
    <2>2. task[p] \in Task /\ task[p].code[2] \in Steps
      BY <1>0, <2>1 DEF TotpCodes
    <2>3. task[p].secret \in Secrets \cup {NoSecret}
      BY <2>2 DEF Task
    <2>4. rec \in Record /\ accepted \in SUBSET TotpCodes /\ replayed \in BOOLEAN
      BY <1>0 DEF TypeOK
    <2>5. CASE WriteStep(p)
      <3> DEFINE t == IF task[p].kind = "disable"
                      THEN [task[p] EXCEPT !.pc = "reread"] ELSE IdleTask
      <3>1. t \in Task /\ t.pc \in {"idle", "reread"}
        BY <2>2, TaskTypes DEF IdleTask, Task
      <3>2. Overtakes(p, t, task[p].secret, task[p].kind = "enable")
        BY <2>5 DEF WriteStep
      <3>3. task' \in [Tasks -> Task] /\ CodeFits'
        BY <3>1, <3>2, OvertakeKeeps
      <3>4. rec' \in Record
        BY <2>2, <2>3, <2>4, <2>5 DEF WriteStep, Record
      <3>5. accepted' \in SUBSET TotpCodes /\ replayed' \in BOOLEAN
        BY <2>1, <2>4, <2>5 DEF WriteStep
      <3> QED
        BY <1>0, <1>5, <3>3, <3>4, <3>5 DEF AcceptCode, TypeInv, TypeOK
    <2>6. CASE End(p) /\ UNCHANGED <<rec, accepted, replayed>>
      BY <1>0, <1>5, <2>6, MoveKeeps DEF AcceptCode, TypeInv, TypeOK
    <2> QED
      BY <1>5, <2>5, <2>6 DEF AcceptCode
  <1>6. ASSUME NEW p \in Tasks, BackupReads(p)
        PROVE  TypeInv'
    BY <1>0, <1>6, MoveKeeps DEF BackupReads, TypeInv, TypeOK
  <1>7. ASSUME NEW p \in Tasks, ConsumeBackupCode(p)
        PROVE  TypeInv'
    <2>1. task' \in [Tasks -> Task] /\ CodeFits'
      BY <1>7, MoveKeeps DEF ConsumeBackupCode
    <2>2. rec \in Record /\ spent \in SUBSET RecoveryCodes /\ respent \in BOOLEAN
      BY <1>0 DEF TypeOK
    <2>3. rec' \in Record
      BY <1>7, <2>2 DEF ConsumeBackupCode, Record
    <2>4. spent' \in SUBSET RecoveryCodes
      BY <1>7, <2>2 DEF ConsumeBackupCode, Record
    <2>5. respent' \in BOOLEAN
      BY <1>7, <2>2 DEF ConsumeBackupCode
    <2> QED
      BY <1>0, <1>7, <2>1, <2>3, <2>4, <2>5
      DEF ConsumeBackupCode, TypeInv, TypeOK
  <1>8. ASSUME NEW p \in Tasks, DisableRereads(p)
        PROVE  TypeInv'
    BY <1>0, <1>8, MoveKeeps DEF DisableRereads, TypeInv, TypeOK
  <1>9. ASSUME NEW p \in Tasks, DeleteRecord(p)
        PROVE  TypeInv'
    BY <1>0, <1>9, MoveKeeps
    DEF DeleteRecord, NoRecord, Record, TypeInv, TypeOK
  <1>10. ASSUME NEW p \in Tasks, Fail(p)
         PROVE  TypeInv'
    BY <1>0, <1>10, MoveKeeps DEF Fail, TypeInv, TypeOK
  <1>11. CASE Tick
    BY <1>0, <1>11, MfaAssumption DEF Tick, TypeInv, TypeOK, CodeFits
  <1>12. CASE UNCHANGED vars
    BY <1>0, <1>12 DEF vars, TypeInv, TypeOK, CodeFits
  <1>13. ASSUME NEW p \in Tasks, SetupReadFails(p)
         PROVE  TypeInv'
    <2>1. task' = [task EXCEPT ![p] = [task[p] EXCEPT !.pc = "save", !.late = TRUE]]
      BY <1>0, <1>13 DEF SetupReadFails, Task
    <2>2. [task[p] EXCEPT !.pc = "save", !.late = TRUE] \in Task
      BY <1>0, TaskTypes
    <2>3. task'[p].pc = "save" /\ \A q \in Tasks : q # p => task'[q] = task[q]
      BY <1>0, <2>1 DEF Task
    <2> QED
      BY <1>0, <1>13, <2>1, <2>2, <2>3 DEF SetupReadFails, CodeFits, TypeInv, TypeOK
  <1> QED
    BY <1>13, <1>1, <1>2, <1>3, <1>4, <1>5, <1>6, <1>7, <1>8, <1>9, <1>10, <1>11, <1>12
    DEF Next

\* The typing invariant holds in every state.
LEMMA TypeInvHolds == Spec => []TypeInv
  <1>1. Init => TypeInv
    <2> SUFFICES ASSUME Init PROVE TypeInv
      OBVIOUS
    <2>1. task \in [Tasks -> Task]
      BY TaskTypes DEF Init
    <2>2. rec \in Record
      BY DEF Init, NoRecord, Record
    <2>3. CodeFits
      BY DEF Init, CodeFits, IdleTask
    <2>4. now \in 1..MaxStep
      BY MfaAssumption DEF Init
    <2>5. replayed \in BOOLEAN /\ respent \in BOOLEAN
      BY DEF Init
    <2> QED
      BY <2>1, <2>2, <2>3, <2>4, <2>5 DEF Init, TypeInv, TypeOK
  <1> QED
    BY <1>1, TypeStep, PTL DEF Spec

\* The types hold in every state of every behaviour of the second factor.
THEOREM TypeCorrect == Spec => []TypeOK
  <1>1. TypeInv => TypeOK
    BY DEF TypeInv
  <1> QED
    BY <1>1, TypeInvHolds, PTL

(***************************************************************************)
(* A backup code is accepted at most once.                                 *)
(***************************************************************************)

\* What was accepted is gone from the record, and cannot come back: an
\* enrolment makes codes of a secret that nobody was shown before.
Unspent ==
  /\ spent \cap rec.codes = {}
  /\ rec.codes \subseteq shown \X BackupCodes
  /\ spent \subseteq shown \X BackupCodes

BackupInv == Unspent /\ BackupCodeOnce

\* Every step keeps accepted backup codes out of the record.
LEMMA BackupStep == TypeOK /\ BackupInv /\ [Next]_vars => BackupInv'
  <1> SUFFICES ASSUME TypeOK, BackupInv, [Next]_vars
               PROVE  BackupInv'
    OBVIOUS
  <1> USE DEF history, BackupInv, BackupCodeOnce
  <1>0. rec \in Record
    BY DEF TypeOK
  <1>1. ASSUME NEW p \in Tasks, SaveRecord(p)
        PROVE  BackupInv'
    <2>1. PICK s \in Secrets \ shown :
            /\ rec' = NewRecord(s)
            /\ shown' = shown \cup {s}
      BY <1>1 DEF SaveRecord
    <2>2. rec'.codes = {s} \X BackupCodes
      BY <2>1 DEF NewRecord
    <2>3. spent \cap ({s} \X BackupCodes) = {}
      BY DEF Unspent
    <2>4. spent' = spent /\ respent' = respent
      BY <1>1 DEF SaveRecord
    <2>5. Unspent'
      BY <2>1, <2>2, <2>3, <2>4 DEF Unspent
    <2> QED
      BY <2>4, <2>5
  <1>2. ASSUME NEW p \in Tasks, AcceptCode(p)
        PROVE  BackupInv'
    <2>1. rec'.codes = rec.codes
      BY <1>0, <1>2 DEF AcceptCode, WriteStep, Record
    <2> QED
      BY <1>2, <2>1 DEF AcceptCode, Unspent
  <1>3. ASSUME NEW p \in Tasks, ConsumeBackupCode(p)
        PROVE  BackupInv'
    <2>1. CASE task[p].code \in rec.codes
      <3>1. rec'.codes = rec.codes \ {task[p].code}
        BY <1>0, <1>3, <2>1 DEF ConsumeBackupCode, Record
      <3>2. spent' = spent \cup {task[p].code} /\ shown' = shown
        BY <1>3, <2>1 DEF ConsumeBackupCode
      <3>3. task[p].code \notin spent
        BY <2>1 DEF Unspent
      <3>4. Unspent'
        BY <2>1, <3>1, <3>2 DEF Unspent
      <3>5. respent' = (respent \/ task[p].code \in spent)
        BY <1>3, <2>1 DEF ConsumeBackupCode
      <3> QED
        BY <3>3, <3>4, <3>5
    <2>2. CASE task[p].code \notin rec.codes
      BY <1>3, <2>2 DEF ConsumeBackupCode, Unspent
    <2> QED
      BY <2>1, <2>2
  <1>4. ASSUME NEW p \in Tasks, DeleteRecord(p)
        PROVE  BackupInv'
    BY <1>4 DEF DeleteRecord, NoRecord, Unspent
  <1>5. CASE UNCHANGED <<rec, shown, spent, respent>>
    BY <1>5 DEF Unspent
  <1>6. Next \/ UNCHANGED vars
    OBVIOUS
  <1> QED
    BY <1>1, <1>2, <1>3, <1>4, <1>5, <1>6
    DEF Next, vars, Start, SetupReads, SetupReadFails, EnableReads, VerifyReads,
        ReadsAndMatches, BackupReads, DisableRereads, Fail, Tick

\* consume_backup_code: whatever enrolments, logins and removals of MFA run at
\* the same time, no backup code is accepted twice.
THEOREM BackupCodeOnceHolds == Spec => []BackupCodeOnce
  <1>1. Init => BackupInv
    BY DEF Init, BackupInv, Unspent, BackupCodeOnce, NoRecord
  <1>2. BackupInv => BackupCodeOnce
    BY DEF BackupInv
  <1> QED
    BY <1>1, <1>2, TypeCorrect, BackupStep, PTL DEF Spec

(***************************************************************************)
(* What a handler read holds until the handler is overtaken.               *)
(***************************************************************************)

Matched == {"accept", "reread", "delete"}

\* A setup that is not late has not seen the record enabled, for it is not; a
\* handler that matched a code and is not late has the record's secret.
HandlerOK(t) ==
  /\ t.pc \in Matched => t.secret \in shown
  /\ t.pc = "accept" => t.code[1] = t.secret
  /\ t.pc = "save" /\ ~t.late => rec.status # "Enabled"
  /\ t.pc \in Matched /\ ~t.late /\ rec.status # "none" => rec.secret = t.secret

RecordOK ==
  IF rec.status = "none" THEN rec.secret = NoSecret ELSE rec.secret \in shown

SecretsOK == RecordOK /\ \A p \in Tasks : HandlerOK(task[p])

\* Steps that move one handler and leave the record alone.
LEMMA OneMoves ==
  ASSUME TypeOK, SecretsOK, UNCHANGED <<rec, shown>>, NEW p \in Tasks, NEW w,
         HandlerOK(w), task' = [task EXCEPT ![p] = w]
  PROVE  SecretsOK'
  <1>1. \A q \in Tasks : HandlerOK(task'[q])
    BY DEF SecretsOK, TypeOK
  <1> QED
    BY <1>1 DEF SecretsOK, RecordOK, HandlerOK

\* Steps that change the record and overtake other handlers.
LEMMA OvertakeOK ==
  ASSUME TypeOK, SecretsOK, NEW p \in Tasks, NEW t, NEW s, NEW enabled \in BOOLEAN,
         Overtakes(p, t, s, enabled),
         t.pc = "idle" \/ (t.pc = "reread" /\ t.secret = s),
         rec'.secret = s, s \in shown', shown \subseteq shown',
         rec'.status \in {"Pending", "Enabled"},
         rec.status = "none" => s # NoSecret,
         rec'.status = "Enabled" /\ ~enabled => rec.status = "Enabled"
  PROVE  SecretsOK'
  <1>0. task \in [Tasks -> Task]
    BY DEF TypeOK
  <1>1. RecordOK'
    BY DEF RecordOK
  <1>2. ASSUME NEW q \in Tasks, q # p
        PROVE  HandlerOK(task[q])'
    <2> DEFINE b == \/ task[q].late
                    \/ task[q].pc = "save" /\ enabled
                    \/ task[q].pc \in Matched /\ s # rec.secret
    <2>1. b \in BOOLEAN /\ task[q] \in Task /\ HandlerOK(task[q])
      BY <1>0 DEF Task, SecretsOK
    <2>2. task'[q] = [task[q] EXCEPT !.late = b]
      BY <1>2 DEF Overtakes, Matched
    <2>3. /\ task'[q].pc = task[q].pc /\ task'[q].code = task[q].code
          /\ task'[q].secret = task[q].secret /\ task'[q].late = b
      BY <2>1, <2>2 DEF Task
    <2>4. task[q].pc = "save" /\ ~b => rec'.status # "Enabled"
      BY <2>1 DEF HandlerOK
    <2>5. task[q].pc \in Matched /\ ~b => s = task[q].secret
      BY <2>1 DEF HandlerOK, SecretsOK, RecordOK
    <2> QED
      BY <2>1, <2>3, <2>4, <2>5 DEF HandlerOK
  <1>3. task'[p] = t
    BY DEF Overtakes
  <1>4. HandlerOK(task[p])'
    BY <1>3 DEF HandlerOK, Matched
  <1> QED
    BY <1>1, <1>2, <1>4 DEF SecretsOK

LEMMA SecretsStep ==
  ASSUME TypeInv, SecretsOK, [Next]_vars
  PROVE  SecretsOK'
  <1>0. task \in [Tasks -> Task] /\ rec \in Record /\ shown \subseteq Secrets /\ TypeOK
    BY DEF TypeInv, TypeOK
  <1>1. HandlerOK(IdleTask) /\ HandlerOK(IdleTask)'
    BY DEF HandlerOK, IdleTask, Matched
  <1>2. ASSUME NEW p \in Tasks, End(p), UNCHANGED <<rec, shown>>
        PROVE  SecretsOK'
    BY <1>0, <1>1, <1>2, OneMoves DEF End
  <1>3. ASSUME NEW p \in Tasks, NEW x, Goto(p, x), UNCHANGED <<rec, shown>>,
               \/ x = "save" /\ rec.status # "Enabled"
               \/ x = "consume"
               \/ x \in {"reread", "delete"} /\ task[p].pc \in Matched
        PROVE  SecretsOK'
    <2> DEFINE w == [task[p] EXCEPT !.pc = x]
    <2>1. /\ w.pc = x /\ w.secret = task[p].secret /\ w.late = task[p].late
          /\ w.code = task[p].code
      BY <1>0 DEF Task
    <2>2. HandlerOK(w)
      BY <1>3, <2>1 DEF SecretsOK, HandlerOK, Matched
    <2> QED
      BY <1>0, <1>3, <2>2, OneMoves DEF Goto
  <1>4. ASSUME NEW p \in Tasks, SaveRecord(p) PROVE SecretsOK'
    <2>1. PICK s \in Secrets \ shown :
            rec' = NewRecord(s) /\ shown' = shown \cup {s} /\ Overtakes(p, IdleTask, s, FALSE)
      BY <1>4 DEF SaveRecord
    <2>2. rec'.secret = s /\ rec'.status = "Pending"
      BY <2>1 DEF NewRecord
    <2>3. IdleTask.pc = "idle"
      BY DEF IdleTask
    <2> QED
      BY <1>0, <2>1, <2>2, <2>3, MfaAssumption, OvertakeOK
  <1>5. ASSUME NEW p \in Tasks, EnableReads(p) \/ VerifyReads(p) PROVE SecretsOK'
    <2>1. CASE End(p)
      BY <1>2, <1>5, <2>1 DEF EnableReads, VerifyReads, ReadsAndMatches
    <2>2. CASE /\ rec.status # "none" /\ task[p].code[1] = rec.secret
               /\ task' = [task EXCEPT ![p] = [@ EXCEPT !.pc = "accept", !.secret = rec.secret]]
      <3> DEFINE w == [task[p] EXCEPT !.pc = "accept", !.secret = rec.secret]
      <3>1. w.pc = "accept" /\ w.secret = rec.secret /\ w.code = task[p].code
        BY <1>0 DEF Task
      <3>2. HandlerOK(w)
        BY <2>2, <3>1 DEF HandlerOK, SecretsOK, RecordOK
      <3>3. UNCHANGED <<rec, shown>>
        BY <1>5 DEF EnableReads, VerifyReads, ReadsAndMatches
      <3> QED
        BY <1>0, <2>2, <3>2, <3>3, OneMoves
    <2> QED
      BY <1>5, <2>1, <2>2 DEF EnableReads, VerifyReads, ReadsAndMatches
  <1>6. ASSUME NEW p \in Tasks, AcceptCode(p) PROVE SecretsOK'
    <2>1. CASE End(p) /\ UNCHANGED rec
      BY <1>2, <1>6, <2>1 DEF AcceptCode
    <2>2. CASE rec.status # "none" /\ WriteStep(p)
      <3> DEFINE enable == task[p].kind = "enable"
                 t == IF task[p].kind = "disable"
                      THEN [task[p] EXCEPT !.pc = "reread"] ELSE IdleTask
      <3>1. /\ rec'.secret = task[p].secret
            /\ rec'.status = IF enable THEN "Enabled" ELSE rec.status
        BY <1>0, <2>2 DEF WriteStep, Record
      <3>2. task[p].secret \in shown /\ shown' = shown
        BY <1>6 DEF AcceptCode, SecretsOK, HandlerOK, Matched
      <3>3. t.pc = "idle" \/ (t.pc = "reread" /\ t.secret = task[p].secret)
        BY <1>0 DEF IdleTask, Task
      <3>4. rec'.status \in {"Pending", "Enabled"}
        BY <1>0, <2>2, <3>1 DEF Record
      <3>5. Overtakes(p, t, task[p].secret, enable)
        BY <2>2 DEF WriteStep
      <3> QED
        BY <1>0, <2>2, <3>1, <3>2, <3>3, <3>4, <3>5, OvertakeOK
    <2> QED
      BY <1>6, <2>1, <2>2 DEF AcceptCode
  <1>7. ASSUME NEW p \in Tasks, ConsumeBackupCode(p) PROVE SecretsOK'
    <2>1. rec'.status = rec.status /\ rec'.secret = rec.secret /\ shown' = shown
      BY <1>0, <1>7 DEF ConsumeBackupCode, Record
    <2>2. \A q \in Tasks : HandlerOK(task'[q])
      BY <1>0, <1>1, <1>7 DEF ConsumeBackupCode, End, SecretsOK
    <2> QED
      BY <2>1, <2>2 DEF HandlerOK, SecretsOK, RecordOK
  <1>8. ASSUME NEW p \in Tasks, DeleteRecord(p) PROVE SecretsOK'
    <2>1. rec'.status = "none" /\ rec'.secret = NoSecret /\ shown' = shown
      BY <1>8 DEF DeleteRecord, NoRecord
    <2>2. \A q \in Tasks : HandlerOK(task'[q])
      BY <1>0, <1>1, <1>8 DEF DeleteRecord, End, SecretsOK
    <2> QED
      BY <2>1, <2>2 DEF HandlerOK, SecretsOK, RecordOK
  <1>9. ASSUME NEW p \in Tasks, NEW k \in Kinds, NEW c, Start(p, k, c) PROVE SecretsOK'
    <2> DEFINE w == [pc |-> "read", kind |-> k, code |-> c, secret |-> NoSecret, late |-> FALSE]
    <2>1. HandlerOK(w)
      BY DEF HandlerOK, Matched
    <2> QED
      BY <1>0, <1>9, <2>1, OneMoves DEF Start
  <1>10. ASSUME NEW p \in Tasks, SetupReadFails(p) PROVE SecretsOK'
    <2> DEFINE w == [task[p] EXCEPT !.pc = "save", !.late = TRUE]
    <2>1. w.pc = "save" /\ w.late = TRUE
      BY <1>0 DEF Task
    <2>2. HandlerOK(w)
      BY <2>1 DEF HandlerOK, Matched
    <2>3. task' = [task EXCEPT ![p] = w] /\ UNCHANGED <<rec, shown>>
      BY <1>0, <1>10 DEF SetupReadFails, Task
    <2> QED
      BY <1>0, <2>2, <2>3, OneMoves
  <1>11. ASSUME NEW p \in Tasks, SetupReads(p) \/ BackupReads(p) \/ DisableRereads(p) \/ Fail(p)
         PROVE  SecretsOK'
    BY <1>2, <1>3, <1>11 DEF SetupReads, BackupReads, DisableRereads, Fail, Matched
  <1>12. CASE Tick \/ UNCHANGED vars
    BY <1>12 DEF Tick, vars, SecretsOK, HandlerOK, RecordOK
  <1> QED
    BY <1>4, <1>5, <1>6, <1>7, <1>8, <1>9, <1>10, <1>11, <1>12 DEF Next

LEMMA SecretsHold == Spec => [](TypeInv /\ SecretsOK)
  <1>1. Init => SecretsOK
    BY DEF Init, SecretsOK, RecordOK, HandlerOK, Matched, NoRecord, IdleTask
  <1>2. TypeInv /\ SecretsOK /\ [Next]_vars => SecretsOK'
    BY SecretsStep
  <1> QED
    BY <1>1, <1>2, TypeInvHolds, PTL DEF Spec

(***************************************************************************)
(* A TOTP code is accepted at most once while the record keeps its secret. *)
(***************************************************************************)

\* The watermark of a record is at or beyond every accepted code of its secret.
Watermark ==
  /\ rec.status # "none" => \A c \in accepted : c[1] = rec.secret => c[2] <= rec.step
  /\ \A c \in accepted : c[1] \in shown

CodeInv == Watermark /\ CodeOnce

\* Every step keeps the watermark there: an enrolment draws a secret that has no
\* accepted codes, and a write-back of another secret leaves one.
LEMMA CodeStep == TypeInv /\ SecretsOK /\ CodeInv /\ [Next]_vars => CodeInv'
  <1> SUFFICES ASSUME TypeInv, SecretsOK, CodeInv, [Next]_vars
               PROVE  CodeInv'
    OBVIOUS
  <1> USE DEF history, CodeInv, CodeOnce
  <1>0. rec \in Record /\ shown \in SUBSET Secrets /\ accepted \in SUBSET TotpCodes
    BY DEF TypeInv, TypeOK
  <1>1. ASSUME NEW p \in Tasks, SaveRecord(p)
        PROVE  CodeInv'
    <2>1. PICK s \in Secrets \ shown : shown' = shown \cup {s} /\ rec' = NewRecord(s)
      BY <1>1 DEF SaveRecord
    <2>2. rec'.secret = s
      BY <2>1 DEF NewRecord
    <2> QED
      BY <1>1, <2>1, <2>2 DEF SaveRecord, Watermark
  <1>2. ASSUME NEW p \in Tasks, AcceptCode(p)
        PROVE  CodeInv'
    <2> DEFINE c == task[p].code
               same == task[p].secret = rec.secret
    <2>1. CASE rec.status # "none" /\ rec.step < c[2] /\ WriteStep(p)
      <3>1. c \in TotpCodes /\ c[1] = task[p].secret /\ task[p].secret \in shown
        BY <1>2 DEF AcceptCode, CodeFits, TypeInv, SecretsOK, HandlerOK, Matched
      <3>2. c[2] \in Nat /\ rec.step \in Nat /\ \A d \in accepted : d[2] \in Nat
        BY <1>0, <3>1, MfaAssumption DEF TotpCodes, Steps, Record
      <3>3. rec'.step = c[2] /\ rec'.secret = task[p].secret /\ shown' = shown
        BY <1>0, <1>2, <2>1 DEF AcceptCode, WriteStep, Record
      <3>4. accepted' = {d \in accepted : same \/ d[1] # c[1]} \cup {c}
        BY <2>1 DEF WriteStep
      <3>5. \A d \in accepted' : d[1] = rec'.secret => d[2] <= rec'.step
        BY <2>1, <3>1, <3>2, <3>3, <3>4 DEF Watermark
      <3>6. ~(same /\ c \in accepted)
        BY <2>1, <3>1, <3>2 DEF Watermark
      <3>7. replayed' = (replayed \/ (same /\ c \in accepted))
        BY <2>1 DEF WriteStep
      <3>8. Watermark'
        BY <3>1, <3>3, <3>4, <3>5 DEF Watermark
      <3> QED
        BY <3>6, <3>7, <3>8
    <2>2. CASE ~(rec.status # "none" /\ rec.step < c[2])
      BY <1>2, <2>2 DEF AcceptCode, Watermark
    <2> QED
      BY <1>2, <2>1, <2>2 DEF AcceptCode
  <1>3. ASSUME NEW p \in Tasks, ConsumeBackupCode(p)
        PROVE  CodeInv'
    <2>1. rec'.status = rec.status /\ rec'.step = rec.step /\ rec'.secret = rec.secret
      BY <1>0, <1>3 DEF ConsumeBackupCode, Record
    <2> QED
      BY <1>3, <2>1 DEF ConsumeBackupCode, Watermark
  <1>4. ASSUME NEW p \in Tasks, DeleteRecord(p)
        PROVE  CodeInv'
    BY <1>4 DEF DeleteRecord, NoRecord, Watermark
  <1>5. CASE UNCHANGED <<rec, shown, accepted, replayed>>
    BY <1>5 DEF Watermark
  <1>6. Next \/ UNCHANGED vars
    OBVIOUS
  <1> QED
    BY <1>1, <1>2, <1>3, <1>4, <1>5, <1>6
    DEF Next, vars, Start, SetupReads, SetupReadFails, EnableReads, VerifyReads,
        ReadsAndMatches, BackupReads, DisableRereads, Fail, Tick

\* accept_totp_code: however many handlers present a code, and whatever
\* enrolments run at the same time, the guarded UPDATE accepts it once, as long
\* as no withdrawn secret has been put back.
THEOREM CodeOnceHolds == Spec => []CodeOnce
  <1>1. Init => CodeInv
    BY DEF Init, CodeInv, Watermark, CodeOnce, NoRecord
  <1>2. CodeInv => CodeOnce
    BY DEF CodeInv
  <1> QED
    BY <1>1, <1>2, CodeStep, SecretsHold, PTL DEF Spec

(***************************************************************************)
(* Who takes an enabled second factor away.                                *)
(***************************************************************************)

Disables == rec.status = "Enabled" /\ (rec'.status # "Enabled" \/ rec'.secret # rec.secret)
Verified(p) == task[p].pc = "delete" /\ task[p].secret = rec.secret
Overtaken(p) == task[p].pc \in {"save", "accept", "delete"} /\ task[p].late

\* A step that does belongs to a handler that is saving, accepting or deleting,
\* and one that is not late cannot, unless it deletes what it verified.
LEMMA WhoDisables ==
  ASSUME TypeInv, SecretsOK, [Next]_vars, Disables
  PROVE  \E p \in Tasks : task'[p].pc # task[p].pc /\ (Verified(p) \/ Overtaken(p))
  <1> USE DEF Disables
  <1>0. rec \in Record /\ task \in [Tasks -> Task]
    BY DEF TypeInv, TypeOK
  <1>1. ASSUME NEW p \in Tasks, SaveRecord(p)
        PROVE  task'[p].pc # task[p].pc /\ Overtaken(p)
    BY <1>0, <1>1 DEF SaveRecord, Overtakes, IdleTask, Overtaken, SecretsOK, HandlerOK
  <1>2. ASSUME NEW p \in Tasks, AcceptCode(p)
        PROVE  task'[p].pc # task[p].pc /\ Overtaken(p)
    <2>1. WriteStep(p)
      BY <1>2 DEF AcceptCode
    <2>2. rec'.secret = task[p].secret /\ rec'.status = "Enabled"
      BY <1>0, <2>1 DEF WriteStep, Record
    <2>3. task[p].late
      BY <1>2, <2>2 DEF AcceptCode, SecretsOK, HandlerOK, Matched
    <2>4. task'[p].pc \in {"reread", "idle"}
      BY <1>0, <2>1 DEF WriteStep, Overtakes, IdleTask, Task
    <2> QED
      BY <1>2, <2>3, <2>4 DEF AcceptCode, Overtaken
  <1>3. \A p \in Tasks : ~ConsumeBackupCode(p)
    BY <1>0 DEF ConsumeBackupCode, Record
  <1>4. ASSUME NEW p \in Tasks, DeleteRecord(p)
        PROVE  task'[p].pc # task[p].pc /\ (Verified(p) \/ Overtaken(p))
    BY <1>0, <1>4 DEF DeleteRecord, End, IdleTask, Verified, Overtaken, SecretsOK, HandlerOK,
       Matched
  <1>5. rec' # rec
    OBVIOUS
  <1> QED
    BY <1>1, <1>2, <1>3, <1>4, <1>5
    DEF Next, vars, Start, SetupReads, SetupReadFails, EnableReads, VerifyReads,
        ReadsAndMatches, BackupReads, DisableRereads, Fail, Tick

\* mfa_disable and setup_totp, for any number of enrolments: an enabled record
\* keeps its status and secret until a handler that verified a code of this
\* secret deletes it, or one that the enrolment overtook writes.
THEOREM OnlyCurrentCodeDisablesHolds == Spec => OnlyCurrentCodeDisables
  <1>1. TypeInv /\ SecretsOK /\ [Next]_vars
          => [rec.status = "Enabled" /\ (rec'.status # "Enabled" \/ rec'.secret # rec.secret)
                => \E p \in Tasks :
                     /\ task'[p].pc # task[p].pc
                     /\ \/ task[p].pc = "delete" /\ task[p].secret = rec.secret
                        \/ task[p].pc \in {"save", "accept", "delete"} /\ task[p].late]_vars
    BY WhoDisables DEF Disables, Verified, Overtaken
  <1> QED
    BY <1>1, SecretsHold, PTL DEF Spec, OnlyCurrentCodeDisables
=============================================================================
