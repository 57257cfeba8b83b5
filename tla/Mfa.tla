-------------------------------- MODULE Mfa --------------------------------
(***************************************************************************)
(* The second factor of one account (services/mfa.rs, and its handlers in  *)
(* routes/auth.rs): enrolment of a TOTP secret, its confirmation, the      *)
(* check of TOTP and backup codes at login, and switching MFA off.         *)
(*                                                                         *)
(* The account has one user_mfa record.  Each handler reads it, checks     *)
(* against its copy, and then writes: the enrolment overwrites the record, *)
(* the checks use one guarded UPDATE.  Reading with the check that follows *)
(* it, and each write, are one step.                                       *)
(*                                                                         *)
(* A TOTP code is the secret it was computed from and its time step; a     *)
(* backup code is the enrolment it was made in and its number.             *)
(***************************************************************************)
EXTENDS Naturals, FiniteSets

CONSTANTS
  Secrets,      \* TOTP secrets that enrolments may draw, each once
  BackupCodes,  \* numbers of the backup codes of one enrolment
  NoSecret,
  MaxStep,      \* bound on the clock, in TOTP time steps
  Tasks         \* slots for handlers in flight

ASSUME MfaAssumption ==
  /\ NoSecret \notin Secrets
  /\ MaxStep \in Nat \ {0}

VARIABLES
  rec,        \* the user_mfa record
  shown,      \* secrets, with their backup codes, that users have been shown
  now,        \* the current time step
  task,       \* the handlers in flight
  accepted,   \* history: TOTP codes that were accepted
  replayed,   \* history: a TOTP code was accepted a second time, by a handler
              \* that had read the secret the record still has
  spent,      \* history: backup codes that were accepted
  respent     \* history: a backup code was accepted a second time

vars == <<rec, shown, now, task, accepted, replayed, spent, respent>>
history == <<accepted, replayed, spent, respent>>

Steps == 1..(MaxStep + 1)
TotpCodes == Secrets \X Steps
RecoveryCodes == Secrets \X BackupCodes

\* last_totp_step = 0 stands for NONE.
Record ==
  [status : {"none", "Pending", "Enabled"}, secret : Secrets \cup {NoSecret},
   step : Steps \cup {0}, codes : SUBSET RecoveryCodes]
NoRecord == [status |-> "none", secret |-> NoSecret, step |-> 0, codes |-> {}]

Kinds == {"setup", "enable", "verify", "backup", "disable"}
Task ==
  [pc : {"idle", "read", "save", "accept", "consume", "reread", "delete"},
   kind : Kinds,
   code : TotpCodes \cup RecoveryCodes \cup {<<>>},
   secret : Secrets \cup {NoSecret},  \* the secret in its copy of the record
   late : BOOLEAN]                    \* history: what it read was overtaken
IdleTask == [pc |-> "idle", kind |-> "setup", code |-> <<>>, secret |-> NoSecret,
             late |-> FALSE]

TypeOK ==
  /\ rec \in Record
  /\ shown \in SUBSET Secrets
  /\ now \in 1..MaxStep
  /\ task \in [Tasks -> Task]
  /\ accepted \in SUBSET TotpCodes /\ replayed \in BOOLEAN
  /\ spent \in SUBSET RecoveryCodes /\ respent \in BOOLEAN

Init ==
  /\ rec = NoRecord
  /\ shown = {}
  /\ now = 1
  /\ task = [p \in Tasks |-> IdleTask]
  /\ accepted = {} /\ replayed = FALSE
  /\ spent = {} /\ respent = FALSE

Goto(p, pc) == task' = [task EXCEPT ![p].pc = pc]
End(p) == task' = [task EXCEPT ![p] = IdleTask]

\* The record gets secret s, or is enabled, while handler p goes on as t.  For
\* the others this is history: a setup about to overwrite the record did not
\* see it enabled, and one that matched a code did so with another secret.
Overtakes(p, t, s, enabled) ==
  task' = [q \in Tasks |->
    IF q = p THEN t
    ELSE [task[q] EXCEPT !.late =
            \/ task[q].late
            \/ task[q].pc = "save" /\ enabled
            \/ task[q].pc \in {"accept", "reread", "delete"} /\ s # rec.secret]]

---------------------------------------------------------------------------

\* A code that is presented belongs to a secret that was handed out, and its
\* step has been reached or is the next one.
Start(p, k, c) ==
  /\ task[p].pc = "idle"
  /\ CASE k = "setup"  -> c = <<>>
       [] k = "backup" -> c \in shown \X BackupCodes
       [] OTHER        -> c \in shown \X (1..(now + 1))
  /\ task' = [task EXCEPT ![p] = [pc |-> "read", kind |-> k, code |-> c,
                                  secret |-> NoSecret, late |-> FALSE]]
  /\ UNCHANGED <<rec, shown, now, history>>

\* Mutant: the status that was read is not looked at.
SetupUnchecked(p) ==
  /\ task[p].pc = "read" /\ task[p].kind = "setup"
  /\ Goto(p, "save")
  /\ UNCHANGED <<rec, shown, now, history>>

\* setup_totp refuses when it reads that MFA is enabled.
SetupReads(p) ==
  /\ task[p].pc = "read" /\ task[p].kind = "setup"
  /\ IF rec.status = "Enabled" THEN End(p) ELSE Goto(p, "save")
  /\ UNCHANGED <<rec, shown, now, history>>

\* It goes on when the read failed (`if let Ok`), whatever there was to read.
SetupReadFails(p) ==
  /\ task[p].pc = "read" /\ task[p].kind = "setup"
  /\ rec.status = "Enabled"
  /\ task' = [task EXCEPT ![p].pc = "save", ![p].late = TRUE]
  /\ UNCHANGED <<rec, shown, now, history>>

\* Mutant: the new record has the status of an account without MFA.
NewDisabledRecord(s) ==
  [status |-> "Disabled", secret |-> s, step |-> 0, codes |-> {s} \X BackupCodes]

\* The record setup_totp makes: a new secret, new backup codes, no watermark.
NewRecord(s) ==
  [status |-> "Pending", secret |-> s, step |-> 0, codes |-> {s} \X BackupCodes]

\* save_user_mfa overwrites whatever is stored, and the answer shows the secret
\* and the backup codes.
SaveRecord(p) ==
  /\ task[p].pc = "save"
  /\ \E s \in Secrets \ shown :
       /\ rec' = NewRecord(s)
       /\ shown' = shown \cup {s}
       /\ Overtakes(p, IdleTask, s, FALSE)
  /\ UNCHANGED <<now, history>>

\* match_totp_step: one step either side of the current one.
InWindow(n) == n + 1 >= now /\ n <= now + 1

\* A handler that is given a TOTP code reads the record, which must have the
\* status it asks for, and compares the code with the one it computes from the
\* secret.
ReadsAndMatches(p, status) ==
  /\ task[p].pc = "read"
  /\ LET c == task[p].code
     IN  IF rec.status = status /\ c[1] = rec.secret /\ InWindow(c[2])
           THEN task' = [task EXCEPT ![p] = [@ EXCEPT !.pc = "accept",
                                                      !.secret = rec.secret]]
           ELSE End(p)
  /\ UNCHANGED <<rec, shown, now, history>>

\* enable_totp.
EnableReads(p) == task[p].kind = "enable" /\ ReadsAndMatches(p, "Pending")

\* verify_totp, at login and as the first half of mfa_disable.
VerifyReads(p) ==
  task[p].kind \in {"verify", "disable"} /\ ReadsAndMatches(p, "Enabled")

\* The assignments of the UPDATE in accept_totp_code: the watermark is moved and
\* the secret that was read is written back; enabling sets the status as well.
\* A handler that puts another secret back starts the history of its codes anew.
WriteStep(p) ==
  LET c == task[p].code
      enable == task[p].kind = "enable"
      same == task[p].secret = rec.secret
  IN  /\ rec' = [rec EXCEPT !.step = c[2], !.secret = task[p].secret,
                   !.status = IF enable THEN "Enabled" ELSE rec.status]
      /\ accepted' = {d \in accepted : same \/ d[1] # c[1]} \cup {c}
      /\ replayed' = (replayed \/ (same /\ c \in accepted))
      /\ Overtakes(p, IF task[p].kind = "disable"
                        THEN [task[p] EXCEPT !.pc = "reread"] ELSE IdleTask,
                   task[p].secret, enable)

\* Mutant: the UPDATE has no condition on the watermark.
AcceptUnguarded(p) ==
  LET c == task[p].code
  IN  /\ task[p].pc = "accept"
      /\ IF rec.status # "none"
           THEN WriteStep(p)
           ELSE End(p) /\ UNCHANGED <<rec, accepted, replayed>>
      /\ UNCHANGED <<shown, now, spent, respent>>

\* accept_totp_code: one UPDATE asks that the step is beyond the watermark.
AcceptCode(p) ==
  LET c == task[p].code
  IN  /\ task[p].pc = "accept"
      /\ IF rec.status # "none" /\ rec.step < c[2]
           THEN WriteStep(p)
           ELSE End(p) /\ UNCHANGED <<rec, accepted, replayed>>
      /\ UNCHANGED <<shown, now, spent, respent>>

\* use_backup_code finds the code among the stored hashes,
BackupReads(p) ==
  /\ task[p].pc = "read" /\ task[p].kind = "backup"
  /\ IF rec.status = "Enabled" /\ task[p].code \in rec.codes
       THEN Goto(p, "consume") ELSE End(p)
  /\ UNCHANGED <<rec, shown, now, history>>

\* Mutant: the code is removed from the array without asking that it is there.
ConsumeUnguarded(p) ==
  LET c == task[p].code
  IN  /\ task[p].pc = "consume"
      /\ rec' = [rec EXCEPT !.codes = @ \ {c}]
      /\ spent' = spent \cup {c}
      /\ respent' = (respent \/ c \in spent)
      /\ End(p)
      /\ UNCHANGED <<shown, now, accepted, replayed>>

\* and consume_backup_code removes it by value, if it is still there.
ConsumeBackupCode(p) ==
  LET c == task[p].code
  IN  /\ task[p].pc = "consume"
      /\ IF c \in rec.codes
           THEN /\ rec' = [rec EXCEPT !.codes = @ \ {c}]
                /\ spent' = spent \cup {c}
                /\ respent' = (respent \/ c \in spent)
           ELSE UNCHANGED <<rec, spent, respent>>
      /\ End(p)
      /\ UNCHANGED <<shown, now, accepted, replayed>>

\* disable_mfa reads the record again; without one it fails.
DisableRereads(p) ==
  /\ task[p].pc = "reread"
  /\ IF rec.status = "none" THEN End(p) ELSE Goto(p, "delete")
  /\ UNCHANGED <<rec, shown, now, history>>

\* delete_user_mfa.
DeleteRecord(p) ==
  /\ task[p].pc = "delete"
  /\ rec' = NoRecord
  /\ End(p)
  /\ UNCHANGED <<shown, now, history>>

\* A statement fails or the process ends.
Fail(p) ==
  /\ task[p].pc # "idle"
  /\ End(p)
  /\ UNCHANGED <<rec, shown, now, history>>

Tick ==
  /\ now < MaxStep
  /\ now' = now + 1
  /\ UNCHANGED <<rec, shown, task, history>>

Next ==
  \/ \E p \in Tasks :
       \/ \E k \in Kinds, c \in TotpCodes \cup RecoveryCodes \cup {<<>>} :
            Start(p, k, c)
       \/ SetupReads(p) \/ SetupReadFails(p) \/ SaveRecord(p)
       \/ EnableReads(p) \/ VerifyReads(p) \/ AcceptCode(p)
       \/ BackupReads(p) \/ ConsumeBackupCode(p)
       \/ DisableRereads(p) \/ DeleteRecord(p)
       \/ Fail(p)
  \/ Tick

Spec == Init /\ [][Next]_vars

---------------------------------------------------------------------------

\* A backup code opens one session at most, whatever enrolments, logins and
\* removals of MFA run at the same time (consume_backup_code).
BackupCodeOnce == ~respent

\* The purpose accept_totp_code states: the same code can be used only once, as
\* long as the record keeps the secret; across a disable and a new setup too,
\* until a handler that was overtaken by them puts the old secret back.
CodeOnce == ~replayed

\* routes/auth.rs, mfa_disable: once MFA is enabled with a secret, it stays so
\* until a handler that verified a code of this secret deletes the record.  The
\* only others that take it away are those the enrolment overtook: a setup that
\* read before the record was enabled or whose read failed, and a check that
\* had matched a code of an earlier secret.
OnlyCurrentCodeDisables ==
  [][rec.status = "Enabled" /\ (rec'.status # "Enabled" \/ rec'.secret # rec.secret)
       => \E p \in Tasks :
            /\ task'[p].pc # task[p].pc
            /\ \/ task[p].pc = "delete" /\ task[p].secret = rec.secret
               \/ task[p].pc \in {"save", "accept", "delete"} /\ task[p].late]_vars

\* Refuted: a code is accepted once at all.  A handler that matched it before a
\* disable and a new setup puts the old secret back and takes it again.
CodeOnceEver ==
  [][\A p \in Tasks : task[p].pc = "accept" /\ task'[p].pc # "accept"
                        /\ rec'.step > rec.step
       => task[p].code \notin accepted]_vars

\* Refuted: only a code of the current secret takes an enabled record away.
OnlyCodeDisables ==
  [][rec.status = "Enabled" /\ (rec'.status # "Enabled" \/ rec'.secret # rec.secret)
       => \E p \in Tasks : /\ task[p].pc = "delete" /\ task'[p].pc # "delete"
                            /\ task[p].secret = rec.secret]_vars
=============================================================================
