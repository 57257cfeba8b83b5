------------------------------ MODULE Lockout ------------------------------
(***************************************************************************)
(* The lockout of one identifier, an account's email or an IP address      *)
(* (services/account_lockout.rs, models/account_lockout.rs, and its use in *)
(* routes/auth.rs and routes/security.rs; the two dimensions run the same  *)
(* code on records of their own).                                          *)
(*                                                                         *)
(* A login checks the record, tries a password (or an MFA code), and a     *)
(* task it spawns counts the failure or, after a success, resets the       *)
(* record.  A failure is counted in the database; the check, the reset and *)
(* an administrator's unlock read the record and write it back whole.      *)
(* Every statement is one step.                                            *)
(***************************************************************************)
EXTENDS Naturals, FiniteSets

CONSTANTS
  Tasks,        \* slots for handlers in flight, with the tasks they spawn
  MaxAttempts,  \* LOCKOUT_MAX_ATTEMPTS
  Duration,     \* LOCKOUT_DURATION_MINUTES
  Window,       \* LOCKOUT_RESET_WINDOW_MINUTES
  Retries,      \* WRITE_CONFLICT_RETRIES
  MaxNow        \* bound on the clock

ASSUME LockoutAssumption ==
  /\ IsFiniteSet(Tasks)
  /\ MaxAttempts \in Nat \ {0} /\ Duration \in Nat \ {0}
  /\ Window \in Nat /\ Retries \in Nat \ {0} /\ MaxNow \in Nat

VARIABLES
  rec,      \* the account_lockout record
  now,
  task,     \* the handlers in flight
  guesses   \* history: wrong guesses since the record was last zeroed, without
            \* those whose recording ended with an error

vars == <<rec, now, task, guesses>>

\* Counts beyond the threshold are not told apart: failed_attempts stops here.
CountCap == MaxAttempts + 1

\* until = 0 stands for NONE, and until is the first instant that is free.
Record == [exists : BOOLEAN, attempts : 0..CountCap, status : {"Normal", "Locked"},
           until : Nat, last : Nat]
NoRecord == [exists |-> FALSE, attempts |-> 0, status |-> "Normal", until |-> 0,
             last |-> 0]

Task ==
  [pc : {"idle", "read", "save", "attempt", "count", "lock", "reset",
         "resetsave"},
   kind : {"login", "query", "unlock"},
   copy : Record,       \* what the handler will write back
   tries : 0..(Retries - 1),  \* conflicts of the counting query so far
   fresh : BOOLEAN]     \* history: its wrong guess is among guesses
IdleTask == [pc |-> "idle", kind |-> "login", copy |-> NoRecord, tries |-> 0,
             fresh |-> FALSE]

TypeOK ==
  /\ rec \in Record
  /\ now \in Nat
  /\ task \in [Tasks -> Task]
  /\ guesses \in Nat

Init ==
  /\ rec = NoRecord
  /\ now = 0
  /\ task = [p \in Tasks |-> IdleTask]
  /\ guesses = 0

Goto(p, pc) == task' = [task EXCEPT ![p].pc = pc]
End(p) == task' = [task EXCEPT ![p] = IdleTask]

\* is_lock_expired and is_locked.
Expired(r) == r.until # 0 /\ now >= r.until
IsLocked(r) == r.status = "Locked" /\ (r.until = 0 \/ now < r.until)

\* unlock_account.
Unlocked(r) == [r EXCEPT !.status = "Normal", !.attempts = 0, !.until = 0]

\* The record is zeroed: what was guessed before no longer counts.
Zeroed(t) == [q \in Tasks |-> [t[q] EXCEPT !.fresh = FALSE]]

---------------------------------------------------------------------------

Start(p, k) ==
  /\ task[p].pc = "idle"
  /\ task' = [task EXCEPT ![p] = [IdleTask EXCEPT !.pc = "read", !.kind = k]]
  /\ UNCHANGED <<rec, now, guesses>>

\* What a check goes on with: a login tries its password, a query answers.
Passed(p) ==
  IF task[p].kind = "login" THEN Goto(p, "attempt") ELSE End(p)

SaveFirst(p, r) ==
  task' = [task EXCEPT ![p] = [@ EXCEPT !.pc = "save", !.copy = r]]

\* check_user_lockout, check_ip_lockout: an expired lock is lifted and an old
\* count zeroed by writing the record back, a lock in force refuses.
CheckLockout(p) ==
  /\ task[p].pc = "read" /\ task[p].kind \in {"login", "query"}
  /\ IF ~rec.exists THEN Passed(p)
     ELSE IF Expired(rec) /\ rec.status # "Normal" THEN SaveFirst(p, Unlocked(rec))
     ELSE IF rec.last + Window < now /\ rec.status = "Normal"
            THEN SaveFirst(p, [rec EXCEPT !.attempts = 0])
     ELSE IF IsLocked(rec) THEN End(p)
     ELSE Passed(p)
  /\ UNCHANGED <<rec, now, guesses>>

\* unlock_user, unlock_ip: only a record that is locked is written.
ReadToUnlock(p) ==
  /\ task[p].pc = "read" /\ task[p].kind = "unlock"
  /\ IF rec.exists /\ IsLocked(rec) THEN SaveFirst(p, Unlocked(rec)) ELSE End(p)
  /\ UNCHANGED <<rec, now, guesses>>

\* save_lockout_record: UPSERT of the whole copy; the login goes on.
SaveRecord(p) ==
  /\ task[p].pc \in {"save", "resetsave"}
  /\ rec' = task[p].copy
  /\ guesses' = 0
  /\ task' = Zeroed([task EXCEPT ![p] =
       IF task[p].kind = "login" /\ task[p].pc = "save"
         THEN [@ EXCEPT !.pc = "attempt"] ELSE IdleTask])
  /\ UNCHANGED now

\* The password is wrong: record_lockout_failure.
WrongGuess(p) ==
  /\ task[p].pc = "attempt"
  /\ task' = [task EXCEPT ![p] = [@ EXCEPT !.pc = "count", !.fresh = TRUE]]
  /\ guesses' = guesses + 1
  /\ UNCHANGED <<rec, now>>

\* It is right: reset_lockout_counters, or nothing when a second step follows.
RightGuess(p) ==
  /\ task[p].pc = "attempt"
  /\ Goto(p, "reset") \/ End(p)
  /\ UNCHANGED <<rec, now, guesses>>

\* reset_user_attempts, reset_ip_attempts read the record.
ReadToReset(p) ==
  /\ task[p].pc = "reset"
  /\ IF rec.exists
       THEN task' = [task EXCEPT ![p] = [@ EXCEPT !.pc = "resetsave",
                                                  !.copy = Unlocked(rec)]]
       ELSE End(p)
  /\ UNCHANGED <<rec, now, guesses>>

\* increment_failed_attempts, first statement: UPSERT failed_attempts += 1.
CountFailure(p) ==
  /\ task[p].pc = "count"
  /\ rec' = [rec EXCEPT !.exists = TRUE, !.last = now,
                        !.attempts = IF @ < CountCap THEN @ + 1 ELSE @]
  /\ Goto(p, "lock")
  /\ UNCHANGED <<now, guesses>>

\* Mutant: the failure that reaches the threshold does not lock.
LockAboveThreshold(p) ==
  /\ task[p].pc = "lock"
  /\ rec' = IF rec.exists /\ rec.attempts > MaxAttempts /\ rec.status # "Locked"
              THEN [rec EXCEPT !.status = "Locked", !.until = now + Duration]
              ELSE rec
  /\ End(p)
  /\ UNCHANGED <<now, guesses>>

\* Second statement: at the threshold the record is locked, unless it is
\* already.
LockAtThreshold(p) ==
  /\ task[p].pc = "lock"
  /\ rec' = IF rec.exists /\ rec.attempts >= MaxAttempts /\ rec.status # "Locked"
              THEN [rec EXCEPT !.status = "Locked", !.until = now + Duration]
              ELSE rec
  /\ End(p)
  /\ UNCHANGED <<now, guesses>>

\* The recording ends with an error.
GiveUp(p) ==
  /\ End(p)
  /\ guesses' = IF task[p].fresh THEN guesses - 1 ELSE guesses

\* Mutant: one retry too many.
ConflictOffByOne(p) ==
  /\ task[p].pc \in {"count", "lock"}
  /\ IF task[p].tries < Retries
       THEN /\ task' = [task EXCEPT ![p] = [@ EXCEPT !.pc = "count",
                                                     !.tries = task[p].tries + 1]]
            /\ UNCHANGED guesses
       ELSE GiveUp(p)
  /\ UNCHANGED <<rec, now>>

\* One of the statements meets a write conflict: the whole query is sent again
\* after a pause, a limited number of times.
Conflict(p) ==
  /\ task[p].pc \in {"count", "lock"}
  /\ IF task[p].tries + 1 < Retries
       THEN /\ task' = [task EXCEPT ![p] = [@ EXCEPT !.pc = "count",
                                                     !.tries = task[p].tries + 1]]
            /\ UNCHANGED guesses
       ELSE GiveUp(p)
  /\ UNCHANGED <<rec, now>>

\* A statement fails otherwise, or the process ends.  A check that fails
\* refuses the login.
Fail(p) ==
  /\ task[p].pc # "idle"
  /\ GiveUp(p)
  /\ UNCHANGED <<rec, now>>

\* cleanup_expired_lockouts: locks that ran out, and counts that are old.
CleanupExpired ==
  /\ rec.exists
  /\ \/ rec.status = "Locked" /\ rec.until # 0 /\ rec.until < now
     \/ rec.status = "Normal" /\ rec.last + Window < now
  /\ rec' = NoRecord
  /\ guesses' = 0
  /\ task' = Zeroed(task)
  /\ UNCHANGED now

Tick ==
  /\ now < MaxNow
  /\ now' = now + 1
  /\ UNCHANGED <<rec, task, guesses>>

Next ==
  \/ \E p \in Tasks :
       \/ \E k \in {"login", "query", "unlock"} : Start(p, k)
       \/ CheckLockout(p) \/ ReadToUnlock(p) \/ SaveRecord(p)
       \/ WrongGuess(p) \/ RightGuess(p) \/ ReadToReset(p)
       \/ CountFailure(p) \/ LockAtThreshold(p)
       \/ Conflict(p) \/ Fail(p)
  \/ CleanupExpired
  \/ Tick

Spec == Init /\ [][Next]_vars

---------------------------------------------------------------------------

\* What the lockout is for: however many logins run at once, no more than
\* MaxAttempts wrong guesses, and one for every other login that was already
\* under way, get through before the record is next zeroed.
GuessBound == guesses <= MaxAttempts + Cardinality(Tasks) - 1

\* DEPLOYMENT.md, LOCKOUT_DURATION_MINUTES: how long the lock lasts.  Only a
\* successful login or an administrator ends a lock that is in force.
LockLasts ==
  [][IsLocked(rec) /\ ~IsLocked(rec') /\ now' = now
       => \E p \in Tasks : \/ task[p].pc = "save" /\ task[p].kind = "unlock"
                           \/ task[p].pc = "resetsave"]_vars
=============================================================================
