---------------------------- MODULE LimitsProofs ----------------------------
(***************************************************************************)
(* Proofs about the two limits, the lockout of an identifier (Lockout) and *)
(* the rate limit of a client (RateLimiter).                               *)
(*                                                                         *)
(* Lockout, for any number of handlers in flight, any threshold,           *)
(* durations, number of retries and bound on the clock.                    *)
(*                                                                         *)
(* GuessBound counts.  While the record is not locked, the guesses whose   *)
(* handler is done are fewer than the threshold, for a handler is done     *)
(* only after its guess has been counted and the count compared.  Once it  *)
(* is locked nobody new gets to try a password, so what may still come is  *)
(* one guess for each handler that had passed the check.                   *)
(*                                                                         *)
(* RateLimiter, second part: what passed a replica is what its entry       *)
(* remembers of the last window; and the shared row has counted every      *)
(* request that was admitted or still may be.                              *)
(***************************************************************************)
EXTENDS Lockout, RateLimiter, FiniteSetTheorems, TLAPS

\* Handlers whose guess is among guesses, those of them that have not counted
\* it, and handlers that are about to try a password.
Fresh     == {p \in Tasks : task[p].fresh}
Uncounted == {p \in Fresh : task[p].pc = "count"}
Trying    == {p \in Tasks : task[p].pc = "attempt"}

\* A handler remembers its guess while it records it, and what it writes back
\* is a record without failures and without a lock.
HandlersOK ==
  \A p \in Tasks :
    /\ task[p].fresh => task[p].pc \in {"count", "lock"}
    /\ task[p].pc \in {"save", "resetsave"} =>
         task[p].copy.attempts = 0 /\ task[p].copy.status = "Normal"

RecordOK == rec.exists \/ (rec.attempts = 0 /\ rec.status = "Normal")

CountsOK ==
  /\ Cardinality(Fresh) <= guesses
  /\ rec.status = "Normal" =>
       /\ guesses <= Cardinality(Fresh) + MaxAttempts - 1
       /\ rec.attempts < MaxAttempts => guesses <= Cardinality(Uncounted) + rec.attempts
  /\ rec.status = "Locked" =>
       guesses + Cardinality(Trying) <= MaxAttempts + Cardinality(Tasks) - 1

LockoutInv == TypeOK /\ HandlersOK /\ RecordOK /\ CountsOK

---------------------------------------------------------------------------
(***************************************************************************)
(* Counting handlers.                                                      *)
(***************************************************************************)

\* A set of handlers is finite, and no larger than the set of all.
LEMMA Count ==
  ASSUME NEW S \in SUBSET Tasks
  PROVE  /\ IsFiniteSet(S) /\ Cardinality(S) \in Nat
         /\ Cardinality(S) <= Cardinality(Tasks)
         /\ Cardinality(Tasks) \in Nat
  BY LockoutAssumption, FS_Subset, FS_CardinalityType

\* Sets that differ in one handler at most.
LEMMA OneDiffers ==
  ASSUME NEW S \in SUBSET Tasks, NEW R \in SUBSET Tasks, NEW p \in Tasks,
         \A q \in Tasks : q # p => (q \in S <=> q \in R)
  PROVE  Cardinality(R) + (IF p \in S THEN 1 ELSE 0)
           = Cardinality(S) + (IF p \in R THEN 1 ELSE 0)
  <1>1. CASE p \in S <=> p \in R
    <2>1. S = R
      BY <1>1
    <2> QED
      BY <2>1, Count
  <1>2. CASE p \in S /\ p \notin R
    <2>1. R = S \ {p}
      BY <1>2
    <2>2. Cardinality(R) = Cardinality(S) - 1
      BY <1>2, <2>1, Count, FS_RemoveElement
    <2> QED
      BY <1>2, <2>2, Count
  <1>3. CASE p \notin S /\ p \in R
    <2>1. R = S \cup {p}
      BY <1>3
    <2>2. Cardinality(R) = Cardinality(S) + 1
      BY <1>3, <2>1, Count, FS_AddElement
    <2> QED
      BY <1>3, <2>2, Count
  <1> QED
    BY <1>1, <1>2, <1>3

\* Disjoint sets of handlers.
LEMMA DisjointCount ==
  ASSUME NEW S \in SUBSET Tasks, NEW R \in SUBSET Tasks, S \cap R = {}
  PROVE  Cardinality(S) + Cardinality(R) <= Cardinality(Tasks)
  <1>1. Cardinality(S \cup R) = Cardinality(S) + Cardinality(R) - Cardinality(S \cap R)
    BY Count, FS_Union
  <1>2. Cardinality(S \cap R) = 0
    BY FS_EmptySet
  <1>3. Cardinality(S \cup R) <= Cardinality(Tasks)
    BY Count
  <1> QED
    BY <1>1, <1>2, <1>3, Count

LEMMA Sets ==
  /\ Fresh \in SUBSET Tasks /\ Uncounted \in SUBSET Tasks /\ Trying \in SUBSET Tasks
  /\ Uncounted \in SUBSET Fresh
  BY DEF Fresh, Uncounted, Trying

LEMMA SetsNext ==
  /\ Fresh' \in SUBSET Tasks /\ Uncounted' \in SUBSET Tasks /\ Trying' \in SUBSET Tasks
  /\ Uncounted' \in SUBSET Fresh'
  BY DEF Fresh, Uncounted, Trying

\* What a set of handlers counts for p: 1 if it is in, 0 otherwise.
In(p, S) == IF p \in S THEN 1 ELSE 0

\* A step of one handler changes each count by what it does to that handler.
LEMMA OneMoves ==
  ASSUME TypeOK, NEW p \in Tasks, NEW w \in Task, task' = [task EXCEPT ![p] = w]
  PROVE  /\ p \in Fresh' <=> w.fresh
         /\ p \in Uncounted' <=> (w.fresh /\ w.pc = "count")
         /\ p \in Trying' <=> w.pc = "attempt"
         /\ Cardinality(Fresh') + In(p, Fresh) = Cardinality(Fresh) + In(p, Fresh')
         /\ Cardinality(Uncounted') + In(p, Uncounted)
              = Cardinality(Uncounted) + In(p, Uncounted')
         /\ Cardinality(Trying') + In(p, Trying) = Cardinality(Trying) + In(p, Trying')
         /\ task' \in [Tasks -> Task]
  <1>1. task' \in [Tasks -> Task] /\ task'[p] = w
        /\ \A q \in Tasks : q # p => task'[q] = task[q]
    BY DEF TypeOK
  <1>2. /\ p \in Fresh' <=> w.fresh
        /\ p \in Uncounted' <=> (w.fresh /\ w.pc = "count")
        /\ p \in Trying' <=> w.pc = "attempt"
    BY <1>1, Zenon DEF Fresh, Uncounted, Trying
  <1>3. \A q \in Tasks : q # p => /\ q \in Fresh <=> q \in Fresh'
                                  /\ q \in Uncounted <=> q \in Uncounted'
                                  /\ q \in Trying <=> q \in Trying'
    BY <1>1, Zenon DEF Fresh, Uncounted, Trying
  <1>4. Cardinality(Fresh') + In(p, Fresh) = Cardinality(Fresh) + In(p, Fresh')
    BY <1>3, Sets, SetsNext, OneDiffers DEF In
  <1>5. Cardinality(Uncounted') + In(p, Uncounted)
          = Cardinality(Uncounted) + In(p, Uncounted')
    BY <1>3, Sets, SetsNext, OneDiffers DEF In
  <1>6. Cardinality(Trying') + In(p, Trying) = Cardinality(Trying) + In(p, Trying')
    BY <1>3, Sets, SetsNext, OneDiffers DEF In
  <1> QED
    BY <1>1, <1>2, <1>4, <1>5, <1>6

---------------------------------------------------------------------------
(***************************************************************************)
(* What a handler can become, and what is kept of HandlersOK by its step.  *)
(***************************************************************************)

\* A handler as HandlersOK wants it.
Proper(t) ==
  /\ t.fresh => t.pc \in {"count", "lock"}
  /\ t.pc \in {"save", "resetsave"} => t.copy.attempts = 0 /\ t.copy.status = "Normal"

LEMMA ProperKept ==
  ASSUME TypeOK, HandlersOK, NEW p \in Tasks, NEW w \in Task, Proper(w),
         task' = [task EXCEPT ![p] = w]
  PROVE  HandlersOK'
  <1>1. task'[p] = w /\ \A q \in Tasks : q # p => task'[q] = task[q]
    BY DEF TypeOK
  <1>2. \A q \in Tasks : Proper(task'[q])
    BY <1>1, Zenon DEF HandlersOK, Proper
  <1> QED
    BY <1>2, Zenon DEF HandlersOK, Proper

LEMMA NoRecordType == NoRecord \in Record
  BY LockoutAssumption DEF NoRecord, Record, CountCap

LEMMA TaskTypes ==
  /\ IdleTask \in Task /\ IdleTask.pc = "idle" /\ IdleTask.fresh = FALSE
  BY NoRecordType, LockoutAssumption DEF IdleTask, Task

LEMMA RecordTypes ==
  ASSUME NEW r \in Record
  PROVE  /\ Unlocked(r) \in Record
         /\ Unlocked(r).attempts = 0 /\ Unlocked(r).status = "Normal"
         /\ [r EXCEPT !.attempts = 0] \in Record
         /\ [r EXCEPT !.attempts = 0].attempts = 0
         /\ [r EXCEPT !.attempts = 0].status = r.status
  <1>1. 0 \in 0..CountCap
    BY LockoutAssumption DEF CountCap
  <1>2. /\ [r EXCEPT !.attempts = 0] \in Record
        /\ [r EXCEPT !.attempts = 0].attempts = 0
        /\ [r EXCEPT !.attempts = 0].status = r.status
    BY <1>1 DEF Record
  <1>3. Unlocked(r) \in Record
    BY <1>1 DEF Record, Unlocked
  <1>4. Unlocked(r).attempts = 0 /\ Unlocked(r).status = "Normal"
    BY DEF Record, Unlocked
  <1> QED
    BY <1>2, <1>3, <1>4

\* A step of one handler that has no guess to its name before or after, and
\* leaves the record and the history alone.  It gets to try a password only
\* if the record is not locked.
LEMMA QuietStep ==
  ASSUME LockoutInv, NEW p \in Tasks, NEW w \in Task,
         task' = [task EXCEPT ![p] = w], Proper(w), UNCHANGED <<rec, now, guesses>>,
         task[p].fresh = FALSE, w.fresh = FALSE,
         w.pc = "attempt" => rec.status = "Normal"
  PROVE  LockoutInv'
  <1>1. TypeOK /\ HandlersOK /\ RecordOK /\ CountsOK
    BY DEF LockoutInv
  <1>2. TypeOK'
    BY <1>1, OneMoves DEF TypeOK
  <1>3. HandlersOK'
    BY <1>1, ProperKept
  <1>4. p \notin Fresh /\ p \notin Uncounted
    BY Zenon DEF Fresh, Uncounted
  <1>5. p \notin Fresh' /\ p \notin Uncounted' /\ (p \in Trying' <=> w.pc = "attempt")
    BY <1>1, OneMoves
  <1>6. /\ Cardinality(Fresh') = Cardinality(Fresh)
        /\ Cardinality(Uncounted') = Cardinality(Uncounted)
        /\ w.pc # "attempt" => Cardinality(Trying') <= Cardinality(Trying)
    <2>1. /\ Cardinality(Fresh') + In(p, Fresh) = Cardinality(Fresh) + In(p, Fresh')
          /\ Cardinality(Uncounted') + In(p, Uncounted)
               = Cardinality(Uncounted) + In(p, Uncounted')
          /\ Cardinality(Trying') + In(p, Trying) = Cardinality(Trying) + In(p, Trying')
      BY <1>1, OneMoves
    <2> QED
      BY <1>4, <1>5, <2>1, Sets, SetsNext, Count DEF In
  <1>7. CountsOK'
    <2>1. rec' = rec /\ guesses' = guesses
      OBVIOUS
    <2>2. rec.status = "Locked" => w.pc # "attempt"
      OBVIOUS
    <2> QED
      BY <1>1, <1>6, <2>1, <2>2, Sets, SetsNext, Count, LockoutAssumption
      DEF CountsOK, TypeOK
  <1> QED
    BY <1>1, <1>2, <1>3, <1>7 DEF LockoutInv, RecordOK

\* The same when the handler has no further step.
LEMMA QuietEnd ==
  ASSUME LockoutInv, NEW p \in Tasks, End(p), task[p].fresh = FALSE,
         UNCHANGED <<rec, now, guesses>>
  PROVE  LockoutInv'
  <1>1. task' = [task EXCEPT ![p] = IdleTask]
    BY DEF End
  <1>2. Proper(IdleTask)
    BY TaskTypes DEF Proper
  <1> QED
    BY <1>1, <1>2, TaskTypes, QuietStep

\* And when it moves to another step, or to one with something to write back.
LEMMA QuietGoto ==
  ASSUME LockoutInv, NEW p \in Tasks, NEW x \in {"attempt", "reset"}, Goto(p, x),
         task[p].fresh = FALSE, UNCHANGED <<rec, now, guesses>>,
         x = "attempt" => rec.status = "Normal"
  PROVE  LockoutInv'
  <1>1. task[p] \in Task
    BY DEF LockoutInv, TypeOK
  <1> DEFINE w == [task[p] EXCEPT !.pc = x]
  <1>2. task' = [task EXCEPT ![p] = w]
    BY DEF Goto
  <1>3. w \in Task /\ w.pc = x /\ w.fresh = FALSE
    BY <1>1 DEF Task
  <1> HIDE DEF w
  <1>4. Proper(w)
    BY <1>3 DEF Proper
  <1> QED
    BY <1>2, <1>3, <1>4, QuietStep

LEMMA QuietSave ==
  ASSUME LockoutInv, NEW p \in Tasks, NEW x \in {"save", "resetsave"}, NEW r \in Record,
         task' = [task EXCEPT ![p] = [task[p] EXCEPT !.pc = x, !.copy = r]],
         r.attempts = 0, r.status = "Normal",
         task[p].fresh = FALSE, UNCHANGED <<rec, now, guesses>>
  PROVE  LockoutInv'
  <1>1. task[p] \in Task
    BY DEF LockoutInv, TypeOK
  <1> DEFINE w == [task[p] EXCEPT !.pc = x, !.copy = r]
  <1>2. w \in Task /\ w.pc = x /\ w.copy = r /\ w.fresh = FALSE
    BY <1>1 DEF Task
  <1>3. task' = [task EXCEPT ![p] = w]
    OBVIOUS
  <1> HIDE DEF w
  <1>4. Proper(w)
    BY <1>2 DEF Proper
  <1> QED
    BY <1>2, <1>3, <1>4, QuietStep

\* Only a handler that is recording its guess has one to its name.
LEMMA NotFresh ==
  ASSUME LockoutInv, NEW p \in Tasks, task[p].pc \notin {"count", "lock"}
  PROVE  task[p].fresh = FALSE
  <1>1. task[p].fresh \in BOOLEAN
    BY DEF LockoutInv, TypeOK, Task
  <1>2. ~task[p].fresh
    BY Zenon DEF LockoutInv, HandlersOK
  <1> QED
    BY <1>1, <1>2

---------------------------------------------------------------------------
(***************************************************************************)
(* The invariant, one step per action.                                     *)
(***************************************************************************)

LEMMA InitInv == Init => LockoutInv
  <1> SUFFICES ASSUME Init PROVE LockoutInv
    OBVIOUS
  <1>1. TypeOK
    BY TaskTypes, NoRecordType DEF Init, TypeOK
  <1>2. \A p \in Tasks : task[p].fresh = FALSE /\ task[p].pc = "idle"
    BY TaskTypes DEF Init
  <1>3. HandlersOK
    BY <1>2, Zenon DEF HandlersOK
  <1>4. RecordOK /\ rec.status = "Normal" /\ rec.attempts = 0 /\ guesses = 0
    BY DEF Init, RecordOK, NoRecord
  <1>5. Fresh = {} /\ Uncounted = {}
    BY <1>2, Zenon DEF Fresh, Uncounted
  <1>6. CountsOK
    BY <1>4, <1>5, FS_EmptySet, LockoutAssumption DEF CountsOK
  <1> QED
    BY <1>1, <1>3, <1>4, <1>6 DEF LockoutInv

LEMMA StartKeeps ==
  ASSUME LockoutInv, NEW p \in Tasks, NEW k \in {"login", "query", "unlock"}, Start(p, k)
  PROVE  LockoutInv'
  <1> DEFINE w == [IdleTask EXCEPT !.pc = "read", !.kind = k]
  <1>1. w \in Task /\ w.pc = "read" /\ w.fresh = FALSE
    BY TaskTypes DEF Task
  <1>2. /\ task' = [task EXCEPT ![p] = w] /\ UNCHANGED <<rec, now, guesses>>
        /\ task[p].pc = "idle"
    BY DEF Start
  <1> HIDE DEF w
  <1>3. Proper(w)
    BY <1>1 DEF Proper
  <1>4. task[p].fresh = FALSE
    BY <1>2, NotFresh
  <1> QED
    BY <1>1, <1>2, <1>3, <1>4, QuietStep

LEMMA PassedKeeps ==
  ASSUME LockoutInv, NEW p \in Tasks, Passed(p), task[p].fresh = FALSE,
         UNCHANGED <<rec, now, guesses>>, rec.status = "Normal"
  PROVE  LockoutInv'
  <1>1. Goto(p, "attempt") \/ End(p)
    BY DEF Passed
  <1>2. CASE Goto(p, "attempt")
    BY <1>2, QuietGoto
  <1>3. CASE End(p)
    BY <1>3, QuietEnd
  <1> QED
    BY <1>1, <1>2, <1>3

LEMMA SaveFirstKeeps ==
  ASSUME LockoutInv, NEW p \in Tasks, NEW r \in Record, SaveFirst(p, r),
         r.attempts = 0, r.status = "Normal", task[p].fresh = FALSE,
         UNCHANGED <<rec, now, guesses>>
  PROVE  LockoutInv'
  <1>1. task' = [task EXCEPT ![p] = [task[p] EXCEPT !.pc = "save", !.copy = r]]
    BY DEF SaveFirst
  <1> QED
    BY <1>1, QuietSave

\* A check that lets a login pass has seen a record that is not locked: a lock
\* that ran out is lifted first.
LEMMA CheckKeeps ==
  ASSUME LockoutInv, NEW p \in Tasks, CheckLockout(p)
  PROVE  LockoutInv'
  <1>1. task[p].fresh = FALSE /\ UNCHANGED <<rec, now, guesses>>
    BY NotFresh DEF CheckLockout
  <1>2. rec \in Record /\ RecordOK /\ now \in Nat
    BY DEF LockoutInv, TypeOK
  <1>3. CASE ~rec.exists /\ Passed(p)
    BY <1>1, <1>2, <1>3, PassedKeeps DEF RecordOK
  <1>4. CASE SaveFirst(p, Unlocked(rec))
    BY <1>1, <1>2, <1>4, RecordTypes, SaveFirstKeeps
  <1>5. CASE rec.status = "Normal" /\ SaveFirst(p, [rec EXCEPT !.attempts = 0])
    BY <1>1, <1>2, <1>5, RecordTypes, SaveFirstKeeps
  <1>6. CASE End(p)
    BY <1>1, <1>6, QuietEnd
  <1>7. CASE /\ ~(Expired(rec) /\ rec.status # "Normal")
             /\ ~IsLocked(rec) /\ Passed(p)
    <2>1. rec.status \in {"Normal", "Locked"} /\ rec.until \in Nat
      BY <1>2 DEF Record
    <2>2. rec.status = "Normal"
      BY <1>2, <1>7, <2>1 DEF Expired, IsLocked
    <2> QED
      BY <1>1, <1>7, <2>2, PassedKeeps
  <1> QED
    BY <1>3, <1>4, <1>5, <1>6, <1>7, Zenon DEF CheckLockout

LEMMA UnlockKeeps ==
  ASSUME LockoutInv, NEW p \in Tasks, ReadToUnlock(p)
  PROVE  LockoutInv'
  <1>1. task[p].fresh = FALSE /\ UNCHANGED <<rec, now, guesses>>
    BY NotFresh DEF ReadToUnlock
  <1>2. rec \in Record
    BY DEF LockoutInv, TypeOK
  <1>3. CASE SaveFirst(p, Unlocked(rec))
    BY <1>1, <1>2, <1>3, RecordTypes, SaveFirstKeeps
  <1>4. CASE End(p)
    BY <1>1, <1>4, QuietEnd
  <1> QED
    BY <1>3, <1>4, Zenon DEF ReadToUnlock

LEMMA RightKeeps ==
  ASSUME LockoutInv, NEW p \in Tasks, RightGuess(p)
  PROVE  LockoutInv'
  <1>1. task[p].fresh = FALSE /\ UNCHANGED <<rec, now, guesses>>
    BY NotFresh DEF RightGuess
  <1>2. CASE Goto(p, "reset")
    BY <1>1, <1>2, QuietGoto
  <1>3. CASE End(p)
    BY <1>1, <1>3, QuietEnd
  <1> QED
    BY <1>2, <1>3 DEF RightGuess

LEMMA ReadToResetKeeps ==
  ASSUME LockoutInv, NEW p \in Tasks, ReadToReset(p)
  PROVE  LockoutInv'
  <1>1. task[p].fresh = FALSE /\ UNCHANGED <<rec, now, guesses>>
    BY NotFresh DEF ReadToReset
  <1>2. rec \in Record
    BY DEF LockoutInv, TypeOK
  <1>3. CASE task' = [task EXCEPT ![p] = [task[p] EXCEPT !.pc = "resetsave",
                                                         !.copy = Unlocked(rec)]]
    BY <1>1, <1>2, <1>3, RecordTypes, QuietSave
  <1>4. CASE End(p)
    BY <1>1, <1>4, QuietEnd
  <1> QED
    BY <1>3, <1>4, Zenon DEF ReadToReset

\* Whatever zeroes the record starts the count anew.
LEMMA ZeroedKeeps ==
  ASSUME LockoutInv, NEW t \in [Tasks -> Task], task' = Zeroed(t),
         \A q \in Tasks : t[q].pc \in {"save", "resetsave"} =>
           t[q].copy.attempts = 0 /\ t[q].copy.status = "Normal",
         rec' \in Record, rec'.attempts = 0, rec'.status = "Normal",
         guesses' = 0, now' = now
  PROVE  LockoutInv'
  <1>1. \A q \in Tasks : /\ task'[q] \in Task
                         /\ task'[q].fresh = FALSE
                         /\ task'[q].pc = t[q].pc
                         /\ task'[q].copy = t[q].copy
    BY DEF Zeroed, Task
  <1>2. TypeOK'
    BY <1>1 DEF LockoutInv, TypeOK, Zeroed
  <1>3. HandlersOK'
    BY <1>1, Zenon DEF HandlersOK
  <1>4. Fresh' = {} /\ Uncounted' = {}
    BY <1>1, Zenon DEF Fresh, Uncounted
  <1>5. CountsOK'
    <2>1. Cardinality(Fresh') = 0 /\ Cardinality(Uncounted') = 0
      BY <1>4, FS_EmptySet
    <2> QED
      BY <2>1, LockoutAssumption DEF CountsOK
  <1> QED
    BY <1>2, <1>3, <1>5 DEF LockoutInv, RecordOK

LEMMA SaveRecordKeeps ==
  ASSUME LockoutInv, NEW p \in Tasks, SaveRecord(p)
  PROVE  LockoutInv'
  <1>1. task \in [Tasks -> Task] /\ HandlersOK
    BY DEF LockoutInv, TypeOK
  <1> DEFINE w == IF task[p].kind = "login" /\ task[p].pc = "save"
                    THEN [task[p] EXCEPT !.pc = "attempt"] ELSE IdleTask
             t == [task EXCEPT ![p] = w]
  <1>2. task' = Zeroed(t)
    BY DEF SaveRecord
  <1>3. w \in Task /\ w.pc \in {"attempt", "idle"}
    BY <1>1, TaskTypes DEF Task
  <1>4. /\ rec' = task[p].copy /\ guesses' = 0 /\ now' = now
        /\ task[p].pc \in {"save", "resetsave"}
    BY DEF SaveRecord
  <1> HIDE DEF w
  <1>5. t \in [Tasks -> Task] /\ t[p] = w /\ \A q \in Tasks : q # p => t[q] = task[q]
    BY <1>1, <1>3
  <1> HIDE DEF t
  <1>6. \A q \in Tasks : t[q].pc \in {"save", "resetsave"} =>
          t[q].copy.attempts = 0 /\ t[q].copy.status = "Normal"
    BY <1>1, <1>3, <1>5 DEF HandlersOK
  <1>7. rec' \in Record /\ rec'.attempts = 0 /\ rec'.status = "Normal"
    BY <1>1, <1>4 DEF HandlersOK, Task
  <1> QED
    BY <1>2, <1>4, <1>5, <1>6, <1>7, ZeroedKeeps

LEMMA CleanupKeeps ==
  ASSUME LockoutInv, CleanupExpired
  PROVE  LockoutInv'
  <1>1. task \in [Tasks -> Task] /\ HandlersOK
    BY DEF LockoutInv, TypeOK
  <1>2. task' = Zeroed(task) /\ rec' = NoRecord /\ guesses' = 0 /\ now' = now
    BY DEF CleanupExpired
  <1>3. rec' \in Record /\ rec'.attempts = 0 /\ rec'.status = "Normal"
    BY <1>2, NoRecordType DEF NoRecord
  <1>4. \A q \in Tasks : task[q].pc \in {"save", "resetsave"} =>
          task[q].copy.attempts = 0 /\ task[q].copy.status = "Normal"
    BY <1>1 DEF HandlersOK
  <1> QED
    BY <1>1, <1>2, <1>3, <1>4, ZeroedKeeps

\* The guess joins both Fresh and Uncounted, and its handler leaves Trying.
LEMMA WrongKeeps ==
  ASSUME LockoutInv, NEW p \in Tasks, WrongGuess(p)
  PROVE  LockoutInv'
  <1>1. TypeOK /\ HandlersOK /\ RecordOK /\ CountsOK /\ task[p] \in Task
    BY DEF LockoutInv, TypeOK
  <1> DEFINE w == [task[p] EXCEPT !.pc = "count", !.fresh = TRUE]
  <1>2. w \in Task /\ w.pc = "count" /\ w.fresh = TRUE
    BY <1>1 DEF Task
  <1>3. /\ task' = [task EXCEPT ![p] = w]
        /\ rec' = rec /\ now' = now /\ guesses' = guesses + 1
        /\ task[p].pc = "attempt"
    BY DEF WrongGuess
  <1> HIDE DEF w
  <1>4. p \notin Fresh /\ p \notin Uncounted /\ p \in Trying
    <2>1. task[p].fresh = FALSE
      BY <1>3, NotFresh
    <2> QED
      BY <1>3, <2>1, Zenon DEF Fresh, Uncounted, Trying
  <1>5. p \in Fresh' /\ p \in Uncounted' /\ p \notin Trying'
    BY <1>1, <1>2, <1>3, OneMoves
  <1>6. /\ Cardinality(Fresh') = Cardinality(Fresh) + 1
        /\ Cardinality(Uncounted') = Cardinality(Uncounted) + 1
        /\ Cardinality(Trying') = Cardinality(Trying) - 1
    <2>1. /\ Cardinality(Fresh') + In(p, Fresh) = Cardinality(Fresh) + In(p, Fresh')
          /\ Cardinality(Uncounted') + In(p, Uncounted)
               = Cardinality(Uncounted) + In(p, Uncounted')
          /\ Cardinality(Trying') + In(p, Trying) = Cardinality(Trying) + In(p, Trying')
      BY <1>1, <1>2, <1>3, OneMoves
    <2> QED
      BY <1>4, <1>5, <2>1, Sets, SetsNext, Count DEF In
  <1>7. TypeOK'
    BY <1>1, <1>2, <1>3, OneMoves DEF TypeOK
  <1>8. HandlersOK'
    <2>1. Proper(w)
      BY <1>2 DEF Proper
    <2> QED
      BY <1>1, <1>2, <1>3, <2>1, ProperKept
  <1>9. CountsOK'
    <2>1. rec.attempts \in Nat
      BY <1>1, LockoutAssumption DEF TypeOK, Record, CountCap
    <2> QED
      BY <1>1, <1>3, <1>6, <2>1, Sets, SetsNext, Count, LockoutAssumption
      DEF CountsOK, TypeOK
  <1> QED
    BY <1>1, <1>3, <1>7, <1>8, <1>9 DEF LockoutInv, RecordOK

\* The record counts one more; if that is this handler's guess, it is no
\* longer uncounted.
LEMMA CountKeeps ==
  ASSUME LockoutInv, NEW p \in Tasks, CountFailure(p)
  PROVE  LockoutInv'
  <1>1. TypeOK /\ HandlersOK /\ RecordOK /\ CountsOK /\ task[p] \in Task
    BY DEF LockoutInv, TypeOK
  <1> DEFINE w == [task[p] EXCEPT !.pc = "lock"]
  <1>2. w \in Task /\ w.pc = "lock" /\ w.fresh = task[p].fresh
    BY <1>1 DEF Task
  <1>3. /\ task' = [task EXCEPT ![p] = w]
        /\ now' = now /\ guesses' = guesses
        /\ task[p].pc = "count"
    BY DEF CountFailure, Goto
  <1> HIDE DEF w
  <1>4. /\ rec' \in Record /\ rec'.exists = TRUE /\ rec'.status = rec.status
        /\ rec'.attempts = IF rec.attempts < CountCap THEN rec.attempts + 1
                           ELSE rec.attempts
        /\ rec.attempts \in 0..CountCap
    <2>1. /\ rec \in Record /\ now \in Nat
          /\ rec' = [rec EXCEPT !.exists = TRUE, !.last = now,
                       !.attempts = IF rec.attempts < CountCap THEN rec.attempts + 1
                                    ELSE rec.attempts]
      BY <1>1 DEF TypeOK, CountFailure
    <2>2. rec.attempts \in 0..CountCap
      BY <2>1 DEF Record
    <2>3. (IF rec.attempts < CountCap THEN rec.attempts + 1 ELSE rec.attempts)
            \in 0..CountCap
      BY <2>2, LockoutAssumption DEF CountCap
    <2> QED
      BY <2>1, <2>2, <2>3 DEF Record
  <1>5. /\ p \in Fresh <=> p \in Fresh'
        /\ p \in Fresh <=> p \in Uncounted
        /\ p \notin Uncounted' /\ p \notin Trying /\ p \notin Trying'
    <2>1. /\ p \in Fresh' <=> w.fresh
          /\ p \in Uncounted' <=> (w.fresh /\ w.pc = "count")
          /\ p \in Trying' <=> w.pc = "attempt"
      BY <1>1, <1>2, <1>3, OneMoves
    <2>2. p \in Fresh <=> task[p].fresh
      BY Zenon DEF Fresh
    <2>3. p \in Fresh <=> p \in Uncounted
      BY <1>3 DEF Uncounted
    <2>4. p \notin Trying
      BY <1>3 DEF Trying
    <2>5. p \in Fresh <=> p \in Fresh'
      BY <1>2, <2>1, <2>2, Zenon
    <2>6. p \notin Uncounted' /\ p \notin Trying'
      BY <1>2, <2>1
    <2> QED
      BY <2>3, <2>4, <2>5, <2>6
  <1>6. /\ Cardinality(Fresh') = Cardinality(Fresh)
        /\ Cardinality(Uncounted') + 1 >= Cardinality(Uncounted)
        /\ Cardinality(Trying') = Cardinality(Trying)
    <2>1. /\ Cardinality(Fresh') + In(p, Fresh) = Cardinality(Fresh) + In(p, Fresh')
          /\ Cardinality(Uncounted') + In(p, Uncounted)
               = Cardinality(Uncounted) + In(p, Uncounted')
          /\ Cardinality(Trying') + In(p, Trying) = Cardinality(Trying) + In(p, Trying')
      BY <1>1, <1>2, <1>3, OneMoves
    <2> QED
      BY <1>5, <2>1, Sets, SetsNext, Count DEF In
  <1>7. TypeOK'
    BY <1>1, <1>2, <1>3, <1>4, OneMoves DEF TypeOK
  <1>8. HandlersOK'
    <2>1. Proper(w)
      BY <1>2 DEF Proper
    <2> QED
      BY <1>1, <1>2, <1>3, <2>1, ProperKept
  <1>9. CountsOK'
    BY <1>1, <1>3, <1>4, <1>6, Sets, SetsNext, Count, LockoutAssumption
    DEF CountsOK, TypeOK, CountCap
  <1> QED
    BY <1>1, <1>4, <1>7, <1>8, <1>9 DEF LockoutInv, RecordOK

\* A handler ends: its guess leaves Fresh.
LEMMA EndCounts ==
  ASSUME TypeOK, HandlersOK, NEW p \in Tasks, End(p)
  PROVE  /\ task' \in [Tasks -> Task] /\ HandlersOK'
         /\ p \notin Fresh' /\ p \notin Uncounted' /\ p \notin Trying'
         /\ Cardinality(Fresh') = Cardinality(Fresh) - In(p, Fresh)
         /\ Cardinality(Uncounted') = Cardinality(Uncounted) - In(p, Uncounted)
         /\ Cardinality(Trying') = Cardinality(Trying) - In(p, Trying)
  <1>1. task' = [task EXCEPT ![p] = IdleTask] /\ IdleTask \in Task
    BY TaskTypes DEF End
  <1>2. Proper(IdleTask)
    BY TaskTypes DEF Proper
  <1>3. p \notin Fresh' /\ p \notin Uncounted' /\ p \notin Trying'
    BY <1>1, TaskTypes, OneMoves
  <1>4. /\ Cardinality(Fresh') + In(p, Fresh) = Cardinality(Fresh) + In(p, Fresh')
        /\ Cardinality(Uncounted') + In(p, Uncounted)
             = Cardinality(Uncounted) + In(p, Uncounted')
        /\ Cardinality(Trying') + In(p, Trying) = Cardinality(Trying) + In(p, Trying')
        /\ task' \in [Tasks -> Task]
    BY <1>1, OneMoves
  <1>5. HandlersOK'
    BY <1>1, <1>2, ProperKept
  <1> QED
    BY <1>3, <1>4, <1>5, Sets, SetsNext, Count DEF In

\* With the record not locked and the count below the threshold, the guesses
\* are those counted and those still to be counted; at the threshold this step
\* locks, and nobody is both recording a guess and about to try.
LEMMA LockKeeps ==
  ASSUME LockoutInv, NEW p \in Tasks, LockAtThreshold(p)
  PROVE  LockoutInv'
  <1>1. TypeOK /\ HandlersOK /\ RecordOK /\ CountsOK
    BY DEF LockoutInv
  <1>2. rec \in Record /\ now \in Nat /\ rec.attempts \in Nat
        /\ rec.status \in {"Normal", "Locked"}
    BY <1>1, LockoutAssumption DEF TypeOK, Record, CountCap
  <1>3. End(p) /\ now' = now /\ guesses' = guesses /\ task[p].pc = "lock"
    BY DEF LockAtThreshold
  <1>4. p \notin Uncounted /\ p \notin Trying
    BY <1>3 DEF Uncounted, Trying
  <1>5. /\ task' \in [Tasks -> Task] /\ HandlersOK' /\ p \notin Fresh'
        /\ Cardinality(Fresh') = Cardinality(Fresh) - In(p, Fresh)
        /\ Cardinality(Uncounted') = Cardinality(Uncounted)
        /\ Cardinality(Trying') = Cardinality(Trying)
    <2>1. In(p, Uncounted) = 0 /\ In(p, Trying) = 0
      BY <1>4 DEF In
    <2>2. /\ task' \in [Tasks -> Task] /\ HandlersOK' /\ p \notin Fresh'
          /\ Cardinality(Fresh') = Cardinality(Fresh) - In(p, Fresh)
          /\ Cardinality(Uncounted') = Cardinality(Uncounted) - In(p, Uncounted)
          /\ Cardinality(Trying') = Cardinality(Trying) - In(p, Trying)
      BY <1>1, <1>3, EndCounts
    <2> QED
      BY <2>1, <2>2, Sets, SetsNext, Count
  <1>6. Cardinality(Uncounted') <= Cardinality(Fresh')
    BY SetsNext, Count, FS_Subset
  <1>7. CASE rec' = rec /\ ~(rec.attempts >= MaxAttempts /\ rec.status # "Locked")
    <2>1. TypeOK'
      BY <1>1, <1>3, <1>5, <1>7 DEF TypeOK
    <2>2. CountsOK'
      <3>1. Cardinality(Fresh') <= Cardinality(Fresh)
        BY <1>5, Sets, SetsNext, Count DEF In
      <3> QED
        BY <1>1, <1>2, <1>3, <1>5, <1>6, <1>7, <3>1, Sets, SetsNext, Count,
           LockoutAssumption DEF CountsOK, TypeOK
    <2> QED
      BY <1>1, <1>5, <1>7, <2>1, <2>2 DEF LockoutInv, RecordOK
  <1>8. CASE /\ rec.exists /\ rec.status # "Locked"
             /\ rec' = [rec EXCEPT !.status = "Locked", !.until = now + Duration]
    <2>1. rec' \in Record /\ rec'.exists /\ rec'.status = "Locked"
      <3>1. now + Duration \in Nat
        BY <1>2, LockoutAssumption
      <3>2. rec' \in Record
        BY <1>2, <1>8, <3>1 DEF Record
      <3>3. rec'.exists = rec.exists /\ rec'.status = "Locked"
        BY <1>2, <1>8 DEF Record
      <3> QED
        BY <1>8, <3>2, <3>3, Zenon
    <2>2. TypeOK'
      BY <1>1, <1>3, <1>5, <2>1 DEF TypeOK
    <2>3. Cardinality(Fresh) + Cardinality(Trying) <= Cardinality(Tasks)
      <3>1. Fresh \cap Trying = {}
        BY <1>1, Zenon DEF HandlersOK, Fresh, Trying
      <3> QED
        BY <3>1, Sets, DisjointCount
    <2>4. CountsOK'
      <3>1. Cardinality(Fresh') <= Cardinality(Fresh)
        BY <1>5, Sets, SetsNext, Count DEF In
      <3>2. guesses <= Cardinality(Fresh) + MaxAttempts - 1
            /\ Cardinality(Fresh) <= guesses
        BY <1>1, <1>2, <1>8 DEF CountsOK
      <3> QED
        BY <1>1, <1>3, <1>5, <2>1, <2>3, <3>1, <3>2, Sets, SetsNext, Count,
           LockoutAssumption DEF CountsOK, TypeOK
    <2> QED
      BY <1>5, <2>1, <2>2, <2>4 DEF LockoutInv, RecordOK
  <1>9. CASE rec' = rec /\ ~rec.exists
    BY <1>1, <1>2, <1>7, <1>9, LockoutAssumption DEF RecordOK
  <1> QED
    BY <1>7, <1>8, <1>9, Zenon DEF LockAtThreshold

\* A recording that ends with an error takes its guess with it.
LEMMA GiveUpKeeps ==
  ASSUME LockoutInv, NEW p \in Tasks, GiveUp(p), UNCHANGED <<rec, now>>
  PROVE  LockoutInv'
  <1>1. TypeOK /\ HandlersOK /\ RecordOK /\ CountsOK
    BY DEF LockoutInv
  <1>2. End(p) /\ guesses' = guesses - In(p, Fresh)
    <2>1. p \in Fresh <=> task[p].fresh
      BY Zenon DEF Fresh
    <2>2. CASE task[p].fresh
      BY <2>1, <2>2 DEF GiveUp, In
    <2>3. CASE ~task[p].fresh
      BY <1>1, <2>1, <2>3 DEF GiveUp, In, TypeOK
    <2> QED
      BY <2>2, <2>3
  <1>3. /\ task' \in [Tasks -> Task] /\ HandlersOK'
        /\ Cardinality(Fresh') = Cardinality(Fresh) - In(p, Fresh)
        /\ Cardinality(Uncounted') = Cardinality(Uncounted) - In(p, Uncounted)
        /\ Cardinality(Trying') = Cardinality(Trying) - In(p, Trying)
    BY <1>1, <1>2, EndCounts
  <1>4. /\ In(p, Fresh) \in {0, 1} /\ In(p, Uncounted) \in {0, 1}
        /\ In(p, Trying) \in {0, 1} /\ In(p, Uncounted) <= In(p, Fresh)
        /\ In(p, Fresh) <= Cardinality(Fresh)
    <2>1. p \in Fresh => Cardinality(Fresh) >= 1
      BY <1>3, Sets, SetsNext, Count DEF In
    <2> QED
      BY <2>1, Sets, Count DEF In
  <1>5. guesses' \in Nat
    BY <1>1, <1>2, <1>4, Sets, Count DEF CountsOK, TypeOK
  <1>6. TypeOK'
    BY <1>1, <1>3, <1>5 DEF TypeOK
  <1>7. rec.attempts \in Nat
    BY <1>1, LockoutAssumption DEF TypeOK, Record, CountCap
  <1>8. CountsOK'
    BY <1>1, <1>2, <1>3, <1>4, <1>7, Sets, SetsNext, Count, LockoutAssumption
    DEF CountsOK, TypeOK
  <1> QED
    BY <1>1, <1>3, <1>6, <1>8 DEF LockoutInv, RecordOK

\* The query is sent again: a guess that was counted is uncounted once more.
LEMMA RetryKeeps ==
  ASSUME LockoutInv, NEW p \in Tasks, task[p].pc \in {"count", "lock"},
         task[p].tries + 1 < Retries, UNCHANGED <<rec, now, guesses>>,
         task' = [task EXCEPT ![p] = [task[p] EXCEPT !.pc = "count",
                                                     !.tries = task[p].tries + 1]]
  PROVE  LockoutInv'
  <1>1. TypeOK /\ HandlersOK /\ RecordOK /\ CountsOK /\ task[p] \in Task
    BY DEF LockoutInv, TypeOK
  <1> DEFINE w == [task[p] EXCEPT !.pc = "count", !.tries = task[p].tries + 1]
  <1>2. w \in Task /\ w.pc = "count" /\ w.fresh = task[p].fresh
    <2>1. task[p].tries + 1 \in 0..(Retries - 1)
      BY <1>1, LockoutAssumption DEF Task
    <2> QED
      BY <1>1, <2>1 DEF Task
  <1>3. task' = [task EXCEPT ![p] = w]
    OBVIOUS
  <1> HIDE DEF w
  <1>4. /\ p \in Fresh <=> p \in Fresh'
        /\ p \in Uncounted => p \in Uncounted'
        /\ p \notin Trying /\ p \notin Trying'
    <2>1. /\ p \in Fresh' <=> w.fresh
          /\ p \in Uncounted' <=> (w.fresh /\ w.pc = "count")
          /\ p \in Trying' <=> w.pc = "attempt"
      BY <1>1, <1>2, <1>3, OneMoves
    <2>2. p \in Fresh <=> task[p].fresh
      BY Zenon DEF Fresh
    <2>3. p \notin Trying
      BY DEF Trying
    <2>4. p \in Fresh <=> p \in Fresh'
      BY <1>2, <2>1, <2>2, Zenon
    <2>5. p \in Uncounted => p \in Uncounted'
      BY <1>2, <2>1, <2>4, Sets, Zenon
    <2>6. p \notin Trying'
      BY <1>2, <2>1
    <2> QED
      BY <2>3, <2>4, <2>5, <2>6
  <1>5. /\ Cardinality(Fresh') = Cardinality(Fresh)
        /\ Cardinality(Uncounted') >= Cardinality(Uncounted)
        /\ Cardinality(Trying') = Cardinality(Trying)
    <2>1. /\ Cardinality(Fresh') + In(p, Fresh) = Cardinality(Fresh) + In(p, Fresh')
          /\ Cardinality(Uncounted') + In(p, Uncounted)
               = Cardinality(Uncounted) + In(p, Uncounted')
          /\ Cardinality(Trying') + In(p, Trying) = Cardinality(Trying) + In(p, Trying')
      BY <1>1, <1>2, <1>3, OneMoves
    <2> QED
      BY <1>4, <2>1, Sets, SetsNext, Count DEF In
  <1>6. TypeOK'
    BY <1>1, <1>2, <1>3, OneMoves DEF TypeOK
  <1>7. HandlersOK'
    <2>1. Proper(w)
      BY <1>2 DEF Proper
    <2> QED
      BY <1>1, <1>2, <1>3, <2>1, ProperKept
  <1>8. CountsOK'
    <2>1. rec.attempts \in Nat
      BY <1>1, LockoutAssumption DEF TypeOK, Record, CountCap
    <2> QED
      BY <1>1, <1>5, <2>1, Sets, SetsNext, Count, LockoutAssumption
      DEF CountsOK, TypeOK
  <1> QED
    BY <1>1, <1>6, <1>7, <1>8 DEF LockoutInv, RecordOK

LEMMA ConflictKeeps ==
  ASSUME LockoutInv, NEW p \in Tasks, Conflict(p)
  PROVE  LockoutInv'
  <1>1. task[p].pc \in {"count", "lock"} /\ UNCHANGED <<rec, now>>
    BY DEF Conflict
  <1>2. CASE task[p].tries + 1 < Retries
    <2>1. /\ task' = [task EXCEPT ![p] = [task[p] EXCEPT !.pc = "count",
                                                         !.tries = task[p].tries + 1]]
          /\ UNCHANGED <<rec, now, guesses>>
      BY <1>2 DEF Conflict
    <2> QED
      BY <1>1, <1>2, <2>1, RetryKeeps
  <1>3. CASE ~(task[p].tries + 1 < Retries)
    BY <1>1, <1>3, GiveUpKeeps DEF Conflict
  <1> QED
    BY <1>2, <1>3

LEMMA StillKeeps ==
  ASSUME LockoutInv, now' \in Nat, UNCHANGED <<rec, task, guesses>>
  PROVE  LockoutInv'
  <1>1. Fresh' = Fresh /\ Uncounted' = Uncounted /\ Trying' = Trying
    BY DEF Fresh, Uncounted, Trying
  <1> QED
    BY <1>1 DEF LockoutInv, TypeOK, HandlersOK, RecordOK, CountsOK

LEMMA StepKeeps == LockoutInv /\ [Next]_vars => LockoutInv'
  <1> SUFFICES ASSUME LockoutInv, [Next]_vars PROVE LockoutInv'
    OBVIOUS
  <1>1. now \in Nat
    BY DEF LockoutInv, TypeOK
  <1>2. CASE Tick
    BY <1>1, <1>2, StillKeeps DEF Tick
  <1>3. CASE UNCHANGED vars
    BY <1>1, <1>3, StillKeeps DEF vars
  <1>4. CASE CleanupExpired
    BY <1>4, CleanupKeeps
  <1>5. ASSUME NEW p \in Tasks, Fail(p) PROVE LockoutInv'
    BY <1>5, GiveUpKeeps DEF Fail
  <1> QED
    BY <1>2, <1>3, <1>4, <1>5, StartKeeps, CheckKeeps, UnlockKeeps, SaveRecordKeeps,
       WrongKeeps, RightKeeps, ReadToResetKeeps, CountKeeps, LockKeeps, ConflictKeeps
    DEF Next

---------------------------------------------------------------------------

\* The records and the handlers keep their types: the count stays within its
\* bound, every retry within its number, and a recording that ends with an
\* error never takes back more guesses than were made.
THEOREM TypeCorrect == Spec => []TypeOK
  <1>1. LockoutInv => TypeOK
    BY DEF LockoutInv
  <1> QED
    BY <1>1, InitInv, StepKeeps, PTL DEF Spec

\* However many logins, resets, unlocks and cleanups overlap, no more wrong
\* guesses than the threshold, and one for every other handler in flight, get
\* through before the record is next zeroed.
THEOREM GuessBoundHolds == Spec => []GuessBound
  <1>1. LockoutInv => GuessBound
    <2> SUFFICES ASSUME LockoutInv PROVE GuessBound
      OBVIOUS
    <2>1. guesses \in Nat /\ CountsOK /\ rec.status \in {"Normal", "Locked"}
      BY DEF LockoutInv, TypeOK, Record
    <2>2. CASE rec.status = "Locked"
      BY <2>1, <2>2, Sets, Count, LockoutAssumption DEF CountsOK, GuessBound
    <2>3. CASE rec.status = "Normal"
      BY <2>1, <2>3, Sets, Count, LockoutAssumption DEF CountsOK, GuessBound
    <2> QED
      BY <2>1, <2>2, <2>3
  <1> QED
    BY <1>1, InitInv, StepKeeps, PTL DEF Spec

----------------------------------------------------------------------------
(***************************************************************************)
(* The rate limiter: for any finite number of requests in flight, any      *)
(* replicas, and any rule that satisfies RateLimiterAssumption.            *)
(***************************************************************************)

\* A set of stamps at time t: none is of a later time, and those of time t are
\* numbered from one.
Sound(s, t) ==
  /\ s \in Stamps /\ IsFiniteSet(s)
  /\ \A x \in s : x[1] <= t /\ (x[1] = t => x[2] <= Cardinality(At(s, t)))

\* What is known of one replica: what passed is what its entry remembers of the
\* last window, whether or not the cleanup has been there.
LocalOK ==
  \A r \in Replicas :
    /\ Sound(passed[r], clock) /\ Cardinality(passed[r]) <= Max
    /\ passed[r] = Recent(local[r].stamps)
    /\ \A s \in local[r].stamps : s[1] <= clock

\* Nothing lifts a block before its end.
Until(l) == IF l = Shared THEN (IF row = None THEN 0 ELSE row.until) ELSE local[l].until
BlocksOK ==
  \A l \in Layers : block[l] # None =>
    block[l] <= clock /\ (Until(l) = block[l] + Block \/ block[l] + Block <= clock)

\* Requests of this unit of time whose hit is in the row, and those that have
\* moreover found no reason to begin a block.
Counted == {q \in Requests : req[q].pc = "block" /\ req[q].failed = FALSE /\ req[q].at = clock}
Cleared == {q \in Requests : /\ req[q].pc = "read" /\ req[q].failed = FALSE
                             /\ req[q].just = FALSE /\ req[q].at = clock}
Hits == Cardinality(admitted) + Cardinality(Counted) + Cardinality(Cleared)

\* While no query of an earlier time has run in this window: its row counts
\* every request that was or may be admitted, and unless it is blocked they are
\* within the limit.
SharedOK ==
  /\ Cardinality(admitted) <= Max
  /\ (row = None \/ ~IsBlocked(row.until)) =>
       Cardinality(admitted) + Cardinality(Cleared) <= Max
  /\ Hits > 0 => /\ row # None /\ row.window = WindowOf(clock) /\ row.hits >= Hits
                 /\ WindowOf(row.touched) = WindowOf(clock)

\* All of it but the shared counter, and the invariant.
Steady ==
  /\ RateTypeOK /\ Sound(admitted, clock)
  /\ LocalOK /\ BlocksOK /\ BlockHolds
  /\ \A q \in Requests : req[q].at <= clock

RateInv == Steady /\ (straggled = FALSE => SharedOK)

---------------------------------------------------------------------------
(* Stamps.                                                                 *)

\* Members of a finite set, counted; and two sets that differ in one member.
LEMMA Parts ==
  ASSUME NEW F, IsFiniteSet(F), NEW S \in SUBSET F
  PROVE  IsFiniteSet(S) /\ Cardinality(S) \in Nat /\ Cardinality(S) <= Cardinality(F)
  BY FS_Subset, FS_CardinalityType

LEMMA OneApart ==
  ASSUME NEW F, IsFiniteSet(F), NEW S \in SUBSET F, NEW R \in SUBSET F, NEW p,
         \A q : q # p => (q \in S <=> q \in R)
  PROVE  Cardinality(R) + In(p, S) = Cardinality(S) + In(p, R)
  <1>0. IsFiniteSet(S) /\ IsFiniteSet(R) /\ Cardinality(S) \in Nat /\ Cardinality(R) \in Nat
    BY Parts
  <1>1. CASE p \in S <=> p \in R
    <2>1. S = R
      BY <1>1
    <2> QED
      BY <2>1
  <1>2. CASE p \in S /\ p \notin R
    <2>1. R = S \ {p}
      BY <1>2
    <2>2. Cardinality(R) = Cardinality(S) - 1
      BY <1>0, <1>2, <2>1, FS_RemoveElement
    <2> QED
      BY <1>0, <1>2, <2>2 DEF In
  <1>3. CASE p \notin S /\ p \in R
    <2>1. R = S \cup {p}
      BY <1>3
    <2>2. Cardinality(R) = Cardinality(S) + 1
      BY <1>0, <1>3, <2>1, FS_AddElement
    <2> QED
      BY <1>0, <1>3, <2>2 DEF In
  <1> QED
    BY <1>1, <1>2, <1>3

\* A request that is noted is one more.
LEMMA NotedOne ==
  ASSUME clock \in Times, NEW s, Sound(s, clock)
  PROVE  /\ Noted(s) \in Stamps /\ Sound(Noted(s), clock)
         /\ Cardinality(Noted(s)) = Cardinality(s) + 1
         /\ \A t : t # clock => At(Noted(s), t) = At(s, t)
  <1> DEFINE k == Cardinality(At(s, clock)) + 1
             e == <<clock, k>>
  <1>1. /\ s \in SUBSET (Times \X Nat) /\ IsFiniteSet(s) /\ At(s, clock) \in SUBSET s
        /\ \A x \in s : x[1] <= clock /\ (x[1] = clock => x[2] <= Cardinality(At(s, clock)))
    BY DEF Sound, Stamps, At
  <1>2. Cardinality(At(s, clock)) \in Nat /\ IsFiniteSet(At(s, clock))
    BY <1>1, Parts
  <1>3. Noted(s) = s \cup {e} /\ e \in Times \X Nat /\ e[1] = clock /\ e[2] = k
    <2>1. Noted(s) = s \cup {e}
      BY Zenon DEF Noted, e, k
    <2>2. k \in Nat /\ clock \in Times
      BY <1>2
    <2>3. e \in Times \X Nat /\ e[1] = clock /\ e[2] = k
      BY <2>2
    <2> QED
      BY <2>1, <2>3
  <1>4. e \notin s
    <2> SUFFICES ASSUME e \in s PROVE FALSE
      OBVIOUS
    <2>1. k <= Cardinality(At(s, clock))
      BY <1>1, <1>3
    <2> QED
      BY <1>2, <2>1
  <1> HIDE DEF e
  <1>5. IsFiniteSet(Noted(s)) /\ Cardinality(Noted(s)) = Cardinality(s) + 1
    BY <1>1, <1>3, <1>4, FS_AddElement
  <1>6. Noted(s) \in Stamps
    BY <1>1, <1>3 DEF Stamps
  <1>7. \A t : t # clock => At(Noted(s), t) = At(s, t)
    BY <1>3 DEF At
  <1>8. Cardinality(At(Noted(s), clock)) = k
    <2>1. At(Noted(s), clock) = At(s, clock) \cup {e} /\ e \notin At(s, clock)
      BY <1>3, <1>4 DEF At
    <2> QED
      BY <1>2, <2>1, FS_AddElement
  <1>9. \A x \in Noted(s) :
          x[1] <= clock /\ (x[1] = clock => x[2] <= Cardinality(At(Noted(s), clock)))
    <2> SUFFICES ASSUME NEW x \in Noted(s)
                 PROVE  x[1] <= clock /\ (x[1] = clock => x[2] <= k)
      BY <1>8
    <2>1. CASE x \in s
      BY <1>1, <1>2, <2>1
    <2>2. CASE x = e
      BY <1>2, <1>3, <2>2 DEF Times
    <2> QED
      BY <1>3, <2>1, <2>2
  <1> QED
    BY <1>5, <1>6, <1>7, <1>9 DEF Sound

\* Nothing has happened yet at the next time.
LEMMA LaterSound ==
  ASSUME clock \in Times, NEW s, Sound(s, clock), NEW r \in SUBSET s
  PROVE  Sound(r, clock + 1) /\ At(r, clock + 1) = {} /\ Cardinality(r) <= Cardinality(s)
         /\ r \in Stamps
  <1>1. \A x \in s : x[1] \in Nat /\ x[1] <= clock
    BY DEF Sound, Stamps, Times
  <1>2. \A x \in r : x[1] <= clock + 1 /\ x[1] # clock + 1
    BY <1>1 DEF Times
  <1>3. r \in Stamps /\ IsFiniteSet(r) /\ Cardinality(r) <= Cardinality(s)
    BY Parts DEF Sound, Stamps
  <1> QED
    BY <1>2, <1>3 DEF Sound, At

LEMMA NoneSound ==
  \A t : Sound({}, t) /\ At({}, t) = {} /\ {} \in Stamps /\ Cardinality({}) = 0
  BY FS_EmptySet DEF Sound, Stamps, At

---------------------------------------------------------------------------
(* One request moves.                                                      *)

LEMMA SetsOfRequests ==
  /\ IsFiniteSet(Requests)
  /\ Counted \in SUBSET Requests /\ Cardinality(Counted) \in Nat
  /\ Cleared \in SUBSET Requests /\ Cardinality(Cleared) \in Nat
  <1>1. IsFiniteSet(Requests)
    BY RateLimiterAssumption
  <1>2. Counted \in SUBSET Requests /\ Cleared \in SUBSET Requests
    BY DEF Counted, Cleared
  <1> QED
    BY <1>1, <1>2, Parts

LEMMA SetsOfRequestsNext ==
  /\ Counted' \in SUBSET Requests /\ Cardinality(Counted') \in Nat
  /\ Cleared' \in SUBSET Requests /\ Cardinality(Cleared') \in Nat
  <1>1. IsFiniteSet(Requests)
    BY RateLimiterAssumption
  <1>2. Counted' \in SUBSET Requests /\ Cleared' \in SUBSET Requests
    BY DEF Counted, Cleared
  <1> QED
    BY <1>1, <1>2, Parts

\* The counts change by what the step does to q.
LEMMA MoveCounts ==
  ASSUME NEW q \in Requests, clock' = clock,
         \A p \in Requests : p # q => req'[p] = req[p]
  PROVE  /\ Cardinality(Counted') + In(q, Counted) = Cardinality(Counted) + In(q, Counted')
         /\ Cardinality(Cleared') + In(q, Cleared) = Cardinality(Cleared) + In(q, Cleared')
  <1>1. \A p : p # q => (p \in Counted <=> p \in Counted') /\ (p \in Cleared <=> p \in Cleared')
    BY DEF Counted, Cleared
  <1>2. Cardinality(Counted') + In(q, Counted) = Cardinality(Counted) + In(q, Counted')
    BY <1>1, SetsOfRequests, SetsOfRequestsNext, OneApart
  <1>3. Cardinality(Cleared') + In(q, Cleared) = Cardinality(Cleared) + In(q, Cleared')
    BY <1>1, SetsOfRequests, SetsOfRequestsNext, OneApart
  <1> QED
    BY <1>2, <1>3

\* Requests that stop take nothing away from what SharedOK says.
LEMMA FewerOK ==
  ASSUME RateInv, SharedOK, UNCHANGED <<clock, row, admitted>>,
         Counted' \in SUBSET Counted, Cleared' \in SUBSET Cleared
  PROVE  SharedOK'
  <1>1. IsFiniteSet(admitted) /\ RateTypeOK
    BY DEF RateInv, Steady, Sound
  <1>2. IsFiniteSet(Counted) /\ IsFiniteSet(Cleared) /\ Cardinality(admitted) \in Nat
    BY <1>1, SetsOfRequests, Parts, FS_CardinalityType
  <1>3. /\ Cardinality(Counted') <= Cardinality(Counted) /\ Cardinality(Counted') \in Nat
        /\ Cardinality(Cleared') <= Cardinality(Cleared) /\ Cardinality(Cleared') \in Nat
        /\ Cardinality(Counted) \in Nat /\ Cardinality(Cleared) \in Nat
    BY <1>2, Parts, FS_CardinalityType
  <1>4. Max \in Nat /\ (row # None => row.hits \in Nat)
    BY <1>1, RateLimiterAssumption DEF RateTypeOK, Row
  <1>5. Hits' <= Hits /\ Hits' \in Nat /\ Hits \in Nat
    BY <1>2, <1>3 DEF Hits
  <1>6. Cardinality(admitted') <= Max
    BY DEF SharedOK
  <1>7. (row' = None \/ ~IsBlocked(row.until)') =>
          Cardinality(admitted') + Cardinality(Cleared') <= Max
    BY <1>2, <1>3, <1>4 DEF SharedOK, IsBlocked
  <1>8. Hits' > 0 => /\ row' # None /\ row'.window = WindowOf(clock') /\ row'.hits >= Hits'
                     /\ WindowOf(row'.touched) = WindowOf(clock')
    BY <1>4, <1>5 DEF SharedOK, WindowOf
  <1> QED
    BY <1>6, <1>7, <1>8 DEF SharedOK, IsBlocked, WindowOf

---------------------------------------------------------------------------
(* What a step leaves as it was.                                           *)

LEMMA Known ==
  ASSUME Steady
  PROVE  /\ clock \in Times /\ clock \in Nat /\ Max \in Nat /\ Max > 0 /\ Period \in Nat \ {0}
         /\ Block \in Nat /\ Idling \in Nat /\ Period <= Block /\ Block <= Idling /\ 0 < Block
         /\ Shared \notin Replicas /\ None \notin Times /\ None \notin Replicas
         /\ local \in [Replicas -> RequestRecord] /\ passed \in [Replicas -> Stamps]
         /\ req \in [Requests -> Req] /\ block \in [Layers -> Times \cup {None}]
         /\ row \in Row \cup {None} /\ None \notin Row
  BY RateLimiterAssumption DEF Steady, RateTypeOK, Times

LEMMA IdleReq ==
  NoReq \in Req /\ NoReq.pc = "idle" /\ NoReq.at = 0
  <1>1. 0 \in 0..(Tries - 1) /\ 0 \in Times
    BY RateLimiterAssumption DEF Times
  <1> QED
    BY <1>1 DEF NoReq, Req

LEMMA SameLocal ==
  ASSUME Steady, UNCHANGED <<clock, local, passed>>
  PROVE  LocalOK'
  BY DEF Steady, LocalOK, Sound, Recent, At

LEMMA SameAdmitted ==
  ASSUME Steady, UNCHANGED <<clock, admitted>>
  PROVE  Sound(admitted, clock)'
  BY DEF Steady, Sound, At

LEMMA SameBlocks ==
  ASSUME Steady, UNCHANGED <<clock, block>>,
         \A l \in Layers : Until(l)' = Until(l) \/ Until(l) <= clock
  PROVE  BlocksOK'
  BY Known DEF Steady, BlocksOK

\* A block that begins is the only one that changes.
LEMMA BlockBegins ==
  ASSUME Steady, NEW m \in Layers, clock' = clock, Begins(m),
         Until(m)' = clock + Block, \A l \in Layers \ {m} : Until(l)' = Until(l)
  PROVE  BlocksOK' /\ block' \in [Layers -> Times \cup {None}]
  <1>1. /\ block' \in [Layers -> Times \cup {None}] /\ block'[m] = clock
        /\ \A l \in Layers \ {m} : block'[l] = block[l]
    BY Known DEF Begins
  <1> QED
    BY <1>1, Known DEF Steady, BlocksOK

LEMMA NothingPasses ==
  ASSUME Steady, UNCHANGED <<clock, passed, admitted>>,
         \A l \in Layers : block'[l] \in {block[l], None, clock}
  PROVE  BlockHolds'
  BY Known DEF Steady, BlockHolds, At

\* A request that asks the shared counter disturbs nothing but that counter.
Asks(q) ==
  /\ UNCHANGED <<clock, local, passed>>
  /\ faults' \in 0..MaxFaults /\ straggled' \in BOOLEAN
  /\ straggled' = FALSE => straggled = FALSE /\ req[q].at = clock
  /\ req' \in [Requests -> Req] /\ req'[q].at <= clock
  /\ \A p \in Requests : p # q => req'[p] = req[p]

LEMMA AskingSteady ==
  ASSUME Steady, NEW q \in Requests, Asks(q), UNCHANGED <<admitted, block>>,
         row' \in Row \cup {None},
         Until(Shared)' = Until(Shared)
  PROVE  Steady'
  <1>1. RateTypeOK'
    BY DEF Steady, RateTypeOK, Asks
  <1>2. LocalOK' /\ Sound(admitted, clock)' /\ BlockHolds'
    BY SameLocal, SameAdmitted, NothingPasses DEF Asks
  <1>3. BlocksOK'
    <2>1. \A l \in Layers : Until(l)' = Until(l)
      BY DEF Until, Asks
    <2> QED
      BY <2>1, SameBlocks DEF Asks
  <1>4. \A p \in Requests : req'[p].at <= clock'
    BY DEF Asks, Steady
  <1> QED
    BY <1>1, <1>2, <1>3, <1>4 DEF Steady


---------------------------------------------------------------------------
(* The local window.                                                       *)

LEMMA RecentOnes ==
  ASSUME Steady, NEW s \in Stamps
  PROVE  /\ Recent(s) \in SUBSET s /\ Recent(Recent(s)) = Recent(s)
         /\ (\A x \in s : x[1] <= clock) => Recent(Noted(Recent(s))) = Noted(Recent(s))
  <1>1. Recent(s) \in SUBSET s /\ Recent(Recent(s)) = Recent(s)
    BY DEF Recent
  <1>2. \A x \in Noted(Recent(s)) : x[1] + Period > clock
    <2> DEFINE k == Cardinality(At(Recent(s), clock)) + 1
    <2>1. <<clock, k>>[1] = clock
      OBVIOUS
    <2>2. \A x \in Noted(Recent(s)) : x \in Recent(s) \/ x = <<clock, k>>
      BY DEF Noted
    <2> HIDE DEF k
    <2>3. \A x \in Recent(s) : x[1] + Period > clock
      BY DEF Recent
    <2> QED
      BY <2>1, <2>2, <2>3, Known
  <1>3. Recent(Noted(Recent(s))) = Noted(Recent(s))
    BY <1>2 DEF Recent
  <1> QED
    BY <1>1, <1>3

LEMMA ArriveSteady ==
  ASSUME Steady, NEW q \in Requests, NEW r \in Replicas, Arrive(q, r)
  PROVE  Steady'
  <1> DEFINE recent == Recent(local[r].stamps)
  <1>0. /\ clock \in Times /\ clock \in Nat /\ clock' = clock
        /\ local \in [Replicas -> RequestRecord] /\ passed \in [Replicas -> Stamps]
        /\ local[r].stamps \in Stamps /\ local[r].until \in Nat /\ Block \in Nat
        /\ recent = passed[r] /\ Sound(recent, clock) /\ Cardinality(recent) <= Max
        /\ Recent(recent) = recent /\ \A s \in local[r].stamps : s[1] <= clock
        /\ Max \in Nat /\ Shared \notin Replicas /\ r \in Layers
    BY Known, RecentOnes DEF Steady, LocalOK, RequestRecord, Arrive, Layers
  <1>1. /\ Sound(admitted, clock)' /\ UNCHANGED <<row, faults, admitted, straggled>>
        /\ req[q] = NoReq /\ ~IsBlocked(local[r].until)
    BY SameAdmitted DEF Arrive
  <1>2. CASE IsRateLimited(recent)
    <2>1. /\ local' = [local EXCEPT ![r] = [stamps |-> recent, until |-> clock + Block]]
          /\ Begins(r) /\ UNCHANGED <<req, passed>>
      BY <1>2 DEF Arrive
    <2>2. /\ local'[r].stamps = recent /\ local'[r].until = clock + Block
          /\ \A p \in Replicas \ {r} : local'[p] = local[p]
          /\ local' \in [Replicas -> RequestRecord]
      BY <1>0, <2>1 DEF RequestRecord, Sound
    <2>3. BlocksOK' /\ block' \in [Layers -> Times \cup {None}]
      <3>1. Until(r)' = clock + Block /\ \A l \in Layers \ {r} : Until(l)' = Until(l)
        BY <1>0, <1>1, <2>2 DEF Until, Layers
      <3> QED
        BY <1>0, <2>1, <3>1, BlockBegins
    <2>4. BlockHolds'
      <3>1. \A l \in Layers : block'[l] \in {block[l], None, clock}
        BY <2>1, Known DEF Begins
      <3> QED
        BY <1>0, <1>1, <2>1, <3>1, NothingPasses
    <2>5. LocalOK'
      <3> SUFFICES ASSUME NEW p \in Replicas
                   PROVE  /\ Sound(passed'[p], clock) /\ Cardinality(passed'[p]) <= Max
                          /\ passed'[p] = Recent(local'[p].stamps)
                          /\ \A s \in local'[p].stamps : s[1] <= clock
        BY <1>0 DEF LocalOK, Sound, Recent, At
      <3>1. CASE p = r
        BY <1>0, <2>1, <2>2, <3>1 DEF Sound
      <3>2. CASE p # r
        BY <2>1, <2>2, <3>2 DEF Steady, LocalOK
      <3> QED
        BY <3>1, <3>2
    <2> QED
      BY <1>0, <1>1, <2>1, <2>2, <2>3, <2>4, <2>5 DEF Steady, RateTypeOK
  <1>3. CASE ~IsRateLimited(recent)
    <2> DEFINE noted == Noted(recent)
    <2>1. /\ local' = [local EXCEPT ![r].stamps = noted]
          /\ req' = [req EXCEPT ![q] = [NoReq EXCEPT !.pc = "reset", !.rep = r, !.at = clock]]
          /\ passed' = [passed EXCEPT ![r] = noted] /\ block' = block
      BY <1>0, <1>3 DEF Arrive
    <2>2. /\ noted \in Stamps /\ Sound(noted, clock) /\ Cardinality(noted) <= Max
          /\ Recent(noted) = noted /\ \A s \in noted : s[1] <= clock
      <3>1. noted \in Stamps /\ Sound(noted, clock) /\ Cardinality(noted) = Cardinality(recent) + 1
        BY <1>0, NotedOne
      <3>2. Cardinality(recent) \in Nat /\ ~(Cardinality(recent) >= Max)
        BY <1>0, <1>3, FS_CardinalityType DEF IsRateLimited, Sound
      <3>3. Recent(noted) = noted
        BY <1>0, RecentOnes
      <3> QED
        BY <1>0, <3>1, <3>2, <3>3 DEF Sound
    <2> HIDE DEF noted
    <2>3. /\ local'[r].stamps = noted /\ local'[r].until = local[r].until
          /\ \A p \in Replicas \ {r} : local'[p] = local[p]
          /\ local' \in [Replicas -> RequestRecord]
      BY <1>0, <2>1, <2>2 DEF RequestRecord
    <2>4. /\ passed'[r] = noted /\ \A p \in Replicas \ {r} : passed'[p] = passed[p]
          /\ passed' \in [Replicas -> Stamps]
      BY <1>0, <2>1, <2>2
    <2>5. BlocksOK'
      <3>1. \A l \in Layers : Until(l)' = Until(l)
        BY <1>0, <1>1, <2>3 DEF Until, Layers
      <3> QED
        BY <1>0, <2>1, <3>1, SameBlocks
    <2>6. BlockHolds'
      <3>1. block[r] # None => clock < block[r] \/ block[r] + Block <= clock
        BY <1>0, <1>1, Known DEF Steady, BlocksOK, Until, IsBlocked
      <3> SUFFICES ASSUME NEW l \in Layers, block[l] # None, block[l] < clock,
                          clock < block[l] + Block
                   PROVE  At(IF l = Shared THEN admitted' ELSE passed'[l], clock) = {}
        BY <1>0, <2>1 DEF BlockHolds, At
      <3>2. block[l] \in Nat
        BY Known DEF Times
      <3>3. l # r
        BY <1>0, <3>1, <3>2
      <3>4. At(IF l = Shared THEN admitted ELSE passed[l], clock) = {}
        BY DEF Steady, BlockHolds
      <3> QED
        BY <1>1, <2>4, <3>3, <3>4 DEF Layers
    <2>7. LocalOK'
      <3> SUFFICES ASSUME NEW p \in Replicas
                   PROVE  /\ Sound(passed'[p], clock) /\ Cardinality(passed'[p]) <= Max
                          /\ passed'[p] = Recent(local'[p].stamps)
                          /\ \A s \in local'[p].stamps : s[1] <= clock
        BY <1>0 DEF LocalOK, Sound, Recent, At
      <3>1. CASE p = r
        BY <2>2, <2>3, <2>4, <3>1
      <3>2. CASE p # r
        BY <2>3, <2>4, <3>2 DEF Steady, LocalOK
      <3> QED
        BY <3>1, <3>2
    <2>8. req' \in [Requests -> Req] /\ \A p \in Requests : req'[p].at <= clock
      <3> DEFINE new == [NoReq EXCEPT !.pc = "reset", !.rep = r, !.at = clock]
      <3>1. new \in Req /\ new.at = clock
        BY <1>0, IdleReq DEF Req
      <3> HIDE DEF new
      <3>2. req' = [req EXCEPT ![q] = new]
        BY <2>1 DEF new
      <3> QED
        BY <1>0, <3>1, <3>2, Known DEF Steady
    <2> QED
      BY <1>0, <1>1, <2>1, <2>3, <2>4, <2>5, <2>6, <2>7, <2>8 DEF Steady, RateTypeOK
  <1> QED
    BY <1>2, <1>3

---------------------------------------------------------------------------
(* The four statements.                                                    *)

\* A statement moves its request on, and the request keeps its time.
LEMMA StatementAsks ==
  ASSUME Steady, NEW q \in Requests, NEW new, NEW pc \in {"count", "block"},
         Statement(q, new, pc)
  PROVE  /\ Asks(q) /\ UNCHANGED <<admitted, block>>
         /\ req'[q].pc = pc /\ req'[q].at = req[q].at
         /\ \/ row' = new /\ req'[q].failed = req[q].failed
            \/ row' = row /\ req'[q].failed = TRUE
  <1>1. /\ req \in [Requests -> Req] /\ req[q] \in Req /\ faults \in 0..MaxFaults
        /\ straggled \in BOOLEAN /\ req[q].at <= clock /\ MaxFaults \in Nat
        /\ UNCHANGED <<clock, local, passed, admitted, block>> /\ Straggles(q)
    BY Known, RateLimiterAssumption DEF Steady, RateTypeOK, Statement
  <1>2. straggled' \in BOOLEAN /\ (straggled' = FALSE => straggled = FALSE /\ req[q].at = clock)
    BY <1>1 DEF Straggles
  <1>3. CASE row' = new /\ req' = [req EXCEPT ![q].pc = pc] /\ NoFault
    <2>1. /\ req' \in [Requests -> Req] /\ req'[q] = [req[q] EXCEPT !.pc = pc]
          /\ \A p \in Requests : p # q => req'[p] = req[p]
      BY <1>1, <1>3 DEF Req
    <2> QED
      BY <1>1, <1>2, <1>3, <2>1 DEF Asks, NoFault, Req
  <1>4. CASE row' = row /\ req' = [req EXCEPT ![q].pc = pc, ![q].failed = TRUE] /\ Fault
    <2>1. /\ req' \in [Requests -> Req] /\ req'[q] = [req[q] EXCEPT !.pc = pc, !.failed = TRUE]
          /\ \A p \in Requests : p # q => req'[p] = req[p]
      BY <1>1, <1>4 DEF Req
    <2> QED
      BY <1>1, <1>2, <1>4, <2>1 DEF Asks, Fault, Req
  <1> QED
    BY <1>3, <1>4 DEF Statement

LEMMA WindowNat ==
  ASSUME NEW t \in Nat
  PROVE  WindowOf(t) \in Nat
  BY RateLimiterAssumption DEF WindowOf

LEMMA Sizes ==
  ASSUME Steady
  PROVE  /\ Cardinality(admitted) \in Nat /\ Cardinality(Counted) \in Nat
         /\ Cardinality(Cleared) \in Nat /\ Hits \in Nat
         /\ (Hits = 0 => Cardinality(admitted) = 0 /\ Cardinality(Cleared) = 0)
  BY SetsOfRequests, FS_CardinalityType DEF Steady, Sound, Hits

\* 1. Requests that were counted in this window are counted in its row, which
\* is therefore not set back; and setting it back does not lift a block.
LEMMA ResetHitsOK ==
  ASSUME RateInv, NEW q \in Requests, ResetHits(q)
  PROVE  RateInv'
  <1> DEFINE w == WindowOf(req[q].at)
  <1>1. /\ Steady /\ clock \in Nat /\ Max \in Nat
        /\ req[q].at \in Nat /\ w \in Nat /\ req[q].pc = "reset"
        /\ row \in Row \cup {None} /\ None \notin Row
    BY Known, WindowNat DEF RateInv, ResetHits, Row, Req, Times
  <1> DEFINE zero  == [row EXCEPT !.hits = 0, !.window = w]
             fresh == IF row # None /\ row.window # w THEN zero ELSE row
  <1>2. Statement(q, fresh, "count")
    BY DEF ResetHits
  <1>3. /\ Asks(q) /\ UNCHANGED <<admitted, block>>
        /\ req'[q].pc = "count" /\ req'[q].at = req[q].at
        /\ row' = fresh \/ row' = row
    BY <1>1, <1>2, StatementAsks
  <1>4. /\ row' \in Row \cup {None} /\ (row' = None <=> row = None)
        /\ row # None => row'.until = row.until
        /\ row # None /\ row.window = w => row' = row
    <2>1. row # None => zero \in Row /\ zero.until = row.until
      BY <1>1 DEF Row
    <2> HIDE DEF zero
    <2> QED
      BY <1>1, <1>3, <2>1
  <1> HIDE DEF zero, fresh
  <1>5. Steady'
    <2>1. Until(Shared)' = Until(Shared)
      BY <1>4 DEF Until
    <2> QED
      BY <1>1, <1>3, <1>4, <2>1, AskingSteady
  <1>6. ASSUME straggled' = FALSE PROVE SharedOK'
    <2>1. SharedOK /\ req[q].at = clock /\ clock' = clock
      BY <1>3, <1>6 DEF Asks, RateInv
    <2>2. /\ Cardinality(Counted') = Cardinality(Counted)
          /\ Cardinality(Cleared') = Cardinality(Cleared)
      <3>1. q \notin Counted /\ q \notin Counted' /\ q \notin Cleared /\ q \notin Cleared'
        BY <1>1, <1>3 DEF Counted, Cleared
      <3>2. /\ Cardinality(Counted) \in Nat /\ Cardinality(Counted') \in Nat
            /\ Cardinality(Cleared) \in Nat /\ Cardinality(Cleared') \in Nat
        BY SetsOfRequests, SetsOfRequestsNext
      <3> QED
        BY <1>3, <2>1, <3>1, <3>2, MoveCounts DEF In, Asks
    <2>3. Hits' = Hits
      BY <1>3, <2>2 DEF Hits
    <2>4. Hits > 0 => row' = row
      BY <1>4, <2>1 DEF SharedOK
    <2>5. /\ Cardinality(admitted') <= Max
          /\ (row' = None \/ ~IsBlocked(row.until)') =>
               Cardinality(admitted') + Cardinality(Cleared') <= Max
      BY <1>3, <1>4, <2>1, <2>2 DEF SharedOK, IsBlocked
    <2>6. Hits' > 0 => /\ row' # None /\ row'.window = WindowOf(clock') /\ row'.hits >= Hits'
                       /\ WindowOf(row'.touched) = WindowOf(clock')
      BY <2>1, <2>3, <2>4 DEF SharedOK, WindowOf
    <2> QED
      BY <2>5, <2>6 DEF SharedOK, IsBlocked, WindowOf
  <1> QED
    BY <1>5, <1>6 DEF RateInv

\* 2. A hit that is counted makes the request one of Counted and the row one
\* larger.
LEMMA CountHitOK ==
  ASSUME RateInv, NEW q \in Requests, CountHit(q)
  PROVE  RateInv'
  <1> DEFINE w == WindowOf(req[q].at)
  <1>1. /\ Steady /\ clock \in Nat /\ clock \in Times /\ Max \in Nat
        /\ req[q].at \in Nat /\ w \in Nat /\ req[q].pc = "count"
        /\ row \in Row \cup {None} /\ None \notin Row
    BY Known, WindowNat DEF RateInv, CountHit, Row, Req, Times
  <1> DEFINE hit == [hits |-> IF row = None THEN 1 ELSE row.hits + 1, window |-> w,
                     until |-> IF row = None THEN 0 ELSE row.until, touched |-> clock]
  <1>2. Statement(q, hit, "block")
    BY DEF CountHit
  <1>3. /\ Asks(q) /\ UNCHANGED <<admitted, block>>
        /\ req'[q].pc = "block" /\ req'[q].at = req[q].at
        /\ \/ row' = hit /\ req'[q].failed = req[q].failed
           \/ row' = row /\ req'[q].failed = TRUE
    BY <1>1, <1>2, StatementAsks
  <1>4. /\ hit \in Row /\ hit.window = w /\ hit.touched = clock
        /\ hit.until = (IF row = None THEN 0 ELSE row.until)
        /\ hit.hits = (IF row = None THEN 1 ELSE row.hits + 1)
    <2>1. /\ (IF row = None THEN 1 ELSE row.hits + 1) \in Nat
          /\ (IF row = None THEN 0 ELSE row.until) \in Nat
      BY <1>1 DEF Row
    <2> QED
      BY <1>1, <2>1 DEF Row
  <1> HIDE DEF hit
  <1>5. Steady'
    <2>1. row' \in Row \cup {None} /\ Until(Shared)' = Until(Shared)
      BY <1>1, <1>3, <1>4 DEF Until
    <2> QED
      BY <1>1, <1>3, <2>1, AskingSteady
  <1>6. ASSUME straggled' = FALSE PROVE SharedOK'
    <2>1. SharedOK /\ req[q].at = clock /\ clock' = clock
      BY <1>3, <1>6 DEF Asks, RateInv
    <2>2. /\ q \notin Counted /\ q \notin Cleared /\ q \notin Cleared'
          /\ req'[q].failed = TRUE => q \notin Counted'
      BY <1>1, <1>3 DEF Counted, Cleared
    <2>3. /\ Cardinality(Counted) \in Nat /\ Cardinality(Counted') \in Nat
          /\ Cardinality(Cleared) \in Nat /\ Cardinality(Cleared') \in Nat
          /\ Cardinality(admitted) \in Nat /\ Hits \in Nat
      BY <1>1, Sizes, SetsOfRequestsNext
    <2>4. /\ Cardinality(Cleared') = Cardinality(Cleared)
          /\ Cardinality(Counted') <= Cardinality(Counted) + 1
          /\ req'[q].failed = TRUE => Cardinality(Counted') = Cardinality(Counted)
      BY <1>3, <2>1, <2>2, <2>3, MoveCounts DEF In, Asks
    <2>5. /\ Hits' <= Hits + 1 /\ Hits' \in Nat
          /\ req'[q].failed = TRUE => Hits' = Hits
      BY <1>3, <2>3, <2>4 DEF Hits
    <2>6. Hits > 0 => /\ row # None /\ row.window = WindowOf(clock) /\ row.hits >= Hits
                      /\ WindowOf(row.touched) = WindowOf(clock)
      BY <2>1 DEF SharedOK
    <2>7. /\ Cardinality(admitted') <= Max
          /\ (row' = None \/ ~IsBlocked(row.until)') =>
               Cardinality(admitted') + Cardinality(Cleared') <= Max
      <3>1. (row = None \/ ~IsBlocked(row.until)) =>
               Cardinality(admitted) + Cardinality(Cleared) <= Max
        BY <2>1 DEF SharedOK
      <3>2. (row' = None \/ ~IsBlocked(row.until)') => (row = None \/ ~IsBlocked(row.until))
        BY <1>1, <1>3, <1>4, <2>1 DEF IsBlocked
      <3> QED
        BY <1>3, <2>1, <2>4, <3>1, <3>2 DEF SharedOK
    <2>8. Hits' > 0 => /\ row' # None /\ row'.window = WindowOf(clock) /\ row'.hits >= Hits'
                       /\ WindowOf(row'.touched) = WindowOf(clock)
      <3>1. CASE row' = row /\ req'[q].failed = TRUE
        BY <2>5, <2>6, <3>1
      <3>2. CASE row' = hit
        <4>1. row' # None /\ row'.window = WindowOf(clock) /\ row'.touched = clock
          BY <1>1, <1>4, <2>1, <3>2
        <4>2. row'.hits \in Nat /\ row'.hits >= Hits + 1
          <5>1. row # None => row.hits \in Nat
            BY <1>1 DEF Row
          <5> QED
            BY <1>4, <2>3, <2>6, <3>2, <5>1
        <4> QED
          BY <2>3, <2>5, <4>1, <4>2
      <3> QED
        BY <1>3, <3>1, <3>2
    <2> QED
      BY <2>1, <2>7, <2>8 DEF SharedOK, IsBlocked, WindowOf
  <1> QED
    BY <1>5, <1>6 DEF RateInv

\* 3. The request has begun a block, which holds now, or it has found no reason
\* to begin one: then the hits are within the limit, and its own is among them.
LEMMA BlockClientOK ==
  ASSUME RateInv, NEW q \in Requests, BlockClient(q)
  PROVE  RateInv'
  <1>1. /\ Steady /\ clock \in Nat /\ Max \in Nat /\ Block \in Nat /\ 0 < Block
        /\ req[q].pc = "block" /\ req \in [Requests -> Req] /\ req[q] \in Req
        /\ row \in Row \cup {None} /\ None \notin Row
        /\ UNCHANGED <<clock, local, passed, admitted>> /\ Straggles(q)
        /\ faults \in 0..MaxFaults /\ MaxFaults \in Nat /\ straggled \in BOOLEAN
        /\ req[q].at <= clock /\ Shared \in Layers /\ Shared \notin Replicas
    BY Known, RateLimiterAssumption DEF RateInv, Steady, RateTypeOK, BlockClient, Layers
  <1>2. straggled' \in BOOLEAN /\ (straggled' = FALSE => straggled = FALSE /\ req[q].at = clock)
    BY <1>1 DEF Straggles
  <1>3. Sound(admitted, clock)' /\ LocalOK'
    BY <1>1, SameAdmitted, SameLocal
  <1>4. CASE /\ row # None /\ row.hits > Max /\ ~IsBlocked(row.until)
             /\ row' = [row EXCEPT !.until = clock + Block] /\ Begins(Shared) /\ NoFault
             /\ req' = [req EXCEPT ![q].pc = "read", ![q].just = TRUE]
    <2>1. /\ req' \in [Requests -> Req] /\ \A p \in Requests : p # q => req'[p] = req[p]
          /\ req'[q] = [req[q] EXCEPT !.pc = "read", !.just = TRUE]
      BY <1>1, <1>4 DEF Req
    <2>2. req'[q].pc = "read" /\ req'[q].just = TRUE /\ req'[q].at = req[q].at
      BY <1>1, <2>1 DEF Req
    <2>3. /\ row' \in Row /\ row'.until = clock + Block /\ row'.hits = row.hits
          /\ row'.window = row.window /\ row'.touched = row.touched
      BY <1>1, <1>4 DEF Row
    <2>4. BlocksOK' /\ block' \in [Layers -> Times \cup {None}]
      <3>1. Until(Shared)' = clock + Block /\ \A l \in Layers \ {Shared} : Until(l)' = Until(l)
        BY <1>1, <2>3 DEF Until
      <3> QED
        BY <1>1, <1>4, <3>1, BlockBegins
    <2>5. BlockHolds'
      <3>1. \A l \in Layers : block'[l] \in {block[l], None, clock}
        BY <1>4, Known, <1>1 DEF Begins
      <3> QED
        BY <1>1, <3>1, NothingPasses
    <2>6. Steady'
      <3>1. RateTypeOK'
        BY <1>1, <1>2, <1>4, <2>1, <2>3, <2>4 DEF Steady, RateTypeOK, NoFault
      <3>2. \A p \in Requests : req'[p].at <= clock'
        BY <1>1, <2>1, <2>2 DEF Steady
      <3> QED
        BY <1>3, <2>4, <2>5, <3>1, <3>2 DEF Steady
    <2>7. ASSUME straggled' = FALSE PROVE SharedOK'
      <3>0. /\ SharedOK /\ req[q].at = clock
            /\ Cardinality(Counted) \in Nat /\ Cardinality(Counted') \in Nat
            /\ Cardinality(Cleared) \in Nat /\ Cardinality(Cleared') \in Nat
            /\ Cardinality(admitted) \in Nat /\ Hits \in Nat
            /\ Cardinality(Counted') + In(q, Counted) = Cardinality(Counted) + In(q, Counted')
            /\ Cardinality(Cleared') + In(q, Cleared) = Cardinality(Cleared) + In(q, Cleared')
        BY <1>1, <1>2, <2>1, <2>7, Sizes, SetsOfRequestsNext, MoveCounts DEF RateInv
      <3>1. q \notin Counted' /\ q \notin Cleared /\ q \notin Cleared'
        BY <1>1, <2>2 DEF Counted, Cleared
      <3>2. /\ Cardinality(Counted') <= Cardinality(Counted)
            /\ Cardinality(Cleared') = Cardinality(Cleared)
        BY <3>0, <3>1 DEF In
      <3>3. Hits' <= Hits /\ Hits' \in Nat
        BY <1>1, <3>0, <3>2 DEF Hits
      <3>4. row.hits \in Nat
        BY <1>1, <1>4 DEF Row
      <3>5. Hits' > 0 => /\ row' # None /\ row'.window = WindowOf(clock) /\ row'.hits >= Hits'
                         /\ WindowOf(row'.touched) = WindowOf(clock)
        BY <1>1, <2>3, <3>0, <3>3, <3>4 DEF SharedOK
      <3>6. row' # None /\ IsBlocked(row.until)'
        BY <1>1, <2>3 DEF IsBlocked
      <3>7. Cardinality(admitted') <= Max
        BY <1>1, <3>0 DEF SharedOK
      <3> QED
        BY <1>1, <3>5, <3>6, <3>7 DEF SharedOK, IsBlocked, WindowOf
    <2> QED
      BY <2>6, <2>7 DEF RateInv
  <1>5. CASE /\ ~(row # None /\ row.hits > Max /\ ~IsBlocked(row.until))
             /\ UNCHANGED <<row, block, faults>> /\ req' = [req EXCEPT ![q].pc = "read"]
    <2>1. /\ req' \in [Requests -> Req] /\ \A p \in Requests : p # q => req'[p] = req[p]
          /\ req'[q] = [req[q] EXCEPT !.pc = "read"]
      BY <1>1, <1>5 DEF Req
    <2>2. req'[q].pc = "read" /\ req'[q].at = req[q].at /\ req'[q].failed = req[q].failed
      BY <1>1, <2>1 DEF Req
    <2>3. Asks(q)
      BY <1>1, <1>2, <1>5, <2>1, <2>2 DEF Asks
    <2>4. Steady'
      BY <1>1, <1>5, <2>3, AskingSteady DEF Until
    <2>5. ASSUME straggled' = FALSE PROVE SharedOK'
      <3>0. /\ SharedOK /\ req[q].at = clock
            /\ Cardinality(Counted) \in Nat /\ Cardinality(Counted') \in Nat
            /\ Cardinality(Cleared) \in Nat /\ Cardinality(Cleared') \in Nat
            /\ Cardinality(admitted) \in Nat /\ Hits \in Nat
            /\ Cardinality(Counted') + In(q, Counted) = Cardinality(Counted) + In(q, Counted')
            /\ Cardinality(Cleared') + In(q, Cleared) = Cardinality(Cleared) + In(q, Cleared')
        BY <1>1, <1>2, <2>1, <2>5, Sizes, SetsOfRequestsNext, MoveCounts DEF RateInv
      <3>1. q \notin Counted' /\ q \notin Cleared /\ (q \in Cleared' => q \in Counted)
        BY <1>1, <1>2, <2>2, <2>5 DEF Counted, Cleared
      <3>2. /\ Cardinality(Counted') + Cardinality(Cleared') <=
                  Cardinality(Counted) + Cardinality(Cleared)
            /\ Cardinality(Cleared') > Cardinality(Cleared) => Cardinality(Counted) > 0
        BY <3>0, <3>1 DEF In
      <3>3. Hits' <= Hits /\ Hits' \in Nat
        BY <1>1, <3>0, <3>2 DEF Hits
      <3>4. row # None => row.hits \in Nat
        BY <1>1 DEF Row
      <3>5. Hits' > 0 => /\ row' # None /\ row'.window = WindowOf(clock) /\ row'.hits >= Hits'
                         /\ WindowOf(row'.touched) = WindowOf(clock)
        BY <1>1, <1>5, <3>0, <3>3, <3>4 DEF SharedOK
      <3>6. (row = None \/ ~IsBlocked(row.until)) =>
              Cardinality(admitted) + Cardinality(Cleared') <= Max
        <4>1. CASE Cardinality(Cleared') <= Cardinality(Cleared)
          BY <1>1, <3>0, <4>1 DEF SharedOK
        <4>2. CASE Cardinality(Cleared') > Cardinality(Cleared)
          <5>1. Hits > 0 /\ Cardinality(admitted) + Cardinality(Cleared') <= Hits
            BY <3>0, <3>2, <4>2 DEF Hits
          <5>2. row # None /\ row.hits >= Hits
            BY <3>0, <5>1 DEF SharedOK
          <5>3. ~IsBlocked(row.until) => row.hits <= Max
            BY <1>1, <1>5, <3>4, <5>2
          <5> QED
            BY <1>1, <3>0, <3>4, <5>1, <5>2, <5>3
        <4> QED
          BY <3>0, <4>1, <4>2
      <3>7. Cardinality(admitted') <= Max
        BY <1>1, <3>0 DEF SharedOK
      <3> QED
        BY <1>1, <1>5, <3>5, <3>6, <3>7 DEF SharedOK, IsBlocked, WindowOf
    <2> QED
      BY <2>4, <2>5 DEF RateInv
  <1>6. CASE /\ req' = [req EXCEPT ![q].pc = "read", ![q].failed = TRUE]
             /\ Fault /\ UNCHANGED <<row, block>>
    <2>1. /\ req' \in [Requests -> Req] /\ \A p \in Requests : p # q => req'[p] = req[p]
          /\ req'[q] = [req[q] EXCEPT !.pc = "read", !.failed = TRUE]
      BY <1>1, <1>6 DEF Req
    <2>2. req'[q].pc = "read" /\ req'[q].at = req[q].at /\ req'[q].failed = TRUE
      BY <1>1, <2>1 DEF Req
    <2>3. Asks(q)
      BY <1>1, <1>2, <1>6, <2>1, <2>2 DEF Asks, Fault
    <2>4. Steady'
      BY <1>1, <1>6, <2>3, AskingSteady DEF Until
    <2>5. Counted' \in SUBSET Counted /\ Cleared' \in SUBSET Cleared
      BY <1>1, <2>1, <2>2 DEF Counted, Cleared
    <2> QED
      BY <1>1, <1>2, <1>6, <2>4, <2>5, FewerOK DEF RateInv
  <1> QED
    BY <1>4, <1>5, <1>6 DEF BlockClient

\* 4. A request that is admitted was among Cleared, so it is counted as before;
\* and while a block holds nothing is admitted.
LEMMA DecideOK ==
  ASSUME RateInv, NEW q \in Requests, Decide(q)
  PROVE  RateInv'
  <1> DEFINE again == req[q].failed /\ req[q].attempt + 1 < Tries
             refused == req[q].failed \/ req[q].just \/ (row # None /\ IsBlocked(row.until))
  <1>1. /\ Steady /\ clock \in Nat /\ clock \in Times /\ Max \in Nat /\ Block \in Nat
        /\ req[q].pc = "read" /\ req \in [Requests -> Req] /\ req[q] \in Req
        /\ row \in Row \cup {None} /\ None \notin Row /\ Sound(admitted, clock)
        /\ UNCHANGED <<clock, local, row, faults, passed, block>> /\ Straggles(q)
        /\ faults \in 0..MaxFaults /\ MaxFaults \in Nat /\ straggled \in BOOLEAN
        /\ req[q].at <= clock /\ Shared \in Layers /\ Shared \notin Replicas
        /\ Tries \in Nat \ {0}
    BY Known, RateLimiterAssumption DEF RateInv, Steady, RateTypeOK, Decide, Layers
  <1>2. straggled' \in BOOLEAN /\ (straggled' = FALSE => straggled = FALSE /\ req[q].at = clock)
    BY <1>1 DEF Straggles
  <1>3. /\ req' \in [Requests -> Req] /\ \A p \in Requests : p # q => req'[p] = req[p]
        /\ req'[q].pc \in {"idle", "reset"} /\ req'[q].at <= clock
    <2>1. CASE again
      <3>1. req' = [req EXCEPT ![q].pc = "reset", ![q].attempt = req[q].attempt + 1,
                               ![q].failed = FALSE, ![q].just = FALSE]
        BY <2>1 DEF Decide
      <3>2. req[q].attempt + 1 \in 0..(Tries - 1)
        BY <1>1, <2>1 DEF Req
      <3>3. /\ req' \in [Requests -> Req] /\ \A p \in Requests : p # q => req'[p] = req[p]
            /\ req'[q] = [req[q] EXCEPT !.pc = "reset", !.attempt = req[q].attempt + 1,
                                        !.failed = FALSE, !.just = FALSE]
        BY <1>1, <3>1, <3>2 DEF Req
      <3> QED
        BY <1>1, <3>3 DEF Req
    <2>2. CASE ~again
      <3>1. req' = [req EXCEPT ![q] = NoReq]
        BY <2>2 DEF Decide
      <3>2. NoReq \in Req /\ NoReq.pc = "idle" /\ NoReq.at = 0
        BY IdleReq
      <3> QED
        BY <1>1, <3>1, <3>2
    <2> QED
      BY <2>1, <2>2
  <1>4. Asks(q)
    BY <1>1, <1>2, <1>3 DEF Asks
  <1>5. CASE refused
    <2>1. admitted' = admitted
      BY <1>5 DEF Decide
    <2>2. Steady'
      BY <1>1, <1>4, <2>1, AskingSteady DEF Until
    <2>3. Counted' \in SUBSET Counted /\ Cleared' \in SUBSET Cleared
      BY <1>1, <1>3 DEF Counted, Cleared
    <2> QED
      BY <1>1, <1>2, <2>1, <2>2, <2>3, FewerOK DEF RateInv
  <1>6. CASE ~refused
    <2>1. /\ admitted' = Noted(admitted) /\ req[q].failed = FALSE /\ req[q].just = FALSE
          /\ row = None \/ ~IsBlocked(row.until)
      BY <1>1, <1>6 DEF Decide, Req
    <2>2. /\ admitted' \in Stamps /\ Sound(admitted', clock)
          /\ Cardinality(admitted') = Cardinality(admitted) + 1
      BY <1>1, <2>1, NotedOne
    <2>3. BlockHolds'
      <3>1. block[Shared] # None => clock < block[Shared] \/ block[Shared] + Block <= clock
        BY <1>1, <2>1, Known DEF Steady, BlocksOK, Until, IsBlocked, Times, Row
      <3> SUFFICES ASSUME NEW l \in Layers, block[l] # None, block[l] < clock,
                          clock < block[l] + Block
                   PROVE  At(IF l = Shared THEN admitted' ELSE passed[l], clock) = {}
        BY <1>1 DEF BlockHolds, At
      <3>2. block[l] \in Nat
        BY Known, <1>1 DEF Times
      <3>3. l # Shared
        BY <1>1, <3>1, <3>2
      <3>4. At(IF l = Shared THEN admitted ELSE passed[l], clock) = {}
        BY <1>1 DEF Steady, BlockHolds
      <3> QED
        BY <3>3, <3>4
    <2>4. Steady'
      <3>1. LocalOK' /\ BlocksOK'
        BY <1>1, SameLocal, SameBlocks DEF Until
      <3>2. RateTypeOK'
        BY <1>1, <1>2, <1>3, <2>2 DEF Steady, RateTypeOK
      <3>3. Sound(admitted, clock)'
        BY <1>1, <2>2 DEF Sound, At
      <3>4. \A p \in Requests : req'[p].at <= clock'
        BY <1>1, <1>3 DEF Steady
      <3> QED
        BY <2>3, <3>1, <3>2, <3>3, <3>4 DEF Steady
    <2>5. ASSUME straggled' = FALSE PROVE SharedOK'
      <3>0. /\ SharedOK /\ req[q].at = clock
            /\ Cardinality(Counted) \in Nat /\ Cardinality(Counted') \in Nat
            /\ Cardinality(Cleared) \in Nat /\ Cardinality(Cleared') \in Nat
            /\ Cardinality(admitted) \in Nat /\ Hits \in Nat
            /\ Cardinality(Counted') + In(q, Counted) = Cardinality(Counted) + In(q, Counted')
            /\ Cardinality(Cleared') + In(q, Cleared) = Cardinality(Cleared) + In(q, Cleared')
        BY <1>1, <1>2, <1>3, <2>5, Sizes, SetsOfRequestsNext, MoveCounts DEF RateInv
      <3>1. q \notin Counted /\ q \notin Counted' /\ q \in Cleared /\ q \notin Cleared'
        BY <1>1, <1>3, <2>1, <3>0 DEF Counted, Cleared
      <3>2. /\ Cardinality(Counted') = Cardinality(Counted)
            /\ Cardinality(Cleared') + 1 = Cardinality(Cleared)
        BY <3>0, <3>1 DEF In
      <3>3. Hits' = Hits
        BY <2>2, <3>0, <3>2 DEF Hits
      <3>4. Cardinality(admitted') + Cardinality(Cleared') <= Max /\ Cardinality(admitted') <= Max
        <4>1. Cardinality(admitted) + Cardinality(Cleared) <= Max
          BY <2>1, <3>0 DEF SharedOK
        <4> QED
          BY <1>1, <2>2, <3>0, <3>2, <4>1
      <3>5. Hits' > 0 => /\ row' # None /\ row'.window = WindowOf(clock) /\ row'.hits >= Hits'
                         /\ WindowOf(row'.touched) = WindowOf(clock)
        BY <1>1, <3>0, <3>3 DEF SharedOK
      <3> QED
        BY <1>1, <3>4, <3>5 DEF SharedOK, WindowOf
    <2> QED
      BY <2>4, <2>5 DEF RateInv
  <1> QED
    BY <1>5, <1>6

LEMMA QueryLostOK ==
  ASSUME RateInv, NEW q \in Requests, QueryLost(q)
  PROVE  RateInv'
  <1>1. /\ Steady /\ clock \in Nat /\ req \in [Requests -> Req]
        /\ UNCHANGED <<clock, local, row, passed, admitted, block, straggled>>
        /\ req' = [req EXCEPT ![q] = NoReq] /\ Fault
        /\ faults \in 0..MaxFaults /\ MaxFaults \in Nat
    BY Known, RateLimiterAssumption DEF RateInv, Steady, RateTypeOK, QueryLost
  <1>2. /\ req' \in [Requests -> Req] /\ req'[q].pc = "idle"
        /\ \A p \in Requests : req'[p].at <= clock /\ (p # q => req'[p] = req[p])
    BY <1>1, IdleReq DEF Steady
  <1>3. Steady'
    <2>1. RateTypeOK'
      BY <1>1, <1>2 DEF Steady, RateTypeOK, Fault
    <2>2. LocalOK' /\ Sound(admitted, clock)' /\ BlockHolds' /\ BlocksOK'
      BY <1>1, SameLocal, SameAdmitted, NothingPasses, SameBlocks DEF Until
    <2> QED
      BY <1>1, <1>2, <2>1, <2>2 DEF Steady
  <1>4. Counted' \in SUBSET Counted /\ Cleared' \in SUBSET Cleared
    BY <1>1, <1>2 DEF Counted, Cleared
  <1> QED
    BY <1>1, <1>3, <1>4, FewerOK DEF RateInv

---------------------------------------------------------------------------
(* Cleanup, restarts and time.                                             *)

\* An entry that goes has nothing in it that still counts.
LEMMA CleanupLocalOK ==
  ASSUME RateInv, NEW r \in Replicas, CleanupLocal(r)
  PROVE  RateInv'
  <1>1. /\ Steady /\ clock \in Nat /\ local \in [Replicas -> RequestRecord] /\ Block \in Nat
        /\ Period \in Nat /\ Idling \in Nat /\ Period <= Idling /\ Shared \notin Replicas
        /\ UNCHANGED <<clock, row, req, faults, passed, admitted, block, straggled>>
        /\ local' = [local EXCEPT ![r] = NewRecord] /\ ~IsBlocked(local[r].until)
        /\ \A s \in local[r].stamps : s[1] + Idling <= clock
    BY Known DEF RateInv, CleanupLocal
  <1>2. NewRecord \in RequestRecord /\ NewRecord.stamps = {} /\ NewRecord.until = 0
    BY NoneSound DEF NewRecord, RequestRecord
  <1>3. /\ local' \in [Replicas -> RequestRecord] /\ local'[r] = NewRecord
        /\ \A p \in Replicas \ {r} : local'[p] = local[p]
    BY <1>1, <1>2
  <1>4. Recent(local[r].stamps) = {}
    <2>1. \A s \in local[r].stamps : s[1] \in Nat
      BY <1>1 DEF RequestRecord, Stamps, Times
    <2> QED
      BY <1>1, <2>1 DEF Recent
  <1>5. LocalOK'
    <2> SUFFICES ASSUME NEW p \in Replicas
                 PROVE  /\ Sound(passed[p], clock) /\ Cardinality(passed[p]) <= Max
                        /\ passed[p] = Recent(local'[p].stamps)
                        /\ \A s \in local'[p].stamps : s[1] <= clock
      BY <1>1 DEF LocalOK, Sound, Recent, At
    <2>1. CASE p = r
      BY <1>1, <1>2, <1>3, <1>4, <2>1 DEF Steady, LocalOK, Recent
    <2>2. CASE p # r
      BY <1>1, <1>3, <2>2 DEF Steady, LocalOK
    <2> QED
      BY <2>1, <2>2
  <1>6. BlocksOK'
    <2>1. \A l \in Layers : Until(l)' = Until(l) \/ Until(l) <= clock
      <3> SUFFICES ASSUME NEW l \in Layers PROVE Until(l)' = Until(l) \/ Until(l) <= clock
        OBVIOUS
      <3>1. CASE l = r
        <4>1. Until(r) = local[r].until /\ local[r].until \in Nat
          BY <1>1 DEF Until, RequestRecord
        <4> QED
          BY <1>1, <3>1, <4>1 DEF IsBlocked
      <3>2. CASE l # r
        BY <1>1, <1>3, <3>2 DEF Until, Layers
      <3> QED
        BY <3>1, <3>2
    <2> QED
      BY <1>1, <2>1, SameBlocks
  <1>7. Steady'
    <2>1. RateTypeOK' /\ \A p \in Requests : req'[p].at <= clock'
      BY <1>1, <1>3 DEF Steady, RateTypeOK
    <2>2. Sound(admitted, clock)' /\ BlockHolds'
      BY <1>1, SameAdmitted, NothingPasses
    <2> QED
      BY <1>5, <1>6, <2>1, <2>2 DEF Steady
  <1>8. Counted' = Counted /\ Cleared' = Cleared
    BY <1>1 DEF Counted, Cleared
  <1> QED
    BY <1>1, <1>7, <1>8, FewerOK DEF RateInv

\* A row that goes is of an earlier window.
LEMMA OtherWindow ==
  ASSUME NEW s \in Nat, NEW t \in Nat, s + Period <= t
  PROVE  WindowOf(s) # WindowOf(t)
  BY RateLimiterAssumption, SMTT(30) DEF WindowOf

LEMMA CleanupSharedOK ==
  ASSUME RateInv, CleanupShared
  PROVE  RateInv'
  <1>1. /\ Steady /\ clock \in Nat /\ row \in Row /\ row' = None /\ None \notin Row
        /\ Period \in Nat /\ Idling \in Nat /\ Period <= Idling /\ Shared \notin Replicas
        /\ UNCHANGED <<clock, local, req, faults, passed, admitted, block, straggled>>
        /\ ~IsBlocked(row.until) /\ row.touched + Idling < clock
    BY Known DEF RateInv, CleanupShared
  <1>2. row.until \in Nat /\ row.touched \in Nat /\ row # None
    BY <1>1 DEF Row, Times
  <1>3. Steady'
    <2>1. RateTypeOK' /\ \A p \in Requests : req'[p].at <= clock'
      BY <1>1 DEF Steady, RateTypeOK
    <2>2. \A l \in Layers : Until(l)' = Until(l) \/ Until(l) <= clock
      BY <1>1, <1>2 DEF Until, IsBlocked
    <2>3. Sound(admitted, clock)' /\ BlockHolds' /\ LocalOK' /\ BlocksOK'
      BY <1>1, <2>2, SameAdmitted, SameLocal, SameBlocks, NothingPasses
    <2> QED
      BY <2>1, <2>3 DEF Steady
  <1>4. ASSUME straggled' = FALSE PROVE SharedOK'
    <2>1. SharedOK /\ Counted' = Counted /\ Cleared' = Cleared /\ Hits' = Hits /\ Hits \in Nat
      BY <1>1, <1>4, Sizes DEF RateInv, Counted, Cleared, Hits
    <2>2. WindowOf(row.touched) # WindowOf(clock)
      BY <1>1, <1>2, OtherWindow
    <2>3. Hits = 0
      BY <2>1, <2>2 DEF SharedOK
    <2>4. Cardinality(admitted) + Cardinality(Cleared) <= Max /\ Cardinality(admitted) <= Max
      BY <1>1, <2>1 DEF SharedOK
    <2> QED
      BY <1>1, <2>1, <2>3, <2>4 DEF SharedOK
  <1> QED
    BY <1>3, <1>4 DEF RateInv

\* A replica that restarts forgets its stamps and its block.
LEMMA RestartOK ==
  ASSUME RateInv, NEW r \in Replicas, Restart(r)
  PROVE  RateInv'
  <1>1. /\ Steady /\ clock \in Nat /\ local \in [Replicas -> RequestRecord]
        /\ passed \in [Replicas -> Stamps] /\ block \in [Layers -> Times \cup {None}]
        /\ req \in [Requests -> Req] /\ r \in Layers /\ Shared \notin Replicas /\ Max \in Nat
        /\ UNCHANGED <<clock, row, admitted, straggled>> /\ Fault
        /\ faults \in 0..MaxFaults /\ MaxFaults \in Nat
        /\ local' = [local EXCEPT ![r] = NewRecord] /\ passed' = [passed EXCEPT ![r] = {}]
        /\ block' = [block EXCEPT ![r] = None]
        /\ req' = [q \in Requests |-> IF req[q].rep = r THEN NoReq ELSE req[q]]
    BY Known, RateLimiterAssumption DEF RateInv, Steady, RateTypeOK, Restart, Layers
  <1>2. NewRecord \in RequestRecord /\ NewRecord.stamps = {} /\ NewRecord.until = 0
    BY NoneSound DEF NewRecord, RequestRecord
  <1>3. /\ local' \in [Replicas -> RequestRecord] /\ local'[r] = NewRecord
        /\ passed' \in [Replicas -> Stamps] /\ passed'[r] = {}
        /\ block' \in [Layers -> Times \cup {None}] /\ block'[r] = None
        /\ \A p \in Replicas \ {r} : local'[p] = local[p] /\ passed'[p] = passed[p]
        /\ \A l \in Layers \ {r} : block'[l] = block[l]
    BY <1>1, <1>2, NoneSound
  <1>4. /\ req' \in [Requests -> Req]
        /\ \A q \in Requests : req'[q] = req[q] \/ (req'[q].pc = "idle" /\ req'[q].at = 0)
    BY <1>1, IdleReq
  <1>5. LocalOK'
    <2> SUFFICES ASSUME NEW p \in Replicas
                 PROVE  /\ Sound(passed'[p], clock) /\ Cardinality(passed'[p]) <= Max
                        /\ passed'[p] = Recent(local'[p].stamps)
                        /\ \A s \in local'[p].stamps : s[1] <= clock
      BY <1>1 DEF LocalOK, Sound, Recent, At
    <2>1. CASE p = r
      BY <1>1, <1>2, <1>3, <2>1, NoneSound DEF Recent
    <2>2. CASE p # r
      BY <1>1, <1>3, <2>2 DEF Steady, LocalOK
    <2> QED
      BY <2>1, <2>2
  <1>6. BlocksOK'
    <2>1. \A l \in Layers \ {r} : Until(l)' = Until(l)
      BY <1>1, <1>3 DEF Until, Layers
    <2> QED
      BY <1>1, <1>3, <2>1 DEF Steady, BlocksOK
  <1>7. BlockHolds'
    <2> SUFFICES ASSUME NEW l \in Layers, block'[l] # None, block'[l] < clock,
                        clock < block'[l] + Block
                 PROVE  At(IF l = Shared THEN admitted ELSE passed'[l], clock) = {}
      BY <1>1 DEF BlockHolds, At
    <2>1. l # r /\ block'[l] = block[l]
      BY <1>3
    <2>2. At(IF l = Shared THEN admitted ELSE passed[l], clock) = {}
      BY <1>1, <2>1 DEF Steady, BlockHolds
    <2> QED
      BY <1>3, <2>1, <2>2 DEF Layers
  <1>8. Steady'
    <2>1. RateTypeOK'
      BY <1>1, <1>3, <1>4 DEF Steady, RateTypeOK, Fault
    <2>2. \A p \in Requests : req'[p].at <= clock'
      BY <1>1, <1>4 DEF Steady
    <2>3. Sound(admitted, clock)'
      BY <1>1, SameAdmitted
    <2> QED
      BY <1>5, <1>6, <1>7, <2>1, <2>2, <2>3 DEF Steady
  <1>9. Counted' \in SUBSET Counted /\ Cleared' \in SUBSET Cleared
    BY <1>1, <1>4 DEF Counted, Cleared
  <1> QED
    BY <1>1, <1>8, <1>9, FewerOK DEF RateInv

\* Nothing has happened yet at the next time, and in the next window nothing
\* has been admitted.
LEMMA ClockTickOK ==
  ASSUME RateInv, ClockTick
  PROVE  RateInv'
  <1> DEFINE t == clock + 1
  <1>1. /\ Steady /\ clock \in Nat /\ clock \in Times /\ Max \in Nat /\ MaxTime \in Nat
        /\ Block \in Nat /\ clock' = t /\ t \in Times /\ Shared \notin Replicas
        /\ passed' = [r \in Replicas |-> {s \in passed[r] : s[1] + Period > t}]
        /\ UNCHANGED <<local, row, req, faults, block>>
        /\ \/ UNCHANGED <<admitted, straggled>> /\ WindowOf(clock) = WindowOf(t)
           \/ admitted' = {} /\ straggled' = FALSE
        /\ block \in [Layers -> Times \cup {None}] /\ None \notin Times
        /\ local \in [Replicas -> RequestRecord] /\ passed \in [Replicas -> Stamps]
        /\ Period \in Nat
    BY Known, RateLimiterAssumption DEF RateInv, ClockTick, Times
  <1> HIDE DEF t
  <1>2. \A r \in Replicas : passed'[r] \in SUBSET passed[r]
    BY <1>1
  <1>3. \A r \in Replicas : /\ Sound(passed'[r], t) /\ At(passed'[r], t) = {}
                            /\ Cardinality(passed'[r]) <= Max /\ passed'[r] \in Stamps
    <2> SUFFICES ASSUME NEW r \in Replicas
                 PROVE  /\ Sound(passed'[r], t) /\ At(passed'[r], t) = {}
                        /\ Cardinality(passed'[r]) <= Max /\ passed'[r] \in Stamps
      OBVIOUS
    <2>1. Sound(passed[r], clock) /\ Cardinality(passed[r]) <= Max
      BY <1>1 DEF Steady, LocalOK
    <2>2. /\ Sound(passed'[r], t) /\ At(passed'[r], t) = {} /\ passed'[r] \in Stamps
          /\ Cardinality(passed'[r]) <= Cardinality(passed[r])
      BY <1>1, <1>2, <2>1, LaterSound DEF t
    <2>3. Cardinality(passed'[r]) \in Nat /\ Cardinality(passed[r]) \in Nat
      BY <2>1, <2>2, FS_CardinalityType DEF Sound
    <2> QED
      BY <1>1, <2>1, <2>2, <2>3
  <1>4. Sound(admitted', t) /\ At(admitted', t) = {} /\ admitted' \in Stamps
    <2>1. Sound(admitted, clock) /\ admitted \in SUBSET admitted
      BY <1>1 DEF Steady
    <2>2. Sound(admitted, t) /\ At(admitted, t) = {} /\ admitted \in Stamps
      BY <1>1, <2>1, LaterSound DEF t
    <2> QED
      BY <1>1, <2>2, NoneSound
  <1>5. LocalOK'
    <2> SUFFICES ASSUME NEW r \in Replicas
                 PROVE  /\ Sound(passed'[r], t) /\ Cardinality(passed'[r]) <= Max
                        /\ passed'[r] = {s \in local[r].stamps : s[1] + Period > t}
                        /\ \A s \in local[r].stamps : s[1] <= t
      BY <1>1 DEF LocalOK, Sound, Recent, At
    <2>1. /\ passed[r] = {s \in local[r].stamps : s[1] + Period > clock}
          /\ \A s \in local[r].stamps : s[1] <= clock /\ s[1] \in Nat
      BY <1>1 DEF Steady, LocalOK, Recent, RequestRecord, Stamps, Times
    <2>2. passed'[r] = {s \in passed[r] : s[1] + Period > t}
      BY <1>1
    <2>3. passed'[r] = {s \in local[r].stamps : s[1] + Period > t}
      BY <1>1, <2>1, <2>2 DEF t
    <2>4. \A s \in local[r].stamps : s[1] <= t
      BY <1>1, <2>1 DEF t
    <2> QED
      BY <1>3, <2>3, <2>4
  <1>6. BlocksOK'
    <2>1. \A l \in Layers : Until(l)' = Until(l)
      BY <1>1 DEF Until
    <2>2. \A l \in Layers : block[l] # None => block[l] \in Nat
      BY <1>1 DEF Times
    <2> QED
      BY <1>1, <2>1, <2>2 DEF Steady, BlocksOK, t
  <1>7. BlockHolds'
    <2> SUFFICES ASSUME NEW l \in Layers
                 PROVE  At(IF l = Shared THEN admitted' ELSE passed'[l], t) = {}
      BY <1>1 DEF BlockHolds, At
    <2> QED
      BY <1>3, <1>4 DEF Layers
  <1>8. Steady'
    <2>1. RateTypeOK'
      <3>1. passed' \in [Replicas -> Stamps]
        BY <1>1, <1>3
      <3> QED
        BY <1>1, <1>4, <3>1 DEF Steady, RateTypeOK
    <2>2. \A p \in Requests : req'[p].at <= clock'
      <3>1. \A p \in Requests : req[p].at \in Nat /\ req[p].at <= clock
        BY <1>1, Known DEF Steady, Req, Times
      <3> QED
        BY <1>1, <3>1 DEF t
    <2>3. Sound(admitted, clock)'
      BY <1>1, <1>4 DEF Sound, At
    <2> QED
      BY <1>5, <1>6, <1>7, <2>1, <2>2, <2>3 DEF Steady
  <1>9. ASSUME straggled' = FALSE PROVE SharedOK'
    <2>1. Counted' = {} /\ Cleared' = {}
      <3>1. \A p \in Requests : req'[p].at # clock'
        <4>1. \A p \in Requests : req[p].at \in Nat /\ req[p].at <= clock
          BY <1>1, Known DEF Steady, Req, Times
        <4> QED
          BY <1>1, <4>1 DEF t
      <3> QED
        BY <3>1 DEF Counted, Cleared
    <2>2. /\ Hits' = Cardinality(admitted') /\ Cardinality(Cleared') = 0
          /\ Cardinality(admitted') \in Nat
      <3>1. Cardinality(admitted') \in Nat /\ Cardinality({}) = 0
        BY <1>4, FS_CardinalityType, FS_EmptySet DEF Sound
      <3> QED
        BY <2>1, <3>1 DEF Hits
    <2>3. CASE admitted' = {}
      <3>1. Hits' = 0 /\ Cardinality(admitted') = 0
        BY <2>2, <2>3, FS_EmptySet
      <3> QED
        BY <1>1, <2>2, <3>1 DEF SharedOK
    <2>4. CASE UNCHANGED <<admitted, straggled>> /\ WindowOf(clock) = WindowOf(t)
      <3>1. SharedOK
        BY <1>9, <2>4 DEF RateInv
      <3>2. /\ Cardinality(admitted) \in Nat /\ Cardinality(Counted) \in Nat
            /\ Cardinality(Cleared) \in Nat /\ Hits \in Nat
        BY <1>1, Sizes
      <3>3. Hits' <= Hits
        BY <2>2, <2>4, <3>2 DEF Hits
      <3>4. Hits' > 0 => /\ row' # None /\ row'.window = WindowOf(t) /\ row'.hits >= Hits'
                         /\ WindowOf(row'.touched) = WindowOf(t)
        <4>1. row # None => row.hits \in Nat
          BY <1>1, Known DEF Row
        <4> QED
          BY <1>1, <2>2, <2>4, <3>1, <3>2, <3>3, <4>1 DEF SharedOK
      <3>5. Cardinality(admitted') <= Max
        BY <2>4, <3>1 DEF SharedOK
      <3> QED
        BY <1>1, <2>2, <3>4, <3>5 DEF SharedOK, WindowOf
    <2> QED
      BY <1>1, <2>3, <2>4
  <1> QED
    BY <1>8, <1>9 DEF RateInv

---------------------------------------------------------------------------
(* The theorems about the rate limiter.                                    *)

LEMMA RateInvInit ==
  RateInit => RateInv
  <1> SUFFICES ASSUME RateInit PROVE RateInv
    OBVIOUS
  <1>1. /\ clock = 0 /\ faults = 0 /\ local = [r \in Replicas |-> NewRecord] /\ row = None
        /\ req = [q \in Requests |-> NoReq] /\ passed = [r \in Replicas |-> {}]
        /\ admitted = {} /\ block = [l \in Layers |-> None] /\ straggled = FALSE
        /\ 0 \in Times /\ MaxFaults \in Nat /\ Max \in Nat
    BY RateLimiterAssumption DEF RateInit, Times
  <1>2. NewRecord \in RequestRecord /\ NewRecord.stamps = {}
    BY NoneSound DEF NewRecord, RequestRecord
  <1>3. /\ \A r \in Replicas : local[r] = NewRecord /\ passed[r] = {}
        /\ \A q \in Requests : req[q].pc = "idle" /\ req[q].at = 0
        /\ \A l \in Layers : block[l] = None
    BY <1>1, IdleReq
  <1>4. RateTypeOK
    <2>1. local \in [Replicas -> RequestRecord] /\ req \in [Requests -> Req]
      BY <1>1, <1>2, IdleReq
    <2>2. passed \in [Replicas -> Stamps] /\ block \in [Layers -> Times \cup {None}]
      BY <1>1, NoneSound
    <2>3. faults \in 0..MaxFaults
      BY <1>1
    <2>4. straggled \in BOOLEAN /\ admitted \in Stamps /\ row \in Row \cup {None} /\ clock \in Times
      BY <1>1, NoneSound
    <2> QED
      BY <2>1, <2>2, <2>3, <2>4 DEF RateTypeOK
  <1>5. LocalOK
    BY <1>1, <1>2, <1>3, NoneSound DEF LocalOK, Recent
  <1>6. Steady
    BY <1>1, <1>3, <1>4, <1>5, NoneSound DEF Steady, BlocksOK, BlockHolds
  <1>7. SharedOK
    <2>1. Counted = {} /\ Cleared = {}
      BY <1>3 DEF Counted, Cleared
    <2>2. Hits = 0 /\ Cardinality(admitted) = 0 /\ Cardinality(Cleared) = 0
      BY <1>1, <2>1, FS_EmptySet DEF Hits
    <2> QED
      BY <1>1, <2>2 DEF SharedOK
  <1> QED
    BY <1>6, <1>7 DEF RateInv

LEMMA RateInvNext ==
  RateInv /\ [RateNext]_rateVars => RateInv'
  <1> SUFFICES ASSUME RateInv, [RateNext]_rateVars PROVE RateInv'
    OBVIOUS
  <1>1. ASSUME NEW q \in Requests, NEW r \in Replicas, Arrive(q, r) PROVE RateInv'
    <2>1. Steady'
      BY <1>1, ArriveSteady DEF RateInv
    <2>2. UNCHANGED <<clock, row, admitted, straggled>>
      BY <1>1 DEF Arrive
    <2>3. Counted' \in SUBSET Counted /\ Cleared' \in SUBSET Cleared
      <3>1. req' = req \/ \E new : new.pc = "reset" /\ req' = [req EXCEPT ![q] = new]
        <4> DEFINE new == [NoReq EXCEPT !.pc = "reset", !.rep = r, !.at = clock]
        <4>1. new.pc = "reset"
          BY DEF NoReq
        <4>2. req' = req \/ req' = [req EXCEPT ![q] = new]
          BY <1>1 DEF Arrive
        <4> HIDE DEF new
        <4> QED
          BY <4>1, <4>2
      <3>2. req \in [Requests -> Req]
        BY Known DEF RateInv
      <3> QED
        BY <2>2, <3>1, <3>2 DEF Counted, Cleared
    <2> QED
      BY <2>1, <2>2, <2>3, FewerOK DEF RateInv
  <1>2. ASSUME NEW q \in Requests,
               ResetHits(q) \/ CountHit(q) \/ BlockClient(q) \/ Decide(q) \/ QueryLost(q)
        PROVE  RateInv'
    BY <1>2, ResetHitsOK, CountHitOK, BlockClientOK, DecideOK, QueryLostOK
  <1>3. ASSUME NEW r \in Replicas, CleanupLocal(r) \/ Restart(r) PROVE RateInv'
    BY <1>3, CleanupLocalOK, RestartOK
  <1>4. CASE CleanupShared \/ ClockTick
    BY <1>4, CleanupSharedOK, ClockTickOK
  <1>5. CASE UNCHANGED rateVars
    <2>1. UNCHANGED <<clock, local, row, req, faults, passed, admitted, block, straggled>>
      BY <1>5 DEF rateVars
    <2>2. Counted' = Counted /\ Cleared' = Cleared
      BY <2>1 DEF Counted, Cleared
    <2>3. RateTypeOK' /\ \A q \in Requests : req'[q].at <= clock'
      BY <2>1 DEF RateInv, Steady, RateTypeOK
    <2>4. Sound(admitted, clock)' /\ BlockHolds' /\ LocalOK' /\ BlocksOK'
      BY <2>1, SameAdmitted, SameLocal, SameBlocks, NothingPasses DEF Until, RateInv
    <2> QED
      BY <2>1, <2>2, <2>3, <2>4, FewerOK DEF RateInv, Steady
  <1> QED
    BY <1>1, <1>2, <1>3, <1>4, <1>5 DEF RateNext

\* RateInv is inductive; the properties follow from it.
THEOREM RateInvHolds ==
  RateSpec => []RateInv
  <1> QED
    BY RateInvInit, RateInvNext, PTL DEF RateSpec

\* check_rate_limit_verbose keeps a sliding window: while a replica runs, no
\* more than Max requests pass it in any Period, whatever the cleanup forgets.
THEOREM LocalBoundHolds ==
  RateSpec => []LocalBound
  <1>1. RateInv => LocalBound
    BY DEF RateInv, Steady, LocalOK, LocalBound
  <1> QED
    BY <1>1, RateInvHolds, PTL

\* The shared counter lets at most Max requests of all replicas pass in a fixed
\* window, however the statements of shared_decision interleave, fail and are
\* sent again, if none of an earlier unit of time runs in the window.  Requests
\* that check_shared lets pass without an answer of the counter are not in it.
THEOREM SharedBoundHolds ==
  RateSpec => []SharedBound
  <1>1. RateInv => SharedBound
    BY DEF RateInv, Steady, RateTypeOK, SharedOK, SharedBound
  <1> QED
    BY <1>1, RateInvHolds, PTL

\* Neither a new window nor the cleanup lifts a block, and nothing passes a
\* layer that is blocked.
THEOREM BlockHoldsAlways ==
  RateSpec => []BlockHolds
  <1>1. RateInv => BlockHolds
    BY DEF RateInv, Steady
  <1> QED
    BY <1>1, RateInvHolds, PTL

\* A layer that is not blocked has no block that runs.
LEMMA NoBlockRuns ==
  ASSUME Steady, NEW l \in Layers, ~IsBlocked(Until(l)), block[l] # None
  PROVE  block[l] + Block <= clock
  <1>1. block[l] \in Nat /\ clock \in Nat /\ Block \in Nat
    BY Known DEF Times
  <1> QED
    BY <1>1 DEF Steady, BlocksOK, IsBlocked

\* rate_limit_layer records one audit event for a block: a block is never
\* begun while one runs, so it is neither prolonged nor announced twice.
THEOREM OneBlockAtATimeHolds ==
  RateSpec => OneBlockAtATime
  <1> DEFINE Once == \A l \in Layers : block'[l] \notin {block[l], None} =>
                       block[l] = None \/ block[l] + Block <= clock
  <1>1. ASSUME Steady, NEW m \in Layers, Begins(m), ~IsBlocked(Until(m)) PROVE Once
    <2>1. \A l \in Layers \ {m} : block'[l] = block[l]
      BY <1>1, Known DEF Begins
    <2> QED
      BY <1>1, <2>1, NoBlockRuns
  <1>2. RateInv /\ [RateNext]_rateVars => [Once]_rateVars
    <2> SUFFICES ASSUME RateInv, RateNext PROVE Once
      BY DEF rateVars
    <2>0. /\ Steady /\ Replicas \in SUBSET Layers /\ Shared \in Layers
          /\ Shared \notin Replicas
      BY Known DEF RateInv, Layers
    <2>1. ASSUME NEW q \in Requests, NEW r \in Replicas, Arrive(q, r) PROVE Once
      <3>1. (Begins(r) /\ ~IsBlocked(Until(r))) \/ block' = block
        BY <2>0, <2>1 DEF Arrive, Until
      <3> QED
        BY <1>1, <2>0, <3>1
    <2>2. ASSUME NEW q \in Requests, BlockClient(q) PROVE Once
      <3>1. (Begins(Shared) /\ ~IsBlocked(Until(Shared))) \/ block' = block
        BY <2>2 DEF BlockClient, Until
      <3> QED
        BY <1>1, <2>0, <3>1
    <2>3. ASSUME NEW q \in Requests,
                 ResetHits(q) \/ CountHit(q) \/ Decide(q) \/ QueryLost(q)
          PROVE  Once
      BY <2>3 DEF ResetHits, CountHit, Statement, Decide, QueryLost
    <2>4. ASSUME NEW r \in Replicas, Restart(r) PROVE Once
      <3>1. \A l \in Layers : block'[l] \in {block[l], None}
        BY <2>0, <2>4, Known DEF Restart
      <3> QED
        BY <3>1
    <2>5. ASSUME NEW r \in Replicas, CleanupLocal(r) PROVE Once
      BY <2>5 DEF CleanupLocal
    <2>6. CASE CleanupShared \/ ClockTick
      BY <2>6 DEF CleanupShared, ClockTick
    <2> QED
      BY <2>1, <2>2, <2>3, <2>4, <2>5, <2>6 DEF RateNext
  <1> QED
    BY <1>2, RateInvHolds, PTL DEF RateSpec, OneBlockAtATime
=============================================================================
