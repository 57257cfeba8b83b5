-------------------------- MODULE OidcTokensProofs --------------------------
(***************************************************************************)
(* Proofs about OidcTokens, for any codes, pairs and handlers in flight.   *)
(*                                                                         *)
(* None of the properties is inductive.  That a code or a refresh token    *)
(* leads to one pair rests on the handler that marked it as used: from     *)
(* then until it has stored the pair it is the only one that may           *)
(* (HoldsCode, HoldsPair).  That a chain of pairs has one usable end rests *)
(* on every pair but the last being spent before its successor is stored   *)
(* (ChainOK).  That a revocation is complete rests on a settled pair never *)
(* being stored again (VoidOK).                                            *)
(***************************************************************************)
EXTENDS OidcTokens, TLAPS

----------------------------------------------------------------------------
(* The invariant.                                                          *)

\* A pair that was exchanged for its successor, or is about to be.
Spent(n) == access[n] = "gone" /\ refresh[n] \in {"used", "gone"}
HasSuccessor(n) == \E m \in Pairs : parent[m] = n

\* Pairs of one code: each has one successor, only a spent one has any, and of
\* two of them one has.
ChainOK ==
  /\ \A n \in Pairs : access[n] = "none" =>
       origin[n] = NoCode /\ parent[n] = NoPair /\ refresh[n] = "none"
  /\ \A n \in Pairs : parent[n] # NoPair => Spent(parent[n])
  /\ \A n \in Pairs : origin[n] # NoCode => code[origin[n]] \in {"used", "gone"}
  /\ \A m, n \in Pairs : parent[m] = parent[n] /\ parent[m] # NoPair => m = n
  /\ \A m, n \in Pairs : m # n /\ origin[m] = origin[n] /\ origin[m] # NoCode =>
       /\ HasSuccessor(m) \/ HasSuccessor(n)
       /\ parent[m] # parent[n]

\* What a handler carries.
Carries(t) ==
  /\ t.kind = "exchange" => t.code \in Codes /\ t.old = NoPair
  /\ t.kind = "refresh" => t.old \in Pairs
  /\ t.pc \in {"readcode", "mark"} => t.kind = "exchange"
  /\ t.pc \in {"readrefresh", "consume", "drop"} => t.kind = "refresh"
  /\ t.pc = "readaccess" => t.kind = "userinfo"
  /\ t.pc \in {"load", "loadgate"} => t.kind \in {"exchange", "refresh", "userinfo"}
  /\ t.pc = "saveaccess" => t.kind \in {"exchange", "refresh"}
  /\ t.pc = "saverefresh" => t.new \in Pairs
  /\ t.kind # "rplogout" => Matches(t.key)

\* What a grant that holds a code or a refresh token may rely on: nobody has
\* stored a pair for it.
HoldsOK(t) ==
  /\ HoldsCode(t) => /\ code[t.code] \in {"used", "gone"}
                     /\ \A n \in Pairs : origin[n] # t.code
  /\ HoldsPair(t) => /\ refresh[t.old] \in {"used", "gone"}
                     /\ \A n \in Pairs : parent[n] # t.old
                     /\ t.pc # "drop" => access[t.old] = "gone"
  /\ t.kind = "refresh" => refresh[t.old] # "none"
  /\ t.pc = "saverefresh" => access[t.new] # "none" /\ refresh[t.new] = "none"

\* The pairs a revocation found are complete, and gone once it has passed.
FoundOK(t) ==
  \A n \in t.pairs :
    /\ access[n] # "none"
    /\ t.pc = "revokerefresh" /\ t.kind \in {"revokeall", "refresh"} => access[n] = "gone"

HandlerOK(t) == Carries(t) /\ HoldsOK(t) /\ FoundOK(t)

\* No two handlers hold one code or one pair, or are storing one pair, and no
\* handler is storing a pair that a revocation found.
Exclusive ==
  \A p, q \in Tasks :
    /\ HoldsCode(task[p]) /\ HoldsCode(task[q]) /\ task[p].code = task[q].code => p = q
    /\ HoldsPair(task[p]) /\ HoldsPair(task[q]) /\ task[p].old = task[q].old => p = q
    /\ task[p].pc = "saverefresh" /\ task[q].pc = "saverefresh"
         /\ task[p].new = task[q].new => p = q
    /\ task[p].new \notin task[q].pairs

\* A pair that an answered revocation found is gone for good.
Void(n) == access[n] = "gone" /\ refresh[n] \in {"none", "gone"}
VoidOK == \A n \in voidPairs : Void(n) /\ \A p \in Tasks : task[p].new # n

\* Only rows that were stored have expired.
ExpiredOK ==
  \A n \in Pairs :
    /\ AccessRow(n) \in expired => access[n] # "none"
    /\ RefreshRow(n) \in expired => refresh[n] # "none"

OidcInv ==
  /\ TypeOK /\ ChainOK /\ Exclusive /\ VoidOK /\ ExpiredOK
  /\ \A p \in Tasks : HandlerOK(task[p])

----------------------------------------------------------------------------
(* Typing.                                                                 *)

\* A slot after a handler has ended.
LEMMA IdleOK ==
  /\ IdleTask \in Task /\ IdleTask.pc = "idle" /\ IdleTask.kind = "userinfo"
  /\ IdleTask.new = NoPair /\ IdleTask.key = "user" /\ IdleTask.pairs = {}
  /\ IdleTask.barred = FALSE
  BY DEF IdleTask, Task, Pcs, AllKinds

\* A handler that is sent on, and may read the user row, keeps what it carries.
Sent(p, x, t) ==
  /\ task' = [task EXCEPT ![p] = t] /\ t \in Task /\ t.pc = x
  /\ t.kind = task[p].kind /\ t.code = task[p].code /\ t.old = task[p].old
  /\ t.new = task[p].new /\ t.key = task[p].key /\ t.pairs = task[p].pairs
  /\ t.barred = task[p].barred

LEMMA GotoSent ==
  ASSUME TypeOK, NEW p \in Tasks, NEW x \in Pcs, Goto(p, x)
  PROVE  \E t \in Task : Sent(p, x, t)
  <1> DEFINE t == [task[p] EXCEPT !.pc = x]
  <1>1. task[p] \in Task
    BY DEF TypeOK
  <1>2. /\ t \in Task /\ t.pc = x /\ t.kind = task[p].kind /\ t.code = task[p].code
        /\ t.old = task[p].old /\ t.new = task[p].new /\ t.key = task[p].key
        /\ t.pairs = task[p].pairs /\ t.barred = task[p].barred
    BY <1>1 DEF Task
  <1>3. task' = [task EXCEPT ![p] = t]
    BY DEF Goto
  <1> QED
    BY <1>2, <1>3 DEF Sent

LEMMA LoadSent ==
  ASSUME TypeOK, NEW p \in Tasks, LoadUser(p)
  PROVE  \E t \in Task : Sent(p, "loadgate", t)
  <1>1. PICK b \in BOOLEAN : b = (row = "Active")
    OBVIOUS
  <1> DEFINE t == [task[p] EXCEPT !.pc = "loadgate", !.usable = b]
  <1>2. task[p] \in Task
    BY DEF TypeOK
  <1>3. /\ t \in Task /\ t.pc = "loadgate" /\ t.kind = task[p].kind /\ t.code = task[p].code
        /\ t.old = task[p].old /\ t.new = task[p].new /\ t.key = task[p].key
        /\ t.pairs = task[p].pairs /\ t.barred = task[p].barred
    BY <1>2 DEF Task, Pcs
  <1>4. task' = [task EXCEPT ![p] = t]
    BY <1>1 DEF LoadUser
  <1> QED
    BY <1>3, <1>4 DEF Sent

LEMMA Revokes ==
  ASSUME TypeOK, NEW p \in Tasks,
         task' = [task EXCEPT ![p] = [@ EXCEPT !.pc = "revokeaccess", !.pairs = Settled]]
  PROVE  \E t \in Task :
           /\ task' = [task EXCEPT ![p] = t] /\ t.pc = "revokeaccess"
           /\ t.kind = task[p].kind /\ t.code = task[p].code /\ t.old = task[p].old
           /\ t.new = task[p].new /\ t.key = task[p].key /\ t.pairs = Settled
           /\ t.barred = task[p].barred
  <1> DEFINE t == [task[p] EXCEPT !.pc = "revokeaccess", !.pairs = Settled]
  <1>1. task[p] \in Task /\ Settled \in SUBSET Pairs
    BY DEF TypeOK, Settled
  <1>2. /\ t \in Task /\ t.pc = "revokeaccess" /\ t.kind = task[p].kind
        /\ t.code = task[p].code /\ t.old = task[p].old /\ t.new = task[p].new
        /\ t.key = task[p].key /\ t.pairs = Settled /\ t.barred = task[p].barred
    BY <1>1 DEF Task, Pcs
  <1>3. task' = [task EXCEPT ![p] = t]
    OBVIOUS
  <1> QED
    BY <1>2, <1>3

\* What a request is when it reaches its handler.
Begun(p, k, t) ==
  /\ task' \in [Tasks -> Task] /\ task'[p] = t /\ t \in Task
  /\ t.pc = FirstPc(k) /\ t.kind = k /\ t.code \in CodesFor(k) /\ t.old \in PairsFor(k)
  /\ t.new = NoPair /\ t.key = KeyOf(k)
  /\ t.pairs = IF k = "revokeall" THEN Settled ELSE {}
  /\ t.barred => /\ root = "suspended" /\ ~StatusChanging
                 /\ k \in {"exchange", "refresh", "userinfo"}
  /\ \A q \in Tasks : q # p =>
       \/ k # "status" /\ task'[q] = task[q]
       \/ k = "status" /\ task'[q] = [task[q] EXCEPT !.barred = FALSE]

\* A slot that a new handler fills.
Filled(x, k, c, n, s, y, b, S) ==
  [IdleTask EXCEPT !.pc = x, !.kind = k, !.code = c, !.old = n,
                   !.status = s, !.key = y, !.barred = b, !.pairs = S]

LEMMA FilledSlot ==
  ASSUME NEW x, NEW k, NEW c, NEW n, NEW s, NEW y, NEW b, NEW S,
         x \in Pcs, k \in AllKinds, c \in Codes \cup {NoCode}, n \in Pairs \cup {NoPair},
         s \in {"Active", "Suspended"}, y \in {"user", "actor", "subject"},
         b \in BOOLEAN, S \in SUBSET Pairs
  PROVE  LET t == Filled(x, k, c, n, s, y, b, S)
         IN  /\ t \in Task /\ t.pc = x /\ t.kind = k /\ t.code = c /\ t.old = n
             /\ t.new = NoPair /\ t.key = y /\ t.barred = b /\ t.pairs = S
  <1> DEFINE t == Filled(x, k, c, n, s, y, b, S)
  <1>1. t \in Task
    BY DEF Filled, IdleTask, Task
  <1>2. /\ t.pc = x /\ t.kind = k /\ t.code = c /\ t.old = n
        /\ t.new = NoPair /\ t.key = y /\ t.barred = b /\ t.pairs = S
    BY DEF Filled, IdleTask
  <1> QED
    BY <1>1, <1>2

LEMMA StartBegins ==
  ASSUME TypeOK, NEW p \in Tasks, NEW k \in Kinds, Start(p, k)
  PROVE  \E t \in Task : Begun(p, k, t)
  <1>0. k \in AllKinds /\ \A q \in Tasks : task[q] \in Task
    BY OidcTokensAssumption DEF TypeOK
  <1> DEFINE B == root = "suspended" /\ ~StatusChanging
                    /\ k \in {"exchange", "refresh", "userinfo"}
             S == IF k = "revokeall" THEN Settled ELSE {}
  <1>1. PICK c \in CodesFor(k), n \in PairsFor(k),
             s \in IF k = "status" THEN {"Active", "Suspended"} ELSE {"Active"} :
          task' = [q \in Tasks |->
                     IF q = p
                     THEN [IdleTask EXCEPT
                             !.pc = FirstPc(k), !.kind = k, !.code = c, !.old = n,
                             !.status = s, !.key = KeyOf(k), !.barred = B, !.pairs = S]
                     ELSE IF k = "status" THEN [task[q] EXCEPT !.barred = FALSE]
                     ELSE task[q]]
    BY DEF Start
  <1>2. PICK b \in BOOLEAN : b = B
    OBVIOUS
  <1> DEFINE t == Filled(FirstPc(k), k, c, n, s, KeyOf(k), b, S)
  <1> HIDE DEF B
  <1>3. /\ FirstPc(k) \in Pcs /\ c \in Codes \cup {NoCode} /\ n \in Pairs \cup {NoPair}
        /\ s \in {"Active", "Suspended"} /\ KeyOf(k) \in {"user", "actor", "subject"}
    BY <1>0 DEF FirstPc, Pcs, CodesFor, PairsFor, KeyOf, AllKinds
  <1>4. S \in SUBSET Pairs
    BY DEF Settled
  <1> HIDE DEF S
  <1>5. /\ t \in Task /\ t.pc = FirstPc(k) /\ t.kind = k /\ t.code = c /\ t.old = n
        /\ t.new = NoPair /\ t.key = KeyOf(k) /\ t.barred = b /\ t.pairs = S
    BY <1>0, <1>3, <1>4, FilledSlot
  <1>6. task' = [q \in Tasks |-> IF q = p THEN t
                                 ELSE IF k = "status" THEN [task[q] EXCEPT !.barred = FALSE]
                                 ELSE task[q]]
    BY <1>1, <1>2, Zenon DEF Filled
  <1> HIDE DEF t
  <1>7. \A q \in Tasks : [task[q] EXCEPT !.barred = FALSE] \in Task
    BY <1>0 DEF Task
  <1>8. task' \in [Tasks -> Task] /\ task'[p] = t
    BY <1>0, <1>5, <1>6, <1>7
  <1>9. \A q \in Tasks : q # p =>
          \/ k # "status" /\ task'[q] = task[q]
          \/ k = "status" /\ task'[q] = [task[q] EXCEPT !.barred = FALSE]
    BY <1>6
  <1>10. b => root = "suspended" /\ ~StatusChanging /\ k \in {"exchange", "refresh", "userinfo"}
    BY <1>2 DEF B
  <1>11. t.pairs = IF k = "revokeall" THEN Settled ELSE {}
    BY <1>5 DEF S
  <1> QED
    BY <1>5, <1>8, <1>9, <1>10, <1>11 DEF Begun

LEMMA EndTyped ==
  ASSUME TypeOK, NEW p \in Tasks, End(p)
  PROVE  task' \in [Tasks -> Task]
  BY IdleOK DEF End, TypeOK

LEMMA GotoTyped ==
  ASSUME TypeOK, NEW p \in Tasks, NEW x \in Pcs, Goto(p, x)
  PROVE  task' \in [Tasks -> Task]
  BY GotoSent DEF Sent, TypeOK

\* Steps that read, and change at most the handler.
Reads(p) ==
  \/ CheckSession(p) \/ AuthorizeGate(p) \/ AuthorizeUser(p) \/ ReadCode(p)
  \/ ReadRefresh(p) \/ LoadUser(p) \/ LoadGate(p) \/ ReadAccess(p)
  \/ UserinfoSubject(p) \/ Fail(p) \/ FailsSilently(p)

LEMMA ReadsTyped ==
  ASSUME TypeOK, NEW p \in Tasks, Reads(p)
  PROVE  task' \in [Tasks -> Task]
  <1> USE EndTyped, GotoTyped
  <1> USE DEF Pcs
  <1>1. CASE CheckSession(p)
    BY <1>1 DEF CheckSession
  <1>2. CASE AuthorizeGate(p)
    BY <1>2 DEF AuthorizeGate
  <1>3. CASE AuthorizeUser(p)
    BY <1>3 DEF AuthorizeUser
  <1>4. CASE ReadCode(p)
    BY <1>4 DEF ReadCode
  <1>5. CASE ReadRefresh(p)
    <2>1. \/ Goto(p, "consume") \/ End(p)
          \/ task' = [task EXCEPT ![p] = [@ EXCEPT !.pc = "revokeaccess", !.pairs = Settled]]
      BY <1>5 DEF ReadRefresh
    <2> QED
      BY <2>1, Revokes DEF TypeOK
  <1>6. CASE LoadUser(p)
    BY <1>6, LoadSent DEF Sent, TypeOK
  <1>7. CASE LoadGate(p)
    BY <1>7 DEF LoadGate
  <1>8. CASE ReadAccess(p)
    BY <1>8 DEF ReadAccess
  <1>9. CASE UserinfoSubject(p) \/ Fail(p)
    BY <1>9 DEF UserinfoSubject, Fail
  <1>10. CASE FailsSilently(p)
    BY <1>10 DEF FailsSilently
  <1> QED
    BY <1>1, <1>2, <1>3, <1>4, <1>5, <1>6, <1>7, <1>8, <1>9, <1>10 DEF Reads

\* Steps of a handler that write a table.
Writes(p) ==
  \/ SaveCode(p) \/ MarkCode(p) \/ ConsumeRefresh(p) \/ DropAccess(p)
  \/ SaveAccess(p) \/ SaveRefresh(p) \/ RevokeAccess(p) \/ RevokeRefresh(p)

\* Steps around the tables of the provider.
Around(p) ==
  GenerateIdToken(p) \/ SetRowStatus(p) \/ SetRootStatus(p) \/ DeleteSessions(p)

\* The new pair and the handler that stores it.
LEMMA SaveAccessIs ==
  ASSUME TypeOK, NEW p \in Tasks, SaveAccess(p)
  PROVE  \E n \in Pairs, t \in Task :
           /\ access[n] = "none" /\ access' = [access EXCEPT ![n] = "live"]
           /\ origin' = [origin EXCEPT ![n] = IF task[p].kind = "exchange" THEN task[p].code
                                              ELSE origin[task[p].old]]
           /\ parent' = [parent EXCEPT ![n] = task[p].old]
           /\ task' = [task EXCEPT ![p] = t] /\ t.pc = "saverefresh" /\ t.new = n
           /\ t.kind = task[p].kind /\ t.code = task[p].code /\ t.old = task[p].old
           /\ t.key = task[p].key /\ t.pairs = task[p].pairs /\ t.barred = task[p].barred
  <1>1. PICK n \in Pairs :
           /\ access[n] = "none" /\ access' = [access EXCEPT ![n] = "live"]
           /\ origin' = [origin EXCEPT ![n] = IF task[p].kind = "exchange" THEN task[p].code
                                              ELSE origin[task[p].old]]
           /\ parent' = [parent EXCEPT ![n] = task[p].old]
           /\ task' = [task EXCEPT ![p] = [@ EXCEPT !.pc = "saverefresh", !.new = n]]
    <2> DEFINE m == CHOOSE m \in Pairs : access[m] = "none"
    <2>1. m \in Pairs /\ access[m] = "none"
      BY DEF SaveAccess
    <2> QED
      BY <2>1 DEF SaveAccess
  <1> DEFINE t == [task[p] EXCEPT !.pc = "saverefresh", !.new = n]
  <1>2. task[p] \in Task
    BY DEF TypeOK
  <1>3. /\ t \in Task /\ t.pc = "saverefresh" /\ t.new = n
        /\ t.kind = task[p].kind /\ t.code = task[p].code /\ t.old = task[p].old
        /\ t.key = task[p].key /\ t.pairs = task[p].pairs /\ t.barred = task[p].barred
    BY <1>2 DEF Task, Pcs
  <1>4. task' = [task EXCEPT ![p] = t]
    BY <1>1
  <1> QED
    BY <1>1, <1>3, <1>4

LEMMA WritesTyped ==
  ASSUME TypeOK, NEW p \in Tasks, Carries(task[p]), Writes(p)
  PROVE  TypeOK'
  <1> USE EndTyped, GotoTyped
  <1> USE DEF Pcs
  <1>1. CASE SaveCode(p)
    BY <1>1 DEF SaveCode, TypeOK, account
  <1>2. CASE MarkCode(p)
    BY <1>2 DEF MarkCode, TypeOK, account
  <1>3. CASE ConsumeRefresh(p)
    BY <1>3 DEF ConsumeRefresh, TypeOK, account
  <1>4. CASE DropAccess(p)
    BY <1>4 DEF DropAccess, TypeOK, account
  <1>5. CASE SaveAccess(p)
    <2>1. PICK n \in Pairs, t \in Task :
           /\ access' = [access EXCEPT ![n] = "live"]
           /\ origin' = [origin EXCEPT ![n] = IF task[p].kind = "exchange" THEN task[p].code
                                              ELSE origin[task[p].old]]
           /\ parent' = [parent EXCEPT ![n] = task[p].old]
           /\ task' = [task EXCEPT ![p] = t]
      BY <1>5, SaveAccessIs
    <2>2. task[p].pc = "saveaccess" /\ task[p] \in Task
      BY <1>5 DEF SaveAccess, TypeOK
    <2>3. task[p].old \in Pairs \cup {NoPair} /\ task[p].code \in Codes \cup {NoCode}
      BY <2>2 DEF Task
    <2>4. task[p].kind = "exchange" \/ task[p].old \in Pairs
      BY <2>2 DEF Carries
    <2>5. UNCHANGED <<account, code, refresh, expired, idToken, voidPairs>>
      BY <1>5 DEF SaveAccess
    <2> QED
      BY <2>1, <2>3, <2>4, <2>5 DEF TypeOK, account
  <1>6. CASE SaveRefresh(p)
    BY <1>6 DEF SaveRefresh, TypeOK, account
  <1>7. CASE RevokeAccess(p)
    BY <1>7 DEF RevokeAccess, TypeOK, account
  <1>8. CASE RevokeRefresh(p)
    <2>1. task[p].pairs \in SUBSET Pairs
      BY DEF TypeOK, Task
    <2>2. task' \in [Tasks -> Task]
      BY <1>8 DEF RevokeRefresh
    <2> QED
      BY <1>8, <2>1, <2>2 DEF RevokeRefresh, TypeOK, account
  <1> QED
    BY <1>1, <1>2, <1>3, <1>4, <1>5, <1>6, <1>7, <1>8 DEF Writes

LEMMA AroundTyped ==
  ASSUME TypeOK, NEW p \in Tasks, Around(p)
  PROVE  TypeOK'
  <1> USE EndTyped, GotoTyped
  <1> USE DEF Pcs
  <1>1. CASE GenerateIdToken(p)
    BY <1>1 DEF GenerateIdToken, TypeOK, account
  <1>2. CASE SetRowStatus(p)
    <2>1. task[p].status \in {"Active", "Suspended"}
      BY DEF TypeOK, Task
    <2> QED
      BY <1>2, <2>1 DEF SetRowStatus, TypeOK, rows
  <1>3. CASE SetRootStatus(p)
    BY <1>3 DEF SetRootStatus, TypeOK, rows
  <1>4. CASE DeleteSessions(p)
    BY <1>4 DEF DeleteSessions, TypeOK, rows
  <1> QED
    BY <1>1, <1>2, <1>3, <1>4 DEF Around

\* Rows that reach their expires_at, and their cleanup.
Ageing ==
  \/ \E c \in Codes : CodeExpires(c)
  \/ \E n \in Pairs : AccessExpires(n) \/ RefreshExpires(n)
  \/ CleanupCodes \/ CleanupAccess \/ CleanupRefresh

LEMMA AgeingTyped ==
  ASSUME TypeOK, Ageing
  PROVE  TypeOK'
  <1>1. CASE \E c \in Codes : CodeExpires(c)
    BY <1>1 DEF CodeExpires, TypeOK, account, RowNames
  <1>2. CASE \E n \in Pairs : AccessExpires(n) \/ RefreshExpires(n)
    BY <1>2 DEF AccessExpires, RefreshExpires, TypeOK, account, RowNames
  <1>3. CASE CleanupCodes
    BY <1>3 DEF CleanupCodes, TypeOK, account
  <1>4. CASE CleanupAccess
    BY <1>4 DEF CleanupAccess, TypeOK, account
  <1>5. CASE CleanupRefresh
    BY <1>5 DEF CleanupRefresh, TypeOK, account
  <1> QED
    BY <1>1, <1>2, <1>3, <1>4, <1>5 DEF Ageing

\* Every step is one of these kinds.
LEMMA NextIs ==
  ASSUME [Next]_vars
  PROVE  \/ UNCHANGED vars \/ SessionChanges \/ Ageing
         \/ \E p \in Tasks : \/ \E k \in Kinds : Start(p, k)
                             \/ Reads(p) \/ Writes(p) \/ Around(p)
  BY DEF Next, TaskStep, Reads, Writes, Around, Ageing

LEMMA TypeStep ==
  ASSUME TypeOK, \A p \in Tasks : Carries(task[p]), [Next]_vars
  PROVE  TypeOK'
  <1>1. CASE UNCHANGED vars
    BY <1>1 DEF TypeOK, vars, account, rows
  <1>2. CASE SessionChanges
    BY <1>2 DEF TypeOK, SessionChanges, rows
  <1>3. ASSUME NEW p \in Tasks, NEW k \in Kinds, Start(p, k) PROVE TypeOK'
    <2>1. task' \in [Tasks -> Task]
      BY <1>3, StartBegins DEF Begun
    <2> QED
      BY <1>3, <2>1 DEF Start, TypeOK, account, rows
  <1>4. ASSUME NEW p \in Tasks, Reads(p) PROVE TypeOK'
    <2>1. UNCHANGED <<account, rows, voidPairs>>
      BY <1>4 DEF Reads, CheckSession, AuthorizeGate, AuthorizeUser, ReadCode, ReadRefresh,
                  LoadUser, LoadGate, ReadAccess, UserinfoSubject, Fail, FailsSilently
    <2>2. task' \in [Tasks -> Task]
      BY <1>4, ReadsTyped
    <2> QED
      BY <2>1, <2>2 DEF TypeOK, account, rows
  <1> QED
    BY <1>1, <1>2, <1>3, <1>4, WritesTyped, AroundTyped, AgeingTyped, NextIs

----------------------------------------------------------------------------
(* The main invariant is preserved.                                        *)

\* All that a step does to the tables, except where a pair is stored: codes and
\* tokens are used up and deleted.
Ages ==
  /\ UNCHANGED <<origin, parent>>
  /\ \A n \in Pairs : access'[n] = access[n] \/ (access[n] # "none" /\ access'[n] = "gone")
  /\ \A n \in Pairs : \/ refresh'[n] = refresh[n]
                      \/ refresh[n] = "fresh" /\ refresh'[n] = "used"
                      \/ refresh[n] # "none" /\ refresh'[n] = "gone"
  /\ \A c \in Codes : code'[c] = code[c] \/ code[c] = "none" \/ code'[c] \in {"used", "gone"}

\* Handlers that do not differ in what the invariant reads.
Like(u, t) ==
  /\ u.pc = t.pc /\ u.kind = t.kind /\ u.code = t.code /\ u.old = t.old
  /\ u.new = t.new /\ u.key = t.key /\ u.pairs = t.pairs

\* What a handler relies on does not age.
LEMMA AgesHandler ==
  ASSUME TypeOK, Ages, NEW t \in Task, NEW u \in Task, HandlerOK(t), Like(u, t)
  PROVE  HandlerOK(u)'
  <1>1. Carries(u)
    BY DEF HandlerOK, Carries, Like
  <1>2. HoldsOK(u)'
    <2>1. /\ u.code \in Codes \cup {NoCode} /\ u.old \in Pairs \cup {NoPair}
          /\ u.new \in Pairs \cup {NoPair}
      BY DEF Task
    <2>2. HoldsCode(u) => /\ code'[u.code] \in {"used", "gone"}
                          /\ \A n \in Pairs : origin'[n] # u.code
      <3>1. u.kind = "exchange" => u.code \in Codes
        BY <1>1 DEF Carries
      <3> QED
        BY <3>1 DEF HandlerOK, HoldsOK, HoldsCode, Like, Ages
    <2>3. u.kind = "refresh" => u.old \in Pairs /\ refresh'[u.old] # "none"
      BY <1>1 DEF HandlerOK, HoldsOK, Like, Ages, Carries
    <2>4. HoldsPair(u) => /\ refresh'[u.old] \in {"used", "gone"}
                          /\ \A n \in Pairs : parent'[n] # u.old
                          /\ u.pc # "drop" => access'[u.old] = "gone"
      BY <2>3 DEF HandlerOK, HoldsOK, HoldsPair, Like, Ages
    <2>5. u.pc = "saverefresh" => access'[u.new] # "none" /\ refresh'[u.new] = "none"
      BY <1>1 DEF HandlerOK, HoldsOK, Like, Ages, Carries
    <2> QED
      BY <2>2, <2>3, <2>4, <2>5 DEF HoldsOK, HoldsCode, HoldsPair
  <1>3. FoundOK(u)'
    <2>1. u.pairs \subseteq Pairs
      BY DEF Task
    <2> QED
      BY <2>1 DEF HandlerOK, FoundOK, Like, Ages
  <1> QED
    BY <1>1, <1>2, <1>3 DEF HandlerOK, Carries

LEMMA AgesChain ==
  ASSUME TypeOK, ChainOK, Ages
  PROVE  ChainOK'
  <1>1. \A n \in Pairs : parent[n] \in Pairs \cup {NoPair} /\ origin[n] \in Codes \cup {NoCode}
    BY DEF TypeOK
  <1>2. \A n \in Pairs : access'[n] = "none" =>
          origin'[n] = NoCode /\ parent'[n] = NoPair /\ refresh'[n] = "none"
    BY DEF ChainOK, Ages
  <1>3. \A n \in Pairs : parent'[n] # NoPair => Spent(parent[n])'
    BY <1>1 DEF ChainOK, Ages, Spent
  <1>4. \A n \in Pairs : origin'[n] # NoCode => code'[origin[n]] \in {"used", "gone"}
    BY <1>1 DEF ChainOK, Ages
  <1>5. \A n \in Pairs : HasSuccessor(n) => HasSuccessor(n)'
    BY DEF Ages, HasSuccessor
  <1> QED
    BY <1>2, <1>3, <1>4, <1>5 DEF ChainOK, Ages, Spent

LEMMA AgesExpired ==
  ASSUME ExpiredOK, Ages, expired' \subseteq expired
  PROVE  ExpiredOK'
  BY DEF ExpiredOK, Ages, AccessRow, RefreshRow

\* A step that at most uses up and deletes, and sends one handler on.
LEMMA AgesKeeps ==
  ASSUME OidcInv, TypeOK', Ages, expired' \subseteq expired,
         NEW p \in Tasks, NEW t \in Task, task'[p] = t,
         \A q \in Tasks : q # p => Like(task'[q], task[q]),
         HandlerOK(t)', t.pc # "saverefresh",
         HoldsCode(t) => \/ HoldsCode(task[p]) /\ t.code = task[p].code
                         \/ \A q \in Tasks : HoldsCode(task[q]) => task[q].code # t.code,
         HoldsPair(t) => \/ HoldsPair(task[p]) /\ t.old = task[p].old
                         \/ \A q \in Tasks : HoldsPair(task[q]) => task[q].old # t.old,
         t.new = task[p].new \/ t.new = NoPair,
         \A n \in t.pairs : \A q \in Tasks : task[q].new # n,
         \A n \in voidPairs' : \/ n \in voidPairs
                               \/ Void(n)' /\ \A q \in Tasks : task[q].new # n
  PROVE  OidcInv'
  <1>0. /\ \A q \in Tasks : task[q] \in Task /\ task'[q] \in Task /\ HandlerOK(task[q])
        /\ TypeOK /\ NoPair \notin Pairs
    BY OidcTokensAssumption DEF OidcInv, TypeOK
  <1>1. ChainOK'
    BY AgesChain DEF OidcInv
  <1>2. ASSUME NEW q \in Tasks PROVE HandlerOK(task[q])'
    <2>1. CASE q = p
      <3>1. HandlerOK(t)'
        OBVIOUS
      <3> QED
        BY <2>1, <3>1 DEF HandlerOK, Carries, HoldsOK, HoldsCode, HoldsPair, FoundOK
    <2>2. CASE q # p
      <3>1. PICK u \in Task : u = task'[q]
        BY <1>0
      <3>2. HandlerOK(u)'
        BY <1>0, <2>2, <3>1, AgesHandler
      <3> QED
        BY <3>1, <3>2 DEF HandlerOK, Carries, HoldsOK, HoldsCode, HoldsPair, FoundOK
    <2> QED
      BY <2>1, <2>2
  <1>3. \A q \in Tasks : t.pairs \subseteq Pairs /\ task[q].pairs \subseteq Pairs
    BY <1>0 DEF Task
  <1>4. Exclusive'
    <2>1. \A q, r \in Tasks : HoldsCode(task'[q]) /\ HoldsCode(task'[r])
                                /\ task'[q].code = task'[r].code => q = r
      BY DEF OidcInv, Exclusive, Like, HoldsCode
    <2>2. \A q, r \in Tasks : HoldsPair(task'[q]) /\ HoldsPair(task'[r])
                                /\ task'[q].old = task'[r].old => q = r
      BY DEF OidcInv, Exclusive, Like, HoldsPair
    <2>3. \A q, r \in Tasks : task'[q].pc = "saverefresh" /\ task'[r].pc = "saverefresh"
                                /\ task'[q].new = task'[r].new => q = r
      BY DEF OidcInv, Exclusive, Like
    <2>4. \A q, r \in Tasks : task'[q].new \notin task'[r].pairs
      BY <1>0, <1>3 DEF OidcInv, Exclusive, Like
    <2> QED
      BY <2>1, <2>2, <2>3, <2>4 DEF Exclusive, HoldsCode, HoldsPair
  <1>5. VoidOK'
    <2>1. voidPairs \subseteq Pairs /\ voidPairs' \subseteq Pairs
      BY <1>0 DEF TypeOK
    <2>2. \A n \in voidPairs : Void(n)'
      BY <2>1 DEF OidcInv, VoidOK, Void, Ages
    <2>3. \A n \in voidPairs' : \A q \in Tasks : task'[q].new # n
      BY <1>0, <2>1 DEF OidcInv, VoidOK, Like
    <2> QED
      BY <2>2, <2>3 DEF VoidOK, Void
  <1> QED
    BY <1>1, <1>2, <1>4, <1>5, AgesExpired DEF OidcInv

\* A handler that ends relies on nothing any more.
LEMMA EndKeeps ==
  ASSUME OidcInv, TypeOK', Ages, expired' \subseteq expired, NEW p \in Tasks, End(p),
         \A n \in voidPairs' : \/ n \in voidPairs
                               \/ Void(n)' /\ \A q \in Tasks : task[q].new # n
  PROVE  OidcInv'
  <1>1. HandlerOK(IdleTask)'
    BY IdleOK DEF HandlerOK, Carries, HoldsOK, HoldsCode, HoldsPair, FoundOK, Matches
  <1>2. ~HoldsCode(IdleTask) /\ ~HoldsPair(IdleTask)
    BY IdleOK DEF HoldsCode, HoldsPair
  <1>3. task'[p] = IdleTask /\ \A q \in Tasks : q # p => Like(task'[q], task[q])
    BY DEF End, OidcInv, TypeOK, Like
  <1>4. PICK t \in Task : t = IdleTask
    BY IdleOK
  <1>5. HandlerOK(t)'
    BY <1>1, <1>4 DEF HandlerOK, Carries, HoldsOK, HoldsCode, HoldsPair, FoundOK, IdleTask
  <1> QED
    BY <1>2, <1>3, <1>4, <1>5, AgesKeeps, IdleOK

\* A handler may be sent on when it has found out what the next step relies on.
LEMMA SentKeeps ==
  ASSUME OidcInv, TypeOK', Ages, expired' \subseteq expired, UNCHANGED voidPairs,
         NEW p \in Tasks,
         NEW x \in Pcs, NEW t \in Task, Sent(p, x, t),
         x # "saverefresh", x \notin {"readcode", "readrefresh", "readaccess"},
         x = "mark" => task[p].kind = "exchange",
         x \in {"consume", "drop"} => task[p].kind = "refresh",
         x \in {"load", "loadgate"} => task[p].kind \in {"exchange", "refresh", "userinfo"},
         x = "saveaccess" => task[p].kind \in {"exchange", "refresh"},
         x \in {"load", "loadgate", "saveaccess"} /\ task[p].kind = "exchange" =>
           \/ HoldsCode(task[p])
           \/ code[task[p].code] = "fresh" /\ code'[task[p].code] = "used",
         x \in {"drop", "load", "loadgate", "saveaccess"} /\ task[p].kind = "refresh" =>
           \/ HoldsPair(task[p]) /\ (task[p].pc # "drop" \/ access'[task[p].old] = "gone")
           \/ x = "drop" /\ refresh[task[p].old] = "fresh" /\ refresh'[task[p].old] = "used",
         x = "revokerefresh" /\ task[p].kind \in {"revokeall", "refresh"} =>
           \A n \in task[p].pairs : access'[n] = "gone"
  PROVE  OidcInv'
  <1>0. /\ task[p] \in Task /\ TypeOK /\ HandlerOK(task[p])
        /\ t.pc = x /\ t.kind = task[p].kind /\ t.code = task[p].code /\ t.old = task[p].old
        /\ t.new = task[p].new /\ t.key = task[p].key /\ t.pairs = task[p].pairs
        /\ task'[p] = t
    BY DEF Sent, OidcInv, TypeOK
  <1>1. \A q \in Tasks : q # p => Like(task'[q], task[q])
    BY <1>0 DEF Sent, Like, TypeOK
  <1>2. Carries(t)
    BY <1>0 DEF HandlerOK, Carries
  <1>3. t.kind = "exchange" => t.code \in Codes
    BY <1>2 DEF Carries
  <1>4. t.kind = "refresh" => t.old \in Pairs
    BY <1>2 DEF Carries
  <1>5. HoldsCode(t) => \/ HoldsCode(task[p])
                        \/ code[t.code] = "fresh" /\ code'[t.code] = "used"
    BY <1>0 DEF HoldsCode
  <1>6. HoldsPair(t) => \/ HoldsPair(task[p]) /\ (task[p].pc # "drop" \/ access'[t.old] = "gone")
                        \/ t.pc = "drop" /\ refresh[t.old] = "fresh" /\ refresh'[t.old] = "used"
    BY <1>0 DEF HoldsPair
  <1>7. HoldsCode(t) /\ code[t.code] = "fresh" =>
          /\ \A n \in Pairs : origin[n] # t.code
          /\ \A q \in Tasks : HoldsCode(task[q]) => task[q].code # t.code
    <2>1. \A n \in Pairs : origin[n] = t.code /\ t.code \in Codes => code[t.code] \in {"used", "gone"}
      BY OidcTokensAssumption DEF OidcInv, ChainOK
    <2>2. \A q \in Tasks : HoldsCode(task[q]) => code[task[q].code] \in {"used", "gone"}
      BY DEF OidcInv, HandlerOK, HoldsOK
    <2> QED
      BY <1>3, <2>1, <2>2 DEF HoldsCode
  <1>8. HoldsPair(t) /\ refresh[t.old] = "fresh" =>
          /\ \A n \in Pairs : parent[n] # t.old
          /\ \A q \in Tasks : HoldsPair(task[q]) => task[q].old # t.old
    <2>1. \A n \in Pairs : parent[n] = t.old /\ t.old \in Pairs => refresh[t.old] \in {"used", "gone"}
      BY OidcTokensAssumption DEF OidcInv, ChainOK, Spent
    <2>2. \A q \in Tasks : HoldsPair(task[q]) => refresh[task[q].old] \in {"used", "gone"}
      BY DEF OidcInv, HandlerOK, HoldsOK
    <2> QED
      BY <1>4, <2>1, <2>2 DEF HoldsPair
  <1>9. HoldsOK(t)'
    <2>1. HoldsCode(t) => /\ code'[t.code] \in {"used", "gone"}
                          /\ \A n \in Pairs : origin'[n] # t.code
      BY <1>0, <1>3, <1>5, <1>7 DEF HandlerOK, HoldsOK, HoldsCode, Ages
    <2>2. t.kind = "refresh" => refresh'[t.old] # "none"
      BY <1>0, <1>4 DEF HandlerOK, HoldsOK, Ages
    <2>3. HoldsPair(t) => /\ refresh'[t.old] \in {"used", "gone"}
                          /\ \A n \in Pairs : parent'[n] # t.old
                          /\ t.pc # "drop" => access'[t.old] = "gone"
      BY <1>0, <1>4, <1>6, <1>8 DEF HandlerOK, HoldsOK, HoldsPair, Ages
    <2> QED
      BY <1>0, <2>1, <2>2, <2>3 DEF HoldsOK, HoldsCode, HoldsPair
  <1>10. FoundOK(t)'
    <2>1. t.pairs \subseteq Pairs
      BY DEF Task
    <2> QED
      BY <1>0, <2>1 DEF HandlerOK, FoundOK, Ages
  <1>11. \A n \in t.pairs : \A q \in Tasks : task[q].new # n
    BY <1>0 DEF OidcInv, Exclusive
  <1>12. HandlerOK(t)'
    BY <1>2, <1>9, <1>10 DEF HandlerOK, Carries
  <1>13. HoldsCode(t) => \/ HoldsCode(task[p]) /\ t.code = task[p].code
                         \/ \A q \in Tasks : HoldsCode(task[q]) => task[q].code # t.code
    BY <1>0, <1>5, <1>7
  <1>14. HoldsPair(t) => \/ HoldsPair(task[p]) /\ t.old = task[p].old
                         \/ \A q \in Tasks : HoldsPair(task[q]) => task[q].old # t.old
    BY <1>0, <1>6, <1>8
  <1> QED
    BY <1>0, <1>1, <1>11, <1>12, <1>13, <1>14, AgesKeeps

----------------------------------------------------------------------------
(* The steps.                                                              *)

\* A step that leaves the tables of pairs alone lets them age by nothing.
LEMMA NoAge == ASSUME UNCHANGED <<code, access, refresh, origin, parent>> PROVE Ages
  BY DEF Ages

\* Settled pairs are complete and nobody is storing them.
LEMMA SettledIs ==
  ASSUME OidcInv, NEW n \in Settled
  PROVE  n \in Pairs /\ access[n] # "none" /\ \A q \in Tasks : task[q].new # n
  <1>1. n \in Pairs /\ (UsableAccess(n) \/ UsableRefresh(n)) /\ \A q \in Tasks : task[q].new # n
    BY DEF Settled
  <1> QED
    BY <1>1 DEF OidcInv, ChainOK, UsableAccess, UsableRefresh

LEMMA StartKeeps ==
  ASSUME OidcInv, TypeOK', NEW p \in Tasks, NEW k \in Kinds, Start(p, k)
  PROVE  OidcInv'
  <1>1. PICK t \in Task : Begun(p, k, t)
    BY StartBegins DEF OidcInv
  <1>2. Ages /\ UNCHANGED <<code, access, refresh, expired, origin, parent, voidPairs>>
    BY NoAge DEF Start, rows
  <1>3. k \in AllKinds
    BY OidcTokensAssumption
  <1>4. /\ t.pc = FirstPc(k) /\ t.kind = k /\ t.code \in CodesFor(k) /\ t.old \in PairsFor(k)
        /\ t.new = NoPair /\ t.key = KeyOf(k) /\ task'[p] = t
        /\ t.pairs = IF k = "revokeall" THEN Settled ELSE {}
    BY <1>1 DEF Begun
  <1>5. t.pc \in {"session", "readcode", "readrefresh", "readaccess", "sessions", "row",
                  "revokeaccess"}
        /\ (t.pc = "readcode" => k = "exchange") /\ (t.pc = "readrefresh" => k = "refresh")
        /\ (t.pc = "readaccess" => k = "userinfo")
    BY <1>3, <1>4 DEF FirstPc, AllKinds
  <1>6. Carries(t)
    <2>1. k = "exchange" => t.code \in Codes /\ t.old = NoPair
      BY <1>4 DEF CodesFor, PairsFor
    <2>2. k = "refresh" => t.old \in Pairs /\ refresh[t.old] # "none"
      BY <1>4 DEF PairsFor
    <2>3. k # "rplogout" => Matches(t.key)
      BY <1>3, <1>4 DEF KeyOf, Matches, AllKinds
    <2> QED
      BY <1>4, <1>5, <2>1, <2>2, <2>3 DEF Carries
  <1>7. k = "refresh" => refresh'[t.old] # "none"
    BY <1>2, <1>4 DEF PairsFor
  <1>8. HoldsOK(t)' /\ ~HoldsCode(t) /\ ~HoldsPair(t)
    BY <1>4, <1>5, <1>7 DEF HoldsOK, HoldsCode, HoldsPair
  <1>9. \A n \in t.pairs : access[n] # "none" /\ \A q \in Tasks : task[q].new # n
    BY <1>4, SettledIs
  <1>10. FoundOK(t)'
    BY <1>2, <1>5, <1>9 DEF FoundOK
  <1>11. HandlerOK(t)'
    BY <1>6, <1>8, <1>10 DEF HandlerOK, Carries
  <1>12. ASSUME NEW q \in Tasks, q # p PROVE Like(task'[q], task[q])
    <2>1. task[q] \in Task
      BY DEF OidcInv, TypeOK
    <2>2. task'[q] = task[q] \/ task'[q] = [task[q] EXCEPT !.barred = FALSE]
      BY <1>1, <1>12 DEF Begun
    <2> QED
      BY <2>1, <2>2 DEF Like, Task
  <1> QED
    BY <1>2, <1>4, <1>5, <1>8, <1>9, <1>11, <1>12, AgesKeeps

LEMMA ReadsKeeps ==
  ASSUME OidcInv, TypeOK', NEW p \in Tasks, Reads(p)
  PROVE  OidcInv'
  <1>0. /\ UNCHANGED <<code, access, refresh, expired, origin, parent, voidPairs>>
        /\ TypeOK /\ Carries(task[p])
    BY DEF Reads, CheckSession, AuthorizeGate, AuthorizeUser, ReadCode, ReadRefresh,
           LoadUser, LoadGate, ReadAccess, UserinfoSubject, Fail, FailsSilently, rows,
           OidcInv, HandlerOK
  <1>1. Ages /\ UNCHANGED <<expired, voidPairs>>
    BY <1>0, NoAge
  <1>2. End(p) => OidcInv'
    BY <1>1, EndKeeps
  <1>3. ASSUME NEW x \in Pcs, Goto(p, x),
               x \in {"session", "gate", "user", "save", "consume", "mark", "load",
                      "subject", "saveaccess", "revokeaccess", "sessions"},
               x = "mark" => task[p].kind = "exchange",
               x = "consume" => task[p].kind = "refresh",
               x = "load" => task[p].kind = "userinfo",
               x = "saveaccess" => /\ task[p].kind \in {"exchange", "refresh"}
                                   /\ task[p].pc = "loadgate"
        PROVE  OidcInv'
    <2>1. PICK t \in Task : Sent(p, x, t)
      BY <1>0, <1>3, GotoSent
    <2>2. x = "saveaccess" => /\ task[p].kind = "exchange" => HoldsCode(task[p])
                              /\ task[p].kind = "refresh" => HoldsPair(task[p])
      BY <1>3 DEF HoldsCode, HoldsPair
    <2> QED
      BY <1>1, <1>3, <2>1, <2>2, SentKeeps
  <1>4. CASE CheckSession(p) \/ AuthorizeGate(p) \/ AuthorizeUser(p)
    <2>1. \/ End(p)
          \/ \E x \in {"session", "gate", "user", "save"} : Goto(p, x)
      BY <1>4 DEF CheckSession, AuthorizeGate, AuthorizeUser
    <2> QED
      BY <1>2, <1>3, <2>1 DEF Pcs
  <1>5. CASE ReadCode(p)
    <2>1. task[p].kind = "exchange"
      BY <1>0, <1>5 DEF ReadCode, Carries
    <2>2. End(p) \/ Goto(p, "mark")
      BY <1>5 DEF ReadCode
    <2> QED
      BY <1>2, <1>3, <2>1, <2>2 DEF Pcs
  <1>6. CASE ReadRefresh(p)
    <2>1. task[p].kind = "refresh" /\ task[p].pc = "readrefresh"
      BY <1>0, <1>6 DEF ReadRefresh, Carries
    <2>2. \/ End(p) \/ Goto(p, "consume")
          \/ task' = [task EXCEPT ![p] = [@ EXCEPT !.pc = "revokeaccess", !.pairs = Settled]]
      BY <1>6 DEF ReadRefresh
    <2>3. CASE task' = [task EXCEPT ![p] = [@ EXCEPT !.pc = "revokeaccess", !.pairs = Settled]]
      <3>1. PICK t \in Task :
              /\ task' = [task EXCEPT ![p] = t] /\ t.pc = "revokeaccess"
              /\ t.kind = task[p].kind /\ t.code = task[p].code /\ t.old = task[p].old
              /\ t.new = task[p].new /\ t.key = task[p].key /\ t.pairs = Settled
        BY <1>0, <2>3, Revokes
      <3>2. Carries(t)
        BY <1>0, <2>1, <3>1 DEF Carries
      <3>3. HoldsOK(t)' /\ ~HoldsCode(t) /\ ~HoldsPair(t)
        BY <1>0, <2>1, <3>1 DEF OidcInv, HandlerOK, HoldsOK, HoldsCode, HoldsPair
      <3>4. \A n \in t.pairs : access[n] # "none" /\ \A q \in Tasks : task[q].new # n
        BY <3>1, SettledIs
      <3>5. HandlerOK(t)'
        BY <1>0, <3>1, <3>2, <3>3, <3>4 DEF HandlerOK, Carries, FoundOK
      <3>6. task'[p] = t /\ \A q \in Tasks : q # p => Like(task'[q], task[q])
        BY <1>0, <3>1 DEF Like, TypeOK
      <3> QED
        BY <1>1, <3>1, <3>3, <3>4, <3>5, <3>6, AgesKeeps
    <2> QED
      BY <1>2, <1>3, <2>1, <2>2, <2>3 DEF Pcs
  <1>7. CASE LoadUser(p)
    <2>1. PICK t \in Task : Sent(p, "loadgate", t)
      BY <1>0, <1>7, LoadSent
    <2>2. task[p].pc = "load" /\ task[p].kind \in {"exchange", "refresh", "userinfo"}
      BY <1>0, <1>7 DEF LoadUser, Carries
    <2>3. /\ task[p].kind = "exchange" => HoldsCode(task[p])
          /\ task[p].kind = "refresh" => HoldsPair(task[p])
      BY <2>2 DEF HoldsCode, HoldsPair
    <2> QED
      BY <1>1, <2>1, <2>2, <2>3, SentKeeps DEF Pcs
  <1>8. CASE LoadGate(p)
    <2>1. task[p].pc = "loadgate" /\ task[p].kind \in {"exchange", "refresh", "userinfo"}
      BY <1>0, <1>8 DEF LoadGate, Carries
    <2>2. \/ End(p)
          \/ Goto(p, "subject") /\ task[p].kind = "userinfo"
          \/ Goto(p, "saveaccess") /\ task[p].kind # "userinfo"
      BY <1>8 DEF LoadGate
    <2> QED
      BY <1>2, <1>3, <2>1, <2>2 DEF Pcs
  <1>9. CASE ReadAccess(p)
    <2>1. End(p) \/ Goto(p, "load")
      BY <1>9 DEF ReadAccess
    <2>2. task[p].kind = "userinfo"
      BY <1>0, <1>9 DEF ReadAccess, Carries
    <2> QED
      BY <1>2, <1>3, <2>1, <2>2 DEF Pcs
  <1>10. CASE UserinfoSubject(p) \/ Fail(p)
    BY <1>2, <1>10 DEF UserinfoSubject, Fail
  <1>11. CASE FailsSilently(p)
    <2>1. End(p) \/ Goto(p, "revokeaccess") \/ Goto(p, "sessions")
      BY <1>11 DEF FailsSilently
    <2> QED
      BY <1>2, <1>3, <2>1 DEF Pcs
  <1> QED
    BY <1>4, <1>5, <1>6, <1>7, <1>8, <1>9, <1>10, <1>11 DEF Reads

LEMMA AroundKeeps ==
  ASSUME OidcInv, TypeOK', NEW p \in Tasks, Around(p)
  PROVE  OidcInv'
  <1>0. UNCHANGED <<code, access, refresh, expired, origin, parent, voidPairs>> /\ TypeOK
    BY DEF Around, GenerateIdToken, SetRowStatus, SetRootStatus, DeleteSessions, rows, OidcInv
  <1>1. Ages /\ UNCHANGED <<expired, voidPairs>>
    BY <1>0, NoAge
  <1>2. End(p) => OidcInv'
    BY <1>1, EndKeeps
  <1>3. ASSUME NEW x \in {"root", "sessions", "revokeaccess"}, Goto(p, x)
        PROVE  OidcInv'
    <2>1. PICK t \in Task : Sent(p, x, t)
      BY <1>0, <1>3, GotoSent DEF Pcs
    <2> QED
      BY <1>1, <1>3, <2>1, SentKeeps DEF Pcs
  <1>4. End(p) \/ \E x \in {"root", "sessions", "revokeaccess"} : Goto(p, x)
    BY DEF Around, GenerateIdToken, SetRowStatus, SetRootStatus, DeleteSessions
  <1> QED
    BY <1>2, <1>3, <1>4

LEMMA AgeingAges ==
  ASSUME TypeOK, ExpiredOK, Ageing \/ SessionChanges \/ UNCHANGED vars
  PROVE  Ages /\ ExpiredOK' /\ UNCHANGED <<task, voidPairs>>
  <1>1. UNCHANGED <<task, voidPairs, origin, parent>>
    BY DEF Ageing, CodeExpires, AccessExpires, RefreshExpires, CleanupCodes, CleanupAccess,
           CleanupRefresh, SessionChanges, vars, rows
  <1>2. ASSUME NEW c \in Codes, CodeExpires(c) PROVE Ages /\ ExpiredOK'
    BY <1>2, NoAge DEF CodeExpires, ExpiredOK, CodeRow, AccessRow, RefreshRow
  <1>3. ASSUME NEW n \in Pairs, AccessExpires(n) PROVE Ages /\ ExpiredOK'
    <2>1. Ages
      BY <1>3, NoAge DEF AccessExpires
    <2>2. /\ access[n] = "live" /\ UNCHANGED <<access, refresh>>
          /\ expired' = expired \cup {AccessRow(n)}
      BY <1>3 DEF AccessExpires
    <2>3. ASSUME NEW m \in Pairs
          PROVE  /\ AccessRow(m) \in expired' => access[m] # "none"
                 /\ RefreshRow(m) \in expired' => refresh[m] # "none"
      <3>1. AccessRow(m) = AccessRow(n) => m = n
        BY DEF AccessRow
      <3>2. RefreshRow(m) # AccessRow(n)
        BY DEF AccessRow, RefreshRow
      <3> QED
        BY <2>2, <3>1, <3>2 DEF ExpiredOK
    <2>4. ExpiredOK'
      BY <2>2, <2>3 DEF ExpiredOK, AccessRow, RefreshRow
    <2> QED
      BY <2>1, <2>4
  <1>4. ASSUME NEW n \in Pairs, RefreshExpires(n) PROVE Ages /\ ExpiredOK'
    BY <1>4, NoAge DEF RefreshExpires, ExpiredOK, AccessRow, RefreshRow
  <1>5. CASE CleanupCodes
    <2>1. Ages
      BY <1>5 DEF CleanupCodes, Ages
    <2> QED
      BY <1>5, <2>1, AgesExpired DEF CleanupCodes
  <1>6. CASE CleanupAccess
    <2>1. /\ UNCHANGED <<code, refresh, origin, parent>>
          /\ \A n \in Pairs : access'[n] = IF AccessRow(n) \in expired THEN "gone" ELSE access[n]
      BY <1>6 DEF CleanupAccess
    <2>2. \A n \in Pairs : access[n] # "none" \/ AccessRow(n) \notin expired
      BY DEF ExpiredOK
    <2>3. Ages
      BY <2>1, <2>2 DEF Ages
    <2>4. expired' \subseteq expired
      BY <1>6 DEF CleanupAccess
    <2> QED
      BY <1>1, <2>3, <2>4, AgesExpired
  <1>7. CASE CleanupRefresh
    <2>1. /\ UNCHANGED <<code, access, origin, parent>>
          /\ \A n \in Pairs : refresh'[n] = IF RefreshRow(n) \in expired THEN "gone" ELSE refresh[n]
      BY <1>7 DEF CleanupRefresh
    <2>2. \A n \in Pairs : refresh[n] # "none" \/ RefreshRow(n) \notin expired
      BY DEF ExpiredOK
    <2>3. Ages
      BY <2>1, <2>2 DEF Ages
    <2>4. expired' \subseteq expired
      BY <1>7 DEF CleanupRefresh
    <2> QED
      BY <1>1, <2>3, <2>4, AgesExpired
  <1>8. CASE SessionChanges \/ UNCHANGED vars
    <2>1. UNCHANGED <<code, access, refresh, expired, origin, parent>>
      BY <1>8 DEF SessionChanges, vars, rows
    <2> QED
      BY <1>1, <2>1, NoAge, AgesExpired
  <1> QED
    BY <1>1, <1>2, <1>3, <1>4, <1>5, <1>6, <1>7, <1>8 DEF Ageing

LEMMA AgeingKeeps ==
  ASSUME OidcInv, TypeOK', Ageing \/ SessionChanges \/ UNCHANGED vars
  PROVE  OidcInv'
  <1>1. TypeOK /\ Ages /\ ExpiredOK' /\ UNCHANGED <<task, voidPairs>>
    BY AgeingAges DEF OidcInv
  <1>2. ASSUME NEW q \in Tasks PROVE HandlerOK(task[q])'
    <2>1. PICK t \in Task : t = task[q] /\ Like(t, t) /\ HandlerOK(t)
      BY DEF OidcInv, TypeOK, Like
    <2>2. HandlerOK(t)'
      BY <1>1, <2>1, AgesHandler
    <2> QED
      BY <1>1, <2>1, <2>2 DEF HandlerOK, Carries, HoldsOK, HoldsCode, HoldsPair, FoundOK
  <1>3. Exclusive'
    BY <1>1 DEF OidcInv, Exclusive, HoldsCode, HoldsPair
  <1>4. VoidOK'
    BY <1>1 DEF OidcInv, VoidOK, Void, Ages, TypeOK
  <1> QED
    BY <1>1, <1>2, <1>3, <1>4, AgesChain DEF OidcInv

\* Steps that use up a code or a token, or delete.
UsesUp(p) ==
  \/ SaveCode(p) \/ MarkCode(p) \/ ConsumeRefresh(p) \/ DropAccess(p)
  \/ RevokeAccess(p) \/ RevokeRefresh(p)

LEMMA UsesUpKeeps ==
  ASSUME OidcInv, TypeOK', NEW p \in Tasks, UsesUp(p)
  PROVE  OidcInv'
  <1>0. /\ TypeOK /\ Carries(task[p]) /\ HoldsOK(task[p]) /\ FoundOK(task[p]) /\ ChainOK
        /\ task[p] \in Task
    BY DEF OidcInv, HandlerOK, TypeOK
  <1>1. CASE SaveCode(p)
    <2>1. Ages /\ UNCHANGED <<expired, voidPairs>> /\ End(p)
      BY <1>1 DEF SaveCode, Ages
    <2> QED
      BY <2>1, EndKeeps
  <1>2. CASE MarkCode(p)
    <2>1. task[p].kind = "exchange" /\ task[p].code \in Codes
      BY <1>0, <1>2 DEF MarkCode, Carries
    <2>2. /\ Ages /\ UNCHANGED <<expired, voidPairs>>
          /\ \/ End(p)
             \/ /\ Goto(p, "load")
                /\ code[task[p].code] = "fresh" /\ code'[task[p].code] = "used"
      BY <1>0, <1>2, <2>1 DEF MarkCode, Ages, TypeOK
    <2>3. CASE Goto(p, "load") /\ code[task[p].code] = "fresh" /\ code'[task[p].code] = "used"
      <3>1. "load" \in Pcs
        BY DEF Pcs
      <3>2. PICK t \in Task : Sent(p, "load", t)
        BY <1>0, <2>3, <3>1, GotoSent
      <3> QED
        BY <2>1, <2>2, <2>3, <3>1, <3>2, SentKeeps
    <2> QED
      BY <2>2, <2>3, EndKeeps
  <1>3. CASE ConsumeRefresh(p)
    <2>1. task[p].kind = "refresh" /\ task[p].old \in Pairs
      BY <1>0, <1>3 DEF ConsumeRefresh, Carries
    <2>2. /\ Ages /\ UNCHANGED <<expired, voidPairs>>
          /\ \/ End(p)
             \/ /\ Goto(p, "drop")
                /\ refresh[task[p].old] = "fresh" /\ refresh'[task[p].old] = "used"
      BY <1>0, <1>3, <2>1 DEF ConsumeRefresh, Ages, TypeOK
    <2>3. CASE Goto(p, "drop") /\ refresh[task[p].old] = "fresh" /\ refresh'[task[p].old] = "used"
      <3>1. "drop" \in Pcs
        BY DEF Pcs
      <3>2. PICK t \in Task : Sent(p, "drop", t)
        BY <1>0, <2>3, <3>1, GotoSent
      <3> QED
        BY <2>1, <2>2, <2>3, <3>1, <3>2, SentKeeps
    <2> QED
      BY <2>2, <2>3, EndKeeps
  <1>4. CASE DropAccess(p)
    <2>1. task[p].kind = "refresh" /\ task[p].old \in Pairs /\ task[p].pc = "drop"
      BY <1>0, <1>4 DEF DropAccess, Carries
    <2>2. access[task[p].old] # "none"
      BY <1>0, <2>1 DEF HoldsOK, ChainOK
    <2>3. /\ Ages /\ expired' \subseteq expired /\ UNCHANGED voidPairs
          /\ End(p) \/ Goto(p, "load")
          /\ access'[task[p].old] = "gone" /\ HoldsPair(task[p])
      BY <1>0, <1>4, <2>1, <2>2 DEF DropAccess, Ages, TypeOK, HoldsPair
    <2>4. CASE Goto(p, "load")
      <3>1. "load" \in Pcs
        BY DEF Pcs
      <3>2. PICK t \in Task : Sent(p, "load", t)
        BY <1>0, <2>4, <3>1, GotoSent
      <3> QED
        BY <2>1, <2>3, <2>4, <3>1, <3>2, SentKeeps
    <2> QED
      BY <2>3, <2>4, EndKeeps
  <1>5. CASE RevokeAccess(p)
    <2>1. /\ UNCHANGED <<code, refresh, origin, parent, voidPairs>>
          /\ expired' \subseteq expired /\ Goto(p, "revokerefresh")
          /\ \A n \in Pairs : access'[n] = IF access[n] = "live" /\ Matches(task[p].key)
                                           THEN "gone" ELSE access[n]
      BY <1>5 DEF RevokeAccess
    <2>2. Ages
      BY <2>1 DEF Ages
    <2>3. task[p].kind \in {"revokeall", "refresh"} => \A n \in task[p].pairs : access'[n] = "gone"
      <3>1. \A n \in task[p].pairs : n \in Pairs /\ access[n] \in {"live", "gone"}
        BY <1>0 DEF FoundOK, Task, TypeOK
      <3>2. task[p].kind \in {"revokeall", "refresh"} => Matches(task[p].key)
        BY <1>0 DEF Carries
      <3> QED
        BY <2>1, <3>1, <3>2
    <2>4. "revokerefresh" \in Pcs
      BY DEF Pcs
    <2>5. PICK t \in Task : Sent(p, "revokerefresh", t)
      BY <1>0, <2>1, <2>4, GotoSent
    <2> QED
      BY <2>1, <2>2, <2>3, <2>4, <2>5, SentKeeps
  <1>6. CASE RevokeRefresh(p)
    <2>1. /\ UNCHANGED <<code, access, origin, parent>> /\ expired' \subseteq expired
          /\ \A n \in Pairs : refresh'[n] = IF refresh[n] # "none" /\ Matches(task[p].key)
                                            THEN "gone" ELSE refresh[n]
          /\ task[p].pc = "revokerefresh"
      BY <1>6 DEF RevokeRefresh
    <2>2. Ages
      BY <2>1 DEF Ages
    <2>3. CASE task[p].kind = "rplogout"
      <3>1. Goto(p, "sessions") /\ UNCHANGED voidPairs
        BY <1>6, <2>3 DEF RevokeRefresh
      <3>2. "sessions" \in Pcs
        BY DEF Pcs
      <3>3. PICK t \in Task : Sent(p, "sessions", t)
        BY <1>0, <3>1, <3>2, GotoSent
      <3> QED
        BY <2>1, <2>2, <3>1, <3>2, <3>3, SentKeeps
    <2>4. CASE task[p].kind # "rplogout"
      <3>1. Matches(task[p].key) /\ End(p)
        BY <1>0, <1>6, <2>4 DEF Carries, RevokeRefresh
      <3>2. \A n \in voidPairs' : \/ n \in voidPairs
                                  \/ n \in task[p].pairs /\ task[p].kind \in {"revokeall", "refresh"}
        BY <1>6 DEF RevokeRefresh
      <3>3. ASSUME NEW n \in task[p].pairs, task[p].kind \in {"revokeall", "refresh"}
            PROVE  Void(n)' /\ \A q \in Tasks : task[q].new # n
        <4>1. n \in Pairs /\ access[n] = "gone"
          BY <1>0, <2>1, <3>3 DEF FoundOK, Task
        <4>2. Void(n)'
          BY <2>1, <3>1, <4>1 DEF Void
        <4> QED
          BY <4>2 DEF OidcInv, Exclusive
      <3>4. \A n \in voidPairs' : \/ n \in voidPairs
                                  \/ Void(n)' /\ \A q \in Tasks : task[q].new # n
        BY <3>2, <3>3 DEF Void
      <3> QED
        BY <2>1, <2>2, <3>1, <3>4, EndKeeps
    <2> QED
      BY <2>3, <2>4
  <1> QED
    BY <1>1, <1>2, <1>3, <1>4, <1>5, <1>6 DEF UsesUp

\* Storing the refresh token of a pair: nothing relies on its absence but the
\* handler that stores it.
LEMMA StoresRefresh ==
  ASSUME OidcInv, TypeOK', NEW p \in Tasks, NEW n \in Pairs, NEW t \in Task,
         task[p].pc = "saverefresh", n = task[p].new,
         refresh' = [refresh EXCEPT ![n] = "fresh"],
         UNCHANGED <<code, access, expired, origin, parent, voidPairs>>,
         task' = [task EXCEPT ![p] = t],
         \/ t = IdleTask
         \/ Sent(p, "idtoken", t)
  PROVE  OidcInv'
  <1>0. /\ TypeOK /\ ChainOK /\ Exclusive /\ VoidOK /\ ExpiredOK /\ NoPair \notin Pairs
        /\ \A q \in Tasks : task[q] \in Task /\ HandlerOK(task[q])
    BY OidcTokensAssumption DEF OidcInv, TypeOK
  <1>1. access[n] # "none" /\ refresh[n] = "none"
    BY <1>0 DEF HandlerOK, HoldsOK
  <1>2. refresh'[n] = "fresh" /\ \A m \in Pairs : m # n => refresh'[m] = refresh[m]
    BY <1>0 DEF TypeOK
  <1>3. task'[p] = t /\ \A q \in Tasks : q # p => task'[q] = task[q]
    BY <1>0 DEF TypeOK
  <1>4. /\ t.pc \in {"idle", "idtoken"} /\ t.pairs \subseteq task[p].pairs
        /\ t.new \in {n, NoPair}
        /\ \/ t.kind = "userinfo" /\ t.key = "user"
           \/ /\ t.kind = task[p].kind /\ t.code = task[p].code /\ t.old = task[p].old
              /\ t.key = task[p].key
    <2>1. CASE t = IdleTask
      BY <2>1, IdleOK
    <2>2. CASE Sent(p, "idtoken", t)
      BY <2>2 DEF Sent
    <2> QED
      BY <2>1, <2>2
  <1>5. ChainOK'
    <2>1. \A m \in Pairs : parent[m] \in Pairs \cup {NoPair}
      BY <1>0 DEF TypeOK
    <2>2. \A m \in Pairs : parent[m] # NoPair => Spent(parent[m])'
      BY <1>0, <1>1, <1>2, <2>1 DEF ChainOK, Spent
    <2> QED
      BY <1>0, <1>1, <1>2, <2>2 DEF ChainOK, HasSuccessor, Spent
  <1>6. ASSUME NEW q \in Tasks PROVE HandlerOK(task[q])'
    <2>1. CASE q = p
      <3>1. Carries(t)
        BY <1>0, <1>4 DEF HandlerOK, Carries, Matches
      <3>2. t.kind = "refresh" => t.old \in Pairs /\ refresh'[t.old] # "none"
        BY <1>0, <1>2, <1>4, <3>1 DEF HandlerOK, HoldsOK, Carries
      <3>3. \A m \in t.pairs : access'[m] # "none"
        BY <1>0, <1>4 DEF HandlerOK, FoundOK
      <3> QED
        BY <1>3, <1>4, <2>1, <3>1, <3>2, <3>3
           DEF HandlerOK, Carries, HoldsOK, HoldsCode, HoldsPair, FoundOK
    <2>2. CASE q # p
      <3>1. PICK u \in Task : u = task[q] /\ u = task'[q]
        BY <1>0, <1>3, <2>2
      <3>2. /\ Carries(u) /\ HoldsOK(u) /\ FoundOK(u)
            /\ u.pc = "saverefresh" => u.new # n
        BY <1>0, <2>2, <3>1 DEF HandlerOK, Exclusive
      <3>3. u.kind = "refresh" => u.old \in Pairs /\ refresh'[u.old] # "none"
        BY <1>2, <3>2 DEF HoldsOK, Carries
      <3>4. HoldsPair(u) => refresh'[u.old] \in {"used", "gone"}
        BY <1>1, <1>2, <3>2, <3>3 DEF HoldsOK, HoldsPair
      <3>5. u.pc = "saverefresh" => refresh'[u.new] = "none"
        BY <1>2, <3>2 DEF HoldsOK, Carries
      <3>6. HoldsOK(u)'
        BY <3>2, <3>3, <3>4, <3>5 DEF HoldsOK, HoldsCode, HoldsPair
      <3> QED
        BY <3>1, <3>2, <3>6 DEF HandlerOK, Carries, HoldsOK, HoldsCode, HoldsPair, FoundOK
    <2> QED
      BY <2>1, <2>2
  <1>7. Exclusive'
    <2>1. \A q \in Tasks : task[q].pairs \subseteq Pairs
      BY <1>0 DEF Task
    <2> QED
      BY <1>0, <1>3, <1>4, <2>1 DEF Exclusive, HoldsCode, HoldsPair
  <1>8. VoidOK'
    <2>1. voidPairs \subseteq Pairs /\ n \notin voidPairs
      BY <1>0 DEF VoidOK, TypeOK
    <2> QED
      BY <1>0, <1>2, <1>3, <1>4, <2>1 DEF VoidOK, Void
  <1>9. ExpiredOK'
    <2>1. ASSUME NEW m \in Pairs
          PROVE  /\ AccessRow(m) \in expired => access'[m] # "none"
                 /\ RefreshRow(m) \in expired => refresh'[m] # "none"
      BY <1>0, <1>2 DEF ExpiredOK
    <2> QED
      BY <2>1 DEF ExpiredOK, AccessRow, RefreshRow
  <1> QED
    BY <1>5, <1>6, <1>7, <1>8, <1>9 DEF OidcInv

LEMMA SaveRefreshKeeps ==
  ASSUME OidcInv, TypeOK', NEW p \in Tasks, SaveRefresh(p)
  PROVE  OidcInv'
  <1>0. /\ TypeOK /\ "idtoken" \in Pcs /\ task[p].pc = "saverefresh" /\ task[p].new \in Pairs
        /\ UNCHANGED <<code, access, expired, origin, parent, voidPairs>>
        /\ Goto(p, "idtoken") \/ End(p)
    BY DEF OidcInv, Pcs, SaveRefresh, HandlerOK, Carries
  <1>1. CASE UNCHANGED refresh
    <2>1. Ages
      BY <1>0, <1>1, NoAge
    <2>2. CASE Goto(p, "idtoken")
      <3>1. PICK t \in Task : Sent(p, "idtoken", t)
        BY <1>0, <2>2, GotoSent
      <3> QED
        BY <1>0, <2>1, <3>1, SentKeeps
    <2> QED
      BY <1>0, <2>1, <2>2, EndKeeps
  <1>2. CASE refresh' = [refresh EXCEPT ![task[p].new] = "fresh"]
    <2>1. \E t \in Task : /\ task' = [task EXCEPT ![p] = t]
                          /\ t = IdleTask \/ Sent(p, "idtoken", t)
      <3>1. CASE Goto(p, "idtoken")
        BY <1>0, <3>1, GotoSent DEF Sent
      <3>2. CASE End(p)
        BY <3>2, IdleOK DEF End
      <3> QED
        BY <1>0, <3>1, <3>2
    <2> QED
      BY <1>0, <1>2, <2>1, StoresRefresh
  <1> QED
    BY <1>1, <1>2 DEF SaveRefresh

\* Storing the access token: the pair takes its place at the end of a chain,
\* which is the place the handler held.
LEMMA ExtendsChain ==
  ASSUME TypeOK, ChainOK, NEW n \in Pairs, access[n] = "none",
         NEW c \in Codes \cup {NoCode}, NEW o \in Pairs \cup {NoPair},
         access' = [access EXCEPT ![n] = "live"],
         origin' = [origin EXCEPT ![n] = c], parent' = [parent EXCEPT ![n] = o],
         UNCHANGED <<code, refresh>>,
         \/ /\ o = NoPair /\ c \in Codes /\ code[c] \in {"used", "gone"}
            /\ \A m \in Pairs : origin[m] # c
         \/ /\ o \in Pairs /\ c = origin[o] /\ Spent(o)
            /\ \A m \in Pairs : parent[m] # o
  PROVE  ChainOK'
  <1>0. /\ NoPair \notin Pairs /\ NoCode \notin Codes
        /\ \A m \in Pairs : parent[m] \in Pairs \cup {NoPair} /\ origin[m] \in Codes \cup {NoCode}
    BY OidcTokensAssumption DEF TypeOK
  <1>1. origin[n] = NoCode /\ parent[n] = NoPair /\ refresh[n] = "none"
    BY DEF ChainOK
  <1>2. /\ access'[n] = "live" /\ origin'[n] = c /\ parent'[n] = o
        /\ \A m \in Pairs : m # n => /\ access'[m] = access[m] /\ origin'[m] = origin[m]
                                     /\ parent'[m] = parent[m]
    BY DEF TypeOK
  <1>3. \A m \in Pairs : Spent(m) => m # n /\ Spent(m)'
    BY <1>2 DEF Spent
  <1>4. \A m \in Pairs : HasSuccessor(m) => HasSuccessor(m)'
    BY <1>0, <1>1, <1>2 DEF HasSuccessor
  <1>5. \A m \in Pairs : access'[m] = "none" =>
          origin'[m] = NoCode /\ parent'[m] = NoPair /\ refresh'[m] = "none"
    BY <1>2 DEF ChainOK
  <1>6. \A m \in Pairs : parent'[m] # NoPair => Spent(parent[m])'
    BY <1>0, <1>2, <1>3 DEF ChainOK
  <1>7. \A m \in Pairs : origin'[m] # NoCode => code'[origin'[m]] \in {"used", "gone"}
    BY <1>0, <1>2 DEF ChainOK
  <1>8. \A l, m \in Pairs : parent'[l] = parent'[m] /\ parent'[l] # NoPair => l = m
    BY <1>0, <1>2 DEF ChainOK
  <1>9. ASSUME NEW m \in Pairs, m # n, origin'[m] = origin'[n], origin'[m] # NoCode
        PROVE  HasSuccessor(m)' /\ parent'[m] # parent'[n]
    <2>1. o \in Pairs /\ origin[m] = origin[o] /\ origin[m] # NoCode /\ parent'[n] = o
          /\ \A l \in Pairs : parent[l] # o
      BY <1>2, <1>9
    <2>2. parent'[m] # parent'[n]
      BY <1>2, <1>9, <2>1
    <2>3. HasSuccessor(o)'
      BY <2>1 DEF HasSuccessor
    <2>4. m # o => HasSuccessor(m)'
      BY <1>4, <2>1 DEF ChainOK, HasSuccessor
    <2> QED
      BY <2>2, <2>3, <2>4
  <1>10. ASSUME NEW l \in Pairs, NEW m \in Pairs, l # m, origin'[l] = origin'[m],
                origin'[l] # NoCode
         PROVE  (HasSuccessor(l)' \/ HasSuccessor(m)') /\ parent'[l] # parent'[m]
    <2>1. CASE l = n
      BY <1>9, <1>10, <2>1
    <2>2. CASE m = n
      BY <1>9, <1>10, <2>2
    <2>3. CASE l # n /\ m # n
      BY <1>2, <1>4, <1>10, <2>3 DEF ChainOK
    <2> QED
      BY <2>1, <2>2, <2>3
  <1>11. \A l, m \in Pairs : l # m /\ origin'[l] = origin'[m] /\ origin'[l] # NoCode =>
           /\ HasSuccessor(l)' \/ HasSuccessor(m)'
           /\ parent'[l] # parent'[m]
    BY <1>10
  <1> QED
    BY <1>5, <1>6, <1>7, <1>8, <1>11 DEF ChainOK, Spent

LEMMA SaveAccessKeeps ==
  ASSUME OidcInv, TypeOK', NEW p \in Tasks, SaveAccess(p)
  PROVE  OidcInv'
  <1>0. /\ TypeOK /\ ChainOK /\ Exclusive /\ VoidOK /\ ExpiredOK /\ NoPair \notin Pairs
        /\ \A q \in Tasks : task[q] \in Task /\ HandlerOK(task[q])
        /\ task[p].pc = "saveaccess"
        /\ UNCHANGED <<code, refresh, expired, voidPairs>>
    BY OidcTokensAssumption DEF OidcInv, TypeOK, SaveAccess
  <1> DEFINE u == task[p]
             c == IF u.kind = "exchange" THEN u.code ELSE origin[u.old]
  <1>1. PICK n \in Pairs, t \in Task :
           /\ access[n] = "none" /\ access' = [access EXCEPT ![n] = "live"]
           /\ origin' = [origin EXCEPT ![n] = c] /\ parent' = [parent EXCEPT ![n] = u.old]
           /\ task' = [task EXCEPT ![p] = t] /\ t.pc = "saverefresh" /\ t.new = n
           /\ t.kind = u.kind /\ t.code = u.code /\ t.old = u.old
           /\ t.key = u.key /\ t.pairs = u.pairs
    BY <1>0, SaveAccessIs
  <1>2. /\ u \in Task /\ Carries(u) /\ HoldsOK(u) /\ FoundOK(u)
        /\ u.kind \in {"exchange", "refresh"}
        /\ u.code \in Codes \cup {NoCode} /\ u.old \in Pairs \cup {NoPair}
    BY <1>0 DEF HandlerOK, Carries, Task
  <1>3. u.kind = "exchange" =>
          /\ HoldsCode(u) /\ u.old = NoPair /\ u.code \in Codes /\ c = u.code
          /\ code[u.code] \in {"used", "gone"} /\ \A m \in Pairs : origin[m] # u.code
    BY <1>0, <1>2 DEF Carries, HoldsOK, HoldsCode
  <1>4. u.kind = "refresh" =>
          /\ HoldsPair(u) /\ u.old \in Pairs /\ c = origin[u.old] /\ Spent(u.old)
          /\ \A m \in Pairs : parent[m] # u.old
    BY <1>0, <1>2 DEF Carries, HoldsOK, HoldsPair, Spent
  <1>5. c \in Codes \cup {NoCode}
    BY <1>0, <1>2, <1>3, <1>4 DEF TypeOK
  <1> HIDE DEF u, c
  <1>6. ChainOK'
    BY <1>0, <1>1, <1>2, <1>3, <1>4, <1>5, ExtendsChain
  <1>7. /\ access'[n] = "live" /\ origin'[n] = c /\ parent'[n] = u.old
        /\ \A m \in Pairs : m # n => /\ access'[m] = access[m] /\ origin'[m] = origin[m]
                                     /\ parent'[m] = parent[m]
        /\ task'[p] = t /\ \A q \in Tasks : q # p => task'[q] = task[q]
        /\ refresh[n] = "none"
    BY <1>0, <1>1 DEF TypeOK, ChainOK
  <1>8. \A q \in Tasks : \A m \in task[q].pairs : m \in Pairs /\ m # n /\ access'[m] = access[m]
    BY <1>0, <1>1, <1>7 DEF Task, HandlerOK, FoundOK
  <1>9. ASSUME NEW q \in Tasks PROVE HandlerOK(task[q])'
    <2>1. CASE q = p
      <3>1. Carries(t)
        BY <1>1, <1>2 DEF Carries
      <3>2. t.kind = "refresh" => refresh'[t.old] # "none"
        BY <1>0, <1>1, <1>2 DEF HoldsOK
      <3>3. HoldsOK(t)' /\ FoundOK(t)'
        <4>1. \A m \in t.pairs : access'[m] # "none"
          BY <1>1, <1>2, <1>8 DEF FoundOK, u
        <4> QED
          BY <1>0, <1>1, <1>7, <3>2, <4>1 DEF HoldsOK, HoldsCode, HoldsPair, FoundOK
      <3> QED
        BY <1>7, <2>1, <3>1, <3>3 DEF HandlerOK, Carries, HoldsOK, HoldsCode, HoldsPair, FoundOK
    <2>2. CASE q # p
      <3>1. PICK v \in Task : v = task[q] /\ v = task'[q]
        BY <1>0, <1>7, <2>2
      <3>2. Carries(v) /\ HoldsOK(v) /\ FoundOK(v)
        BY <1>0, <3>1 DEF HandlerOK
      <3>3. HoldsCode(v) => \A m \in Pairs : origin'[m] # v.code
        <4>1. HoldsCode(v) => v.code \in Codes /\ \A m \in Pairs : origin[m] # v.code
          BY <3>2 DEF HoldsOK, HoldsCode, Carries
        <4>2. HoldsCode(v) /\ HoldsCode(u) => v.code # u.code
          BY <1>0, <2>2, <3>1 DEF Exclusive, u
        <4> QED
          BY <1>2, <1>3, <1>4, <1>7, <4>1, <4>2
      <3>4. HoldsPair(v) => /\ v.old \in Pairs
                            /\ \A m \in Pairs : parent'[m] # v.old
                            /\ v.pc # "drop" => access'[v.old] = "gone"
        <4>1. HoldsPair(v) => /\ v.old \in Pairs /\ \A m \in Pairs : parent[m] # v.old
                              /\ v.pc # "drop" => access[v.old] = "gone"
          BY <3>2 DEF HoldsOK, HoldsPair, Carries
        <4>2. HoldsPair(v) /\ HoldsPair(u) => v.old # u.old
          BY <1>0, <2>2, <3>1 DEF Exclusive, u
        <4> QED
          BY <1>0, <1>1, <1>2, <1>3, <1>4, <1>7, <4>1, <4>2
      <3>5. v.pc = "saverefresh" => access'[v.new] # "none"
        BY <1>7, <3>2 DEF HoldsOK, Carries
      <3>6. HoldsOK(v)'
        BY <1>0, <3>2, <3>3, <3>4, <3>5 DEF HoldsOK, HoldsCode, HoldsPair
      <3>7. FoundOK(v)'
        BY <1>8, <3>1, <3>2 DEF FoundOK
      <3> QED
        BY <3>1, <3>2, <3>6, <3>7 DEF HandlerOK, Carries, HoldsOK, HoldsCode, HoldsPair, FoundOK
    <2> QED
      BY <2>1, <2>2
  <1>10. Exclusive'
    <2>1. ~HoldsCode(t) /\ ~HoldsPair(t)
      BY <1>1 DEF HoldsCode, HoldsPair
    <2>2. \A q \in Tasks : task[q].pc = "saverefresh" => task[q].new # n
      BY <1>0, <1>1 DEF HandlerOK, HoldsOK
    <2>3. \A q \in Tasks : n \notin task[q].pairs /\ task[q].new \notin t.pairs
      BY <1>0, <1>1, <1>8 DEF Exclusive, u
    <2>4. n \notin t.pairs
      BY <1>1, <2>3 DEF u
    <2> QED
      BY <1>0, <1>1, <1>7, <2>1, <2>2, <2>3, <2>4 DEF Exclusive, HoldsCode, HoldsPair
  <1>11. VoidOK'
    <2>1. voidPairs \subseteq Pairs /\ n \notin voidPairs
      BY <1>0, <1>1 DEF VoidOK, Void, TypeOK
    <2> QED
      BY <1>0, <1>1, <1>7, <2>1 DEF VoidOK, Void
  <1>12. ExpiredOK'
    <2>1. ASSUME NEW m \in Pairs
          PROVE  /\ AccessRow(m) \in expired => access'[m] # "none"
                 /\ RefreshRow(m) \in expired => refresh'[m] # "none"
      BY <1>0, <1>7 DEF ExpiredOK
    <2> QED
      BY <1>0, <2>1 DEF ExpiredOK, AccessRow, RefreshRow
  <1> QED
    BY <1>6, <1>9, <1>10, <1>11, <1>12 DEF OidcInv

----------------------------------------------------------------------------
(* The theorems.                                                           *)

LEMMA OidcInvInit == Init => OidcInv
  <1> SUFFICES ASSUME Init PROVE OidcInv
    OBVIOUS
  <1>1. TypeOK
    BY IdleOK DEF Init, TypeOK
  <1>2. ChainOK /\ VoidOK /\ ExpiredOK
    BY DEF Init, ChainOK, VoidOK, ExpiredOK
  <1>3. Exclusive
    BY IdleOK DEF Init, Exclusive, HoldsCode, HoldsPair
  <1>4. \A p \in Tasks : HandlerOK(task[p])
    BY IdleOK DEF Init, HandlerOK, Carries, HoldsOK, HoldsCode, HoldsPair, FoundOK, Matches
  <1> QED
    BY <1>1, <1>2, <1>3, <1>4 DEF OidcInv

LEMMA OidcInvStep == OidcInv /\ [Next]_vars => OidcInv'
  <1> SUFFICES ASSUME OidcInv, [Next]_vars PROVE OidcInv'
    OBVIOUS
  <1>1. TypeOK'
    BY TypeStep DEF OidcInv, HandlerOK
  <1>2. CASE UNCHANGED vars \/ SessionChanges \/ Ageing
    BY <1>1, <1>2, AgeingKeeps
  <1>3. ASSUME NEW p \in Tasks, Writes(p) PROVE OidcInv'
    BY <1>1, <1>3, UsesUpKeeps, SaveAccessKeeps, SaveRefreshKeeps DEF Writes, UsesUp
  <1> QED
    BY <1>1, <1>2, <1>3, StartKeeps, ReadsKeeps, AroundKeeps, NextIs

LEMMA OidcInvHolds == Spec => []OidcInv
  BY OidcInvInit, OidcInvStep, PTL DEF Spec

\* The tables hold rows of their types, and every handler in flight is at a
\* statement of the code with the arguments that statement takes.
THEOREM TypeCorrect == Spec => []TypeOK
  <1>1. OidcInv => TypeOK
    BY DEF OidcInv
  <1> QED
    BY <1>1, OidcInvHolds, PTL

\* However many requests present a code or a refresh token at once, each leads
\* to at most one pair: the guarded UPDATEs of update_authorization_code and
\* consume_refresh_token_by_hash let one handler through, and it stores once.
THEOREM OneSuccessorHolds == Spec => []OneSuccessor
  <1>1. OidcInv => OneSuccessor
    BY DEF OidcInv, ChainOK, OneSuccessor
  <1> QED
    BY <1>1, OidcInvHolds, PTL

\* What descends from one code has one usable end: handle_refresh_token_grant
\* spends the old pair before generate_tokens stores the new one.
THEOREM OneUsableEndHolds == Spec => []OneUsableEnd
  <1>1. ASSUME OidcInv PROVE OneUsableEnd
    <2>1. \A n \in Pairs : HasSuccessor(n) => Spent(n)
      BY <1>1, OidcTokensAssumption DEF OidcInv, ChainOK, HasSuccessor
    <2>2. \A n \in Pairs : Spent(n) => ~UsableAccess(n) /\ ~UsableRefresh(n)
      BY DEF Spent, UsableAccess, UsableRefresh
    <2>3. \A m, n \in Pairs : m # n /\ origin[m] # NoCode /\ origin[m] = origin[n] =>
            HasSuccessor(m) \/ HasSuccessor(n)
      BY <1>1 DEF OidcInv, ChainOK
    <2> QED
      BY <2>1, <2>2, <2>3 DEF OneUsableEnd
  <1> QED
    BY <1>1, OidcInvHolds, PTL

\* Once a logout-all, a password reset or the detection of a reused refresh
\* token has been answered, no pair it found complete is usable again
\* (revoke_all_tokens_for_user and revoke_client_tokens_for_user).
THEOREM RevocationIsCompleteHolds == Spec => []RevocationIsComplete
  <1>1. OidcInv => RevocationIsComplete
    BY DEF OidcInv, VoidOK, Void, RevocationIsComplete, UsableAccess, UsableRefresh
  <1> QED
    BY <1>1, OidcInvHolds, PTL

----------------------------------------------------------------------------
(* What a suspended user's requests obtain.                                *)

\* A request that began on a suspended root, with no status change since, has
\* not passed the gate.
BarredInv ==
  /\ \A p \in Tasks : task[p].barred =>
       /\ root = "suspended" /\ ~StatusChanging
       /\ task[p].pc \notin {"saveaccess", "saverefresh", "idtoken", "subject"}
  /\ \A p \in Tasks : task[p].pc \in {"row", "root"} => task[p].kind = "status"

\* A step that sends one handler on, or ends it, and leaves the root alone.
LEMMA OnwardKeepsBarred ==
  ASSUME TypeOK, BarredInv, UNCHANGED root, NEW p \in Tasks, NEW t \in Task,
         task[p].pc # "idle", task' = [task EXCEPT ![p] = t],
         t.kind = task[p].kind \/ t.pc = "idle",
         t.barred => /\ task[p].barred
                     /\ t.pc \notin {"saveaccess", "saverefresh", "idtoken", "subject"},
         t.pc \in {"row", "root"} => t.kind = "status"
  PROVE  BarredInv'
  <1>1. task'[p] = t /\ \A q \in Tasks : q # p => task'[q] = task[q]
    BY DEF TypeOK
  <1>2. StatusChanging' => StatusChanging
    BY <1>1 DEF StatusChanging
  <1>3. \A q \in Tasks : task'[q].barred =>
          /\ root' = "suspended" /\ ~StatusChanging'
          /\ task'[q].pc \notin {"saveaccess", "saverefresh", "idtoken", "subject"}
    BY <1>1, <1>2 DEF BarredInv
  <1>4. \A q \in Tasks : task'[q].pc \in {"row", "root"} => task'[q].kind = "status"
    BY <1>1 DEF BarredInv
  <1> QED
    BY <1>3, <1>4 DEF BarredInv, StatusChanging

LEMMA StartKeepsBarred ==
  ASSUME TypeOK, BarredInv, NEW p \in Tasks, NEW k \in Kinds, Start(p, k)
  PROVE  BarredInv'
  <1>1. PICK t \in Task : Begun(p, k, t)
    BY StartBegins
  <1>2. UNCHANGED root /\ task[p].pc = "idle" /\ k \in AllKinds
        /\ \A q \in Tasks : task[q] \in Task
    BY OidcTokensAssumption DEF Start, account, TypeOK
  <1>3. /\ task'[p] = t /\ t.kind = k
        /\ t.barred => /\ root = "suspended" /\ ~StatusChanging
                       /\ k \in {"exchange", "refresh", "userinfo"}
        /\ t.pc \notin {"saveaccess", "saverefresh", "idtoken", "subject", "root"}
        /\ t.pc = "row" => k = "status"
    BY <1>1, <1>2 DEF Begun, FirstPc, AllKinds
  <1>4. ASSUME NEW q \in Tasks, q # p
        PROVE  /\ task'[q].pc = task[q].pc /\ task'[q].kind = task[q].kind
               /\ task'[q].barred => task[q].barred /\ k # "status"
    <2>1. \/ k # "status" /\ task'[q] = task[q]
          \/ k = "status" /\ task'[q] = [task[q] EXCEPT !.barred = FALSE]
      BY <1>1, <1>4 DEF Begun
    <2> QED
      BY <1>2, <2>1 DEF Task
  <1>5. StatusChanging' => StatusChanging \/ k = "status"
    BY <1>3, <1>4 DEF StatusChanging
  <1>6. ASSUME NEW q \in Tasks, task'[q].barred
        PROVE  /\ root' = "suspended" /\ ~StatusChanging'
               /\ task'[q].pc \notin {"saveaccess", "saverefresh", "idtoken", "subject"}
    <2>1. CASE q = p
      BY <1>2, <1>3, <1>5, <1>6, <2>1
    <2>2. CASE q # p
      BY <1>2, <1>4, <1>5, <1>6, <2>2 DEF BarredInv
    <2> QED
      BY <2>1, <2>2
  <1>7. \A q \in Tasks : task'[q].pc \in {"row", "root"} => task'[q].kind = "status"
    BY <1>3, <1>4 DEF BarredInv
  <1> QED
    BY <1>6, <1>7 DEF BarredInv, StatusChanging

\* What the reading steps do to the handler.
LEMMA BarredStep ==
  ASSUME TypeOK, BarredInv, \A q \in Tasks : Carries(task[q]),
         NEW p \in Tasks, Reads(p) \/ Writes(p) \/ Around(p)
  PROVE  BarredInv'
  <1>0. task[p] \in Task
    BY DEF TypeOK
  <1>1. End(p) /\ task[p].pc # "idle" /\ UNCHANGED root => BarredInv'
    BY IdleOK, OnwardKeepsBarred DEF End
  <1>2. ASSUME NEW x \in Pcs, Goto(p, x), task[p].pc # "idle", UNCHANGED root,
               x = "root" => task[p].kind = "status", x # "row",
               x \in {"saveaccess", "saverefresh", "idtoken", "subject"} => ~task[p].barred
        PROVE  BarredInv'
    <2>1. PICK t \in Task : Sent(p, x, t)
      BY <1>2, GotoSent
    <2> QED
      BY <1>2, <2>1, OnwardKeepsBarred DEF Sent
  <1>3. CASE Reads(p)
    <2>0. UNCHANGED root
      BY <1>3 DEF Reads, CheckSession, AuthorizeGate, AuthorizeUser, ReadCode, ReadRefresh,
                  LoadUser, LoadGate, ReadAccess, UserinfoSubject, Fail, FailsSilently, account
    <2>1. CASE CheckSession(p) \/ AuthorizeGate(p) \/ AuthorizeUser(p) \/ ReadCode(p)
               \/ ReadAccess(p)
      <3>1. /\ task[p].pc # "idle"
            /\ \/ End(p)
               \/ \E x \in {"session", "gate", "user", "save", "mark", "load"} : Goto(p, x)
        BY <2>1 DEF CheckSession, AuthorizeGate, AuthorizeUser, ReadCode, ReadAccess
      <3> QED
        BY <1>1, <1>2, <2>0, <3>1 DEF Pcs
    <2>2. CASE ReadRefresh(p)
      <3>1. /\ task[p].pc = "readrefresh"
            /\ \/ End(p) \/ Goto(p, "consume")
               \/ task' = [task EXCEPT ![p] = [@ EXCEPT !.pc = "revokeaccess", !.pairs = Settled]]
        BY <2>2 DEF ReadRefresh
      <3>2. CASE task' = [task EXCEPT ![p] = [@ EXCEPT !.pc = "revokeaccess", !.pairs = Settled]]
        <4>1. PICK t \in Task :
                /\ task' = [task EXCEPT ![p] = t] /\ t.pc = "revokeaccess"
                /\ t.kind = task[p].kind /\ t.barred = task[p].barred
          BY <3>2, Revokes
        <4> QED
          BY <2>0, <3>1, <4>1, OnwardKeepsBarred
      <3> QED
        BY <1>1, <1>2, <2>0, <3>1, <3>2 DEF Pcs
    <2>3. CASE LoadUser(p)
      <3>1. PICK t \in Task : Sent(p, "loadgate", t)
        BY <2>3, LoadSent
      <3>2. task[p].pc = "load"
        BY <2>3 DEF LoadUser
      <3> QED
        BY <2>0, <3>1, <3>2, OnwardKeepsBarred DEF Sent
    <2>4. CASE LoadGate(p)
      <3>1. /\ task[p].pc = "loadgate"
            /\ \/ End(p)
               \/ root = "active" /\ (Goto(p, "subject") \/ Goto(p, "saveaccess"))
        BY <2>4 DEF LoadGate
      <3>2. root = "active" => ~task[p].barred
        BY DEF BarredInv
      <3> QED
        BY <1>1, <1>2, <2>0, <3>1, <3>2 DEF Pcs
    <2>5. CASE UserinfoSubject(p) \/ Fail(p) \/ FailsSilently(p)
      <3>1. /\ task[p].pc # "idle"
            /\ End(p) \/ Goto(p, "revokeaccess") \/ Goto(p, "sessions")
        BY <2>5 DEF UserinfoSubject, Fail, FailsSilently
      <3> QED
        BY <1>1, <1>2, <2>0, <3>1 DEF Pcs
    <2> QED
      BY <1>3, <2>1, <2>2, <2>3, <2>4, <2>5 DEF Reads
  <1>4. CASE Writes(p)
    <2>0. UNCHANGED root
      BY <1>4 DEF Writes, SaveCode, MarkCode, ConsumeRefresh, DropAccess, SaveAccess,
                  SaveRefresh, RevokeAccess, RevokeRefresh, account
    <2>1. CASE SaveAccess(p)
      <3>1. PICK n \in Pairs, t \in Task :
              /\ task' = [task EXCEPT ![p] = t] /\ t.pc = "saverefresh"
              /\ t.kind = task[p].kind /\ t.barred = task[p].barred
        BY <2>1, SaveAccessIs
      <3>2. task[p].pc = "saveaccess"
        BY <2>1 DEF SaveAccess
      <3>3. ~task[p].barred
        BY <3>2 DEF BarredInv
      <3> QED
        BY <2>0, <3>1, <3>2, <3>3, OnwardKeepsBarred
    <2>2. CASE SaveRefresh(p)
      <3>1. task[p].pc = "saverefresh" /\ (Goto(p, "idtoken") \/ End(p))
        BY <2>2 DEF SaveRefresh
      <3>2. ~task[p].barred
        BY <3>1 DEF BarredInv
      <3> QED
        BY <1>1, <1>2, <2>0, <3>1, <3>2 DEF Pcs
    <2>3. CASE SaveCode(p) \/ MarkCode(p) \/ ConsumeRefresh(p) \/ DropAccess(p)
               \/ RevokeAccess(p) \/ RevokeRefresh(p)
      <3>1. /\ task[p].pc # "idle"
            /\ \/ End(p)
               \/ \E x \in {"load", "drop", "revokerefresh", "sessions"} : Goto(p, x)
        BY <2>3 DEF SaveCode, MarkCode, ConsumeRefresh, DropAccess, RevokeAccess, RevokeRefresh
      <3> QED
        BY <1>1, <1>2, <2>0, <3>1 DEF Pcs
    <2> QED
      BY <1>4, <2>1, <2>2, <2>3 DEF Writes
  <1>5. CASE Around(p)
    <2>1. CASE SetRootStatus(p)
      <3>1. /\ task[p].pc = "root" /\ task[p].kind = "status"
            /\ End(p) \/ Goto(p, "sessions")
        BY <2>1 DEF SetRootStatus, BarredInv
      <3>2. \A q \in Tasks : ~task[q].barred
        BY <3>1 DEF BarredInv, StatusChanging
      <3>3. PICK t \in Task : /\ task' = [task EXCEPT ![p] = t] /\ ~t.barred
                              /\ t.pc \in {"idle", "sessions"}
        <4>1. CASE End(p)
          BY <4>1, IdleOK DEF End
        <4>2. CASE Goto(p, "sessions")
          <5>1. PICK t \in Task : Sent(p, "sessions", t)
            BY <4>2, GotoSent DEF Pcs
          <5> QED
            BY <3>2, <5>1 DEF Sent
        <4> QED
          BY <3>1, <4>1, <4>2
      <3>4. task'[p] = t /\ \A q \in Tasks : q # p => task'[q] = task[q]
        BY <3>3 DEF TypeOK
      <3>5. \A q \in Tasks : ~task'[q].barred
        BY <3>2, <3>3, <3>4
      <3>6. \A q \in Tasks : task'[q].pc \in {"row", "root"} => task'[q].kind = "status"
        BY <3>3, <3>4 DEF BarredInv
      <3> QED
        BY <3>5, <3>6 DEF BarredInv
    <2>2. CASE SetRowStatus(p)
      <3>1. task[p].pc = "row" /\ task[p].kind = "status" /\ Goto(p, "root") /\ UNCHANGED root
        BY <2>2 DEF SetRowStatus, BarredInv
      <3> QED
        BY <1>2, <3>1 DEF Pcs
    <2>3. CASE GenerateIdToken(p) \/ DeleteSessions(p)
      <3>1. /\ task[p].pc # "idle" /\ UNCHANGED root
            /\ End(p) \/ Goto(p, "revokeaccess")
        BY <2>3 DEF GenerateIdToken, DeleteSessions, account
      <3> QED
        BY <1>1, <1>2, <3>1 DEF Pcs
    <2> QED
      BY <1>5, <2>1, <2>2, <2>3 DEF Around
  <1> QED
    BY <1>3, <1>4, <1>5

LEMMA BarredInvHolds == Spec => []BarredInv
  <1>1. Init => BarredInv
    BY IdleOK DEF Init, BarredInv
  <1>2. OidcInv /\ BarredInv /\ [Next]_vars => BarredInv'
    <2> SUFFICES ASSUME OidcInv, BarredInv, [Next]_vars PROVE BarredInv'
      OBVIOUS
    <2>1. TypeOK /\ \A p \in Tasks : Carries(task[p])
      BY DEF OidcInv, HandlerOK
    <2>2. CASE UNCHANGED vars \/ SessionChanges \/ Ageing
      <3>1. UNCHANGED <<root, task>>
        BY <2>2 DEF Ageing, CodeExpires, AccessExpires, RefreshExpires, CleanupCodes,
                    CleanupAccess, CleanupRefresh, SessionChanges, vars, account
      <3> QED
        BY <3>1 DEF BarredInv, StatusChanging
    <2>3. ASSUME NEW p \in Tasks, Reads(p) \/ Writes(p) \/ Around(p) PROVE BarredInv'
      BY <2>1, <2>3, BarredStep
    <2>4. ASSUME NEW p \in Tasks, NEW k \in Kinds, Start(p, k) PROVE BarredInv'
      BY <2>1, <2>4, StartKeepsBarred
    <2> QED
      BY <2>2, <2>3, <2>4, NextIs
  <1> QED
    BY <1>1, <1>2, OidcInvHolds, PTL DEF Spec

\* A grant or a userinfo request that begins on a suspended root, with no
\* status change under way until it ends, stores no token and is told no
\* subject: load_active_user asks the root after the row.
THEOREM BarredGetsNothingHolds == Spec => []BarredGetsNothing
  <1>1. BarredInv => BarredGetsNothing
    BY DEF BarredInv, BarredGetsNothing
  <1> QED
    BY <1>1, BarredInvHolds, PTL

----------------------------------------------------------------------------
(* A code and a refresh token are credentials for one use.                 *)

\* Only codes that were stored have expired.
CodeRowsOK == \A c \in Codes : CodeRow(c) \in expired => code[c] # "none"

\* What the invariant says of a code, and of a refresh token, by its use.
LEMMA CodeLifeIs ==
  ASSUME OidcInv, NEW c \in Codes
  PROVE  /\ code[c] \in {"none", "fresh", "used", "gone"}
         /\ CodeInUse(c) => code[c] \in {"used", "gone"} /\ \A n \in Pairs : origin[n] # c
         /\ PairsOfCode(c) # {} => code[c] \in {"used", "gone"}
  <1>1. c # NoCode /\ TypeOK /\ ChainOK /\ \A p \in Tasks : HoldsOK(task[p])
    BY OidcTokensAssumption DEF OidcInv, HandlerOK
  <1> QED
    BY <1>1 DEF TypeOK, CodeInUse, HoldsOK, PairsOfCode, ChainOK

LEMMA RefreshLifeIs ==
  ASSUME OidcInv, NEW n \in Pairs
  PROVE  /\ refresh[n] \in {"none", "fresh", "used", "gone"}
         /\ PairInUse(n) => refresh[n] \in {"used", "gone"} /\ \A m \in Pairs : parent[m] # n
         /\ Successors(n) # {} => refresh[n] \in {"used", "gone"}
  <1>1. n # NoPair /\ TypeOK /\ ChainOK /\ \A p \in Tasks : HoldsOK(task[p])
    BY OidcTokensAssumption DEF OidcInv, HandlerOK
  <1> QED
    BY <1>1 DEF TypeOK, PairInUse, HoldsOK, Successors, ChainOK, Spent

\* A handler that comes to hold nothing, and to rely on no read but one made in
\* time.
CalmCode(t, u) ==
  /\ HoldsCode(t) => HoldsCode(u) /\ t.code = u.code
  /\ t.pc = "mark" => \/ u.pc = "mark" /\ t.code = u.code
                      \/ CodeRow(t.code) \notin expired
CalmPair(t, u) ==
  /\ HoldsPair(t) => HoldsPair(u) /\ t.old = u.old
  /\ t.pc = "consume" => \/ u.pc = "consume" /\ t.old = u.old
                         \/ RefreshRow(t.old) \notin expired

CodesCalm == \A q \in Tasks : CalmCode(task'[q], task[q])
PairsCalm == \A q \in Tasks : CalmPair(task'[q], task[q])

\* The table of codes loses rows, if anything; the same of refresh tokens.
CodesQuiet ==
  \A c \in Codes :
    /\ PairsOfCode(c)' = PairsOfCode(c)
    /\ code'[c] = code[c] \/ (code[c] # "none" /\ code'[c] = "gone")
    /\ CodeRow(c) \in expired /\ code'[c] = "fresh" => CodeRow(c) \in expired'
PairsQuiet ==
  \A n \in Pairs :
    /\ Successors(n)' = Successors(n)
    /\ refresh'[n] = refresh[n] \/ (refresh[n] # "none" /\ refresh'[n] = "gone")
    /\ RefreshRow(n) \in expired /\ refresh'[n] = "fresh" => RefreshRow(n) \in expired'

\* Such a step can only void codes and give up those that were claimed.
LEMMA CodesClose ==
  ASSUME OidcInv, CodesCalm, CodesQuiet
  PROVE  CodeUse!Next
  <1>1. ASSUME NEW c \in Codes
        PROVE  /\ CodeInUse(c)' => CodeInUse(c)
               /\ CodeRead(c)' => CodeRead(c) \/ CodeRow(c) \notin expired
    BY DEF CodesCalm, CalmCode, CodeInUse, CodeRead, HoldsCode
  <1> DEFINE S == {c \in Codes : /\ CodeLife(c) \in {"open", "claimed"}
                                 /\ CodeLife(c)' # CodeLife(c)}
  <1>2. ASSUME NEW c \in Codes
        PROVE  CodeLife(c)' = IF c \in S THEN "closed" ELSE CodeLife(c)
    BY <1>1, CodeLifeIs DEF CodeLife, CodesQuiet
  <1>3. S \in SUBSET Codes /\ \A c \in S : CodeLife(c) \in {"open", "claimed"}
    OBVIOUS
  <1>4. \A c \in Codes : PairsOfCode(c)' = PairsOfCode(c)
    BY DEF CodesQuiet
  <1> HIDE DEF S
  <1>5. CodeUse!Close(S)
    BY <1>2, <1>3, <1>4 DEF CodeUse!Close
  <1> QED
    BY <1>3, <1>5 DEF CodeUse!Next

LEMMA PairsClose ==
  ASSUME OidcInv, PairsCalm, PairsQuiet
  PROVE  RefreshUse!Next
  <1>1. ASSUME NEW n \in Pairs
        PROVE  /\ PairInUse(n)' => PairInUse(n)
               /\ RefreshRead(n)' => RefreshRead(n) \/ RefreshRow(n) \notin expired
    BY DEF PairsCalm, CalmPair, PairInUse, RefreshRead, HoldsPair
  <1> DEFINE S == {n \in Pairs : /\ RefreshLife(n) \in {"open", "claimed"}
                                 /\ RefreshLife(n)' # RefreshLife(n)}
  <1>2. ASSUME NEW n \in Pairs
        PROVE  RefreshLife(n)' = IF n \in S THEN "closed" ELSE RefreshLife(n)
    BY <1>1, RefreshLifeIs DEF RefreshLife, UsableRefresh, RefreshRow, PairsQuiet
  <1>3. S \in SUBSET Pairs /\ \A n \in S : RefreshLife(n) \in {"open", "claimed"}
    OBVIOUS
  <1>4. \A n \in Pairs : Successors(n)' = Successors(n)
    BY DEF PairsQuiet
  <1> HIDE DEF S
  <1>5. RefreshUse!Close(S)
    BY <1>2, <1>3, <1>4 DEF RefreshUse!Close
  <1> QED
    BY <1>3, <1>5 DEF RefreshUse!Next

\* A handler that ends, or is sent to a statement that is neither guarded nor
\* behind a guarded one.
LEMMA CalmEnd ==
  ASSUME OidcInv, NEW p \in Tasks, End(p)
  PROVE  CodesCalm /\ PairsCalm
  <1>1. \A q \in Tasks : task'[q] = IF q = p THEN IdleTask ELSE task[q]
    BY DEF End, OidcInv, TypeOK
  <1> QED
    BY <1>1, IdleOK DEF CodesCalm, PairsCalm, CalmCode, CalmPair, HoldsCode, HoldsPair

LEMMA CalmSent ==
  ASSUME OidcInv, NEW p \in Tasks, NEW x, NEW t, Sent(p, x, t)
  PROVE  /\ CalmCode(t, task[p]) => CodesCalm
         /\ CalmPair(t, task[p]) => PairsCalm
  <1>1. \A q \in Tasks : task'[q] = IF q = p THEN t ELSE task[q]
    BY DEF Sent, OidcInv, TypeOK
  <1> QED
    BY <1>1 DEF CodesCalm, PairsCalm, CalmCode, CalmPair, HoldsCode, HoldsPair

LEMMA CalmGoto ==
  ASSUME OidcInv, NEW p \in Tasks, NEW x \in Pcs, Goto(p, x),
         x \notin {"mark", "consume", "drop", "load", "loadgate", "saveaccess"}
  PROVE  CodesCalm /\ PairsCalm
  <1>1. PICK t \in Task : Sent(p, x, t)
    BY GotoSent DEF OidcInv
  <1>2. CalmCode(t, task[p]) /\ CalmPair(t, task[p])
    BY <1>1 DEF Sent, CalmCode, CalmPair, HoldsCode, HoldsPair
  <1> QED
    BY <1>1, <1>2, CalmSent

\* The steps that read, by what they do to the handler.
LEMMA CalmReads ==
  ASSUME OidcInv, NEW p \in Tasks, Reads(p)
  PROVE  CodesCalm /\ PairsCalm
  <1>0. TypeOK /\ Carries(task[p])
    BY DEF OidcInv, HandlerOK
  <1> USE DEF Pcs
  <1>1. CASE CheckSession(p) \/ AuthorizeGate(p) \/ AuthorizeUser(p) \/ UserinfoSubject(p)
             \/ Fail(p) \/ FailsSilently(p)
    <2>1. \/ End(p)
          \/ \E x \in {"session", "gate", "user", "save", "sessions", "revokeaccess"} : Goto(p, x)
      <3>1. CASE CheckSession(p) \/ AuthorizeGate(p) \/ AuthorizeUser(p)
        BY <3>1 DEF CheckSession, AuthorizeGate, AuthorizeUser
      <3>2. CASE UserinfoSubject(p) \/ Fail(p) \/ FailsSilently(p)
        BY <3>2 DEF UserinfoSubject, Fail, FailsSilently
      <3> QED
        BY <1>1, <3>1, <3>2
    <2>2. ASSUME NEW x \in {"session", "gate", "user", "save", "sessions", "revokeaccess"},
                 Goto(p, x)
          PROVE  CodesCalm /\ PairsCalm
      BY <2>2, CalmGoto
    <2> QED
      BY <2>1, <2>2, CalmEnd
  <1>2. CASE ReadCode(p)
    <2>1. /\ End(p) \/ (Goto(p, "mark") /\ CodeRow(task[p].code) \notin expired)
          /\ task[p].kind = "exchange"
      BY <1>0, <1>2 DEF ReadCode, Carries
    <2>2. ASSUME Goto(p, "mark"), CodeRow(task[p].code) \notin expired
          PROVE  CodesCalm /\ PairsCalm
      <3>1. PICK t \in Task : Sent(p, "mark", t)
        BY <1>0, <2>2, GotoSent
      <3> QED
        BY <2>2, <3>1, CalmSent DEF Sent, CalmCode, CalmPair, HoldsCode, HoldsPair
    <2> QED
      BY <2>1, <2>2, CalmEnd
  <1>3. CASE ReadRefresh(p)
    <2>1. \/ End(p)
          \/ Goto(p, "consume") /\ RefreshRow(task[p].old) \notin expired
          \/ task' = [task EXCEPT ![p] = [@ EXCEPT !.pc = "revokeaccess", !.pairs = Settled]]
      BY <1>3 DEF ReadRefresh, UsableRefresh
    <2>2. ASSUME Goto(p, "consume"), RefreshRow(task[p].old) \notin expired
          PROVE  CodesCalm /\ PairsCalm
      <3>1. PICK t \in Task : Sent(p, "consume", t)
        BY <1>0, <2>2, GotoSent
      <3> QED
        BY <2>2, <3>1, CalmSent DEF Sent, CalmCode, CalmPair, HoldsCode, HoldsPair
    <2>3. ASSUME task' = [task EXCEPT ![p] = [@ EXCEPT !.pc = "revokeaccess", !.pairs = Settled]]
          PROVE  CodesCalm /\ PairsCalm
      <3>1. PICK t \in Task : task' = [task EXCEPT ![p] = t] /\ t.pc = "revokeaccess"
        BY <1>0, <2>3, Revokes
      <3>2. \A q \in Tasks : task'[q] = IF q = p THEN t ELSE task[q]
        BY <1>0, <3>1 DEF TypeOK
      <3> QED
        BY <3>1, <3>2 DEF CodesCalm, PairsCalm, CalmCode, CalmPair, HoldsCode, HoldsPair
    <2> QED
      BY <2>1, <2>2, <2>3, CalmEnd
  <1>4. CASE LoadUser(p)
    <2>1. PICK t \in Task : Sent(p, "loadgate", t)
      BY <1>0, <1>4, LoadSent
    <2>2. task[p].pc = "load"
      BY <1>4 DEF LoadUser
    <2> QED
      BY <2>1, <2>2, CalmSent DEF Sent, CalmCode, CalmPair, HoldsCode, HoldsPair
  <1>5. CASE LoadGate(p)
    <2>1. task[p].pc = "loadgate" /\ (End(p) \/ Goto(p, "subject") \/ Goto(p, "saveaccess"))
      BY <1>5 DEF LoadGate
    <2>2. ASSUME Goto(p, "saveaccess") PROVE CodesCalm /\ PairsCalm
      <3>1. PICK t \in Task : Sent(p, "saveaccess", t)
        BY <1>0, <2>2, GotoSent
      <3> QED
        BY <2>1, <3>1, CalmSent DEF Sent, CalmCode, CalmPair, HoldsCode, HoldsPair
    <2> QED
      BY <2>1, <2>2, CalmEnd, CalmGoto
  <1>6. CASE ReadAccess(p)
    <2>1. task[p].kind = "userinfo" /\ (End(p) \/ Goto(p, "load"))
      BY <1>0, <1>6 DEF ReadAccess, Carries
    <2>2. ASSUME Goto(p, "load") PROVE CodesCalm /\ PairsCalm
      <3>1. PICK t \in Task : Sent(p, "load", t)
        BY <1>0, <2>2, GotoSent
      <3> QED
        BY <2>1, <3>1, CalmSent DEF Sent, CalmCode, CalmPair, HoldsCode, HoldsPair
    <2> QED
      BY <2>1, <2>2, CalmEnd
  <1> QED
    BY <1>1, <1>2, <1>3, <1>4, <1>5, <1>6 DEF Reads

LEMMA CalmStart ==
  ASSUME OidcInv, NEW p \in Tasks, NEW k \in Kinds, Start(p, k)
  PROVE  CodesCalm /\ PairsCalm
  <1>1. PICK t \in Task : Begun(p, k, t)
    BY StartBegins DEF OidcInv
  <1>2. task'[p] = t /\ t.pc \notin {"mark", "consume", "drop", "load", "loadgate", "saveaccess"}
    BY <1>1, OidcTokensAssumption DEF Begun, FirstPc, AllKinds
  <1>3. ASSUME NEW q \in Tasks, q # p
        PROVE  /\ task'[q].pc = task[q].pc /\ task'[q].kind = task[q].kind
               /\ task'[q].code = task[q].code /\ task'[q].old = task[q].old
    <2>1. /\ task[q] \in Task
          /\ task'[q] = task[q] \/ task'[q] = [task[q] EXCEPT !.barred = FALSE]
      BY <1>1, <1>3 DEF Begun, OidcInv, TypeOK
    <2> QED
      BY <2>1 DEF Task
  <1>4. \A q \in Tasks : CalmCode(task'[q], task[q]) /\ CalmPair(task'[q], task[q])
    BY <1>2, <1>3 DEF CalmCode, CalmPair, HoldsCode, HoldsPair
  <1> QED
    BY <1>4 DEF CodesCalm, PairsCalm

LEMMA CalmAround ==
  ASSUME OidcInv, NEW p \in Tasks, Around(p)
  PROVE  CodesCalm /\ PairsCalm
  <1>1. End(p) \/ \E x \in {"root", "sessions", "revokeaccess"} : Goto(p, x)
    BY DEF Around, GenerateIdToken, SetRowStatus, SetRootStatus, DeleteSessions
  <1> QED
    BY <1>1, CalmEnd, CalmGoto DEF Pcs

\* Tables that a step leaves alone are quiet.
LEMMA QuietTables ==
  /\ UNCHANGED <<code, origin, parent, expired>> => CodesQuiet
  /\ UNCHANGED <<refresh, origin, parent, expired>> => PairsQuiet
  BY DEF CodesQuiet, PairsQuiet, PairsOfCode, Successors

\* Expiry and cleanup.
LEMMA AgeingQuiet ==
  ASSUME OidcInv, CodeRowsOK, Ageing
  PROVE  CodesQuiet /\ PairsQuiet /\ CodesCalm /\ PairsCalm
  <1>1. UNCHANGED <<task, origin, parent>>
    BY DEF Ageing, CodeExpires, AccessExpires, RefreshExpires, CleanupCodes, CleanupAccess,
           CleanupRefresh
  <1>2. CodesCalm /\ PairsCalm
    BY <1>1 DEF CodesCalm, PairsCalm, CalmCode, CalmPair, HoldsCode, HoldsPair
  <1>3. /\ \A c \in Codes : PairsOfCode(c)' = PairsOfCode(c)
        /\ \A n \in Pairs : Successors(n)' = Successors(n)
    BY <1>1 DEF PairsOfCode, Successors
  <1>4. ASSUME NEW c \in Codes
        PROVE  /\ code'[c] = code[c] \/ (code[c] # "none" /\ code'[c] = "gone")
               /\ CodeRow(c) \in expired /\ code'[c] = "fresh" => CodeRow(c) \in expired'
    BY DEF Ageing, CodeExpires, AccessExpires, RefreshExpires, CleanupCodes, CleanupAccess,
           CleanupRefresh, CodeRowsOK, CodeRow
  <1>5. ASSUME NEW n \in Pairs
        PROVE  /\ refresh'[n] = refresh[n] \/ (refresh[n] # "none" /\ refresh'[n] = "gone")
               /\ RefreshRow(n) \in expired /\ refresh'[n] = "fresh" => RefreshRow(n) \in expired'
    BY DEF Ageing, CodeExpires, AccessExpires, RefreshExpires, CleanupCodes, CleanupAccess,
           CleanupRefresh, OidcInv, ExpiredOK, RefreshRow
  <1> QED
    BY <1>2, <1>3, <1>4, <1>5 DEF CodesQuiet, PairsQuiet

\* The revocations, and the end of the old access token.
LEMMA RevokingQuiet ==
  ASSUME OidcInv, NEW p \in Tasks, DropAccess(p) \/ RevokeAccess(p) \/ RevokeRefresh(p)
  PROVE  CodesQuiet /\ PairsQuiet /\ CodesCalm /\ PairsCalm
  <1>0. TypeOK /\ Carries(task[p])
    BY DEF OidcInv, HandlerOK
  <1>1. UNCHANGED <<code, origin, parent>>
    BY DEF DropAccess, RevokeAccess, RevokeRefresh
  <1>2. /\ \A c \in Codes : PairsOfCode(c)' = PairsOfCode(c)
        /\ \A n \in Pairs : Successors(n)' = Successors(n)
    BY <1>1 DEF PairsOfCode, Successors
  <1>3. ASSUME NEW c \in Codes PROVE CodeRow(c) \in expired => CodeRow(c) \in expired'
    BY DEF DropAccess, RevokeAccess, RevokeRefresh, CodeRow, AccessRow
  <1>4. ASSUME NEW n \in Pairs
        PROVE  /\ refresh'[n] = refresh[n] \/ (refresh[n] # "none" /\ refresh'[n] = "gone")
               /\ RefreshRow(n) \in expired /\ refresh'[n] = "fresh" => RefreshRow(n) \in expired'
    <2>1. CASE DropAccess(p) \/ RevokeAccess(p)
      BY <2>1 DEF DropAccess, RevokeAccess, RefreshRow, AccessRow
    <2>2. CASE RevokeRefresh(p)
      <3>1. RefreshRow(n) \in expired => refresh[n] # "none"
        BY DEF OidcInv, ExpiredOK
      <3> QED
        BY <2>2, <3>1 DEF RevokeRefresh, RefreshRow
    <2> QED
      BY <2>1, <2>2
  <1>5. CodesQuiet /\ PairsQuiet
    BY <1>1, <1>2, <1>3, <1>4 DEF CodesQuiet, PairsQuiet
  <1>6. CASE DropAccess(p)
    <2>1. /\ task[p].pc = "drop" /\ task[p].kind = "refresh"
          /\ End(p) \/ Goto(p, "load")
      BY <1>0, <1>6 DEF DropAccess, Carries
    <2>2. ASSUME Goto(p, "load") PROVE CodesCalm /\ PairsCalm
      <3>1. PICK t \in Task : Sent(p, "load", t)
        BY <1>0, <2>2, GotoSent DEF Pcs
      <3> QED
        BY <2>1, <3>1, CalmSent DEF Sent, CalmCode, CalmPair, HoldsCode, HoldsPair
    <2> QED
      BY <1>5, <2>1, <2>2, CalmEnd
  <1>7. CASE RevokeAccess(p) \/ RevokeRefresh(p)
    <2>1. End(p) \/ \E x \in {"sessions", "revokerefresh"} : Goto(p, x)
      BY <1>7 DEF RevokeAccess, RevokeRefresh
    <2> QED
      BY <1>5, <2>1, CalmEnd, CalmGoto DEF Pcs
  <1> QED
    BY <1>6, <1>7

\* authorize stores a code that was never issued.
LEMMA SaveCodeIssues ==
  ASSUME OidcInv, CodeRowsOK, NEW p \in Tasks, SaveCode(p)
  PROVE  CodeUse!Next
  <1>1. PICK c \in Codes : code[c] = "none" /\ code' = [code EXCEPT ![c] = "fresh"]
    BY DEF SaveCode
  <1>2. /\ UNCHANGED <<expired, origin, parent>> /\ task[p].pc = "save"
        /\ \A q \in Tasks : task'[q] = IF q = p THEN IdleTask ELSE task[q]
        /\ code'[c] = "fresh" /\ \A x \in Codes : x # c => code'[x] = code[x]
    BY <1>1 DEF SaveCode, End, OidcInv, TypeOK
  <1>3. ASSUME NEW x \in Codes
        PROVE  /\ PairsOfCode(x)' = PairsOfCode(x) /\ (CodeInUse(x)' <=> CodeInUse(x))
               /\ (CodeRead(x)' <=> CodeRead(x))
    BY <1>2, IdleOK DEF PairsOfCode, CodeInUse, CodeRead, HoldsCode
  <1>4. PairsOfCode(c) = {} /\ ~CodeInUse(c) /\ CodeRow(c) \notin expired
    BY <1>1, CodeLifeIs DEF CodeRowsOK
  <1>5. CodeLife(c) = "unissued" /\ CodeLife(c)' = "open"
    BY <1>1, <1>2, <1>3, <1>4 DEF CodeLife, CodeRow
  <1>6. \A x \in Codes : x # c => CodeLife(x)' = CodeLife(x)
    BY <1>2, <1>3 DEF CodeLife, CodeRow
  <1>7. CodeUse!Issue(c)
    BY <1>3, <1>5, <1>6 DEF CodeUse!Issue
  <1> QED
    BY <1>7 DEF CodeUse!Next

\* update_authorization_code lets one exchange claim the code.
LEMMA MarkCodeClaims ==
  ASSUME OidcInv, NEW p \in Tasks, MarkCode(p), code[task[p].code] = "fresh"
  PROVE  CodeUse!Next
  <1>1. PICK c : c = task[p].code
    OBVIOUS
  <1>2. /\ c \in Codes /\ code[c] = "fresh" /\ code' = [code EXCEPT ![c] = "used"]
        /\ UNCHANGED <<expired, origin, parent>> /\ Goto(p, "load")
        /\ task[p].kind = "exchange" /\ task[p].pc = "mark"
    BY <1>1 DEF MarkCode, OidcInv, HandlerOK, Carries
  <1>3. PICK t \in Task : Sent(p, "load", t)
    BY <1>2, GotoSent DEF Pcs, OidcInv
  <1>4. /\ \A q \in Tasks : task'[q] = IF q = p THEN t ELSE task[q]
        /\ t.kind = "exchange" /\ t.pc = "load" /\ t.code = c
        /\ \A x \in Codes : x # c => code'[x] = code[x]
    BY <1>1, <1>2, <1>3 DEF Sent, OidcInv, TypeOK
  <1>5. CodeInUse(c)' /\ CodeRead(c)
    BY <1>1, <1>2, <1>4 DEF CodeInUse, HoldsCode, CodeRead
  <1>6. ASSUME NEW x \in Codes
        PROVE  /\ PairsOfCode(x)' = PairsOfCode(x)
               /\ x # c => (CodeInUse(x)' <=> CodeInUse(x)) /\ (CodeRead(x)' <=> CodeRead(x))
    BY <1>1, <1>2, <1>4 DEF PairsOfCode, CodeInUse, CodeRead, HoldsCode
  <1>7. PairsOfCode(c) = {} /\ ~CodeInUse(c)
    BY <1>2, CodeLifeIs
  <1>8. CodeLife(c) = "open" /\ CodeLife(c)' = "claimed"
    BY <1>2, <1>5, <1>6, <1>7 DEF CodeLife
  <1>9. \A x \in Codes : x # c => CodeLife(x)' = CodeLife(x)
    BY <1>2, <1>4, <1>6 DEF CodeLife, CodeRow
  <1>10. CodeUse!Claim(c)
    BY <1>2, <1>6, <1>8, <1>9 DEF CodeUse!Claim
  <1> QED
    BY <1>2, <1>10 DEF CodeUse!Next

\* consume_refresh_token_by_hash lets one grant claim the refresh token.
LEMMA ConsumeClaims ==
  ASSUME OidcInv, NEW p \in Tasks, ConsumeRefresh(p), refresh[task[p].old] = "fresh"
  PROVE  RefreshUse!Next
  <1>1. PICK n : n = task[p].old
    OBVIOUS
  <1>2. /\ n \in Pairs /\ refresh[n] = "fresh" /\ refresh' = [refresh EXCEPT ![n] = "used"]
        /\ UNCHANGED <<expired, origin, parent>> /\ Goto(p, "drop")
        /\ task[p].kind = "refresh" /\ task[p].pc = "consume"
    BY <1>1 DEF ConsumeRefresh, OidcInv, HandlerOK, Carries
  <1>3. PICK t \in Task : Sent(p, "drop", t)
    BY <1>2, GotoSent DEF Pcs, OidcInv
  <1>4. /\ \A q \in Tasks : task'[q] = IF q = p THEN t ELSE task[q]
        /\ t.kind = "refresh" /\ t.pc = "drop" /\ t.old = n
        /\ \A x \in Pairs : x # n => refresh'[x] = refresh[x]
    BY <1>1, <1>2, <1>3 DEF Sent, OidcInv, TypeOK
  <1>5. PairInUse(n)' /\ RefreshRead(n)
    BY <1>1, <1>2, <1>4 DEF PairInUse, HoldsPair, RefreshRead
  <1>6. ASSUME NEW x \in Pairs
        PROVE  /\ Successors(x)' = Successors(x)
               /\ x # n => (PairInUse(x)' <=> PairInUse(x)) /\ (RefreshRead(x)' <=> RefreshRead(x))
    BY <1>1, <1>2, <1>4 DEF Successors, PairInUse, RefreshRead, HoldsPair
  <1>7. Successors(n) = {} /\ ~PairInUse(n)
    BY <1>2, RefreshLifeIs
  <1>8. RefreshLife(n) = "open" /\ RefreshLife(n)' = "claimed"
    BY <1>2, <1>5, <1>6, <1>7 DEF RefreshLife
  <1>9. \A x \in Pairs : x # n => RefreshLife(x)' = RefreshLife(x)
    BY <1>2, <1>4, <1>6 DEF RefreshLife, UsableRefresh, RefreshRow
  <1>10. RefreshUse!Claim(n)
    BY <1>2, <1>6, <1>8, <1>9 DEF RefreshUse!Claim
  <1> QED
    BY <1>2, <1>10 DEF RefreshUse!Next

\* generate_tokens stores a refresh token that was never issued.
LEMMA SaveRefreshIssues ==
  ASSUME OidcInv, NEW p \in Tasks, SaveRefresh(p), refresh' # refresh
  PROVE  RefreshUse!Next
  <1>1. PICK n : n = task[p].new
    OBVIOUS
  <1>2. /\ n \in Pairs /\ refresh[n] = "none" /\ refresh' = [refresh EXCEPT ![n] = "fresh"]
        /\ UNCHANGED <<expired, origin, parent>> /\ task[p].pc = "saverefresh"
        /\ Goto(p, "idtoken") \/ End(p)
    BY <1>1 DEF SaveRefresh, OidcInv, HandlerOK, Carries, HoldsOK
  <1>3. PICK t : /\ task' = [task EXCEPT ![p] = t] /\ t.pc \in {"idle", "idtoken"}
    <2>1. CASE Goto(p, "idtoken")
      BY <2>1, GotoSent DEF Sent, Pcs, OidcInv
    <2>2. CASE End(p)
      BY <2>2, IdleOK DEF End
    <2> QED
      BY <1>2, <2>1, <2>2
  <1>4. /\ \A q \in Tasks : task'[q] = IF q = p THEN t ELSE task[q]
        /\ refresh'[n] = "fresh" /\ \A x \in Pairs : x # n => refresh'[x] = refresh[x]
    BY <1>2, <1>3 DEF OidcInv, TypeOK
  <1>5. ASSUME NEW x \in Pairs
        PROVE  /\ Successors(x)' = Successors(x) /\ (PairInUse(x)' <=> PairInUse(x))
               /\ (RefreshRead(x)' <=> RefreshRead(x))
    BY <1>2, <1>3, <1>4 DEF Successors, PairInUse, RefreshRead, HoldsPair
  <1>6. Successors(n) = {} /\ ~PairInUse(n) /\ RefreshRow(n) \notin expired
    BY <1>2, RefreshLifeIs DEF OidcInv, ExpiredOK
  <1>7. RefreshLife(n) = "unissued" /\ RefreshLife(n)' = "open"
    BY <1>2, <1>4, <1>5, <1>6 DEF RefreshLife, UsableRefresh, RefreshRow
  <1>8. \A x \in Pairs : x # n => RefreshLife(x)' = RefreshLife(x)
    BY <1>2, <1>4, <1>5 DEF RefreshLife, UsableRefresh, RefreshRow
  <1>9. RefreshUse!Issue(n)
    BY <1>2, <1>5, <1>7, <1>8 DEF RefreshUse!Issue
  <1> QED
    BY <1>2, <1>9 DEF RefreshUse!Next

\* What generate_tokens does with the access token: one new pair, and a handler
\* that holds nothing any more.
LEMMA SaveAccessDoes ==
  ASSUME OidcInv, NEW p \in Tasks, SaveAccess(p)
  PROVE  \E n \in Pairs, t \in Task :
           /\ origin[n] = NoCode /\ parent[n] = NoPair
           /\ origin'[n] = IF task[p].kind = "exchange" THEN task[p].code
                           ELSE origin[task[p].old]
           /\ parent'[n] = task[p].old
           /\ \A m \in Pairs : m # n => origin'[m] = origin[m] /\ parent'[m] = parent[m]
           /\ \A q \in Tasks : task'[q] = IF q = p THEN t ELSE task[q]
           /\ t.pc = "saverefresh" /\ UNCHANGED <<code, refresh, expired>>
           /\ \/ task[p].kind = "exchange" /\ HoldsCode(task[p]) /\ task[p].code \in Codes
                   /\ task[p].old = NoPair
              \/ task[p].kind = "refresh" /\ HoldsPair(task[p]) /\ task[p].old \in Pairs
  <1>1. PICK n \in Pairs, t \in Task :
           /\ access[n] = "none"
           /\ origin' = [origin EXCEPT ![n] = IF task[p].kind = "exchange" THEN task[p].code
                                              ELSE origin[task[p].old]]
           /\ parent' = [parent EXCEPT ![n] = task[p].old]
           /\ task' = [task EXCEPT ![p] = t] /\ t.pc = "saverefresh"
    BY SaveAccessIs DEF OidcInv
  <1>2. /\ origin[n] = NoCode /\ parent[n] = NoPair
        /\ origin'[n] = IF task[p].kind = "exchange" THEN task[p].code
                        ELSE origin[task[p].old]
        /\ parent'[n] = task[p].old
        /\ \A m \in Pairs : m # n => origin'[m] = origin[m] /\ parent'[m] = parent[m]
        /\ \A q \in Tasks : task'[q] = IF q = p THEN t ELSE task[q]
    BY <1>1 DEF OidcInv, ChainOK, TypeOK
  <1>3. task[p].pc = "saveaccess" /\ UNCHANGED <<code, refresh, expired>>
    BY DEF SaveAccess
  <1>4. \/ task[p].kind = "exchange" /\ HoldsCode(task[p]) /\ task[p].code \in Codes
             /\ task[p].old = NoPair
        \/ task[p].kind = "refresh" /\ HoldsPair(task[p]) /\ task[p].old \in Pairs
    BY <1>3 DEF OidcInv, HandlerOK, Carries, HoldsCode, HoldsPair
  <1> QED
    BY <1>1, <1>2, <1>3, <1>4

\* It claims nothing, and it concerns one of the two tables only.
LEMMA SaveAccessCalm ==
  ASSUME OidcInv, NEW p \in Tasks, SaveAccess(p)
  PROVE  /\ CodesCalm /\ PairsCalm
         /\ task[p].kind = "refresh" => CodesQuiet
         /\ task[p].kind # "refresh" => PairsQuiet
  <1>1. PICK n \in Pairs, t \in Task :
           /\ origin[n] = NoCode /\ parent[n] = NoPair
           /\ parent'[n] = task[p].old
           /\ \A m \in Pairs : m # n => origin'[m] = origin[m] /\ parent'[m] = parent[m]
           /\ \A q \in Tasks : task'[q] = IF q = p THEN t ELSE task[q]
           /\ t.pc = "saverefresh" /\ UNCHANGED <<code, refresh, expired>>
           /\ \/ task[p].kind = "exchange" /\ task[p].old = NoPair
              \/ task[p].kind = "refresh" /\ task[p].old \in Pairs
    BY SaveAccessDoes
  <1>2. CodesCalm /\ PairsCalm
    BY <1>1 DEF CodesCalm, PairsCalm, CalmCode, CalmPair, HoldsCode, HoldsPair
  <1>3. ASSUME task[p].kind = "refresh" PROVE CodesQuiet
    <2>1. ASSUME NEW c \in Codes PROVE PairsOfCode(c)' = PairsOfCode(c)
      BY <1>1, <1>3, OidcTokensAssumption DEF PairsOfCode
    <2> QED
      BY <1>1, <2>1 DEF CodesQuiet, CodeRow
  <1>4. ASSUME task[p].kind # "refresh" PROVE PairsQuiet
    <2>1. ASSUME NEW m \in Pairs PROVE Successors(m)' = Successors(m)
      BY <1>1, <1>4, OidcTokensAssumption DEF Successors
    <2> QED
      BY <1>1, <2>1 DEF PairsQuiet, RefreshRow
  <1> QED
    BY <1>2, <1>3, <1>4

\* The exchange that claimed a code finishes with one pair of it.
LEMMA ExchangeFinishes ==
  ASSUME OidcInv, NEW p \in Tasks, SaveAccess(p), task[p].kind = "exchange"
  PROVE  CodeUse!Next
  <1>1. PICK n \in Pairs, t \in Task :
           /\ origin[n] = NoCode /\ origin'[n] = task[p].code /\ parent'[n] = NoPair
           /\ \A m \in Pairs : m # n => origin'[m] = origin[m] /\ parent'[m] = parent[m]
           /\ \A q \in Tasks : task'[q] = IF q = p THEN t ELSE task[q]
           /\ t.pc = "saverefresh" /\ UNCHANGED <<code, refresh, expired>>
           /\ HoldsCode(task[p]) /\ task[p].code \in Codes
    BY SaveAccessDoes
  <1>2. PICK c : c = task[p].code
    OBVIOUS
  <1>3. /\ c \in Codes /\ CodeInUse(c) /\ c # NoCode
        /\ \A m \in Pairs : origin[m] # c
    BY <1>1, <1>2, CodeLifeIs, OidcTokensAssumption DEF CodeInUse
  <1>4. PairsOfCode(c) = {} /\ PairsOfCode(c)' = {n}
    BY <1>1, <1>2, <1>3 DEF PairsOfCode
  <1>5. ASSUME NEW x \in Codes, x # c
        PROVE  /\ PairsOfCode(x)' = PairsOfCode(x)
               /\ (CodeInUse(x)' <=> CodeInUse(x)) /\ (CodeRead(x)' <=> CodeRead(x))
    <2>1. PairsOfCode(x)' = PairsOfCode(x)
      BY <1>1, <1>2, <1>5, OidcTokensAssumption DEF PairsOfCode
    <2>2. (CodeInUse(x)' <=> CodeInUse(x)) /\ (CodeRead(x)' <=> CodeRead(x))
      BY <1>1, <1>2, <1>5 DEF CodeInUse, CodeRead, HoldsCode
    <2> QED
      BY <2>1, <2>2
  <1>6. CodeLife(c) = "claimed" /\ CodeLife(c)' = "done"
    BY <1>3, <1>4 DEF CodeLife
  <1>7. \A x \in Codes : x # c => CodeLife(x)' = CodeLife(x)
    BY <1>1, <1>5 DEF CodeLife, CodeRow
  <1>8. CodeUse!Finish(c)
    BY <1>3, <1>4, <1>5, <1>6, <1>7 DEF CodeUse!Finish
  <1> QED
    BY <1>3, <1>8 DEF CodeUse!Next

\* The grant that claimed a refresh token finishes with one successor of it.
LEMMA RefreshFinishes ==
  ASSUME OidcInv, NEW p \in Tasks, SaveAccess(p), task[p].kind = "refresh"
  PROVE  RefreshUse!Next
  <1>1. PICK n \in Pairs, t \in Task :
           /\ parent[n] = NoPair /\ parent'[n] = task[p].old
           /\ \A m \in Pairs : m # n => parent'[m] = parent[m]
           /\ \A q \in Tasks : task'[q] = IF q = p THEN t ELSE task[q]
           /\ t.pc = "saverefresh" /\ UNCHANGED <<code, refresh, expired>>
           /\ HoldsPair(task[p]) /\ task[p].old \in Pairs
    BY SaveAccessDoes
  <1>2. PICK o : o = task[p].old
    OBVIOUS
  <1>3. /\ o \in Pairs /\ PairInUse(o) /\ o # NoPair
        /\ \A m \in Pairs : parent[m] # o
    BY <1>1, <1>2, RefreshLifeIs, OidcTokensAssumption DEF PairInUse
  <1>4. Successors(o) = {} /\ Successors(o)' = {n}
    BY <1>1, <1>2, <1>3 DEF Successors
  <1>5. ASSUME NEW x \in Pairs, x # o
        PROVE  /\ Successors(x)' = Successors(x)
               /\ (PairInUse(x)' <=> PairInUse(x)) /\ (RefreshRead(x)' <=> RefreshRead(x))
    <2>1. Successors(x)' = Successors(x)
      BY <1>1, <1>2, <1>5, OidcTokensAssumption DEF Successors
    <2>2. (PairInUse(x)' <=> PairInUse(x)) /\ (RefreshRead(x)' <=> RefreshRead(x))
      BY <1>1, <1>2, <1>5 DEF PairInUse, RefreshRead, HoldsPair
    <2> QED
      BY <2>1, <2>2
  <1>6. RefreshLife(o) = "claimed" /\ RefreshLife(o)' = "done"
    BY <1>3, <1>4 DEF RefreshLife
  <1>7. \A x \in Pairs : x # o => RefreshLife(x)' = RefreshLife(x)
    BY <1>1, <1>5 DEF RefreshLife, UsableRefresh, RefreshRow
  <1>8. RefreshUse!Finish(o)
    BY <1>3, <1>4, <1>5, <1>6, <1>7 DEF RefreshUse!Finish
  <1> QED
    BY <1>3, <1>8 DEF RefreshUse!Next

\* A row of a code that has expired was stored before.
LEMMA CodeRowsHold == Spec => []CodeRowsOK
  <1>1. Init => CodeRowsOK
    BY DEF Init, CodeRowsOK
  <1>2. OidcInv /\ CodeRowsOK /\ [Next]_vars => CodeRowsOK'
    <2> SUFFICES ASSUME OidcInv, CodeRowsOK, [Next]_vars, NEW c \in Codes,
                        CodeRow(c) \in expired'
                 PROVE  code'[c] # "none"
      BY DEF CodeRowsOK, CodeRow
    <2>1. CASE Ageing
      <3>1. ASSUME NEW x \in Codes, CodeExpires(x) PROVE code'[c] # "none"
        BY <3>1 DEF CodeExpires, CodeRowsOK, CodeRow
      <3>2. ASSUME NEW n \in Pairs, AccessExpires(n) \/ RefreshExpires(n)
            PROVE  code'[c] # "none"
        BY <3>2 DEF AccessExpires, RefreshExpires, CodeRowsOK, CodeRow, AccessRow, RefreshRow
      <3>3. CASE CleanupCodes \/ CleanupAccess \/ CleanupRefresh
        BY <3>3 DEF CleanupCodes, CleanupAccess, CleanupRefresh, CodeRowsOK, CodeRow
      <3> QED
        BY <2>1, <3>1, <3>2, <3>3 DEF Ageing
    <2>2. ASSUME ~Ageing PROVE expired' \subseteq expired /\ (code[c] # "none" => code'[c] # "none")
      <3>1. CASE UNCHANGED vars \/ SessionChanges
        BY <3>1 DEF vars, rows, SessionChanges
      <3>2. ASSUME NEW p \in Tasks, NEW k \in Kinds, Start(p, k)
            PROVE  UNCHANGED <<code, expired>>
        BY <3>2 DEF Start, rows
      <3>3. ASSUME NEW p \in Tasks, Reads(p) \/ Around(p) PROVE UNCHANGED <<code, expired>>
        BY <3>3 DEF Reads, CheckSession, AuthorizeGate, AuthorizeUser, ReadCode, ReadRefresh,
                    LoadUser, LoadGate, ReadAccess, UserinfoSubject, Fail, FailsSilently, rows,
                    Around, GenerateIdToken, SetRowStatus, SetRootStatus, DeleteSessions
      <3>4. ASSUME NEW p \in Tasks, Writes(p)
            PROVE  expired' \subseteq expired /\ (code[c] # "none" => code'[c] # "none")
        BY <3>4 DEF Writes, SaveCode, MarkCode, ConsumeRefresh, DropAccess, SaveAccess,
                    SaveRefresh, RevokeAccess, RevokeRefresh, OidcInv, TypeOK
      <3> QED
        BY <2>2, <3>1, <3>2, <3>3, <3>4, NextIs
    <2> QED
      BY <2>1, <2>2 DEF CodeRowsOK
  <1> QED
    BY <1>1, <1>2, OidcInvHolds, PTL DEF Spec

\* Every step is one of OneTime, or one that leaves it alone, for codes and for
\* refresh tokens.
LEMMA StepRefines ==
  OidcInv /\ CodeRowsOK /\ [Next]_vars =>
    [CodeUse!Next]_(CodeUse!lifeVars) /\ [RefreshUse!Next]_(RefreshUse!lifeVars)
  <1> SUFFICES ASSUME OidcInv, CodeRowsOK, [Next]_vars
               PROVE  CodeUse!Next /\ RefreshUse!Next
    OBVIOUS
  <1>1. CASE Ageing
    BY <1>1, AgeingQuiet, CodesClose, PairsClose
  <1>2. CASE UNCHANGED vars \/ SessionChanges
    <2>1. UNCHANGED <<code, refresh, expired, origin, parent, task>>
      BY <1>2 DEF vars, rows, SessionChanges
    <2>2. CodesCalm /\ PairsCalm
      BY <2>1 DEF CodesCalm, PairsCalm, CalmCode, CalmPair, HoldsCode, HoldsPair
    <2> QED
      BY <2>1, <2>2, QuietTables, CodesClose, PairsClose
  <1>3. ASSUME NEW p \in Tasks, NEW k \in Kinds, Start(p, k)
        PROVE  CodeUse!Next /\ RefreshUse!Next
    <2>1. UNCHANGED <<code, refresh, expired, origin, parent>>
      BY <1>3 DEF Start, rows
    <2> QED
      BY <1>3, <2>1, CalmStart, QuietTables, CodesClose, PairsClose
  <1>4. ASSUME NEW p \in Tasks, Reads(p) \/ Around(p)
        PROVE  CodeUse!Next /\ RefreshUse!Next
    <2>1. UNCHANGED <<code, refresh, expired, origin, parent>>
      BY <1>4 DEF Reads, CheckSession, AuthorizeGate, AuthorizeUser, ReadCode, ReadRefresh,
                  LoadUser, LoadGate, ReadAccess, UserinfoSubject, Fail, FailsSilently, rows,
                  Around, GenerateIdToken, SetRowStatus, SetRootStatus, DeleteSessions
    <2> QED
      BY <1>4, <2>1, CalmReads, CalmAround, QuietTables, CodesClose, PairsClose
  <1>5. ASSUME NEW p \in Tasks, Writes(p)
        PROVE  CodeUse!Next /\ RefreshUse!Next
    <2>1. CASE SaveCode(p)
      <3>1. End(p) /\ UNCHANGED <<refresh, origin, parent, expired>>
        BY <2>1 DEF SaveCode
      <3> QED
        BY <2>1, <3>1, SaveCodeIssues, CalmEnd, QuietTables, PairsClose
    <2>2. CASE MarkCode(p)
      <3>1. /\ UNCHANGED <<refresh, origin, parent, expired>> /\ task[p].kind = "exchange"
            /\ \/ code[task[p].code] = "fresh" /\ Goto(p, "load")
               \/ End(p) /\ UNCHANGED code
        BY <2>2 DEF MarkCode, OidcInv, HandlerOK, Carries
      <3>2. ASSUME Goto(p, "load") PROVE PairsCalm
        <4>1. PICK t \in Task : Sent(p, "load", t)
          BY <3>2, GotoSent DEF Pcs, OidcInv
        <4> QED
          BY <3>1, <4>1, CalmSent DEF Sent, CalmPair, HoldsPair
      <3> QED
        BY <2>2, <3>1, <3>2, MarkCodeClaims, CalmEnd, QuietTables, CodesClose, PairsClose
    <2>3. CASE ConsumeRefresh(p)
      <3>1. /\ UNCHANGED <<code, origin, parent, expired>> /\ task[p].kind = "refresh"
            /\ \/ refresh[task[p].old] = "fresh" /\ Goto(p, "drop")
               \/ End(p) /\ UNCHANGED refresh
        BY <2>3 DEF ConsumeRefresh, OidcInv, HandlerOK, Carries
      <3>2. ASSUME Goto(p, "drop") PROVE CodesCalm
        <4>1. PICK t \in Task : Sent(p, "drop", t)
          BY <3>2, GotoSent DEF Pcs, OidcInv
        <4> QED
          BY <4>1, CalmSent DEF Sent, CalmCode, HoldsCode
      <3> QED
        BY <2>3, <3>1, <3>2, ConsumeClaims, CalmEnd, QuietTables, CodesClose, PairsClose
    <2>4. CASE SaveAccess(p)
      <3>1. task[p].kind \in {"exchange", "refresh"}
        BY <2>4 DEF SaveAccess, OidcInv, HandlerOK, Carries
      <3> QED
        BY <2>4, <3>1, SaveAccessCalm, ExchangeFinishes, RefreshFinishes, CodesClose, PairsClose
    <2>5. CASE SaveRefresh(p)
      <3>1. /\ UNCHANGED <<code, origin, parent, expired>>
            /\ Goto(p, "idtoken") \/ End(p)
        BY <2>5 DEF SaveRefresh
      <3>2. CodesCalm /\ PairsCalm
        BY <3>1, CalmEnd, CalmGoto DEF Pcs
      <3> QED
        BY <2>5, <3>1, <3>2, SaveRefreshIssues, QuietTables, CodesClose, PairsClose
    <2>6. CASE DropAccess(p) \/ RevokeAccess(p) \/ RevokeRefresh(p)
      BY <2>6, RevokingQuiet, CodesClose, PairsClose
    <2> QED
      BY <1>5, <2>1, <2>2, <2>3, <2>4, <2>5, <2>6 DEF Writes
  <1> QED
    BY <1>1, <1>2, <1>3, <1>4, <1>5, NextIs

\* However grants, revocations, expiry and cleanup interleave and whatever
\* fails half way, a code leads to one pair at most and a refresh token to one
\* successor, obtained by the grant whose guarded UPDATE claimed it, and what
\* was spent, revoked or deleted never opens again.
THEOREM ImplementsOneTimeHolds == Spec => ImplementsOneTime
  <1>1. Init => CodeUse!Init /\ RefreshUse!Init
    <2> SUFFICES ASSUME Init PROVE CodeUse!Init /\ RefreshUse!Init
      OBVIOUS
    <2>1. \A p \in Tasks : task[p].pc = "idle"
      BY IdleOK DEF Init
    <2>2. ASSUME NEW c \in Codes PROVE CodeLife(c) = "unissued" /\ PairsOfCode(c) = {}
      BY <2>1, OidcTokensAssumption DEF Init, CodeLife, PairsOfCode, CodeInUse, HoldsCode
    <2>3. ASSUME NEW n \in Pairs PROVE RefreshLife(n) = "unissued" /\ Successors(n) = {}
      BY <2>1, OidcTokensAssumption DEF Init, RefreshLife, Successors, PairInUse, HoldsPair
    <2> QED
      BY <2>2, <2>3 DEF CodeUse!Init, RefreshUse!Init
  <1> QED
    BY <1>1, StepRefines, OidcInvHolds, CodeRowsHold, PTL
       DEF Spec, ImplementsOneTime, CodeUse!Spec, RefreshUse!Spec
=============================================================================
