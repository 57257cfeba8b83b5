-------------------------- MODULE BootstrapProofs --------------------------
(***************************************************************************)
(* Proofs about Bootstrap, for any number of addresses, of bootstrap       *)
(* requests in flight, of administrators' handlers and of faults.          *)
(*                                                                         *)
(* The claim is the arbiter: a request between its CREATE and              *)
(* mark_role_pending holds it alone, and from then on the claim, every     *)
(* request past the gate and every account that was granted the role agree *)
(* on one account.  ClaimInv says so; it does not speak of user, user_role *)
(* or the roles, so no registration and no administrator can disturb it.   *)
(***************************************************************************)
EXTENDS Bootstrap, FiniteSetTheorems, TLAPS

\* A request that wrote the claim and has not handed it over yet.
Holds(b) == boot[b].pc \in {"register", "release", "mark"}

\* A request that is about to grant the role, or has granted it.
Grants(b) == boot[b].pc \in {"assign", "finish"}

\* The holder of the claim is alone, and nothing has been granted.
HolderAlone ==
  \A b \in Boots : Holds(b) =>
    /\ claim.stage = "claiming" /\ granted = {}
    /\ boot[b].pc = "mark" => boot[b].user \in made
    /\ \A c \in Boots : c # b => ~Holds(c) /\ ~Grants(c)

\* Without a claim there is neither.
ClaimFirst ==
  claim = NoClaim => granted = {} /\ \A b \in Boots : ~Holds(b) /\ ~Grants(b)

\* Everybody past the gate agrees on one account, which bootstrap registered.
OneAccount ==
  /\ \A b \in Boots : Grants(b) =>
       /\ boot[b].user \in made
       /\ \A c \in Boots : Grants(c) => boot[c].user = boot[b].user
       /\ \A u \in granted : u = boot[b].user
       /\ claim.stage = "role_pending" => claim.user = boot[b].user
  /\ claim.stage = "role_pending" =>
       /\ claim.user \in made
       /\ \A u \in granted : u = claim.user
       /\ \A b \in Boots : ~Holds(b)
  /\ granted \subseteq made
  /\ \A u, v \in granted : u = v

ClaimInv ==
  /\ boot \in [Boots -> Boot] /\ claim \in Claim
  /\ HolderAlone /\ ClaimFirst /\ OneAccount

----------------------------------------------------------------------------

LEMMA ClaimInvInit == Init => ClaimInv
  BY DEF Init, ClaimInv, HolderAlone, ClaimFirst, OneAccount, Holds, Grants, NoClaim,
         Claim, NoBoot, Boot

\* What only the handlers of Rbac, a registration or nobody changes is nothing
\* that the invariant speaks of.
LEMMA Elsewhere ==
  ASSUME ClaimInv, UNCHANGED <<claim, boot, made, granted>>
  PROVE  ClaimInv'
  BY DEF ClaimInv, HolderAlone, ClaimFirst, OneAccount, Holds, Grants

\* A request that is refused or ends, or begins, holds nothing.
LEMMA EndKeeps ==
  ASSUME ClaimInv, NEW b \in Boots, NEW r \in Boot, r.pc \in {"idle", "claim"},
         boot' = [boot EXCEPT ![b] = r], UNCHANGED <<claim, made, granted>>
  PROVE  ClaimInv'
  <1>1. \A c \in Boots : boot'[c] = IF c = b THEN r ELSE boot[c]
    BY DEF ClaimInv
  <1>2. boot' \in [Boots -> Boot] /\ claim' \in Claim
    BY DEF ClaimInv
  <1>3. HolderAlone'
    BY <1>1 DEF ClaimInv, HolderAlone, Holds, Grants
  <1>4. ClaimFirst'
    BY <1>1 DEF ClaimInv, ClaimFirst, Holds, Grants
  <1>5. OneAccount'
    BY <1>1 DEF ClaimInv, OneAccount, Holds, Grants
  <1> QED
    BY <1>2, <1>3, <1>4, <1>5 DEF ClaimInv

\* claim_bootstrap: whoever writes the row finds nobody past the gate; if the
\* answer is lost, nobody holds the row at all.
LEMMA ClaimKeeps ==
  ASSUME ClaimInv, NEW b \in Boots, ClaimGate(b)
  PROVE  ClaimInv'
  <1> DEFINE mine == [stage |-> "claiming", email |-> boot[b].email, user |-> None]
  <1>1. /\ claim = NoClaim /\ granted = {} /\ UNCHANGED <<made, granted>>
        /\ \A c \in Boots : ~Holds(c) /\ ~Grants(c)
        /\ boot[b] \in Boot /\ boot[b].pc = "claim"
    BY DEF ClaimGate, ClaimInv, ClaimFirst, BootAt
  <1>2. mine \in Claim /\ NoClaim \in Claim /\ NoBoot \in Boot
    BY <1>1 DEF Claim, Boot, NoClaim, NoBoot
  <1>3. CASE claim' = mine /\ BootTo(b, "register")
    <2> DEFINE r == [boot[b] EXCEPT !.pc = "register"]
    <2>1. r \in Boot /\ r.pc = "register"
      BY <1>1 DEF Boot
    <2>2. boot' = [boot EXCEPT ![b] = r]
      BY <1>3 DEF BootTo
    <2>3. \A c \in Boots : boot'[c] = IF c = b THEN r ELSE boot[c]
      BY <2>2 DEF ClaimInv
    <2>4. boot' \in [Boots -> Boot] /\ claim' \in Claim
      BY <1>2, <1>3, <2>1, <2>2 DEF ClaimInv
    <2>5. claim'.stage = "claiming" /\ claim' # NoClaim
      BY <1>3 DEF NoClaim
    <2> HIDE DEF r, mine
    <2>6. HolderAlone'
      BY <1>1, <2>1, <2>3, <2>5 DEF HolderAlone, Holds, Grants
    <2>7. ClaimFirst'
      BY <2>5 DEF ClaimFirst
    <2>8. OneAccount'
      BY <1>1, <2>1, <2>3, <2>5 DEF OneAccount, Holds, Grants
    <2> QED
      BY <2>4, <2>6, <2>7, <2>8 DEF ClaimInv
  <1>4. CASE claim' \in {mine, NoClaim} /\ BootEnd(b)
    <2>1. boot' = [boot EXCEPT ![b] = NoBoot]
      BY <1>4 DEF BootEnd
    <2>2. \A c \in Boots : boot'[c] = IF c = b THEN NoBoot ELSE boot[c]
      BY <2>1 DEF ClaimInv
    <2>3. \A c \in Boots : ~Holds(c)' /\ ~Grants(c)'
      BY <1>1, <2>2 DEF Holds, Grants, NoBoot
    <2>4. boot' \in [Boots -> Boot] /\ claim' \in Claim
      BY <1>2, <1>4, <2>1 DEF ClaimInv
    <2>5. claim'.stage # "role_pending"
      BY <1>4 DEF NoClaim
    <2> QED
      BY <1>1, <2>3, <2>4, <2>5 DEF ClaimInv, HolderAlone, ClaimFirst, OneAccount
  <1> QED
    BY <1>3, <1>4 DEF ClaimGate

\* claim_bootstrap on a taken gate: the account that is resumed is the claim's.
LEMMA ResumeKeeps ==
  ASSUME ClaimInv, NEW b \in Boots, ResumeClaim(b)
  PROVE  ClaimInv'
  <1>1. /\ UNCHANGED <<claim, made, granted>> /\ boot[b] \in Boot /\ boot[b].pc = "claim"
        /\ claim # NoClaim /\ NoBoot \in Boot /\ NoBoot.pc = "idle"
    BY DEF ResumeClaim, BootAt, ClaimInv, NoBoot, Boot
  <1>2. CASE claim.stage = "role_pending" /\ claim.email = boot[b].email /\ claim.user # None
    <2> DEFINE r == [boot[b] EXCEPT !.pc = "assign", !.user = claim.user]
    <2>1. r \in Boot /\ r.pc = "assign" /\ r.user = claim.user
      BY <1>1 DEF Boot, Claim, ClaimInv
    <2>2. boot' = [boot EXCEPT ![b] = r]
      BY <1>2 DEF ResumeClaim
    <2>3. \A c \in Boots : boot'[c] = IF c = b THEN r ELSE boot[c]
      BY <2>2 DEF ClaimInv
    <2> HIDE DEF r
    <2>4. boot' \in [Boots -> Boot] /\ claim' \in Claim
      BY <1>1, <2>1, <2>2 DEF ClaimInv
    <2>5. HolderAlone'
      BY <1>1, <1>2, <2>1, <2>3 DEF ClaimInv, HolderAlone, OneAccount, Holds, Grants
    <2>6. ClaimFirst'
      BY <1>1 DEF ClaimFirst
    <2>7. OneAccount'
      BY <1>1, <1>2, <2>1, <2>3 DEF ClaimInv, OneAccount, Holds, Grants
    <2> QED
      BY <2>4, <2>5, <2>6, <2>7 DEF ClaimInv
  <1>3. CASE ~(claim.stage = "role_pending" /\ claim.email = boot[b].email /\ claim.user # None)
    BY <1>1, <1>3, EndKeeps DEF ResumeClaim, BootEnd
  <1> QED
    BY <1>2, <1>3

\* register: the account that was created is the holder's, and it goes on with
\* the claim or is about to release it.
LEMMA RegisterKeeps ==
  ASSUME ClaimInv, NEW b \in Boots, BootRegisters(b)
  PROVE  ClaimInv'
  <1>1. /\ UNCHANGED <<claim, granted>> /\ boot[b] \in Boot /\ boot[b].pc = "register"
        /\ made \subseteq made' /\ granted = {} /\ claim.stage = "claiming"
        /\ \A c \in Boots : c # b => ~Holds(c) /\ ~Grants(c)
    BY DEF BootRegisters, BootAt, ClaimInv, HolderAlone, Holds
  <1>2. PICK r \in Boot : /\ boot' = [boot EXCEPT ![b] = r]
                          /\ r.pc \in {"mark", "release"}
                          /\ r.pc = "mark" => r.user \in made'
    <2> DEFINE e == boot[b].email
    <2>1. CASE /\ e \notin users /\ made' = made \cup {e}
               /\ boot' = [boot EXCEPT ![b].pc = "mark", ![b].user = e]
      <3> DEFINE r == [boot[b] EXCEPT !.pc = "mark", !.user = e]
      <3>1. r \in Boot /\ r.pc = "mark" /\ r.user = e
        BY <1>1 DEF Boot
      <3>2. boot' = [boot EXCEPT ![b] = r]
        BY <2>1
      <3> HIDE DEF r
      <3> QED
        BY <2>1, <3>1, <3>2
    <2>2. CASE BootTo(b, "release")
      <3> DEFINE r == [boot[b] EXCEPT !.pc = "release"]
      <3>1. r \in Boot /\ r.pc = "release"
        BY <1>1 DEF Boot
      <3>2. boot' = [boot EXCEPT ![b] = r]
        BY <2>2 DEF BootTo
      <3> QED
        BY <3>1, <3>2
    <2>3. \/ e \notin users /\ made' = made \cup {e}
             /\ boot' = [boot EXCEPT ![b].pc = "mark", ![b].user = e]
          \/ BootTo(b, "release")
      BY DEF BootRegisters
    <2> QED
      BY <2>1, <2>2, <2>3
  <1>3. \A c \in Boots : boot'[c] = IF c = b THEN r ELSE boot[c]
    BY <1>2 DEF ClaimInv
  <1>4. boot' \in [Boots -> Boot] /\ claim' \in Claim
    BY <1>1, <1>2 DEF ClaimInv
  <1>5. HolderAlone'
    BY <1>1, <1>2, <1>3 DEF HolderAlone, Holds, Grants
  <1>6. claim' # NoClaim
    BY <1>1 DEF NoClaim
  <1>7. OneAccount'
    BY <1>1, <1>2, <1>3 DEF OneAccount, Holds, Grants
  <1> QED
    BY <1>4, <1>5, <1>6, <1>7 DEF ClaimInv, ClaimFirst

\* release_bootstrap: the holder was alone, so a claim that goes leaves nobody
\* past the gate.
LEMMA ReleaseKeeps ==
  ASSUME ClaimInv, NEW b \in Boots, ReleaseClaim(b)
  PROVE  ClaimInv'
  <1>1. /\ UNCHANGED <<made, granted>> /\ granted = {} /\ claim.stage = "claiming"
        /\ \A c \in Boots : c # b => ~Holds(c) /\ ~Grants(c)
        /\ claim' \in {NoClaim, claim} /\ boot' = [boot EXCEPT ![b] = NoBoot]
    BY DEF ReleaseClaim, BootAt, BootEnd, ClaimInv, HolderAlone, Holds
  <1>2. \A c \in Boots : ~Holds(c)' /\ ~Grants(c)'
    BY <1>1 DEF ClaimInv, Holds, Grants, NoBoot
  <1>3. boot' \in [Boots -> Boot] /\ claim' \in Claim
    BY <1>1 DEF ClaimInv, NoBoot, Boot, NoClaim, Claim
  <1>4. claim'.stage # "role_pending"
    BY <1>1 DEF NoClaim
  <1> QED
    BY <1>1, <1>2, <1>3, <1>4 DEF ClaimInv, HolderAlone, ClaimFirst, OneAccount

\* mark_role_pending: the claim records the account of its holder, which goes
\* on to the grant whether or not the row was written.
LEMMA MarkKeeps ==
  ASSUME ClaimInv, NEW b \in Boots, MarkRolePending(b)
  PROVE  ClaimInv'
  <1> DEFINE r == [boot[b] EXCEPT !.pc = "assign"]
             full == [claim EXCEPT !.stage = "role_pending", !.user = boot[b].user]
  <1>1. /\ UNCHANGED <<made, granted>> /\ granted = {} /\ claim.stage = "claiming"
        /\ \A c \in Boots : c # b => ~Holds(c) /\ ~Grants(c)
        /\ boot[b] \in Boot /\ claim \in Claim /\ boot[b].user \in made
    BY DEF MarkRolePending, BootAt, ClaimInv, HolderAlone, Holds
  <1>2. r \in Boot /\ r.pc = "assign" /\ r.user = boot[b].user
    BY <1>1 DEF Boot
  <1>3. /\ full \in Claim /\ full.stage = "role_pending" /\ full.user = boot[b].user
        /\ claim' \in {full, claim} /\ boot' = [boot EXCEPT ![b] = r]
    BY <1>1 DEF MarkRolePending, BootTo, Claim, Boot
  <1>4. \A c \in Boots : boot'[c] = IF c = b THEN r ELSE boot[c]
    BY <1>3 DEF ClaimInv
  <1> HIDE DEF r, full
  <1>5. boot' \in [Boots -> Boot] /\ claim' \in Claim
    BY <1>1, <1>2, <1>3 DEF ClaimInv
  <1>6. \A c \in Boots : ~Holds(c)' /\ (c # b => ~Grants(c)')
    BY <1>1, <1>2, <1>4 DEF Holds, Grants
  <1>7. claim' # NoClaim /\ (claim'.stage = "role_pending" => claim'.user = boot[b].user)
    BY <1>1, <1>3 DEF NoClaim
  <1>8. OneAccount'
    BY <1>1, <1>2, <1>4, <1>6, <1>7 DEF OneAccount
  <1> QED
    BY <1>5, <1>6, <1>7, <1>8 DEF ClaimInv, HolderAlone, ClaimFirst

\* assign_role_as_system: the account that gets the role is the one that
\* everybody past the gate agrees on.
LEMMA AssignKeeps ==
  ASSUME ClaimInv, NEW b \in Boots, BootAssigns(b)
  PROVE  ClaimInv'
  <1>1. /\ UNCHANGED <<claim, made>> /\ boot[b] \in Boot /\ boot[b].pc = "assign"
        /\ granted' \in {granted, granted \cup {boot[b].user}}
        /\ \A c \in Boots : ~Holds(c)
        /\ claim # NoClaim
    BY DEF BootAssigns, BootAt, ClaimInv, HolderAlone, ClaimFirst, Holds, Grants
  <1>2. PICK r \in Boot : /\ boot' = [boot EXCEPT ![b] = r]
                          /\ r.pc = "idle" \/ (r.pc = "finish" /\ r.user = boot[b].user)
    <2>1. CASE BootTo(b, "finish")
      <3> DEFINE r == [boot[b] EXCEPT !.pc = "finish"]
      <3>1. r \in Boot /\ r.pc = "finish" /\ r.user = boot[b].user
        BY <1>1 DEF Boot
      <3> QED
        BY <2>1, <3>1 DEF BootTo
    <2>2. CASE BootEnd(b)
      <3>1. NoBoot \in Boot /\ NoBoot.pc = "idle"
        BY DEF NoBoot, Boot
      <3> QED
        BY <2>2, <3>1 DEF BootEnd
    <2>3. BootTo(b, "finish") \/ BootEnd(b)
      BY DEF BootAssigns
    <2> QED
      BY <2>1, <2>2, <2>3
  <1>3. \A c \in Boots : boot'[c] = IF c = b THEN r ELSE boot[c]
    BY <1>2 DEF ClaimInv
  <1>4. boot' \in [Boots -> Boot] /\ claim' \in Claim
    BY <1>1, <1>2 DEF ClaimInv
  <1>5. \A c \in Boots : ~Holds(c)' /\ (Grants(c)' => Grants(c) /\ boot'[c].user = boot[c].user)
    BY <1>1, <1>2, <1>3 DEF Holds, Grants
  <1>6. Grants(b)
    BY <1>1 DEF Grants
  <1>7. OneAccount'
    BY <1>1, <1>5, <1>6 DEF ClaimInv, OneAccount
  <1> QED
    BY <1>1, <1>4, <1>5, <1>7 DEF ClaimInv, HolderAlone, ClaimFirst

\* finish_bootstrap: the claim leaves the stage in which it can be resumed.
LEMMA FinishKeeps ==
  ASSUME ClaimInv, NEW b \in Boots, FinishClaim(b)
  PROVE  ClaimInv'
  <1> DEFINE full == [claim EXCEPT !.stage = "done"]
  <1>1. /\ UNCHANGED <<made, granted>> /\ claim \in Claim
        /\ boot' = [boot EXCEPT ![b] = NoBoot] /\ NoBoot \in Boot
        /\ \A c \in Boots : ~Holds(c)
        /\ claim' \in {full, claim} /\ claim # NoClaim
    BY DEF FinishClaim, BootAt, BootEnd, ClaimInv, HolderAlone, ClaimFirst, Holds, Grants,
           NoBoot, Boot
  <1>2. full \in Claim /\ full.stage = "done" /\ full # NoClaim
    BY <1>1 DEF Claim, NoClaim
  <1> HIDE DEF full
  <1>3. \A c \in Boots : ~Holds(c)' /\ (Grants(c)' => Grants(c) /\ boot'[c] = boot[c])
    BY <1>1 DEF ClaimInv, Holds, Grants, NoBoot
  <1>4. boot' \in [Boots -> Boot] /\ claim' \in Claim
    BY <1>1, <1>2 DEF ClaimInv
  <1>5. claim' # NoClaim /\ (claim'.stage = "role_pending" => claim' = claim)
    BY <1>1, <1>2
  <1>6. OneAccount'
    BY <1>1, <1>3, <1>5 DEF ClaimInv, OneAccount
  <1> QED
    BY <1>3, <1>4, <1>5, <1>6 DEF ClaimInv, HolderAlone, ClaimFirst

----------------------------------------------------------------------------

LEMMA ClaimInvStep == ClaimInv /\ [Next]_vars => ClaimInv'
  <1> SUFFICES ASSUME ClaimInv, [Next]_vars PROVE ClaimInv'
    OBVIOUS
  <1>1. CASE UNCHANGED vars \/ UNCHANGED bootVars
    BY <1>1, Elsewhere DEF vars, bootVars
  <1>2. ASSUME NEW b \in Boots, NEW e \in Users, BootReads(b, e) PROVE ClaimInv'
    <2> DEFINE r == [pc |-> "claim", email |-> e, user |-> None]
    <2>1. r \in Boot
      BY DEF Boot
    <2> QED
      BY <1>2, <2>1, EndKeeps DEF BootReads
  <1>3. ASSUME NEW b \in Boots, BootStops(b) PROVE ClaimInv'
    BY <1>3, EndKeeps DEF BootStops, BootEnd, NoBoot, Boot
  <1>4. ASSUME NEW b \in Boots, BootStep(b) PROVE ClaimInv'
    BY <1>4, ClaimKeeps, ResumeKeeps, RegisterKeeps, ReleaseKeeps, MarkKeeps, AssignKeeps,
       FinishKeeps DEF BootStep
  <1> QED
    BY <1>1, <1>2, <1>3, <1>4 DEF Next

LEMMA ClaimInvHolds == Spec => []ClaimInv
  BY ClaimInvInit, ClaimInvStep, PTL DEF Spec

\* claim_bootstrap is the arbiter: whatever requests race, fail, are dropped and
\* are retried, bootstrap makes at most one account an administrator.
THEOREM OneBootstrapAdminHolds == Spec => []OneBootstrapAdmin
  <1>1. ClaimInv => OneBootstrapAdmin
    <2> SUFFICES ASSUME ClaimInv PROVE Cardinality(granted) <= 1
      BY DEF OneBootstrapAdmin
    <2>1. \A u, v \in granted : u = v
      BY DEF ClaimInv, OneAccount
    <2>2. CASE granted = {}
      BY <2>2, FS_EmptySet
    <2>3. CASE granted # {}
      <3>1. PICK u : granted = {u}
        BY <2>1, <2>3
      <3>2. Cardinality({u}) = 1
        BY FS_Singleton
      <3> QED
        BY <3>1, <3>2
    <2> QED
      BY <2>2, <2>3
  <1> QED
    BY <1>1, ClaimInvHolds, PTL

\* An account that somebody else registered under the operator's address is
\* never granted the role by bootstrap.
THEOREM BootstrapGrantsOwnHolds == Spec => []BootstrapGrantsOwn
  <1>1. ClaimInv => BootstrapGrantsOwn
    BY DEF ClaimInv, OneAccount, BootstrapGrantsOwn
  <1> QED
    BY <1>1, ClaimInvHolds, PTL

----------------------------------------------------------------------------
(* Roles.  delete_role looks for users of the role, removes its            *)
(* permissions and then the row; a request that found the role in between  *)
(* writes its row late, and overlapped remembers that row.                 *)

\* Role r has lost its users, and then its permissions, up to rows that were
\* written too late.
NoUsers(r) == \A u \in Users : <<u, r>> \in userRole => <<u, r>> \in overlapped
NoPerms(r) == \A p \in Perms : <<r, p>> \in rolePerm => <<r, p>> \in overlapped

\* A handler knows its role from when it has found it.
Well(w) ==
  /\ {"op", "pc", "role"} \subseteq DOMAIN w
  /\ w.pc = "permitted" => w.role = None
  /\ w.pc = "found" /\ w.op # "create" => w.role \in RoleIds

\* What a deletion has achieved so far.
Achieved(w) ==
  w.op = "delete" /\ w.pc # "permitted" =>
    /\ w.role \in RoleIds \ {Admin}
    /\ w.pc \in {"counted", "unlinked"} => NoUsers(w.role)
    /\ w.pc = "unlinked" => NoPerms(w.role)

RolesInv ==
  /\ task = [t \in Tasks |-> task[t]]
  /\ \A t \in Tasks : Well(task[t]) /\ Achieved(task[t])
  /\ gone \subseteq RoleIds \ {Admin}
  /\ CleanDelete

LEMMA IdleIs == Well(Idle) /\ Idle.op = "idle"
  BY DEF Well, Idle

LEMMA RolesInit == Init => RolesInv
  <1> SUFFICES ASSUME Init PROVE RolesInv
    OBVIOUS
  <1>1. task = [t \in Tasks |-> Idle] /\ gone = {}
    BY DEF Init, RbacInit
  <1>2. \A t \in Tasks : Well(task[t]) /\ Achieved(task[t])
    BY <1>1, IdleIs DEF Achieved
  <1> QED
    BY <1>1, <1>2 DEF RolesInv, CleanDelete

\* Some handler has seen that role r has no users and goes on to delete it.
Deleting(r) == \E t \in Tasks :
  task[t].op = "delete" /\ task[t].role = r /\ task[t].pc \in {"counted", "unlinked"}

\* What a role that is being deleted has lost stays lost, up to rows that are
\* written too late: then a step need only say where its own handler is
\* afterwards.
LEMMA RolesMove ==
  ASSUME RolesInv, NEW t \in Tasks, NEW w, task' = [task EXCEPT ![t] = w],
         Well(w), Achieved(w)',
         gone' \subseteq RoleIds \ {Admin}, CleanDelete',
         \A r \in RoleIds \ {Admin} : Deleting(r) =>
           (NoUsers(r) => NoUsers(r)') /\ (NoPerms(r) => NoPerms(r)')
  PROVE  RolesInv'
  <1>1. /\ task'[t] = w /\ \A q \in Tasks : q # t => task'[q] = task[q]
        /\ task' = [q \in Tasks |-> task'[q]]
    BY DEF RolesInv
  <1>2. ASSUME NEW q \in Tasks, NEW v, v = task[q] PROVE Achieved(v)'
    <2>1. Achieved(v)
      BY <1>2 DEF RolesInv
    <2>2. \A r : r = v.role /\ v.op = "delete" /\ v.pc \in {"counted", "unlinked"} => Deleting(r)
      BY <1>2 DEF Deleting
    <2>3. ASSUME NEW r \in RoleIds \ {Admin}, r = v.role, v.pc \in {"counted", "unlinked"},
                 v.op = "delete", NoUsers(r), v.pc = "unlinked" => NoPerms(r)
          PROVE  NoUsers(r)' /\ (v.pc = "unlinked" => NoPerms(r)')
      BY <2>2, <2>3
    <2> QED
      BY <2>1, <2>3 DEF Achieved
  <1>3. ASSUME NEW q \in Tasks PROVE Well(task[q])' /\ Achieved(task[q])'
    <2>1. CASE q = t
      <3>1. task'[q] = w
        BY <1>1, <2>1
      <3> QED
        BY <3>1 DEF Achieved, Well
    <2>2. CASE q # t
      <3>1. PICK v : v = task[q]
        OBVIOUS
      <3>2. Well(v) /\ Achieved(v) /\ task'[q] = v
        BY <1>1, <2>2, <3>1 DEF RolesInv
      <3>3. Achieved(v)'
        BY <1>2, <3>1
      <3> QED
        BY <3>2, <3>3 DEF Achieved, Well
    <2> QED
      BY <2>1, <2>2
  <1> QED
    BY <1>1, <1>3 DEF RolesInv, Achieved

LEMMA RolesQuiet ==
  ASSUME RolesInv, NEW t \in Tasks, NEW w, task' = [task EXCEPT ![t] = w],
         Well(w), Achieved(w), UNCHANGED <<gone, userRole, rolePerm, overlapped>>
  PROVE  RolesInv'
  <1>1. Achieved(w)' /\ CleanDelete' /\ gone' \subseteq RoleIds \ {Admin}
    BY DEF Achieved, NoUsers, NoPerms, CleanDelete, RolesInv
  <1>2. \A r \in RoleIds : (NoUsers(r) => NoUsers(r)') /\ (NoPerms(r) => NoPerms(r)')
    BY DEF NoUsers, NoPerms
  <1> QED
    BY <1>1, <1>2, RolesMove

\* A request that is admitted knows no role yet.
LEMMA StartKeeps ==
  ASSUME RolesInv, NEW t \in Tasks, NEW p, NEW w, Permitted(t, p, w),
         {"op", "pc", "role"} \subseteq DOMAIN w, w.pc = "permitted", w.role = None
  PROVE  RolesInv'
  <1>1. Well(w) /\ Achieved(w)
    BY DEF Well, Achieved
  <1> QED
    BY <1>1, RolesQuiet DEF Permitted, rbac

\* A handler that goes on keeps what it knows.
LEMMA FieldsAre ==
  ASSUME NEW w, {"op", "pc", "role"} \subseteq DOMAIN w
  PROVE  /\ \A x : /\ {"op", "pc", "role"} \subseteq DOMAIN [w EXCEPT !.pc = x]
                   /\ [w EXCEPT !.pc = x].pc = x /\ [w EXCEPT !.pc = x].op = w.op
                   /\ [w EXCEPT !.pc = x].role = w.role
         /\ \A r : /\ {"op", "pc", "role"} \subseteq DOMAIN [w EXCEPT !.role = r]
                   /\ [w EXCEPT !.role = r].pc = w.pc /\ [w EXCEPT !.role = r].op = w.op
                   /\ [w EXCEPT !.role = r].role = r
  OBVIOUS

LEMMA RequestIs ==
  ASSUME NEW op, NEW n, NEW u, NEW p
  PROVE  \A w \in {[Request(op) EXCEPT !.name = n], [Request(op) EXCEPT !.perm = p],
                    [Request(op) EXCEPT !.name = n, !.user = u],
                    [Request(op) EXCEPT !.name = n, !.perm = p]} :
           {"op", "pc", "role"} \subseteq DOMAIN w /\ w.pc = "permitted" /\ w.role = None
  <1>1. /\ DOMAIN Idle = {"op", "pc", "name", "user", "perm", "role"} /\ Idle.role = None
    BY DEF Idle
  <1>2. /\ DOMAIN Request(op) = {"op", "pc", "name", "user", "perm", "role"}
        /\ Request(op).pc = "permitted" /\ Request(op).role = None
    BY <1>1 DEF Request
  <1> QED
    BY <1>2

LEMMA StartsKeep ==
  ASSUME RolesInv, NEW t \in Tasks,
         \/ StartCreateRole(t) \/ StartDeleteRole(t) \/ StartCreatePermission(t)
         \/ StartAssignRole(t) \/ StartRemoveRole(t)
         \/ StartGrantPermission(t) \/ StartRevokePermission(t)
  PROVE  RolesInv'
  <1>1. CASE StartCreateRole(t)
    <2>1. PICK n : Permitted(t, "roles.write", [Request("create") EXCEPT !.name = n])
      BY <1>1 DEF StartCreateRole
    <2> QED
      BY <2>1, StartKeeps, RequestIs
  <1>2. CASE StartDeleteRole(t)
    <2>1. PICK n : Permitted(t, "roles.delete", [Request("delete") EXCEPT !.name = n])
      BY <1>2 DEF StartDeleteRole
    <2> QED
      BY <2>1, StartKeeps, RequestIs
  <1>3. CASE StartCreatePermission(t)
    <2>1. PICK p : Permitted(t, "permissions.write", [Request("permit") EXCEPT !.perm = p])
      BY <1>3 DEF StartCreatePermission
    <2> QED
      BY <2>1, StartKeeps, RequestIs
  <1>4. CASE StartAssignRole(t)
    <2>1. PICK n, u : Permitted(t, "roles.write",
                                [Request("assign") EXCEPT !.name = n, !.user = u])
      BY <1>4 DEF StartAssignRole
    <2> QED
      BY <2>1, StartKeeps, RequestIs
  <1>5. CASE StartRemoveRole(t)
    <2>1. PICK n, u : Permitted(t, "roles.write",
                                [Request("remove") EXCEPT !.name = n, !.user = u])
      BY <1>5 DEF StartRemoveRole
    <2> QED
      BY <2>1, StartKeeps, RequestIs
  <1>6. CASE StartGrantPermission(t)
    <2>1. PICK n, p : Permitted(t, "permissions.write",
                                [Request("grant") EXCEPT !.name = n, !.perm = p])
      BY <1>6 DEF StartGrantPermission
    <2> QED
      BY <2>1, StartKeeps, RequestIs
  <1>7. CASE StartRevokePermission(t)
    <2>1. PICK n, p : Permitted(t, "permissions.write",
                                [Request("revoke") EXCEPT !.name = n, !.perm = p])
      BY <1>7 DEF StartRevokePermission
    <2> QED
      BY <2>1, StartKeeps, RequestIs
  <1> QED
    BY <1>1, <1>2, <1>3, <1>4, <1>5, <1>6, <1>7

\* A handler that ends knows nothing any more.
LEMMA RolesEnd ==
  ASSUME RolesInv, NEW t \in Tasks, End(t),
         gone' \subseteq RoleIds \ {Admin}, CleanDelete',
         \A r \in RoleIds \ {Admin} : Deleting(r) =>
           (NoUsers(r) => NoUsers(r)') /\ (NoPerms(r) => NoPerms(r)')
  PROVE  RolesInv'
  <1>1. Well(Idle) /\ Achieved(Idle)'
    BY IdleIs DEF Achieved
  <1> QED
    BY <1>1, RolesMove DEF End

LEMMA QuietEnd ==
  ASSUME RolesInv, NEW t \in Tasks, End(t), UNCHANGED <<gone, userRole, rolePerm, overlapped>>
  PROVE  RolesInv'
  <1>1. Well(Idle) /\ Achieved(Idle)
    BY IdleIs DEF Achieved
  <1> QED
    BY <1>1, RolesQuiet DEF End

\* A handler that finds its role, or counts the users of one it is to delete.
LEMMA FindKeeps ==
  ASSUME RolesInv, NEW t \in Tasks, CreateReads(t) \/ FindRole(t) \/ CountUsers(t)
  PROVE  RolesInv'
  <1>1. PICK w : w = task[t]
    OBVIOUS
  <1>2. /\ task = [q \in Tasks |-> task[q]] /\ Well(w) /\ Achieved(w)
        /\ UNCHANGED <<gone, userRole, rolePerm, overlapped>>
    BY <1>1 DEF RolesInv, CreateReads, FindRole, CountUsers, rbac
  <1>3. {"op", "pc", "role"} \subseteq DOMAIN w
    BY <1>2 DEF Well
  <1>4. CASE CreateReads(t)
    <2>1. PICK v : v = [w EXCEPT !.pc = "found"]
      OBVIOUS
    <2>2. task' = [task EXCEPT ![t] = v] /\ w.op = "create"
      BY <1>1, <1>4, <2>1 DEF CreateReads, Goto, At
    <2>3. Well(v) /\ Achieved(v)
      BY <1>3, <2>1, <2>2, FieldsAre DEF Well, Achieved
    <2> QED
      BY <1>2, <2>2, <2>3, RolesQuiet
  <1>5. CASE FindRole(t)
    <2>1. PICK r \in RoleIds : /\ w.op = "delete" => r # Admin
                              /\ task' = [task EXCEPT ![t].pc = "found", ![t].role = r]
      BY <1>1, <1>5 DEF FindRole, IsSystem
    <2>2. PICK v : v = [w EXCEPT !.pc = "found", !.role = r]
      OBVIOUS
    <2>3. task' = [task EXCEPT ![t] = v]
      BY <1>1, <1>2, <2>1, <2>2
    <2>4. v.pc = "found" /\ v.op = w.op /\ v.role = r /\ {"op", "pc", "role"} \subseteq DOMAIN v
      BY <1>3, <2>2
    <2>5. Well(v) /\ Achieved(v)
      BY <2>1, <2>4 DEF Well, Achieved
    <2> QED
      BY <1>2, <2>3, <2>5, RolesQuiet
  <1>6. CASE CountUsers(t)
    <2>1. PICK v : v = [w EXCEPT !.pc = "counted"]
      OBVIOUS
    <2>2. /\ task' = [task EXCEPT ![t] = v] /\ w.op = "delete" /\ w.pc = "found"
          /\ \A u \in Users : <<u, w.role>> \notin userRole
      BY <1>1, <1>6, <2>1 DEF CountUsers, Goto, At
    <2>3. /\ v.pc = "counted" /\ v.role = w.role /\ w.role \in RoleIds \ {Admin}
          /\ {"op", "pc", "role"} \subseteq DOMAIN v
      BY <1>2, <1>3, <2>1, <2>2, FieldsAre DEF Achieved
    <2>4. Well(v) /\ Achieved(v)
      BY <2>2, <2>3 DEF Well, Achieved, NoUsers
    <2> QED
      BY <1>2, <2>2, <2>4, RolesQuiet
  <1> QED
    BY <1>4, <1>5, <1>6

LEMMA UnlinkKeeps ==
  ASSUME RolesInv, NEW t \in Tasks, UnlinkRole(t)
  PROVE  RolesInv'
  <1>1. PICK w : w = [task[t] EXCEPT !.pc = "unlinked"]
    OBVIOUS
  <1>a. w.op = "delete" /\ w.pc = "unlinked" /\ w.role = task[t].role
        /\ {"op", "pc", "role"} \subseteq DOMAIN w
    BY <1>1, FieldsAre DEF UnlinkRole, At, RolesInv, Well
  <1>2. /\ task' = [task EXCEPT ![t] = w] /\ w.role \in RoleIds \ {Admin} /\ NoUsers(w.role)
        /\ rolePerm' = {rp \in rolePerm : rp[1] # w.role}
        /\ UNCHANGED <<gone, userRole, overlapped>>
    BY <1>1, <1>a DEF UnlinkRole, Goto, At, RolesInv, Achieved
  <1>3. /\ NoUsers(w.role)' /\ NoPerms(w.role)'
        /\ \A r : (NoUsers(r) => NoUsers(r)') /\ (NoPerms(r) => NoPerms(r)')
    BY <1>2 DEF NoUsers, NoPerms
  <1>4. Well(w) /\ Achieved(w)'
    BY <1>a, <1>2, <1>3 DEF Well, Achieved
  <1>5. CleanDelete' /\ gone' \subseteq RoleIds \ {Admin}
    BY <1>2 DEF CleanDelete, RolesInv
  <1> QED
    BY <1>2, <1>3, <1>4, <1>5, RolesMove

LEMMA DeleteKeeps ==
  ASSUME RolesInv, NEW t \in Tasks, DeleteRole(t)
  PROVE  RolesInv'
  <1>1. /\ End(t) /\ gone' = gone \cup {task[t].role}
        /\ UNCHANGED <<userRole, rolePerm, overlapped>>
        /\ task[t].role \in RoleIds \ {Admin} /\ NoUsers(task[t].role) /\ NoPerms(task[t].role)
    BY DEF DeleteRole, At, RolesInv, Achieved
  <1>2. CleanDelete' /\ gone' \subseteq RoleIds \ {Admin}
    BY <1>1 DEF CleanDelete, NoUsers, NoPerms, RolesInv
  <1>3. \A r : (NoUsers(r) => NoUsers(r)') /\ (NoPerms(r) => NoPerms(r)')
    BY <1>1 DEF NoUsers, NoPerms
  <1> QED
    BY <1>1, <1>2, <1>3, RolesEnd

\* A row that is written while its role is being deleted, or after, is
\* remembered as late.
LEMMA WriteKeeps ==
  ASSUME RolesInv, NEW t \in Tasks, AssignRole(t) \/ GrantPermission(t)
  PROVE  RolesInv'
  <1>1. PICK r : r = task[t].role
    OBVIOUS
  <1>2. PICK row :
          /\ End(t) /\ UNCHANGED gone
          /\ overlapped' = IF r \in gone \/ \E q \in Tasks : task[q].role = r
                                /\ task[q].op = "delete" /\ task[q].pc # "found"
                           THEN overlapped \cup {row} ELSE overlapped
          /\ \/ /\ \E x : row = <<x, r>>
                /\ userRole' = userRole \cup {row} /\ rolePerm' = rolePerm
             \/ /\ \E x : row = <<r, x>>
                /\ rolePerm' = rolePerm \cup {row} /\ userRole' = userRole
    BY <1>1, Zenon DEF AssignRole, GrantPermission, Overlap
  <1>3. /\ overlapped \subseteq overlapped'
        /\ \A s : s \in gone \/ Deleting(s) => s # r \/ row \in overlapped'
    BY <1>2 DEF Deleting
  <1>4. ASSUME NEW s, s \in gone \/ Deleting(s)
        PROVE  /\ \A u : <<u, s>> \in userRole' =>
                    <<u, s>> \in userRole \/ <<u, s>> \in overlapped'
               /\ \A p : <<s, p>> \in rolePerm' =>
                    <<s, p>> \in rolePerm \/ <<s, p>> \in overlapped'
    BY <1>2, <1>3, <1>4
  <1>5. CleanDelete'
    BY <1>2, <1>3, <1>4 DEF CleanDelete, RolesInv
  <1>6. \A s : Deleting(s) => (NoUsers(s) => NoUsers(s)') /\ (NoPerms(s) => NoPerms(s)')
    BY <1>3, <1>4 DEF NoUsers, NoPerms
  <1>7. gone' \subseteq RoleIds \ {Admin}
    BY <1>2 DEF RolesInv
  <1> QED
    BY <1>2, <1>5, <1>6, <1>7, RolesEnd

LEMMA TakeKeeps ==
  ASSUME RolesInv, NEW t \in Tasks, RemoveRole(t) \/ RevokePermission(t)
  PROVE  RolesInv'
  <1>1. /\ End(t) /\ UNCHANGED <<gone, overlapped>>
        /\ userRole' \subseteq userRole /\ rolePerm' \subseteq rolePerm
    BY DEF RemoveRole, RevokePermission
  <1>2. CleanDelete' /\ gone' \subseteq RoleIds \ {Admin}
    BY <1>1 DEF CleanDelete, RolesInv
  <1>3. \A r : (NoUsers(r) => NoUsers(r)') /\ (NoPerms(r) => NoPerms(r)')
    BY <1>1 DEF NoUsers, NoPerms
  <1> QED
    BY <1>1, <1>2, <1>3, RolesEnd

\* Where no handler of Rbac moves: bootstrap gives rows to the role that is
\* never deleted.
LEMMA RolesElsewhere ==
  ASSUME RolesInv, UNCHANGED <<task, gone, rolePerm, overlapped>>,
         \E x : userRole' \in {userRole, userRole \cup {<<x, Admin>>}}
  PROVE  RolesInv'
  <1>1. \A r \in RoleIds \ {Admin} : (NoUsers(r) => NoUsers(r)') /\ (NoPerms(r) => NoPerms(r)')
    BY DEF NoUsers, NoPerms
  <1>2. CleanDelete' /\ gone' \subseteq RoleIds \ {Admin}
    BY DEF CleanDelete, RolesInv
  <1>3. ASSUME NEW t \in Tasks, NEW w, w = task[t] PROVE Well(w) /\ Achieved(w)'
    BY <1>1, <1>3 DEF RolesInv, Achieved
  <1>4. \A t \in Tasks : Well(task[t])' /\ Achieved(task[t])'
    BY <1>3 DEF Well, Achieved
  <1> QED
    BY <1>2, <1>4 DEF RolesInv

LEMMA RolesStep == RolesInv /\ [Next]_vars => RolesInv'
  <1> SUFFICES ASSUME RolesInv, [Next]_vars PROVE RolesInv'
    OBVIOUS
  <1>1. CASE UNCHANGED vars
    BY <1>1, RolesElsewhere DEF vars, rbacVars, rbac
  <1>2. ASSUME NEW u \in Users, OpenRegister(u) PROVE RolesInv'
    BY <1>2, RolesElsewhere DEF OpenRegister, rbac
  <1>3. ASSUME NEW t \in Tasks, RbacStep(t) PROVE RolesInv'
    <2>1. CASE StorePermission(t) \/ StoreRole(t) \/ Stop(t)
      BY <2>1, QuietEnd DEF StorePermission, StoreRole, Stop, rbac
    <2> QED
      BY <1>3, <2>1, StartsKeep, FindKeeps, UnlinkKeeps, DeleteKeeps, WriteKeeps, TakeKeeps
      DEF RbacStep
  <1>4. ASSUME NEW b \in Boots,
               (\E e \in Users : BootReads(b, e)) \/ BootStep(b) \/ BootStops(b)
        PROVE  RolesInv'
    <2>1. CASE BootAssigns(b)
      BY <2>1, RolesElsewhere DEF BootAssigns
    <2> QED
      BY <1>4, <2>1, RolesElsewhere DEF BootReads, BootStep, ClaimGate, ResumeClaim,
         BootRegisters, ReleaseClaim, MarkRolePending, FinishClaim, BootStops, rbacVars, rbac
  <1> QED
    BY <1>1, <1>2, <1>3, <1>4 DEF Next

\* delete_role: a deleted role is named by no row except those that requests
\* wrote after the deletion had looked for users.
THEOREM CleanDeleteHolds == Spec => []CleanDelete
  <1>1. RolesInv => CleanDelete
    BY DEF RolesInv
  <1> QED
    BY <1>1, RolesInit, RolesStep, PTL DEF Spec
=============================================================================
