------------------------------ MODULE Bootstrap ------------------------------
(***************************************************************************)
(* The first administrator: routes/bootstrap.rs, composed with Rbac, whose *)
(* handlers need an administrator and may later remove the last one.       *)
(*                                                                         *)
(* Requests carry the right token: one with a wrong token is refused after *)
(* the first read and changes nothing.  A statement may fail without       *)
(* effect, or take effect and be answered with an error; and a handler may *)
(* stop between any two steps, because the process dies or because its     *)
(* client hangs up.  Each of these is a fault, and MaxFaults bounds them.  *)
(* An email is its account: the email of an account has a unique index.    *)
(***************************************************************************)
EXTENDS Rbac

CONSTANTS Boots, MaxFaults

ASSUME BootstrapAssumption == MaxFaults \in Nat

VARIABLES
  claim,    \* bootstrap_claim:singleton
  boot,     \* requests to bootstrap_admin in flight
  made,     \* history: accounts that bootstrap requests registered
  granted,  \* history: accounts bootstrap has granted admin
  grants,   \* history: how often it has, counted up to two
  faults

bootVars == <<claim, boot, made, granted, grants, faults>>
vars == <<rbacVars, bootVars>>

Claim == [stage : {"none", "claiming", "role_pending", "done"},
          email : Users \cup {None}, user : Users \cup {None}]
NoClaim == [stage |-> "none", email |-> None, user |-> None]
Boot == [pc : {"idle", "claim", "register", "release", "mark", "assign", "finish"},
         email : Users \cup {None}, user : Users \cup {None}]
NoBoot == [pc |-> "idle", email |-> None, user |-> None]

TypeOK ==
  /\ RbacTypeOK
  /\ claim \in Claim
  /\ boot \in [Boots -> Boot]
  /\ made \subseteq users /\ granted \subseteq users
  /\ grants \in 0..2
  /\ faults \in 0..MaxFaults

Init ==
  /\ RbacInit
  /\ claim = NoClaim
  /\ boot = [b \in Boots |-> NoBoot]
  /\ made = {} /\ granted = {} /\ grants = 0
  /\ faults = 0

AdminExists == \E u \in Users : <<u, Admin>> \in userRole

BootAt(b, pc) == boot[b].pc = pc
BootTo(b, pc) == boot' = [boot EXCEPT ![b].pc = pc]
BootEnd(b) == boot' = [boot EXCEPT ![b] = NoBoot]
NoFault == faults' = faults
Fault == faults < MaxFaults /\ faults' = faults + 1

----------------------------------------------------------------------------
(* bootstrap_admin.                                                        *)

\* (1) admin_exists: a request goes on only while nobody is an administrator.
BootReads(b, e) ==
  /\ boot[b] = NoBoot
  /\ ~AdminExists
  /\ boot' = [boot EXCEPT ![b] = [pc |-> "claim", email |-> e, user |-> None]]
  /\ UNCHANGED <<rbacVars, claim, made, granted, grants, faults>>

\* Mutant of ClaimGate: the claim is written whether or not there is one.
ClaimAnyway(b) ==
  /\ BootAt(b, "claim")
  /\ claim' = [stage |-> "claiming", email |-> boot[b].email, user |-> None]
  /\ BootTo(b, "register") /\ NoFault
  /\ UNCHANGED <<rbacVars, made, granted, grants>>

\* (3) claim_bootstrap: CREATE of the singleton.  After an error the row is
\* read, and a row in stage claiming, its own included, is no way in.
ClaimGate(b) ==
  /\ BootAt(b, "claim")
  /\ claim = NoClaim
  /\ LET mine == [stage |-> "claiming", email |-> boot[b].email, user |-> None] IN
       \/ claim' = mine /\ BootTo(b, "register") /\ NoFault
       \/ claim' \in {mine, NoClaim} /\ BootEnd(b) /\ Fault
  /\ UNCHANGED <<rbacVars, made, granted, grants>>

\* Mutant of ResumeClaim: the account is looked up by the email of the claim.
ResumeByEmail(b) ==
  /\ BootAt(b, "claim")
  /\ claim # NoClaim
  /\ IF claim.email = boot[b].email /\ boot[b].email \in users
     THEN boot' = [boot EXCEPT ![b].pc = "assign", ![b].user = boot[b].email]
     ELSE BootEnd(b)
  /\ UNCHANGED <<rbacVars, claim, made, granted, grants, faults>>

\* Mutant of ResumeClaim: a gate that is taken is never resumed.
NeverResume(b) ==
  /\ BootAt(b, "claim")
  /\ claim # NoClaim
  /\ BootEnd(b)
  /\ UNCHANGED <<rbacVars, claim, made, granted, grants, faults>>

\* claim_bootstrap on a gate that is taken: a request with the same email
\* resumes at the grant, for the account that the claim records.
ResumeClaim(b) ==
  /\ BootAt(b, "claim")
  /\ claim # NoClaim
  /\ IF /\ claim.stage = "role_pending"
        /\ claim.email = boot[b].email
        /\ claim.user # None
     THEN boot' = [boot EXCEPT ![b].pc = "assign", ![b].user = claim.user]
     ELSE BootEnd(b)
  /\ UNCHANGED <<rbacVars, claim, made, granted, grants, faults>>

\* (4) register succeeds, or finds the email taken, or fails before or after
\* the transaction that creates the account.
BootRegisters(b) ==
  /\ BootAt(b, "register")
  /\ LET e == boot[b].email
         create == users' = users \cup {e} /\ made' = made \cup {e}
         nothing == UNCHANGED <<users, made>> IN
       \/ /\ e \notin users /\ create /\ NoFault
          /\ boot' = [boot EXCEPT ![b].pc = "mark", ![b].user = e]
       \/ e \in users /\ nothing /\ BootTo(b, "release") /\ NoFault
       \/ e \notin users /\ (create \/ nothing) /\ BootTo(b, "release") /\ Fault
  /\ UNCHANGED <<rbac, task, claim, granted, grants>>

\* release_bootstrap: a failure is only logged.
ReleaseClaim(b) ==
  /\ BootAt(b, "release")
  /\ \/ claim' = NoClaim /\ NoFault
     \/ claim' = claim /\ Fault
  /\ BootEnd(b)
  /\ UNCHANGED <<rbacVars, made, granted, grants>>

\* mark_role_pending: a failure is only logged, and the request goes on.
MarkRolePending(b) ==
  /\ BootAt(b, "mark")
  /\ \/ /\ claim' = [claim EXCEPT !.stage = "role_pending", !.user = boot[b].user]
        /\ NoFault
     \/ claim' = claim /\ Fault
  /\ BootTo(b, "assign")
  /\ UNCHANGED <<rbacVars, made, granted, grants>>

\* (5) assign_role_as_system.  The role and the account exist for good, so
\* one step does for its reads and the insert; a second grant is an error.
BootAssigns(b) ==
  /\ BootAt(b, "assign")
  /\ LET row == <<boot[b].user, Admin>>
         grant == /\ userRole' = userRole \cup {row}
                  /\ granted' = granted \cup {boot[b].user}
                  /\ grants' = IF grants = 0 THEN 1 ELSE 2
         nothing == UNCHANGED <<userRole, granted, grants>> IN
       \/ row \notin userRole /\ grant /\ BootTo(b, "finish") /\ NoFault
       \/ row \in userRole /\ nothing /\ BootEnd(b) /\ NoFault
       \/ row \notin userRole /\ (grant \/ nothing) /\ BootEnd(b) /\ Fault
  /\ UNCHANGED <<users, role, gone, perms, rolePerm, overlapped, task, claim, made>>

\* finish_bootstrap: a failure is only logged.
FinishClaim(b) ==
  /\ BootAt(b, "finish")
  /\ \/ claim' = [claim EXCEPT !.stage = "done"] /\ NoFault
     \/ claim' = claim /\ Fault
  /\ BootEnd(b)
  /\ UNCHANGED <<rbacVars, made, granted, grants>>

BootStep(b) ==
  \/ ClaimGate(b) \/ ResumeClaim(b) \/ BootRegisters(b) \/ ReleaseClaim(b)
  \/ MarkRolePending(b) \/ BootAssigns(b) \/ FinishClaim(b)

\* The process dies, or the client hangs up and axum drops the handler.
BootStops(b) ==
  /\ boot[b] # NoBoot
  /\ BootEnd(b) /\ Fault
  /\ UNCHANGED <<rbacVars, claim, made, granted, grants>>

Next ==
  \/ (\/ \E u \in Users : OpenRegister(u)
      \/ \E t \in Tasks : RbacStep(t)) /\ UNCHANGED bootVars
  \/ \E b \in Boots : \/ \E e \in Users : BootReads(b, e)
                      \/ BootStep(b)
                      \/ BootStops(b)

Spec == Init /\ [][Next]_vars

\* A request that runs is scheduled, and the operator sends the request again
\* with the email of the claim.  The retry is strongly fair because slots are
\* a bound of this model: other requests fill them again and again, and the
\* server has room for one more.
Retry == \E b \in Boots : BootReads(b, claim.email)
FairSpec ==
  /\ Spec
  /\ \A b \in Boots : WF_vars(BootStep(b))
  /\ SF_vars(Retry)

----------------------------------------------------------------------------
(* Properties.                                                             *)

\* Bootstrap makes at most one account an administrator, whatever requests
\* race, fail, are dropped and are retried (claim_bootstrap is the arbiter).
OneBootstrapAdmin == Cardinality(granted) <= 1

\* Bootstrap only grants admin to an account that a bootstrap request has
\* registered: somebody who registers the operator's address first, at any
\* moment, never gets the role (routes/bootstrap.rs claim_bootstrap).
BootstrapGrantsOwn == granted \subseteq made

\* Once the claim records the account, an operator who keeps sending the same
\* request gets the role granted, whatever failed or was dropped on the way
\* ("Retry the same request", routes/bootstrap.rs bootstrap_admin).
PendingResumes == claim.stage = "role_pending" ~> granted # {}

\* The gate closes permanently once an administrator exists (README.md).
ClosedForGood == grants <= 1

\* Not kept: a claim always ends in an administrator or is released.  A crash
\* after the CREATE and before mark_role_pending, or an error answered for a
\* CREATE that took effect, leaves a row in stage claiming that nothing removes.
NeverStuck == claim.stage = "claiming" ~> (claim = NoClaim \/ AdminExists)
=============================================================================
