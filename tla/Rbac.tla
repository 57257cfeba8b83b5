-------------------------------- MODULE Rbac --------------------------------
(***************************************************************************)
(* Roles and permissions: services/rbac.rs behind routes/rbac.rs and the   *)
(* macro require_permission of utils/permission_middleware.rs.             *)
(*                                                                         *)
(* A role has an identifier that is never used again and a name that may   *)
(* be; handlers look a role up by name and write rows by identifier.       *)
(* Every await on the database ends a step, and any statement may fail or  *)
(* its request be dropped, so a handler may stop between any two of them.  *)
(* update_role changes what a role is called on screen and is left out.    *)
(***************************************************************************)
EXTENDS Naturals, FiniteSets

CONSTANTS
  Users,      \* accounts, each with its email and its identity root
  RoleIds,    \* record keys of role
  Admin,      \* role:admin, seeded by initial_data.sql and a system role
  Names,      \* names an administrator gives to roles
  Seeded,     \* permissions of initial_data.sql that this instance tells apart
  Custom,     \* permissions administrators create
  Grantable,  \* permissions requests add to and remove from roles
  Tasks,      \* slots for handlers in flight
  Ops,        \* the operations administrators ask for
  None

Perms == Seeded \cup Custom
RbacOps == {"create", "delete", "assign", "remove", "grant", "revoke", "permit"}

ASSUME RbacAssumption ==
  /\ Admin \in RoleIds \cap Names
  /\ {"roles.write", "roles.delete", "permissions.write"} \subseteq Seeded
  /\ Grantable \subseteq Perms
  /\ Ops \subseteq RbacOps
  /\ None \notin Users \cup RoleIds \cup Names \cup Perms

VARIABLES
  users,       \* accounts that exist
  role,        \* role: the name of each row, None where there is no row
  gone,        \* identifiers of deleted roles
  perms,       \* permission
  userRole,    \* user_role
  rolePerm,    \* role_permission
  overlapped,  \* history: rows that were written while or after their role was
               \* deleted
  task

rbac == <<role, gone, perms, userRole, rolePerm, overlapped>>
rbacVars == <<users, rbac, task>>

Task == [op : RbacOps \cup {"idle"},
         pc : {"idle", "permitted", "found", "counted", "unlinked"},
         name : Names \cup {None}, user : Users \cup {None},
         perm : Perms \cup {None}, role : RoleIds \cup {None}]
Idle == [op |-> "idle", pc |-> "idle", name |-> None, user |-> None,
         perm |-> None, role |-> None]

RbacTypeOK ==
  /\ users \subseteq Users
  /\ role \in [RoleIds -> Names \cup {None}]
  /\ gone \subseteq {r \in RoleIds : role[r] = None}
  /\ Seeded \subseteq perms /\ perms \subseteq Perms
  /\ userRole \subseteq users \X RoleIds
  /\ rolePerm \subseteq RoleIds \X perms
  /\ overlapped \subseteq (Users \X RoleIds) \cup (RoleIds \X Perms)
  /\ task \in [Tasks -> Task]

RbacInit ==
  /\ users = {}
  /\ role = [r \in RoleIds |-> IF r = Admin THEN Admin ELSE None]
  /\ gone = {} /\ overlapped = {}
  /\ perms = Seeded
  /\ userRole = {}
  /\ rolePerm = {Admin} \X Seeded
  /\ task = [t \in Tasks |-> Idle]

At(t, op, pc) == task[t].op = op /\ task[t].pc = pc
Goto(t, pc) == task' = [task EXCEPT ![t].pc = pc]
End(t) == task' = [task EXCEPT ![t] = Idle]
IsSystem(r) == r = Admin
Live(r) == role[r] # None

\* check_user_permission: one query over user_role, role_permission and
\* permission.  It joins on identifiers and never looks at role.
HasPermission(u, p) == \E r \in RoleIds : <<u, r>> \in userRole /\ <<r, p>> \in rolePerm

----------------------------------------------------------------------------
(* Accounts and permissions come into being.                               *)

\* Registration is open to everyone; AccountLifecycle has the accounts.
OpenRegister(u) ==
  /\ u \notin users
  /\ users' = users \cup {u}
  /\ UNCHANGED <<rbac, task>>

\* require_permission!: the caller's permission is read once, first of all.
Permitted(t, perm, request) ==
  /\ request.op \in Ops
  /\ task[t] = Idle
  /\ \E by \in users : HasPermission(by, perm)
  /\ task' = [task EXCEPT ![t] = request]
  /\ UNCHANGED <<users, rbac>>

Request(op) == [Idle EXCEPT !.op = op, !.pc = "permitted"]

\* The handlers of routes/rbac.rs that change something.
StartCreateRole(t) == \E n \in Names \ {Admin} :
  Permitted(t, "roles.write", [Request("create") EXCEPT !.name = n])
StartDeleteRole(t) == \E n \in Names :
  Permitted(t, "roles.delete", [Request("delete") EXCEPT !.name = n])
StartCreatePermission(t) == \E p \in Custom :
  Permitted(t, "permissions.write", [Request("permit") EXCEPT !.perm = p])
StartAssignRole(t) == \E n \in Names, u \in users :
  Permitted(t, "roles.write", [Request("assign") EXCEPT !.name = n, !.user = u])
StartRemoveRole(t) == \E n \in Names, u \in users :
  Permitted(t, "roles.write", [Request("remove") EXCEPT !.name = n, !.user = u])
StartGrantPermission(t) == \E n \in Names, p \in Grantable :
  Permitted(t, "permissions.write", [Request("grant") EXCEPT !.name = n, !.perm = p])
StartRevokePermission(t) == \E n \in Names, p \in Grantable :
  Permitted(t, "permissions.write", [Request("revoke") EXCEPT !.name = n, !.perm = p])

\* create_permission: reads the name and inserts; the index on the name
\* makes a second insert fail, so one step does for both.
StorePermission(t) ==
  /\ At(t, "permit", "permitted")
  /\ perms' = perms \cup {task[t].perm}
  /\ End(t)
  /\ UNCHANGED <<users, role, gone, userRole, rolePerm, overlapped>>

----------------------------------------------------------------------------
(* Roles.                                                                  *)

\* create_role: the name is free when it is read.
CreateReads(t) ==
  /\ At(t, "create", "permitted")
  /\ \A r \in RoleIds : role[r] # task[t].name
  /\ Goto(t, "found")
  /\ UNCHANGED <<users, rbac>>

\* create_role: the insert, which the unique index on the name may refuse.
StoreRole(t) ==
  /\ At(t, "create", "found")
  /\ \A r \in RoleIds : role[r] # task[t].name
  /\ \E r \in RoleIds \ gone :
       ~Live(r) /\ role' = [role EXCEPT ![r] = task[t].name]
  /\ End(t)
  /\ UNCHANGED <<users, gone, perms, userRole, rolePerm, overlapped>>

\* get_role_by_name, in every handler that works on an existing role.  A
\* system role may be assigned and changed, and not be deleted.
FindRole(t) ==
  /\ task[t].op \in {"delete", "assign", "remove", "grant", "revoke"}
  /\ task[t].pc = "permitted"
  /\ \E r \in RoleIds :
       /\ role[r] = task[t].name
       /\ task[t].op = "delete" => ~IsSystem(r)
       /\ task' = [task EXCEPT ![t].pc = "found", ![t].role = r]
  /\ UNCHANGED <<users, rbac>>

\* Mutant of CountUsers: a role that users have passes for unused.
CountNobody(t) ==
  /\ At(t, "delete", "found")
  /\ Goto(t, "counted")
  /\ UNCHANGED <<users, rbac>>

\* delete_role refuses a role that some user has.
CountUsers(t) ==
  /\ At(t, "delete", "found")
  /\ \A u \in Users : <<u, task[t].role>> \notin userRole
  /\ Goto(t, "counted")
  /\ UNCHANGED <<users, rbac>>

\* delete_role: DELETE FROM role_permission.
UnlinkRole(t) ==
  /\ At(t, "delete", "counted")
  /\ rolePerm' = {rp \in rolePerm : rp[1] # task[t].role}
  /\ Goto(t, "unlinked")
  /\ UNCHANGED <<users, role, gone, perms, userRole, overlapped>>

\* delete_role: DELETE role.
DeleteRole(t) ==
  /\ At(t, "delete", "unlinked")
  /\ role' = [role EXCEPT ![task[t].role] = None]
  /\ gone' = gone \cup {task[t].role}
  /\ End(t)
  /\ UNCHANGED <<users, perms, userRole, rolePerm, overlapped>>

----------------------------------------------------------------------------
(* Who has which role, and what a role may do.                             *)

\* History: a row for r, written now, comes too late for a delete of r.
Overlap(row, r) ==
  overlapped' = IF r \in gone \/ \E t \in Tasks : task[t].role = r
                                   /\ task[t].op = "delete" /\ task[t].pc # "found"
                THEN overlapped \cup {row} ELSE overlapped

\* assign_role: the check for an existing row and the insert are one step,
\* for the unique index makes the insert fail where the check would have.
AssignRole(t) ==
  /\ At(t, "assign", "found")
  /\ <<task[t].user, task[t].role>> \notin userRole
  /\ userRole' = userRole \cup {<<task[t].user, task[t].role>>}
  /\ Overlap(<<task[t].user, task[t].role>>, task[t].role)
  /\ End(t)
  /\ UNCHANGED <<users, role, gone, perms, rolePerm>>

\* remove_role_from_user: nothing keeps the last administrator.
RemoveRole(t) ==
  /\ At(t, "remove", "found")
  /\ userRole' = userRole \ {<<task[t].user, task[t].role>>}
  /\ End(t)
  /\ UNCHANGED <<users, role, gone, perms, rolePerm, overlapped>>

\* assign_permission_to_role: as AssignRole, and the permission must exist.
GrantPermission(t) ==
  /\ At(t, "grant", "found")
  /\ task[t].perm \in perms
  /\ <<task[t].role, task[t].perm>> \notin rolePerm
  /\ rolePerm' = rolePerm \cup {<<task[t].role, task[t].perm>>}
  /\ Overlap(<<task[t].role, task[t].perm>>, task[t].role)
  /\ End(t)
  /\ UNCHANGED <<users, role, gone, perms, userRole>>

\* remove_permission_from_role.
RevokePermission(t) ==
  /\ At(t, "revoke", "found")
  /\ task[t].perm \in perms
  /\ rolePerm' = rolePerm \ {<<task[t].role, task[t].perm>>}
  /\ End(t)
  /\ UNCHANGED <<users, role, gone, perms, userRole, overlapped>>

\* A lookup that finds nothing, a refused or failed statement, a request
\* that is dropped: the handler ends where it is.
Stop(t) ==
  /\ task[t] # Idle
  /\ End(t)
  /\ UNCHANGED <<users, rbac>>

RbacStep(t) ==
  \/ StartCreateRole(t) \/ StartDeleteRole(t) \/ StartCreatePermission(t)
  \/ StartAssignRole(t) \/ StartRemoveRole(t)
  \/ StartGrantPermission(t) \/ StartRevokePermission(t)
  \/ StorePermission(t) \/ CreateReads(t) \/ StoreRole(t) \/ FindRole(t)
  \/ CountUsers(t) \/ UnlinkRole(t) \/ DeleteRole(t)
  \/ AssignRole(t) \/ RemoveRole(t) \/ GrantPermission(t) \/ RevokePermission(t)
  \/ Stop(t)

----------------------------------------------------------------------------
(* Properties.                                                             *)

\* delete_role leaves no row behind that names the role: one that is left was
\* itself written, by a request that had found the role before, after the
\* deletion looked for users.  So one such request by itself gives nobody a
\* permission through a deleted role: both the assignment and the grant would
\* have to be that late.
CleanDelete ==
  \A r \in gone :
    /\ \A u \in Users : <<u, r>> \in userRole => <<u, r>> \in overlapped
    /\ \A p \in Perms : <<r, p>> \in rolePerm => <<r, p>> \in overlapped

\* Not kept: nobody has a permission through a role that is deleted.  An
\* assignment and a grant that both found the role before delete_role looked
\* for its users write their rows after it, and check_user_permission never
\* asks whether the role still exists.
NoGhostPermission ==
  \A r \in gone : ~\E u \in Users, p \in Perms :
    <<u, r>> \in userRole /\ <<r, p>> \in rolePerm
=============================================================================
