SPECIFICATION FairSpec
CONSTANTS
  None = None
  Users = {u1, u2, u3}
  Admin = admin
  RoleIds = {admin}
  Names = {admin}
  Seeded = {"roles.write", "roles.delete", "permissions.write"}
  Custom = {}
  Grantable = {}
  Ops = {"assign", "remove"}
  Tasks = {t1}
  Boots = {b1, b2}
  MaxFaults = 2
INVARIANT OneBootstrapAdmin
INVARIANT BootstrapGrantsOwn
PROPERTY PendingResumes
CHECK_DEADLOCK FALSE
