SPECIFICATION Spec
CONSTANTS
  None = None
  Users = {u1}
  Admin = admin
  RoleIds = {admin, r1, r2}
  Names = {admin, editor}
  Seeded = {"roles.write", "roles.delete", "permissions.write"}
  Custom = {"reports.read"}
  Grantable = {"reports.read"}
  Tasks = {t1, t2}
  Ops = {"create", "delete", "assign", "remove", "grant", "revoke", "permit"}
  Boots = {b1}
  MaxFaults = 0
SYMMETRY Symmetric
INVARIANT CleanDelete
CHECK_DEADLOCK FALSE
