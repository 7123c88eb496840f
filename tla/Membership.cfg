SPECIFICATION Spec
CONSTANTS
  Tenants = {t1, t2}
  Groups = {g1}
  Users = {u1}
  Roles = {x1}
  Codes = {c1}
  Requests = {r1, r2}
  None = None
  MaxInFlight = 2
  Handlers = {"createGroup", "updateGroup", "deleteGroup", "addMember", "removeMember", "assignGroupRole", "revokeGroupRole", "assignUserRole", "revokeUserRole", "updateRole", "deleteRole", "deleteUser"}
SYMMETRY MCSymmetry
\* every call of the instance has been made and answered: the system may stop
CHECK_DEADLOCK FALSE
INVARIANT IInv
INVARIANT TenantIsolation
INVARIANT AuditedDeletionIsComplete
INVARIANT DuplicatesAreRefused
PROPERTY ScopedChangesOwnTenant
PROPERTY AccessGrowsWhenAsked
