SPECIFICATION Spec
CONSTANTS
  Modules = {m1, m2}
  SystemModules = {m2}
  SystemRoles = {sys}
  CustomRoles = {cus}
  SeedPermissions = {p1}
  Codes = {c1, c2}
  Operations = {o1}
  Tenants = {t1}
  Requests = {r1, r2}
  None = None
  MaxInFlight = 2
  Handlers = {"createModule", "updateModule", "deleteModule", "createPermission", "updatePermission", "deletePermission", "createRole", "updateRole", "deleteRole", "grant", "revoke", "batchGrant", "batchRevoke"}
SYMMETRY MCSymmetry
\* every call of the instance has been made and answered: the system may stop
CHECK_DEADLOCK FALSE
INVARIANT IInv
INVARIANT TokenMatchesListing
INVARIANT NoDanglingGrants
INVARIANT DuplicatesAreRefused
PROPERTY GrantsAreAskedFor
PROPERTY DeletedForGood
