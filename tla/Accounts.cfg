SPECIFICATION Spec
CONSTANTS
  Tenants = {t1, t2}
  Users = {u1}
  Usernames = {n1, n2}
  Words = {w1, w2}
  Codes = {c1, c2}
  Limits = {1}
  ApiRoles = {"ADMIN"}
  Requests = {r1, r2}
  None = None
  MaxInFlight = 2
  Handlers = {"createUser", "updateUser", "deleteUser", "register", "createTenant", "updateTenant", "deleteTenant"}
SYMMETRY MCSymmetry
\* every call of the instance has been made and answered: the system may stop
CHECK_DEADLOCK FALSE
INVARIANT IInv
INVARIANT SeatsBounded
PROPERTY NamesStayDistinct
PROPERTY ConflictsExplained
PROPERTY ReportedRoleIsStored
PROPERTY DeletedIsFinal
