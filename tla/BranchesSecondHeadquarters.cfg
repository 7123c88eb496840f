SPECIFICATION Spec
CONSTANTS
  Tenants = {t1}
  Requests = {r1, r2}
  Codes = {c1, c2}
  None = None
  MaxBranches = 2
  MaxInFlight = 2
  StatusChoices = {"ACTIVE", "INACTIVE"}
  Handlers = {"create", "update", "updateStatus", "delete"}
SYMMETRY MCSymmetry
\* every call of the instance has been made and answered: the system may stop
CHECK_DEADLOCK FALSE
INVARIANT OneHeadquarters
