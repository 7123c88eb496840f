SPECIFICATION Spec
CONSTANTS
  Tenants = {t1, t2}
  Requests = {r1, r2, r3, r4}
  Codes = {c1, c2, c3}
  None = None
  MaxBranches = 2
  MaxInFlight = 2
  StatusChoices = {"INACTIVE"}
  Handlers = {"create", "update", "updateStatus", "delete"}
SYMMETRY MCSymmetry
\* every call of the instance has been made and answered: the system may stop
CHECK_DEADLOCK FALSE
INVARIANT IInv
INVARIANT HeadquartersBounded
INVARIANT LimitBounded
INVARIANT CodeIdentifies
PROPERTY DeletionOrder
