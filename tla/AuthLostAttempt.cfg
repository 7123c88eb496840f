SPECIFICATION Spec
CONSTANTS
  Users = {u1}
  Requests = {r1, r2}
  Passwords = {p1, p2}
  None = None
  MaxFailedAttempts = 2
  LockoutDuration = 1
  AccessTtl = 1
  RefreshTtl = 2
  MaxTime = 0
  MaxInFlight = 2
  StatusChoices = {"LOCKED"}
  Handlers = {"login"}
SYMMETRY MCSymmetry
\* every call of the instance has been made and answered: the system may stop
CHECK_DEADLOCK FALSE
INVARIANT FailedLoginsLock
