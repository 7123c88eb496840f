SPECIFICATION Spec
CONSTANTS
  Users = {u1, u2}
  Requests = {r1, r2, r3}
  Passwords = {p1, p2}
  None = None
  MaxFailedAttempts = 2
  LockoutDuration = 1
  AccessTtl = 1
  RefreshTtl = 2
  MaxTime = 1
  MaxInFlight = 2
  StatusChoices = {"ACTIVE", "LOCKED"}
  Handlers = {"login", "refresh", "logout", "changePassword", "update", "updateStatus", "bulkUpdateStatus", "resetPassword", "delete", "terminateSession", "terminateAllSessions"}
SYMMETRY MCSymmetry
\* every call of the instance has been made and answered: the system may stop
CHECK_DEADLOCK FALSE
\* requests overlap, but not two on one account
CONSTRAINT Apart
INVARIANT SessionsMatchPassword
INVARIANT DeactivatedHaveNoSessions
INVARIANT FailedLoginsLock
