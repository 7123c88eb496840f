SPECIFICATION Spec
CONSTANTS
  Users = {u1}
  Requests = {r1, r2, r3, r4}
  Passwords = {p1, p2}
  None = None
  MaxFailedAttempts = 2
  LockoutDuration = 1
  AccessTtl = 1
  RefreshTtl = 1
  MaxTime = 1
  MaxInFlight = 3
  StatusChoices = {"LOCKED"}
  Handlers = {"login", "refresh", "logout", "terminateSession", "terminateAllSessions"}
SYMMETRY MCSymmetry
\* every call of the instance has been made and answered: the system may stop
CHECK_DEADLOCK FALSE
INVARIANT TokenRotatesOnce
INVARIANT IInv
INVARIANT OneLiveSessionPerLogin
INVARIANT LoginAuditedFirst
PROPERTY RevocationIsFinal
PROPERTY ImplementsLedger
