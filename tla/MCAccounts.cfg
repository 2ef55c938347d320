\* Two calls on one account's sessions, two enrolments, one requester of an export beside two
\* requests to erase, one API key, one limiter window, two anomaly scanners, two
\* purchases while the shop is edited once.
CONSTANTS
  x1 = x1  x2 = x2
  SessionCalls = {x1, x2}
  SessionTokens = {t1, t2}
  Resets = {p1}
  MaxLoginFailures = 2
  LastSecond = 2
  MaxSessionFaults = 1
  Enrolments = {n1, n2}
  Verifications = {v1, v2}
  Challenges = {h3, h4}
  CodesPerSecret = 2
  MaxExports = 1
  MaxDeletions = 2
  KYCRecords = {k1}
  Requesters = {q1}
  Erasers = {x1, x2}
  MaxErasureFaults = 1
  Keys = {k2}
  MonthlyQuota <- MCMonthlyQuota
  PlanOf <- MCPlanOf
  Scans = {s3, s4}
  LastMonth = 2
  MaxScans = 4
  WindowLimit = 2
  WindowTicks = 3
  TicksPerSecond = 2
  LastTick = 9
  Scanners = {x1, x2}
  Threshold = 2
  MaxActions = 3
  RowIds = {i1, i2}
  Users = {u1, u2}
  Lister = u2
  Purchases = {x1, x2}
  Prices = {9999, 123456}
  LastVersion = 2
  MaxOrders = 2
  MaxEdits = 1
  LastDay = 1
  DefaultDays = 1
  MaxDays = 2
SPECIFICATION Spec
CHECK_DEADLOCK FALSE
SYMMETRY Symmetry
INVARIANTS
  SessionsInv
  TwoFactorInv
  ErasureInv
  MeterInv
  AnomaliesInv
  OrdersInv
