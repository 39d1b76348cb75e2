CONSTANTS
  c1 = c1  c2 = c2  u1 = u1  d1 = d1
  Calls = {c1}
  Reports = {u1, d1}
  Declines = {d1}
  Requests <- Every
  Failures = {"interrupted"}
  Unreadable = {"turn/completed"}
  MaxRounds = 2
  MaxTurns = 1
  MaxReports = 2
  MaxWire = 2
SPECIFICATION Spec
INVARIANT ReportsConserved
CHECK_DEADLOCK FALSE
