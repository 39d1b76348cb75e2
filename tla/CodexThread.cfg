CONSTANTS
  c1 = c1  c2 = c2  u1 = u1  d1 = d1
  Calls = {c1, c2}
  Reports = {u1, d1}
  Declines = {d1}
  Requests <- Every
  Failures = {"interrupted"}
  Unreadable = {"turn/completed"}
  MaxRounds = 2
  MaxTurns = 1
  MaxReports = 1
  MaxWire = 2
SPECIFICATION Spec
SYMMETRY Alike
INVARIANTS EndsOnce ReportsConserved CallsHeld BatchHasTimer
CHECK_DEADLOCK FALSE
