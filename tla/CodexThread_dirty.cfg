CONSTANTS
  c1 = c1  c2 = c2  u1 = u1  d1 = d1
  Calls = {c1}
  Reports = {u1}
  Declines = {}
  Requests <- Every
  Failures = {"interrupted"}
  Unreadable = {"item/completed", "turn/completed"}
  MaxRounds = 2
  MaxTurns = 1
  MaxReports = 1
  MaxWire = 2
SPECIFICATION Spec
INVARIANT UnreadableIsRebuilt
CHECK_DEADLOCK FALSE
