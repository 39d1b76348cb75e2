SPECIFICATION Spec
CONSTANTS
  r1 = r1
  r2 = r2
  r3 = r3
  c1 = c1
  c2 = c2
  Rounds = {r1, r2}
  Conversations = {c1, c2}
  Entries = {e1, e2}
  Units = {}
  Requests <- OneEach
  MaxWarm = 1
  IdleLimit = 1
  TombstoneTTL = 1
  MaxTime = 0
  Impatient = {}
  Sweeper = Sweeper
  Free = Free
  None = None
PROPERTY BusyOnlyWhenNothingToEvict
CHECK_DEADLOCK FALSE
