SPECIFICATION FairSpec
CONSTANTS
  r1 = r1
  r2 = r2
  r3 = r3
  c1 = c1
  c2 = c2
  Rounds = {r1, r2}
  Conversations = {c1, c2}
  Entries = {e1, e2}
  Units = {}
  Requests <- OneEach
  MaxWarm = 1
  IdleLimit = 0
  TombstoneTTL = 5
  MaxTime = 0
  Impatient = {r1, r2}
  Sweeper = Sweeper
  Free = Free
  None = None
INVARIANTS
  WithinLimit
  SessionStaysWithRound
  NothingWarmAfterClose
PROPERTIES
  ImplementsWarmPool
  EveryRoundReturns
CHECK_DEADLOCK FALSE
