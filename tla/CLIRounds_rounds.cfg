SPECIFICATION Spec
CONSTANTS
  r1 = r1
  r2 = r2
  r3 = r3
  c1 = c1
  c2 = c2
  Rounds = {r1, r2, r3}
  Conversations = {c1}
  Entries = {e1, e2}
  Units = {u1}
  Requests <- OldAndNewAgain
  MaxWarm = 1
  IdleLimit = 0
  TombstoneTTL = 0
  MaxTime = 1
  Impatient = {}
  Sweeper = Sweeper
  Free = Free
  None = None
INVARIANTS
  DeliveredInFenceOrder
  NeverBilledTwice
  OneRoundPerConversation
  SessionStaysWithRound
  UsageKept
  NoSlotLeaked
CHECK_DEADLOCK FALSE
