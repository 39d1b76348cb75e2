SPECIFICATION FairSpec
CONSTANTS
  o1 = o1
  o2 = o2
  o3 = o3
  s1 = s1
  Ops = {o1, o2}
  Sessions = {s1}
  Calls = {c1}
  Requests <- OneSession
  Pool = 1
  SendDepth = 1
  MaxStreams = 1
  MaxAnswers = 2
  Deregister = Deregister
  None = None
INVARIANTS
  NoSlotLeaked
  DeliverNeverBlocks
  NoCallLeftPending
PROPERTY EveryOperationEnds
CHECK_DEADLOCK FALSE
