SPECIFICATION Spec
CONSTANTS
  o1 = o1
  o2 = o2
  o3 = o3
  s1 = s1
  Ops = {o1, o2}
  Sessions = {s1}
  Calls = {c1}
  Requests <- Pairs
  Pool = 1
  SendDepth = 1
  MaxStreams = 2
  MaxAnswers = 2
  Deregister = Deregister
  None = None
INVARIANTS
  NoSlotLeaked
  DeliverNeverBlocks
  NoCallLeftPending
CHECK_DEADLOCK FALSE
