SPECIFICATION FairSpec
CONSTANTS
  o1 = o1
  o2 = o2
  o3 = o3
  s1 = s1
  Ops = {o1, o2}
  Sessions = {s1}
  Calls = {}
  Requests <- OneSession
  Pool = 1
  SendDepth = 1
  MaxStreams = 1
  MaxAnswers = 1
  Deregister = Deregister
  None = None
PROPERTY StopsOnSignal
CHECK_DEADLOCK FALSE
