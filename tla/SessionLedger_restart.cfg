SPECIFICATION Spec
CONSTANTS
  o1 = o1
  o2 = o2
  o3 = o3
  s1 = s1
  Ops = {o1, o2, o3}
  Sessions = {s1}
  Generations = {1, 2}
  Requests <- TwoCommands
  TTL = 0
  MaxTime = 2
  MaxRestarts = 1
  Sweeper = Sweeper
  Free = Free
  Never = Never
PROPERTY NeverTornOut
CHECK_DEADLOCK FALSE
