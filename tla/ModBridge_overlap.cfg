CONSTANTS
  Commands = {s1, p1}
  Acked = {s1}
  Calls = {k1}
  Polls = {q1, q2}
  Overlap = TRUE
  Capacity = 2
  MaxLosses = 2
SPECIFICATION Spec
PROPERTY EachRunsOnceInOrder
CHECK_DEADLOCK FALSE
