CONSTANTS
  Commands = {s1, p1}
  Acked = {s1}
  Calls = {k1}
  Polls = {q1, q2}
  Overlap = FALSE
  Capacity = 1
  MaxLosses = 2
SPECIFICATION FairSpec
INVARIANT AckedMeansRun
PROPERTIES EachRunsOnceInOrder ResultsArrive
CHECK_DEADLOCK FALSE
