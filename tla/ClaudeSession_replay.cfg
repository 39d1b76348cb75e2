CONSTANTS
  Window = 2
  Strays = TRUE
  Reasons <- AllReasons
  MaxRounds = 3
  MaxSteps = 2
SPECIFICATION Spec
INVARIANT ReplayedInOrder
CHECK_DEADLOCK FALSE
