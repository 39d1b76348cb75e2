CONSTANTS
  Window = 2
  Strays = TRUE
  Reasons <- AllReasons
  MaxRounds = 3
  MaxSteps = 2
SPECIFICATION FairSpec
INVARIANTS UsageConserved EndedByItsOwnTurn
PROPERTY EveryRoundEnds
CHECK_DEADLOCK FALSE
