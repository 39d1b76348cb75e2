SPECIFICATION ConversationSpec
CONSTANTS
  Harnesses = {"claude", "codex"}
  ReplayStepWindow = 1
  MaxCalls = 2
  MaxRows = 6
  MaxMade = 6
INVARIANTS
  ContextIsHistory
PROPERTIES
  StaysWarm
CHECK_DEADLOCK FALSE
