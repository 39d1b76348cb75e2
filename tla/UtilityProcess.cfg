CONSTANTS
  Callers = {c1, c2}
  MaxOneShot = 2
  Parts = 2
  Pins = 2
  MaxStarts = 3
SPECIFICATION Spec
INVARIANTS NeverClosedUnderACall NoneLeftRunning AnswersOwnPrompt
SYMMETRY Alike
CHECK_DEADLOCK FALSE
