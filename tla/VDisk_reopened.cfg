SPECIFICATION Spec
CONSTANTS
  Blocks = 2
  Parts = 2
  MaxWrites = 2
  MaxSessions = 2
INVARIANT ReadsSurviveReopening
CHECK_DEADLOCK FALSE
