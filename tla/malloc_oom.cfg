SPECIFICATION MCSpec
CHECK_DEADLOCK FALSE
CONSTANTS
  Request = {160, 2700}
  Scenario <- OneScenario
  MaxBlock = 2
  MaxGroup = 4
  SEQ_MAX = 3
  SOON = 2
  BOUNCING = 2
  BOUNCE_START = 3
INVARIANTS
  OutOfMemoryIsReported
