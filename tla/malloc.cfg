SPECIFICATION MCSpec
CHECK_DEADLOCK FALSE
CONSTANTS
  Request = {160, 2300, 2700, 131060, 140000}
  Scenario <- Scenarios
  MaxBlock = 4
  MaxGroup = 5
  SEQ_MAX = 2
  SOON = 1
  BOUNCING = 2
  BOUNCE_START = 2
INVARIANTS
  GroupsAreConsistent NeverTraps SlotsAccounted FreeSlotsAreListed EmptyHeapIsSmall
PROPERTIES
  ImplementsHeap
