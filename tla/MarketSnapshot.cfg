CONSTANTS
  Budgeted = {"breadth"}
  Leavers = {1}
  MaxGeneration = 2
  MaxDay = 2
SPECIFICATION Spec
INVARIANTS FreshQuotes LiveIsOwn SlotsAreExact GoesOnAlone
PROPERTIES RetainedGoesForward
CHECK_DEADLOCK FALSE
