CONSTANTS
  Partitions = {1, 2}
  MaxCalls = 2
  Assumed <- AllConditions
SPECIFICATION Spec
CHECK_DEADLOCK FALSE
INVARIANT SessionIsOpen
