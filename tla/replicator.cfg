\* The vbucket numbers, which the proxy uses as opaques when it closes streams, are
\* not opaques that the consumer makes (1 to MaxCalls * 2); close_opaque.cfg drops this.
CONSTANTS
  Partitions = {11, 12}
  MaxCalls = 3
  Assumed <- AllConditions
SPECIFICATION Spec
CHECK_DEADLOCK FALSE
INVARIANTS TypeOK NoUnexpectedAnswer ListedIsOpen OpenIsListed OneActive
PROPERTIES TakeoverIsDone CallReturns
