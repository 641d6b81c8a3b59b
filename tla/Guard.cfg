SPECIFICATION FairSpec
CONSTANTS
  ZombieGroup = {TRUE, FALSE}
  MaxSignals = 2
\* A handler that waits for the event's lock waits for ever.
CHECK_DEADLOCK FALSE
INVARIANTS
  TypeOK
  StopReachesChild
  NothingLeftBehind
PROPERTIES
  HandlerReturns
  
