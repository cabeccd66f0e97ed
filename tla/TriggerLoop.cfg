SPECIFICATION FairSpec
CONSTANTS
  NumGroups = 2
  Callers = {c1, c2}
  MaxTriggers = 4
INVARIANTS NoPassMissed RunningMatchesLoop
PROPERTIES ImplementsService ShutdownCompletes
CHECK_DEADLOCK FALSE
