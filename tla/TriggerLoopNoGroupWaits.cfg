SPECIFICATION Spec
CONSTANTS
  NumGroups = 2
  Callers = {c1, c2}
  MaxTriggers = 2
INVARIANT NoGroupWaitsForPoll
CHECK_DEADLOCK FALSE
