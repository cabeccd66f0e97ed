SPECIFICATION FairSpec
CONSTANTS
  MaxAutoRunners = 1
  HasBaseline = TRUE
  IdleTimeout = 2
  AvailabilityGrace = 2
  MaxDemand = 1
  MaxPassTicks = 0
  MaxFaults = 1
  MaxForeign = 0
  MaxDisturbances = 1
PROPERTIES LeftoversCollected BaselineRestored
