SPECIFICATION FairSpec
CONSTANTS
  MaxAutoRunners = 2
  HasBaseline = FALSE
  IdleTimeout = 1
  AvailabilityGrace = 1
  MaxDemand = 2
  MaxPassTicks = 0
  MaxFaults = 1
  MaxForeign = 1
  MaxDisturbances = 1
INVARIANT CountCoversKnown
PROPERTIES PassTerminates ScaleUpCarriedThrough
