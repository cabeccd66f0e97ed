SPECIFICATION Spec
CONSTANTS
  MaxAutoRunners = 2
  HasBaseline = FALSE
  IdleTimeout = 2
  AvailabilityGrace = 1
  MaxDemand = 1
  MaxPassTicks = 0
  MaxFaults = 1
  MaxForeign = 1
  MaxDisturbances = 2
INVARIANTS CapRespected NoKnownJobKilled NoDoubleProvisioning
