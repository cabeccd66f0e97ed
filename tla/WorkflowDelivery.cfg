SPECIFICATION FairWorkflowSpec
CONSTANTS
  GroupRepos <- OrgAndRepo
  RunRepo <- TwoAndOne
  MaxAttempts <- SecondAgain
  Window = 1
  RepoBatch = 1
  SeenLimit = 2
  MaxRunFaults = 2
  MaxAuditMoves = 1
INVARIANTS NoRunRedelivered MarkedRunsIngested
PROPERTY RunsReachLoki
