SPECIFICATION TimedSpec
CONSTANTS
  NumGroups = 1
  Jobs = {j1}
  NumRepos = 1
  GroupRepos <- OrgRepos
  GroupLabels <- ClassLabels
  JobRepo <- FirstRepo
  JobLabels <- FirstClass
  BatchSize = 0
  CollectWorkflows = FALSE
  TTL = 1
  Handlers = {h1}
  MaxFaults = 3
INVARIANTS ClearedStaysCleared  NewDemandWakes
PROPERTY PhantomsExpire
