SPECIFICATION FairSpec
CONSTANTS
  NumGroups = 2
  Jobs = {j1}
  NumRepos = 2
  GroupRepos <- Mixed
  GroupLabels <- ClassLabels
  JobRepo <- LastRepo
  JobLabels <- SecondClass
  BatchSize = 1
  CollectWorkflows = TRUE
  TTL = 1
  Handlers = {h1}
  MaxFaults = 1
INVARIANT TypeOK
 
