SPECIFICATION Spec
CONSTANTS
  NumGroups = 1
  Jobs = {j1}
  NumRepos = 2
  GroupRepos <- OrgRepos
  GroupLabels <- ClassLabels
  JobRepo <- LastRepo
  JobLabels <- FirstClass
  BatchSize = 1
  CollectWorkflows = FALSE
  TTL = 1
  Handlers = {h1}
  MaxFaults = 0
PROPERTY AuditKeepsQueuedJobs
