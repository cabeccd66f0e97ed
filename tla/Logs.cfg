SPECIFICATION LogsSpec
CONSTANTS
  MaxEntries = 2
  CompactAt = 4
  Cuts = {"clean", "escape", "newline"}
  MaxRecords = 6
  MaxFaults = 3
  MaxRetained = 2
  SeenLimit = 2
  Retries = 1
  MaxLogged = 4
  MaxIssueFaults = 2
INVARIANTS RecordedEntriesRetained FileStaysBounded CleanCutsTolerated
  NoIssueRedelivered MarkedIssuesIngested AnalyticsCacheCurrent
PROPERTY IssuesReachLoki
