SPECIFICATION SharedSpec
CONSTANTS
  RunnerCacheTTL = 1
  RunnerStaleTTL = 2
  MaxMutations = 2
  MaxGeneration = 5
  Subjects = {s1, s2}
  KeyOf <- OwnKey
  MaxCalls = 4
INVARIANTS CacheShowsOwnChanges DecidesOnOwnChanges MetricsShowFinishedChanges
  DebouncerTypeOK EntryHasCallback
PROPERTIES ListingReturns ActedOnUnlessOverlapped
CHECK_DEADLOCK FALSE
