SPECIFICATION HostSpec
CONSTANTS
  Containers = {c1, c2}
  Dirs = {d1}
  TempDirs = {d1}
  Interval = 2
  MaxAge = 2
  TempMaxAge = 1
  TicksPerMinute = 1
  MaxFaults = 1
  MaxJobSteps = 2
  Configs <- SomeConfigs
  Lower <- LowerCase
  MaxJobs = 1
INVARIANT OnePruner
PROPERTIES PassesSpaced StaleDirsGo OwnRunnersOnly BaselineKept
