SPECIFICATION FairSpec
CONSTANTS
  v1 = v1
  v2 = v2
  v3 = v3
  Cpus = {c0, c2}
  Primary = c0
  Vcpus = {v1}
  MaxPriority = 1
  priority <- OneLevel
  ClockWriters = {}
  LogEnds = TRUE
  None = None
PROPERTY EverySleeperRunsAgain
CHECK_DEADLOCK FALSE
