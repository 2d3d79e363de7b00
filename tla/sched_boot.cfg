SPECIFICATION FairSpec
CONSTANTS
  v1 = v1
  v2 = v2
  v3 = v3
  Cpus = {c0, c2, c3}
  Primary = c0
  Vcpus = {v1}
  MaxPriority = 1
  priority <- OneLevel
  ClockWriters = {v1}
  LogEnds = TRUE
  None = None
INVARIANTS NoVcpuLost WorkIsAwaited
PROPERTIES SleeperRunsAgain
CHECK_DEADLOCK FALSE
