SPECIFICATION Spec
CONSTANTS
  v1 = v1
  v2 = v2
  v3 = v3
  Cpus = {c0}
  Primary = c0
  Vcpus = {v1, v2}
  MaxPriority = 1
  priority <- TwoLevels
  ClockWriters = {}
  LogEnds = TRUE
  None = None
INVARIANT NoVcpuLost
CHECK_DEADLOCK FALSE
