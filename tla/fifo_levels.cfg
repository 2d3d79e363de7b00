SPECIFICATION LockedSpec
CONSTANTS
  None = None
  v1 = v1
  v2 = v2
  Cpus = {c0, c2}
  Primary = c0
  Adders = {c0, c2}
  Removers = {}
  Vcpus = {v1, v2}
  MaxPriority = 1
  priority <- FirstIsUrgent
INVARIANTS ReadyIsReachable TakenOnce HandlersRunMasked LocksAreOrdered
PROPERTY ImplementsFcfsQueue
