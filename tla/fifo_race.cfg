SPECIFICATION Spec
CONSTANTS
  None = None
  v1 = v1
  v2 = v2
  v3 = v3
  Cpus = {c0, c2}
  Adders = {c0}
  Removers = {}
  Vcpus = {v1, v2}
  MaxPriority = 0
  priority <- OneLevel
INVARIANT ReadyIsReachable
