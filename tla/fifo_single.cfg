SPECIFICATION Spec
CONSTANTS
  None = None
  v1 = v1
  v2 = v2
  v3 = v3
  Cpus = {c0}
  Adders = {c0}
  Removers = {c0}
  Vcpus = {v1, v2, v3, v4}
  MaxPriority = 1
  priority <- FirstIsUrgent
INVARIANTS TypeOK TailIsLast
PROPERTY ImplementsQueue
