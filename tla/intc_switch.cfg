SPECIFICATION HistorySpec
CONSTANTS
  Cpus = {c0}
  Primary = c0
  Vcpus = {v1}
  None = None
INVARIANT EnablesFollowTheGuest
