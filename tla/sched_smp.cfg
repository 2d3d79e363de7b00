SPECIFICATION ContextSpec
CONSTANTS
  v1 = v1
  v2 = v2
  Cpus = {c0, c2}
  Primary = c0
  Vcpus = {v1, v2}
  MaxPriority = 1
  priority <- TwoLevels
  ClockWriters = {}
  LogEnds = FALSE
  None = None
  maxWord <- OneLongProgram
  Kinds = {"vserror"}
  Old = Old
  Stack = Stack
  El1Callers = {v1}
INVARIANTS TypeOK QueueMatchesState RunnerIsUnique FreshResume TimerMatchesSleep FrameMatchesGuest InterruptsFollowGuests
PROPERTIES ShutdownIsFinal MostUrgentFirst ImplementsMachine
CHECK_DEADLOCK FALSE
