SPECIFICATION FairSpec
CONSTANTS
  TimerEvents = 4
  Quantum = 2
  Period = 6
  Sleeps <- SomeSleeps
  Vcpus = {v1, v2}
  Usage = Usage
  None = None
INVARIANTS TypeOK OneSlotEach NeverFull TickingWhileArmed
PROPERTIES  UsageWithinOneTick EveryWakeUpFires UsageGoesOn
CHECK_DEADLOCK FALSE
