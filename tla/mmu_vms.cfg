SPECIFICATION Spec
CONSTANTS
  Fan = 3
  MaxTables = 10
  VmNum = 2
  PoolStart = 10
  PoolSize = 9
  Layouts <- SomeLayouts
  ExclDevices <- SomeDevices
  None = None
INVARIANTS TypeOK MemoryIsPrivate GuestsStayInside WholeMemoryMapped
PROPERTY ImplementsSpaces
CHECK_DEADLOCK FALSE
