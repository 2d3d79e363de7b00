SPECIFICATION DeviceSpec
CONSTANTS
  Cpus = {c0, c2}
  Primary = c0
  v1 = v1
  v2 = v2
  p1 = p1
  p2 = p2
  Vcpus <- MCVcpus
  Pins <- MCPins
  Banks <- MCBanks
  Selectors <- MCSelectors
  None = None
  IrqNum = 3
SYMMETRY VmSymmetry
VIEW WithoutContexts
INVARIANTS TypeOK HypTimerStaysEnabled IdleIsQuiet PinsBelongToOne ClaimsAreWhole
PROPERTY OnlyTheOwnerDrives
