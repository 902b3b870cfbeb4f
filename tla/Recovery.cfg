SPECIFICATION RecoverySpec
CONSTANTS
  VerifyTicks = 1
  WindowTicks = 2
  RingCap = 1
  MaxNest = 2
  PointWords = 1
  CommandWords = 3
INVARIANTS
  HltCanEnd
  LoopStackSettles
PROPERTIES
  IrqsAreServed
  BytesAreRead
  BootCompletes
