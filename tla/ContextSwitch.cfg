SPECIFICATION Spec
CONSTANTS
  TASK_MAX = 3
  TickMod = 2
  zero = zero
  one = one
  boot = boot
  worker = worker
  logger = logger
  Entry <- Entries
  SavedRegs <- TwoRegs
  RegValues <- TwoValues
  Zero = zero
INVARIANTS
  OneRunningTask
  RegistersPreserved
PROPERTIES
  BoundedOvertaking
  SwitchCompletes
