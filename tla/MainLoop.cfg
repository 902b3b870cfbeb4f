SPECIFICATION Spec
CONSTANTS
  Refresh = 1
  Window = 2
  KBD_BUF_SIZE = 3
  Keys = {a, b}
  NoKey = NoKey
  FifoSize = 1
INVARIANTS
  TypeOK
  SleepCountsAsIdle
PROPERTIES
  RefinesKeyQueue
  KeysAreHandled
  SerialAndScreenAreServed
