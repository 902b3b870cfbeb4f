SPECIFICATION Spec
CONSTANTS
  VGA_WIDTH = 80
  VGA_HEIGHT = 25
  U32 = 1048576
  CMD_MAX = 3
  LOG_LINES = 2
  Letters = {"q", "r"}
  MaxTexts = 5
  Char <- MCChar
  Stats <- MCStats
  Texts <- MCTexts
  Output <- MCOutput
  Effect <- MCEffect
  ReadyMessages <- MCReadyMessages
  RestoredMessage <- MCRestoredMessage
CHECK_DEADLOCK FALSE
INVARIANTS
  BootTextShown
  RunsWhatIsShown
  LogShown
  NoLeftovers
