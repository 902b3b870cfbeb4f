SPECIFICATION CodecSpec
CONSTANTS
  PageLen = 9
  Bytes = {0, 1, 3}
  MaxDst = 10
  ZeroMin = 2
  RunMin = 3
  MaxRun = 4
  MaxLit = 4
  MaxStream = 4
INVARIANT RoundTrip
CHECK_DEADLOCK FALSE
