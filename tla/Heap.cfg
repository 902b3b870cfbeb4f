SPECIFICATION Spec
CONSTANTS
  Align = 2
  Header = 4
  MinSplit = 2
  PointerSize = 2
  PageSize = 20
  SizeMod = 256
  TotalFrames = 4
  Sizes = {0, 1, 4, 17}
  Alignments = {4}
  MaxLive = 3
INVARIANTS
  BlocksTileRegions
  FreeListExact
  HeapUsedExact
  GrantedInFull
  EveryBlockHasOneOwner
PROPERTY GrowthIsEnough
\* Aligned allocations are never freed: once they fill the memory nothing moves.
CHECK_DEADLOCK FALSE
