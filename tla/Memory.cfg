SPECIFICATION MemorySpec
CONSTANTS
  TotalFrames = 10
  WordBits = 4
  ReservedFrames = 5
  MaxRun = 3
  ChunkSizes <- MCChunkSizes
  PageSize = 4
  Sizes = {0, 2, 3, 5}
  U32 = 1024
  LowMemory = 12
  HeaderSize = 16
  KernelEnd = 15
  Regions <- MCRegions
  UpperMemory = 28
  OtherTags <- MCOtherTags
  MaxPages = 2
INVARIANTS
  TypeOK
  UsedFramesExact
  HintIsSound
  EveryFrameHasOneOwner
  ChunksConserved
  ChunksDisjoint
  BootInfoIsRead
PROPERTY RefinesFrameAllocator
