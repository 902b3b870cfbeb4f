------------------------------- MODULE Memory -------------------------------
(***************************************************************************)
(* Memory from the boot on: kernel_main reads from the boot information    *)
(* how much RAM there is, gives it to the physical memory manager and      *)
(* reserves what the kernel occupies (kernel/main.c); the slab allocator   *)
(* and other callers then take frames.                                     *)
(***************************************************************************)
EXTENDS Pmm, Sequences, SequencesExt

CONSTANTS
  ChunkSizes, PageSize, Sizes,     \* of module Slab
  U32, LowMemory, HeaderSize,      \* of module Multiboot2
  KernelEnd,                       \* _end
  Regions,       \* the memory map: sequence of [len, usable]
  UpperMemory,   \* the RAM above LowMemory, up to the first hole
  OtherTags,     \* tags with nothing about memory in them
  MaxPages       \* bound: frames that the slab allocator may take

VARIABLES
  phase,         \* "parse" or "run"
  mbi, tag, out_info,
  zones, live

slabVars == <<zones, live>>
bootVars == <<phase, mbi, tag, out_info>>
allVars == <<vars, slabVars, bootVars>>

M == INSTANCE Multiboot2
S == INSTANCE Slab

ASSUME MemorySlabAssumption == S!SlabAssumption

\* The bitmap follows the image of the kernel, from the next page on.
BitmapAt == ((KernelEnd + PageSize - 1) \div PageSize) * PageSize
BitmapBytes == (TotalFrames + 7) \div 8

\* The bounds of the loop in kernel_main that reserves frames, and the frames of the
\* RAM that the boot loader reports.
ASSUME MemoryAssumption ==
  /\ ReservedFrames = (BitmapAt + BitmapBytes + PageSize - 1) \div PageSize
  /\ TotalFrames = (LowMemory + UpperMemory) \div PageSize

\* The regions that the boot loader knows of, and tags that say other things.
ASSUME MemoryTagsAssumption ==
  /\ {U32, LowMemory, UpperMemory, HeaderSize} \subseteq Nat
  /\ 0 \notin {U32, HeaderSize}
  /\ Regions \in Seq([len : Nat, usable : BOOLEAN])
  /\ IsFiniteSet(OtherTags)
  /\ \A t \in OtherTags : t.size \in Nat \ {0} /\ t.type \notin {"meminfo", "mmap", "end"}

\* What a boot loader writes: tags in any order, each padded to 8 bytes.
MemTag == [type |-> "meminfo", size |-> 16, upper |-> UpperMemory]
MapTag == [type |-> "mmap", size |-> HeaderSize + 24 * Len(Regions), entry_size |-> 24,
           entries |-> Regions]
EndTag == [type |-> "end", size |-> 8]

TagLists == UNION {SetToSeqs({MemTag, MapTag} \cup T) : T \in SUBSET OtherTags}

\* Where the i-th tag of a list ends, padding included; the first begins at 8.
TagEnds(list) ==
  LET end[i \in 0 .. Len(list)] ==
        IF i = 0 THEN 8 ELSE end[i - 1] + M!RoundUp8(list[i].size)
  IN  end

Placed(list) ==
  LET end == TagEnds(list)
  IN  [o \in {end[i - 1] : i \in DOMAIN list} |->
         list[CHOOSE i \in DOMAIN list : end[i - 1] = o]]
-----------------------------------------------------------------------------
MemoryInit ==
  /\ phase = "parse"
  /\ \E list \in TagLists : mbi = Placed(Append(list, EndTag))
  /\ M!Init /\ Init /\ S!Init

ParseTag ==
  /\ phase = "parse" /\ M!ParseTag
  /\ UNCHANGED <<phase, vars, slabVars>>

\* pmm_init; the boot information is not looked at again.
pmm_init ==
  /\ phase = "parse" /\ M!Parsed
  /\ phase' = "run"
  /\ mbi' = << >> /\ tag' = 0 /\ out_info' = M!NoInfo
  /\ UNCHANGED <<vars, slabVars>>

\* zalloc, which takes a frame for an empty zone.
zalloc(size) ==
  \/ S!ZallocFromList(size) /\ UNCHANGED vars
  \/ /\ S!NeedsFrame(size) /\ Cardinality(S!Pages) < MaxPages
     /\ AllocFrame /\ S!ZallocWithRefill(size, ret')
  \/ S!NeedsFrame(size) /\ AllocFrameFails /\ S!ZallocWithRefill(size, ret')
  \/ S!ZallocRefused(size) /\ UNCHANGED vars

\* A caller does not free the frames of the slab allocator.
OtherCaller ==
  /\ \/ AllocFrame \/ AllocFrameFails
     \/ \E n \in 0 .. MaxRun : AllocContiguous(n) \/ AllocContiguousFails(n)
     \/ \E f \in (0 .. TotalFrames) \ S!Pages : FreeFrame(f)
  /\ UNCHANGED slabVars

MemoryNext ==
  \/ ParseTag
  \/ pmm_init
  \/ /\ phase = "run"
     /\ \/ ReserveBoot /\ UNCHANGED slabVars
        \/ OtherCaller
        \/ Booted /\ \E size \in Sizes : zalloc(size)
        \/ \E ptr \in DOMAIN live : S!zfree(ptr, live[ptr]) /\ UNCHANGED vars
     /\ UNCHANGED bootVars

MemorySpec == MemoryInit /\ [][MemoryNext]_allVars
-----------------------------------------------------------------------------
\* The bytes of the memory map that are RAM.
UsableBytes ==
  UNION {{i} \X (1 .. Regions[i].len) : i \in {j \in DOMAIN Regions : Regions[j].usable}}

\* The walk lands on tags only, whatever their sizes and their order, and at its end
\* kernel_main has the RAM that the boot loader reported (multiboot2_parse).
BootInfoIsRead ==
  phase = "parse" =>
    /\ tag \in DOMAIN mbi
    /\ M!Parsed =>
         /\ out_info.total \div PageSize = TotalFrames
         /\ out_info.available = Cardinality(UsableBytes)

\* A zone has every chunk of the pages it took, each exactly once.
ChunksConserved == S!TypeOK /\ S!ChunksConserved

\* Chunks do not overlap, and are cut from frames that the physical memory manager has
\* given out and nobody has freed since.
ChunksDisjoint == S!ChunksDisjointIn(held)
=============================================================================
