-------------------------------- MODULE Slab --------------------------------
(***************************************************************************)
(* The slab allocator (kernel/core/slab.c): zones of fixed-size chunks,    *)
(* each zone a last-in first-out list of free chunks that is refilled with *)
(* one frame of the physical memory manager when it is empty.  Frames are  *)
(* never given back.  An address is a number of bytes; the identity map of *)
(* the kernel is assumed (slab_phys_offset = 0).  Module Memory puts the   *)
(* allocator on the physical memory manager.                               *)
(***************************************************************************)
EXTENDS Integers, FiniteSets, Sequences, SequencesExt

CONSTANTS
  ChunkSizes,   \* zone_chunk_size, ascending
  PageSize,     \* SLAB_PAGE_SIZE
  Sizes         \* the sizes callers ask for

\* Assumed where the module is instantiated.
SlabAssumption ==
  /\ PageSize \in Nat \ {0}
  /\ Sizes \subseteq Nat
  /\ ChunkSizes \in Seq(Nat)
  /\ \A i \in DOMAIN ChunkSizes : ChunkSizes[i] \in 1 .. PageSize
  /\ \A i, j \in DOMAIN ChunkSizes : i < j => ChunkSizes[i] < ChunkSizes[j]

VARIABLES
  zones,   \* zone index -> free_list, alloc_count
  live     \* history: chunk held by a caller -> size it passed to zalloc

vars == <<zones, live>>

Zones == DOMAIN ChunkSizes

\* The zones whose chunks are large enough; size_to_zone_index takes the first.
ZonesFor(size) == {i \in Zones : size <= ChunkSizes[i]}
size_to_zone_index(size) == CHOOSE i \in ZonesFor(size) : \A j \in ZonesFor(size) : i <= j

ChunksPerPage(i) == PageSize \div ChunkSizes[i]

\* Mutant: the chunks are cut one too far.
Carve_OneOff(i, base) ==
  [k \in 1 .. ChunksPerPage(i) |-> base + (ChunksPerPage(i) - k + 1) * ChunkSizes[i]]

\* zone_refill pushes the chunks of a page in ascending order.
Carve(i, base) ==
  [k \in 1 .. ChunksPerPage(i) |-> base + (ChunksPerPage(i) - k) * ChunkSizes[i]]
-----------------------------------------------------------------------------
Init ==
  /\ zones = [i \in Zones |-> [free_list |-> << >>, alloc_count |-> 0]]
  /\ live = << >>

Pop(i, list, pages, size) ==
  /\ zones' = [zones EXCEPT ![i].free_list = Tail(list), ![i].alloc_count = @ + pages]
  /\ live' = [p \in {Head(list)} \cup DOMAIN live |->
                IF p = Head(list) THEN size ELSE live[p]]

Served(size) == size # 0 /\ ZonesFor(size) # {}

\* zalloc of a zone with a free chunk pops the head of its list.
ZallocFromList(size) ==
  /\ Served(size)
  /\ LET i == size_to_zone_index(size) IN
       /\ zones[i].free_list # << >>
       /\ Pop(i, zones[i].free_list, 0, size)

\* zalloc of an empty zone asks for a frame,
NeedsFrame(size) == Served(size) /\ zones[size_to_zone_index(size)].free_list = << >>

\* and carves the frame f that it is given; without one it returns NULL.
ZallocWithRefill(size, f) ==
  LET i == size_to_zone_index(size)
  IN  IF f = 0 THEN UNCHANGED vars ELSE Pop(i, Carve(i, f * PageSize), 1, size)

\* zalloc returns NULL for size 0 and where no zone is so large.
ZallocRefused(size) == ~Served(size) /\ UNCHANGED vars

\* Mutant: the chunk goes to the list of the next smaller zone.
zfree_Smaller(ptr, size) ==
  /\ LET i == size_to_zone_index(size)
         j == IF i > 1 THEN i - 1 ELSE i IN
     zones' = [zones EXCEPT ![j].free_list = <<ptr>> \o @]
  /\ live' = [p \in DOMAIN live \ {ptr} |-> live[p]]

\* zfree pushes the chunk on the list of the zone that the size selects.
zfree(ptr, size) ==
  /\ LET i == size_to_zone_index(size) IN
     zones' = [zones EXCEPT ![i].free_list = <<ptr>> \o @]
  /\ live' = [p \in DOMAIN live \ {ptr} |-> live[p]]
-----------------------------------------------------------------------------
\* Type correctness.
TypeOK ==
  /\ \A i \in Zones : /\ zones[i].free_list \in Seq(Nat)
                      /\ zones[i].alloc_count \in Nat
  /\ \A p \in DOMAIN live : p \in Nat /\ live[p] \in Sizes

LiveOf(i) == {p \in DOMAIN live : size_to_zone_index(live[p]) = i}
FreeOf(i) == ToSet(zones[i].free_list)

\* A zone has every chunk of the pages it took, each exactly once: on its free
\* list or with one caller.  A chunk that is lost, listed twice or pushed on
\* another zone's list breaks the sum.
ChunksConserved ==
  \A i \in Zones :
    /\ FreeOf(i) \cap LiveOf(i) = {}
    /\ Len(zones[i].free_list) = Cardinality(FreeOf(i))
    /\ Cardinality(FreeOf(i)) + Cardinality(LiveOf(i))
         = zones[i].alloc_count * ChunksPerPage(i)

\* The bytes of a chunk of zone i.
Bytes(i, p) == p .. p + ChunkSizes[i] - 1

Chunks == UNION {FreeOf(i) \cup LiveOf(i) : i \in Zones}

\* The frames that chunks were cut from.
Pages == {p \div PageSize : p \in Chunks}

\* No byte belongs to two chunks, of one zone or of two, free or live, and no
\* chunk reaches into a frame that is not one of frames.
ChunksDisjointIn(frames) ==
  \A i, j \in Zones :
    \A p \in FreeOf(i) \cup LiveOf(i), q \in FreeOf(j) \cup LiveOf(j) :
      /\ (i # j \/ p # q) => Bytes(i, p) \cap Bytes(j, q) = {}
      /\ \A a \in Bytes(i, p) : (a \div PageSize) \in frames
=============================================================================
