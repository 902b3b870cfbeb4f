-------------------------------- MODULE Heap --------------------------------
(***************************************************************************)
(* The kernel heap (kernel/core/heap.c): a first-fit allocator whose free  *)
(* blocks sit on a last-in first-out list, on regions of contiguous frames *)
(* taken from the physical memory manager and never given back.            *)
(*                                                                         *)
(* An address is a number of bytes from physical address 0; heap_init(0)   *)
(* maps physical addresses to themselves.  blocks maps the address of each *)
(* header to its fields; the free-list links of the headers are the        *)
(* sequence free_list, its head first.  A call of kmalloc that has to grow *)
(* the heap calls itself again: call is the request in progress, and each  *)
(* step of the request is a step of the module.                            *)
(***************************************************************************)
EXTENDS Integers, FiniteSets, Sequences, SequencesExt

CONSTANTS
  Align,        \* granularity of sizes (8)
  Header,       \* sizeof(block_t) (48)
  MinSplit,     \* MIN_SPLIT (32)
  PointerSize,  \* sizeof(void *) (8)
  PageSize,     \* PAGE_SIZE (4096)
  SizeMod,      \* 2^w for the width w of size_t
  TotalFrames,  \* frames of RAM
  Sizes,        \* the sizes callers ask for
  Alignments,   \* the alignments callers ask for
  MaxLive       \* bound: allocations live at once

ASSUME HeapAssumption ==
  /\ {Align, Header, MinSplit, PageSize, TotalFrames, SizeMod} \subseteq Nat \ {0}
  /\ PointerSize \in Nat
  /\ Header <= PageSize
  /\ TotalFrames * PageSize + Header + MinSplit < SizeMod   \* size_t holds any address
  /\ Sizes \subseteq 0 .. SizeMod - 1
  /\ Alignments \subseteq 1 .. SizeMod - 1

VARIABLES
  blocks,      \* header address -> size, used, next, prev
  free_list,   \* free_head and the next_free links
  heap_used,
  frames,      \* frames the physical memory manager has handed out
  call,        \* the kmalloc in progress, or Idle
  live,        \* history: pointer held by a caller -> bytes it asked for
  regions      \* history: [start, end) of every region grow_heap obtained

vars == <<blocks, free_list, heap_used, frames, call, live, regions>>

NULL == 0
Idle == [op |-> "idle"]

PMM == INSTANCE FrameAllocator WITH allocated <- frames, asked <- 0, reply <- NULL, MaxRun <- TotalFrames

\* The map f with v for key k.
Put(f, k, v) == [x \in {k} \cup DOMAIN f |-> IF x = k THEN v ELSE f[x]]

align_up(val, align) == (((val + align - 1) % SizeMod) \div align) * align
-----------------------------------------------------------------------------
\* What the functions of the heap do to the block table and the free list.

Payload(b) == b + Header
HeaderOf(p) == p - Header

\* Mutant: the header counts as room.
Fits_WithHeader(b, size) == blocks[b].size + Header >= size

Fits(b, size) == blocks[b].size >= size

\* Index in the free list of the first block that is large enough, 0 for none.
FirstFit(size) == SelectInSeq(free_list, LAMBDA b : Fits(b, size))

CanSplit(b, size) == blocks[b].size >= (size + Header + MinSplit) % SizeMod

LinkBack(bs, n, b) == IF n = NULL THEN bs ELSE [bs EXCEPT ![n].prev = b]

\* kmalloc cuts block b after size bytes; the rest becomes a free block.
Split(b, size) ==
  LET s == Payload(b) + size
      rest == [size |-> blocks[b].size - size - Header, used |-> FALSE,
               next |-> blocks[b].next, prev |-> b]
      cut == [blocks EXCEPT ![b].size = size, ![b].next = s]
  IN  LinkBack(Put(cut, s, rest), blocks[b].next, s)

\* Mutant: the block after the swallowed one still points back at it.
MergeNext_NoBackLink(bs, b) ==
  LET n == bs[b].next
  IN  [a \in DOMAIN bs \ {n} |->
         IF a = b THEN [bs[b] EXCEPT !.size = @ + Header + bs[n].size, !.next = bs[n].next] ELSE bs[a]]

\* Block b swallows its right neighbour.
MergeNext(bs, b) ==
  LET n == bs[b].next
      grown == [bs EXCEPT ![b].size = @ + Header + bs[n].size, ![b].next = bs[n].next]
      linked == LinkBack(grown, bs[n].next, b)
  IN  [a \in DOMAIN bs \ {n} |-> linked[a]]

IsFree(bs, b) == b # NULL /\ ~bs[b].used

\* kfree after its double-free guard: release b, merge it right, then left.
RightFree(b) == IsFree(blocks, blocks[b].next)
LeftFree(b) == IsFree(blocks, blocks[b].prev)

Released(b) == [blocks EXCEPT ![b].used = FALSE]

MergedRight(b) == IF RightFree(b) THEN MergeNext(Released(b), b) ELSE Released(b)

MergedBlocks(b) ==
  IF LeftFree(b) THEN MergeNext(MergedRight(b), blocks[b].prev) ELSE MergedRight(b)

\* b goes to the head of the list; a block that is swallowed leaves it.
ListedRight(b) ==
  <<b>> \o (IF RightFree(b) THEN RemoveFirst(free_list, blocks[b].next) ELSE free_list)

\* Mutant: a block that its left neighbour swallows stays on the list.
MergedList_KeepLeft(b) == ListedRight(b)

MergedList(b) == IF LeftFree(b) THEN RemoveFirst(ListedRight(b), b) ELSE ListedRight(b)

\* Mutant: the size is subtracted after the merge to the right.
FreeBlock_AfterMerge(b) ==
  /\ blocks' = MergedBlocks(b)
  /\ free_list' = MergedList(b)
  /\ heap_used' = heap_used - MergedRight(b)[b].size

FreeBlock(b) ==
  /\ blocks' = MergedBlocks(b)
  /\ free_list' = MergedList(b)
  /\ heap_used' = heap_used - blocks[b].size
-----------------------------------------------------------------------------
Init ==
  /\ blocks = << >>
  /\ free_list = << >>
  /\ heap_used = 0
  /\ frames = {0}
  /\ call = Idle
  /\ live = << >>
  /\ regions = {}

\* The frames of RAM are shared: slab pages and page tables come from them too.
OtherTakesFrame ==
  /\ call = Idle
  /\ PMM!Available # {}
  /\ \E f \in PMM!Available : PMM!IsLeast(f, PMM!Available) /\ frames' = frames \cup {f}
  /\ UNCHANGED <<blocks, free_list, heap_used, call, live, regions>>

Begin(req) ==
  /\ call = Idle
  /\ Cardinality(DOMAIN live) < MaxLive
  /\ call' = req
  /\ UNCHANGED <<blocks, free_list, heap_used, frames, live, regions>>

\* Requests of size 0 return NULL at once.
kmalloc(size) ==
  /\ size # 0
  /\ Begin([op |-> "kmalloc", size |-> align_up(size, Align), asked |-> size])

kmalloc_aligned(size, align) ==
  /\ size # 0
  /\ LET padded == (size + align + Header + PointerSize) % SizeMod IN
       /\ padded # 0
       /\ Begin([op |-> "kmalloc_aligned", size |-> align_up(padded, Align),
                 asked |-> size, align |-> align])

\* A krealloc that fits in the block keeps it; one of size 0 frees the block.
krealloc(ptr, new_size) ==
  LET want == align_up(new_size, Align) IN
  /\ new_size # 0
  /\ ~Fits(HeaderOf(ptr), want)
  /\ Begin([op |-> "krealloc", size |-> want, asked |-> new_size, old |-> ptr])

krealloc_in_place(ptr, new_size) ==
  /\ call = Idle
  /\ new_size # 0
  /\ Fits(HeaderOf(ptr), align_up(new_size, Align))
  /\ live' = [live EXCEPT ![ptr] = new_size]
  /\ UNCHANGED <<blocks, free_list, heap_used, frames, call, regions>>

\* kfree, also by way of krealloc(ptr, 0); a block that is free is left alone.
kfree(ptr) ==
  /\ call = Idle
  /\ blocks[HeaderOf(ptr)].used
  /\ FreeBlock(HeaderOf(ptr))
  /\ live' = [p \in DOMAIN live \ {ptr} |-> live[p]]
  /\ UNCHANGED <<frames, call, regions>>

\* The pointer a finished request returns: the payload, or for an aligned
\* request the first aligned address past the slot of the back pointer.
Result(b) ==
  IF call.op = "kmalloc_aligned"
  THEN align_up(Payload(b) + PointerSize, call.align)
  ELSE Payload(b)

\* kmalloc: the first block that fits is cut when it is large enough, taken
\* off the list and handed out.  A block obtained for krealloc is handed out
\* in FinishRealloc, after the contents are copied.
Allocate ==
  /\ call # Idle /\ call.op # "copy"
  /\ FirstFit(call.size) # 0
  /\ LET b == free_list[FirstFit(call.size)]
         split == CanSplit(b, call.size)
         s == Payload(b) + call.size
         taken == IF split THEN Split(b, call.size) ELSE blocks
     IN  /\ blocks' = [taken EXCEPT ![b].used = TRUE]
         /\ free_list' = RemoveFirst(IF split THEN <<s>> \o free_list ELSE free_list, b)
         /\ heap_used' = heap_used + taken[b].size
         /\ IF call.op = "krealloc"
            THEN call' = [op |-> "copy", new |-> Payload(b), old |-> call.old,
                          asked |-> call.asked] /\ live' = live
            ELSE call' = Idle /\ live' = Put(live, Result(b), call.asked)
  /\ UNCHANGED <<frames, regions>>

\* Mutant: the old block is not freed.
FinishRealloc_KeepsOld ==
  /\ call # Idle /\ call.op = "copy"
  /\ live' = Put([p \in DOMAIN live \ {call.old} |-> live[p]], call.new, call.asked)
  /\ call' = Idle
  /\ UNCHANGED <<blocks, free_list, heap_used, frames, regions>>

\* krealloc copied the old block: it is freed and the new one returned.
FinishRealloc ==
  /\ call # Idle /\ call.op = "copy"
  /\ FreeBlock(HeaderOf(call.old))
  /\ live' = Put([p \in DOMAIN live \ {call.old} |-> live[p]], call.new, call.asked)
  /\ call' = Idle
  /\ UNCHANGED <<frames, regions>>

\* Mutant: the header is not counted.
PagesFor_NoHeader(size) == ((size + PageSize - 1) % SizeMod) \div PageSize

\* grow_heap: the pages are computed in size_t.
PagesFor(size) ==
  LET need == (size + Header) % SizeMod
  IN  ((need + PageSize - 1) % SizeMod) \div PageSize

Growable(pages) == pages # 0 /\ PMM!RunStarts(pages) # {}

\* The retry of a request whose size was rounded to 0 returns NULL.
grow_heap ==
  /\ call # Idle /\ call.op # "copy"
  /\ FirstFit(call.size) = 0
  /\ Growable(PagesFor(call.size))
  /\ LET pages == PagesFor(call.size) IN
     \E f \in PMM!RunStarts(pages) :
       LET pa == f * PageSize IN
       /\ PMM!IsLeast(f, PMM!RunStarts(pages))
       /\ frames' = frames \cup PMM!RunOf(f, pages)
       /\ blocks' = Put(blocks, pa, [size |-> pages * PageSize - Header, used |-> FALSE,
                                    next |-> NULL, prev |-> NULL])
       /\ free_list' = <<pa>> \o free_list
       /\ regions' = regions \cup {[start |-> pa, end |-> pa + pages * PageSize]}
  /\ call' = IF call.size = 0 THEN Idle ELSE call
  /\ UNCHANGED <<heap_used, live>>

\* grow_heap finds no run of frames: NULL, and krealloc leaves the old block.
OutOfMemory ==
  /\ call # Idle /\ call.op # "copy"
  /\ FirstFit(call.size) = 0
  /\ ~Growable(PagesFor(call.size))
  /\ call' = Idle
  /\ UNCHANGED <<blocks, free_list, heap_used, frames, live, regions>>

\* The pointers that kmalloc returned, whose headers kfree and krealloc find.
Plain == {p \in DOMAIN live : HeaderOf(p) \in DOMAIN blocks /\ blocks[HeaderOf(p)].used}

Next ==
  \/ OtherTakesFrame
  \/ \E size \in Sizes : kmalloc(size)
  \/ \E size \in Sizes, align \in Alignments : kmalloc_aligned(size, align)
  \/ \E ptr \in Plain, size \in Sizes : krealloc(ptr, size) \/ krealloc_in_place(ptr, size)
  \/ \E ptr \in Plain : kfree(ptr)
  \/ Allocate
  \/ FinishRealloc
  \/ grow_heap
  \/ OutOfMemory

Spec == Init /\ [][Next]_vars

\* kfree of a pointer that kmalloc_aligned returned takes the bytes below it for
\* a header.  They are payload, or the header at another offset; the behaviours
\* here are those in which the byte read as blk->used is 0, and kfree returns.
kfree_aligned(ptr) ==
  /\ call = Idle
  /\ live' = [p \in DOMAIN live \ {ptr} |-> live[p]]
  /\ UNCHANGED <<blocks, free_list, heap_used, frames, call, regions>>

NextFreeingAligned == Next \/ \E ptr \in DOMAIN live \ Plain : kfree_aligned(ptr)

SpecFreeingAligned == Init /\ [][NextFreeingAligned]_vars
-----------------------------------------------------------------------------
\* Type correctness of the heap's own state.
TypeOK ==
  /\ \A b \in DOMAIN blocks :
       /\ b \in 0 .. TotalFrames * PageSize
       /\ blocks[b].size \in 0 .. TotalFrames * PageSize
       /\ blocks[b].used \in BOOLEAN
       /\ {blocks[b].next, blocks[b].prev} \subseteq DOMAIN blocks \cup {NULL}
  /\ heap_used \in 0 .. TotalFrames * PageSize
  /\ frames \subseteq PMM!Frames

EndOf(b) == Payload(b) + blocks[b].size

\* The headers of a region form one doubly linked chain without gap or overlap
\* from the first byte to the last, through every split and merge.
BlocksTileRegions ==
  /\ TypeOK
  /\ \A r \in regions : r.start \in DOMAIN blocks
  /\ \A b \in DOMAIN blocks :
       \E r \in regions :
         /\ r.start <= b /\ EndOf(b) <= r.end
         /\ IF blocks[b].next = NULL
            THEN EndOf(b) = r.end
            ELSE blocks[b].next = EndOf(b) /\ blocks[EndOf(b)].prev = b
         /\ blocks[b].prev = NULL <=> b = r.start

\* The free list holds each free block once and no used block, and no two of
\* them are neighbours: kfree "coalesces with physically adjacent prev/next free
\* blocks to curb fragmentation".
FreeListExact ==
  /\ \A b \in DOMAIN blocks : ~blocks[b].used => ~IsFree(blocks, blocks[b].next)
  /\ ToSet(free_list) = {b \in DOMAIN blocks : ~blocks[b].used}
  /\ Len(free_list) = Cardinality(ToSet(free_list))

UsedBlocks == {b \in DOMAIN blocks : blocks[b].used}

\* The bytes of the payloads of the used blocks.
PayloadOf(b) == Payload(b) .. EndOf(b) - 1
UsedBytes == UNION {PayloadOf(b) : b \in UsedBlocks}

\* heap_get_used counts them, "total bytes currently allocated (user payload only)".
HeapUsedExact == heap_used = Cardinality(UsedBytes)

\* The block that holds the memory behind a pointer.
BlockUnder(p) == {b \in UsedBlocks : Payload(b) <= p /\ p < EndOf(b)}

\* "Allocate `size` bytes. Returns NULL on failure." (heap.h): the memory behind
\* a pointer that was returned holds all the bytes that were asked for, however
\* the block was cut, merged, or kept by krealloc; below an aligned pointer there
\* is room for the raw pointer that kmalloc_aligned stores.
GrantedInFull ==
  \A p \in DOMAIN live : \E b \in BlockUnder(p) :
     /\ p + live[p] <= EndOf(b)
     /\ p \in Plain \/ Payload(b) <= p - PointerSize

\* kmalloc calls itself after grow_heap, and does so once: the region it obtained has
\* room for the request, so that the call does not grow the heap again and again until
\* the stack or the memory is used up.
GrowthIsEnough ==
  [][regions' # regions /\ call' # Idle =>
       \E i \in DOMAIN free_list' : blocks'[free_list'[i]].size >= call'.size]_vars

\* Every used block is one caller's, and one only (the block that krealloc copies
\* to has its caller in call): what was freed is free again, so nothing leaks,
\* and no block is handed out twice.
EveryBlockHasOneOwner ==
  \A b \in UsedBlocks :
    IF call # Idle /\ call.op = "copy" /\ b = HeaderOf(call.new)
    THEN \A p \in DOMAIN live : b \notin BlockUnder(p)
    ELSE Cardinality({p \in DOMAIN live : b \in BlockUnder(p)}) = 1
=============================================================================
