-------------------------------- MODULE Zram --------------------------------
(***************************************************************************)
(* The pool of compressed pages (kernel/core/zram.c): a table of slots     *)
(* whose payloads are heap allocations, and the statistics kept beside it. *)
(* Pages are model values; how long a page is compressed is a constant of  *)
(* the page, negative when zram_compress_page gives up (module ZramCodec). *)
(***************************************************************************)
EXTENDS Integers, FiniteSets, FiniteSetsExt

CONSTANTS
  Pages,      \* contents of pages
  CompLen,    \* CompLen[p]: what zram_compress_page returns for page p
  MaxPages,   \* ZRAM_MAX_PAGES
  PageSize,   \* ZRAM_PAGE_SIZE
  Margin,     \* a page must save more than this many bytes (64)
  Buffers,    \* heap buffers; kmalloc fails when all are taken, or earlier
  MaxOps      \* bound: lifetime compressions and decompressions counted

ASSUME ZramAssumption ==
  /\ CompLen \in [Pages -> Int]
  /\ MaxPages \in Nat \ {0} /\ PageSize \in Nat /\ Margin \in 0 .. PageSize - 1
  /\ MaxOps \in Nat
  /\ 0 \notin Buffers

VARIABLES
  pool,      \* slot -> data, compressed_len, used
  stats,
  heap,      \* buffer in use -> the page whose stream it holds
  ret,       \* return value of the last call
  handles    \* history: handle a caller holds -> the page it stored

vars == <<pool, stats, heap, ret, handles>>

NULL == 0
Slots == 0 .. MaxPages - 1
EmptySlot == [data |-> NULL, compressed_len |-> 0, used |-> FALSE]

FreeSlots == {s \in Slots : ~pool[s].used}

Ratio(original, compressed) == (original * 100) \div compressed
-----------------------------------------------------------------------------
Init ==
  /\ pool = [s \in Slots |-> EmptySlot]
  /\ stats = [pages_stored |-> 0, original_bytes |-> 0, compressed_bytes |-> 0,
              compression_ratio_x100 |-> 100, total_compressions |-> 0,
              total_decompressions |-> 0]
  /\ heap = << >>
  /\ ret = 0
  /\ handles = << >>

Return(code) == ret' = code

Unchanged == UNCHANGED <<pool, stats, heap, handles>>

\* The errors of zram_store in the order of its checks.
StoreInvalid == Return(-1) /\ Unchanged

StorePoolFull == FreeSlots = {} /\ Return(-2) /\ Unchanged

Compressible(p) == 0 < CompLen[p] /\ CompLen[p] < PageSize - Margin

StoreIncompressible(p) ==
  /\ FreeSlots # {} /\ ~Compressible(p)
  /\ Return(-3) /\ Unchanged

StoreNoMemory(p) ==
  /\ FreeSlots # {} /\ Compressible(p)
  /\ Return(-4) /\ Unchanged

zram_store(p) ==
  /\ stats.total_compressions < MaxOps
  /\ FreeSlots # {} /\ Compressible(p)
  /\ \E buf \in Buffers \ DOMAIN heap :
       LET slot == Min(FreeSlots)
           original == stats.original_bytes + PageSize
           compressed == stats.compressed_bytes + CompLen[p]
       IN
       /\ heap' = [b \in DOMAIN heap \cup {buf} |-> IF b = buf THEN p ELSE heap[b]]
       /\ pool' = [pool EXCEPT ![slot] =
                     [data |-> buf, compressed_len |-> CompLen[p], used |-> TRUE]]
       /\ stats' = [stats EXCEPT
                      !.pages_stored = @ + 1,
                      !.original_bytes = original,
                      !.compressed_bytes = compressed,
                      !.total_compressions = @ + 1,
                      !.compression_ratio_x100 = Ratio(original, compressed)]
       /\ handles' = [h \in DOMAIN handles \cup {slot} |-> IF h = slot THEN p ELSE handles[h]]
  /\ Return(0)

\* A handle past the table, or of a slot that is free.
Invalid(handle) == handle \notin Slots \/ (handle \in Slots /\ ~pool[handle].used)

\* Mutant: a page that was loaded is dropped.
zram_load_Consumes(handle) ==
  /\ stats.total_decompressions < MaxOps
  /\ handle \in DOMAIN handles /\ ~Invalid(handle)
  /\ stats' = [stats EXCEPT !.total_decompressions = @ + 1]
  /\ pool' = [pool EXCEPT ![handle] = EmptySlot]
  /\ Return(0)
  /\ UNCHANGED <<heap, handles>>

\* The stream is one of zram_compress_page, which zram_decompress_page does not
\* reject (ZramCodec).
zram_load(handle) ==
  /\ stats.total_decompressions < MaxOps
  /\ handle \in DOMAIN handles /\ ~Invalid(handle)
  /\ stats' = [stats EXCEPT !.total_decompressions = @ + 1]
  /\ Return(0)
  /\ UNCHANGED <<pool, heap, handles>>

InvalidHandle(handle) == Invalid(handle) /\ Return(-1) /\ Unchanged

\* Mutant: the ratio is not computed anew.
RatioAfterFree_Stale(original, compressed) == stats.compression_ratio_x100

RatioAfterFree(original, compressed) ==
  IF compressed > 0 THEN Ratio(original, compressed) ELSE 100

\* A caller frees a handle it holds.
zram_free(handle) ==
  /\ handle \in DOMAIN handles /\ ~Invalid(handle)
  /\ LET original == stats.original_bytes - PageSize
         compressed == stats.compressed_bytes - pool[handle].compressed_len
     IN stats' = [stats EXCEPT
                    !.pages_stored = @ - 1,
                    !.original_bytes = original,
                    !.compressed_bytes = compressed,
                    !.compression_ratio_x100 = RatioAfterFree(original, compressed)]
  /\ heap' = [b \in DOMAIN heap \ {pool[handle].data} |-> heap[b]]
  /\ pool' = [pool EXCEPT ![handle] = EmptySlot]
  /\ handles' = [h \in DOMAIN handles \ {handle} |-> handles[h]]
  /\ Return(0)

Next ==
  \/ StoreInvalid
  \/ StorePoolFull
  \/ \E p \in Pages : StoreIncompressible(p) \/ StoreNoMemory(p) \/ zram_store(p)
  \/ \E handle \in 0 .. MaxPages :
       zram_load(handle) \/ zram_free(handle) \/ InvalidHandle(handle)

Spec == Init /\ [][Next]_vars
-----------------------------------------------------------------------------
UsedSlots == {s \in Slots : pool[s].used}

\* The bytes of the streams in the slots in use.
StoredBytes == UNION {{s} \X (1 .. pool[s].compressed_len) : s \in UsedSlots}

\* Type correctness.
TypeOK ==
  /\ \A s \in Slots : /\ pool[s].data \in Buffers \cup {NULL}
                      /\ pool[s].compressed_len \in 0 .. PageSize - Margin - 1
                      /\ pool[s].used \in BOOLEAN
  /\ \A field \in DOMAIN stats : stats[field] \in Nat
  /\ DOMAIN heap \subseteq Buffers
  /\ ret \in -4 .. 0
  /\ DOMAIN handles \subseteq Slots

\* The statistics that zram_get_stats copies out are those of the slots in use,
\* through failed stores, reuse of slots and frees in any order; the ratio is
\* the one of the pages stored now, and 100 when there are none.
StatsExact ==
  LET compressed == Cardinality(StoredBytes) IN
  /\ TypeOK
  /\ stats.pages_stored = Cardinality(UsedSlots)
  /\ stats.original_bytes = PageSize * Cardinality(UsedSlots)
  /\ stats.compressed_bytes = compressed
  /\ stats.compression_ratio_x100 =
       IF UsedSlots = {} THEN 100 ELSE Ratio(stats.original_bytes, compressed)

\* What zram_load decompresses for a handle is the page that was stored under
\* it, whatever was stored, freed or refused in between; and each buffer on the
\* heap is the payload of one slot, so that freeing the handles gives it all back.
HandlesKeepTheirPage ==
  /\ \A h \in DOMAIN handles :
    /\ pool[h].used
    /\ pool[h].data \in DOMAIN heap
    /\ heap[pool[h].data] = handles[h]
  /\ \A b \in DOMAIN heap : Cardinality({s \in UsedSlots : pool[s].data = b}) = 1

=============================================================================
