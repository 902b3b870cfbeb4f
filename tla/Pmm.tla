-------------------------------- MODULE Pmm --------------------------------
(***************************************************************************)
(* The physical memory manager (kernel/core/pmm.c) with the boot code of   *)
(* kernel_main that reserves the kernel image and the bitmap, and the      *)
(* callers that take frames from it (heap, slab, page tables).             *)
(*                                                                         *)
(* A physical address is the number of its frame.  The bitmap is the set   *)
(* of the frames whose bit is 1.  WordBits stands for the 64 bits of the   *)
(* words that pmm_alloc_frame scans.                                       *)
(***************************************************************************)
EXTENDS Integers, FiniteSets, FiniteSetsExt

CONSTANTS
  TotalFrames,     \* frames of RAM, mem_size / PAGE_SIZE
  WordBits,        \* bits of a bitmap word
  ReservedFrames,  \* frames of the kernel image and of the bitmap
  MaxRun           \* bound: longest run a caller asks for

ASSUME PmmAssumption ==
  /\ TotalFrames \in Nat \ {0}
  /\ WordBits \in Nat \ {0}
  /\ ReservedFrames \in Nat \ {0}
  /\ MaxRun \in Nat

VARIABLES
  bitmap,       \* frames whose bit is 1
  used_frames,
  alloc_hint,
  boot_next,    \* loop variable of the reservation loop in kernel_main
  ret,          \* what the last allocation returned
  held,         \* history: frames that callers were given and did not free
  asked         \* history: how many frames the last allocation asked for

vars == <<bitmap, used_frames, alloc_hint, boot_next, ret, held, asked>>

Frames == 0 .. TotalFrames - 1
Free == Frames \ bitmap

Booted == boot_next = ReservedFrames

Reserved == {f \in Frames : f < ReservedFrames}
-----------------------------------------------------------------------------
\* The scan of pmm_alloc_frame: the words from the hint on, the words before
\* the hint, the trailing bits.  Words and bits are tried in ascending order,
\* so a phase finds the least frame of its range.
WordOf(f) == f \div WordBits
TotalWords == TotalFrames \div WordBits

Phase1 == {f \in Free : WordOf(alloc_hint) <= WordOf(f) /\ WordOf(f) < TotalWords}
Phase2 == {f \in Free : WordOf(f) < WordOf(alloc_hint) /\ WordOf(f) < TotalWords}
Phase3 == {f \in Free : TotalWords <= WordOf(f)}

\* Mutant: the trailing bits are not scanned.
Candidates_NoTail == IF Phase1 # {} THEN Phase1 ELSE Phase2

Candidates == IF Phase1 # {} THEN Phase1 ELSE IF Phase2 # {} THEN Phase2 ELSE Phase3

\* The scan of pmm_alloc_contiguous counts free bits from frame 0 and stops
\* when it has counted n of them: at the least start of n free frames.
Run(s, n) == s .. s + n - 1
RunStarts(n) == {s \in Frames : s + n <= TotalFrames /\ Run(s, n) \subseteq Free}
-----------------------------------------------------------------------------
Init ==
  /\ bitmap = {}
  /\ used_frames = 0
  /\ alloc_hint = 0
  /\ boot_next = 0
  /\ ret = 0
  /\ held = {}
  /\ asked = 0

mark_used(f) ==
  IF f \in Free
  THEN bitmap' = bitmap \cup {f} /\ used_frames' = used_frames + 1
  ELSE UNCHANGED <<bitmap, used_frames>>

\* Mutants: a frame that is free already is counted again; the hint stays.
mark_free_Twice(f) ==
  /\ bitmap' = bitmap \ {f}
  /\ used_frames' = used_frames - 1
  /\ alloc_hint' = IF f < alloc_hint THEN f ELSE alloc_hint

mark_free_KeepHint(f) ==
  /\ bitmap' = bitmap \ {f}
  /\ used_frames' = IF f \in bitmap THEN used_frames - 1 ELSE used_frames
  /\ UNCHANGED alloc_hint

mark_free(f) ==
  IF f \in bitmap
  THEN /\ bitmap' = bitmap \ {f}
       /\ used_frames' = used_frames - 1
       /\ alloc_hint' = IF f < alloc_hint THEN f ELSE alloc_hint
  ELSE UNCHANGED <<bitmap, used_frames, alloc_hint>>

\* Mutant: the loop reserves from frame 1 on.
ReserveBoot_FromOne ==
  /\ boot_next < ReservedFrames
  /\ mark_used(boot_next + 1)
  /\ boot_next' = boot_next + 1
  /\ UNCHANGED <<alloc_hint, ret, held, asked>>

ReserveBoot ==
  /\ boot_next < ReservedFrames
  /\ mark_used(boot_next)
  /\ boot_next' = boot_next + 1
  /\ UNCHANGED <<alloc_hint, ret, held, asked>>

\* A caller reads the return value 0 as failure, whatever was allocated.
GiveToCaller(S) == held' = IF ret' = 0 THEN held ELSE held \cup S

AllocFrame ==
  /\ Booted
  /\ asked' = 1
  /\ used_frames < TotalFrames
  /\ Candidates # {}
  /\ LET f == Min(Candidates) IN
       /\ bitmap' = bitmap \cup {f}
       /\ used_frames' = used_frames + 1
       /\ alloc_hint' = f + 1
       /\ ret' = f
       /\ GiveToCaller({f})
  /\ UNCHANGED boot_next

AllocFrameFails ==
  /\ Booted
  /\ asked' = 1
  /\ used_frames >= TotalFrames \/ Candidates = {}
  /\ ret' = 0
  /\ UNCHANGED <<bitmap, used_frames, alloc_hint, boot_next, held>>

AllocContiguous(n) ==
  /\ Booted
  /\ asked' = n
  /\ n > 0
  /\ RunStarts(n) # {}
  /\ LET s == Min(RunStarts(n)) IN
       /\ bitmap' = bitmap \cup Run(s, n)
       /\ used_frames' = used_frames + n
       /\ ret' = s
       /\ GiveToCaller(Run(s, n))
  /\ UNCHANGED <<alloc_hint, boot_next>>

AllocContiguousFails(n) ==
  /\ Booted
  /\ asked' = n
  /\ n = 0 \/ RunStarts(n) = {}
  /\ ret' = 0
  /\ UNCHANGED <<bitmap, used_frames, alloc_hint, boot_next, held>>

\* A caller frees a frame it holds; a second free of a frame that nobody took
\* in between, and the free of an address past the end of RAM, are ignored.
FreeFrame(f) ==
  /\ Booted
  /\ f \in held \/ f \notin bitmap
  /\ mark_free(f)
  /\ held' = held \ {f}
  /\ UNCHANGED <<boot_next, ret, asked>>

Next ==
  \/ ReserveBoot
  \/ AllocFrame
  \/ AllocFrameFails
  \/ \E n \in 0 .. MaxRun : AllocContiguous(n) \/ AllocContiguousFails(n)
  \/ \E f \in 0 .. TotalFrames : FreeFrame(f)

Spec == Init /\ [][Next]_vars
-----------------------------------------------------------------------------
\* Type correctness of the allocator's state: the hint may point one past the
\* last frame and never further.
TypeOK ==
  /\ bitmap \in SUBSET Frames
  /\ used_frames \in 0 .. TotalFrames
  /\ alloc_hint \in 0 .. TotalFrames
  /\ boot_next \in 0 .. ReservedFrames
  /\ ret \in 0 .. TotalFrames - 1
  /\ held \in SUBSET Frames
  /\ asked \in Nat

\* The counter behind pmm_get_used_memory and pmm_get_free_memory, and the
\* early return of pmm_alloc_frame, agree with the bitmap through reservations,
\* single and contiguous allocations and frees.
UsedFramesExact == used_frames = Cardinality(bitmap)

\* No frame below the hint is free: the scan that starts at the hint's word
\* misses nothing, and the wrap-around phase never finds a frame.
HintIsSound == \A f \in Free : alloc_hint <= f

\* After boot every used frame belongs to the kernel image or to a caller, and
\* none belongs to both: "so PMM never hands them out" in kernel_main, and no
\* frame is lost to a caller that took the return value 0 for a failure.
EveryFrameHasOneOwner ==
  Booted => held \cap Reserved = {} /\ held \cup Reserved = bitmap

FA == INSTANCE FrameAllocator WITH allocated <- bitmap, reply <- ret

\* The bitmap, hint and word scan implement the abstract frame allocator: the
\* least available frame, the first fitting run, failure only when there is none.
RefinesFrameAllocator == FA!Spec
=============================================================================
