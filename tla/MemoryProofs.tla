---------------------------- MODULE MemoryProofs ----------------------------
(***************************************************************************)
(* Proofs about the physical memory manager, for every amount of RAM, word *)
(* width, kernel size and run length, and about the slab allocator on top  *)
(* of it, for every table of chunk sizes; then about the walk over the     *)
(* boot information, for every list of tags and every memory map.          *)
(*                                                                         *)
(* In the physical memory manager the counter and the hint are each half   *)
(* of the argument: that the hint is sound needs the search to find the    *)
(* least free frame, which needs the hint to be sound; that a failure is   *)
(* honest needs the counter to be the number of used frames.  IInv is      *)
(* their conjunction with the ownership of frames, strengthened by what    *)
(* holds while the kernel reserves its image.                              *)
(*                                                                         *)
(* In the slab allocator the frames behind a zone are not stored: SlabInv  *)
(* recovers them from its chunks, and says that the chunks are exactly     *)
(* those that fit in the frames, and that the frames of two zones differ.  *)
(* A new frame is none of them because IInv makes a frame that the bitmap  *)
(* shows free one that nobody holds.                                       *)
(*                                                                         *)
(* In the walk, WalkInv places the offset at the end of one of the tags    *)
(* that the boot loader wrote, and knows what the tags before it said.     *)
(* Offsets and the RAM in the memory map are sums defined by recursion,    *)
(* which RunningSum makes into sums taken term by term.                    *)
(***************************************************************************)
EXTENDS Memory, KernelLemmas

\* Until the reservation loop of kernel_main ends, exactly the frames it has
\* passed are used and nobody holds one.
BootPrefix ==
  ~Booted => bitmap = {f \in Frames : f < boot_next} /\ held = {}

IInv ==
  /\ TypeOK
  /\ UsedFramesExact
  /\ HintIsSound
  /\ BootPrefix
  /\ EveryFrameHasOneOwner

USE PmmAssumption
-----------------------------------------------------------------------------
LEMMA FramesFinite ==
  ASSUME NEW F \in SUBSET Frames
  PROVE  IsFiniteSet(F) /\ Cardinality(F) \in 0 .. TotalFrames
<1>1. IsFiniteSet(Frames) /\ Cardinality(Frames) = TotalFrames
  BY FS_Interval DEF Frames
<1>2. IsFiniteSet(F) /\ Cardinality(F) <= Cardinality(Frames)
  BY <1>1, FS_Subset
<1> QED
  BY <1>1, <1>2, FS_CardinalityType

\* The early return of pmm_alloc_frame is taken only when every bit is set.
LEMMA FullMeansNoneFree ==
  ASSUME TypeOK, UsedFramesExact, used_frames >= TotalFrames
  PROVE  Free = {}
<1>1. IsFiniteSet(Frames) /\ Cardinality(Frames) = TotalFrames
  BY FS_Interval DEF Frames
<1>2. bitmap \in SUBSET Frames /\ Cardinality(bitmap) = Cardinality(Frames)
  BY <1>1, FramesFinite DEF TypeOK, UsedFramesExact
<1>3. bitmap = Frames
  BY <1>1, <1>2, FS_Subset
<1> QED
  BY <1>3 DEF Free

\* The three phases together look at every free frame.
LEMMA NoCandidates ==
  ASSUME TypeOK, Candidates = {}
  PROVE  Free = {}
<1> DEFINE wh == WordOf(alloc_hint)
<1>1. wh \in Int /\ TotalWords \in Int /\ \A f \in Free : WordOf(f) \in Int
  BY DEF WordOf, TotalWords, TypeOK, Free, Frames
<1>2. Phase1 = {} /\ Phase2 = {} /\ Phase3 = {}
  BY DEF Candidates
<1> QED
  BY <1>1, <1>2 DEF Phase1, Phase2, Phase3

\* With a sound hint the word scan finds the least free frame: phase 2 never
\* finds any, phase 3 only when the whole words are full.
LEMMA SearchFindsLeast ==
  ASSUME TypeOK, HintIsSound, Candidates # {}
  PROVE  /\ Min(Candidates) \in Free
         /\ \A g \in Free : Min(Candidates) <= g
<1> DEFINE wh == WordOf(alloc_hint)
           f == Min(Candidates)
<1>1. Free \in SUBSET Nat /\ alloc_hint \in Nat
  BY DEF Free, Frames, TypeOK
<1>2. wh \in Int /\ TotalWords \in Int /\ \A g \in Nat : WordOf(g) \in Int
  BY <1>1 DEF WordOf, TotalWords
<1>3. \A g, h \in Nat : g <= h => WordOf(g) <= WordOf(h)
  BY DivMonotone DEF WordOf
<1>4. \A g \in Free : wh <= WordOf(g)
  BY <1>1, <1>3 DEF HintIsSound
<1>5. Phase2 = {}
  <2>1. ASSUME NEW g \in Free PROVE ~(WordOf(g) < wh)
    <3>1. g \in Nat /\ WordOf(g) \in Int /\ wh <= WordOf(g)
      BY <1>1, <1>2, <1>4
    <3> QED BY <3>1, <1>2
  <2> QED BY <2>1 DEF Phase2
<1>6. Candidates \in SUBSET Nat
  BY <1>1 DEF Candidates, Phase1, Phase2, Phase3
<1>7. f \in Candidates /\ \A y \in Candidates : f <= y
  BY <1>6, MinOfNaturals
<1> HIDE DEF f
<1>8. f \in Free
  BY <1>7 DEF Candidates, Phase1, Phase2, Phase3
<1>9. ASSUME NEW g \in Free PROVE f <= g
  <2>1. CASE Phase1 # {}
    <3>1. Candidates = Phase1
      BY <2>1 DEF Candidates
    <3>2. CASE g \in Phase1
      BY <3>1, <3>2, <1>7
    <3>3. CASE g \notin Phase1
      <4>1. TotalWords <= WordOf(g) /\ WordOf(f) < TotalWords
        BY <3>1, <3>3, <1>1, <1>2, <1>4, <1>7 DEF Phase1
      <4>2. ~(g <= f)
        BY <4>1, <1>1, <1>2, <1>3, <1>8
      <4> QED BY <4>2, <1>1, <1>8
    <3> QED BY <3>2, <3>3
  <2>2. CASE Phase1 = {}
    <3>1. Candidates = Phase3
      BY <2>2, <1>5 DEF Candidates
    <3>2. g \in Phase3
      BY <2>2, <1>1, <1>2, <1>4 DEF Phase1, Phase3
    <3> QED BY <3>1, <3>2, <1>7
  <2> QED BY <2>1, <2>2
<1> QED
  BY <1>8, <1>9 DEF f

\* The first fitting run lies in RAM and is wholly free.
LEMMA RunFindsLeast ==
  ASSUME TypeOK, NEW n \in Nat, RunStarts(n) # {}
  PROVE  /\ Min(RunStarts(n)) \in RunStarts(n)
         /\ \A s \in RunStarts(n) : Min(RunStarts(n)) <= s
<1>1. RunStarts(n) \in SUBSET Nat
  BY DEF RunStarts, Frames
<1> QED
  BY <1>1, MinOfNaturals

\* Marking n free frames raises the number of used frames by n.
LEMMA RunCardinality ==
  ASSUME TypeOK, NEW n \in Nat \ {0}, NEW s \in RunStarts(n)
  PROVE  Cardinality(bitmap \cup Run(s, n)) = Cardinality(bitmap) + n
<1>1. s \in Int /\ n \in Int /\ Run(s, n) \cap bitmap = {}
  BY DEF RunStarts, Frames, Free
<1>2. IsFiniteSet(Run(s, n)) /\ Cardinality(Run(s, n)) = n
  <2>1. s \in Int /\ s + n - 1 \in Int /\ ~(s > s + n - 1) /\ (s + n - 1) - s + 1 = n
    BY <1>1
  <2> QED BY <2>1, FS_Interval DEF Run
<1>3. IsFiniteSet(bitmap) /\ Cardinality(bitmap) \in Nat
  BY FramesFinite DEF TypeOK
<1>4. bitmap \cap Run(s, n) = {} /\ Cardinality({}) = 0
  BY <1>1, FS_EmptySet
<1>5. Cardinality(bitmap \cup Run(s, n)) = Cardinality(bitmap) + n - 0
  BY <1>2, <1>3, <1>4, FS_Union
<1> QED
  BY <1>3, <1>5
-----------------------------------------------------------------------------
LEMMA InitInv == Init => IInv
<1> SUFFICES ASSUME Init PROVE IInv
  OBVIOUS
<1>1. TypeOK
  BY DEF Init, TypeOK, Frames
<1>2. UsedFramesExact
  BY FS_EmptySet DEF Init, UsedFramesExact
<1>3. HintIsSound
  BY DEF Init, HintIsSound, Free, Frames
<1>4. BootPrefix
  BY DEF Init, BootPrefix, Frames
<1>5. EveryFrameHasOneOwner
  BY DEF Init, EveryFrameHasOneOwner, Booted
<1> QED
  BY <1>1, <1>2, <1>3, <1>4, <1>5 DEF IInv

LEMMA ReserveBootInv == IInv /\ ReserveBoot => IInv'
<1> SUFFICES ASSUME IInv, ReserveBoot PROVE IInv'
  OBVIOUS
<1> USE DEF IInv
<1>0. ~Booted /\ boot_next \in Nat /\ boot_next < ReservedFrames
  BY DEF ReserveBoot, Booted, TypeOK
<1>1. bitmap = {f \in Frames : f < boot_next} /\ held = {}
  BY <1>0 DEF BootPrefix
<1>2. bitmap' = {f \in Frames : f < boot_next + 1}
  <2>1. CASE boot_next \in Free
    BY <1>0, <1>1, <2>1 DEF ReserveBoot, mark_used, Free, Frames
  <2>2. CASE boot_next \notin Free
    <3>1. bitmap' = bitmap /\ ~(boot_next < TotalFrames)
      BY <1>0, <1>1, <2>2 DEF ReserveBoot, mark_used, Free, Frames
    <3> QED BY <1>0, <1>1, <3>1 DEF Frames
  <2> QED BY <2>1, <2>2
<1>3. IsFiniteSet(bitmap) /\ IsFiniteSet(bitmap') /\ Cardinality(bitmap') \in 0 .. TotalFrames
  BY <1>1, <1>2, FramesFinite DEF TypeOK
<1>4. UsedFramesExact'
  <2>1. CASE boot_next \in Free
    BY <1>3, <2>1, FS_AddElement DEF ReserveBoot, mark_used, UsedFramesExact, Free
  <2>2. CASE boot_next \notin Free
    BY <2>2 DEF ReserveBoot, mark_used, UsedFramesExact
  <2> QED BY <2>1, <2>2
<1>5. TypeOK'
  BY <1>0, <1>2, <1>3, <1>4 DEF ReserveBoot, TypeOK, UsedFramesExact
<1>6. HintIsSound'
  <2>1. bitmap \subseteq bitmap'
    BY DEF ReserveBoot, mark_used
  <2> QED BY <2>1 DEF ReserveBoot, HintIsSound, Free
<1>7. BootPrefix' /\ EveryFrameHasOneOwner'
  BY <1>1, <1>2 DEF ReserveBoot, BootPrefix, EveryFrameHasOneOwner, Booted, Reserved
<1> QED
  BY <1>4, <1>5, <1>6, <1>7

LEMMA AllocFrameInv == IInv /\ AllocFrame => IInv'
<1> SUFFICES ASSUME IInv, AllocFrame PROVE IInv'
  OBVIOUS
<1> USE DEF IInv
<1> DEFINE f == Min(Candidates)
<1>1. f \in Free /\ \A g \in Free : f <= g
  BY SearchFindsLeast DEF AllocFrame
<1>2. /\ bitmap' = bitmap \cup {f}
      /\ used_frames' = used_frames + 1
      /\ alloc_hint' = f + 1
      /\ ret' = f
      /\ held' = IF f = 0 THEN held ELSE held \cup {f}
      /\ boot_next' = boot_next /\ asked' = 1 /\ Booted
  BY DEF AllocFrame, GiveToCaller
<1> HIDE DEF f
<1>3. f \in Frames /\ f \in Nat /\ f < TotalFrames /\ f \notin bitmap
  BY <1>1 DEF Free, Frames
<1>4. UsedFramesExact'
  <2>1. IsFiniteSet(bitmap)
    BY FramesFinite DEF TypeOK
  <2> QED BY <1>2, <1>3, <2>1, FS_AddElement DEF UsedFramesExact
<1>5. TypeOK'
  <2>1. bitmap' \in SUBSET Frames /\ held' \in SUBSET Frames
    BY <1>2, <1>3 DEF TypeOK
  <2>2. used_frames' \in 0 .. TotalFrames
    BY <2>1, <1>4, FramesFinite DEF UsedFramesExact
  <2>3. alloc_hint' \in 0 .. TotalFrames /\ ret' \in 0 .. TotalFrames - 1
    BY <1>2, <1>3
  <2> QED BY <1>2, <2>1, <2>2, <2>3 DEF TypeOK
<1>6. HintIsSound'
  <2>1. ASSUME NEW g \in Free' PROVE alloc_hint' <= g
    <3>1. g \in Free /\ g # f /\ g \in Nat /\ f <= g
      BY <1>1, <1>2 DEF Free, Frames
    <3> QED BY <1>2, <1>3, <3>1
  <2> QED BY <2>1 DEF HintIsSound
<1>7. f # 0 /\ f \notin Reserved
  <2>1. Reserved \subseteq bitmap /\ 0 \in Reserved
    BY <1>2 DEF EveryFrameHasOneOwner, Reserved, Frames
  <2> QED BY <2>1, <1>3
<1>8. EveryFrameHasOneOwner' /\ BootPrefix'
  <2>1. Booted' /\ Reserved' = Reserved /\ held' = held \cup {f}
    BY <1>2, <1>7 DEF Booted, Reserved
  <2> QED BY <1>2, <1>7, <2>1 DEF EveryFrameHasOneOwner, BootPrefix
<1> QED
  BY <1>4, <1>5, <1>6, <1>8

LEMMA AllocContiguousInv ==
  ASSUME NEW n \in 0 .. MaxRun, IInv, AllocContiguous(n)
  PROVE  IInv'
<1> USE DEF IInv
<1> DEFINE s == Min(RunStarts(n))
<1>1. n \in Nat \ {0} /\ s \in RunStarts(n)
  BY RunFindsLeast DEF AllocContiguous
<1>2. /\ bitmap' = bitmap \cup Run(s, n)
      /\ used_frames' = used_frames + n
      /\ ret' = s
      /\ held' = IF s = 0 THEN held ELSE held \cup Run(s, n)
      /\ alloc_hint' = alloc_hint /\ boot_next' = boot_next /\ asked' = n /\ Booted
  BY DEF AllocContiguous, GiveToCaller
<1> HIDE DEF s
<1>3. s \in Frames /\ s \in Nat /\ Run(s, n) \subseteq Free /\ s \in Run(s, n)
  BY <1>1 DEF RunStarts, Frames, Run
<1>4. UsedFramesExact'
  BY <1>1, <1>2, RunCardinality DEF UsedFramesExact
<1>5. TypeOK'
  <2>1. bitmap' \in SUBSET Frames /\ held' \in SUBSET Frames
    BY <1>2, <1>3 DEF TypeOK, Free
  <2>2. used_frames' \in 0 .. TotalFrames
    BY <2>1, <1>4, FramesFinite DEF UsedFramesExact
  <2> QED BY <1>1, <1>2, <1>3, <2>1, <2>2 DEF TypeOK, Frames
<1>6. HintIsSound'
  BY <1>2 DEF HintIsSound, Free
<1>7. s # 0 /\ Run(s, n) \cap Reserved = {}
  <2>1. Reserved \subseteq bitmap /\ 0 \in Reserved
    BY <1>2 DEF EveryFrameHasOneOwner, Reserved, Frames
  <2> QED BY <2>1, <1>3 DEF Free
<1>8. EveryFrameHasOneOwner' /\ BootPrefix'
  <2>1. Booted' /\ Reserved' = Reserved /\ held' = held \cup Run(s, n)
    BY <1>2, <1>7 DEF Booted, Reserved
  <2> QED BY <1>2, <1>7, <2>1 DEF EveryFrameHasOneOwner, BootPrefix
<1> QED
  BY <1>4, <1>5, <1>6, <1>8

LEMMA FreeFrameInv ==
  ASSUME NEW f \in 0 .. TotalFrames, IInv, FreeFrame(f)
  PROVE  IInv'
<1> USE DEF IInv
<1>1. CASE f \in bitmap
  <2>1. /\ f \in held /\ f \in Frames /\ Booted
        /\ bitmap' = bitmap \ {f} /\ used_frames' = used_frames - 1
        /\ alloc_hint' = IF f < alloc_hint THEN f ELSE alloc_hint
        /\ boot_next' = boot_next /\ ret' = ret /\ asked' = asked /\ held' = held \ {f}
    BY <1>1 DEF FreeFrame, mark_free, TypeOK
  <2>2. UsedFramesExact'
    <3>1. IsFiniteSet(bitmap)
      BY FramesFinite DEF TypeOK
    <3> QED BY <1>1, <2>1, <3>1, FS_RemoveElement DEF UsedFramesExact
  <2>3. TypeOK'
    <3>1. bitmap' \in SUBSET Frames /\ held' \in SUBSET Frames
      BY <2>1 DEF TypeOK
    <3>2. used_frames' \in 0 .. TotalFrames
      BY <3>1, <2>2, FramesFinite DEF UsedFramesExact
    <3> QED BY <2>1, <3>1, <3>2 DEF TypeOK, Frames
  <2>4. HintIsSound'
    <3>1. ASSUME NEW g \in Free' PROVE alloc_hint' <= g
      <4>1. g \in Nat /\ (g = f \/ g \in Free) /\ f \in Nat /\ alloc_hint \in Nat
        BY <2>1 DEF Free, Frames, TypeOK
      <4>2. g = f \/ alloc_hint <= g
        BY <4>1 DEF HintIsSound
      <4> QED BY <2>1, <4>1, <4>2
    <3> QED BY <3>1 DEF HintIsSound
  <2>5. EveryFrameHasOneOwner' /\ BootPrefix'
    BY <2>1 DEF EveryFrameHasOneOwner, BootPrefix, Booted, Reserved
  <2> QED BY <2>2, <2>3, <2>4, <2>5
<1>2. CASE f \notin bitmap
  <2>1. f \notin held
    BY <1>2 DEF FreeFrame, EveryFrameHasOneOwner
  <2>2. UNCHANGED vars
    BY <1>2, <2>1 DEF FreeFrame, mark_free, vars
  <2> QED BY <2>2 DEF vars, TypeOK, UsedFramesExact, HintIsSound, Free, BootPrefix,
                      EveryFrameHasOneOwner, Booted
<1> QED
  BY <1>1, <1>2

\* A failed allocation and a stuttering step change nothing the invariant sees.
LEMMA IdleInv ==
  ASSUME IInv, ret' \in 0 .. TotalFrames - 1, asked' \in Nat,
         UNCHANGED <<bitmap, used_frames, alloc_hint, boot_next, held>>
  PROVE  IInv'
BY DEF IInv, TypeOK, UsedFramesExact, HintIsSound, Free, BootPrefix,
       EveryFrameHasOneOwner, Booted

LEMMA StepInv == IInv /\ [Next]_vars => IInv'
<1> SUFFICES ASSUME IInv, [Next]_vars PROVE IInv'
  OBVIOUS
<1>1. CASE ReserveBoot
  BY <1>1, ReserveBootInv
<1>2. CASE AllocFrame
  BY <1>2, AllocFrameInv
<1>3. CASE AllocFrameFails
  BY <1>3, IdleInv DEF AllocFrameFails
<1>4. ASSUME NEW n \in 0 .. MaxRun, AllocContiguous(n) PROVE IInv'
  BY <1>4, AllocContiguousInv
<1>5. ASSUME NEW n \in 0 .. MaxRun, AllocContiguousFails(n) PROVE IInv'
  BY <1>5, IdleInv DEF AllocContiguousFails
<1>6. ASSUME NEW f \in 0 .. TotalFrames, FreeFrame(f) PROVE IInv'
  BY <1>6, FreeFrameInv
<1>7. CASE UNCHANGED vars
  BY <1>7, IdleInv DEF vars, IInv, TypeOK
<1> QED
  BY <1>1, <1>2, <1>3, <1>4, <1>5, <1>6, <1>7 DEF Next

LEMMA Invariance == Spec => []IInv
<1>1. Init => IInv
  BY InitInv
<1>2. IInv /\ [Next]_vars => IInv'
  BY StepInv
<1> QED
  BY <1>1, <1>2, PTL DEF Spec
-----------------------------------------------------------------------------
\* The allocator's state is well typed: the hint never points further than one
\* past the last frame and a reply is always the address of a frame.
THEOREM PmmTypeCorrect == Spec => []TypeOK
<1>1. IInv => TypeOK
  BY DEF IInv
<1> QED
  BY <1>1, Invariance, PTL

\* used_frames of kernel/core/pmm.c is the number of set bits of the bitmap.
THEOREM PmmCounterExact == Spec => []UsedFramesExact
<1>1. IInv => UsedFramesExact
  BY DEF IInv
<1> QED
  BY <1>1, Invariance, PTL

\* No frame below alloc_hint is free.
THEOREM PmmHintSound == Spec => []HintIsSound
<1>1. IInv => HintIsSound
  BY DEF IInv
<1> QED
  BY <1>1, Invariance, PTL

\* After boot each used frame is the kernel's or one caller's, never both.
THEOREM PmmOneOwner == Spec => []EveryFrameHasOneOwner
<1>1. IInv => EveryFrameHasOneOwner
  BY DEF IInv
<1> QED
  BY <1>1, Invariance, PTL
-----------------------------------------------------------------------------
\* Every step of the bitmap allocator is a step of the abstract one.
LEMMA StepRefines == IInv /\ [Next]_vars => [FA!Next]_<<bitmap, asked, ret>>
<1> SUFFICES ASSUME IInv, [Next]_vars PROVE [FA!Next]_<<bitmap, asked, ret>>
  OBVIOUS
<1> USE DEF IInv
<1>0. FA!Available = Free /\ FA!Frames = Frames /\ \A n : FA!RunStarts(n) = RunStarts(n)
  BY DEF FA!Available, FA!Frames, Free, Frames, FA!RunStarts, RunStarts, FA!RunOf, Run
<1>1. CASE ReserveBoot
  <2>1. CASE boot_next \in Free
    BY <1>0, <1>1, <2>1 DEF ReserveBoot, mark_used, Free, FA!Next, FA!Reserve
  <2>2. CASE boot_next \notin Free
    BY <1>1, <2>2 DEF ReserveBoot, mark_used
  <2> QED BY <2>1, <2>2
<1>2. CASE AllocFrame
  <2>1. Min(Candidates) \in Free /\ \A g \in Free : Min(Candidates) <= g
    BY <1>2, SearchFindsLeast DEF AllocFrame
  <2>2. FA!IsLeast(Min(Candidates), FA!Available)
    BY <1>0, <2>1 DEF FA!IsLeast
  <2>3. bitmap' = bitmap \cup {Min(Candidates)} /\ ret' = Min(Candidates) /\ asked' = 1
    BY <1>2 DEF AllocFrame
  <2>4. FA!Allocate
    BY <1>0, <2>1, <2>2, <2>3 DEF FA!Allocate
  <2> QED BY <2>4 DEF FA!Next
<1>3. CASE AllocFrameFails
  <2>1. Free = {}
    BY <1>3, FullMeansNoneFree, NoCandidates DEF AllocFrameFails
  <2>2. FA!Allocate
    BY <1>0, <1>3, <2>1 DEF AllocFrameFails, FA!Allocate
  <2> QED BY <2>2 DEF FA!Next
<1>4. ASSUME NEW n \in 0 .. MaxRun, AllocContiguous(n) PROVE FA!Next
  <2> DEFINE s == Min(RunStarts(n))
  <2>1. n > 0 /\ s \in RunStarts(n) /\ \A t \in RunStarts(n) : s <= t
    BY <1>4, RunFindsLeast DEF AllocContiguous
  <2>2. bitmap' = bitmap \cup Run(s, n) /\ ret' = s /\ asked' = n
    BY <1>4 DEF AllocContiguous
  <2> HIDE DEF s
  <2>3. FA!AllocateRun(n)
    BY <1>0, <2>1, <2>2 DEF FA!AllocateRun, FA!IsLeast, FA!RunOf, Run
  <2> QED BY <2>3 DEF FA!Next
<1>5. ASSUME NEW n \in 0 .. MaxRun, AllocContiguousFails(n) PROVE FA!Next
  BY <1>0, <1>5 DEF AllocContiguousFails, FA!AllocateRun, FA!Next
<1>6. ASSUME NEW f \in 0 .. TotalFrames, FreeFrame(f) PROVE [FA!Next]_<<bitmap, asked, ret>>
  <2>1. CASE f \in bitmap
    <3>1. f \in FA!Frames /\ bitmap' = bitmap \ {f} /\ UNCHANGED <<asked, ret>>
      BY <1>0, <1>6, <2>1 DEF FreeFrame, mark_free, TypeOK
    <3> QED BY <3>1 DEF FA!Next, FA!Release
  <2>2. CASE f \notin bitmap
    BY <1>6, <2>2 DEF FreeFrame, mark_free
  <2> QED BY <2>1, <2>2
<1>7. CASE UNCHANGED vars
  BY <1>7 DEF vars
<1> QED
  BY <1>1, <1>2, <1>3, <1>4, <1>5, <1>6, <1>7 DEF Next

\* The bitmap, the hint and the word scan implement the abstract allocator:
\* the least available frame, the first fitting run, an honest failure.
THEOREM PmmRefines == Spec => RefinesFrameAllocator
<1>1. Init => FA!Init
  BY DEF Init, FA!Init
<1>2. IInv /\ [Next]_vars => [FA!Next]_<<bitmap, asked, ret>>
  BY StepRefines
<1> QED
  BY <1>1, <1>2, Invariance, PTL DEF Spec, FA!Spec, RefinesFrameAllocator
-----------------------------------------------------------------------------
\* The steps of the composition are steps of the physical memory manager.
LEMMA MemoryStepIsPmmStep == [MemoryNext]_allVars => [Next]_vars
<1> SUFFICES ASSUME [MemoryNext]_allVars PROVE [Next]_vars
  OBVIOUS
<1>1. CASE ParseTag \/ pmm_init \/ UNCHANGED allVars
  BY <1>1 DEF ParseTag, pmm_init, allVars
<1>2. CASE ReserveBoot
  BY <1>2 DEF Next
<1>3. CASE OtherCaller
  BY <1>3 DEF OtherCaller, Next
<1>4. ASSUME NEW size \in Sizes, zalloc(size) PROVE [Next]_vars
  BY <1>4 DEF zalloc, Next
<1>5. ASSUME NEW ptr \in DOMAIN live, UNCHANGED vars PROVE [Next]_vars
  BY <1>5
<1> QED
  BY <1>1, <1>2, <1>3, <1>4, <1>5 DEF MemoryNext

\* What is proved of the physical memory manager alone holds with the boot code
\* of kernel_main before it and the slab allocator as its caller.
THEOREM MemoryRunsPmm == MemorySpec => Spec
<1>1. MemoryInit => Init
  BY DEF MemoryInit
<1> QED
  BY <1>1, MemoryStepIsPmmStep, PTL DEF MemorySpec, Spec

\* The frame that pmm_alloc_frame gives a caller is one that nobody holds.
LEMMA NewFrame ==
  ASSUME IInv, AllocFrame
  PROVE  /\ ret' \in Nat /\ ret' # 0 /\ ret' \notin held /\ held' = held \cup {ret'}
         /\ IsFiniteSet(held) /\ held \in SUBSET Nat
<1>1. ret' \in Free /\ held' = IF ret' = 0 THEN held ELSE held \cup {ret'}
  BY SearchFindsLeast DEF IInv, AllocFrame, GiveToCaller
<1>2. /\ held \subseteq bitmap /\ Reserved \subseteq bitmap /\ 0 \in Reserved
      /\ held \in SUBSET Frames
  BY DEF IInv, TypeOK, AllocFrame, EveryFrameHasOneOwner, Reserved, Frames
<1> QED
  BY <1>1, <1>2, FramesFinite DEF Free, Frames
-----------------------------------------------------------------------------
\* The chunks of zone i, the frames that they lie in, and the chunks that
\* zone_refill cuts from frames.
ZoneChunks(i) == S!FreeOf(i) \cup S!LiveOf(i)
PagesOf(i) == {p \div PageSize : p \in ZoneChunks(i)}
CutFrom(i, P) ==
  {f * PageSize + k * ChunkSizes[i] : f \in P, k \in 0 .. S!ChunksPerPage(i) - 1}

SlabTyped ==
  /\ zones \in [S!Zones -> [free_list : Seq(Nat), alloc_count : Nat]]
  /\ \A p \in DOMAIN live : p \in Nat /\ live[p] \in Sizes /\ S!Served(live[p])

ZoneInv(i) ==
  /\ IsInjective(zones[i].free_list)
  /\ S!FreeOf(i) \cap S!LiveOf(i) = {}
  /\ ZoneChunks(i) = CutFrom(i, PagesOf(i))
  /\ Cardinality(PagesOf(i)) = zones[i].alloc_count

PagesHeld == \A i \in S!Zones : PagesOf(i) \subseteq held

PagesDiffer == \A i, j \in S!Zones : i # j => PagesOf(i) \cap PagesOf(j) = {}

SlabInv ==
  /\ SlabTyped
  /\ \A i \in S!Zones : ZoneInv(i)
  /\ PagesHeld
  /\ PagesDiffer
-----------------------------------------------------------------------------
HIDE PmmAssumption

LEMMA ZoneFacts ==
  ASSUME NEW i \in S!Zones
  PROVE  /\ i \in Nat /\ PageSize \in Nat \ {0}
         /\ ChunkSizes[i] \in Nat \ {0}
         /\ S!ChunksPerPage(i) \in Nat \ {0}
         /\ S!ChunksPerPage(i) * ChunkSizes[i] <= PageSize
<1>1. i \in Nat /\ ChunkSizes[i] \in 1 .. PageSize /\ PageSize \in Nat \ {0}
  BY MemorySlabAssumption, LenProperties DEF S!Zones, S!SlabAssumption
<1>2. ChunkSizes[i] \in Nat \ {0} /\ ChunkSizes[i] <= PageSize
  BY <1>1
<1> QED
  BY <1>1, <1>2, WholeBlocks DEF S!ChunksPerPage

\* A chunk stays inside the frame that it is cut from.
LEMMA ChunkInPage ==
  ASSUME NEW i \in S!Zones, NEW f \in Nat, NEW k \in 0 .. S!ChunksPerPage(i) - 1,
         NEW c, c = f * PageSize + k * ChunkSizes[i]
  PROVE  /\ c \in Nat /\ c \in S!Bytes(i, c) /\ c \div PageSize = f
         /\ \A a \in S!Bytes(i, c) : a \in Nat /\ a \div PageSize = f
<1> DEFINE z == ChunkSizes[i]
           n == S!ChunksPerPage(i)
<1>1. /\ z \in Nat \ {0} /\ n \in Nat \ {0} /\ n * z <= PageSize /\ PageSize \in Nat \ {0}
      /\ k \in 0 .. n - 1
  BY ZoneFacts
<1>2. c = f * PageSize + k * z
  OBVIOUS
<1>3. S!Bytes(i, c) = c .. c + z - 1
  BY DEF S!Bytes
<1> HIDE DEF z, n
<1>4. k * z \in Nat /\ k * z + z <= PageSize
  <2>1. k \in Nat /\ k + 1 \in Nat /\ k + 1 <= n
    BY <1>1
  <2>2. (k + 1) * z <= n * z /\ (k + 1) * z \in Nat /\ n * z \in Nat
    BY <1>1, <2>1, MulMonotone
  <2>3. k * z \in Nat /\ (k + 1) * z = k * z + z
    BY <1>1, <2>1
  <2> QED BY <1>1, <2>2, <2>3
<1>5. PICK base \in Nat, kz \in Nat : base = f * PageSize /\ kz = k * z
  BY <1>1, <1>4
<1>6. /\ c = base + kz /\ kz + z <= PageSize
      /\ z \in Nat \ {0} /\ PageSize \in Nat \ {0}
  BY <1>1, <1>2, <1>4, <1>5
<1>7. c \in Nat /\ c \in S!Bytes(i, c)
  <2>1. c \in Nat /\ c <= c + z - 1
    BY ONLY base \in Nat, kz \in Nat, <1>6
  <2> QED BY <1>3, <1>6, <2>1
<1>8. ASSUME NEW a \in S!Bytes(i, c) PROVE a \in Nat /\ a \div PageSize = f
  <2>1. a \in Nat /\ a - base \in 0 .. PageSize - 1 /\ a = base + (a - base)
    <3>1. a \in c .. c + z - 1
      BY <1>3
    <3> QED BY ONLY base \in Nat, kz \in Nat, <1>6, <3>1
  <2>2. (f * PageSize + (a - base)) \div PageSize = f
    BY <1>1, <2>1, BlockIndex
  <2> QED BY <1>5, <2>1, <2>2
<1> QED
  BY <1>7, <1>8

\* Two chunks of a zone that share a byte are one chunk, cut at one place.
LEMMA ChunksApart ==
  ASSUME NEW i \in S!Zones,
         NEW f \in Nat, NEW k \in 0 .. S!ChunksPerPage(i) - 1,
         NEW g \in Nat, NEW l \in 0 .. S!ChunksPerPage(i) - 1,
         NEW c, c = f * PageSize + k * ChunkSizes[i],
         NEW d, d = g * PageSize + l * ChunkSizes[i],
         NEW a \in S!Bytes(i, c), a \in S!Bytes(i, d)
  PROVE  f = g /\ k = l
<1> DEFINE z == ChunkSizes[i]
<1>1. f = g
  <2>1. a \div PageSize = f
    BY ChunkInPage
  <2>2. a \div PageSize = g
    BY ChunkInPage
  <2> QED BY <2>1, <2>2
<1>2. z \in Nat \ {0} /\ k \in Nat /\ l \in Nat /\ c \in Nat /\ d \in Nat
  BY ZoneFacts, ChunkInPage
<1>3. a \in Int /\ c <= a /\ a <= c + z - 1 /\ d <= a /\ a <= d + z - 1
  BY <1>2 DEF S!Bytes
<1>4. c = f * PageSize + k * z /\ d = f * PageSize + l * z /\ f * PageSize \in Nat
  BY <1>1, ZoneFacts
<1> HIDE DEF z
<1>5. k * z \in Nat /\ l * z \in Nat /\ (k + 1) * z = k * z + z /\ (l + 1) * z = l * z + z
  BY <1>2
<1>6. ASSUME k + 1 <= l PROVE FALSE
  <2>1. (k + 1) * z <= l * z
    BY <1>2, <1>6, MulMonotone
  <2> QED BY <1>2, <1>3, <1>4, <1>5, <2>1
<1>7. ASSUME l + 1 <= k PROVE FALSE
  <2>1. (l + 1) * z <= k * z
    BY <1>2, <1>7, MulMonotone
  <2> QED BY <1>2, <1>3, <1>4, <1>5, <2>1
<1> QED
  BY <1>1, <1>2, <1>6, <1>7

\* The frames of the chunks that were cut from frames are those frames,
LEMMA PagesOfCut ==
  ASSUME NEW i \in S!Zones, NEW P \in SUBSET Nat
  PROVE  CutFrom(i, P) \subseteq Nat /\ {p \div PageSize : p \in CutFrom(i, P)} = P
<1>1. ASSUME NEW p \in CutFrom(i, P) PROVE p \in Nat /\ p \div PageSize \in P
  <2>1. PICK f \in P, k \in 0 .. S!ChunksPerPage(i) - 1 : p = f * PageSize + k * ChunkSizes[i]
    BY DEF CutFrom
  <2> QED BY <2>1, ChunkInPage
<1>2. ASSUME NEW f \in P PROVE \E p \in CutFrom(i, P) : p \div PageSize = f
  <2>1. 0 \in 0 .. S!ChunksPerPage(i) - 1
    BY ZoneFacts
  <2>2. PICK p : p = f * PageSize + 0 * ChunkSizes[i]
    OBVIOUS
  <2>3. p \in CutFrom(i, P)
    BY <2>1, <2>2 DEF CutFrom
  <2> QED BY <2>1, <2>2, <2>3, ChunkInPage
<1> QED
  BY <1>1, <1>2

\* and there are ChunksPerPage chunks to a frame.
LEMMA CutCardinality ==
  ASSUME NEW i \in S!Zones, NEW P \in SUBSET Nat, IsFiniteSet(P)
  PROVE  /\ IsFiniteSet(CutFrom(i, P))
         /\ Cardinality(CutFrom(i, P)) = Cardinality(P) * S!ChunksPerPage(i)
<1> DEFINE n == S!ChunksPerPage(i)
           K == 0 .. n - 1
           h == [e \in P \X K |-> e[1] * PageSize + e[2] * ChunkSizes[i]]
<1>1. n \in Nat \ {0}
  BY ZoneFacts
<1>2. ASSUME NEW e \in P \X K
      PROVE  /\ e[1] \in P /\ e[1] \in Nat /\ e[2] \in K /\ e = <<e[1], e[2]>>
             /\ h[e] = e[1] * PageSize + e[2] * ChunkSizes[i] /\ h[e] \in CutFrom(i, P)
  <2>1. e[1] \in P /\ e[1] \in Nat /\ e[2] \in K /\ e = <<e[1], e[2]>>
    <3> HIDE DEF K, h
    <3>1. e[1] \in P /\ e[2] \in K /\ e = <<e[1], e[2]>>
      OBVIOUS
    <3> QED BY <3>1
  <2>2. h[e] = e[1] * PageSize + e[2] * ChunkSizes[i]
    OBVIOUS
  <2>3. h[e] \in CutFrom(i, P)
    BY <2>1, <2>2 DEF CutFrom
  <2> QED BY <2>1, <2>2, <2>3
<1>3. h \in Bijection(P \X K, CutFrom(i, P))
  <2>1. h \in [P \X K -> CutFrom(i, P)]
    BY <1>2
  <2>2. ASSUME NEW p \in CutFrom(i, P) PROVE \E e \in P \X K : h[e] = p
    <3>1. PICK f \in P, k \in K : p = f * PageSize + k * ChunkSizes[i]
      BY DEF CutFrom
    <3>2. <<f, k>> \in P \X K /\ h[<<f, k>>] = p
      BY <3>1
    <3> QED BY <3>2
  <2>3. ASSUME NEW e \in P \X K, NEW d \in P \X K, h[e] = h[d] PROVE e = d
    <3>1. /\ e[1] \in Nat /\ e[2] \in 0 .. S!ChunksPerPage(i) - 1
          /\ h[e] = e[1] * PageSize + e[2] * ChunkSizes[i] /\ e = <<e[1], e[2]>>
      BY <1>2
    <3>2. /\ d[1] \in Nat /\ d[2] \in 0 .. S!ChunksPerPage(i) - 1
          /\ h[d] = d[1] * PageSize + d[2] * ChunkSizes[i] /\ d = <<d[1], d[2]>>
      BY <1>2
    <3> HIDE DEF h
    <3>3. PICK f, k, g, l, c : f = e[1] /\ k = e[2] /\ g = d[1] /\ l = d[2] /\ c = h[e]
      OBVIOUS
    <3>4. /\ f \in Nat /\ k \in 0 .. S!ChunksPerPage(i) - 1
          /\ g \in Nat /\ l \in 0 .. S!ChunksPerPage(i) - 1
          /\ c = f * PageSize + k * ChunkSizes[i] /\ c = g * PageSize + l * ChunkSizes[i]
      BY <2>3, <3>1, <3>2, <3>3
    <3>5. c \in S!Bytes(i, c)
      BY <3>4, ChunkInPage
    <3>6. f = g /\ k = l
      BY <3>4, <3>5, ChunksApart
    <3> QED BY <3>1, <3>2, <3>3, <3>6
  <2> HIDE DEF h
  <2> QED BY <2>1, <2>2, <2>3 DEF Bijection, Injection, Surjection, IsInjective
<1>4. ExistsBijection(P \X K, CutFrom(i, P))
  BY <1>3 DEF ExistsBijection
<1>5. IsFiniteSet(K) /\ Cardinality(K) = n
  <2>1. 0 \in Int /\ n - 1 \in Int /\ ~(0 > n - 1) /\ (n - 1) - 0 + 1 = n
    BY <1>1
  <2> QED BY <2>1, FS_Interval
<1> HIDE DEF K, h
<1>6. IsFiniteSet(P \X K) /\ Cardinality(P \X K) = Cardinality(P) * Cardinality(K)
  BY <1>5, FS_Product
<1>7. /\ IsFiniteSet(CutFrom(i, P))
      /\ Cardinality(CutFrom(i, P)) = Cardinality(P \X K)
  BY <1>4, <1>6, FS_Bijection
<1> QED
  BY <1>5, <1>6, <1>7

\* zone_refill pushes each chunk of the frame once.
LEMMA CarveIsCut ==
  ASSUME NEW i \in S!Zones, NEW f \in Nat, NEW l, l = S!Carve(i, f * PageSize)
  PROVE  /\ l \in Seq(Nat) /\ l # << >> /\ IsInjective(l)
         /\ Range(l) = CutFrom(i, {f})
<1> DEFINE n == S!ChunksPerPage(i)
           z == ChunkSizes[i]
<1>1. n \in Nat \ {0} /\ z \in Nat \ {0}
  BY ZoneFacts
<1>2. /\ DOMAIN l = 1 .. n
      /\ l = [k \in 1 .. n |-> f * PageSize + (n - k) * z]
  BY DEF S!Carve
<1>3. \A k \in 1 .. n : n - k \in 0 .. n - 1 /\ n - (n - k) = k
  BY <1>1
<1>4. \A k \in 0 .. n - 1 : n - k \in 1 .. n /\ n - (n - k) = k
  BY <1>1
<1>5. \A k \in 1 .. n : l[k] = f * PageSize + (n - k) * z
  BY <1>2
<1>6. \A k \in 1 .. n : l[k] \in Nat /\ l[k] \in S!Bytes(i, l[k])
  BY <1>3, <1>5, ChunkInPage
<1>7. l \in Seq(Nat) /\ l # << >>
  BY <1>1, <1>2, <1>6
<1>8. IsInjective(l)
  <2>1. SUFFICES ASSUME NEW a \in 1 .. n, NEW b \in 1 .. n, l[a] = l[b] PROVE a = b
    BY <1>2 DEF IsInjective
  <2>2. n - a = n - b
    BY <2>1, <1>3, <1>5, <1>6, ChunksApart
  <2> QED BY <2>2, <1>3
<1>9. Range(l) = CutFrom(i, {f})
  <2>1. ASSUME NEW k \in 1 .. n PROVE l[k] \in CutFrom(i, {f})
    BY <1>3, <1>5 DEF CutFrom
  <2>2. ASSUME NEW k \in 0 .. n - 1 PROVE f * PageSize + k * z \in Range(l)
    <3>1. n - k \in DOMAIN l /\ l[n - k] = f * PageSize + k * z
      BY <1>2, <1>4, <1>5
    <3> QED BY <3>1 DEF Range
  <2>3. Range(l) \subseteq CutFrom(i, {f})
    BY <1>2, <2>1 DEF Range
  <2>4. CutFrom(i, {f}) = {f * PageSize + k * z : k \in 0 .. n - 1}
    BY DEF CutFrom
  <2> QED BY <2>2, <2>3, <2>4
<1> QED
  BY <1>7, <1>8, <1>9
-----------------------------------------------------------------------------
LEMMA FirstZone ==
  ASSUME NEW size \in Sizes, S!Served(size)
  PROVE  S!size_to_zone_index(size) \in S!Zones
<1>1. S!ZonesFor(size) \in SUBSET Nat /\ S!ZonesFor(size) # {}
  BY ZoneFacts DEF S!ZonesFor, S!Served
<1>2. \E i \in S!ZonesFor(size) : \A j \in S!ZonesFor(size) : i <= j
  BY <1>1, MinOfNaturals
<1>3. S!size_to_zone_index(size) \in S!ZonesFor(size)
  BY <1>2 DEF S!size_to_zone_index
<1> QED
  BY <1>3 DEF S!ZonesFor

\* Whoever holds a chunk holds it of one zone.
LEMMA LiveHasZone ==
  ASSUME SlabTyped, NEW p \in DOMAIN live
  PROVE  /\ p \in Nat /\ S!size_to_zone_index(live[p]) \in S!Zones
         /\ p \in S!LiveOf(S!size_to_zone_index(live[p]))
  BY FirstZone DEF SlabTyped, S!LiveOf

LEMMA FreeIsRange ==
  \A i : S!FreeOf(i) = Range(zones[i].free_list)
BY DEF S!FreeOf, S!ToSet, Range

LEMMA FreeIsRangeNext ==
  (\A i : S!FreeOf(i) = Range(zones[i].free_list))'
BY FreeIsRange, PTL

\* A free chunk is nobody's, and a chunk of one zone is not a chunk of another.
LEMMA ChunkHasZone ==
  ASSUME SlabInv, NEW i \in S!Zones, NEW j \in S!Zones
  PROVE  /\ S!FreeOf(i) \cap S!LiveOf(j) = {}
         /\ i # j => ZoneChunks(i) \cap ZoneChunks(j) = {}
<1>1. i # j => ZoneChunks(i) \cap ZoneChunks(j) = {}
  BY DEF SlabInv, PagesDiffer, PagesOf
<1> QED
  BY <1>1 DEF SlabInv, ZoneInv, ZoneChunks

\* What popping the head of a list of chunks that nobody holds does to each zone.
LEMMA PopStep ==
  ASSUME SlabInv, NEW size \in Sizes, S!Served(size),
         NEW i, i = S!size_to_zone_index(size),
         NEW l \in Seq(Nat), l # << >>, IsInjective(l),
         \A j \in S!Zones : Range(l) \cap S!LiveOf(j) = {},
         NEW n \in Nat, S!Pop(i, l, n, size)
  PROVE  /\ SlabTyped'
         /\ \A j \in S!Zones \ {i} : zones'[j] = zones[j] /\ S!LiveOf(j)' = S!LiveOf(j)
         /\ IsInjective(zones'[i].free_list)
         /\ zones'[i].alloc_count = zones[i].alloc_count + n
         /\ S!FreeOf(i)' \cup S!LiveOf(i)' = Range(l) \cup S!LiveOf(i)
         /\ S!FreeOf(i)' \cap S!LiveOf(i)' = {}
<1> DEFINE h == Head(l)
<1>1. i \in S!Zones
  BY FirstZone
<1>2. /\ Tail(l) \in Seq(Nat) /\ IsInjective(Tail(l)) /\ h \in Nat /\ h \notin Range(Tail(l))
      /\ Range(l) = {h} \cup Range(Tail(l))
  BY ListPop
<1>3. zones \in [S!Zones -> [free_list : Seq(Nat), alloc_count : Nat]]
  BY DEF SlabInv, SlabTyped
<1>4. /\ zones' = [zones EXCEPT ![i].free_list = Tail(l), ![i].alloc_count = @ + n]
      /\ live' = [p \in {h} \cup DOMAIN live |-> IF p = h THEN size ELSE live[p]]
  BY DEF S!Pop
<1> HIDE DEF h
<1>5. /\ zones'[i] = [free_list |-> Tail(l), alloc_count |-> zones[i].alloc_count + n]
      /\ \A j \in S!Zones \ {i} : zones'[j] = zones[j]
      /\ zones' \in [S!Zones -> [free_list : Seq(Nat), alloc_count : Nat]]
  <2>1. zones[i] \in [free_list : Seq(Nat), alloc_count : Nat]
    BY <1>1, <1>3
  <2>2. /\ zones'[i] = [[zones[i] EXCEPT !.free_list = Tail(l)] EXCEPT !.alloc_count = @ + n]
        /\ DOMAIN zones' = S!Zones /\ \A j \in S!Zones \ {i} : zones'[j] = zones[j]
    BY <1>1, <1>3, <1>4
  <2>3. zones'[i] = [free_list |-> Tail(l), alloc_count |-> zones[i].alloc_count + n]
    BY <2>1, <2>2
  <2>4. zones'[i] \in [free_list : Seq(Nat), alloc_count : Nat]
    BY <1>2, <2>1, <2>3
  <2>5. \A j \in S!Zones : zones'[j] \in [free_list : Seq(Nat), alloc_count : Nat]
    BY <1>3, <2>2, <2>4
  <2>6. zones' = [j \in S!Zones |-> zones'[j]]
    BY <1>3, <1>4
  <2> QED BY <2>2, <2>3, <2>5, <2>6
<1>6. h \notin DOMAIN live
  BY <1>2, LiveHasZone DEF SlabInv
<1>7. /\ DOMAIN live' = {h} \cup DOMAIN live /\ live'[h] = size
      /\ \A p \in DOMAIN live : live'[p] = live[p]
  BY <1>4, <1>6
<1>8. SlabTyped'
  BY <1>2, <1>5, <1>7 DEF SlabInv, SlabTyped, S!Served, S!ZonesFor, S!Zones
<1>9. /\ S!LiveOf(i)' = {h} \cup S!LiveOf(i)
      /\ \A j \in S!Zones \ {i} : S!LiveOf(j)' = S!LiveOf(j)
  <2>1. \A j : S!LiveOf(j)' = {p \in DOMAIN live' : S!size_to_zone_index(live'[p]) = j}
    BY DEF S!LiveOf
  <2> QED BY <1>7, <2>1 DEF S!LiveOf
<1>10. S!FreeOf(i)' = Range(Tail(l))
  <2>1. zones'[i].free_list = Tail(l)
    BY <1>5
  <2>2. S!FreeOf(i)' = Range(zones'[i].free_list)
    BY FreeIsRangeNext
  <2> QED BY <2>1, <2>2
<1>11. Range(l) \cap S!LiveOf(i) = {}
  BY <1>1
<1> QED
  BY <1>2, <1>5, <1>8, <1>9, <1>10, <1>11

\* A step that moves chunks between the free list of a zone and the callers, and
\* leaves the frames of the zones held.
LEMMA SameChunksInv ==
  ASSUME SlabInv, SlabTyped',
         \A i \in S!Zones : /\ ZoneChunks(i)' = ZoneChunks(i)
                            /\ zones'[i].alloc_count = zones[i].alloc_count
                            /\ IsInjective(zones'[i].free_list)
                            /\ S!FreeOf(i)' \cap S!LiveOf(i)' = {}
                            /\ PagesOf(i) \subseteq held'
  PROVE  SlabInv'
<1>1. \A i \in S!Zones : PagesOf(i)' = PagesOf(i)
  BY DEF PagesOf
<1>2. ASSUME NEW i \in S!Zones PROVE ZoneInv(i)'
  <2>1. CutFrom(i, PagesOf(i))' = CutFrom(i, PagesOf(i))
    BY <1>1 DEF CutFrom, S!ChunksPerPage
  <2> QED BY <1>1, <2>1 DEF ZoneInv, SlabInv
<1>3. PagesHeld' /\ PagesDiffer'
  BY <1>1 DEF PagesHeld, PagesDiffer, SlabInv, S!Zones
<1> QED
  BY <1>2, <1>3 DEF SlabInv, S!Zones

LEMMA SlabInitInv == MemoryInit => SlabInv
<1> SUFFICES ASSUME MemoryInit PROVE SlabInv
  OBVIOUS
<1>1. /\ zones = [i \in S!Zones |-> [free_list |-> << >>, alloc_count |-> 0]]
      /\ live = << >>
  BY DEF MemoryInit, S!Init
<1>2. << >> \in Seq(Nat) /\ DOMAIN << >> = {} /\ Range(<< >>) = {} /\ IsInjective(<< >>)
  BY DEF Range, IsInjective
<1>3. SlabTyped
  BY <1>1, <1>2 DEF SlabTyped
<1>4. ASSUME NEW i \in S!Zones
      PROVE  /\ zones[i].free_list = << >> /\ zones[i].alloc_count = 0
             /\ S!FreeOf(i) = {} /\ S!LiveOf(i) = {} /\ ZoneChunks(i) = {} /\ PagesOf(i) = {}
  <2>1. zones[i].free_list = << >> /\ zones[i].alloc_count = 0
    BY <1>1
  <2>2. S!FreeOf(i) = {} /\ S!LiveOf(i) = {}
    BY <1>1, <1>2, <2>1, FreeIsRange DEF S!LiveOf
  <2> QED BY <2>1, <2>2 DEF ZoneChunks, PagesOf
<1>5. \A i \in S!Zones : ZoneInv(i)
  <2>1. \A i : CutFrom(i, {}) = {}
    BY DEF CutFrom
  <2> QED BY <1>2, <1>4, <2>1, FS_EmptySet DEF ZoneInv
<1> QED
  BY <1>3, <1>4, <1>5 DEF SlabInv, PagesHeld, PagesDiffer

\* zalloc that pops a chunk of the zone's list,
LEMMA ZallocFromListInv ==
  ASSUME SlabInv, NEW size \in Sizes, S!ZallocFromList(size), UNCHANGED held
  PROVE  SlabInv'
<1>1. PICK i : i = S!size_to_zone_index(size)
  OBVIOUS
<1>2. PICK l : l = zones[i].free_list
  OBVIOUS
<1>3. S!Served(size) /\ l # << >> /\ S!Pop(i, l, 0, size)
  BY <1>1, <1>2 DEF S!ZallocFromList
<1>4. i \in S!Zones
  BY <1>1, <1>3, FirstZone
<1>5. l \in Seq(Nat) /\ IsInjective(l) /\ Range(l) = S!FreeOf(i) /\ zones[i].alloc_count \in Nat
  BY <1>2, <1>4, FreeIsRange DEF SlabInv, SlabTyped, ZoneInv
<1>6. \A j \in S!Zones : Range(l) \cap S!LiveOf(j) = {}
  BY <1>4, <1>5, ChunkHasZone
<1>7. /\ SlabTyped'
      /\ \A j \in S!Zones \ {i} : zones'[j] = zones[j] /\ S!LiveOf(j)' = S!LiveOf(j)
      /\ IsInjective(zones'[i].free_list)
      /\ zones'[i].alloc_count = zones[i].alloc_count + 0
      /\ S!FreeOf(i)' \cup S!LiveOf(i)' = Range(l) \cup S!LiveOf(i)
      /\ S!FreeOf(i)' \cap S!LiveOf(i)' = {}
  BY <1>1, <1>3, <1>5, <1>6, PopStep
<1>8. ASSUME NEW j \in S!Zones
      PROVE  /\ ZoneChunks(j)' = ZoneChunks(j)
             /\ zones'[j].alloc_count = zones[j].alloc_count
             /\ IsInjective(zones'[j].free_list)
             /\ S!FreeOf(j)' \cap S!LiveOf(j)' = {}
             /\ PagesOf(j) \subseteq held'
  <2>1. PagesOf(j) \subseteq held'
    BY DEF SlabInv, PagesHeld
  <2>2. CASE j = i
    BY <1>5, <1>7, <2>1, <2>2 DEF ZoneChunks
  <2>3. CASE j # i
    <3>1. zones'[j] = zones[j] /\ S!LiveOf(j)' = S!LiveOf(j) /\ S!FreeOf(j)' = S!FreeOf(j)
      BY <1>7, <2>3, FreeIsRange, FreeIsRangeNext
    <3> QED BY <2>1, <3>1 DEF ZoneChunks, SlabInv, ZoneInv
  <2> QED BY <2>2, <2>3
<1> QED
  BY <1>7, <1>8, SameChunksInv

\* zalloc that refills the zone with a new frame,
LEMMA RefillInv ==
  ASSUME IInv, SlabInv, NEW size \in Sizes, S!NeedsFrame(size), AllocFrame,
         S!ZallocWithRefill(size, ret')
  PROVE  SlabInv'
<1>1. PICK f : f = ret'
  OBVIOUS
<1>2. f \in Nat /\ f # 0 /\ f \notin held /\ held' = held \cup {f} /\ IsFiniteSet(held)
      /\ held \in SUBSET Nat
  BY <1>1, NewFrame
<1>3. PICK i : i = S!size_to_zone_index(size)
  OBVIOUS
<1>4. PICK l : l = S!Carve(i, f * PageSize)
  OBVIOUS
<1>5. S!Served(size) /\ S!Pop(i, l, 1, size) /\ zones[i].free_list = << >>
  BY <1>1, <1>2, <1>3, <1>4 DEF S!NeedsFrame, S!ZallocWithRefill
<1>6. i \in S!Zones
  BY <1>3, <1>5, FirstZone
<1>7. /\ l \in Seq(Nat) /\ l # << >> /\ IsInjective(l) /\ Range(l) = CutFrom(i, {f})
  BY <1>2, <1>4, <1>6, CarveIsCut
<1>8. \A p \in CutFrom(i, {f}) : p \div PageSize = f
  BY <1>2, <1>6, PagesOfCut
<1>9. ASSUME NEW j \in S!Zones PROVE Range(l) \cap S!LiveOf(j) = {}
  BY <1>2, <1>7, <1>8 DEF SlabInv, PagesHeld, PagesOf, ZoneChunks
<1>10. /\ SlabTyped'
       /\ \A j \in S!Zones \ {i} : zones'[j] = zones[j] /\ S!LiveOf(j)' = S!LiveOf(j)
       /\ IsInjective(zones'[i].free_list)
       /\ zones'[i].alloc_count = zones[i].alloc_count + 1
       /\ S!FreeOf(i)' \cup S!LiveOf(i)' = Range(l) \cup S!LiveOf(i)
       /\ S!FreeOf(i)' \cap S!LiveOf(i)' = {}
  <2>1. l \in Seq(Nat) /\ l # << >> /\ IsInjective(l)
    BY <1>7
  <2>2. PICK n \in Nat : n = 1
    OBVIOUS
  <2>3. S!Served(size) /\ S!Pop(i, l, n, size)
    BY <1>5, <2>2
  <2>4. /\ SlabTyped'
        /\ \A j \in S!Zones \ {i} : zones'[j] = zones[j] /\ S!LiveOf(j)' = S!LiveOf(j)
        /\ IsInjective(zones'[i].free_list)
        /\ zones'[i].alloc_count = zones[i].alloc_count + n
        /\ S!FreeOf(i)' \cup S!LiveOf(i)' = Range(l) \cup S!LiveOf(i)
        /\ S!FreeOf(i)' \cap S!LiveOf(i)' = {}
    BY ONLY SlabInv, size \in Sizes, <1>3, <1>9, <2>1, <2>3, PopStep
  <2> QED BY <2>2, <2>4
<1>11. ZoneChunks(i)' = CutFrom(i, PagesOf(i) \cup {f})
  <2>1. S!FreeOf(i) = {}
    BY <1>5, FreeIsRange DEF Range
  <2>2. ZoneChunks(i)' = CutFrom(i, {f}) \cup ZoneChunks(i)
    BY <1>7, <1>10, <2>1 DEF ZoneChunks
  <2>3. ZoneChunks(i) = CutFrom(i, PagesOf(i))
    BY <1>6 DEF SlabInv, ZoneInv
  <2>4. CutFrom(i, {f}) \cup CutFrom(i, PagesOf(i)) = CutFrom(i, PagesOf(i) \cup {f})
    BY DEF CutFrom
  <2> QED BY <2>2, <2>3, <2>4
<1>12. PagesOf(i) \subseteq held /\ IsFiniteSet(PagesOf(i)) /\ PagesOf(i) \in SUBSET Nat
  BY <1>2, <1>6, FS_Subset DEF SlabInv, PagesHeld
<1>13. PagesOf(i)' = PagesOf(i) \cup {f}
  <2>1. PagesOf(i)' = {p \div PageSize : p \in ZoneChunks(i)'}
    BY DEF PagesOf
  <2> QED BY <1>2, <1>6, <1>11, <1>12, <2>1, PagesOfCut
<1>14. ASSUME NEW j \in S!Zones \ {i}
       PROVE  /\ zones'[j] = zones[j] /\ S!LiveOf(j)' = S!LiveOf(j) /\ S!FreeOf(j)' = S!FreeOf(j)
              /\ ZoneChunks(j)' = ZoneChunks(j) /\ PagesOf(j)' = PagesOf(j)
  <2>1. zones'[j] = zones[j] /\ S!LiveOf(j)' = S!LiveOf(j) /\ S!FreeOf(j)' = S!FreeOf(j)
    BY <1>10, FreeIsRange, FreeIsRangeNext
  <2> QED BY <2>1 DEF ZoneChunks, PagesOf
<1>15. ZoneInv(i)'
  <2>1. Cardinality(PagesOf(i)') = zones'[i].alloc_count
    <3>1. Cardinality(PagesOf(i)) = zones[i].alloc_count /\ f \notin PagesOf(i)
      BY <1>2, <1>6, <1>12 DEF SlabInv, ZoneInv
    <3>2. Cardinality(PagesOf(i) \cup {f}) = Cardinality(PagesOf(i)) + 1
      BY <1>12, <3>1, FS_AddElement
    <3> QED BY <1>10, <1>13, <3>1, <3>2
  <2>2. CutFrom(i, PagesOf(i))' = CutFrom(i, PagesOf(i) \cup {f})
    BY <1>13 DEF CutFrom, S!ChunksPerPage
  <2> QED BY <1>10, <1>11, <2>1, <2>2 DEF ZoneInv
<1>16. ASSUME NEW j \in S!Zones \ {i} PROVE ZoneInv(j)'
  <2>1. CutFrom(j, PagesOf(j))' = CutFrom(j, PagesOf(j))
    BY <1>14 DEF CutFrom, S!ChunksPerPage
  <2> QED BY <1>14, <2>1 DEF SlabInv, ZoneInv
<1>17. PagesHeld'
  BY <1>2, <1>6, <1>13, <1>14 DEF SlabInv, PagesHeld, S!Zones
<1>18. PagesDiffer'
  <2>1. \A j \in S!Zones : f \notin PagesOf(j)
    BY <1>2 DEF SlabInv, PagesHeld
  <2> QED BY <1>13, <1>14, <2>1 DEF SlabInv, PagesDiffer, S!Zones
<1>19. \A j \in S!Zones : ZoneInv(j)'
  BY <1>15, <1>16
<1> QED
  BY <1>10, <1>17, <1>18, <1>19 DEF SlabInv, S!Zones

\* and zfree, which returns the chunk to the zone that it came from.
LEMMA ZfreeInv ==
  ASSUME SlabInv, NEW ptr \in DOMAIN live, S!zfree(ptr, live[ptr]), UNCHANGED held
  PROVE  SlabInv'
<1>1. PICK i : i = S!size_to_zone_index(live[ptr])
  OBVIOUS
<1>2. ptr \in Nat /\ i \in S!Zones /\ ptr \in S!LiveOf(i)
  BY <1>1, LiveHasZone DEF SlabInv
<1>3. PICK l : l = zones[i].free_list
  OBVIOUS
<1>4. /\ l \in Seq(Nat) /\ IsInjective(l) /\ Range(l) = S!FreeOf(i)
      /\ ptr \notin Range(l)
  BY <1>2, <1>3, FreeIsRange DEF SlabInv, SlabTyped, ZoneInv
<1>5. /\ <<ptr>> \o l \in Seq(Nat) /\ IsInjective(<<ptr>> \o l)
      /\ Range(<<ptr>> \o l) = {ptr} \cup Range(l)
  BY <1>2, <1>4, ListPush
<1>6. PICK pushed : pushed = <<ptr>> \o l
  OBVIOUS
<1>7. /\ zones' = [zones EXCEPT ![i].free_list = pushed]
      /\ live' = [p \in DOMAIN live \ {ptr} |-> live[p]]
  BY <1>1, <1>3, <1>6 DEF S!zfree
<1>8. /\ zones'[i].free_list = pushed /\ zones'[i].alloc_count = zones[i].alloc_count
      /\ \A j \in S!Zones \ {i} : zones'[j] = zones[j]
      /\ zones' \in [S!Zones -> [free_list : Seq(Nat), alloc_count : Nat]]
  <2>1. zones[i] \in [free_list : Seq(Nat), alloc_count : Nat] /\ DOMAIN zones = S!Zones
    BY <1>2 DEF SlabInv, SlabTyped
  <2>2. /\ zones'[i] = [zones[i] EXCEPT !.free_list = pushed]
        /\ DOMAIN zones' = S!Zones /\ \A j \in S!Zones \ {i} : zones'[j] = zones[j]
        /\ zones' = [j \in S!Zones |-> zones'[j]]
    BY <1>2, <1>7, <2>1
  <2>3. zones'[i] = [free_list |-> pushed, alloc_count |-> zones[i].alloc_count]
    BY <2>1, <2>2
  <2>4. zones'[i] \in [free_list : Seq(Nat), alloc_count : Nat]
    BY <1>5, <1>6, <2>1, <2>3
  <2>5. \A j \in S!Zones : zones'[j] \in [free_list : Seq(Nat), alloc_count : Nat]
    BY <2>2, <2>4 DEF SlabInv, SlabTyped
  <2> QED BY <2>2, <2>3, <2>5
<1>9. SlabTyped'
  BY <1>7, <1>8 DEF SlabInv, SlabTyped, S!Served, S!ZonesFor, S!Zones
<1>10. /\ S!LiveOf(i)' = S!LiveOf(i) \ {ptr}
       /\ \A j \in S!Zones \ {i} : S!LiveOf(j)' = S!LiveOf(j)
  <2>1. \A j : S!LiveOf(j)' = {p \in DOMAIN live' : S!size_to_zone_index(live'[p]) = j}
    BY DEF S!LiveOf
  <2> QED BY <1>1, <1>7, <2>1 DEF S!LiveOf
<1>11. S!FreeOf(i)' = {ptr} \cup S!FreeOf(i)
  BY <1>4, <1>5, <1>6, <1>8, FreeIsRangeNext
<1>12. ASSUME NEW j \in S!Zones
       PROVE  /\ ZoneChunks(j)' = ZoneChunks(j)
              /\ zones'[j].alloc_count = zones[j].alloc_count
              /\ IsInjective(zones'[j].free_list)
              /\ S!FreeOf(j)' \cap S!LiveOf(j)' = {}
              /\ PagesOf(j) \subseteq held'
  <2>1. PagesOf(j) \subseteq held'
    BY DEF SlabInv, PagesHeld
  <2>2. CASE j = i
    <3>1. S!FreeOf(i) \cap S!LiveOf(i) = {}
      BY <1>2 DEF SlabInv, ZoneInv
    <3> QED BY <1>2, <1>5, <1>6, <1>8, <1>10, <1>11, <2>1, <2>2, <3>1 DEF ZoneChunks
  <2>3. CASE j # i
    <3>1. zones'[j] = zones[j] /\ S!LiveOf(j)' = S!LiveOf(j) /\ S!FreeOf(j)' = S!FreeOf(j)
      BY <1>8, <1>10, <2>3, FreeIsRange, FreeIsRangeNext
    <3> QED BY <2>1, <3>1 DEF ZoneChunks, SlabInv, ZoneInv
  <2> QED BY <2>2, <2>3
<1> QED
  BY <1>9, <1>12, SameChunksInv

\* A step that leaves the zones alone and frees no frame of theirs.
LEMMA OtherStepInv ==
  ASSUME SlabInv, UNCHANGED slabVars, \A f \in S!Pages : f \in held => f \in held'
  PROVE  SlabInv'
<1>1. zones' = zones /\ live' = live
  BY DEF slabVars
<1>2. SlabTyped' /\ \A j : S!LiveOf(j)' = S!LiveOf(j) /\ S!FreeOf(j)' = S!FreeOf(j)
  BY <1>1, FreeIsRange, FreeIsRangeNext
     DEF SlabInv, SlabTyped, S!LiveOf, S!Served, S!ZonesFor, S!Zones
<1>3. ASSUME NEW i \in S!Zones PROVE PagesOf(i) \subseteq held'
  <2>1. PagesOf(i) \subseteq S!Pages
    BY DEF PagesOf, ZoneChunks, S!Pages, S!Chunks
  <2> QED BY <2>1 DEF SlabInv, PagesHeld
<1>4. ASSUME NEW i \in S!Zones
      PROVE  /\ ZoneChunks(i)' = ZoneChunks(i)
             /\ zones'[i].alloc_count = zones[i].alloc_count
             /\ IsInjective(zones'[i].free_list)
             /\ S!FreeOf(i)' \cap S!LiveOf(i)' = {}
             /\ PagesOf(i) \subseteq held'
  BY <1>1, <1>2, <1>3 DEF ZoneChunks, SlabInv, ZoneInv
<1> QED
  BY <1>2, <1>4, SameChunksInv

LEMMA SlabStepInv == IInv /\ SlabInv /\ [MemoryNext]_allVars => SlabInv'
<1> SUFFICES ASSUME IInv, SlabInv, [MemoryNext]_allVars PROVE SlabInv'
  OBVIOUS
<1>1. CASE ParseTag \/ pmm_init \/ UNCHANGED allVars
  BY <1>1, OtherStepInv DEF ParseTag, pmm_init, allVars, vars
<1>2. CASE ReserveBoot /\ UNCHANGED slabVars
  BY <1>2, OtherStepInv DEF ReserveBoot
<1>3. CASE OtherCaller
  <2>1. UNCHANGED slabVars
    BY <1>3 DEF OtherCaller
  <2>2. \A f \in S!Pages : f \in held => f \in held'
    <3>1. CASE AllocFrame
      BY <3>1 DEF AllocFrame, GiveToCaller
    <3>2. CASE AllocFrameFails
      BY <3>2 DEF AllocFrameFails
    <3>3. CASE \E n \in 0 .. MaxRun : AllocContiguous(n) \/ AllocContiguousFails(n)
      BY <3>3 DEF AllocContiguous, AllocContiguousFails, GiveToCaller
    <3>4. CASE \E f \in (0 .. TotalFrames) \ S!Pages : FreeFrame(f)
      BY <3>4 DEF FreeFrame
    <3> QED BY <1>3, <3>1, <3>2, <3>3, <3>4 DEF OtherCaller
  <2> QED BY <2>1, <2>2, OtherStepInv
<1>4. ASSUME NEW size \in Sizes, zalloc(size) PROVE SlabInv'
  <2>1. CASE S!ZallocFromList(size) /\ UNCHANGED vars
    BY <2>1, ZallocFromListInv DEF vars
  <2>2. CASE S!NeedsFrame(size) /\ AllocFrame /\ S!ZallocWithRefill(size, ret')
    BY <2>2, RefillInv
  <2>3. CASE AllocFrameFails /\ S!ZallocWithRefill(size, ret')
    BY <2>3, OtherStepInv DEF AllocFrameFails, S!ZallocWithRefill, S!vars, slabVars
  <2>4. CASE S!ZallocRefused(size) /\ UNCHANGED vars
    BY <2>4, OtherStepInv DEF S!ZallocRefused, S!vars, slabVars, vars
  <2> QED BY <1>4, <2>1, <2>2, <2>3, <2>4 DEF zalloc
<1>5. ASSUME NEW ptr \in DOMAIN live, S!zfree(ptr, live[ptr]), UNCHANGED vars PROVE SlabInv'
  BY <1>5, ZfreeInv DEF vars
<1> QED
  BY <1>1, <1>2, <1>3, <1>4, <1>5 DEF MemoryNext

LEMMA SlabInvariance == MemorySpec => [](IInv /\ SlabInv)
<1>1. MemorySpec => []IInv
  BY MemoryRunsPmm, Invariance, PTL
<1>2. MemoryInit => SlabInv
  BY SlabInitInv
<1>3. IInv /\ SlabInv /\ [MemoryNext]_allVars => SlabInv'
  BY SlabStepInv
<1> QED
  BY <1>1, <1>2, <1>3, PTL DEF MemorySpec
-----------------------------------------------------------------------------
LEMMA SameCardinality ==
  \A X : S!Cardinality(X) = Cardinality(X)
BY DEF Cardinality, S!Cardinality

\* What the invariant says of a chunk: where it was cut.
LEMMA ChunkIsCut ==
  ASSUME IInv, SlabInv, NEW i \in S!Zones, NEW p \in ZoneChunks(i)
  PROVE  \E f \in PagesOf(i), k \in 0 .. S!ChunksPerPage(i) - 1 :
           /\ p = f * PageSize + k * ChunkSizes[i]
           /\ f \in Nat /\ f \in held
<1>1. PagesOf(i) \subseteq held /\ held \subseteq Nat
  BY DEF IInv, TypeOK, Frames, SlabInv, PagesHeld
<1>2. ZoneChunks(i) = CutFrom(i, PagesOf(i))
  BY DEF SlabInv, ZoneInv
<1>3. PICK f \in PagesOf(i), k \in 0 .. S!ChunksPerPage(i) - 1 :
        p = f * PageSize + k * ChunkSizes[i]
  BY <1>2 DEF CutFrom
<1> QED
  BY <1>1, <1>3

\* Each zone of kernel/core/slab.c has every chunk of the frames that it took, on
\* its list or with one caller, through every zalloc and zfree.
THEOREM SlabChunksConserved == MemorySpec => []ChunksConserved
<1>1. IInv /\ SlabInv => ChunksConserved
  <2>1. SUFFICES ASSUME IInv, SlabInv PROVE ChunksConserved
    OBVIOUS
  <2>2. S!TypeOK
    BY <2>1 DEF SlabInv, SlabTyped, S!TypeOK
  <2>3. ASSUME NEW i \in S!Zones
        PROVE  /\ S!FreeOf(i) \cap S!LiveOf(i) = {}
               /\ Len(zones[i].free_list) = Cardinality(S!FreeOf(i))
               /\ Cardinality(S!FreeOf(i)) + Cardinality(S!LiveOf(i))
                    = zones[i].alloc_count * S!ChunksPerPage(i)
    <3>1. S!FreeOf(i) \cap S!LiveOf(i) = {}
      BY <2>1 DEF SlabInv, ZoneInv
    <3>2. zones[i].free_list \in Seq(Nat) /\ IsInjective(zones[i].free_list)
      BY <2>1 DEF SlabInv, SlabTyped, ZoneInv
    <3>3. IsFiniteSet(S!FreeOf(i)) /\ Cardinality(S!FreeOf(i)) = Len(zones[i].free_list)
      BY <3>2, ListLength, FreeIsRange
    <3>4. IsFiniteSet(PagesOf(i)) /\ PagesOf(i) \in SUBSET Nat
      <4>1. PagesOf(i) \in SUBSET Frames
        BY <2>1 DEF IInv, TypeOK, SlabInv, PagesHeld
      <4> QED BY <4>1, FramesFinite DEF Frames
    <3>5. ZoneChunks(i) = CutFrom(i, PagesOf(i)) /\ Cardinality(PagesOf(i)) = zones[i].alloc_count
      BY <2>1 DEF SlabInv, ZoneInv
    <3>6. /\ IsFiniteSet(ZoneChunks(i))
          /\ Cardinality(ZoneChunks(i)) = zones[i].alloc_count * S!ChunksPerPage(i)
      BY <3>4, <3>5, CutCardinality
    <3>7. IsFiniteSet(S!LiveOf(i))
      BY <3>6, FS_Subset DEF ZoneChunks
    <3>8. Cardinality(ZoneChunks(i)) = Cardinality(S!FreeOf(i)) + Cardinality(S!LiveOf(i)) - 0
      BY <3>1, <3>3, <3>7, FS_Union, FS_EmptySet DEF ZoneChunks
    <3>9. Cardinality(S!FreeOf(i)) \in Nat /\ Cardinality(S!LiveOf(i)) \in Nat
      BY <3>3, <3>7, FS_CardinalityType
    <3> QED BY <3>1, <3>3, <3>6, <3>8, <3>9
  <2>4. S!ChunksConserved
    BY <2>3, SameCardinality DEF S!ChunksConserved
  <2> QED BY <2>2, <2>4 DEF ChunksConserved
<1> QED
  BY <1>1, SlabInvariance, PTL

\* No two chunks of kernel/core/slab.c share a byte, whatever their zones, and
\* each lies in a frame that the physical memory manager gave out and nobody freed.
THEOREM SlabChunksDisjoint == MemorySpec => []ChunksDisjoint
<1>1. IInv /\ SlabInv => ChunksDisjoint
  <2>1. SUFFICES ASSUME IInv, SlabInv, NEW i \in S!Zones, NEW j \in S!Zones,
                        NEW p \in ZoneChunks(i), NEW q \in ZoneChunks(j)
                 PROVE  /\ (i # j \/ p # q) => S!Bytes(i, p) \cap S!Bytes(j, q) = {}
                        /\ \A a \in S!Bytes(i, p) : (a \div PageSize) \in held
    BY DEF ChunksDisjoint, S!ChunksDisjointIn, ZoneChunks
  <2>2. PICK f \in PagesOf(i), k \in 0 .. S!ChunksPerPage(i) - 1 :
          p = f * PageSize + k * ChunkSizes[i] /\ f \in Nat /\ f \in held
    BY <2>1, ChunkIsCut
  <2>3. PICK g \in PagesOf(j), l \in 0 .. S!ChunksPerPage(j) - 1 :
          q = g * PageSize + l * ChunkSizes[j] /\ g \in Nat /\ g \in held
    BY <2>1, ChunkIsCut
  <2>4. \A a \in S!Bytes(i, p) : a \div PageSize = f
    BY <2>2, ChunkInPage
  <2>5. \A a \in S!Bytes(j, q) : a \div PageSize = g
    BY <2>3, ChunkInPage
  <2>6. ASSUME NEW a \in S!Bytes(i, p), a \in S!Bytes(j, q) PROVE i = j /\ p = q
    <3>1. f = g
      BY <2>4, <2>5, <2>6
    <3>2. i = j
      BY <3>1, <2>1, <2>2, <2>3 DEF SlabInv, PagesDiffer
    <3>3. k = l
      BY <3>2, <2>2, <2>3, <2>6, ChunksApart
    <3> QED BY <3>1, <3>2, <3>3, <2>2, <2>3
  <2> QED BY <2>2, <2>4, <2>6
<1> QED
  BY <1>1, SlabInvariance, PTL
-----------------------------------------------------------------------------
\* What the boot loader may write, with the tag that ends it.
BootLists == {Append(list, EndTag) : list \in TagLists}

Padded(list) == [i \in 1 .. Len(list) |-> M!RoundUp8(list[i].size)]

\* What the walk knows of memory once it has passed the tags in T.
TotalAfter(T) == IF MemTag \in T THEN (UpperMemory + LowMemory) % U32 ELSE 0
AvailableAfter(T) == IF MapTag \in T THEN Cardinality(UsableBytes) ELSE 0
Passed(list, i) == {list[j] : j \in 1 .. i - 1}

InfoFields == {"total", "available", "has_framebuffer"}

\* The walk stands at a tag of the list, and has added up the tags before it.
WalkInv ==
  phase = "parse" =>
    \E list \in BootLists : \E i \in 1 .. Len(list) :
      /\ mbi = Placed(list) /\ tag = TagEnds(list)[i - 1]
      /\ DOMAIN out_info = InfoFields
      /\ out_info.total = TotalAfter(Passed(list, i))
      /\ out_info.available = AvailableAfter(Passed(list, i))

\* The types of what the boot information is made of (struct multiboot_tag and its kin).
LEMMA BootConstants ==
  /\ U32 \in Nat \ {0} /\ LowMemory \in Nat /\ UpperMemory \in Nat /\ HeaderSize \in Nat \ {0}
  /\ Regions \in Seq([len : Nat, usable : BOOLEAN]) /\ IsFiniteSet(OtherTags)
  /\ \A t \in OtherTags : t.size \in Nat \ {0} /\ t.type \notin {"meminfo", "mmap", "end"}
BY MemoryTagsAssumption

\* The tags that the boot loader puts one after another.
LEMMA TagEndsAre ==
  ASSUME NEW list, Len(list) \in Nat, Padded(list) \in [1 .. Len(list) -> Nat]
  PROVE  Sums(TagEnds(list), 8, Len(list), Padded(list))
<1>1. PICK n, w : n = Len(list) /\ w = Padded(list)
  OBVIOUS
<1>2. PICK g : /\ Sums(g, 8, n, w)
               /\ \A h : h[0] = 8 /\ (\A i \in 1 .. n : h[i] = h[i - 1] + w[i])
                         => \A i \in 0 .. n : h[i] = g[i]
  <2>1. n \in Nat /\ w \in [1 .. n -> Nat] /\ 8 \in Nat
    BY ONLY <1>1, Len(list) \in Nat, Padded(list) \in [1 .. Len(list) -> Nat]
  <2> QED BY ONLY <2>1, RunningSum
<1>3. /\ g \in [0 .. n -> Nat] /\ g[0] = 8 /\ \A i \in 1 .. n : g[i] = g[i - 1] + w[i]
  BY ONLY <1>2 DEF Sums
<1>4. \A i \in 1 .. n : w[i] = M!RoundUp8(list[i].size)
  BY ONLY <1>1 DEF Padded
<1>5. g = [i \in 0 .. n |-> IF i = 0 THEN 8 ELSE g[i - 1] + M!RoundUp8(list[i].size)]
  <2>1. ASSUME NEW i \in 0 .. n
        PROVE  g[i] = IF i = 0 THEN 8 ELSE g[i - 1] + M!RoundUp8(list[i].size)
    <3>1. n \in Nat
      BY ONLY <1>1, Len(list) \in Nat
    <3>2. i = 0 \/ i \in 1 .. n
      BY ONLY <3>1, i \in 0 .. n
    <3>3. i \in 1 .. n => i # 0
      BY ONLY <3>1
    <3> QED BY ONLY <1>3, <1>4, <3>2, <3>3
  <2> QED BY ONLY <1>3, <2>1
<1>6. TagEnds(list) =
        CHOOSE e : e = [i \in 0 .. n |-> IF i = 0 THEN 8 ELSE e[i - 1] + M!RoundUp8(list[i].size)]
  BY ONLY <1>1 DEF TagEnds
<1>7. PICK e : e = TagEnds(list)
  OBVIOUS
<1>8. e = [i \in 0 .. n |-> IF i = 0 THEN 8 ELSE e[i - 1] + M!RoundUp8(list[i].size)]
  BY ONLY <1>5, <1>6, <1>7
<1>9. e[0] = 8 /\ \A i \in 1 .. n : e[i] = e[i - 1] + w[i]
  <2>1. n \in Nat /\ 0 \in 0 .. n
    BY ONLY <1>1, Len(list) \in Nat
  <2>2. ASSUME NEW i \in 1 .. n PROVE e[i] = e[i - 1] + w[i]
    <3>1. i \in 0 .. n /\ i # 0
      BY ONLY <2>1, i \in 1 .. n
    <3> QED BY ONLY <1>4, <1>8, <3>1, i \in 1 .. n
  <2> QED BY ONLY <1>8, <2>1, <2>2
<1>10. \A i \in 0 .. n : e[i] = g[i]
  BY ONLY <1>2, <1>9
<1>11. e = g
  <2>1. e = [i \in 0 .. n |-> e[i]]
    BY ONLY <1>8
  <2> QED BY ONLY <1>3, <1>10, <2>1
<1> QED
  BY ONLY <1>1, <1>2, <1>7, <1>11

\* Sums of what is not zero grow.
LEMMA SumsGrow ==
  ASSUME NEW n \in Nat, NEW a, NEW w, NEW e, Sums(e, a, n, w),
         \A i \in 1 .. n : w[i] \in Nat \ {0}
  PROVE  \A i, j \in 0 .. n : i < j => e[i] < e[j]
<1>1. e \in [0 .. n -> Nat] /\ \A i \in 1 .. n : e[i] = e[i - 1] + w[i]
  BY DEF Sums
<1>2. SUFFICES ASSUME NEW i \in 0 .. n
               PROVE  {j \in i + 1 .. n : ~ (e[i] < e[j])} = {}
  OBVIOUS
<1> DEFINE A == {j \in i + 1 .. n : ~ (e[i] < e[j])}
<1>3. ASSUME NEW m \in A, \A k \in A : m <= k PROVE FALSE
  <2>1. m \in 1 .. n /\ m - 1 \in i .. n /\ m - 1 \notin A
    BY <1>3
  <2>2. e[m] = e[m - 1] + w[m] /\ w[m] \in Nat \ {0} /\ e[m - 1] \in Nat /\ e[i] \in Nat
    BY <1>1, <2>1
  <2>3. e[m - 1] >= e[i]
    BY <1>1, <2>1, <2>2
  <2> QED BY <2>2, <2>3
<1>4. A \in SUBSET Nat
  OBVIOUS
<1> QED
  BY <1>3, <1>4, MinOfNaturals

\* Padding to 8 bytes (multiboot2_parse) keeps the size of a tag above zero.
LEMMA RoundUp8Is == \A n \in Nat \ {0} : M!RoundUp8(n) \in Nat \ {0}
BY DEF M!RoundUp8

\* The walk finds the i-th tag where the one before it ends.
LEMMA PlacedAt ==
  ASSUME NEW list, Len(list) \in Nat, DOMAIN list = 1 .. Len(list),
         \A i \in 1 .. Len(list) : list[i].size \in Nat \ {0}
  PROVE  /\ TagEnds(list)[0] = 8
         /\ \A i \in 1 .. Len(list) :
              /\ TagEnds(list)[i - 1] \in DOMAIN Placed(list)
              /\ Placed(list)[TagEnds(list)[i - 1]] = list[i]
              /\ TagEnds(list)[i] = TagEnds(list)[i - 1] + M!RoundUp8(list[i].size)
<1>1. PICK n, w, e : n = Len(list) /\ w = Padded(list) /\ e = TagEnds(list)
  OBVIOUS
<1>2. n \in Nat /\ w \in [1 .. n -> Nat]
      /\ \A i \in 1 .. n : w[i] \in Nat \ {0} /\ w[i] = M!RoundUp8(list[i].size)
  <2>1. \A i \in 1 .. n : M!RoundUp8(list[i].size) \in Nat \ {0}
    BY <1>1, RoundUp8Is
  <2> QED BY <1>1, <2>1 DEF Padded
<1>3. Sums(e, 8, n, w)
  BY ONLY <1>1, <1>2, TagEndsAre
<1>4. e \in [0 .. n -> Nat] /\ e[0] = 8 /\ \A i \in 1 .. n : e[i] = e[i - 1] + w[i]
  BY ONLY <1>3 DEF Sums
<1>5. \A i, j \in 0 .. n : i < j => e[i] < e[j]
  BY ONLY <1>2, <1>3, SumsGrow
<1>6. ASSUME NEW i \in 1 .. n, NEW j \in 1 .. n, e[i - 1] = e[j - 1] PROVE i = j
  <2>1. i - 1 \in 0 .. n /\ j - 1 \in 0 .. n
    BY <1>2
  <2>2. ~ (i - 1 < j - 1) /\ ~ (j - 1 < i - 1)
    BY <1>4, <1>5, <1>6, <2>1
  <2> QED BY <1>2, <2>2
<1>7. Placed(list) = [o \in {e[i - 1] : i \in 1 .. n} |->
                        list[CHOOSE i \in 1 .. n : e[i - 1] = o]]
  BY ONLY <1>1, DOMAIN list = 1 .. Len(list) DEF Placed
<1>8. ASSUME NEW i \in 1 .. n
      PROVE  e[i - 1] \in DOMAIN Placed(list) /\ Placed(list)[e[i - 1]] = list[i]
  <2>1. PICK o : o = e[i - 1]
    OBVIOUS
  <2>2. (CHOOSE j \in 1 .. n : e[j - 1] = o) = i
    BY ONLY <1>6, <2>1, i \in 1 .. n
  <2>3. o \in {e[j - 1] : j \in 1 .. n}
    BY ONLY <2>1, i \in 1 .. n
  <2>4. Placed(list)[o] = list[CHOOSE j \in 1 .. n : e[j - 1] = o]
    BY ONLY <1>7, <2>3
  <2>5. o \in DOMAIN Placed(list)
    BY ONLY <1>7, <2>3
  <2> QED BY ONLY <2>1, <2>2, <2>4, <2>5
<1> QED
  BY ONLY <1>1, <1>2, <1>4, <1>8

\* The list of a boot loader: both tags about memory once, the end tag at its end.
LEMMA BootListIs ==
  ASSUME NEW list \in BootLists
  PROVE  /\ Len(list) \in Nat \ {0} /\ DOMAIN list = 1 .. Len(list)
         /\ \A i \in 1 .. Len(list) : list[i].size \in Nat \ {0}
         /\ \A i \in 1 .. Len(list) : list[i].type = "end" <=> i = Len(list)
         /\ \A i \in 1 .. Len(list) :
              /\ list[i].type = "meminfo" <=> list[i] = MemTag
              /\ list[i].type = "mmap" <=> list[i] = MapTag
         /\ \A i, j \in 1 .. Len(list) - 1 : list[i] = list[j] => i = j
         /\ \E i \in 1 .. Len(list) - 1 : list[i] = MemTag
         /\ \E i \in 1 .. Len(list) - 1 : list[i] = MapTag
<1>1. PICK l \in TagLists : list = Append(l, EndTag)
  BY DEF BootLists
<1>2. PICK T \in SUBSET OtherTags : l \in SetToSeqs({MemTag, MapTag} \cup T)
  BY <1>1 DEF TagLists
<1>3. PICK X, n : X = {MemTag, MapTag} \cup T /\ n = Cardinality(X)
  OBVIOUS
<1>4. IsFiniteSet(X) /\ n \in Nat
  <2>1. IsFiniteSet(T)
    BY BootConstants, FS_Subset
  <2>2. IsFiniteSet({MemTag, MapTag})
    <3>1. IsFiniteSet({MemTag}) /\ IsFiniteSet({MapTag})
      BY FS_Singleton
    <3>2. {MemTag, MapTag} = {MemTag} \cup {MapTag}
      OBVIOUS
    <3> QED BY ONLY <3>1, <3>2, FS_Union
  <2>3. IsFiniteSet({MemTag, MapTag} \cup T)
    BY ONLY <2>1, <2>2, FS_Union
  <2> QED BY ONLY <1>3, <2>3, FS_CardinalityType
<1>5. l \in [1 .. n -> X] /\ \A i, j \in 1 .. n : i # j => l[i] # l[j]
  BY ONLY <1>2, <1>3 DEF SetToSeqs
<1>6. l \in Surjection(1 .. n, X)
  <2>1. l \in Injection(1 .. n, X)
    <3>1. \A a, b \in 1 .. n : l[a] = l[b] => a = b
      BY ONLY <1>5
    <3> QED BY ONLY <1>5, <3>1 DEF Injection, IsInjective
  <2>2. Cardinality(1 .. n) = n
    BY ONLY <1>4, FS_Interval
  <2> QED BY ONLY <1>3, <1>4, <2>1, <2>2, FS_Injection
<1>7. \A s \in X : \E i \in 1 .. n : l[i] = s
  BY ONLY <1>6 DEF Surjection
<1>8. l \in Seq(X) /\ Len(l) = n
  BY ONLY <1>4, <1>5
<1>9. Len(list) = n + 1 /\ DOMAIN list = 1 .. n + 1 /\ list[n + 1] = EndTag
      /\ \A i \in 1 .. n : list[i] = l[i]
  <2>1. PICK U : U = X \cup {EndTag}
    OBVIOUS
  <2>2. l \in Seq(U) /\ EndTag \in U
    BY ONLY <1>4, <1>5, <1>8, <2>1
  <2> QED BY ONLY <1>1, <1>4, <1>8, <2>2, AppendProperties
<1>10. /\ MemTag.type = "meminfo" /\ MemTag.size \in Nat \ {0}
       /\ MapTag.type = "mmap" /\ MapTag.size \in Nat \ {0}
       /\ EndTag.type = "end" /\ EndTag.size \in Nat \ {0}
  <2>1. Len(Regions) \in Nat /\ HeaderSize \in Nat \ {0}
    BY BootConstants, LenProperties
  <2>2. HeaderSize + 24 * Len(Regions) \in Nat \ {0}
    BY ONLY <2>1
  <2> QED BY ONLY <2>2 DEF MemTag, MapTag, EndTag
<1>11. \A t \in T : t.size \in Nat \ {0} /\ t.type \notin {"meminfo", "mmap", "end"}
  <2>1. T \subseteq OtherTags
    BY ONLY <1>2
  <2> QED BY ONLY BootConstants, <2>1
<1>12. \A s \in X : /\ s.size \in Nat \ {0} /\ s.type # "end"
                    /\ s.type = "meminfo" <=> s = MemTag
                    /\ s.type = "mmap" <=> s = MapTag
  BY ONLY <1>3, <1>10, <1>11
<1>13. \A i \in 1 .. n : i \in 1 .. n + 1 /\ i # n + 1 /\ l[i] \in X
  BY ONLY <1>4, <1>5
<1>14. 1 .. Len(list) - 1 = 1 .. n /\ Len(list) \in Nat \ {0}
  BY ONLY <1>4, <1>9
<1>15. \A i \in 1 .. n + 1 : i \in 1 .. n \/ i = n + 1
  BY ONLY <1>4
<1>16. ASSUME NEW i \in 1 .. n + 1
       PROVE  /\ list[i].size \in Nat \ {0}
              /\ list[i].type = "end" <=> i = n + 1
              /\ list[i].type = "meminfo" <=> list[i] = MemTag
              /\ list[i].type = "mmap" <=> list[i] = MapTag
  <2>1. CASE i = n + 1
    <3>1. list[i] = EndTag
      BY ONLY <1>9, <2>1
    <3> QED BY ONLY <1>10, <2>1, <3>1
  <2>2. CASE i \in 1 .. n
    <3>1. list[i] = l[i] /\ l[i] \in X /\ i # n + 1
      BY ONLY <1>9, <1>13, <2>2
    <3>2. PICK s : s = list[i]
      OBVIOUS
    <3>3. s \in X /\ ~ i = n + 1
      BY ONLY <3>1, <3>2
    <3>4. /\ s.size \in Nat \ {0} /\ s.type # "end"
          /\ s.type = "meminfo" <=> s = MemTag
          /\ s.type = "mmap" <=> s = MapTag
      BY ONLY <1>12, <3>3
    <3> QED BY ONLY <3>2, <3>3, <3>4
  <2> QED BY ONLY <1>15, <2>1, <2>2
<1>17. \A i, j \in 1 .. n : list[i] = list[j] => i = j
  BY ONLY <1>5, <1>9
<1>18. \A s \in {MemTag, MapTag} : \E i \in 1 .. n : list[i] = s
  BY ONLY <1>3, <1>7, <1>9
<1> QED
  BY ONLY <1>9, <1>14, <1>16, <1>17, <1>18

\* The bytes of RAM in the first k regions.
RamUpTo(k) ==
  UNION {{i} \X (1 .. Regions[i].len) : i \in {j \in 1 .. k : Regions[j].usable}}

\* One more entry adds its bytes when it is RAM.
LEMMA RamOfOneMore ==
  ASSUME NEW k \in Nat, k + 1 \in 1 .. Len(Regions), Len(Regions) \in Nat,
         Regions[k + 1] \in [len : Nat, usable : BOOLEAN], IsFiniteSet(RamUpTo(k))
  PROVE  /\ IsFiniteSet(RamUpTo(k + 1))
         /\ Cardinality(RamUpTo(k + 1)) =
              Cardinality(RamUpTo(k)) + (IF Regions[k + 1].usable THEN Regions[k + 1].len ELSE 0)
<1>1. PICK R, m, B, d : R = RamUpTo(k) /\ m = Regions[k + 1].len /\ B = {k + 1} \X (1 .. m)
                        /\ d = k + 1
  OBVIOUS
<1>2. m \in Nat /\ IsFiniteSet(R) /\ Cardinality(R) \in Nat
  <2>1. m \in Nat /\ IsFiniteSet(R)
    BY <1>1
  <2> QED BY <2>1, FS_CardinalityType
<1>3. \A j : j \in 1 .. d <=> j \in 1 .. k \/ j = d
  BY ONLY <1>1, k \in Nat
<1>4. CASE Regions[k + 1].usable
  <2>1. RamUpTo(k + 1) = R \cup B
    <3>1. ASSUME NEW x PROVE x \in RamUpTo(d) <=> x \in R \/ x \in B
      <4>1. x \in RamUpTo(d) <=> \E j \in 1 .. d : Regions[j].usable
                                        /\ x \in {j} \X (1 .. Regions[j].len)
        BY ONLY TRUE DEF RamUpTo
      <4>2. x \in R <=> \E j \in 1 .. k : Regions[j].usable
                                        /\ x \in {j} \X (1 .. Regions[j].len)
        BY ONLY <1>1 DEF RamUpTo
      <4>3. x \in B <=> Regions[d].usable /\ x \in {d} \X (1 .. Regions[d].len)
        BY ONLY <1>1, <1>4
      <4> QED BY ONLY <1>3, <4>1, <4>2, <4>3
    <3> QED BY ONLY <1>1, <3>1
  <2>2. IsFiniteSet(B) /\ Cardinality(B) = m
    <3>1. IsFiniteSet(1 .. m) /\ Cardinality(1 .. m) = m
      <4>1. 1 \in Int /\ m \in Int /\ (1 > m => m = 0) /\ m - 1 + 1 = m
        BY ONLY <1>2
      <4> QED BY ONLY <4>1, FS_Interval
    <3>2. IsFiniteSet({k + 1}) /\ Cardinality({k + 1}) = 1
      BY ONLY FS_Singleton
    <3>3. PICK C, I : C = {k + 1} /\ I = 1 .. m
      OBVIOUS
    <3>4. IsFiniteSet(C \X I) /\ Cardinality(C \X I) = Cardinality(C) * Cardinality(I)
      BY ONLY <3>1, <3>2, <3>3, FS_Product
    <3>5. C \X I = B
      BY ONLY <1>1, <3>3
    <3>6. Cardinality(C) = 1 /\ Cardinality(I) = m
      BY ONLY <3>1, <3>2, <3>3
    <3>7. PICK q, r : q = Cardinality(C) /\ r = Cardinality(I)
      OBVIOUS
    <3>8. q * r = m
      BY ONLY <1>2, <3>6, <3>7
    <3> QED BY ONLY <3>4, <3>5, <3>7, <3>8
  <2>3. R \cap B = {}
    <3>1. ASSUME NEW x \in R, x \in B PROVE FALSE
      <4>1. PICK j \in 1 .. k : x \in {j} \X (1 .. Regions[j].len)
        BY ONLY <1>1, <3>1 DEF RamUpTo
      <4>2. x[1] = j /\ x[1] = k + 1
        BY ONLY <1>1, <3>1, <4>1
      <4> QED BY ONLY k \in Nat, <4>1, <4>2
    <3> QED BY ONLY <3>1
  <2>4. Cardinality(R \cap B) = 0
    BY ONLY <2>3, FS_EmptySet
  <2>5. IsFiniteSet(R \cup B) /\ Cardinality(R \cup B) = Cardinality(R) + m - 0
    BY ONLY <1>2, <2>2, <2>4, FS_Union
  <2>6. Cardinality(R \cup B) = Cardinality(R) + m
    BY ONLY <1>2, <2>5
  <2>7. /\ IsFiniteSet(RamUpTo(k + 1))
        /\ Cardinality(RamUpTo(k + 1)) = Cardinality(RamUpTo(k)) + Regions[k + 1].len
    BY ONLY <1>1, <2>1, <2>5, <2>6
  <2> QED BY ONLY <1>4, <2>7
<1>5. CASE ~ Regions[k + 1].usable
  <2>1. {j \in 1 .. d : Regions[j].usable} = {j \in 1 .. k : Regions[j].usable}
    BY ONLY <1>1, <1>3, <1>5
  <2>2. RamUpTo(k + 1) = R
    BY ONLY <1>1, <2>1 DEF RamUpTo
  <2> QED BY ONLY <1>1, <1>2, <1>5, <2>2
<1> QED
  BY <1>4, <1>5

\* What the loop over the entries of the memory map adds up is the RAM that they list.
LEMMA AvailableIs ==
  IsFiniteSet(UsableBytes) /\ M!AvailableLength(Regions) = Cardinality(UsableBytes)
<1>1. PICK n, w : n = Len(Regions)
                  /\ w = [i \in 1 .. n |-> IF Regions[i].usable THEN Regions[i].len ELSE 0]
  OBVIOUS
<1>2. n \in Nat /\ \A i \in 1 .. n : Regions[i] \in [len : Nat, usable : BOOLEAN]
  <2>1. PICK Q : Q = [len : Nat, usable : BOOLEAN]
    OBVIOUS
  <2>2. Regions \in Seq(Q)
    BY BootConstants, <2>1
  <2>3. n \in Nat /\ \A i \in 1 .. n : Regions[i] \in Q
    BY ONLY <1>1, <2>2, LenProperties, ElementOfSeq
  <2> QED BY ONLY <2>1, <2>3
<1>3. w \in [1 .. n -> Nat]
  BY ONLY <1>1, <1>2
<1>4. PICK g : /\ Sums(g, 0, n, w)
               /\ \A h : h[0] = 0 /\ (\A i \in 1 .. n : h[i] = h[i - 1] + w[i])
                         => \A i \in 0 .. n : h[i] = g[i]
  <2>1. 0 \in Nat
    OBVIOUS
  <2> QED BY ONLY <1>2, <1>3, <2>1, RunningSum
<1>5. /\ g \in [0 .. n -> Nat] /\ g[0] = 0 /\ \A i \in 1 .. n : g[i] = g[i - 1] + w[i]
  BY ONLY <1>4 DEF Sums
<1>6. \A i \in 1 .. n : w[i] = IF Regions[i].usable THEN Regions[i].len ELSE 0
  BY ONLY <1>1
<1>7. \A i \in 0 .. n : i = 0 \/ i \in 1 .. n
  BY ONLY <1>2
<1>8. 0 \in 0 .. n /\ n \in 0 .. n /\ \A i \in 1 .. n : i \in 0 .. n /\ i # 0
  BY ONLY <1>2
<1>9. g = [i \in 0 .. n |-> IF i = 0 THEN 0
             ELSE g[i - 1] + (IF Regions[i].usable THEN Regions[i].len ELSE 0)]
  <2>1. ASSUME NEW i \in 0 .. n
        PROVE  g[i] = IF i = 0 THEN 0
                      ELSE g[i - 1] + (IF Regions[i].usable THEN Regions[i].len ELSE 0)
    BY ONLY <1>5, <1>6, <1>7, <1>8, i \in 0 .. n
  <2> QED BY ONLY <1>5, <2>1
<1>10. PICK e : e = CHOOSE f : f = [i \in 0 .. n |-> IF i = 0 THEN 0
             ELSE f[i - 1] + (IF Regions[i].usable THEN Regions[i].len ELSE 0)]
  OBVIOUS
<1>11. M!AvailableLength(Regions) = e[n]
  BY ONLY <1>1, <1>10 DEF M!AvailableLength
<1>12. e = [i \in 0 .. n |-> IF i = 0 THEN 0
             ELSE e[i - 1] + (IF Regions[i].usable THEN Regions[i].len ELSE 0)]
  BY ONLY <1>9, <1>10
<1>13. e[0] = 0 /\ \A i \in 1 .. n : e[i] = e[i - 1] + w[i]
  <2>1. ASSUME NEW i \in 1 .. n PROVE e[i] = e[i - 1] + w[i]
    BY ONLY <1>6, <1>8, <1>12, i \in 1 .. n
  <2> QED BY ONLY <1>8, <1>12, <2>1
<1>14. e[n] = g[n]
  BY ONLY <1>4, <1>8, <1>13
<1> DEFINE A == {k \in 0 .. n : ~ (IsFiniteSet(RamUpTo(k)) /\ g[k] = Cardinality(RamUpTo(k)))}
<1>15. ASSUME NEW m \in A, \A k \in A : m <= k PROVE FALSE
  <2>1. CASE m = 0
    <3>1. RamUpTo(0) = {}
      BY ONLY TRUE DEF RamUpTo
    <3>2. IsFiniteSet(RamUpTo(0)) /\ Cardinality(RamUpTo(0)) = 0
      BY ONLY <3>1, FS_EmptySet
    <3> QED BY ONLY <1>5, <2>1, <3>2, m \in A
  <2>2. CASE m # 0
    <3>1. PICK k : k = m - 1
      OBVIOUS
    <3>2. k \in 0 .. n /\ k \notin A /\ m \in 1 .. n /\ k \in Nat /\ m = k + 1
      BY <1>2, <1>15, <2>2, <3>1
    <3>3. IsFiniteSet(RamUpTo(k)) /\ g[k] = Cardinality(RamUpTo(k))
      BY ONLY <3>2
    <3>4. /\ IsFiniteSet(RamUpTo(k + 1))
          /\ Cardinality(RamUpTo(k + 1)) =
               Cardinality(RamUpTo(k)) + (IF Regions[k + 1].usable THEN Regions[k + 1].len ELSE 0)
      <4>1. k + 1 \in 1 .. Len(Regions) /\ Len(Regions) \in Nat
            /\ Regions[k + 1] \in [len : Nat, usable : BOOLEAN]
        BY ONLY <1>1, <1>2, <3>2
      <4> QED BY ONLY <3>2, <3>3, <4>1, RamOfOneMore
    <3>5. g[m] = g[k] + (IF Regions[m].usable THEN Regions[m].len ELSE 0)
      BY ONLY <1>5, <1>6, <3>1, <3>2
    <3> QED BY ONLY <3>2, <3>3, <3>4, <3>5, m \in A
  <2> QED BY <2>1, <2>2
<1>16. A \in SUBSET Nat
  BY <1>2
<1>17. A = {}
  BY <1>15, <1>16, MinOfNaturals
<1>18. IsFiniteSet(RamUpTo(n)) /\ g[n] = Cardinality(RamUpTo(n))
  BY ONLY <1>8, <1>17
<1>19. RamUpTo(n) = UsableBytes
  <2>1. DOMAIN Regions = 1 .. n
    BY BootConstants, <1>1, LenProperties
  <2> QED BY ONLY <2>1 DEF RamUpTo, UsableBytes
<1> QED
  BY ONLY <1>11, <1>14, <1>18, <1>19

\* What multiboot2_parse takes from the basic memory information: the total, 32 bits wide.
LEMMA ReadsMemTag ==
  ASSUME NEW info, DOMAIN info = InfoFields, NEW r, r = M!Reads(info, MemTag)
  PROVE  /\ DOMAIN r = InfoFields
         /\ r.total = (UpperMemory + LowMemory) % U32 /\ r.available = info.available
<1>1. MemTag.type = "meminfo" /\ MemTag.upper = UpperMemory
  BY DEF MemTag
<1>2. r = [info EXCEPT !.total = (UpperMemory + LowMemory) % U32]
  BY <1>1 DEF M!Reads
<1>3. "total" \in DOMAIN info /\ "available" \in DOMAIN info
  BY DEF InfoFields
<1> QED
  BY ONLY <1>2, <1>3, DOMAIN info = InfoFields

\* The memory map is taken whole: its size gives the number of its entries.
LEMMA ReadsMapTag ==
  ASSUME NEW info, DOMAIN info = InfoFields, info.available = 0,
         NEW r, r = M!Reads(info, MapTag)
  PROVE  /\ DOMAIN r = InfoFields
         /\ r.total = info.total /\ r.available = Cardinality(UsableBytes)
<1>1. PICK n : n = Len(Regions)
  OBVIOUS
<1>2. PICK Q : Q = [len : Nat, usable : BOOLEAN]
  OBVIOUS
<1>3. Regions \in Seq(Q) /\ n \in Nat /\ HeaderSize \in Nat
  BY BootConstants, LenProperties, <1>1, <1>2
<1>4. MapTag.type = "mmap" /\ MapTag.size = HeaderSize + 24 * n
      /\ MapTag.entry_size = 24 /\ MapTag.entries = Regions
  BY <1>1 DEF MapTag
<1>5. (MapTag.size - HeaderSize) \div MapTag.entry_size = n
  BY <1>3, <1>4
<1>6. SubSeq(Regions, 1, n) = Regions
  BY ONLY <1>1, <1>3, SubSeqFull
<1>7. M!Reads(info, MapTag) =
        [info EXCEPT !.available = @ + M!AvailableLength(SubSeq(Regions, 1, n))]
  BY ONLY <1>4, <1>5 DEF M!Reads
<1>8. r = [info EXCEPT !.available = 0 + Cardinality(UsableBytes)]
  BY ONLY <1>6, <1>7, AvailableIs, info.available = 0, r = M!Reads(info, MapTag)
<1>9. 0 + Cardinality(UsableBytes) = Cardinality(UsableBytes)
  BY ONLY AvailableIs, FS_CardinalityType
<1>10. "total" \in DOMAIN info /\ "available" \in DOMAIN info
  BY DEF InfoFields
<1> QED
  BY ONLY <1>8, <1>9, <1>10, DOMAIN info = InfoFields

\* A tag of another type says nothing about memory.
LEMMA ReadsOther ==
  ASSUME NEW info, DOMAIN info = InfoFields, NEW t, t.type \notin {"meminfo", "mmap"},
         NEW r, r = M!Reads(info, t)
  PROVE  DOMAIN r = InfoFields /\ r.total = info.total /\ r.available = info.available
<1>1. r = IF t.type = "framebuffer" THEN [info EXCEPT !.has_framebuffer = TRUE] ELSE info
  BY DEF M!Reads
<1>2. "total" \in DOMAIN info /\ "available" \in DOMAIN info
  BY DEF InfoFields
<1> QED
  BY ONLY <1>1, <1>2, DOMAIN info = InfoFields

\* The walk begins at the first tag, and knows nothing yet.
LEMMA WalkInit == MemoryInit => WalkInv
<1> SUFFICES ASSUME MemoryInit PROVE WalkInv
  OBVIOUS
<1>1. PICK l \in TagLists : mbi = Placed(Append(l, EndTag))
  BY DEF MemoryInit
<1>2. PICK list : list = Append(l, EndTag)
  OBVIOUS
<1>3. list \in BootLists
  BY ONLY <1>1, <1>2 DEF BootLists
<1>4. 1 \in 1 .. Len(list) /\ Len(list) \in Nat /\ DOMAIN list = 1 .. Len(list)
      /\ \A i \in 1 .. Len(list) : list[i].size \in Nat \ {0}
  BY ONLY <1>3, BootListIs
<1>5. TagEnds(list)[1 - 1] = 8
  BY ONLY <1>4, PlacedAt
<1>6. tag = 8 /\ out_info = M!NoInfo
  BY DEF MemoryInit, M!Init, M!Start
<1>7. DOMAIN out_info = InfoFields /\ out_info.total = 0 /\ out_info.available = 0
  BY ONLY <1>6 DEF M!NoInfo, InfoFields
<1>8. Passed(list, 1) = {}
  BY ONLY TRUE DEF Passed
<1>9. TotalAfter(Passed(list, 1)) = 0 /\ AvailableAfter(Passed(list, 1)) = 0
  BY ONLY <1>8 DEF TotalAfter, AvailableAfter
<1>10. /\ mbi = Placed(list) /\ tag = TagEnds(list)[1 - 1]
       /\ DOMAIN out_info = InfoFields
       /\ out_info.total = TotalAfter(Passed(list, 1))
       /\ out_info.available = AvailableAfter(Passed(list, 1))
  BY ONLY <1>1, <1>2, <1>5, <1>6, <1>7, <1>9
<1> QED
  BY ONLY <1>3, <1>4, <1>10 DEF WalkInv

\* A tag is passed once, and adds to what is known what multiboot2_parse reads in it.
LEMMA WalkStep ==
  ASSUME phase = "parse", WalkInv, M!ParseTag, phase' = phase
  PROVE  WalkInv'
<1>1. PICK list \in BootLists : \E i \in 1 .. Len(list) :
      /\ mbi = Placed(list) /\ tag = TagEnds(list)[i - 1]
      /\ DOMAIN out_info = InfoFields
      /\ out_info.total = TotalAfter(Passed(list, i))
      /\ out_info.available = AvailableAfter(Passed(list, i))
  BY DEF WalkInv
<1>2. PICK i \in 1 .. Len(list) :
      /\ mbi = Placed(list) /\ tag = TagEnds(list)[i - 1]
      /\ DOMAIN out_info = InfoFields
      /\ out_info.total = TotalAfter(Passed(list, i))
      /\ out_info.available = AvailableAfter(Passed(list, i))
  BY ONLY <1>1
<1>3. /\ Len(list) \in Nat /\ DOMAIN list = 1 .. Len(list)
      /\ \A j \in 1 .. Len(list) : list[j].size \in Nat \ {0}
  BY ONLY <1>1, BootListIs
<1>4. \A j \in 1 .. Len(list) : list[j].type = "end" <=> j = Len(list)
  BY ONLY <1>1, BootListIs
<1>5. \A j, k \in 1 .. Len(list) - 1 : list[j] = list[k] => j = k
  BY ONLY <1>1, BootListIs
<1>6. \A j \in 1 .. Len(list) : /\ list[j].type = "meminfo" <=> list[j] = MemTag
                                /\ list[j].type = "mmap" <=> list[j] = MapTag
  BY ONLY <1>1, BootListIs
<1>7. mbi[tag] = list[i] /\ TagEnds(list)[i] = tag + M!RoundUp8(list[i].size)
  BY ONLY <1>2, <1>3, PlacedAt
<1>8. PICK t : t = list[i]
  OBVIOUS
<1>9. t.type # "end" /\ out_info' = M!Reads(out_info, t) /\ mbi' = mbi
      /\ tag' = TagEnds(list)[i]
  BY <1>7, <1>8 DEF M!ParseTag, M!At, M!NextTag
<1>10. i \in 1 .. Len(list) - 1 /\ i + 1 \in 1 .. Len(list) /\ i + 1 - 1 = i
  <2>1. t.type = "end" <=> i = Len(list)
    BY ONLY <1>2, <1>4, <1>8
  <2>2. i # Len(list)
    BY ONLY <1>9, <2>1
  <2>3. PICK n : n = Len(list)
    OBVIOUS
  <2>4. i \in 1 .. n /\ i # n /\ n \in Nat
    BY ONLY <1>2, <1>3, <2>2, <2>3
  <2>5. i \in 1 .. n - 1 /\ i + 1 \in 1 .. n /\ i + 1 - 1 = i
    BY ONLY <2>4
  <2> QED BY ONLY <2>3, <2>5
<1>11. t \notin Passed(list, i)
  <2>1. ASSUME NEW j \in 1 .. i - 1, list[j] = t PROVE FALSE
    <3>1. j \in 1 .. Len(list) - 1 /\ j # i
      BY ONLY <1>3, <1>10, j \in 1 .. i - 1
    <3> QED BY ONLY <1>5, <1>8, <1>10, <2>1, <3>1
  <2> QED BY ONLY <2>1 DEF Passed
<1>12. Passed(list, i + 1) = Passed(list, i) \cup {t}
  <2>1. \A j : j \in 1 .. i + 1 - 1 <=> j \in 1 .. i - 1 \/ j = i
    BY ONLY <1>2, <1>3
  <2> QED BY ONLY <1>8, <2>1 DEF Passed
<1>13. PICK T : T = Passed(list, i)
  OBVIOUS
<1>14. MemTag # MapTag
  BY ONLY TRUE DEF MemTag, MapTag
<1>15. /\ DOMAIN out_info' = InfoFields
       /\ (out_info').total = TotalAfter(T \cup {t})
       /\ (out_info').available = AvailableAfter(T \cup {t})
  <2>1. CASE t = MemTag
    <3>1. /\ DOMAIN out_info' = InfoFields
          /\ (out_info').total = (UpperMemory + LowMemory) % U32
          /\ (out_info').available = out_info.available
      BY ONLY <1>2, <1>9, <2>1, ReadsMemTag
    <3>2. AvailableAfter(T \cup {t}) = AvailableAfter(T)
      BY ONLY <1>14, <2>1 DEF AvailableAfter
    <3>3. TotalAfter(T \cup {t}) = (UpperMemory + LowMemory) % U32
      BY ONLY <2>1 DEF TotalAfter
    <3> QED BY ONLY <1>2, <1>13, <3>1, <3>2, <3>3
  <2>2. CASE t = MapTag
    <3>1. out_info.available = 0
      BY ONLY <1>2, <1>11, <2>2 DEF AvailableAfter
    <3>2. /\ DOMAIN out_info' = InfoFields
          /\ (out_info').total = out_info.total
          /\ (out_info').available = Cardinality(UsableBytes)
      BY ONLY <1>2, <1>9, <2>2, <3>1, ReadsMapTag
    <3>3. AvailableAfter(T \cup {t}) = Cardinality(UsableBytes)
      BY ONLY <2>2 DEF AvailableAfter
    <3>4. TotalAfter(T \cup {t}) = TotalAfter(T)
      BY ONLY <1>14, <2>2 DEF TotalAfter
    <3> QED BY ONLY <1>2, <1>13, <3>2, <3>3, <3>4
  <2>3. CASE t # MemTag /\ t # MapTag
    <3>1. t.type \notin {"meminfo", "mmap"}
      BY ONLY <1>2, <1>6, <1>8, <2>3
    <3>2. /\ DOMAIN out_info' = InfoFields
          /\ (out_info').total = out_info.total
          /\ (out_info').available = out_info.available
      BY ONLY <1>2, <1>9, <3>1, ReadsOther
    <3>3. AvailableAfter(T \cup {t}) = AvailableAfter(T)
      BY ONLY <2>3 DEF AvailableAfter
    <3>4. TotalAfter(T \cup {t}) = TotalAfter(T)
      BY ONLY <2>3 DEF TotalAfter
    <3> QED BY ONLY <1>2, <1>13, <3>2, <3>3, <3>4
  <2> QED BY ONLY <2>1, <2>2, <2>3
<1>16. /\ mbi' = Placed(list) /\ tag' = TagEnds(list)[i + 1 - 1]
       /\ DOMAIN out_info' = InfoFields
       /\ (out_info').total = TotalAfter(Passed(list, i + 1))
       /\ (out_info').available = AvailableAfter(Passed(list, i + 1))
  BY ONLY <1>2, <1>9, <1>10, <1>12, <1>13, <1>15
<1>17. \E k \in 1 .. Len(list) :
       /\ mbi' = Placed(list) /\ tag' = TagEnds(list)[k - 1]
       /\ DOMAIN out_info' = InfoFields
       /\ (out_info').total = TotalAfter(Passed(list, k))
       /\ (out_info').available = AvailableAfter(Passed(list, k))
  BY ONLY <1>10, <1>16
<1> QED
  BY ONLY <1>1, <1>17 DEF WalkInv

\* At the end of the walk kernel_main knows the RAM.
LEMMA WalkReads ==
  ASSUME WalkInv, LowMemory + UpperMemory < U32
  PROVE  BootInfoIsRead
<1> SUFFICES ASSUME phase = "parse"
             PROVE  /\ tag \in DOMAIN mbi
                    /\ M!Parsed =>
                         /\ out_info.total \div PageSize = TotalFrames
                         /\ out_info.available = Cardinality(UsableBytes)
  BY DEF BootInfoIsRead
<1>1. PICK list \in BootLists : \E i \in 1 .. Len(list) :
      /\ mbi = Placed(list) /\ tag = TagEnds(list)[i - 1]
      /\ DOMAIN out_info = InfoFields
      /\ out_info.total = TotalAfter(Passed(list, i))
      /\ out_info.available = AvailableAfter(Passed(list, i))
  BY DEF WalkInv
<1>2. PICK i \in 1 .. Len(list) :
      /\ mbi = Placed(list) /\ tag = TagEnds(list)[i - 1]
      /\ out_info.total = TotalAfter(Passed(list, i))
      /\ out_info.available = AvailableAfter(Passed(list, i))
  BY ONLY <1>1
<1>3. /\ Len(list) \in Nat \ {0} /\ DOMAIN list = 1 .. Len(list)
      /\ \A j \in 1 .. Len(list) : list[j].size \in Nat \ {0}
      /\ \A j \in 1 .. Len(list) : list[j].type = "end" <=> j = Len(list)
      /\ \E j \in 1 .. Len(list) - 1 : list[j] = MemTag
      /\ \E j \in 1 .. Len(list) - 1 : list[j] = MapTag
  BY ONLY <1>1, BootListIs
<1>4. tag \in DOMAIN mbi /\ mbi[tag] = list[i]
  <2>1. Len(list) \in Nat
    BY ONLY <1>3
  <2> QED BY ONLY <1>2, <1>3, <2>1, PlacedAt
<1>5. ASSUME M!Parsed
      PROVE  /\ out_info.total \div PageSize = TotalFrames
             /\ out_info.available = Cardinality(UsableBytes)
  <2>1. i = Len(list)
    BY ONLY <1>2, <1>3, <1>4, <1>5 DEF M!Parsed, M!At
  <2>2. MemTag \in Passed(list, i) /\ MapTag \in Passed(list, i)
    BY ONLY <1>3, <2>1 DEF Passed
  <2>3. out_info.total = (UpperMemory + LowMemory) % U32
        /\ out_info.available = Cardinality(UsableBytes)
    BY ONLY <1>2, <2>2 DEF TotalAfter, AvailableAfter
  <2>4. (UpperMemory + LowMemory) % U32 = LowMemory + UpperMemory
    BY BootConstants
  <2> QED BY <2>3, <2>4, MemoryAssumption
<1> QED
  BY ONLY <1>4, <1>5

\* multiboot2_parse comes from tag to tag whatever the boot loader writes between the two
\* that kernel_main needs, and leaves with the RAM that they report, as long as the number
\* of KiB does not wrap around the 32 bits that it is added up in.
THEOREM BootInformationIsRead ==
  ASSUME LowMemory + UpperMemory < U32
  PROVE  MemorySpec => []BootInfoIsRead
<1>1. MemoryInit => WalkInv
  BY WalkInit
<1>2. WalkInv /\ [MemoryNext]_allVars => WalkInv'
  <2> SUFFICES ASSUME WalkInv, [MemoryNext]_allVars PROVE WalkInv'
    OBVIOUS
  <2>1. CASE ParseTag
    BY <2>1, WalkStep DEF ParseTag
  <2>2. CASE pmm_init
    BY <2>2 DEF pmm_init, WalkInv
  <2>3. CASE phase = "run" /\ UNCHANGED bootVars
    BY <2>3 DEF bootVars, WalkInv
  <2>4. CASE UNCHANGED allVars
    BY <2>4 DEF allVars, bootVars, WalkInv
  <2> QED BY <2>1, <2>2, <2>3, <2>4 DEF MemoryNext
<1>3. WalkInv => BootInfoIsRead
  BY WalkReads
<1> QED
  BY <1>1, <1>2, <1>3, PTL DEF MemorySpec
=============================================================================
