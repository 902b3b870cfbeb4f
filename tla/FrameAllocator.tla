--------------------------- MODULE FrameAllocator ---------------------------
(***************************************************************************)
(* What the physical memory manager promises its callers, without bitmap,  *)
(* search order or free-frame counter: a set of allocated frames, single   *)
(* frames handed out lowest first, runs of frames handed out first fit.    *)
(* The reply 0 is both frame 0 and "no memory", as in the C interface      *)
(* (kernel/include/aura/pmm.h).                                            *)
(***************************************************************************)
EXTENDS Integers, FiniteSets

CONSTANTS TotalFrames, MaxRun

VARIABLES
  allocated,
  asked,   \* how many frames the last allocation asked for
  reply    \* what it returned

Frames == 0 .. TotalFrames - 1
Available == Frames \ allocated

\* The frames of a run of n frames that starts at s.
RunOf(s, n) == s .. s + n - 1

\* The starts of the runs of n frames that are wholly available.
RunStarts(n) == {s \in Frames : s + n <= TotalFrames /\ RunOf(s, n) \subseteq Available}

IsLeast(f, S) == f \in S /\ \A g \in S : f <= g

Init == allocated = {} /\ asked = 0 /\ reply = 0

Reserve ==
  (\E f \in Frames : allocated' = allocated \cup {f}) /\ UNCHANGED <<asked, reply>>

Release ==
  (\E f \in Frames : allocated' = allocated \ {f}) /\ UNCHANGED <<asked, reply>>

Allocate ==
  /\ asked' = 1
  /\ \/ \E f \in Available :
           /\ IsLeast(f, Available)
           /\ allocated' = allocated \cup {f}
           /\ reply' = f
     \/ Available = {} /\ reply' = 0 /\ allocated' = allocated

AllocateRun(n) ==
  /\ asked' = n
  /\ \/ \E s \in RunStarts(n) :
           /\ n > 0
           /\ IsLeast(s, RunStarts(n))
           /\ allocated' = allocated \cup RunOf(s, n)
           /\ reply' = s
     \/ (n = 0 \/ RunStarts(n) = {}) /\ reply' = 0 /\ allocated' = allocated

Next == Reserve \/ Release \/ Allocate \/ \E n \in 0 .. MaxRun : AllocateRun(n)

Spec == Init /\ [][Next]_<<allocated, asked, reply>>
=============================================================================
