------------------------------ MODULE MCMemory ------------------------------
(* Ten frames of four KiB: the low memory, the kernel and the bitmap in     *)
(* five, and five that are handed out.  The zones have two chunks and one   *)
(* chunk a page.                                                            *)
EXTENDS Memory

MCRegions == <<[len |-> 8, usable |-> TRUE], [len |-> 4, usable |-> FALSE],
               [len |-> 28, usable |-> TRUE], [len |-> 8, usable |-> FALSE]>>

MCOtherTags == {[type |-> "framebuffer", size |-> 38], [type |-> "cmdline", size |-> 13]}

MCChunkSizes == <<2, 4>>
=============================================================================
