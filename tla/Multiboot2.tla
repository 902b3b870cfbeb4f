----------------------------- MODULE Multiboot2 -----------------------------
(***************************************************************************)
(* The walk over the tags of the boot information                          *)
(* (kernel/core/multiboot2.c).  The information is a function from the     *)
(* offsets at which the boot loader has put a tag to the tag; reading at   *)
(* any other offset would take the middle of a tag for one.                *)
(***************************************************************************)
EXTENDS Integers, Sequences

CONSTANTS
  U32,         \* 2^32, or a smaller power of 2
  LowMemory,   \* the KiB below 1 MiB (1024)
  HeaderSize   \* sizeof(struct multiboot_tag_mmap) (16)

VARIABLES
  mbi,         \* offset -> tag
  tag,         \* the offset that the walk has reached
  out_info

vars == <<mbi, tag, out_info>>

RoundUp8(n) == ((n + 7) \div 8) * 8

Start == 8
NoInfo == [total |-> 0, available |-> 0, has_framebuffer |-> FALSE]

At == mbi[tag]

\* multiboot2_parse has read the magic number of a boot loader.
Init == tag = Start /\ out_info = NoInfo

AvailableLength(entries) ==
  LET upto[i \in 0 .. Len(entries)] ==
        IF i = 0 THEN 0
        ELSE upto[i - 1] + (IF entries[i].usable THEN entries[i].len ELSE 0)
  IN  upto[Len(entries)]

\* What the tag adds; meminfo counts the KiB above 1 MiB, 32 bits wide.
Reads(info, t) ==
  CASE t.type = "meminfo" -> [info EXCEPT !.total = (t.upper + LowMemory) % U32]
    [] t.type = "mmap" ->
         LET n == (t.size - HeaderSize) \div t.entry_size
         IN  [info EXCEPT !.available = @ + AvailableLength(SubSeq(t.entries, 1, n))]
    [] t.type = "framebuffer" -> [info EXCEPT !.has_framebuffer = TRUE]
    [] OTHER -> info

\* Mutant: the size of a tag is taken as it is.
NextTag_Unpadded == tag + At.size

NextTag == tag + RoundUp8(At.size)

ParseTag ==
  /\ At.type # "end"
  /\ out_info' = Reads(out_info, At)
  /\ tag' = NextTag
  /\ UNCHANGED mbi

Parsed == At.type = "end"
=============================================================================
