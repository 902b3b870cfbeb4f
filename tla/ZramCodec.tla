----------------------------- MODULE ZramCodec -----------------------------
(***************************************************************************)
(* The page codec of kernel/core/zram.c: zram_compress_page turns a page   *)
(* into a stream of zero runs, byte runs and literal blocks, and           *)
(* zram_decompress_page turns a stream into a page.  Each iteration of the *)
(* two outer loops is a step.  Bytes, tags and lengths are naturals; the   *)
(* first byte of a page or of a stream has index 0 in the code, and index  *)
(* in_idx + 1 of the sequences here.                                       *)
(***************************************************************************)
EXTENDS Integers, Sequences, SequencesExt

CONSTANTS
  PageLen,   \* ZRAM_PAGE_SIZE
  Bytes,     \* the byte values of a page
  MaxDst,    \* size of the destination buffer
  ZeroMin,   \* shortest run of zeros worth a tag (4)
  RunMin,    \* shortest run of another byte worth a tag (6)
  MaxRun,    \* longest run (255)
  MaxLit,    \* longest literal block (127)
  MaxStream  \* bound: longest stream from elsewhere

ASSUME ZramCodecAssumption ==
  /\ {PageLen, ZeroMin, RunMin, MaxRun, MaxLit} \subseteq Nat \ {0}
  /\ {MaxDst, MaxStream} \subseteq Nat
  /\ Bytes \subseteq Nat
  /\ ZeroMin <= MaxRun /\ RunMin <= MaxRun
  /\ 2 <= MaxRun /\ MaxLit <= MaxRun   \* tags and lengths fit in the byte of a run

VARIABLES
  page,    \* the source page, << >> for a stream from elsewhere
  in_idx,  \* read position of the function that runs
  out,     \* compressed stream
  dst,     \* restored page
  stage,   \* which function runs, or how the last one ended
  short    \* history: a literal block of one or two bytes was emitted

codecVars == <<page, in_idx, out, dst, stage, short>>

TAG_ZEROS == 1
TAG_RUN == 2

\* ZRAM_TAG_LITERAL | (len & 0x7F): the tag of a literal block is its length.
LiteralTag(len) == len % (MaxLit + 1)

\* Streams that did not come from zram_compress_page, for which zram_decompress_page
\* promises "negative on corruption".
OtherStreams == UNION {[1 .. n -> 0 .. MaxRun] : n \in 0 .. MaxStream}

Stages == {"compress", "decompress", "incompressible", "corrupt", "restored"}
Final == {"incompressible", "corrupt", "restored"}

Byte(i) == page[i + 1]

\* n bytes from index i on are all v, and lie in the page.
RunOf(v, i, n) == i + n <= PageLen /\ \A k \in i .. i + n - 1 : Byte(k) = v

\* The length of the run of v at index i, cut at MaxRun.
RunLength(v, i) ==
  CHOOSE n \in 0 .. MaxRun :
    RunOf(v, i, n) /\ (n = MaxRun \/ ~RunOf(v, i, n + 1))

\* Mutant: the literal loop stops at a run that is too short for a tag.
ZerosAhead_Shorter(i) == i + ZeroMin - 1 < PageLen /\ RunOf(0, i, ZeroMin - 1)

\* Where the literal loop stops: ZeroMin zeros that do not end the page.
ZerosAhead(i) == i + ZeroMin < PageLen /\ RunOf(0, i, ZeroMin)

LiteralLength(i, cap) ==
  LET room == IF cap < PageLen - i THEN cap ELSE PageLen - i IN
  CHOOSE n \in 0 .. room :
    /\ \A k \in i .. i + n - 1 : ~ZerosAhead(k)
    /\ n = room \/ ZerosAhead(i + n)

\* Mutant: a literal block may be longer than its tag can say.
LiteralCap_NoMax == MaxDst - Len(out) - 1

LiteralCap == IF MaxDst - Len(out) - 1 > MaxLit THEN MaxLit ELSE MaxDst - Len(out) - 1

Repeat(v, n) == [k \in 1 .. n |-> v]
-----------------------------------------------------------------------------
\* zram_compress_page is called with a page, or zram_decompress_page with some
\* other stream.
CodecInit ==
  /\ \/ page \in [1 .. PageLen -> Bytes] /\ out = << >> /\ stage = "compress"
     \/ page = << >> /\ out \in OtherStreams /\ stage = "decompress"
  /\ in_idx = 0
  /\ dst = << >>
  /\ short = FALSE

Compressing == stage = "compress" /\ in_idx < PageLen

\* Mutant: one free byte is room enough.
HasRoom_AnyByte == Len(out) < MaxDst

HasRoom == Len(out) + 4 < MaxDst

ZeroRunHere == Byte(in_idx) = 0 /\ RunLength(0, in_idx) >= ZeroMin
ByteRunHere == RunLength(Byte(in_idx), in_idx) >= RunMin

Emit(bytes, consumed) ==
  /\ out' = out \o bytes
  /\ in_idx' = in_idx + consumed
  /\ UNCHANGED <<page, dst, stage>>

EmitZeros ==
  /\ Compressing /\ HasRoom /\ ZeroRunHere
  /\ Emit(<<TAG_ZEROS, RunLength(0, in_idx)>>, RunLength(0, in_idx))
  /\ short' = short

EmitRun ==
  /\ Compressing /\ HasRoom /\ ~ZeroRunHere /\ ByteRunHere
  /\ LET run == RunLength(Byte(in_idx), in_idx)
     IN  Emit(<<TAG_RUN, run, Byte(in_idx)>>, run)
  /\ short' = short

EmitLiteral ==
  /\ Compressing /\ HasRoom /\ ~ZeroRunHere /\ ~ByteRunHere
  /\ LET len == LiteralLength(in_idx, LiteralCap) IN
       /\ Emit(IF len > 0 THEN <<LiteralTag(len)>> \o SubSeq(page, in_idx + 1, in_idx + len)
                          ELSE << >>, len)
       /\ short' = (short \/ len \in {TAG_ZEROS, TAG_RUN})

Incompressible ==
  /\ Compressing /\ ~HasRoom
  /\ stage' = "incompressible"
  /\ UNCHANGED <<page, in_idx, out, dst, short>>

\* zram_load hands the stored stream to zram_decompress_page.
StartDecompress ==
  /\ stage = "compress" /\ in_idx >= PageLen
  /\ stage' = "decompress"
  /\ in_idx' = 0
  /\ UNCHANGED <<page, out, dst, short>>

Decoding == stage = "decompress" /\ in_idx < Len(out) /\ Len(dst) < PageLen

Tag == out[in_idx + 1]

\* The loops that fill dst stop at the end of the page.
Room == PageLen - Len(dst)
Cut(n) == IF n < Room THEN n ELSE Room

Restore(bytes, consumed) ==
  /\ dst' = dst \o bytes
  /\ in_idx' = in_idx + consumed
  /\ UNCHANGED <<page, out, stage, short>>

DecodeZeros ==
  /\ Decoding /\ Tag = TAG_ZEROS
  /\ in_idx + 1 < Len(out)
  /\ Restore(Repeat(0, Cut(out[in_idx + 2])), 2)

DecodeRun ==
  /\ Decoding /\ Tag = TAG_RUN
  /\ in_idx + 2 < Len(out)
  /\ Restore(Repeat(out[in_idx + 3], Cut(out[in_idx + 2])), 3)

\* The payload length is tag & 0x7F.
LiteralSize == Tag % (MaxLit + 1)

DecodeLiteral ==
  /\ Decoding /\ Tag \notin {TAG_ZEROS, TAG_RUN}
  /\ LiteralSize # 0 /\ in_idx + 1 + LiteralSize <= Len(out)
  /\ LET n == Cut(LiteralSize)
     IN  Restore(SubSeq(out, in_idx + 2, in_idx + 1 + n), 1 + n)

\* A tag whose operands lie past the end of the stream.
Truncated ==
  CASE Tag = TAG_ZEROS -> in_idx + 1 >= Len(out)
    [] Tag = TAG_RUN -> in_idx + 2 >= Len(out)
    [] OTHER -> LiteralSize = 0 \/ in_idx + 1 + LiteralSize > Len(out)

Corrupt ==
  /\ Decoding /\ Truncated
  /\ stage' = "corrupt"
  /\ UNCHANGED <<page, in_idx, out, dst, short>>

\* What the stream does not fill is zeroed.
Finish ==
  /\ stage = "decompress" /\ ~Decoding
  /\ stage' = "restored"
  /\ dst' = dst \o Repeat(0, Room)
  /\ UNCHANGED <<page, in_idx, out, short>>

CodecNext ==
  \/ EmitZeros \/ EmitRun \/ EmitLiteral \/ Incompressible
  \/ StartDecompress
  \/ DecodeZeros \/ DecodeRun \/ DecodeLiteral \/ Corrupt
  \/ Finish

\* The two functions are loops that nothing interrupts for good.
CodecSpec == CodecInit /\ [][CodecNext]_codecVars /\ WF_codecVars(CodecNext)
-----------------------------------------------------------------------------
\* The page behind a stream that zram_compress_page made.
HasPage == page # << >>

\* zram_compress_page never writes past the buffer it was given, and neither
\* function reads past the end of what it reads, also for a corrupt stream.  What
\* is written are bytes: no length or tag outgrows its byte.
StaysInBuffers ==
  /\ stage \in Stages
  /\ \A i \in DOMAIN out : out[i] \in Bytes \cup 0 .. MaxRun
  /\ Len(dst) <= PageLen
  /\ HasPage => Len(out) <= MaxDst
  /\ stage = "compress" => in_idx <= PageLen
  /\ stage = "decompress" => in_idx <= Len(out)

\* A stream of zram_compress_page is never rejected, and a page without a literal
\* block of one or two bytes is restored as it was: the runs that are cut at their
\* maximum, the zeros at the end of the page and the literal blocks that stop
\* before zeros included.
RoundTripWithoutShortLiterals ==
  HasPage => stage # "corrupt" /\ (stage = "restored" /\ ~short => dst = page)

\* "Decompress and restore a 4KB page from zram by handle" (zram.h).
RoundTrip == HasPage /\ stage = "restored" => dst = page

\* Every call of the two functions returns: no iteration leaves in_idx where it was.
Terminates == <>(stage \in Final)
=============================================================================
