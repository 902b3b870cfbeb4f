----------------------------- MODULE ZramProofs -----------------------------
(***************************************************************************)
(* Proofs about kernel/core/zram.c, for every size of a page, a buffer and *)
(* the table of slots.  First the codec: the stream of a page is a row of  *)
(* blocks, and decompression goes from one boundary to the next.  Then the *)
(* pool: handles keep their pages and the statistics stay exact for one    *)
(* reason: a slot in use, its buffer on the heap and the handle of its     *)
(* caller come and go together, one of each.                               *)
(***************************************************************************)
EXTENDS ZramCodec, Zram, KernelLemmas

\* The values of a stream or of a restored page.
Values == Bytes \cup 0 .. MaxRun

\* The lengths of literal blocks: all, or those whose tag is theirs alone.
Lengths(sh) == IF sh THEN 1 .. MaxLit ELSE 1 .. MaxLit \ {TAG_ZEROS, TAG_RUN}

\* The block at p .. p2 - 1 of stream s stands for the bytes q .. q2 - 1 of page pg.
Block(s, pg, lits, p, q, p2, q2) ==
  \/ /\ p2 = p + 2 /\ s[p + 1] = TAG_ZEROS /\ s[p + 2] = q2 - q
     /\ \A k \in q + 1 .. q2 : pg[k] = 0
  \/ /\ p2 = p + 3 /\ s[p + 1] = TAG_RUN /\ s[p + 2] = q2 - q
     /\ \A k \in q + 1 .. q2 : pg[k] = s[p + 3]
  \/ /\ q2 - q \in 1 .. MaxLit /\ p2 = p + 1 + (q2 - q) /\ s[p + 1] = q2 - q
     /\ \A k \in 1 .. q2 - q : pg[q + k] = s[p + 1 + k]
     /\ q2 - q \in lits

\* Stream s stands for the first e bytes of page pg; at maps the boundaries of its
\* blocks to the bytes of the page where they begin.
Marks(s, pg, lits, at, e) ==
  /\ DOMAIN at \subseteq 0 .. Len(s)
  /\ at \in [DOMAIN at -> 0 .. PageLen]
  /\ 0 \in DOMAIN at /\ at[0] = 0
  /\ Len(s) \in DOMAIN at /\ at[Len(s)] = e
  /\ \A p \in DOMAIN at : p < Len(s) =>
       \E p2 \in DOMAIN at : Block(s, pg, lits, p, at[p], p2, at[p2])

\* Where decompression stands: at a boundary, unless the page is full; and at the
\* boundary of what is restored, when every literal block has its own tag.
Placed(at) ==
  /\ Len(dst) = PageLen \/ in_idx \in DOMAIN at
  /\ ~short => /\ in_idx \in DOMAIN at /\ Len(dst) = at[in_idx]
               /\ \A k \in 1 .. Len(dst) : dst[k] = page[k]

CodecTyped ==
  /\ HasPage => page \in [1 .. PageLen -> Bytes] /\ Len(out) <= MaxDst
  /\ out \in Seq(Values)
  /\ dst \in Seq(Values) /\ Len(dst) <= PageLen
  /\ in_idx \in Nat /\ short \in BOOLEAN /\ stage \in Stages
  /\ stage = "compress" => HasPage /\ dst = << >> /\ in_idx <= PageLen
  /\ stage = "decompress" => in_idx <= Len(out)

StreamInv ==
  HasPage =>
    /\ stage = "compress" => \E at : Marks(out, page, Lengths(short), at, in_idx)
    /\ stage = "decompress" => \E at : Marks(out, page, Lengths(short), at, PageLen) /\ Placed(at)
    /\ stage # "corrupt"
    /\ stage = "restored" /\ ~short => dst = page

CodecInv == CodecTyped /\ StreamInv

LEMMA Constants ==
  /\ {PageLen, ZeroMin, RunMin, MaxRun, MaxLit} \subseteq Nat \ {0}
  /\ MaxDst \in Nat /\ MaxStream \in Nat /\ Bytes \subseteq Nat
  /\ 2 <= MaxRun /\ MaxLit <= MaxRun
  /\ Values \subseteq Nat /\ 0 .. MaxRun \subseteq Values /\ Bytes \subseteq Values
<1>1. /\ PageLen \in Nat \ {0} /\ ZeroMin \in Nat \ {0} /\ RunMin \in Nat \ {0}
      /\ MaxRun \in Nat \ {0} /\ MaxLit \in Nat \ {0}
      /\ MaxDst \in Nat /\ MaxStream \in Nat /\ Bytes \subseteq Nat
      /\ 2 <= MaxRun /\ MaxLit <= MaxRun
  BY ZramCodecAssumption
<1>2. 0 .. MaxRun \subseteq Nat
  BY <1>1
<1> QED
  BY <1>1, <1>2 DEF Values

USE Constants
-----------------------------------------------------------------------------
\* The search for the end of a run finds a run.
LEMMA RunLengthIs ==
  ASSUME NEW v, NEW i \in Nat, i <= PageLen
  PROVE  RunLength(v, i) \in 0 .. MaxRun /\ RunOf(v, i, RunLength(v, i))
<1> DEFINE S == {n \in 0 .. MaxRun : n = MaxRun \/ ~RunOf(v, i, n + 1)}
           n == Min(S)
           Is(m) == RunOf(v, i, m) /\ (m = MaxRun \/ ~RunOf(v, i, m + 1))
<1>1. MaxRun \in S /\ S \in SUBSET Nat
  OBVIOUS
<1>2. n \in S /\ \A m \in S : n <= m
  BY <1>1, MinOfNaturals
<1>3. n \in Nat
  BY <1>2
<1> HIDE DEF n
<1>4. RunOf(v, i, n)
  <2>1. CASE n = 0
    BY <2>1 DEF RunOf
  <2>2. CASE n # 0
    <3>1. n - 1 \in 0 .. MaxRun /\ n - 1 # MaxRun /\ n - 1 + 1 = n
      BY <1>2, <1>3, <2>2
    <3>2. n - 1 \notin S
      BY <1>2, <1>3
    <3> QED BY <3>1, <3>2
  <2> QED BY <2>1, <2>2
<1>5. n \in 0 .. MaxRun /\ Is(n)
  BY <1>2, <1>4
<1>6. RunLength(v, i) = CHOOSE m \in 0 .. MaxRun : Is(m)
  BY DEF RunLength
<1> HIDE DEF Is
<1>7. RunLength(v, i) \in 0 .. MaxRun /\ Is(RunLength(v, i))
  BY <1>5, <1>6
<1> QED
  BY <1>7 DEF Is

\* The literal loop stays within its capacity and the page.
LEMMA LiteralLengthIs ==
  ASSUME NEW i \in Nat, i <= PageLen, NEW cap \in Nat
  PROVE  /\ LiteralLength(i, cap) \in Nat
         /\ LiteralLength(i, cap) <= cap /\ i + LiteralLength(i, cap) <= PageLen
<1> DEFINE room == IF cap < PageLen - i THEN cap ELSE PageLen - i
           S == {n \in 0 .. room : n = room \/ ZerosAhead(i + n)}
           n == Min(S)
           Is(m) == /\ \A k \in i .. i + m - 1 : ~ZerosAhead(k)
                    /\ m = room \/ ZerosAhead(i + m)
<1>1. room \in Nat /\ room <= cap /\ i + room <= PageLen
  OBVIOUS
<1> HIDE DEF room
<1>2. room \in S /\ S \in SUBSET Nat
  BY <1>1
<1>3. n \in S /\ \A m \in S : n <= m
  BY <1>2, MinOfNaturals
<1>4. n \in Nat
  BY <1>1, <1>3
<1> HIDE DEF n
<1>5. ASSUME NEW k \in i .. i + n - 1 PROVE ~ZerosAhead(k)
  <2>1. k - i \in 0 .. room /\ k - i < n /\ i + (k - i) = k
    BY <1>1, <1>3, <1>4
  <2>2. k - i \notin S
    BY <1>3, <1>4, <2>1
  <2> QED BY <2>1, <2>2
<1>6. n \in 0 .. room /\ Is(n)
  BY <1>3, <1>5
<1>7. LiteralLength(i, cap) = CHOOSE m \in 0 .. room : Is(m)
  BY DEF LiteralLength, room
<1> HIDE DEF Is
<1>8. LiteralLength(i, cap) \in 0 .. room
  BY <1>6, <1>7
<1> QED
  BY <1>1, <1>8
-----------------------------------------------------------------------------
\* A block stays one when the stream grows behind it.
LEMMA BlockStays ==
  ASSUME NEW s, NEW u, NEW N \in Nat, \A i \in 1 .. N : u[i] = s[i],
         NEW pg, NEW lits, NEW lits2, lits \subseteq lits2,
         NEW p \in Nat, NEW p2 \in 0 .. N, NEW q \in Nat, NEW q2 \in Nat,
         Block(s, pg, lits, p, q, p2, q2)
  PROVE  Block(u, pg, lits2, p, q, p2, q2)
<1>1. CASE /\ p2 = p + 2 /\ s[p + 1] = TAG_ZEROS /\ s[p + 2] = q2 - q
           /\ \A k \in q + 1 .. q2 : pg[k] = 0
  <2>1. u[p + 1] = s[p + 1] /\ u[p + 2] = s[p + 2]
    BY <1>1
  <2> QED BY ONLY <1>1, <2>1 DEF Block
<1>2. CASE /\ p2 = p + 3 /\ s[p + 1] = TAG_RUN /\ s[p + 2] = q2 - q
           /\ \A k \in q + 1 .. q2 : pg[k] = s[p + 3]
  <2>1. u[p + 1] = s[p + 1] /\ u[p + 2] = s[p + 2] /\ u[p + 3] = s[p + 3]
    BY <1>2
  <2> QED BY ONLY <1>2, <2>1 DEF Block
<1>3. CASE /\ q2 - q \in 1 .. MaxLit /\ p2 = p + 1 + (q2 - q) /\ s[p + 1] = q2 - q
           /\ \A k \in 1 .. q2 - q : pg[q + k] = s[p + 1 + k]
           /\ q2 - q \in lits
  <2>1. u[p + 1] = s[p + 1]
    BY <1>3
  <2>2. ASSUME NEW k \in 1 .. q2 - q PROVE u[p + 1 + k] = s[p + 1 + k]
    BY <1>3
  <2>3. q2 - q \in lits2
    BY <1>3
  <2>4. \A k \in 1 .. q2 - q : pg[q + k] = u[p + 1 + k]
    BY ONLY <1>3, <2>2
  <2> QED BY ONLY <1>3, <2>1, <2>3, <2>4 DEF Block
<1> QED
  BY <1>1, <1>2, <1>3 DEF Block

\* A block that is written behind the others is one more boundary.
LEMMA BlockAppended ==
  ASSUME NEW s \in Seq(Values), NEW t \in Seq(Values), Len(t) # 0,
         NEW pg, NEW lits, NEW lits2, lits \subseteq lits2,
         NEW at, NEW q, Marks(s, pg, lits, at, q), NEW q2 \in 0 .. PageLen,
         Block(s \o t, pg, lits2, Len(s), q, Len(s) + Len(t), q2)
  PROVE  \E at2 : Marks(s \o t, pg, lits2, at2, q2)
<1>1. PICK u : u = s \o t
  OBVIOUS
<1>2. PICK N \in Nat : N = Len(s)
  BY LenProperties
<1>3. PICK M \in Nat : M = N + Len(t) /\ M > N
  BY <1>2, LenProperties
<1>4. Len(u) = M /\ \A i \in 1 .. N : u[i] = s[i]
  <2>1. /\ Len(u) = Len(s) + Len(t)
        /\ \A i \in 1 .. Len(s) + Len(t) : u[i] = IF i <= Len(s) THEN s[i] ELSE t[i - Len(s)]
    BY <1>1, ConcatProperties
  <2> QED BY ONLY <1>2, <1>3, <2>1
<1>5. PICK at2 : at2 = [p \in DOMAIN at \cup {M} |-> IF p = M THEN q2 ELSE at[p]]
  OBVIOUS
<1>6. /\ DOMAIN at \subseteq 0 .. N /\ at \in [DOMAIN at -> 0 .. PageLen]
      /\ 0 \in DOMAIN at /\ at[0] = 0 /\ N \in DOMAIN at /\ at[N] = q
      /\ \A p \in DOMAIN at : p < N =>
           \E p2 \in DOMAIN at : Block(s, pg, lits, p, at[p], p2, at[p2])
  BY <1>2 DEF Marks
<1>7. /\ DOMAIN at2 = DOMAIN at \cup {M} /\ at2[M] = q2
      /\ \A p \in DOMAIN at : at2[p] = at[p] /\ p \in 0 .. N /\ at[p] \in 0 .. PageLen
  BY <1>3, <1>5, <1>6
<1>8. DOMAIN at2 \subseteq 0 .. M /\ at2 \in [DOMAIN at2 -> 0 .. PageLen]
  BY <1>3, <1>5, <1>7
<1>8a. \A p, a, b \in Nat : \A p2 \in 0 .. N :
         Block(s, pg, lits, p, a, p2, b) => Block(u, pg, lits2, p, a, p2, b)
  BY ONLY <1>4, N \in Nat, lits \subseteq lits2, BlockStays
<1>9. ASSUME NEW p \in DOMAIN at2, p < M
      PROVE  \E p2 \in DOMAIN at2 : Block(u, pg, lits2, p, at2[p], p2, at2[p2])
  <2>1. CASE p = N
    <3>1. Block(u, pg, lits2, N, q, M, q2)
      BY <1>1, <1>2, <1>3
    <3> QED BY ONLY <1>6, <1>7, <2>1, <3>1
  <2>2. CASE p # N
    <3>1. p \in DOMAIN at /\ p < N /\ p \in Nat
      BY <1>7, <1>9, <2>2
    <3>2. PICK p2 \in DOMAIN at : Block(s, pg, lits, p, at[p], p2, at[p2])
      BY <1>6, <3>1
    <3>3. p2 \in 0 .. N /\ at[p] \in Nat /\ at[p2] \in Nat
      BY <1>7, <3>1
    <3>4. Block(u, pg, lits2, p, at[p], p2, at[p2])
      BY ONLY <1>8a, <3>1, <3>2, <3>3
    <3> QED BY ONLY <1>7, <3>1, <3>2, <3>4
  <2> QED BY <2>1, <2>2
<1>10. Marks(u, pg, lits2, at2, q2)
  BY ONLY <1>4, <1>6, <1>7, <1>8, <1>9, Constants DEF Marks
<1> QED
  BY <1>1, <1>10
-----------------------------------------------------------------------------
\* The function is called with a page, or with a stream that no page belongs to.
LEMMA CodecInvInit == CodecInit => CodecInv
<1> SUFFICES ASSUME CodecInit PROVE CodecInv
  OBVIOUS
<1>1. in_idx = 0 /\ dst = << >> /\ short = FALSE
  BY DEF CodecInit
<1>2. dst \in Seq(Values) /\ Len(dst) = 0
  BY <1>1, EmptySeq
<1>3. CASE page \in [1 .. PageLen -> Bytes] /\ out = << >> /\ stage = "compress"
  <2>1. out \in Seq(Values) /\ Len(out) = 0
    BY <1>3, EmptySeq
  <2>2. page # << >>
    <3>1. DOMAIN page = 1 .. PageLen /\ 1 \in 1 .. PageLen
      BY ONLY <1>3, Constants
    <3>2. DOMAIN << >> = 1 .. 0
      OBVIOUS
    <3>3. 1 \notin 1 .. 0
      OBVIOUS
    <3> QED BY ONLY <3>1, <3>2, <3>3
  <2>3. CodecTyped
    <3>1. short \in BOOLEAN
      BY <1>1, Zenon
    <3>2. stage \in Stages /\ stage # "decompress"
      BY <1>3 DEF Stages
    <3>3. in_idx \in Nat /\ in_idx <= PageLen /\ Len(out) <= MaxDst /\ Len(dst) <= PageLen
      BY <1>1, <1>2, <2>1
    <3> QED BY ONLY <1>1, <1>2, <1>3, <2>1, <2>2, <3>1, <3>2, <3>3 DEF CodecTyped, HasPage
  <2>4. PICK at : at = [p \in {0} |-> 0]
    OBVIOUS
  <2>5. Marks(out, page, Lengths(short), at, in_idx)
    BY <1>1, <2>1, <2>4 DEF Marks
  <2> QED BY <1>3, <2>3, <2>5 DEF CodecInv, StreamInv
<1>4. CASE page = << >> /\ out \in OtherStreams /\ stage = "decompress"
  <2>1. PICK n \in 0 .. MaxStream : out \in [1 .. n -> 0 .. MaxRun]
    BY ONLY <1>4 DEF OtherStreams
  <2>2. out \in Seq(Values) /\ Len(out) = n
    <3>1. out \in [1 .. n -> Values] /\ n \in Nat
      BY <2>1
    <3> QED BY ONLY <3>1
  <2>3. short \in BOOLEAN
    BY <1>1, Zenon
  <2>4. stage \in Stages /\ stage # "compress"
    BY <1>4 DEF Stages
  <2>5. in_idx \in Nat /\ in_idx <= Len(out) /\ Len(dst) <= PageLen
    BY <1>1, <1>2, <2>2
  <2>6. ~HasPage
    BY <1>4 DEF HasPage
  <2> QED BY ONLY <1>2, <2>2, <2>3, <2>4, <2>5, <2>6 DEF CodecInv, CodecTyped, StreamInv
<1> QED
  BY <1>3, <1>4 DEF CodecInit

LEMMA LengthsGrow ==
  ASSUME NEW a \in BOOLEAN, NEW b \in BOOLEAN, a => b
  PROVE  Lengths(a) \subseteq Lengths(b)
BY DEF Lengths

\* An iteration of zram_compress_page that writes a block.
LEMMA EmitKeeps ==
  ASSUME CodecInv, stage = "compress", NEW t \in Seq(Values), Len(t) # 0,
         NEW n \in Nat, in_idx + n <= PageLen, Len(out) + Len(t) <= MaxDst,
         Emit(t, n), short' \in BOOLEAN, short => short',
         Block(out \o t, page, Lengths(short'), Len(out), in_idx, Len(out) + Len(t), in_idx + n)
  PROVE  CodecInv'
<1>1. /\ HasPage /\ page \in [1 .. PageLen -> Bytes] /\ out \in Seq(Values)
      /\ dst \in Seq(Values) /\ dst = << >> /\ Len(dst) <= PageLen
      /\ in_idx \in Nat /\ short \in BOOLEAN
  BY DEF CodecInv, CodecTyped
<1>2. /\ out' = out \o t /\ in_idx' = in_idx + n
      /\ page' = page /\ dst' = dst /\ stage' = "compress"
  BY DEF Emit
<1>3. out' \in Seq(Values) /\ Len(out') = Len(out) + Len(t)
  BY <1>1, <1>2, ConcatProperties
<1>4. CodecTyped'
  BY <1>1, <1>2, <1>3 DEF CodecTyped, HasPage, Stages
<1>5. PICK at : Marks(out, page, Lengths(short), at, in_idx)
  BY <1>1 DEF CodecInv, StreamInv
<1>6. Lengths(short) \subseteq Lengths(short')
  BY <1>1, LengthsGrow
<1>7. PICK q2 \in 0 .. PageLen : q2 = in_idx + n
  BY <1>1
<1>8. PICK lits, lits2 : lits = Lengths(short) /\ lits2 = Lengths(short')
  OBVIOUS
<1>9. \E at2 : Marks(out \o t, page, lits2, at2, q2)
  BY ONLY <1>1, <1>5, <1>6, <1>7, <1>8, t \in Seq(Values), Len(t) # 0, BlockAppended,
          Block(out \o t, page, Lengths(short'), Len(out), in_idx, Len(out) + Len(t), in_idx + n)
<1>10. StreamInv'
  BY ONLY <1>2, <1>7, <1>8, <1>9 DEF StreamInv
<1> QED
  BY <1>4, <1>10 DEF CodecInv

\* What is written behind a stream is read there.
LEMMA WrittenBehind ==
  ASSUME NEW s \in Seq(Values), NEW t \in Seq(Values)
  PROVE  \A i \in 1 .. Len(t) : (s \o t)[Len(s) + i] = t[i]
<1>1. PICK u, N, M : u = s \o t /\ N = Len(s) /\ M = Len(t)
  OBVIOUS
<1>2. N \in Nat /\ M \in Nat
  BY <1>1, LenProperties
<1>3. \A i \in 1 .. N + M : u[i] = IF i <= N THEN s[i] ELSE t[i - N]
  BY <1>1, ConcatProperties
<1>4. ASSUME NEW i \in 1 .. M PROVE u[N + i] = t[i]
  <2>1. N + i \in 1 .. N + M /\ ~(N + i <= N) /\ N + i - N = i
    BY <1>2
  <2> QED BY ONLY <1>2, <1>3, <2>1, i \in 1 .. M
<1> QED
  BY <1>1, <1>4

\* The bytes of a run, counted from 1.
LEMMA RunIsSlice ==
  ASSUME NEW v, NEW i \in Nat, NEW n \in Nat, RunOf(v, i, n)
  PROVE  i + n <= PageLen /\ \A k \in i + 1 .. i + n : page[k] = v
<1>1. i + n <= PageLen /\ \A k \in i .. i + n - 1 : Byte(k) = v
  BY DEF RunOf
<1>2. ASSUME NEW k \in i + 1 .. i + n PROVE page[k] = v
  <2>1. k - 1 \in i .. i + n - 1 /\ k - 1 + 1 = k
    OBVIOUS
  <2> QED BY <1>1, <2>1 DEF Byte
<1> QED
  BY <1>1, <1>2

LEMMA EmitZerosKeeps == ASSUME CodecInv, EmitZeros PROVE CodecInv'
<1>1. /\ stage = "compress" /\ in_idx < PageLen /\ HasRoom /\ short' = short
      /\ RunLength(0, in_idx) >= ZeroMin
      /\ Emit(<<TAG_ZEROS, RunLength(0, in_idx)>>, RunLength(0, in_idx))
  BY DEF EmitZeros, Compressing, ZeroRunHere
<1>2. /\ in_idx \in Nat /\ out \in Seq(Values) /\ short \in BOOLEAN
      /\ Len(out) \in Nat
  BY LenProperties DEF CodecInv, CodecTyped
<1>3. PICK n : n = RunLength(0, in_idx)
  OBVIOUS
<1>4. n \in 0 .. MaxRun /\ n \in Nat /\ RunOf(0, in_idx, n)
  BY <1>1, <1>2, <1>3, RunLengthIs
<1>5. PICK t : t = <<TAG_ZEROS, n>>
  OBVIOUS
<1>6. t \in Seq(Values) /\ Len(t) = 2 /\ t[1] = TAG_ZEROS /\ t[2] = n
  <2>1. TAG_ZEROS \in Values /\ n \in Values
    BY <1>4 DEF TAG_ZEROS
  <2> QED BY ONLY <1>5, <2>1
<1>7. in_idx + n <= PageLen /\ \A k \in in_idx + 1 .. in_idx + n : page[k] = 0
  BY <1>2, <1>4, RunIsSlice
<1>8. (out \o t)[Len(out) + 1] = TAG_ZEROS /\ (out \o t)[Len(out) + 2] = n
  <2>1. \A i \in 1 .. Len(t) : (out \o t)[Len(out) + i] = t[i]
    BY ONLY <1>2, <1>6, WrittenBehind
  <2>2. 1 \in 1 .. Len(t) /\ 2 \in 1 .. Len(t)
    BY ONLY <1>6
  <2> QED BY ONLY <1>6, <2>1, <2>2, Zenon
<1>9. in_idx + n - in_idx = n /\ Len(out) + Len(t) = Len(out) + 2
  BY <1>2, <1>4, <1>6
<1>10. Block(out \o t, page, Lengths(short'), Len(out), in_idx, Len(out) + Len(t), in_idx + n)
  BY ONLY <1>2, <1>4, <1>7, <1>8, <1>9 DEF Block
<1>11. Len(out) + Len(t) <= MaxDst
  BY <1>1, <1>2, <1>6 DEF HasRoom
<1>12. short' \in BOOLEAN /\ (short => short') /\ Emit(t, n)
  BY ONLY <1>1, <1>2, <1>3, <1>5, Zenon
<1>13. Len(t) # 0
  BY <1>6
<1> QED
  BY <1>1, <1>4, <1>6, <1>7, <1>10, <1>11, <1>12, <1>13, EmitKeeps

LEMMA EmitRunKeeps == ASSUME CodecInv, EmitRun PROVE CodecInv'
<1>1. PICK v, n : v = Byte(in_idx) /\ n = RunLength(Byte(in_idx), in_idx)
  OBVIOUS
<1>2. /\ stage = "compress" /\ in_idx < PageLen /\ HasRoom /\ short' = short
      /\ Emit(<<TAG_RUN, n, v>>, n)
  BY <1>1 DEF EmitRun, Compressing
<1>3. /\ in_idx \in Nat /\ out \in Seq(Values) /\ short \in BOOLEAN
      /\ Len(out) \in Nat /\ page \in [1 .. PageLen -> Bytes]
  BY <1>2, LenProperties DEF CodecInv, CodecTyped
<1>4. n \in 0 .. MaxRun /\ n \in Nat /\ RunOf(v, in_idx, n)
  BY <1>1, <1>2, <1>3, RunLengthIs
<1>5. PICK t : t = <<TAG_RUN, n, v>>
  OBVIOUS
<1>6. t \in Seq(Values) /\ Len(t) = 3 /\ t[1] = TAG_RUN /\ t[2] = n /\ t[3] = v
  <2>1. in_idx + 1 \in 1 .. PageLen
    BY <1>2, <1>3
  <2>2. TAG_RUN \in Values /\ n \in Values /\ v \in Values
    BY <1>1, <1>3, <1>4, <2>1 DEF TAG_RUN, Byte
  <2> QED BY ONLY <1>5, <2>2
<1>7. in_idx + n <= PageLen /\ \A k \in in_idx + 1 .. in_idx + n : page[k] = v
  BY <1>3, <1>4, RunIsSlice
<1>8. /\ (out \o t)[Len(out) + 1] = TAG_RUN /\ (out \o t)[Len(out) + 2] = n
      /\ (out \o t)[Len(out) + 3] = v
  <2>1. \A i \in 1 .. Len(t) : (out \o t)[Len(out) + i] = t[i]
    BY ONLY <1>3, <1>6, WrittenBehind
  <2>2. 1 \in 1 .. Len(t) /\ 2 \in 1 .. Len(t) /\ 3 \in 1 .. Len(t)
    BY ONLY <1>6
  <2> QED BY ONLY <1>6, <2>1, <2>2, Zenon
<1>9. in_idx + n - in_idx = n /\ Len(out) + Len(t) = Len(out) + 3
  BY <1>3, <1>4, <1>6
<1>10. Block(out \o t, page, Lengths(short'), Len(out), in_idx, Len(out) + Len(t), in_idx + n)
  BY ONLY <1>3, <1>4, <1>7, <1>8, <1>9 DEF Block
<1>11. Len(out) + Len(t) <= MaxDst
  BY <1>2, <1>3, <1>6 DEF HasRoom
<1>12. short' \in BOOLEAN /\ (short => short') /\ Emit(t, n)
  BY ONLY <1>2, <1>3, <1>5, Zenon
<1>13. Len(t) # 0
  BY <1>6
<1> QED
  BY <1>2, <1>4, <1>6, <1>7, <1>10, <1>11, <1>12, <1>13, EmitKeeps

\* A literal block: its length and the bytes of the page from i on.
Literal(pg, i, n) == <<n>> \o SubSeq(pg, i + 1, i + n)

LEMMA LiteralIs ==
  ASSUME NEW pg \in [1 .. PageLen -> Bytes], NEW i \in Nat, NEW n \in 1 .. MaxLit,
         i + n <= PageLen
  PROVE  /\ Literal(pg, i, n) \in Seq(Values) /\ Len(Literal(pg, i, n)) = 1 + n
         /\ Literal(pg, i, n)[1] = n
         /\ \A k \in 1 .. n : Literal(pg, i, n)[1 + k] = pg[i + k]
<1>0. PICK t : t = Literal(pg, i, n)
  OBVIOUS
<1>1. PICK b : b = SubSeq(pg, i + 1, i + n)
  OBVIOUS
<1>2. PICK lo \in Int, hi \in Int : lo = i + 1 /\ hi = i + n
  OBVIOUS
<1>3. /\ SubSeq(pg, lo, hi) \in Seq(Values)
      /\ Len(SubSeq(pg, lo, hi)) = IF lo <= hi THEN hi - lo + 1 ELSE 0
      /\ \A k \in 1 .. hi - lo + 1 : SubSeq(pg, lo, hi)[k] = pg[lo + k - 1]
  <2>1. ASSUME NEW k \in lo .. hi PROVE pg[k] \in Values
    <3>1. k \in 1 .. PageLen
      BY <1>2
    <3> QED BY <3>1
  <2> QED BY ONLY <2>1, lo \in Int, hi \in Int, SubSeqProperties
<1>4. b \in Seq(Values) /\ Len(b) = n /\ \A k \in 1 .. n : b[k] = pg[i + 1 + k - 1]
  <2>1. hi - lo + 1 = n /\ lo <= hi
    BY <1>2
  <2>2. b = SubSeq(pg, lo, hi)
    BY ONLY <1>1, <1>2
  <2> QED BY ONLY <1>2, <1>3, <2>1, <2>2
<1>5. PICK a : a = <<n>>
  OBVIOUS
<1>6. a \in Seq(Values) /\ Len(a) = 1 /\ a[1] = n
  <2>1. n \in Values
    OBVIOUS
  <2> QED BY ONLY <1>5, <2>1
<1>7. /\ t \in Seq(Values) /\ Len(t) = Len(a) + Len(b)
      /\ \A k \in 1 .. Len(a) + Len(b) : t[k] = IF k <= Len(a) THEN a[k] ELSE b[k - Len(a)]
  <2>1. t = a \o b
    BY <1>0, <1>1, <1>5 DEF Literal
  <2> QED BY ONLY <1>4, <1>6, <2>1, ConcatProperties
<1>8. Len(t) = 1 + n /\ \A k \in 1 .. 1 + n : t[k] = IF k <= 1 THEN a[k] ELSE b[k - 1]
  BY ONLY <1>4, <1>6, <1>7
<1>9. t[1] = n
  BY ONLY <1>2, <1>6, <1>8
<1>10. ASSUME NEW k \in 1 .. n PROVE t[1 + k] = pg[i + k]
  <2>1. 1 + k \in 1 .. 1 + n /\ ~(1 + k <= 1) /\ 1 + k - 1 = k /\ i + 1 + k - 1 = i + k
    OBVIOUS
  <2>2. t[1 + k] = b[1 + k - 1]
    BY ONLY <1>8, <2>1
  <2>3. b[k] = pg[i + 1 + k - 1]
    BY ONLY <1>4, k \in 1 .. n
  <2> QED BY ONLY <2>1, <2>2, <2>3
<1> QED
  BY <1>0, <1>7, <1>8, <1>9, <1>10

LEMMA EmitLiteralKeeps == ASSUME CodecInv, EmitLiteral PROVE CodecInv'
<1>1. PICK n : n = LiteralLength(in_idx, LiteralCap)
  OBVIOUS
<1>2. /\ stage = "compress" /\ in_idx < PageLen /\ HasRoom
      /\ short' = (short \/ n \in {TAG_ZEROS, TAG_RUN})
      /\ Emit(IF n > 0 THEN <<LiteralTag(n)>> \o SubSeq(page, in_idx + 1, in_idx + n)
                       ELSE << >>, n)
  BY <1>1 DEF EmitLiteral, Compressing
<1>3. /\ in_idx \in Nat /\ out \in Seq(Values) /\ short \in BOOLEAN
      /\ Len(out) \in Nat /\ page \in [1 .. PageLen -> Bytes]
  BY <1>2, LenProperties DEF CodecInv, CodecTyped
<1>4. LiteralCap \in Nat /\ LiteralCap <= MaxLit /\ LiteralCap <= MaxDst - Len(out) - 1
  BY <1>2, <1>3 DEF LiteralCap, HasRoom
<1>5. n \in Nat /\ n <= LiteralCap /\ in_idx + n <= PageLen
  <2>1. in_idx <= PageLen
    BY <1>2, <1>3
  <2> QED BY ONLY <1>1, <1>3, <1>4, <2>1, LiteralLengthIs
<1>6. short' \in BOOLEAN /\ (short => short')
  BY ONLY <1>2, <1>3, Zenon
<1>7. CASE n = 0
  <2>1. Emit(<< >>, 0) /\ short' = short
    <3>1. n \notin {TAG_ZEROS, TAG_RUN}
      BY <1>7 DEF TAG_ZEROS, TAG_RUN
    <3>2. short' = short
      BY ONLY <1>2, <1>3, <3>1, Zenon
    <3>3. Emit(<< >>, n)
      BY <1>2, <1>7
    <3> QED BY ONLY <1>7, <3>2, <3>3
  <2>2. /\ out' = out /\ in_idx' = in_idx
        /\ UNCHANGED <<page, dst, stage>>
    BY <1>3, <2>1, ConcatEmptySeq DEF Emit
  <2> QED BY <2>1, <2>2 DEF CodecInv, CodecTyped, StreamInv, HasPage, Placed
<1>8. CASE n # 0
  <2>1. n \in 1 .. MaxLit
    BY <1>4, <1>5, <1>8
  <2>2. LiteralTag(n) = n
    <3>1. n \in 0 .. MaxLit /\ MaxLit + 1 \in Nat \ {0} /\ n < MaxLit + 1
          /\ n \in -(MaxLit + 1) .. 2 * (MaxLit + 1) - 1
      BY <2>1
    <3>2. n % (MaxLit + 1) = IF n < 0 THEN n + (MaxLit + 1)
                             ELSE IF n < MaxLit + 1 THEN n ELSE n - (MaxLit + 1)
      BY ONLY <3>1, ModWrapsOnce
    <3> QED BY ONLY <3>1, <3>2 DEF LiteralTag
  <2>3. PICK t : t = Literal(page, in_idx, n)
    OBVIOUS
  <2>4. Emit(t, n)
    <3>1. n > 0
      BY <2>1
    <3> QED BY ONLY <1>2, <2>2, <2>3, <3>1 DEF Literal
  <2>5. /\ t \in Seq(Values) /\ Len(t) = 1 + n /\ t[1] = n
        /\ \A k \in 1 .. n : t[1 + k] = page[in_idx + k]
    BY ONLY <1>3, <1>5, <2>1, <2>3, LiteralIs
  <2>6. \A i \in 1 .. Len(t) : (out \o t)[Len(out) + i] = t[i]
    BY ONLY <1>3, <2>5, WrittenBehind
  <2>7. (out \o t)[Len(out) + 1] = n
    <3>1. 1 \in 1 .. Len(t)
      BY <2>1, <2>5
    <3> QED BY ONLY <2>5, <2>6, <3>1, Zenon
  <2>8. ASSUME NEW k \in 1 .. n PROVE page[in_idx + k] = (out \o t)[Len(out) + 1 + k]
    <3>1. 1 + k \in 1 .. Len(t) /\ Len(out) + (1 + k) = Len(out) + 1 + k
      BY <1>3, <2>1, <2>5
    <3>2. (out \o t)[Len(out) + (1 + k)] = t[1 + k]
      BY ONLY <2>6, <3>1, Zenon
    <3> QED BY ONLY <2>5, <3>1, <3>2, k \in 1 .. n
  <2>9. /\ in_idx + n - in_idx = n /\ Len(out) + Len(t) = Len(out) + 1 + n
        /\ Len(t) # 0
    BY <1>3, <2>1, <2>5
  <2>10. n \in Lengths(short')
    <3>1. CASE n \in {TAG_ZEROS, TAG_RUN}
      <4>1. short'
        BY ONLY <1>2, <3>1, Zenon
      <4> QED BY <2>1, <4>1 DEF Lengths
    <3>2. CASE n \notin {TAG_ZEROS, TAG_RUN}
      BY ONLY <2>1, <3>2 DEF Lengths
    <3> QED BY <3>1, <3>2
  <2>11. Block(out \o t, page, Lengths(short'), Len(out), in_idx, Len(out) + Len(t), in_idx + n)
    BY ONLY <1>3, <1>5, <2>1, <2>7, <2>8, <2>9, <2>10 DEF Block
  <2>12. Len(out) + Len(t) <= MaxDst
    BY <1>3, <1>4, <1>5, <2>5
  <2> QED BY <1>2, <1>5, <1>6, <2>4, <2>5, <2>9, <2>11, <2>12, EmitKeeps
<1> QED
  BY <1>7, <1>8
-----------------------------------------------------------------------------
\* The loops that fill the page with one byte.
LEMMA RepeatIs ==
  ASSUME NEW v \in Values, NEW n \in Nat
  PROVE  /\ Repeat(v, n) \in Seq(Values) /\ Len(Repeat(v, n)) = n
         /\ \A k \in 1 .. n : Repeat(v, n)[k] = v
<1>1. PICK r : r = [k \in 1 .. n |-> v]
  OBVIOUS
<1>2. r \in [1 .. n -> Values] /\ \A k \in 1 .. n : r[k] = v
  BY <1>1
<1>3. r \in Seq(Values) /\ Len(r) = n
  BY ONLY <1>2, n \in Nat
<1> QED
  BY ONLY <1>1, <1>2, <1>3 DEF Repeat

\* What is cut at the end of the page fits.
LEMMA CutFits ==
  ASSUME dst \in Seq(Values), Len(dst) <= PageLen, NEW n \in Nat
  PROVE  /\ Cut(n) \in Nat /\ Len(dst) + Cut(n) <= PageLen /\ Cut(n) <= n
         /\ Len(dst) + n <= PageLen => Cut(n) = n
         /\ Cut(n) # n => Len(dst) + Cut(n) = PageLen
<1>1. Len(dst) \in Nat
  BY LenProperties
<1> QED
  BY <1>1 DEF Cut, Room

\* The block that zram_decompress_page is at, in a stream of zram_compress_page.
LEMMA BlockHere ==
  ASSUME CodecInv, HasPage, Decoding
  PROVE  \E at :
           /\ Marks(out, page, Lengths(short), at, PageLen) /\ Placed(at)
           /\ in_idx \in DOMAIN at
           /\ \E p2 \in DOMAIN at :
                /\ Block(out, page, Lengths(short), in_idx, at[in_idx], p2, at[p2])
                /\ p2 \in 0 .. Len(out) /\ at[p2] \in 0 .. PageLen /\ at[in_idx] \in 0 .. PageLen
<1>1. stage = "decompress" /\ in_idx < Len(out) /\ Len(dst) < PageLen
  BY DEF Decoding
<1>2. PICK at : Marks(out, page, Lengths(short), at, PageLen) /\ Placed(at)
  BY <1>1 DEF CodecInv, StreamInv
<1>3. in_idx \in DOMAIN at
  <2>1. Len(dst) \in Nat
    BY LenProperties DEF CodecInv, CodecTyped
  <2>2. Len(dst) # PageLen
    BY <1>1, <2>1
  <2> QED BY ONLY <1>2, <2>2 DEF Placed
<1>4. /\ DOMAIN at \subseteq 0 .. Len(out) /\ at \in [DOMAIN at -> 0 .. PageLen]
      /\ \E p2 \in DOMAIN at :
           Block(out, page, Lengths(short), in_idx, at[in_idx], p2, at[p2])
  BY ONLY <1>1, <1>2, <1>3 DEF Marks
<1>5. PICK p2 \in DOMAIN at :
        Block(out, page, Lengths(short), in_idx, at[in_idx], p2, at[p2])
  BY ONLY <1>4
<1>6. p2 \in 0 .. Len(out) /\ at[p2] \in 0 .. PageLen /\ at[in_idx] \in 0 .. PageLen
  BY ONLY <1>3, <1>4, p2 \in DOMAIN at
<1> QED
  BY <1>2, <1>3, <1>5, <1>6

\* An iteration that restores the bytes b from n bytes of the stream.  Where every
\* literal block has its own tag, b is what the page holds there.
LEMMA RestoreKeeps ==
  ASSUME CodecInv, Decoding, NEW b \in Seq(Values), NEW n \in Nat, Restore(b, n),
         Len(dst) + Len(b) <= PageLen, in_idx + n <= Len(out),
         HasPage =>
           \E at : /\ Marks(out, page, Lengths(short), at, PageLen)
                   /\ Len(dst) + Len(b) = PageLen \/ in_idx + n \in DOMAIN at
                   /\ ~short => /\ in_idx + n \in DOMAIN at
                                /\ Len(dst) + Len(b) = at[in_idx + n]
                                /\ \A k \in 1 .. Len(dst) : dst[k] = page[k]
                                /\ \A k \in 1 .. Len(b) : b[k] = page[Len(dst) + k]
  PROVE  CodecInv'
<1>1. /\ dst' = dst \o b /\ in_idx' = in_idx + n
      /\ page' = page /\ out' = out /\ stage' = "decompress" /\ short' = short
  BY DEF Restore, Decoding
<1>2. /\ dst \in Seq(Values) /\ out \in Seq(Values) /\ in_idx \in Nat
      /\ Len(dst) \in Nat /\ Len(out) \in Nat /\ Len(b) \in Nat
      /\ short \in BOOLEAN /\ (HasPage => page \in [1 .. PageLen -> Bytes] /\ Len(out) <= MaxDst)
  BY LenProperties DEF CodecInv, CodecTyped
<1>3. /\ dst' \in Seq(Values) /\ Len(dst') = Len(dst) + Len(b)
      /\ \A k \in 1 .. Len(dst) + Len(b) :
           dst'[k] = IF k <= Len(dst) THEN dst[k] ELSE b[k - Len(dst)]
  BY ONLY <1>1, <1>2, b \in Seq(Values), ConcatProperties
<1>4. HasPage' = HasPage
  BY <1>1 DEF HasPage
<1>5. CodecTyped'
  <2>1. in_idx' \in Nat /\ in_idx' <= Len(out') /\ Len(dst') <= PageLen
    BY <1>1, <1>2, <1>3
  <2>2. short' \in BOOLEAN
    BY ONLY <1>1, <1>2
  <2>3. stage' \in Stages /\ stage' # "compress"
    BY ONLY <1>1 DEF Stages
  <2> QED BY ONLY <1>1, <1>2, <1>3, <1>4, <2>1, <2>2, <2>3 DEF CodecTyped
<1>6. ASSUME HasPage PROVE \E at : Marks(out, page, Lengths(short), at, PageLen) /\ Placed(at)'
  <2>1. PICK at :
          /\ Marks(out, page, Lengths(short), at, PageLen)
          /\ Len(dst) + Len(b) = PageLen \/ in_idx + n \in DOMAIN at
          /\ ~short => /\ in_idx + n \in DOMAIN at
                       /\ Len(dst) + Len(b) = at[in_idx + n]
                       /\ \A k \in 1 .. Len(dst) : dst[k] = page[k]
                       /\ \A k \in 1 .. Len(b) : b[k] = page[Len(dst) + k]
    BY <1>6
  <2>2. ASSUME ~short, NEW k \in 1 .. Len(dst') PROVE dst'[k] = page[k]
    <3>1. CASE k <= Len(dst)
      <4>1. k \in 1 .. Len(dst) /\ dst'[k] = dst[k]
        BY ONLY <1>2, <1>3, <3>1, k \in 1 .. Len(dst')
      <4> QED BY ONLY <2>1, <2>2, <4>1
    <3>2. CASE ~(k <= Len(dst))
      <4>1. k \in 1 .. Len(dst) + Len(b)
        BY ONLY <1>3, k \in 1 .. Len(dst')
      <4>2. k - Len(dst) \in 1 .. Len(b) /\ Len(dst) + (k - Len(dst)) = k
        BY ONLY <1>2, <3>2, <4>1
      <4>3. dst'[k] = b[k - Len(dst)]
        BY ONLY <1>3, <3>2, <4>1
      <4> QED BY ONLY <2>1, <2>2, <4>2, <4>3
    <3> QED BY <3>1, <3>2
  <2>3. Placed(at)'
    BY ONLY <1>1, <1>3, <2>1, <2>2 DEF Placed
  <2> QED BY <2>1, <2>3
<1>7. StreamInv'
  <2> SUFFICES ASSUME HasPage'
               PROVE  \E at : Marks(out, page, Lengths(short), at, PageLen)' /\ Placed(at)'
    BY <1>1 DEF StreamInv
  <2>1. PICK at : Marks(out, page, Lengths(short), at, PageLen) /\ Placed(at)'
    BY <1>4, <1>6
  <2>2. Marks(out', page', Lengths(short'), at, PageLen)
    BY ONLY <1>1, <2>1
  <2> QED BY ONLY <2>1, <2>2
<1> QED
  BY <1>5, <1>7 DEF CodecInv

\* What CodecInv says of the types while a stream is decoded.
LEMMA DecodingTypes ==
  ASSUME CodecInv, Decoding
  PROVE  /\ in_idx \in Nat /\ in_idx < Len(out) /\ out \in Seq(Values) /\ Len(out) \in Nat
         /\ dst \in Seq(Values) /\ Len(dst) \in Nat /\ Len(dst) < PageLen
         /\ \A i \in 1 .. Len(out) : out[i] \in Values /\ out[i] \in Nat
<1>1. /\ in_idx \in Nat /\ out \in Seq(Values) /\ dst \in Seq(Values)
      /\ in_idx < Len(out) /\ Len(dst) < PageLen
  BY DEF CodecInv, CodecTyped, Decoding
<1>2. ASSUME NEW i \in 1 .. Len(out) PROVE out[i] \in Values
  BY <1>1, ElementOfSeq
<1> QED
  BY <1>1, <1>2, LenProperties

LEMMA DecodeZerosKeeps == ASSUME CodecInv, DecodeZeros PROVE CodecInv'
<1>1. Decoding /\ Tag = TAG_ZEROS /\ in_idx + 1 < Len(out)
  BY DEF DecodeZeros
<1>2. PICK n, b : n = out[in_idx + 2] /\ b = Repeat(0, Cut(n)) /\ Restore(b, 2)
  BY DEF DecodeZeros
<1>3. /\ in_idx \in Nat /\ Len(out) \in Nat /\ dst \in Seq(Values) /\ Len(dst) \in Nat
      /\ Len(dst) < PageLen /\ \A i \in 1 .. Len(out) : out[i] \in Nat
  BY <1>1, DecodingTypes
<1>4. n \in Nat /\ in_idx + 2 <= Len(out)
  <2>1. in_idx + 2 \in 1 .. Len(out)
    BY <1>1, <1>3
  <2> QED BY ONLY <1>2, <1>3, <2>1
<1>5. /\ Cut(n) \in Nat /\ Len(dst) + Cut(n) <= PageLen
      /\ Len(dst) + n <= PageLen => Cut(n) = n
  <2>1. Len(dst) <= PageLen
    BY <1>3
  <2> QED BY ONLY <1>3, <1>4, <2>1, CutFits
<1>6. b \in Seq(Values) /\ Len(b) = Cut(n) /\ \A k \in 1 .. Len(b) : b[k] = 0
  <2>1. 0 \in Values
    OBVIOUS
  <2> QED BY ONLY <1>2, <1>5, <2>1, RepeatIs
<1>7. ASSUME HasPage
      PROVE  \E at : /\ Marks(out, page, Lengths(short), at, PageLen)
                     /\ Len(dst) + Len(b) = PageLen \/ in_idx + 2 \in DOMAIN at
                     /\ ~short => /\ in_idx + 2 \in DOMAIN at
                                  /\ Len(dst) + Len(b) = at[in_idx + 2]
                                  /\ \A k \in 1 .. Len(dst) : dst[k] = page[k]
                                  /\ \A k \in 1 .. Len(b) : b[k] = page[Len(dst) + k]
  <2>1. PICK at :
          /\ Marks(out, page, Lengths(short), at, PageLen) /\ Placed(at)
          /\ in_idx \in DOMAIN at
          /\ \E p2 \in DOMAIN at :
               /\ Block(out, page, Lengths(short), in_idx, at[in_idx], p2, at[p2])
               /\ p2 \in 0 .. Len(out) /\ at[p2] \in 0 .. PageLen /\ at[in_idx] \in 0 .. PageLen
    BY ONLY CodecInv, <1>1, <1>7, BlockHere
  <2>2. PICK p2 \in DOMAIN at :
          /\ Block(out, page, Lengths(short), in_idx, at[in_idx], p2, at[p2])
          /\ p2 \in 0 .. Len(out) /\ at[p2] \in 0 .. PageLen /\ at[in_idx] \in 0 .. PageLen
    BY ONLY <2>1
  <2>3. PICK q \in 0 .. PageLen, q2 \in 0 .. PageLen : q = at[in_idx] /\ q2 = at[p2]
    BY ONLY <2>2
  <2>4. out[in_idx + 1] = 1
    BY <1>1 DEF Tag, TAG_ZEROS
  <2>5. \/ p2 = in_idx + 2 /\ n = q2 - q /\ \A k \in q + 1 .. q2 : page[k] = 0
        \/ p2 = in_idx + 2 /\ 1 \in Lengths(short)
    BY ONLY <1>2, <1>3, <2>2, <2>3, <2>4, Constants DEF Block, TAG_ZEROS, TAG_RUN
  <2>6. p2 = in_idx + 2
    BY ONLY <2>5
  <2>7. ASSUME ~short
        PROVE  /\ Len(dst) + Len(b) = q2
               /\ \A k \in 1 .. Len(dst) : dst[k] = page[k]
               /\ \A k \in 1 .. Len(b) : b[k] = page[Len(dst) + k]
    <3>1. 1 \notin Lengths(short)
      BY ONLY <2>7 DEF Lengths, TAG_ZEROS, TAG_RUN
    <3>2. n = q2 - q /\ \A k \in q + 1 .. q2 : page[k] = 0
      BY ONLY <2>5, <3>1
    <3>3. Len(dst) = q /\ \A k \in 1 .. Len(dst) : dst[k] = page[k]
      BY ONLY <2>1, <2>3, <2>7 DEF Placed
    <3>4. Cut(n) = n
      BY <1>4, <1>5, <3>2, <3>3
    <3>5. ASSUME NEW k \in 1 .. Len(b) PROVE b[k] = page[Len(dst) + k]
      <4>1. Len(dst) + k \in q + 1 .. q2
        BY <1>4, <1>6, <3>2, <3>3, <3>4
      <4> QED BY ONLY <1>6, <3>2, <4>1, k \in 1 .. Len(b)
    <3>6. Len(dst) + Len(b) = q2
      BY <1>4, <1>6, <3>2, <3>3, <3>4
    <3> QED BY <3>3, <3>5, <3>6
  <2> QED BY ONLY <2>1, <2>3, <2>6, <2>7, p2 \in DOMAIN at
<1>8. Len(dst) + Len(b) <= PageLen
  BY <1>5, <1>6
<1> QED
  BY ONLY CodecInv, <1>1, <1>2, <1>4, <1>6, <1>7, <1>8, RestoreKeeps, 2 \in Nat

LEMMA DecodeRunKeeps == ASSUME CodecInv, DecodeRun PROVE CodecInv'
<1>1. Decoding /\ Tag = TAG_RUN /\ in_idx + 2 < Len(out)
  BY DEF DecodeRun
<1>2. PICK n, v, b : /\ n = out[in_idx + 2] /\ v = out[in_idx + 3]
                     /\ b = Repeat(v, Cut(n)) /\ Restore(b, 3)
  BY DEF DecodeRun
<1>3. /\ in_idx \in Nat /\ Len(out) \in Nat /\ dst \in Seq(Values) /\ Len(dst) \in Nat
      /\ Len(dst) < PageLen /\ \A i \in 1 .. Len(out) : out[i] \in Nat /\ out[i] \in Values
  BY <1>1, DecodingTypes
<1>4. n \in Nat /\ v \in Values /\ in_idx + 3 <= Len(out)
  <2>1. in_idx + 2 \in 1 .. Len(out) /\ in_idx + 3 \in 1 .. Len(out)
    BY <1>1, <1>3
  <2> QED BY ONLY <1>2, <1>3, <2>1
<1>5. /\ Cut(n) \in Nat /\ Len(dst) + Cut(n) <= PageLen
      /\ Len(dst) + n <= PageLen => Cut(n) = n
  <2>1. Len(dst) <= PageLen
    BY <1>3
  <2> QED BY ONLY <1>3, <1>4, <2>1, CutFits
<1>6. b \in Seq(Values) /\ Len(b) = Cut(n) /\ \A k \in 1 .. Len(b) : b[k] = v
  <2>1. /\ Repeat(v, Cut(n)) \in Seq(Values) /\ Len(Repeat(v, Cut(n))) = Cut(n)
        /\ \A k \in 1 .. Cut(n) : Repeat(v, Cut(n))[k] = v
    BY ONLY <1>4, <1>5, RepeatIs
  <2> QED BY ONLY <1>2, <2>1
<1>7. ASSUME HasPage
      PROVE  \E at : /\ Marks(out, page, Lengths(short), at, PageLen)
                     /\ Len(dst) + Len(b) = PageLen \/ in_idx + 3 \in DOMAIN at
                     /\ ~short => /\ in_idx + 3 \in DOMAIN at
                                  /\ Len(dst) + Len(b) = at[in_idx + 3]
                                  /\ \A k \in 1 .. Len(dst) : dst[k] = page[k]
                                  /\ \A k \in 1 .. Len(b) : b[k] = page[Len(dst) + k]
  <2>1. PICK at :
          /\ Marks(out, page, Lengths(short), at, PageLen) /\ Placed(at)
          /\ in_idx \in DOMAIN at
          /\ \E p2 \in DOMAIN at :
               /\ Block(out, page, Lengths(short), in_idx, at[in_idx], p2, at[p2])
               /\ p2 \in 0 .. Len(out) /\ at[p2] \in 0 .. PageLen /\ at[in_idx] \in 0 .. PageLen
    BY ONLY CodecInv, <1>1, <1>7, BlockHere
  <2>2. PICK p2 \in DOMAIN at :
          /\ Block(out, page, Lengths(short), in_idx, at[in_idx], p2, at[p2])
          /\ p2 \in 0 .. Len(out) /\ at[p2] \in 0 .. PageLen /\ at[in_idx] \in 0 .. PageLen
    BY ONLY <2>1
  <2>3. PICK q \in 0 .. PageLen, q2 \in 0 .. PageLen : q = at[in_idx] /\ q2 = at[p2]
    BY ONLY <2>2
  <2>4. out[in_idx + 1] = 2
    BY <1>1 DEF Tag, TAG_RUN
  <2>5. \/ p2 = in_idx + 3 /\ n = q2 - q /\ \A k \in q + 1 .. q2 : page[k] = v
        \/ p2 = in_idx + 3 /\ 2 \in Lengths(short)
    BY ONLY <1>2, <1>3, <2>2, <2>3, <2>4, Constants DEF Block, TAG_ZEROS, TAG_RUN
  <2>6. p2 = in_idx + 3
    BY ONLY <2>5
  <2>7. ASSUME ~short
        PROVE  /\ Len(dst) + Len(b) = q2
               /\ \A k \in 1 .. Len(dst) : dst[k] = page[k]
               /\ \A k \in 1 .. Len(b) : b[k] = page[Len(dst) + k]
    <3>1. 2 \notin Lengths(short)
      BY ONLY <2>7 DEF Lengths, TAG_ZEROS, TAG_RUN
    <3>2. n = q2 - q /\ \A k \in q + 1 .. q2 : page[k] = v
      BY ONLY <2>5, <3>1
    <3>3. Len(dst) = q /\ \A k \in 1 .. Len(dst) : dst[k] = page[k]
      BY ONLY <2>1, <2>3, <2>7 DEF Placed
    <3>4. Cut(n) = n
      BY <1>4, <1>5, <3>2, <3>3
    <3>5. ASSUME NEW k \in 1 .. Len(b) PROVE b[k] = page[Len(dst) + k]
      <4>1. Len(dst) + k \in q + 1 .. q2
        BY <1>4, <1>6, <3>2, <3>3, <3>4
      <4> QED BY ONLY <1>6, <3>2, <4>1, k \in 1 .. Len(b)
    <3>6. Len(dst) + Len(b) = q2
      BY <1>4, <1>6, <3>2, <3>3, <3>4
    <3> QED BY <3>3, <3>5, <3>6
  <2> QED BY ONLY <2>1, <2>3, <2>6, <2>7, p2 \in DOMAIN at
<1>8. Len(dst) + Len(b) <= PageLen
  BY <1>5, <1>6
<1> QED
  BY ONLY CodecInv, <1>1, <1>2, <1>4, <1>6, <1>7, <1>8, RestoreKeeps, 3 \in Nat

LEMMA DecodeLiteralKeeps == ASSUME CodecInv, DecodeLiteral PROVE CodecInv'
<1>1. /\ Decoding /\ Tag \notin {TAG_ZEROS, TAG_RUN}
      /\ LiteralSize # 0 /\ in_idx + 1 + LiteralSize <= Len(out)
  BY DEF DecodeLiteral
<1>2. PICK m, n, b : /\ m = LiteralSize /\ n = Cut(m)
                     /\ b = SubSeq(out, in_idx + 2, in_idx + 1 + n) /\ Restore(b, 1 + n)
  BY DEF DecodeLiteral
<1>3. /\ in_idx \in Nat /\ Len(out) \in Nat /\ dst \in Seq(Values) /\ Len(dst) \in Nat
      /\ in_idx < Len(out) /\ Len(dst) < PageLen
      /\ \A i \in 1 .. Len(out) : out[i] \in Nat /\ out[i] \in Values
  BY <1>1, DecodingTypes
<1>4. PICK t : t = out[in_idx + 1]
  OBVIOUS
<1>5. t \in Nat /\ t \notin {1, 2} /\ m = t % (MaxLit + 1)
  <2>1. in_idx + 1 \in 1 .. Len(out)
    BY <1>3
  <2>2. t \in Nat
    BY ONLY <1>3, <1>4, <2>1
  <2> QED BY ONLY <1>1, <1>2, <1>4, <2>2 DEF LiteralSize, Tag, TAG_ZEROS, TAG_RUN
<1>6. m \in Nat /\ m # 0 /\ in_idx + 1 + m <= Len(out)
  <2>1. MaxLit + 1 \in Nat \ {0}
    OBVIOUS
  <2>2. t % (MaxLit + 1) \in Nat
    BY ONLY <1>5, <2>1
  <2> QED BY ONLY <1>1, <1>2, <1>5, <2>2
<1>7. /\ n \in Nat /\ Len(dst) + n <= PageLen /\ n <= m
      /\ Len(dst) + m <= PageLen => n = m
      /\ n # m => Len(dst) + n = PageLen
  <2>1. Len(dst) <= PageLen
    BY <1>3
  <2> QED BY ONLY <1>2, <1>3, <1>6, <2>1, CutFits
<1>8. b \in Seq(Values) /\ Len(b) = n /\ \A k \in 1 .. n : b[k] = out[in_idx + 1 + k]
  <2>1. PICK lo \in Int, hi \in Int : lo = in_idx + 2 /\ hi = in_idx + 1 + n
    BY ONLY <1>3, <1>7
  <2>2. b = SubSeq(out, lo, hi)
    BY ONLY <1>2, <2>1
  <2>3. ASSUME NEW k \in lo .. hi PROVE out[k] \in Values
    <3>1. k \in 1 .. Len(out)
      BY <1>3, <1>6, <1>7, <2>1
    <3> QED BY ONLY <1>3, <3>1
  <2>4. /\ SubSeq(out, lo, hi) \in Seq(Values)
        /\ Len(SubSeq(out, lo, hi)) = IF lo <= hi THEN hi - lo + 1 ELSE 0
        /\ \A k \in 1 .. hi - lo + 1 : SubSeq(out, lo, hi)[k] = out[lo + k - 1]
    BY ONLY <2>3, lo \in Int, hi \in Int, SubSeqProperties
  <2>5. hi - lo + 1 = n /\ (lo <= hi \/ n = 0)
        /\ \A k \in 1 .. n : lo + k - 1 = in_idx + 1 + k
    BY ONLY <1>3, <1>7, <2>1
  <2>6. Len(b) = n
    BY ONLY <1>7, <2>1, <2>2, <2>4, <2>5
  <2> QED BY ONLY <2>2, <2>4, <2>5, <2>6
<1>9. ASSUME HasPage
      PROVE  \E at : /\ Marks(out, page, Lengths(short), at, PageLen)
                     /\ Len(dst) + Len(b) = PageLen \/ in_idx + (1 + n) \in DOMAIN at
                     /\ ~short => /\ in_idx + (1 + n) \in DOMAIN at
                                  /\ Len(dst) + Len(b) = at[in_idx + (1 + n)]
                                  /\ \A k \in 1 .. Len(dst) : dst[k] = page[k]
                                  /\ \A k \in 1 .. Len(b) : b[k] = page[Len(dst) + k]
  <2>1. PICK at :
          /\ Marks(out, page, Lengths(short), at, PageLen) /\ Placed(at)
          /\ in_idx \in DOMAIN at
          /\ \E p2 \in DOMAIN at :
               /\ Block(out, page, Lengths(short), in_idx, at[in_idx], p2, at[p2])
               /\ p2 \in 0 .. Len(out) /\ at[p2] \in 0 .. PageLen /\ at[in_idx] \in 0 .. PageLen
    BY ONLY CodecInv, <1>1, <1>9, BlockHere
  <2>2. PICK p2 \in DOMAIN at :
          /\ Block(out, page, Lengths(short), in_idx, at[in_idx], p2, at[p2])
          /\ p2 \in 0 .. Len(out) /\ at[p2] \in 0 .. PageLen /\ at[in_idx] \in 0 .. PageLen
    BY ONLY <2>1
  <2>3. PICK q \in 0 .. PageLen, q2 \in 0 .. PageLen : q = at[in_idx] /\ q2 = at[p2]
    BY ONLY <2>2
  <2>4. /\ q2 - q \in 1 .. MaxLit /\ p2 = in_idx + 1 + (q2 - q) /\ t = q2 - q
        /\ \A k \in 1 .. q2 - q : page[q + k] = out[in_idx + 1 + k]
    BY ONLY <1>4, <1>5, <2>2, <2>3 DEF Block, TAG_ZEROS, TAG_RUN
  <2>5. m = t
    <3>1. /\ t \in 1 .. MaxLit /\ MaxLit + 1 \in Nat \ {0} /\ t < MaxLit + 1
          /\ t \in -(MaxLit + 1) .. 2 * (MaxLit + 1) - 1
      BY <2>4
    <3>2. t % (MaxLit + 1) = IF t < 0 THEN t + (MaxLit + 1)
                             ELSE IF t < MaxLit + 1 THEN t ELSE t - (MaxLit + 1)
      BY ONLY <3>1, ModWrapsOnce
    <3>3. ~(t < 0)
      BY <1>5
    <3> QED BY ONLY <1>5, <3>1, <3>2, <3>3
  <2>6. n = m => in_idx + (1 + n) = p2
    BY ONLY <1>3, <1>5, <1>7, <2>4, <2>5
  <2>7. ASSUME ~short
        PROVE  /\ Len(dst) + Len(b) = q2 /\ n = m
               /\ \A k \in 1 .. Len(dst) : dst[k] = page[k]
               /\ \A k \in 1 .. Len(b) : b[k] = page[Len(dst) + k]
    <3>1. Len(dst) = q /\ \A k \in 1 .. Len(dst) : dst[k] = page[k]
      BY ONLY <2>1, <2>3, <2>7 DEF Placed
    <3>2. Len(dst) + m = q2
      BY <2>4, <2>5, <3>1
    <3>3. n = m
      BY ONLY <1>3, <1>7, <3>2, q2 \in 0 .. PageLen, Constants
    <3>4. ASSUME NEW k \in 1 .. Len(b) PROVE b[k] = page[Len(dst) + k]
      <4>1. k \in 1 .. n /\ k \in 1 .. q2 - q
        BY ONLY <1>8, <2>4, <2>5, <3>3, k \in 1 .. Len(b)
      <4> QED BY ONLY <1>8, <2>4, <3>1, <4>1
    <3>5. Len(dst) + Len(b) = q2
      BY ONLY <1>8, <3>2, <3>3
    <3> QED BY <3>1, <3>3, <3>4, <3>5
  <2>8. CASE n = m
    BY ONLY <2>1, <2>3, <2>6, <2>7, <2>8, p2 \in DOMAIN at
  <2>9. CASE n # m
    <3>1. short /\ Len(dst) + Len(b) = PageLen
      BY ONLY <1>7, <1>8, <2>7, <2>9
    <3> QED BY ONLY <2>1, <3>1
  <2> QED BY <2>8, <2>9
<1>10. Len(dst) + Len(b) <= PageLen /\ in_idx + (1 + n) <= Len(out) /\ 1 + n \in Nat
  BY <1>3, <1>6, <1>7, <1>8
<1> QED
  BY ONLY CodecInv, <1>1, <1>2, <1>8, <1>9, <1>10, RestoreKeeps

\* The block of a stream of zram_compress_page has all its bytes.
LEMMA CorruptKeeps == ASSUME CodecInv, Corrupt PROVE CodecInv'
<1>1. /\ Decoding /\ Truncated /\ stage' = "corrupt"
      /\ UNCHANGED <<page, in_idx, out, dst, short>>
  BY DEF Corrupt
<1>2. /\ in_idx \in Nat /\ Len(out) \in Nat /\ in_idx < Len(out)
      /\ \A i \in 1 .. Len(out) : out[i] \in Nat
  BY <1>1, DecodingTypes
<1>3. ASSUME HasPage PROVE FALSE
  <2>1. PICK at :
          /\ Marks(out, page, Lengths(short), at, PageLen) /\ Placed(at)
          /\ in_idx \in DOMAIN at
          /\ \E p2 \in DOMAIN at :
               /\ Block(out, page, Lengths(short), in_idx, at[in_idx], p2, at[p2])
               /\ p2 \in 0 .. Len(out) /\ at[p2] \in 0 .. PageLen /\ at[in_idx] \in 0 .. PageLen
    BY ONLY CodecInv, <1>1, <1>3, BlockHere
  <2>2. PICK p2 \in DOMAIN at :
          /\ Block(out, page, Lengths(short), in_idx, at[in_idx], p2, at[p2])
          /\ p2 \in 0 .. Len(out) /\ at[p2] \in 0 .. PageLen /\ at[in_idx] \in 0 .. PageLen
    BY ONLY <2>1
  <2>3. PICK q \in 0 .. PageLen, q2 \in 0 .. PageLen : q = at[in_idx] /\ q2 = at[p2]
    BY ONLY <2>2
  <2>4. PICK t : t = out[in_idx + 1]
    OBVIOUS
  <2>5. \/ t = 1 /\ p2 = in_idx + 2
        \/ t = 2 /\ p2 = in_idx + 3
        \/ t \in 1 .. MaxLit /\ p2 = in_idx + 1 + t
    BY ONLY <2>2, <2>3, <2>4 DEF Block, TAG_ZEROS, TAG_RUN
  <2>6. CASE t = 1
    <3>1. in_idx + 1 >= Len(out)
      <4>1. Tag = TAG_ZEROS /\ Tag # TAG_RUN
        BY ONLY <2>4, <2>6 DEF Tag, TAG_ZEROS, TAG_RUN
      <4> QED BY ONLY <1>1, <4>1 DEF Truncated
    <3> QED BY ONLY <1>2, <2>2, <2>5, <2>6, <3>1
  <2>7. CASE t = 2
    <3>1. in_idx + 2 >= Len(out)
      BY ONLY <1>1, <2>4, <2>7 DEF Truncated, Tag, TAG_ZEROS, TAG_RUN
    <3> QED BY ONLY <1>2, <2>2, <2>5, <2>7, <3>1
  <2>8. CASE t \notin {1, 2}
    <3>1. t \in 1 .. MaxLit /\ p2 = in_idx + 1 + t
      BY ONLY <2>5, <2>8
    <3>2. LiteralSize = t
      <4>1. /\ MaxLit + 1 \in Nat \ {0} /\ t < MaxLit + 1 /\ ~(t < 0)
            /\ t \in -(MaxLit + 1) .. 2 * (MaxLit + 1) - 1
        BY <3>1
      <4>2. t % (MaxLit + 1) = IF t < 0 THEN t + (MaxLit + 1)
                               ELSE IF t < MaxLit + 1 THEN t ELSE t - (MaxLit + 1)
        BY ONLY <4>1, ModWrapsOnce
      <4> QED BY ONLY <2>4, <4>1, <4>2 DEF LiteralSize, Tag
    <3>3. t = 0 \/ in_idx + 1 + t > Len(out)
      BY ONLY <1>1, <2>4, <2>8, <3>2 DEF Truncated, Tag, TAG_ZEROS, TAG_RUN
    <3> QED BY ONLY <1>2, <2>2, <3>1, <3>3, Constants
  <2> QED BY <2>6, <2>7, <2>8
<1>4. ~HasPage' /\ ~HasPage
  BY <1>1, <1>3 DEF HasPage
<1>5. CodecTyped'
  <2>1. stage' \in Stages /\ stage' # "compress" /\ stage' # "decompress"
    BY <1>1 DEF Stages
  <2> QED BY ONLY CodecInv, <1>1, <1>4, <2>1 DEF CodecInv, CodecTyped
<1> QED
  BY ONLY <1>4, <1>5 DEF CodecInv, StreamInv

LEMMA IncompressibleKeeps == ASSUME CodecInv, Incompressible PROVE CodecInv'
<1>1. /\ stage' = "incompressible" /\ UNCHANGED <<page, in_idx, out, dst, short>>
  BY DEF Incompressible
<1>2. /\ stage' \in Stages
      /\ stage' \notin {"compress", "decompress", "corrupt", "restored"}
  BY <1>1 DEF Stages
<1>3. HasPage' = HasPage
  BY <1>1 DEF HasPage
<1>4. CodecTyped'
  BY ONLY CodecInv, <1>1, <1>2, <1>3 DEF CodecInv, CodecTyped
<1> QED
  BY ONLY <1>2, <1>4 DEF CodecInv, StreamInv

\* What zram_decompress_page begins with: the first block, for the first byte.
LEMMA StartDecompressKeeps == ASSUME CodecInv, StartDecompress PROVE CodecInv'
<1>1. /\ stage = "compress" /\ in_idx >= PageLen /\ stage' = "decompress" /\ in_idx' = 0
      /\ UNCHANGED <<page, out, dst, short>>
  BY DEF StartDecompress
<1>2. /\ HasPage /\ dst = << >> /\ in_idx <= PageLen /\ in_idx \in Nat /\ out \in Seq(Values)
      /\ short \in BOOLEAN /\ page \in [1 .. PageLen -> Bytes] /\ Len(out) <= MaxDst
  BY <1>1 DEF CodecInv, CodecTyped
<1>3. dst \in Seq(Values) /\ Len(dst) = 0 /\ Len(out) \in Nat
  BY <1>2, EmptySeq, LenProperties
<1>4. in_idx = PageLen
  BY <1>1, <1>2
<1>5. PICK at : Marks(out, page, Lengths(short), at, PageLen)
  BY ONLY CodecInv, <1>1, <1>2, <1>4 DEF CodecInv, StreamInv
<1>6. 0 \in DOMAIN at /\ at[0] = 0
  BY ONLY <1>5 DEF Marks
<1>7. Placed(at)'
  BY ONLY <1>1, <1>3, <1>6 DEF Placed
<1>8. Marks(out', page', Lengths(short'), at, PageLen)
  BY ONLY <1>1, <1>5
<1>9. StreamInv'
  BY ONLY <1>1, <1>7, <1>8 DEF StreamInv
<1>10. CodecTyped'
  <2>1. in_idx' \in Nat /\ in_idx' <= Len(out') /\ Len(dst') <= PageLen
    BY <1>1, <1>3
  <2>2. stage' \in Stages /\ stage' # "compress"
    BY <1>1 DEF Stages
  <2> QED BY ONLY <1>1, <1>2, <1>3, <2>1, <2>2 DEF CodecTyped, HasPage
<1> QED
  BY ONLY <1>9, <1>10 DEF CodecInv

\* When nothing was misread the stream ends where the page ends, and nothing is left
\* to be zeroed.
LEMMA FinishKeeps == ASSUME CodecInv, Finish PROVE CodecInv'
<1>1. /\ stage = "decompress" /\ ~Decoding /\ stage' = "restored"
      /\ dst' = dst \o Repeat(0, Room)
      /\ UNCHANGED <<page, in_idx, out, short>>
  BY DEF Finish
<1>2. /\ dst \in Seq(Values) /\ Len(dst) \in Nat /\ Len(dst) <= PageLen
      /\ out \in Seq(Values) /\ Len(out) \in Nat /\ in_idx \in Nat /\ in_idx <= Len(out)
      /\ short \in BOOLEAN /\ (HasPage => page \in [1 .. PageLen -> Bytes] /\ Len(out) <= MaxDst)
  BY <1>1, LenProperties DEF CodecInv, CodecTyped
<1>3. Room \in Nat /\ Len(dst) + Room = PageLen
  BY <1>2 DEF Room
<1>4. Repeat(0, Room) \in Seq(Values) /\ Len(Repeat(0, Room)) = Room
  <2>1. 0 \in Values
    OBVIOUS
  <2> QED BY ONLY <1>3, <2>1, RepeatIs
<1>5. /\ dst' \in Seq(Values) /\ Len(dst') = PageLen
      /\ \A k \in 1 .. PageLen : k <= Len(dst) => dst'[k] = dst[k]
  <2>1. /\ dst' \in Seq(Values) /\ Len(dst') = Len(dst) + Len(Repeat(0, Room))
        /\ \A k \in 1 .. Len(dst) + Len(Repeat(0, Room)) :
             dst'[k] = IF k <= Len(dst) THEN dst[k] ELSE Repeat(0, Room)[k - Len(dst)]
    BY ONLY <1>1, <1>2, <1>4, ConcatProperties
  <2> QED BY ONLY <1>3, <1>4, <2>1
<1>6. CodecTyped'
  <2>1. stage' \in Stages /\ stage' # "compress" /\ stage' # "decompress"
    BY <1>1 DEF Stages
  <2>2. Len(dst') <= PageLen
    BY <1>5
  <2> QED BY ONLY <1>1, <1>2, <1>5, <2>1, <2>2 DEF CodecTyped, HasPage
<1>7. ASSUME HasPage, ~short PROVE dst' = page
  <2>1. PICK at : Marks(out, page, Lengths(short), at, PageLen) /\ Placed(at)
    BY ONLY CodecInv, <1>1, <1>7 DEF CodecInv, StreamInv
  <2>2. Len(dst) = at[in_idx] /\ \A k \in 1 .. Len(dst) : dst[k] = page[k]
    BY ONLY <1>7, <2>1 DEF Placed
  <2>3. Len(dst) = PageLen
    <3>1. CASE in_idx < Len(out)
      <4>1. ~(Len(dst) < PageLen)
        BY ONLY <1>1, <3>1 DEF Decoding
      <4> QED BY <1>2, <4>1
    <3>2. CASE ~(in_idx < Len(out))
      <4>1. in_idx = Len(out)
        BY ONLY <1>2, <3>2
      <4>2. at[Len(out)] = PageLen
        BY ONLY <2>1 DEF Marks
      <4> QED BY ONLY <2>2, <4>1, <4>2
    <3> QED BY <3>1, <3>2
  <2>4. page \in Seq(Values) /\ Len(page) = PageLen
    <3>1. page \in [1 .. PageLen -> Values] /\ PageLen \in Nat
      BY <1>2, <1>7
    <3> QED BY ONLY <3>1
  <2>5. \A k \in 1 .. Len(dst') : dst'[k] = page[k]
    BY ONLY <1>5, <2>2, <2>3, Constants
  <2> QED BY ONLY <1>5, <2>4, <2>5, SeqEqual
<1>8. StreamInv'
  BY ONLY <1>1, <1>7 DEF StreamInv, HasPage
<1> QED
  BY ONLY <1>6, <1>8 DEF CodecInv

\* Every iteration of the two loops keeps the invariant.
LEMMA CodecInvNext == CodecInv /\ [CodecNext]_codecVars => CodecInv'
<1> SUFFICES ASSUME CodecInv, [CodecNext]_codecVars PROVE CodecInv'
  OBVIOUS
<1>1. CASE EmitZeros
  BY ONLY CodecInv, <1>1, EmitZerosKeeps
<1>2. CASE EmitRun
  BY ONLY CodecInv, <1>2, EmitRunKeeps
<1>3. CASE EmitLiteral
  BY ONLY CodecInv, <1>3, EmitLiteralKeeps
<1>4. CASE Incompressible
  BY ONLY CodecInv, <1>4, IncompressibleKeeps
<1>5. CASE StartDecompress
  BY ONLY CodecInv, <1>5, StartDecompressKeeps
<1>6. CASE DecodeZeros
  BY ONLY CodecInv, <1>6, DecodeZerosKeeps
<1>7. CASE DecodeRun
  BY ONLY CodecInv, <1>7, DecodeRunKeeps
<1>8. CASE DecodeLiteral
  BY ONLY CodecInv, <1>8, DecodeLiteralKeeps
<1>9. CASE Corrupt
  BY ONLY CodecInv, <1>9, CorruptKeeps
<1>10. CASE Finish
  BY ONLY CodecInv, <1>10, FinishKeeps
<1>11. CASE UNCHANGED codecVars
  <2>1. UNCHANGED <<page, in_idx, out, dst, stage, short>>
    BY ONLY <1>11 DEF codecVars
  <2>2. HasPage' = HasPage
    BY ONLY <2>1 DEF HasPage
  <2>3. CodecTyped'
    BY ONLY CodecInv, <2>1, <2>2 DEF CodecInv, CodecTyped
  <2>4. \A at : Placed(at)' <=> Placed(at)
    BY ONLY <2>1 DEF Placed
  <2>5. StreamInv'
    BY ONLY CodecInv, <2>1, <2>2, <2>4 DEF CodecInv, StreamInv
  <2> QED BY ONLY <2>3, <2>5 DEF CodecInv
<1> QED
  BY ONLY [CodecNext]_codecVars, <1>1, <1>2, <1>3, <1>4, <1>5, <1>6, <1>7, <1>8, <1>9, <1>10, <1>11 DEF CodecNext

\* The invariant holds in every behaviour of the codec.
LEMMA CodecInvariance == CodecSpec => []CodecInv
BY CodecInvInit, CodecInvNext, PTL DEF CodecSpec

\* The two functions stay in their buffers, for a page of any size and for any stream.
THEOREM CodecStaysInBuffers == CodecSpec => []StaysInBuffers
<1>1. CodecInv => StaysInBuffers
  <2> SUFFICES ASSUME CodecInv PROVE StaysInBuffers
    OBVIOUS
  <2>1. CodecTyped /\ out \in Seq(Values)
    BY DEF CodecInv, CodecTyped
  <2>2. \A i \in DOMAIN out : out[i] \in Bytes \cup 0 .. MaxRun
    BY ONLY <2>1, LenProperties, ElementOfSeq DEF Values
  <2> QED BY ONLY <2>1, <2>2 DEF CodecTyped, StaysInBuffers
<1> QED
  BY <1>1, CodecInvariance, PTL

\* A page whose literal blocks all have a tag of their own comes back as it was, and no
\* stream of zram_compress_page is rejected.
THEOREM CodecRoundTrip == CodecSpec => []RoundTripWithoutShortLiterals
<1>1. CodecInv => RoundTripWithoutShortLiterals
  BY DEF CodecInv, StreamInv, RoundTripWithoutShortLiterals
<1> QED
  BY <1>1, CodecInvariance, PTL
-----------------------------------------------------------------------------
SlotRecords == [data : Buffers \cup {NULL}, compressed_len : Nat, used : BOOLEAN]

StatRecords == [pages_stored : Nat, original_bytes : Nat, compressed_bytes : Nat,
                compression_ratio_x100 : Nat, total_compressions : Nat,
                total_decompressions : Nat]

ZramTypeOK ==
  /\ pool \in [Slots -> SlotRecords]
  /\ stats \in StatRecords
  /\ ret \in -4 .. 0

\* A stream in a slot is shorter than a page by more than the margin; a free slot
\* is all zeros.
SlotsFilled ==
  \A s \in Slots :
    IF pool[s].used THEN pool[s].compressed_len \in 1 .. PageSize - Margin - 1
                    ELSE pool[s] = EmptySlot

\* Slots in use, buffers on the heap and handles correspond one to one.
OwnersAgree ==
  /\ DOMAIN handles = UsedSlots
  /\ DOMAIN heap = {pool[s].data : s \in UsedSlots}
  /\ \A s \in UsedSlots : pool[s].data \in Buffers /\ heap[pool[s].data] = handles[s]
  /\ \A s, r \in UsedSlots : pool[s].data = pool[r].data => s = r

\* The counters are those of the slots.
CountsAgree ==
  /\ IsFiniteSet(StoredBytes)
  /\ stats.pages_stored = Cardinality(UsedSlots)
  /\ stats.original_bytes = PageSize * Cardinality(UsedSlots)
  /\ stats.compressed_bytes = Cardinality(StoredBytes)
  /\ stats.compression_ratio_x100 =
       IF UsedSlots = {} THEN 100 ELSE Ratio(stats.original_bytes, stats.compressed_bytes)

ZramInv == ZramTypeOK /\ SlotsFilled /\ OwnersAgree /\ CountsAgree

BytesOf(s, n) == {s} \X (1 .. n)

HIDE Constants
USE ZramAssumption
-----------------------------------------------------------------------------
LEMMA SlotsAreFinite == IsFiniteSet(UsedSlots) /\ Cardinality(UsedSlots) \in Nat
<1>1. IsFiniteSet(Slots)
  BY FS_Interval DEF Slots
<1>2. UsedSlots \in SUBSET Slots
  BY DEF UsedSlots
<1> QED
  BY <1>1, <1>2, FS_Subset, FS_CardinalityType

\* A stream of n bytes has n bytes.
LEMMA BytesCounted ==
  ASSUME NEW s, NEW n \in Nat
  PROVE  IsFiniteSet(BytesOf(s, n)) /\ Cardinality(BytesOf(s, n)) = n
<1>1. IsFiniteSet({s}) /\ Cardinality({s}) = 1
  BY FS_Singleton
<1>2. IsFiniteSet(1 .. n) /\ Cardinality(1 .. n) = n
  BY FS_Interval
<1>3. /\ IsFiniteSet({s} \X (1 .. n))
      /\ Cardinality({s} \X (1 .. n)) = Cardinality({s}) * Cardinality(1 .. n)
  BY <1>1, <1>2, FS_Product
<1> QED
  BY <1>1, <1>2, <1>3 DEF BytesOf

LEMMA StoredBytesAre == StoredBytes = UNION {BytesOf(s, pool[s].compressed_len) : s \in UsedSlots}
<1> QED BY DEF StoredBytes, BytesOf

\* Bytes that a slot adds to those of other slots are counted once.
LEMMA BytesAdded ==
  ASSUME NEW B, IsFiniteSet(B), NEW s, NEW n \in Nat, \A x \in B : x[1] # s
  PROVE  /\ IsFiniteSet(B \cup BytesOf(s, n))
         /\ Cardinality(B \cup BytesOf(s, n)) = Cardinality(B) + n
<1>1. B \cap BytesOf(s, n) = {}
  BY DEF BytesOf
<1>2. Cardinality({}) = 0 /\ Cardinality(B) \in Nat
  BY FS_EmptySet, FS_CardinalityType
<1>3. IsFiniteSet(BytesOf(s, n)) /\ Cardinality(BytesOf(s, n)) = n
  BY BytesCounted
<1>4. /\ IsFiniteSet(B \cup BytesOf(s, n))
      /\ Cardinality(B \cup BytesOf(s, n)) = Cardinality(B) + n - Cardinality(B \cap BytesOf(s, n))
  BY <1>3, FS_Union
<1>5. Cardinality(B \cap BytesOf(s, n)) = 0
  BY <1>1, <1>2
<1> QED
  BY <1>2, <1>4, <1>5

LEMMA ZramInitInv == Init => ZramInv
<1> SUFFICES ASSUME Init PROVE ZramInv
  OBVIOUS
<1>1. UsedSlots = {} /\ StoredBytes = {}
  BY DEF Init, UsedSlots, StoredBytes, EmptySlot
<1>2. ZramTypeOK
  BY DEF Init, ZramTypeOK, SlotRecords, StatRecords, EmptySlot
<1>3. SlotsFilled
  BY DEF Init, SlotsFilled, EmptySlot
<1>4. OwnersAgree
  BY <1>1 DEF Init, OwnersAgree
<1>5. CountsAgree
  BY <1>1, FS_EmptySet DEF Init, CountsAgree
<1> QED
  BY <1>2, <1>3, <1>4, <1>5 DEF ZramInv

LEMMA StoreInv == ASSUME ZramInv, NEW p \in Pages, zram_store(p) PROVE ZramInv'
<1> DEFINE len == CompLen[p]
<1>1. len \in 1 .. PageSize - Margin - 1 /\ len \in Nat
  BY DEF zram_store, Compressible
<1>2. PICK slot \in FreeSlots : slot = Min(FreeSlots)
  <2>1. FreeSlots \in SUBSET Nat /\ FreeSlots # {}
    BY DEF FreeSlots, Slots, zram_store
  <2> QED BY <2>1, MinOfNaturals
<1>3. slot \in Slots /\ ~ pool[slot].used /\ slot \notin UsedSlots
  BY DEF FreeSlots, UsedSlots
<1>4. PICK buf \in Buffers \ DOMAIN heap :
        /\ heap' = [b \in DOMAIN heap \cup {buf} |-> IF b = buf THEN p ELSE heap[b]]
        /\ pool' = [pool EXCEPT ![slot] = [data |-> buf, compressed_len |-> len, used |-> TRUE]]
        /\ stats' = [stats EXCEPT
                      !.pages_stored = @ + 1,
                      !.original_bytes = stats.original_bytes + PageSize,
                      !.compressed_bytes = stats.compressed_bytes + len,
                      !.total_compressions = @ + 1,
                      !.compression_ratio_x100 =
                        Ratio(stats.original_bytes + PageSize, stats.compressed_bytes + len)]
        /\ handles' = [h \in DOMAIN handles \cup {slot} |-> IF h = slot THEN p ELSE handles[h]]
  BY <1>2 DEF zram_store
<1>5. ret' = 0
  BY DEF zram_store, Return
<1> HIDE DEF len
<1>6. /\ pool'[slot] = [data |-> buf, compressed_len |-> len, used |-> TRUE]
      /\ \A s \in Slots \ {slot} : pool'[s] = pool[s]
  BY <1>3, <1>4 DEF ZramInv, ZramTypeOK
<1>7. UsedSlots' = UsedSlots \cup {slot}
  BY <1>3, <1>6 DEF UsedSlots
<1>8. stats.original_bytes \in Nat /\ stats.compressed_bytes \in Nat
      /\ Ratio(stats.original_bytes + PageSize, stats.compressed_bytes + len) \in Nat
  BY <1>1 DEF ZramInv, ZramTypeOK, StatRecords, Ratio
<1>9. ZramTypeOK'
  <2>1. pool' \in [Slots -> SlotRecords]
    BY <1>1, <1>3, <1>4 DEF ZramInv, ZramTypeOK, SlotRecords
  <2>2. stats' \in StatRecords
    <3>1. /\ stats \in StatRecords
          /\ stats.pages_stored + 1 \in Nat /\ stats.total_compressions + 1 \in Nat
          /\ stats.original_bytes + PageSize \in Nat /\ stats.compressed_bytes + len \in Nat
      BY <1>1, <1>8 DEF ZramInv, ZramTypeOK, StatRecords
    <3> QED BY <1>4, <1>8, <3>1 DEF StatRecords
  <2> QED BY <1>5, <2>1, <2>2 DEF ZramTypeOK
<1>10. SlotsFilled'
  BY <1>1, <1>6 DEF ZramInv, SlotsFilled
<1>11. OwnersAgree'
  <2>1. buf # NULL /\ buf \notin {pool[s].data : s \in UsedSlots}
    BY DEF ZramInv, OwnersAgree, NULL
  <2>2. \A s \in UsedSlots : s \in Slots /\ s # slot /\ pool'[s] = pool[s]
    BY <1>3, <1>6 DEF UsedSlots
  <2>3. DOMAIN heap' = DOMAIN heap \cup {buf} /\ DOMAIN handles' = DOMAIN handles \cup {slot}
    BY <1>4
  <2>4. {pool'[s].data : s \in UsedSlots'} = {pool[s].data : s \in UsedSlots} \cup {buf}
    BY <1>6, <1>7, <2>2
  <2>5. \A s \in UsedSlots' : pool'[s].data \in Buffers /\ heap'[pool'[s].data] = handles'[s]
    <3>1. heap'[buf] = p /\ handles'[slot] = p /\ buf \in Buffers
      BY <1>4
    <3>2. ASSUME NEW s \in UsedSlots
          PROVE  pool'[s].data \in Buffers /\ heap'[pool'[s].data] = handles'[s]
      <4>1. pool[s].data \in DOMAIN heap /\ s \in DOMAIN handles /\ pool[s].data # buf
        BY <2>1 DEF ZramInv, OwnersAgree
      <4>2. heap'[pool[s].data] = heap[pool[s].data] /\ handles'[s] = handles[s]
        BY <1>4, <2>2, <4>1
      <4> QED BY <2>2, <4>2 DEF ZramInv, OwnersAgree
    <3> QED BY <1>6, <1>7, <3>1, <3>2
  <2>6. \A s, r \in UsedSlots' : pool'[s].data = pool'[r].data => s = r
    BY <1>6, <1>7, <2>1, <2>2 DEF ZramInv, OwnersAgree
  <2> QED BY <1>7, <2>3, <2>4, <2>5, <2>6 DEF ZramInv, OwnersAgree
<1>12. CountsAgree'
  <2>1. Cardinality(UsedSlots') = Cardinality(UsedSlots) + 1 /\ Cardinality(UsedSlots) \in Nat
    BY <1>3, <1>7, SlotsAreFinite, FS_AddElement
  <2>2. StoredBytes' = StoredBytes \cup BytesOf(slot, len)
    <3>1. \A s \in UsedSlots : pool'[s] = pool[s]
      BY <1>3, <1>6 DEF UsedSlots
    <3>2. StoredBytes' = UNION {BytesOf(s, pool'[s].compressed_len) : s \in UsedSlots'}
      BY DEF StoredBytes, BytesOf
    <3> QED BY <1>6, <1>7, <3>1, <3>2, StoredBytesAre
  <2>3. \A x \in StoredBytes : x[1] # slot
    BY <1>3 DEF StoredBytes
  <2>4. IsFiniteSet(StoredBytes') /\ Cardinality(StoredBytes') = Cardinality(StoredBytes) + len
    BY <1>1, <2>2, <2>3, BytesAdded DEF ZramInv, CountsAgree
  <2>5. /\ stats'.pages_stored = stats.pages_stored + 1
        /\ stats'.original_bytes = stats.original_bytes + PageSize
        /\ stats'.compressed_bytes = stats.compressed_bytes + len
        /\ stats'.compression_ratio_x100 =
             Ratio(stats.original_bytes + PageSize, stats.compressed_bytes + len)
    BY <1>4 DEF ZramInv, ZramTypeOK, StatRecords
  <2>6. PageSize * (Cardinality(UsedSlots) + 1) = PageSize * Cardinality(UsedSlots) + PageSize
    BY <2>1
  <2> QED BY <1>7, <2>1, <2>4, <2>5, <2>6 DEF ZramInv, CountsAgree
<1> QED
  BY <1>9, <1>10, <1>11, <1>12 DEF ZramInv

LEMMA FreeInv == ASSUME ZramInv, NEW slot \in 0 .. MaxPages, zram_free(slot) PROVE ZramInv'
<1> DEFINE len == pool[slot].compressed_len
           buf == pool[slot].data
           original == stats.original_bytes - PageSize
           compressed == stats.compressed_bytes - len
<1>1. slot \in UsedSlots /\ slot \in Slots /\ slot \in DOMAIN handles
  BY DEF zram_free, ZramInv, OwnersAgree, UsedSlots
<1>2. len \in Nat /\ buf \in DOMAIN heap
  BY <1>1 DEF ZramInv, ZramTypeOK, SlotRecords, OwnersAgree
<1>3. /\ stats' = [stats EXCEPT
                    !.pages_stored = @ - 1,
                    !.original_bytes = original,
                    !.compressed_bytes = compressed,
                    !.compression_ratio_x100 = RatioAfterFree(original, compressed)]
      /\ heap' = [b \in DOMAIN heap \ {buf} |-> heap[b]]
      /\ pool' = [pool EXCEPT ![slot] = EmptySlot]
      /\ handles' = [h \in DOMAIN handles \ {slot} |-> handles[h]]
      /\ ret' = 0
  BY DEF zram_free, Return
<1>4. pool'[slot] = EmptySlot /\ \A s \in Slots \ {slot} : pool'[s] = pool[s]
  BY <1>1, <1>3 DEF ZramInv, ZramTypeOK
<1>free. ~ pool'[slot].used
  BY <1>4 DEF EmptySlot
<1>5. UsedSlots' = UsedSlots \ {slot}
  <2>1. ASSUME NEW s \in Slots PROVE s \in UsedSlots' <=> s \in UsedSlots /\ s # slot
    <3>1. CASE s = slot
      BY <1>free, <3>1 DEF UsedSlots
    <3>2. CASE s # slot
      BY <1>4, <3>2 DEF UsedSlots
    <3> QED BY <3>1, <3>2
  <2> QED BY <2>1 DEF UsedSlots
<1>6. Cardinality(UsedSlots) \in Nat /\ Cardinality(UsedSlots') = Cardinality(UsedSlots) - 1
      /\ Cardinality(UsedSlots') \in Nat
  BY <1>1, <1>5, SlotsAreFinite, FS_RemoveElement, FS_CardinalityType
<1>7. \A s \in UsedSlots' : s \in UsedSlots /\ s # slot /\ s \in Slots /\ pool'[s] = pool[s]
  BY <1>4, <1>5 DEF UsedSlots
<1>8. IsFiniteSet(StoredBytes') /\ Cardinality(StoredBytes') = Cardinality(StoredBytes) - len
      /\ Cardinality(StoredBytes') \in Nat
  <2>1. StoredBytes' = UNION {BytesOf(s, pool'[s].compressed_len) : s \in UsedSlots'}
    BY DEF StoredBytes, BytesOf
  <2>2. StoredBytes = StoredBytes' \cup BytesOf(slot, len)
    BY <1>1, <1>5, <1>7, <2>1, StoredBytesAre
  <2>3. IsFiniteSet(StoredBytes')
    <3>1. IsFiniteSet(StoredBytes)
      BY DEF ZramInv, CountsAgree
    <3>2. StoredBytes' \in SUBSET StoredBytes
      BY <2>2
    <3> QED BY <3>1, <3>2, FS_Subset
  <2>4. \A x \in StoredBytes' : x[1] # slot
    BY <1>7, <2>1 DEF BytesOf
  <2>5. Cardinality(StoredBytes' \cup BytesOf(slot, len)) = Cardinality(StoredBytes') + len
    BY <1>2, <2>3, <2>4, BytesAdded
  <2>6. Cardinality(StoredBytes') \in Nat
    BY <2>3, FS_CardinalityType
  <2> QED BY <1>2, <2>2, <2>3, <2>5, <2>6
<1>9. original = PageSize * Cardinality(UsedSlots') /\ compressed = Cardinality(StoredBytes')
      /\ original \in Nat
  <2>1. PICK n \in Nat : n = Cardinality(UsedSlots')
    BY <1>6
  <2>2. PageSize * (n + 1) = PageSize * n + PageSize /\ PageSize * n \in Nat
    OBVIOUS
  <2> QED BY <1>6, <1>8, <2>1, <2>2 DEF ZramInv, CountsAgree
<1>10. RatioAfterFree(original, compressed) =
         IF UsedSlots' = {} THEN 100 ELSE Ratio(original, compressed)
  <2>1. CASE UsedSlots' = {}
    <3>1. StoredBytes' = {}
      BY <2>1 DEF StoredBytes
    <3>2. compressed = 0
      BY <1>9, <3>1, FS_EmptySet
    <3> QED BY <2>1, <3>2 DEF RatioAfterFree
  <2>2. CASE UsedSlots' # {}
    <3>1. PICK s \in UsedSlots' : TRUE
      BY <2>2
    <3>2. pool'[s].compressed_len >= 1
      BY <1>7 DEF ZramInv, SlotsFilled, UsedSlots
    <3>3. <<s, 1>> \in StoredBytes'
      BY <1>7, <3>2 DEF StoredBytes, ZramInv, ZramTypeOK, SlotRecords
    <3>4. compressed > 0
      BY <1>8, <1>9, <3>3, FS_EmptySet
    <3> QED BY <2>2, <3>4 DEF RatioAfterFree
  <2> QED BY <2>1, <2>2
<1>11. RatioAfterFree(original, compressed) \in Nat
  BY <1>8, <1>9 DEF RatioAfterFree, Ratio
<1> HIDE DEF len, buf, original, compressed
<1>12. ZramTypeOK'
  <2>1. pool' \in [Slots -> SlotRecords]
    BY <1>1, <1>3 DEF ZramInv, ZramTypeOK, SlotRecords, EmptySlot
  <2>2. stats' \in StatRecords
    <3>1. stats.pages_stored - 1 \in Nat
      BY <1>6 DEF ZramInv, CountsAgree
    <3>2. compressed \in Nat
      BY <1>8, <1>9
    <3>3. stats \in StatRecords
      BY DEF ZramInv, ZramTypeOK
    <3> QED BY <1>3, <1>9, <1>11, <3>1, <3>2, <3>3 DEF StatRecords
  <2> QED BY <1>3, <2>1, <2>2 DEF ZramTypeOK
<1>13. SlotsFilled'
  BY <1>4, <1>free DEF ZramInv, SlotsFilled
<1>14. OwnersAgree'
  <2>1. \A s \in UsedSlots' : pool[s].data # buf
    BY <1>1, <1>7 DEF ZramInv, OwnersAgree, buf
  <2>2. DOMAIN heap' = DOMAIN heap \ {buf} /\ DOMAIN handles' = DOMAIN handles \ {slot}
    BY <1>3
  <2>3. {pool'[s].data : s \in UsedSlots'} = {pool[s].data : s \in UsedSlots} \ {buf}
    BY <1>1, <1>5, <1>7, <2>1 DEF buf
  <2>4. \A s \in UsedSlots' : pool'[s].data \in Buffers /\ heap'[pool'[s].data] = handles'[s]
    <3>1. ASSUME NEW s \in UsedSlots'
          PROVE  pool'[s].data \in Buffers /\ heap'[pool'[s].data] = handles'[s]
      <4>1. pool[s].data \in DOMAIN heap' /\ s \in DOMAIN handles'
        BY <1>7, <2>1, <2>2 DEF ZramInv, OwnersAgree
      <4>2. heap'[pool[s].data] = heap[pool[s].data] /\ handles'[s] = handles[s]
        BY <1>3, <4>1
      <4> QED BY <1>7, <4>2 DEF ZramInv, OwnersAgree
    <3> QED BY <3>1
  <2>5. \A s, r \in UsedSlots' : pool'[s].data = pool'[r].data => s = r
    BY <1>7 DEF ZramInv, OwnersAgree
  <2> QED BY <1>5, <2>2, <2>3, <2>4, <2>5 DEF ZramInv, OwnersAgree
<1>15. CountsAgree'
  <2>1. /\ stats'.pages_stored = stats.pages_stored - 1
        /\ stats'.original_bytes = original
        /\ stats'.compressed_bytes = compressed
        /\ stats'.compression_ratio_x100 = RatioAfterFree(original, compressed)
    BY <1>3 DEF ZramInv, ZramTypeOK, StatRecords
  <2> QED BY <1>6, <1>8, <1>9, <1>10, <2>1 DEF ZramInv, CountsAgree
<1> QED
  BY <1>12, <1>13, <1>14, <1>15 DEF ZramInv

\* A call that only counts, or fails, leaves slots, heap and handles alone.
LEMMA OtherInv ==
  ASSUME ZramInv, UNCHANGED <<pool, heap, handles>>, ret' \in -4 .. 0,
         \/ stats' = stats
         \/ stats' = [stats EXCEPT !.total_decompressions = @ + 1]
  PROVE  ZramInv'
<1>1. /\ stats' \in StatRecords
      /\ stats'.pages_stored = stats.pages_stored
      /\ stats'.original_bytes = stats.original_bytes
      /\ stats'.compressed_bytes = stats.compressed_bytes
      /\ stats'.compression_ratio_x100 = stats.compression_ratio_x100
  BY DEF ZramInv, ZramTypeOK, StatRecords
<1>2. UsedSlots' = UsedSlots /\ StoredBytes' = StoredBytes
  BY DEF UsedSlots, StoredBytes
<1> QED
  BY <1>1, <1>2 DEF ZramInv, ZramTypeOK, SlotsFilled, OwnersAgree, CountsAgree

LEMMA ZramInvariance == Spec => []ZramInv
<1>1. Init => ZramInv
  BY ZramInitInv
<1>2. ZramInv /\ [Next]_vars => ZramInv'
  <2> SUFFICES ASSUME ZramInv, [Next]_vars PROVE ZramInv'
    OBVIOUS
  <2>1. CASE \E p \in Pages : zram_store(p)
    BY <2>1, StoreInv
  <2>2. CASE \E handle \in 0 .. MaxPages : zram_free(handle)
    BY <2>2, FreeInv
  <2>3. CASE \E handle \in 0 .. MaxPages : zram_load(handle)
    <3>1. /\ UNCHANGED <<pool, heap, handles>> /\ ret' = 0
          /\ stats' = [stats EXCEPT !.total_decompressions = @ + 1]
      BY <2>3 DEF zram_load, Return
    <3> QED BY <3>1, OtherInv
  <2>4. CASE \/ StoreInvalid \/ StorePoolFull
             \/ \E p \in Pages : StoreIncompressible(p) \/ StoreNoMemory(p)
             \/ \E handle \in 0 .. MaxPages : InvalidHandle(handle)
    <3>1. UNCHANGED <<pool, heap, handles>> /\ stats' = stats /\ ret' \in -4 .. 0
      BY <2>4 DEF StoreInvalid, StorePoolFull, StoreIncompressible, StoreNoMemory,
                  InvalidHandle, Return, Unchanged
    <3> QED BY <3>1, OtherInv
  <2>5. CASE UNCHANGED vars
    <3>1. UNCHANGED <<pool, heap, handles>> /\ stats' = stats /\ ret' \in -4 .. 0
      BY <2>5 DEF vars, ZramInv, ZramTypeOK
    <3> QED BY <3>1, OtherInv
  <2> QED BY <2>1, <2>2, <2>3, <2>4, <2>5 DEF Next
<1> QED
  BY <1>1, <1>2, PTL DEF Spec
-----------------------------------------------------------------------------
\* zram_get_stats copies out what is in the slots: pages, bytes and ratio are exact
\* after every sequence of stores, loads, frees and failures.
THEOREM ZramStatsExact == Spec => []StatsExact
<1>1. ZramInv => StatsExact
  <2> SUFFICES ASSUME ZramInv PROVE StatsExact
    OBVIOUS
  <2>1. TypeOK
    <3>1. ASSUME NEW s \in Slots
          PROVE  /\ pool[s].data \in Buffers \cup {NULL}
                 /\ pool[s].compressed_len \in 0 .. PageSize - Margin - 1
                 /\ pool[s].used \in BOOLEAN
      BY DEF ZramInv, ZramTypeOK, SlotsFilled, SlotRecords, EmptySlot
    <3>2. \A field \in DOMAIN stats : stats[field] \in Nat
      BY DEF ZramInv, ZramTypeOK, StatRecords
    <3>3. DOMAIN heap \subseteq Buffers /\ DOMAIN handles \subseteq Slots
      BY DEF ZramInv, OwnersAgree, UsedSlots
    <3> QED BY <3>1, <3>2, <3>3 DEF ZramInv, ZramTypeOK, TypeOK
  <2> QED BY <2>1 DEF ZramInv, CountsAgree, StatsExact
<1> QED
  BY <1>1, ZramInvariance, PTL

\* A handle finds the page that zram_store put under it, and every buffer that
\* zram.c holds on the heap is the payload of exactly one slot.
THEOREM ZramHandlesKeepTheirPage == Spec => []HandlesKeepTheirPage
<1>1. ZramInv => HandlesKeepTheirPage
  <2> SUFFICES ASSUME ZramInv PROVE HandlesKeepTheirPage
    OBVIOUS
  <2>1. ASSUME NEW b \in DOMAIN heap
        PROVE  Cardinality({s \in UsedSlots : pool[s].data = b}) = 1
    <3>1. PICK s \in UsedSlots : pool[s].data = b
      BY DEF ZramInv, OwnersAgree
    <3>2. {r \in UsedSlots : pool[r].data = b} = {s}
      BY <3>1 DEF ZramInv, OwnersAgree
    <3> QED BY <3>2, FS_Singleton
  <2> QED BY <2>1 DEF ZramInv, OwnersAgree, UsedSlots, HandlesKeepTheirPage
<1> QED
  BY <1>1, ZramInvariance, PTL
=============================================================================
