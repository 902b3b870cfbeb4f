----------------------------- MODULE HeapProofs -----------------------------
(***************************************************************************)
(* Theorems about Heap and their proofs.                                   *)
(*                                                                         *)
(* The inductive invariant of the block table and the free list is HeapInv *)
(* below: the headers of a region tile it, the free list holds the free    *)
(* blocks, no two of which are neighbours, and heap_used counts the bytes  *)
(* of the used ones.  It holds whatever sizes callers ask for, also for    *)
(* those that wrap around in align_up.  OwnInv adds who holds each block   *)
(* and needs sizes that do not wrap.                                       *)
(***************************************************************************)
EXTENDS Heap, KernelLemmas

\* The first address past physical memory.
RAM == TotalFrames * PageSize

\* The header fields that the model keeps.
BlockFields == [size : Nat, used : BOOLEAN, next : Nat, prev : Nat]

\* The address past a block.
Stop(bs, b) == b + Header + bs[b].size

\* bs is a table of headers, none of them at NULL.
Typed(bs) == DOMAIN bs \subseteq Nat \ {NULL} /\ bs \in [DOMAIN bs -> BlockFields]

\* next is the header right behind a block, and the links agree in both directions.
Linked(bs) ==
  /\ \A b \in DOMAIN bs : bs[b].next # NULL =>
       bs[b].next = Stop(bs, b) /\ bs[b].next \in DOMAIN bs /\ bs[bs[b].next].prev = b
  /\ \A b \in DOMAIN bs : bs[b].prev # NULL =>
       bs[b].prev \in DOMAIN bs /\ bs[bs[b].prev].next = b

\* No two blocks overlap.
Apart(bs) ==
  \A b, c \in DOMAIN bs : b # c => Stop(bs, b) <= c \/ Stop(bs, c) <= b

Chained(bs) == Typed(bs) /\ Linked(bs) /\ Apart(bs)

\* A block lies in region r, which it starts or ends where it has no neighbour.
Within(bs, b, r) ==
  /\ r.start <= b /\ Stop(bs, b) <= r.end
  /\ bs[b].next = NULL => Stop(bs, b) = r.end
  /\ bs[b].prev = NULL <=> b = r.start

\* The blocks of bs lie in the regions rs, one of them at the start of each.
Filled(bs, rs) ==
  /\ \A r \in rs : r.start \in DOMAIN bs
  /\ \A b \in DOMAIN bs : \E r \in rs : Within(bs, b, r)

\* The regions lie in RAM, apart from each other.
RegionsApart(rs) ==
  /\ \A r \in rs : r.start \in Nat /\ r.end \in 0 .. RAM /\ r.start < r.end
  /\ \A r, q \in rs : r # q => r.end <= q.start \/ q.end <= r.start

\* The used blocks of a table, and the free ones.
UsedOf(bs) == {b \in DOMAIN bs : bs[b].used}
FreeOf(bs) == {b \in DOMAIN bs : ~bs[b].used}

\* fl holds each free block once.
Listed(bs, fl) == fl \in Seq(Nat) /\ IsInjective(fl) /\ Range(fl) = FreeOf(bs)

\* No two neighbours are free.
NoPair(bs) == \A b \in FreeOf(bs) : bs[b].next # NULL => bs[bs[b].next].used

\* The used blocks are those of bs, at their sizes.
SameUsed(bs, bs2) ==
  UsedOf(bs2) = UsedOf(bs) /\ \A b \in UsedOf(bs) : bs2[b].size = bs[b].size

-----------------------------------------------------------------------------
\* free_list_remove takes a block off the list and leaves the others.
LEMMA ListRemove ==
  ASSUME NEW s \in Seq(Nat), IsInjective(s), NEW e \in Range(s)
  PROVE  /\ RemoveFirst(s, e) \in Seq(Nat) /\ IsInjective(RemoveFirst(s, e))
         /\ Range(RemoveFirst(s, e)) = Range(s) \ {e}
<1> DEFINE I == {i \in 1 .. Len(s) : s[i] = e}
           t == RemoveFirst(s, e)
<1>1. DOMAIN s = 1 .. Len(s) /\ Len(s) \in Nat
  BY LenProperties
<1>2. PICK j \in 1 .. Len(s) : s[j] = e
  BY <1>1 DEF Range
<1>3. I \in SUBSET Nat /\ j \in I
  BY <1>1, <1>2
<1>4. Min(I) \in I
  BY <1>3, MinOfNaturals
<1>5. PICK k \in 1 .. Len(s) :
        s[k] = e /\ t = SubSeq(s, 1, k - 1) \o SubSeq(s, k + 1, Len(s))
  <2>1. t = SubSeq(s, 1, Min(I) - 1) \o SubSeq(s, Min(I) + 1, Len(s))
    BY <1>2 DEF RemoveFirst, RemoveAt, SelectInSeq
  <2> QED BY <1>4, <2>1
<1> HIDE DEF I
<1>6. PICK N : N = Len(s)
  OBVIOUS
<1>7. /\ N \in Nat /\ k \in 1 .. N /\ DOMAIN s = 1 .. N
      /\ \A i \in 1 .. N : s[i] \in Nat
      /\ \A i, l \in 1 .. N : s[i] = s[l] => i = l
  BY <1>1, <1>6, ElementOfSeq DEF IsInjective
<1>8. PICK u : u = SubSeq(s, 1, k - 1)
  OBVIOUS
<1>9. PICK v : v = SubSeq(s, k + 1, N)
  OBVIOUS
<1>10. u \in Seq(Nat) /\ Len(u) = k - 1 /\ \A i \in 1 .. k - 1 : u[i] = s[i]
  <2>1. 1 \in Int /\ k - 1 \in Int /\ \A i \in 1 .. k - 1 : s[i] \in Nat
    BY ONLY <1>7
  <2>2. /\ u \in Seq(Nat) /\ Len(u) = IF 1 <= k - 1 THEN k - 1 - 1 + 1 ELSE 0
        /\ \A i \in 1 .. k - 1 - 1 + 1 : u[i] = s[1 + i - 1]
    BY ONLY <1>8, <2>1, SubSeqProperties
  <2> QED BY ONLY <1>7, <2>2
<1>11. v \in Seq(Nat) /\ Len(v) = N - k /\ \A i \in 1 .. N - k : v[i] = s[k + i]
  <2>1. k + 1 \in Int /\ N \in Int /\ \A i \in k + 1 .. N : s[i] \in Nat
    BY ONLY <1>7
  <2>2. /\ v \in Seq(Nat) /\ Len(v) = IF k + 1 <= N THEN N - (k + 1) + 1 ELSE 0
        /\ \A i \in 1 .. N - (k + 1) + 1 : v[i] = s[k + 1 + i - 1]
    BY ONLY <1>9, <2>1, SubSeqProperties
  <2> QED BY ONLY <1>7, <2>2
<1>12. t \in Seq(Nat) /\ Len(t) = N - 1
       /\ \A i \in 1 .. N - 1 : t[i] = IF i <= k - 1 THEN u[i] ELSE v[i - (k - 1)]
  <2>1. t = u \o v
    BY <1>5, <1>6, <1>8, <1>9
  <2>2. /\ u \o v \in Seq(Nat) /\ Len(u \o v) = Len(u) + Len(v)
        /\ \A i \in 1 .. Len(u) + Len(v) :
             (u \o v)[i] = IF i <= Len(u) THEN u[i] ELSE v[i - Len(u)]
    BY ONLY <1>10, <1>11, ConcatProperties
  <2>3. Len(u) + Len(v) = N - 1
    BY ONLY <1>7, <1>10, <1>11
  <2> HIDE DEF t
  <2> QED BY ONLY <1>10, <2>1, <2>2, <2>3
<1>13. DOMAIN t = 1 .. N - 1
  BY <1>12, LenProperties
<1> HIDE DEF t
<1>14. \A i \in 1 .. N - 1 : t[i] = IF i < k THEN s[i] ELSE s[i + 1]
  <2> SUFFICES ASSUME NEW i \in 1 .. N - 1
               PROVE  t[i] = IF i < k THEN s[i] ELSE s[i + 1]
    OBVIOUS
  <2>1. CASE i < k
    BY ONLY <1>7, <1>10, <1>12, <2>1
  <2>2. CASE ~(i < k)
    <3>1. i - (k - 1) \in 1 .. N - k /\ k + (i - (k - 1)) = i + 1 /\ ~(i <= k - 1)
      BY ONLY <1>7, <2>2
    <3> QED BY ONLY <1>11, <1>12, <2>2, <3>1
  <2> QED BY <2>1, <2>2
<1>15. ASSUME NEW i \in 1 .. N - 1
       PROVE  \E l \in 1 .. N : l # k /\ t[i] = s[l] /\ l = IF i < k THEN i ELSE i + 1
  BY ONLY <1>7, <1>14
<1>16. ASSUME NEW i \in 1 .. N, i # k
       PROVE  \E l \in 1 .. N - 1 : t[l] = s[i]
  <2>1. CASE i < k
    <3>1. i \in 1 .. N - 1
      BY ONLY <1>7, <2>1
    <3> QED BY ONLY <1>14, <2>1, <3>1
  <2>2. CASE k < i
    <3>1. i - 1 \in 1 .. N - 1 /\ ~(i - 1 < k) /\ i - 1 + 1 = i
      BY ONLY <1>7, <2>2
    <3> QED BY ONLY <1>14, <3>1
  <2> QED BY ONLY <1>7, <1>16, <2>1, <2>2
<1>17. ASSUME NEW i \in DOMAIN t, NEW l \in DOMAIN t, t[i] = t[l]
       PROVE  i = l
  <2>1. PICK p \in 1 .. N : t[i] = s[p] /\ p = IF i < k THEN i ELSE i + 1
    BY ONLY <1>13, <1>15
  <2>2. PICK q \in 1 .. N : t[l] = s[q] /\ q = IF l < k THEN l ELSE l + 1
    BY ONLY <1>13, <1>15
  <2>3. p = q
    BY ONLY <1>7, <1>17, <2>1, <2>2
  <2>4. i \in Int /\ l \in Int /\ k \in Int
    BY ONLY <1>7, <1>13
  <2>5. (IF i < k THEN i ELSE i + 1) = (IF l < k THEN l ELSE l + 1)
    BY ONLY <2>1, <2>2, <2>3
  <2> QED BY ONLY <2>4, <2>5
<1>18. Range(t) \subseteq Range(s) \ {e}
  <2>1. ASSUME NEW i \in DOMAIN t PROVE t[i] \in Range(s) \ {e}
    <3>1. PICK l \in 1 .. N : l # k /\ t[i] = s[l]
      BY ONLY <1>13, <1>15
    <3> QED BY ONLY <1>5, <1>7, <3>1 DEF Range
  <2> QED BY ONLY <2>1 DEF Range
<1>19. Range(s) \ {e} \subseteq Range(t)
  <2>1. ASSUME NEW i \in 1 .. N, s[i] # e PROVE s[i] \in Range(t)
    BY ONLY <1>5, <1>13, <1>16, <2>1 DEF Range
  <2> QED BY ONLY <1>7, <2>1 DEF Range
<1> QED
  BY <1>12, <1>17, <1>18, <1>19 DEF t, IsInjective

\* What the proofs use of the constants.
LEMMA Constants ==
  /\ {Align, Header, MinSplit, PageSize, TotalFrames, SizeMod} \subseteq Nat \ {0}
  /\ PointerSize \in Nat /\ Header <= PageSize
  /\ RAM \in Nat /\ RAM + Header + MinSplit < SizeMod
<1>1. PICK t \in Nat, p \in Nat : t = TotalFrames /\ p = PageSize
  BY HeapAssumption
<1>2. t * p \in Nat
  BY ONLY <1>1
<1> QED
  BY <1>1, <1>2, HeapAssumption DEF RAM

USE Constants DEF NULL

\* m is the block table bs after block b has swallowed its right neighbour n.
Merged(bs, b, n, m) ==
  /\ n \in DOMAIN bs /\ n # b /\ n = Stop(bs, b) /\ bs[n].next # n /\ bs[n].next # b
  /\ bs[n].prev = b
  /\ DOMAIN m = DOMAIN bs \ {n} /\ m \in [DOMAIN m -> BlockFields]
  /\ \A c \in DOMAIN m :
       /\ m[c].size = IF c = b THEN bs[b].size + Header + bs[n].size ELSE bs[c].size
       /\ m[c].used = bs[c].used
       /\ m[c].next = IF c = b THEN bs[n].next ELSE bs[c].next
       /\ m[c].prev = IF bs[n].next # NULL /\ c = bs[n].next THEN b ELSE bs[c].prev

\* MergeNext writes the fields that Merged names and no others.
LEMMA MergeFields ==
  ASSUME NEW bs, Chained(bs), NEW b \in DOMAIN bs, bs[b].next # NULL,
         NEW n, n = bs[b].next
  PROVE  Merged(bs, b, n, MergeNext(bs, b))
<1> DEFINE nn == bs[n].next
           grown == [bs EXCEPT ![b].size = @ + Header + bs[n].size, ![b].next = bs[n].next]
           linked == LinkBack(grown, nn, b)
           m == MergeNext(bs, b)
<1>1. /\ bs \in [DOMAIN bs -> BlockFields] /\ b \in Nat \ {0} /\ DOMAIN bs \subseteq Nat
      /\ n \in DOMAIN bs /\ n = Stop(bs, b) /\ bs[n].prev = b /\ n \in Nat
      /\ bs[b] \in BlockFields /\ bs[n] \in BlockFields
  BY DEF Chained, Typed, Linked
<1>2. n # b
  BY <1>1 DEF Stop, BlockFields
<1>3. nn # NULL => nn \in DOMAIN bs /\ nn = Stop(bs, n) /\ bs[nn].prev = n
  BY <1>1 DEF Chained, Linked
<1>4. nn # n /\ nn # b
  <2>1. nn # NULL => nn > n /\ n > b
    BY <1>1, <1>3 DEF Stop, BlockFields
  <2> QED BY <2>1, <1>1
<1>5. m = [a \in DOMAIN bs \ {n} |-> linked[a]]
  BY DEF MergeNext
<1>6. /\ DOMAIN grown = DOMAIN bs
      /\ grown[b] = [bs[b] EXCEPT !.size = @ + Header + bs[n].size, !.next = nn]
      /\ \A c \in DOMAIN bs \ {b} : grown[c] = bs[c]
  OBVIOUS
<1> HIDE DEF grown
<1>7. /\ DOMAIN linked = DOMAIN bs
      /\ \A c \in DOMAIN bs :
           linked[c] = IF nn # NULL /\ c = nn THEN [bs[c] EXCEPT !.prev = b] ELSE grown[c]
  BY <1>1, <1>3, <1>4, <1>6 DEF LinkBack
<1> HIDE DEF linked, m
<1>8. DOMAIN m = DOMAIN bs \ {n}
  BY <1>5
<1>9. ASSUME NEW c \in DOMAIN m
      PROVE  /\ m[c] \in BlockFields
             /\ m[c].size = IF c = b THEN bs[b].size + Header + bs[n].size ELSE bs[c].size
             /\ m[c].used = bs[c].used
             /\ m[c].next = IF c = b THEN nn ELSE bs[c].next
             /\ m[c].prev = IF nn # NULL /\ c = nn THEN b ELSE bs[c].prev
  <2>1. bs[c] \in BlockFields /\ m[c] = linked[c] /\ c \in DOMAIN bs
    BY <1>1, <1>5, <1>8
  <2>2. CASE c = b
    <3>1. m[c] = [bs[b] EXCEPT !.size = @ + Header + bs[n].size, !.next = nn]
      BY <1>4, <1>6, <1>7, <2>1, <2>2
    <3>2. /\ m[c].size = bs[b].size + Header + bs[n].size /\ m[c].used = bs[b].used
          /\ m[c].next = nn /\ m[c].prev = bs[b].prev
          /\ m[c] \in BlockFields
      <4>1. PICK r \in BlockFields : r = bs[b]
        BY <1>1
      <4>2. PICK x \in Nat : x = bs[b].size + Header + bs[n].size
        BY <1>1 DEF BlockFields
      <4>3. PICK y \in Nat : y = nn
        BY <1>1 DEF BlockFields
      <4>4. m[c] = [r EXCEPT !.size = x, !.next = y]
        BY <3>1, <4>1, <4>2, <4>3
      <4> QED BY <4>1, <4>2, <4>3, <4>4 DEF BlockFields
    <3> QED BY <1>4, <2>2, <3>2
  <2>3. CASE nn # NULL /\ c = nn
    <3>1. m[c] = [bs[c] EXCEPT !.prev = b]
      BY <1>7, <2>1, <2>3
    <3> QED BY <1>1, <1>4, <2>1, <2>3, <3>1 DEF BlockFields
  <2>4. CASE c # b /\ ~(nn # NULL /\ c = nn)
    BY <1>6, <1>7, <2>1, <2>4
  <2> QED BY <2>2, <2>3, <2>4
<1>10. m \in [DOMAIN m -> BlockFields]
  <2>1. m = [c \in DOMAIN m |-> m[c]]
    BY <1>5, <1>8
  <2> QED BY <2>1, <1>9
<1> QED
  BY <1>1, <1>2, <1>4, <1>8, <1>9, <1>10 DEF m, Merged

\* Two blocks that are neighbours lie in the same region.
LEMMA NeighboursShareRegion ==
  ASSUME NEW bs, Chained(bs), NEW rs, RegionsApart(rs), NEW b \in DOMAIN bs,
         bs[b].next # NULL, NEW r \in rs, Within(bs, b, r),
         NEW q \in rs, Within(bs, bs[b].next, q)
  PROVE  q = r
<1>1. PICK n \in DOMAIN bs : n = bs[b].next /\ n = Stop(bs, b) /\ bs[n].prev = b
  BY DEF Chained, Linked
<1>2. /\ b \in Nat \ {0} /\ n \in Nat \ {0}
      /\ bs[b].size \in Nat /\ bs[n].size \in Nat
  BY <1>1 DEF Chained, Typed, BlockFields
<1>3. r.start <= b /\ Stop(bs, b) <= r.end
  BY DEF Within
<1>4. q.start <= n /\ Stop(bs, n) <= q.end /\ n # q.start
  BY <1>1, <1>2 DEF Within
<1>5. /\ r.start \in Nat /\ r.end \in Nat /\ q.start \in Nat /\ q.end \in Nat
      /\ r # q => r.end <= q.start \/ q.end <= r.start
  BY DEF RegionsApart
<1> QED
  BY <1>1, <1>2, <1>3, <1>4, <1>5 DEF Stop

\* Coalescing keeps the chain of headers,
LEMMA MergeChained ==
  ASSUME NEW bs, Chained(bs), NEW b \in DOMAIN bs, bs[b].next # NULL
  PROVE  Chained(MergeNext(bs, b))
<1>1. PICK n : n = bs[b].next
  OBVIOUS
<1>2. PICK m : m = MergeNext(bs, b)
  OBVIOUS
<1>3. Merged(bs, b, n, m)
  BY <1>1, <1>2, MergeFields
<1> USE <1>3 DEF Merged
<1>4. /\ \A c \in DOMAIN bs : c \in Nat \ {0} /\ bs[c].size \in Nat
      /\ \A c \in DOMAIN bs : bs[c].next # NULL =>
           bs[c].next = Stop(bs, c) /\ bs[c].next \in DOMAIN bs /\ bs[bs[c].next].prev = c
      /\ \A c \in DOMAIN bs : bs[c].prev # NULL =>
           bs[c].prev \in DOMAIN bs /\ bs[bs[c].prev].next = c
      /\ \A c, d \in DOMAIN bs : c # d => Stop(bs, c) <= d \/ Stop(bs, d) <= c
  BY DEF Chained, Typed, Linked, Apart, BlockFields
<1>5. Typed(m)
  BY <1>3 DEF Typed, Chained
<1>6. \A c \in DOMAIN m : Stop(m, c) = IF c = b THEN Stop(bs, n) ELSE Stop(bs, c)
  BY <1>3, <1>4 DEF Stop
<1>7. Apart(m)
  <2> SUFFICES ASSUME NEW c \in DOMAIN m, NEW d \in DOMAIN m, c # d
               PROVE  Stop(m, c) <= d \/ Stop(m, d) <= c
    BY DEF Apart
  <2>1. /\ c \in DOMAIN bs /\ d \in DOMAIN bs /\ c # n /\ d # n /\ n \in DOMAIN bs
        /\ Stop(bs, c) <= d \/ Stop(bs, d) <= c
        /\ Stop(bs, c) <= n \/ Stop(bs, n) <= c
        /\ Stop(bs, d) <= n \/ Stop(bs, n) <= d
    BY <1>3, <1>4
  <2>2. /\ Stop(bs, c) \in Nat /\ Stop(bs, c) > c /\ Stop(bs, d) \in Nat /\ Stop(bs, d) > d
        /\ n \in Nat /\ c \in Nat /\ d \in Nat
    BY <1>3, <1>4, <2>1 DEF Stop
  <2>3. CASE c = b
    BY <1>3, <1>6, <2>1, <2>2, <2>3
  <2>4. CASE d = b
    BY <1>3, <1>6, <2>1, <2>2, <2>4
  <2>5. CASE c # b /\ d # b
    BY <1>6, <2>1, <2>5
  <2> QED BY <2>3, <2>4, <2>5
<1>8. ASSUME NEW c \in DOMAIN m, m[c].next # NULL
      PROVE  m[c].next = Stop(m, c) /\ m[c].next \in DOMAIN m /\ m[m[c].next].prev = c
  <2>1. CASE c = b
    <3>1. m[c].next = bs[n].next /\ bs[n].next # NULL /\ bs[n].next \in DOMAIN m
      BY <1>3, <1>4, <1>8, <2>1
    <3> QED BY <1>3, <1>4, <1>6, <2>1, <3>1
  <2>2. CASE c # b
    <3>1. m[c].next = bs[c].next /\ bs[c].next \in DOMAIN bs /\ bs[bs[c].next].prev = c
      BY <1>3, <1>4, <1>8, <2>2
    <3>2. bs[c].next # n /\ (bs[n].next # NULL => bs[c].next # bs[n].next)
      BY <1>3, <1>4, <2>2, <3>1
    <3> QED BY <1>3, <1>4, <1>6, <1>8, <2>2, <3>1, <3>2
  <2> QED BY <2>1, <2>2
<1>9. ASSUME NEW c \in DOMAIN m, m[c].prev # NULL
      PROVE  m[c].prev \in DOMAIN m /\ m[m[c].prev].next = c
  <2>1. CASE bs[n].next # NULL /\ c = bs[n].next
    BY <1>3, <2>1
  <2>2. CASE ~(bs[n].next # NULL /\ c = bs[n].next)
    <3>1. /\ m[c].prev = bs[c].prev /\ bs[c].prev \in DOMAIN bs
          /\ bs[bs[c].prev].next = c /\ c # n /\ c \in DOMAIN bs /\ c # NULL
      BY <1>3, <1>4, <1>9, <2>2
    <3>2. bs[c].prev # n /\ bs[c].prev # b
      BY <1>1, <1>3, <2>2, <3>1
    <3> QED BY <1>3, <3>1, <3>2
  <2> QED BY <2>1, <2>2
<1> QED
  BY <1>2, <1>5, <1>7, <1>8, <1>9 DEF Chained, Linked

\* and leaves no gap in the region.
LEMMA MergeFilled ==
  ASSUME NEW bs, Chained(bs), NEW b \in DOMAIN bs, bs[b].next # NULL,
         NEW rs, RegionsApart(rs), Filled(bs, rs)
  PROVE  Filled(MergeNext(bs, b), rs)
<1>1. PICK n : n = bs[b].next
  OBVIOUS
<1>2. PICK m : m = MergeNext(bs, b)
  OBVIOUS
<1>3. Merged(bs, b, n, m)
  BY <1>1, <1>2, MergeFields
<1> USE <1>3 DEF Merged
<1>4. /\ \A c \in DOMAIN bs : c \in Nat \ {0} /\ bs[c].size \in Nat
      /\ \A c \in DOMAIN bs : bs[c].next # NULL =>
           bs[c].next = Stop(bs, c) /\ bs[c].next \in DOMAIN bs /\ bs[bs[c].next].prev = c
  BY DEF Chained, Typed, Linked, BlockFields
<1>5. PICK r \in rs : Within(bs, b, r)
  BY DEF Filled
<1>6. PICK q \in rs : Within(bs, n, q)
  BY <1>3 DEF Filled
<1>7. q = r
  BY <1>1, <1>5, <1>6, NeighboursShareRegion
<1>8. \A c \in DOMAIN m : Stop(m, c) = IF c = b THEN Stop(bs, n) ELSE Stop(bs, c)
  BY <1>3, <1>4 DEF Stop
<1>9. ASSUME NEW z \in rs PROVE z.start \in DOMAIN m
  <2>1. z.start # n
    <3>1. CASE z = r
      BY <1>3, <1>4, <1>6, <1>7, <3>1 DEF Within
    <3>2. CASE z # r
      <4>1. /\ z.start \in Nat /\ z.end \in Nat /\ z.start < z.end
            /\ r.start \in Nat /\ r.end \in Nat
            /\ z.end <= r.start \/ r.end <= z.start
        BY <3>2 DEF RegionsApart
      <4>2. /\ r.start <= n /\ Stop(bs, n) <= r.end /\ n \in Nat /\ Stop(bs, n) > n
            /\ Stop(bs, n) \in Nat
        BY <1>3, <1>4, <1>6, <1>7 DEF Within, Stop
      <4> QED BY <4>1, <4>2
    <3> QED BY <3>1, <3>2
  <2> QED BY <1>3, <2>1 DEF Filled
<1>10. ASSUME NEW c \in DOMAIN m PROVE \E z \in rs : Within(m, c, z)
  <2>1. CASE c = b
    <3>1. Within(m, b, r)
      <4>1. r.start <= b /\ (bs[b].prev = NULL <=> b = r.start)
        BY <1>5 DEF Within
      <4>2. Stop(bs, n) <= r.end /\ (bs[n].next = NULL => Stop(bs, n) = r.end)
        BY <1>6, <1>7 DEF Within
      <4> QED BY <1>3, <1>8, <2>1, <4>1, <4>2 DEF Within
    <3> QED BY <2>1, <3>1
  <2>2. CASE c # b
    <3>1. PICK z \in rs : Within(bs, c, z)
      BY <1>3 DEF Filled
    <3>2. m[c].prev = NULL <=> bs[c].prev = NULL
      BY <1>3, <1>4
    <3>3. Within(m, c, z)
      BY <1>3, <1>8, <2>2, <3>1, <3>2 DEF Within
    <3> QED BY <3>3
  <2> QED BY <2>1, <2>2
<1> QED
  BY <1>2, <1>9, <1>10 DEF Filled

\* Only the block that is swallowed is no longer a free one.
LEMMA MergeUsed ==
  ASSUME NEW bs, Chained(bs), NEW b \in DOMAIN bs, bs[b].next # NULL,
         ~bs[b].used, ~bs[bs[b].next].used
  PROVE  /\ FreeOf(MergeNext(bs, b)) = FreeOf(bs) \ {bs[b].next}
         /\ SameUsed(bs, MergeNext(bs, b))
<1>1. PICK n : n = bs[b].next
  OBVIOUS
<1>2. PICK m : m = MergeNext(bs, b)
  OBVIOUS
<1>3. Merged(bs, b, n, m)
  BY <1>1, <1>2, MergeFields
<1> USE <1>3 DEF Merged
<1>4. FreeOf(m) = FreeOf(bs) \ {n}
  BY DEF FreeOf
<1>5. SameUsed(bs, m)
  BY <1>1 DEF SameUsed, UsedOf
<1> QED
  BY <1>1, <1>2, <1>4, <1>5

\* m is the block table bs after the used flag of block b was set to u.
Marked(bs, b, u, m) ==
  /\ DOMAIN m = DOMAIN bs /\ Chained(m)
  /\ \A c \in DOMAIN bs :
       /\ m[c].size = bs[c].size /\ m[c].next = bs[c].next /\ m[c].prev = bs[c].prev
       /\ m[c].used = IF c = b THEN u ELSE bs[c].used

\* Setting the used flag of b.
MarkAs(bs, b, u) == [bs EXCEPT ![b].used = u]

\* The used flag is no part of the chain: links, sizes and regions stay.
LEMMA MarkFields ==
  ASSUME NEW bs, Chained(bs), NEW b \in DOMAIN bs, NEW u \in BOOLEAN
  PROVE  /\ Marked(bs, b, u, MarkAs(bs, b, u))
         /\ \A rs : Filled(bs, rs) => Filled(MarkAs(bs, b, u), rs)
<1> DEFINE m == MarkAs(bs, b, u)
<1> USE DEF MarkAs
<1>1. DOMAIN m = DOMAIN bs
  OBVIOUS
<1>2. ASSUME NEW c \in DOMAIN bs
      PROVE  /\ m[c].size = bs[c].size /\ m[c].next = bs[c].next /\ m[c].prev = bs[c].prev
             /\ m[c].used = IF c = b THEN u ELSE bs[c].used
             /\ m[c] \in BlockFields
  <2>1. PICK r \in BlockFields : r = bs[c]
    BY DEF Chained, Typed
  <2>2. CASE c = b
    <3>1. m[c] = [r EXCEPT !.used = u]
      BY <2>1, <2>2
    <3> QED BY <2>1, <2>2, <3>1 DEF BlockFields
  <2>3. CASE c # b
    BY <2>1, <2>3
  <2> QED BY <2>2, <2>3
<1>3. Typed(m)
  <2>1. m = [c \in DOMAIN m |-> m[c]]
    OBVIOUS
  <2> QED BY <1>1, <1>2, <2>1 DEF Chained, Typed
<1>4. \A c \in DOMAIN bs : Stop(m, c) = Stop(bs, c)
  BY <1>2 DEF Stop
<1>5. Linked(m)
  <2>1. ASSUME NEW c \in DOMAIN m, m[c].next # NULL
        PROVE  m[c].next = Stop(m, c) /\ m[c].next \in DOMAIN m /\ m[m[c].next].prev = c
    <3>1. /\ m[c].next = bs[c].next /\ bs[c].next = Stop(bs, c)
          /\ bs[c].next \in DOMAIN bs /\ bs[bs[c].next].prev = c
      BY <1>1, <1>2, <2>1 DEF Chained, Linked
    <3> QED BY <1>1, <1>2, <1>4, <3>1
  <2>2. ASSUME NEW c \in DOMAIN m, m[c].prev # NULL
        PROVE  m[c].prev \in DOMAIN m /\ m[m[c].prev].next = c
    <3>1. m[c].prev = bs[c].prev /\ bs[c].prev \in DOMAIN bs /\ bs[bs[c].prev].next = c
      BY <1>1, <1>2, <2>2 DEF Chained, Linked
    <3> QED BY <1>1, <1>2, <3>1
  <2> QED BY <2>1, <2>2 DEF Linked
<1>6. Apart(m)
  BY <1>1, <1>4 DEF Chained, Apart
<1> HIDE DEF m, MarkAs
<1>7. ASSUME NEW rs, Filled(bs, rs) PROVE Filled(m, rs)
  <2>1. \A c \in DOMAIN bs, r \in rs : Within(bs, c, r) => Within(m, c, r)
    BY <1>2, <1>4 DEF Within
  <2> QED BY <1>1, <1>7, <2>1 DEF Filled
<1> QED
  BY <1>1, <1>2, <1>3, <1>5, <1>6, <1>7 DEF Chained, Marked, m

\* m is the block table bs after block b was cut at s.
Cut(bs, b, size, s, m) ==
  /\ s = b + Header + size /\ s \in Nat \ {0} /\ s \notin DOMAIN bs
  /\ bs[b].next # s /\ bs[b].next # b /\ s # b
  /\ DOMAIN m = DOMAIN bs \cup {s} /\ m \in [DOMAIN m -> BlockFields]
  /\ \A c \in DOMAIN m :
       /\ m[c].size = IF c = s THEN bs[b].size - size - Header
                      ELSE IF c = b THEN size ELSE bs[c].size
       /\ m[c].used = IF c = s THEN FALSE ELSE bs[c].used
       /\ m[c].next = IF c = s THEN bs[b].next ELSE IF c = b THEN s ELSE bs[c].next
       /\ m[c].prev = IF c = s THEN b
                      ELSE IF bs[b].next # NULL /\ c = bs[b].next THEN s ELSE bs[c].prev

\* kmalloc's split writes these fields.
LEMMA SplitFields ==
  ASSUME Chained(blocks), NEW b \in DOMAIN blocks, NEW size \in Nat,
         size + Header <= blocks[b].size
  PROVE  Cut(blocks, b, size, Payload(b) + size, Split(b, size))
<1> DEFINE nn == blocks[b].next
           cut == [blocks EXCEPT ![b].size = size, ![b].next = Payload(b) + size]
           rest == [size |-> blocks[b].size - size - Header, used |-> FALSE, next |-> nn, prev |-> b]
           put == Put(cut, Payload(b) + size, rest)
           m == Split(b, size)
<1>1. PICK s : s = Payload(b) + size
  OBVIOUS
<1>2. /\ b \in Nat \ {0} /\ DOMAIN blocks \subseteq Nat \ {0} /\ blocks[b].size \in Nat
      /\ nn \in Nat /\ s \in Nat \ {0} /\ s = b + Header + size
      /\ \A c \in DOMAIN blocks : blocks[c] \in BlockFields /\ blocks[c].size \in Nat
  BY <1>1 DEF Chained, Typed, BlockFields, Payload
<1>3. s \notin DOMAIN blocks /\ s # b
  <2>1. ASSUME NEW c \in DOMAIN blocks, c = s PROVE FALSE
    <3>1. c # b /\ (Stop(blocks, b) <= c \/ Stop(blocks, c) <= b)
      <4>1. c # b
        BY <1>2, <2>1
      <4> QED BY <4>1 DEF Chained, Apart
    <3> QED BY <1>2, <2>1, <3>1 DEF Stop
  <2> QED BY <2>1
<1>4. nn # NULL => nn \in DOMAIN blocks /\ nn = Stop(blocks, b)
  BY DEF Chained, Linked
<1>5. nn # s /\ nn # b
  BY <1>2, <1>3, <1>4 DEF Stop
<1>6. /\ DOMAIN cut = DOMAIN blocks
      /\ cut[b] = [blocks[b] EXCEPT !.size = size, !.next = s]
      /\ \A c \in DOMAIN blocks \ {b} : cut[c] = blocks[c]
  BY <1>1
<1>7. rest \in BlockFields
  BY <1>2 DEF BlockFields
<1>8. m = LinkBack(put, nn, s)
  BY <1>1 DEF Split
<1>9. /\ DOMAIN put = DOMAIN blocks \cup {s}
      /\ \A c \in DOMAIN put : put[c] = IF c = s THEN rest ELSE cut[c]
  BY <1>1, <1>6 DEF Put
<1> HIDE DEF cut
<1>10. \A c \in DOMAIN put :
         /\ put[c] \in BlockFields
         /\ put[c].size = IF c = s THEN blocks[b].size - size - Header
                          ELSE IF c = b THEN size ELSE blocks[c].size
         /\ put[c].used = IF c = s THEN FALSE ELSE blocks[c].used
         /\ put[c].next = IF c = s THEN nn ELSE IF c = b THEN s ELSE blocks[c].next
         /\ put[c].prev = IF c = s THEN b ELSE blocks[c].prev
  <2> SUFFICES ASSUME NEW c \in DOMAIN put
               PROVE  /\ put[c] \in BlockFields
                      /\ put[c].size = IF c = s THEN blocks[b].size - size - Header
                                       ELSE IF c = b THEN size ELSE blocks[c].size
                      /\ put[c].used = IF c = s THEN FALSE ELSE blocks[c].used
                      /\ put[c].next = IF c = s THEN nn ELSE IF c = b THEN s ELSE blocks[c].next
                      /\ put[c].prev = IF c = s THEN b ELSE blocks[c].prev
    OBVIOUS
  <2>1. CASE c = s
    <3>1. put[c] = rest
      BY <1>9, <2>1
    <3>2. /\ rest.size = blocks[b].size - size - Header /\ rest.used = FALSE
          /\ rest.next = nn /\ rest.prev = b
      OBVIOUS
    <3> HIDE DEF rest, put
    <3> QED BY <1>7, <2>1, <3>1, <3>2
  <2>2. CASE c = b
    <3>1. PICK r \in BlockFields : r = blocks[b]
      BY <1>2
    <3>2. put[c] = [r EXCEPT !.size = size, !.next = s]
      BY <1>3, <1>6, <1>9, <2>2, <3>1
    <3> QED BY <1>2, <1>3, <2>2, <3>1, <3>2 DEF BlockFields
  <2>3. CASE c # s /\ c # b
    BY <1>2, <1>6, <1>9, <2>3
  <2> QED BY <2>1, <2>2, <2>3
<1> HIDE DEF put, rest, m
<1>11. /\ DOMAIN m = DOMAIN put
       /\ \A c \in DOMAIN put :
            m[c] = IF nn # NULL /\ c = nn THEN [put[c] EXCEPT !.prev = s] ELSE put[c]
       /\ m = [c \in DOMAIN m |-> m[c]]
  BY <1>8, <1>9, <1>10 DEF LinkBack, put, Put
<1>12. ASSUME NEW c \in DOMAIN m
       PROVE  /\ m[c] \in BlockFields
              /\ m[c].size = put[c].size /\ m[c].used = put[c].used /\ m[c].next = put[c].next
              /\ m[c].prev = IF nn # NULL /\ c = nn THEN s ELSE put[c].prev
  <2>1. PICK r \in BlockFields : r = put[c]
    BY <1>10, <1>11
  <2>2. CASE nn # NULL /\ c = nn
    <3>1. m[c] = [r EXCEPT !.prev = s]
      BY <1>11, <2>1, <2>2
    <3> QED BY <1>2, <2>1, <2>2, <3>1 DEF BlockFields
  <2>3. CASE ~(nn # NULL /\ c = nn)
    BY <1>11, <2>1, <2>3
  <2> QED BY <2>2, <2>3
<1>13. m \in [DOMAIN m -> BlockFields]
  BY <1>11, <1>12
<1>14. ASSUME NEW c \in DOMAIN m
       PROVE  /\ m[c].size = IF c = s THEN blocks[b].size - size - Header
                             ELSE IF c = b THEN size ELSE blocks[c].size
              /\ m[c].used = IF c = s THEN FALSE ELSE blocks[c].used
              /\ m[c].next = IF c = s THEN nn ELSE IF c = b THEN s ELSE blocks[c].next
              /\ m[c].prev = IF c = s THEN b
                             ELSE IF nn # NULL /\ c = nn THEN s ELSE blocks[c].prev
  <2>1. /\ m[c].size = put[c].size /\ m[c].used = put[c].used /\ m[c].next = put[c].next
        /\ m[c].prev = IF nn # NULL /\ c = nn THEN s ELSE put[c].prev
    BY <1>12
  <2>2. /\ put[c].size = IF c = s THEN blocks[b].size - size - Header
                          ELSE IF c = b THEN size ELSE blocks[c].size
        /\ put[c].used = IF c = s THEN FALSE ELSE blocks[c].used
        /\ put[c].next = IF c = s THEN nn ELSE IF c = b THEN s ELSE blocks[c].next
        /\ put[c].prev = IF c = s THEN b ELSE blocks[c].prev
    BY <1>10, <1>11
  <2> QED BY ONLY <1>5, <2>1, <2>2
<1>15. DOMAIN m = DOMAIN blocks \cup {s}
  BY <1>9, <1>11
<1>16. Cut(blocks, b, size, s, m)
  BY <1>2, <1>3, <1>5, <1>13, <1>14, <1>15 DEF Cut
<1> QED
  BY <1>1, <1>16 DEF m

\* Cutting a block keeps the chain of headers,
LEMMA CutChained ==
  ASSUME NEW bs, Chained(bs), NEW b \in DOMAIN bs, NEW size \in Nat,
         size + Header <= bs[b].size, NEW s, NEW m, Cut(bs, b, size, s, m)
  PROVE  /\ Chained(m)
         /\ \A c \in DOMAIN bs : Stop(m, c) = IF c = b THEN s ELSE Stop(bs, c)
         /\ Stop(m, s) = Stop(bs, b)
<1> USE DEF Cut
<1>1. /\ \A c \in DOMAIN bs : c \in Nat \ {0} /\ bs[c].size \in Nat
      /\ \A c \in DOMAIN bs : bs[c].next # NULL =>
           bs[c].next = Stop(bs, c) /\ bs[c].next \in DOMAIN bs /\ bs[bs[c].next].prev = c
      /\ \A c \in DOMAIN bs : bs[c].prev # NULL =>
           bs[c].prev \in DOMAIN bs /\ bs[bs[c].prev].next = c
      /\ \A c, d \in DOMAIN bs : c # d => Stop(bs, c) <= d \/ Stop(bs, d) <= c
  BY DEF Chained, Typed, Linked, Apart, BlockFields
<1>2. Typed(m)
  BY <1>1 DEF Typed
<1>3. \A c \in DOMAIN bs : Stop(m, c) = IF c = b THEN s ELSE Stop(bs, c)
  BY <1>1 DEF Stop
<1>4. Stop(m, s) = Stop(bs, b) /\ b < s /\ s < Stop(bs, b)
  <2>1. s \in DOMAIN m /\ m[s].size = bs[b].size - size - Header /\ s = b + Header + size
    OBVIOUS
  <2>2. bs[b].size \in Nat /\ b \in Nat /\ Header \in Nat \ {0}
    BY <1>1
  <2> HIDE DEF Cut
  <2> QED BY ONLY <2>1, <2>2, size \in Nat, size + Header <= bs[b].size DEF Stop
<1>5. \A c \in DOMAIN bs : Stop(bs, c) \in Nat /\ c \in Nat /\ c < Stop(bs, c)
  BY <1>1 DEF Stop
<1>6. Apart(m)
  <2> SUFFICES ASSUME NEW c \in DOMAIN m, NEW d \in DOMAIN m, c # d
               PROVE  Stop(m, c) <= d \/ Stop(m, d) <= c
    BY DEF Apart
  <2>1. CASE c = s
    <3>1. d \in DOMAIN bs
      BY <2>1
    <3>2. CASE d = b
      BY <1>3, <1>4, <1>5, <2>1, <3>1, <3>2
    <3>3. CASE d # b
      <4>1. Stop(bs, b) <= d \/ Stop(bs, d) <= b
        BY <1>1, <3>1, <3>3
      <4> QED BY <1>3, <1>4, <1>5, <2>1, <3>1, <3>3, <4>1
    <3> QED BY <3>2, <3>3
  <2>2. CASE d = s
    <3>1. c \in DOMAIN bs
      BY <2>2
    <3>2. CASE c = b
      BY <1>3, <1>4, <1>5, <2>2, <3>1, <3>2
    <3>3. CASE c # b
      <4>1. Stop(bs, b) <= c \/ Stop(bs, c) <= b
        BY <1>1, <3>1, <3>3
      <4> QED BY <1>3, <1>4, <1>5, <2>2, <3>1, <3>3, <4>1
    <3> QED BY <3>2, <3>3
  <2>3. CASE c # s /\ d # s
    <3>1. c \in DOMAIN bs /\ d \in DOMAIN bs /\ (Stop(bs, c) <= d \/ Stop(bs, d) <= c)
      BY <1>1, <2>3
    <3> QED BY <1>3, <1>4, <1>5, <3>1
  <2> QED BY <2>1, <2>2, <2>3
<1>7. ASSUME NEW c \in DOMAIN m, m[c].next # NULL
      PROVE  m[c].next = Stop(m, c) /\ m[c].next \in DOMAIN m /\ m[m[c].next].prev = c
  <2>1. CASE c = s
    <3>1. /\ m[c].next = bs[b].next /\ bs[b].next # NULL /\ bs[b].next \in DOMAIN bs
          /\ bs[b].next = Stop(bs, b)
      BY <1>1, <1>7, <2>1
    <3> QED BY <1>4, <2>1, <3>1
  <2>2. CASE c = b
    BY <1>3, <2>2
  <2>3. CASE c # s /\ c # b
    <3>1. /\ m[c].next = bs[c].next /\ bs[c].next = Stop(bs, c) /\ c \in DOMAIN bs
          /\ bs[c].next \in DOMAIN bs /\ bs[bs[c].next].prev = c
      <4>1. c \in DOMAIN bs /\ m[c].next = bs[c].next
        BY <2>3
      <4> QED BY <1>1, <1>7, <4>1
    <3>2. bs[b].next # NULL => bs[bs[b].next].prev = b
      BY <1>1
    <3>3. ~(bs[b].next # NULL /\ bs[c].next = bs[b].next) /\ bs[c].next # s
      BY <2>3, <3>1, <3>2
    <3> QED BY <1>3, <2>3, <3>1, <3>3
  <2> QED BY <2>1, <2>2, <2>3
<1>8. ASSUME NEW c \in DOMAIN m, m[c].prev # NULL
      PROVE  m[c].prev \in DOMAIN m /\ m[m[c].prev].next = c
  <2>1. CASE c = s
    BY <2>1
  <2>2. CASE c # s /\ bs[b].next # NULL /\ c = bs[b].next
    BY <2>2
  <2>3. CASE c # s /\ ~(bs[b].next # NULL /\ c = bs[b].next)
    <3>1. /\ m[c].prev = bs[c].prev /\ bs[c].prev \in DOMAIN bs /\ c \in DOMAIN bs
          /\ bs[bs[c].prev].next = c /\ c # NULL
      BY <1>1, <1>8, <2>3
    <3>2. bs[c].prev # b /\ bs[c].prev # s
      BY <2>3, <3>1
    <3> QED BY <3>1, <3>2
  <2> QED BY <2>1, <2>2, <2>3
<1> QED
  BY <1>2, <1>3, <1>4, <1>6, <1>7, <1>8 DEF Chained, Linked

\* leaves no gap in the region,
LEMMA CutFilled ==
  ASSUME NEW bs, Chained(bs), NEW b \in DOMAIN bs, NEW size \in Nat,
         size + Header <= bs[b].size, NEW s, NEW m, Cut(bs, b, size, s, m),
         NEW rs, RegionsApart(rs), Filled(bs, rs)
  PROVE  Filled(m, rs)
<1>1. /\ \A c \in DOMAIN bs : Stop(m, c) = IF c = b THEN s ELSE Stop(bs, c)
      /\ Stop(m, s) = Stop(bs, b)
  BY CutChained
<1>2. \A c \in DOMAIN bs : c \in Nat \ {0} /\ bs[c].size \in Nat
  BY DEF Chained, Typed, BlockFields
<1> USE DEF Cut
<1>3. PICK r \in rs : Within(bs, b, r)
  BY DEF Filled
<1>4. /\ r.start <= b /\ Stop(bs, b) <= r.end /\ r.start \in Nat /\ r.end \in Nat
      /\ bs[b].next = NULL => Stop(bs, b) = r.end
      /\ bs[b].prev = NULL <=> b = r.start
  BY <1>3 DEF Within, RegionsApart
<1>5. b \in Nat /\ s \in Nat /\ b < s /\ s < Stop(bs, b) /\ Stop(bs, b) \in Nat
  BY <1>2 DEF Stop
<1>6. ASSUME NEW c \in DOMAIN m PROVE \E z \in rs : Within(m, c, z)
  <2>1. CASE c = s
    <3>1. r.start < s /\ Stop(m, s) <= r.end
      BY <1>1, <1>4, <1>5
    <3>2. (m[s].next = NULL => Stop(m, s) = r.end) /\ m[s].prev = b /\ b # NULL
      BY <1>1, <1>2, <1>4, <2>1
    <3>3. Within(m, s, r)
      BY <1>4, <1>5, <3>1, <3>2 DEF Within
    <3> QED BY <2>1, <3>3
  <2>2. CASE c = b
    <3>1. Stop(m, b) = s /\ s <= r.end
      BY <1>1, <1>4, <1>5
    <3>2. m[b].next = s /\ s # NULL /\ m[b].prev = bs[b].prev
      <4>1. b \in DOMAIN m /\ b # s
        OBVIOUS
      <4> QED BY <1>5, <4>1
    <3>3. Within(m, b, r)
      BY <1>4, <3>1, <3>2 DEF Within
    <3> QED BY <2>2, <3>3
  <2>3. CASE c # s /\ c # b
    <3>1. PICK z \in rs : Within(bs, c, z)
      BY <2>3 DEF Filled
    <3>2. m[c].prev = NULL <=> bs[c].prev = NULL
      <4>1. bs[b].next # NULL => bs[bs[b].next].prev = b
        BY DEF Chained, Linked
      <4> QED BY <1>2, <1>5, <2>3, <4>1
    <3>3. Within(m, c, z)
      BY <1>1, <2>3, <3>1, <3>2 DEF Within
    <3> QED BY <3>3
  <2> QED BY <2>1, <2>2, <2>3
<1> QED
  BY <1>6 DEF Filled

\* and puts the rest on the free list.
LEMMA CutListed ==
  ASSUME NEW bs, Chained(bs), NEW b \in DOMAIN bs, ~bs[b].used, NEW size \in Nat,
         size + Header <= bs[b].size, NEW s, NEW m, Cut(bs, b, size, s, m),
         NEW fl, Listed(bs, fl)
  PROVE  Listed(m, <<s>> \o fl) /\ SameUsed(bs, m)
<1> USE DEF Cut
<1>1. FreeOf(m) = {s} \cup FreeOf(bs)
  BY DEF FreeOf
<1>2. s \notin Range(fl) /\ s \in Nat
  BY DEF Listed, FreeOf
<1>3. Listed(m, <<s>> \o fl)
  BY <1>1, <1>2, ListPush DEF Listed
<1>4. SameUsed(bs, m)
  BY DEF SameUsed, UsedOf
<1> QED
  BY <1>3, <1>4

\* The payload bytes of the used blocks, which heap_used counts.
PayloadIn(bs, b) == Payload(b) .. Stop(bs, b) - 1
BytesOf(bs) == UNION {PayloadIn(bs, b) : b \in UsedOf(bs)}

\* Blocks that fill regions lie in RAM, so the bytes of the used ones can be counted.
LEMMA BytesInRam ==
  ASSUME NEW bs, Chained(bs), NEW rs, RegionsApart(rs), Filled(bs, rs)
  PROVE  /\ \A b \in DOMAIN bs : b \in Nat \ {0} /\ bs[b].size \in Nat /\ Stop(bs, b) \in 0 .. RAM
         /\ IsFiniteSet(BytesOf(bs)) /\ Cardinality(BytesOf(bs)) \in 0 .. RAM
<1>1. ASSUME NEW b \in DOMAIN bs
      PROVE  b \in Nat \ {0} /\ bs[b].size \in Nat /\ Stop(bs, b) \in 0 .. RAM
  <2>1. b \in Nat \ {0} /\ bs[b].size \in Nat
    BY DEF Chained, Typed, BlockFields
  <2>2. PICK r \in rs : Within(bs, b, r)
    BY DEF Filled
  <2>3. Stop(bs, b) <= RAM
    BY <2>1, <2>2 DEF Within, RegionsApart, Stop
  <2> QED BY <2>1, <2>3 DEF Stop
<1>2. BytesOf(bs) \subseteq 1 .. RAM
  <2> SUFFICES ASSUME NEW b \in UsedOf(bs), NEW x \in PayloadIn(bs, b)
               PROVE  x \in 1 .. RAM
    BY DEF BytesOf
  <2> QED BY <1>1 DEF UsedOf, PayloadIn, Payload
<1>3. IsFiniteSet(1 .. RAM) /\ Cardinality(1 .. RAM) = RAM
  <2>1. PICK one \in Int : one = 1
    OBVIOUS
  <2>2. RAM \in Int
    OBVIOUS
  <2>3. IsFiniteSet(one .. RAM) /\ Cardinality(one .. RAM) = IF one > RAM THEN 0 ELSE RAM - one + 1
    BY ONLY <2>1, <2>2, FS_Interval
  <2> QED BY <2>1, <2>3
<1>4. IsFiniteSet(BytesOf(bs)) /\ Cardinality(BytesOf(bs)) <= RAM
  BY <1>2, <1>3, FS_Subset
<1> QED
  BY <1>1, <1>4, FS_CardinalityType

\* The bytes depend on the used blocks only.
LEMMA SameBytes ==
  ASSUME NEW bs, NEW m, SameUsed(bs, m)
  PROVE  BytesOf(m) = BytesOf(bs)
<1>1. \A b \in UsedOf(bs) : PayloadIn(m, b) = PayloadIn(bs, b)
  BY DEF SameUsed, PayloadIn, Stop
<1> QED
  BY <1>1 DEF SameUsed, BytesOf

\* A block that becomes used adds its size.
LEMMA MoreBytes ==
  ASSUME NEW bs, Chained(bs), NEW rs, RegionsApart(rs), Filled(bs, rs), NEW b \in DOMAIN bs,
         b \notin UsedOf(bs), NEW m, UsedOf(m) = UsedOf(bs) \cup {b},
         \A c \in DOMAIN bs : m[c].size = bs[c].size
  PROVE  Cardinality(BytesOf(m)) = Cardinality(BytesOf(bs)) + bs[b].size
<1>1. /\ \A c \in DOMAIN bs : c \in Nat \ {0} /\ bs[c].size \in Nat /\ Stop(bs, c) \in 0 .. RAM
      /\ IsFiniteSet(BytesOf(bs)) /\ Cardinality(BytesOf(bs)) \in Nat
  BY BytesInRam
<1>2. \A c \in UsedOf(m) : c \in DOMAIN bs /\ PayloadIn(m, c) = PayloadIn(bs, c)
  BY DEF PayloadIn, Stop, UsedOf
<1>3. BytesOf(m) = BytesOf(bs) \cup PayloadIn(bs, b)
  <2>1. BytesOf(m) = UNION {PayloadIn(bs, c) : c \in UsedOf(m)}
    BY <1>2 DEF BytesOf
  <2> QED BY <2>1 DEF BytesOf
<1>4. BytesOf(bs) \cap PayloadIn(bs, b) = {}
  <2> SUFFICES ASSUME NEW c \in UsedOf(bs), NEW x \in PayloadIn(bs, c), x \in PayloadIn(bs, b)
               PROVE  FALSE
    BY DEF BytesOf
  <2>1. c \in DOMAIN bs /\ c # b
    BY DEF UsedOf
  <2>2. Stop(bs, c) <= b \/ Stop(bs, b) <= c
    BY <2>1 DEF Chained, Apart
  <2> QED BY <1>1, <2>1, <2>2 DEF PayloadIn, Payload
<1>5. IsFiniteSet(PayloadIn(bs, b)) /\ Cardinality(PayloadIn(bs, b)) = bs[b].size
  <2>1. PICK lo \in Int, hi \in Int : lo = Payload(b) /\ hi = Stop(bs, b) - 1
    BY <1>1 DEF Payload
  <2>2. IsFiniteSet(lo .. hi) /\ Cardinality(lo .. hi) = IF lo > hi THEN 0 ELSE hi - lo + 1
    BY ONLY <2>1, FS_Interval
  <2>3. hi = lo + bs[b].size - 1 /\ bs[b].size \in Nat
    BY <1>1, <2>1 DEF Payload, Stop
  <2> QED BY ONLY <2>1, <2>2, <2>3 DEF PayloadIn
<1>6. Cardinality(BytesOf(bs) \cap PayloadIn(bs, b)) = 0
  BY <1>4, FS_EmptySet
<1>7. Cardinality(BytesOf(bs) \cup PayloadIn(bs, b)) =
        Cardinality(BytesOf(bs)) + Cardinality(PayloadIn(bs, b))
          - Cardinality(BytesOf(bs) \cap PayloadIn(bs, b))
  BY <1>1, <1>5, FS_Union
<1> QED
  BY <1>1, <1>3, <1>5, <1>6, <1>7

-----------------------------------------------------------------------------
\* The block table and the free list between two steps.
Core ==
  /\ Chained(blocks) /\ Filled(blocks, regions) /\ RegionsApart(regions)
  /\ Listed(blocks, free_list)
  /\ NoPair(blocks)
  /\ heap_used = Cardinality(BytesOf(blocks))

\* kfree, up to its first merge: b is on the list and its right neighbour is in use.
LEMMA RightMerged ==
  ASSUME Core, NEW b \in UsedOf(blocks), NEW m, m = MergedRight(b),
         NEW fl, fl = ListedRight(b)
  PROVE  /\ Chained(m) /\ Filled(m, regions) /\ Listed(m, fl)
         /\ UsedOf(m) = UsedOf(blocks) \ {b}
         /\ \A c \in UsedOf(m) : m[c].size = blocks[c].size
         /\ heap_used - blocks[b].size = Cardinality(BytesOf(m))
         /\ b \in FreeOf(m) /\ m[b].prev = blocks[b].prev
         /\ \A c \in DOMAIN m \ {b} : c \in DOMAIN blocks /\ m[c].used = blocks[c].used
         /\ m[b].next # NULL => m[m[b].next].used
         /\ \A c \in FreeOf(m) \ {b} :
              m[c].next # NULL /\ m[c].next # b => m[m[c].next].used
<1>1. PICK R : R = Released(b)
  OBVIOUS
<1>2. b \in DOMAIN blocks /\ blocks[b].used /\ Chained(blocks)
  BY DEF UsedOf, Core
<1>3. /\ DOMAIN R = DOMAIN blocks
      /\ \A c \in DOMAIN blocks :
           /\ R[c].size = blocks[c].size /\ R[c].next = blocks[c].next
           /\ R[c].prev = blocks[c].prev
           /\ R[c].used = IF c = b THEN FALSE ELSE blocks[c].used
      /\ Chained(R) /\ Filled(R, regions)
  <2>1. PICK u \in BOOLEAN : u = FALSE
    OBVIOUS
  <2>2. R = MarkAs(blocks, b, u)
    BY <1>1, <2>1 DEF Released, MarkAs
  <2>3. Filled(blocks, regions)
    BY DEF Core
  <2>4. Marked(blocks, b, u, R) /\ Filled(R, regions)
    BY <1>2, <2>1, <2>2, <2>3, MarkFields
  <2> QED BY <2>1, <2>4 DEF Marked
<1>4. Filled(R, regions)
  BY <1>3
<1>5. UsedOf(R) = UsedOf(blocks) \ {b} /\ FreeOf(R) = {b} \cup FreeOf(blocks)
  BY <1>2, <1>3 DEF UsedOf, FreeOf
<1>6. heap_used - blocks[b].size = Cardinality(BytesOf(R))
  <2>1. Cardinality(BytesOf(blocks)) = Cardinality(BytesOf(R)) + R[b].size
    <3>1. b \in DOMAIN R /\ b \notin UsedOf(R) /\ UsedOf(blocks) = UsedOf(R) \cup {b}
      BY <1>2, <1>3, <1>5
    <3>2. \A c \in DOMAIN R : blocks[c].size = R[c].size
      BY <1>3
    <3> QED BY <1>3, <1>4, <3>1, <3>2, MoreBytes DEF Core
  <2>2. Cardinality(BytesOf(R)) \in 0 .. RAM
    BY <1>3, <1>4, BytesInRam DEF Core
  <2>3. blocks[b].size \in Nat
    BY <1>2 DEF Chained, Typed, BlockFields
  <2>4. heap_used = Cardinality(BytesOf(blocks)) /\ R[b].size = blocks[b].size
    BY <1>2, <1>3 DEF Core
  <2> QED BY <2>1, <2>2, <2>3, <2>4
<1>7. b \in Nat /\ b \notin Range(free_list)
  BY <1>2 DEF Core, Chained, Typed, Listed, FreeOf
<1>8. free_list \in Seq(Nat) /\ IsInjective(free_list) /\ Range(free_list) = FreeOf(blocks)
  BY DEF Core, Listed
<1>9. /\ \A c \in FreeOf(blocks) : blocks[c].next # NULL => blocks[blocks[c].next].used
      /\ \A c \in DOMAIN blocks : blocks[c].next # NULL => blocks[c].next \in DOMAIN blocks
  BY <1>2 DEF Core, NoPair, Chained, Linked
<1>10. CASE RightFree(b)
  <2>1. PICK n : n = blocks[b].next
    OBVIOUS
  <2>2. n # NULL /\ n \in FreeOf(blocks) /\ n = R[b].next /\ n # b
    BY <1>2, <1>3, <1>9, <1>10, <2>1 DEF RightFree, IsFree, FreeOf
  <2>3. m = MergeNext(R, b)
    BY <1>1, <1>10 DEF MergedRight
  <2>4. Chained(m) /\ Filled(m, regions)
    BY <1>2, <1>3, <1>4, <2>2, <2>3, MergeChained, MergeFilled DEF Core
  <2>5. Merged(R, b, n, m)
    BY <1>2, <1>3, <2>2, <2>3, MergeFields
  <2>6. FreeOf(m) = FreeOf(R) \ {n} /\ SameUsed(R, m)
    <3>1. ~R[b].used /\ ~R[n].used
      BY <1>2, <1>3, <2>2 DEF FreeOf
    <3> QED BY <1>2, <1>3, <2>2, <2>3, <3>1, MergeUsed
  <2>7. Listed(m, fl)
    <3>1. PICK l : l = RemoveFirst(free_list, n)
      OBVIOUS
    <3>2. l \in Seq(Nat) /\ IsInjective(l) /\ Range(l) = Range(free_list) \ {n}
      BY <1>8, <2>2, <3>1, ListRemove
    <3>3. fl = <<b>> \o l
      BY <1>10, <2>1, <3>1 DEF ListedRight
    <3>4. fl \in Seq(Nat) /\ IsInjective(fl) /\ Range(fl) = {b} \cup Range(l)
      BY <1>7, <3>2, <3>3, ListPush
    <3>5. Range(fl) = FreeOf(m)
      BY <1>5, <1>8, <2>2, <2>6, <3>2, <3>4
    <3> QED BY <3>4, <3>5 DEF Listed
  <2>8. Cardinality(BytesOf(m)) = Cardinality(BytesOf(R))
    BY <2>6, SameBytes
  <2>9. UsedOf(m) = UsedOf(R) /\ \A c \in UsedOf(m) : m[c].size = R[c].size
    BY <2>6 DEF SameUsed
  <2>10. /\ \A c \in DOMAIN m : c \in DOMAIN blocks /\ m[c].used = R[c].used
         /\ b \in FreeOf(m) /\ m[b].prev = R[b].prev
    BY <1>2, <1>3, <1>5, <2>2, <2>5, <2>6 DEF Merged
  <2>11. m[b].next # NULL => m[m[b].next].used
    <3> SUFFICES ASSUME m[b].next # NULL PROVE m[m[b].next].used
      OBVIOUS
    <3>1. PICK y : y = m[b].next
      OBVIOUS
    <3>2. y = blocks[n].next /\ y # b /\ y # n
      <4>1. b \in DOMAIN m /\ n \in DOMAIN blocks /\ R[n].next # n /\ R[n].next # b
        BY <1>2, <1>3, <2>2, <2>5 DEF Merged
      <4>2. m[b].next = R[n].next
        BY <2>5, <4>1 DEF Merged
      <4> QED BY <1>3, <3>1, <4>1, <4>2
    <3>3. y \in DOMAIN blocks /\ blocks[y].used
      BY <1>9, <2>2, <3>1, <3>2 DEF FreeOf
    <3> QED BY <1>3, <2>5, <3>1, <3>2, <3>3 DEF Merged
  <2>12. ASSUME NEW c \in FreeOf(m) \ {b}, m[c].next # NULL, m[c].next # b
         PROVE  m[m[c].next].used
    <3>1. PICK y : y = m[c].next
      OBVIOUS
    <3>2. c \in FreeOf(blocks) /\ y = blocks[c].next
      BY <1>3, <1>5, <2>5, <2>6, <3>1 DEF Merged, FreeOf
    <3>3. y \in DOMAIN blocks /\ blocks[y].used
      BY <1>9, <2>12, <3>1, <3>2 DEF FreeOf
    <3>4. y # n /\ y # b
      BY <2>2, <2>12, <3>1, <3>3 DEF FreeOf
    <3>5. y \in DOMAIN m /\ m[y].used = R[y].used
      BY <1>3, <2>5, <3>3, <3>4 DEF Merged
    <3> QED BY <1>3, <3>1, <3>3, <3>4, <3>5
  <2>13. ASSUME NEW c \in DOMAIN m \ {b} PROVE c \in DOMAIN blocks /\ m[c].used = blocks[c].used
    BY <1>3, <2>10
  <2>14. \A c \in UsedOf(m) : m[c].size = blocks[c].size
    BY <1>3, <2>9 DEF UsedOf
  <2>15. m[b].prev = blocks[b].prev
    BY <1>2, <1>3, <2>10
  <2> QED BY <1>5, <1>6, <2>4, <2>7, <2>8, <2>9, <2>10, <2>11, <2>12, <2>13, <2>14, <2>15
<1>11. CASE ~RightFree(b)
  <2>1. m = R /\ fl = <<b>> \o free_list
    BY <1>1, <1>11 DEF MergedRight, ListedRight
  <2>2. Listed(m, fl)
    <3>1. fl \in Seq(Nat) /\ IsInjective(fl) /\ Range(fl) = {b} \cup Range(free_list)
      BY <1>7, <1>8, <2>1, ListPush
    <3> QED BY <1>5, <1>8, <2>1, <3>1 DEF Listed
  <2>3. m[b].next # NULL => m[m[b].next].used
    <3> SUFFICES ASSUME m[b].next # NULL PROVE m[m[b].next].used
      OBVIOUS
    <3>1. PICK y : y = blocks[b].next
      OBVIOUS
    <3>2. y \in DOMAIN blocks /\ blocks[y].used /\ m[b].next = y
      BY <1>2, <1>3, <1>9, <1>11, <2>1, <3>1 DEF RightFree, IsFree
    <3>3. y # b
      BY <1>2, <3>1 DEF Chained, Linked, Typed, Stop, BlockFields
    <3> QED BY <1>3, <2>1, <3>2, <3>3
  <2>4. ASSUME NEW c \in FreeOf(m) \ {b}, m[c].next # NULL, m[c].next # b
        PROVE  m[m[c].next].used
    <3>1. c \in FreeOf(blocks) /\ m[c].next = blocks[c].next /\ blocks[c].next \in DOMAIN blocks
      BY <1>3, <1>5, <1>9, <2>1, <2>4 DEF FreeOf
    <3> QED BY <1>3, <1>9, <2>1, <2>4, <3>1
  <2> QED BY <1>2, <1>3, <1>4, <1>5, <1>6, <2>1, <2>2, <2>3, <2>4 DEF UsedOf, FreeOf
<1> QED
  BY <1>10, <1>11

\* What kfree and kmalloc establish for the next state.
CoreNext ==
  /\ Chained(blocks') /\ Filled(blocks', regions') /\ Listed(blocks', free_list')
  /\ NoPair(blocks')
  /\ heap_used' = Cardinality(BytesOf(blocks'))

\* kfree: after the merge to the left as well, b is free and all else in use still is.
LEMMA FreeKeeps ==
  ASSUME Core, NEW b \in UsedOf(blocks), FreeBlock(b), regions' = regions
  PROVE  /\ CoreNext
         /\ UsedOf(blocks') = UsedOf(blocks) \ {b}
         /\ \A c \in UsedOf(blocks') : blocks'[c].size = blocks[c].size
<1>1. PICK m : m = MergedRight(b)
  OBVIOUS
<1>2. PICK fl : fl = ListedRight(b)
  OBVIOUS
<1>3. /\ Chained(m) /\ Filled(m, regions) /\ Listed(m, fl)
      /\ UsedOf(m) = UsedOf(blocks) \ {b}
      /\ \A c \in UsedOf(m) : m[c].size = blocks[c].size
      /\ heap_used - blocks[b].size = Cardinality(BytesOf(m))
      /\ b \in FreeOf(m) /\ m[b].prev = blocks[b].prev
      /\ \A c \in DOMAIN m \ {b} : c \in DOMAIN blocks /\ m[c].used = blocks[c].used
      /\ m[b].next # NULL => m[m[b].next].used
      /\ \A c \in FreeOf(m) \ {b} :
           m[c].next # NULL /\ m[c].next # b => m[m[c].next].used
  BY <1>1, <1>2, RightMerged
<1>4. /\ \A c \in DOMAIN m : c \in Nat \ {0} /\ m[c].size \in Nat
      /\ \A c \in DOMAIN m : m[c].next # NULL =>
           m[c].next = Stop(m, c) /\ m[c].next \in DOMAIN m /\ m[m[c].next].prev = c
      /\ \A c \in DOMAIN m : m[c].prev # NULL =>
           m[c].prev \in DOMAIN m /\ m[m[c].prev].next = c
  BY <1>3 DEF Chained, Typed, Linked, BlockFields
<1>5. heap_used' = Cardinality(BytesOf(m))
  BY <1>3 DEF FreeBlock
<1>6. RegionsApart(regions)
  BY DEF Core
<1>7. CASE LeftFree(b)
  <2>1. PICK p : p = blocks[b].prev
    OBVIOUS
  <2>2. /\ p # NULL /\ ~blocks[p].used /\ p \in DOMAIN m /\ m[p].next = b /\ p # b
        /\ ~m[p].used /\ b # NULL
    <3>1. p # NULL /\ ~blocks[p].used /\ m[b].prev = p /\ b \in DOMAIN m
      BY <1>3, <1>7, <2>1 DEF LeftFree, IsFree, FreeOf
    <3>2. p \in DOMAIN m /\ m[p].next = b
      BY <1>4, <3>1
    <3>3. p # b /\ b # NULL
      BY <1>4, <3>1, <3>2 DEF Stop
    <3> QED BY <1>3, <3>1, <3>2, <3>3
  <2>3. PICK z : z = MergeNext(m, p)
    OBVIOUS
  <2>4. blocks' = z /\ free_list' = RemoveFirst(fl, b)
    BY <1>1, <1>2, <1>7, <2>1, <2>3 DEF FreeBlock, MergedBlocks, MergedList
  <2>5. Chained(z) /\ Filled(z, regions) /\ Merged(m, p, b, z)
    BY <1>3, <1>6, <2>2, <2>3, MergeChained, MergeFilled, MergeFields
  <2>6. FreeOf(z) = FreeOf(m) \ {b} /\ SameUsed(m, z)
    BY <1>3, <2>2, <2>3, MergeUsed DEF FreeOf
  <2>7. Listed(z, RemoveFirst(fl, b))
    BY <1>3, <2>6, ListRemove DEF Listed
  <2>8. Cardinality(BytesOf(z)) = Cardinality(BytesOf(m))
    BY <2>6, SameBytes
  <2>9. UsedOf(z) = UsedOf(m) /\ \A c \in UsedOf(m) : z[c].size = m[c].size
    BY <2>6 DEF SameUsed
  <2>10. NoPair(z)
    <3> SUFFICES ASSUME NEW c \in FreeOf(z), z[c].next # NULL
                 PROVE  z[z[c].next].used
      BY DEF NoPair
    <3>1. PICK y : y = z[c].next
      OBVIOUS
    <3>2. y \in DOMAIN z /\ c \in DOMAIN z /\ y # b /\ c \in FreeOf(m) /\ c # b
      BY <2>5, <2>6, <3>1 DEF Chained, Linked, FreeOf, Merged
    <3>3. z[y].used = m[y].used
      BY <2>5, <3>2 DEF Merged
    <3>4. CASE c = p
      <4>1. y = m[b].next
        BY <2>5, <3>1, <3>2, <3>4 DEF Merged
      <4> QED BY <1>3, <3>1, <3>3, <4>1
    <3>5. CASE c # p
      <4>1. y = m[c].next
        BY <2>5, <3>1, <3>2, <3>5 DEF Merged
      <4> QED BY <1>3, <3>1, <3>2, <3>3, <4>1
    <3> QED BY <3>4, <3>5
  <2> QED
    BY <1>3, <1>5, <2>4, <2>5, <2>7, <2>8, <2>9, <2>10 DEF CoreNext
<1>8. CASE ~LeftFree(b)
  <2>1. blocks' = m /\ free_list' = fl
    BY <1>1, <1>2, <1>8 DEF FreeBlock, MergedBlocks, MergedList
  <2>2. NoPair(m)
    <3> SUFFICES ASSUME NEW c \in FreeOf(m), m[c].next # NULL
                 PROVE  m[m[c].next].used
      BY DEF NoPair
    <3>1. CASE c = b
      BY <1>3, <3>1
    <3>2. CASE c # b /\ m[c].next # b
      BY <1>3, <3>2
    <3>3. CASE c # b /\ m[c].next = b
      <4>1. c \in DOMAIN m /\ m[b].prev = c /\ c # NULL /\ ~m[c].used
        BY <1>4, <3>3 DEF FreeOf
      <4>2. blocks[b].prev = c /\ ~blocks[c].used
        BY <1>3, <3>3, <4>1
      <4> QED BY <1>8, <4>1, <4>2 DEF LeftFree, IsFree
    <3> QED BY <3>1, <3>2, <3>3
  <2> QED
    BY <1>3, <1>5, <2>1, <2>2 DEF CoreNext
<1> QED
  BY <1>7, <1>8

\* The first block that fits is on the free list and large enough.
LEMMA FirstFitFits ==
  ASSUME Core, NEW size \in Nat, FirstFit(size) # 0
  PROVE  /\ FirstFit(size) \in 1 .. Len(free_list)
         /\ free_list[FirstFit(size)] \in FreeOf(blocks)
         /\ Fits(free_list[FirstFit(size)], size)
<1> DEFINE I == {i \in 1 .. Len(free_list) : Fits(free_list[i], size)}
<1>1. free_list \in Seq(Nat) /\ Range(free_list) = FreeOf(blocks)
  BY DEF Core, Listed
<1>2. DOMAIN free_list = 1 .. Len(free_list) /\ Len(free_list) \in Nat
  BY <1>1, LenProperties
<1>3. FirstFit(size) = IF I # {} THEN Min(I) ELSE 0
  BY DEF FirstFit, SelectInSeq
<1>4. I # {} /\ FirstFit(size) = Min(I) /\ I \in SUBSET Nat
  BY <1>2, <1>3
<1>5. FirstFit(size) \in I
  BY <1>4, MinOfNaturals
<1> QED
  BY <1>1, <1>2, <1>5 DEF Range

\* For a block that fits, the test for a split does not wrap around.
LEMMA SplitLeavesRoom ==
  ASSUME Core, NEW size \in Nat, NEW b \in DOMAIN blocks, Fits(b, size), CanSplit(b, size)
  PROVE  size + Header <= blocks[b].size
<1>1. b \in Nat \ {0} /\ blocks[b].size \in Nat /\ Stop(blocks, b) \in 0 .. RAM
  BY BytesInRam DEF Core
<1>2. PICK a \in Nat : a = size + Header + MinSplit
  OBVIOUS
<1>3. a \in -SizeMod .. 2 * SizeMod - 1 /\ 0 <= a /\ a < SizeMod
  BY <1>1, <1>2 DEF Fits, Stop
<1>4. a % SizeMod = IF a < 0 THEN a + SizeMod ELSE IF a < SizeMod THEN a ELSE a - SizeMod
  <2>1. SizeMod \in Nat \ {0}
    OBVIOUS
  <2> QED BY ONLY <1>3, <2>1, ModWrapsOnce
<1> QED
  BY <1>1, <1>2, <1>3, <1>4 DEF CanSplit

\* kmalloc, when a block fits: the block is in use, cut to size or whole.
LEMMA AllocateKeeps ==
  ASSUME Core, NEW size \in Nat, NEW b \in FreeOf(blocks), Fits(b, size),
         NEW taken, taken = IF CanSplit(b, size) THEN Split(b, size) ELSE blocks,
         blocks' = [taken EXCEPT ![b].used = TRUE],
         free_list' = RemoveFirst(IF CanSplit(b, size) THEN <<Payload(b) + size>> \o free_list
                                                       ELSE free_list, b),
         heap_used' = heap_used + taken[b].size,
         regions' = regions
  PROVE  /\ CoreNext
         /\ UsedOf(blocks') = UsedOf(blocks) \cup {b}
         /\ \A c \in UsedOf(blocks) : blocks'[c].size = blocks[c].size
         /\ blocks'[b].size >= size /\ Stop(blocks', b) <= RAM
<1>1. PICK fl : fl = IF CanSplit(b, size) THEN <<Payload(b) + size>> \o free_list ELSE free_list
  OBVIOUS
<1>2. /\ b \in DOMAIN blocks /\ ~blocks[b].used /\ Chained(blocks) /\ RegionsApart(regions)
      /\ Filled(blocks, regions) /\ Listed(blocks, free_list)
  BY DEF FreeOf, Core
<1>3. /\ Chained(taken) /\ Filled(taken, regions) /\ Listed(taken, fl) /\ SameUsed(blocks, taken)
      /\ b \in FreeOf(taken) /\ taken[b].size >= size
      /\ \A c \in FreeOf(taken) \ {b} :
           taken[c].next # NULL /\ taken[c].next # b => taken[taken[c].next].used
  <2>1. \A c \in FreeOf(blocks) :
          blocks[c].next # NULL => blocks[c].next \in DOMAIN blocks /\ blocks[blocks[c].next].used
    BY <1>2 DEF Core, NoPair, FreeOf, Chained, Linked
  <2>2. CASE CanSplit(b, size)
    <3>1. PICK s : s = Payload(b) + size
      OBVIOUS
    <3>2. size + Header <= blocks[b].size
      BY <1>2, <2>2, SplitLeavesRoom
    <3>3. Cut(blocks, b, size, s, taken) /\ fl = <<s>> \o free_list
      BY <1>1, <1>2, <2>2, <3>1, <3>2, SplitFields
    <3>4. /\ Chained(taken) /\ Filled(taken, regions) /\ Listed(taken, fl)
          /\ SameUsed(blocks, taken)
      BY <1>2, <3>2, <3>3, CutChained, CutFilled, CutListed
    <3>5. b \in FreeOf(taken) /\ taken[b].size = size
      BY <1>2, <3>3 DEF Cut, FreeOf
    <3>6. ASSUME NEW c \in FreeOf(taken) \ {b}, taken[c].next # NULL, taken[c].next # b
          PROVE  taken[taken[c].next].used
      <4>1. CASE c = s
        <5>1. taken[c].next = blocks[b].next
          BY <3>3, <4>1 DEF Cut, FreeOf
        <5>2. blocks[b].next \in DOMAIN blocks /\ blocks[blocks[b].next].used
          BY <2>1, <3>6, <5>1
        <5>3. PICK y \in DOMAIN blocks : y = taken[c].next /\ blocks[y].used
          BY <5>1, <5>2
        <5>4. y \in DOMAIN taken /\ y # s
          BY <3>3, <5>3 DEF Cut
        <5> QED BY <3>3, <5>3, <5>4 DEF Cut
      <4>2. CASE c # s
        <5>1. c \in FreeOf(blocks) /\ taken[c].next = blocks[c].next
          BY <3>3, <3>6, <4>2 DEF Cut, FreeOf
        <5>2. blocks[c].next \in DOMAIN blocks /\ blocks[blocks[c].next].used
          BY <2>1, <3>6, <5>1
        <5>3. PICK y \in DOMAIN blocks : y = taken[c].next /\ blocks[y].used
          BY <5>1, <5>2
        <5>4. y \in DOMAIN taken /\ y # s
          BY <3>3, <5>3 DEF Cut
        <5> QED BY <3>3, <5>3, <5>4 DEF Cut
      <4> QED BY <4>1, <4>2
    <3> QED BY <3>4, <3>5, <3>6
  <2>3. CASE ~CanSplit(b, size)
    <3>1. taken = blocks /\ fl = free_list
      BY <1>1, <2>3
    <3>2. SameUsed(blocks, taken)
      BY <3>1 DEF SameUsed
    <3> QED BY <1>2, <2>1, <3>1, <3>2 DEF Fits
  <2> QED BY <2>2, <2>3
<1>4. Marked(taken, b, TRUE, blocks') /\ Filled(blocks', regions)
  <2>1. PICK u \in BOOLEAN : u = TRUE
    OBVIOUS
  <2>2. blocks' = MarkAs(taken, b, u) /\ b \in DOMAIN taken
    BY <1>3, <2>1 DEF MarkAs, FreeOf
  <2>3. Marked(taken, b, u, blocks') /\ Filled(blocks', regions)
    <3>1. Chained(taken) /\ Filled(taken, regions)
      BY <1>3
    <3> QED BY ONLY <2>1, <2>2, <3>1, MarkFields
  <2> QED BY <2>1, <2>3
<1>5. /\ UsedOf(blocks') = UsedOf(taken) \cup {b} /\ FreeOf(blocks') = FreeOf(taken) \ {b}
      /\ \A c \in DOMAIN taken : blocks'[c].size = taken[c].size
      /\ b \in DOMAIN taken /\ b \notin UsedOf(taken)
  BY <1>3, <1>4 DEF Marked, UsedOf, FreeOf
<1>6. Listed(blocks', free_list')
  <2>1. free_list' = RemoveFirst(fl, b)
    BY <1>1
  <2>2. fl \in Seq(Nat) /\ IsInjective(fl) /\ Range(fl) = FreeOf(taken) /\ b \in Range(fl)
    BY <1>3 DEF Listed
  <2>3. PICK l : l = RemoveFirst(fl, b)
    OBVIOUS
  <2>4. l \in Seq(Nat) /\ IsInjective(l) /\ Range(l) = Range(fl) \ {b}
    BY ONLY <2>2, <2>3, ListRemove
  <2> QED BY ONLY <1>5, <2>1, <2>2, <2>3, <2>4 DEF Listed
<1>7. heap_used' = Cardinality(BytesOf(blocks'))
  <2>1. Cardinality(BytesOf(blocks')) = Cardinality(BytesOf(taken)) + taken[b].size
    <3>1. Chained(taken) /\ Filled(taken, regions) /\ RegionsApart(regions)
      BY <1>2, <1>3
    <3> QED BY ONLY <1>5, <3>1, MoreBytes
  <2>2. BytesOf(taken) = BytesOf(blocks)
    BY <1>3, SameBytes
  <2> QED BY <2>1, <2>2 DEF Core
<1>8. NoPair(blocks')
  <2> SUFFICES ASSUME NEW c \in FreeOf(blocks'), blocks'[c].next # NULL
               PROVE  blocks'[blocks'[c].next].used
    BY DEF NoPair
  <2>1. c \in FreeOf(taken) \ {b} /\ c \in DOMAIN taken /\ blocks'[c].next = taken[c].next
    BY <1>4, <1>5 DEF Marked, FreeOf
  <2>2. taken[c].next \in DOMAIN taken
    BY <1>3, <2>1 DEF Chained, Linked
  <2>3. CASE taken[c].next = b
    BY <1>4, <2>1, <2>2, <2>3 DEF Marked
  <2>4. CASE taken[c].next # b
    BY <1>3, <1>4, <2>1, <2>2, <2>4 DEF Marked
  <2> QED BY <2>3, <2>4
<1>9. Stop(blocks', b) <= RAM
  BY <1>2, <1>4, <1>5, BytesInRam DEF Marked
<1>10. Chained(blocks')
  BY <1>4 DEF Marked
<1>11. blocks'[b].size >= size
  BY <1>3, <1>5
<1>12. \A c \in UsedOf(blocks) : blocks'[c].size = blocks[c].size
  BY <1>3, <1>5 DEF SameUsed, UsedOf
<1>13. UsedOf(blocks') = UsedOf(blocks) \cup {b}
  BY <1>3, <1>5 DEF SameUsed
<1> QED
  BY <1>4, <1>6, <1>7, <1>8, <1>9, <1>10, <1>11, <1>12, <1>13 DEF CoreNext

-----------------------------------------------------------------------------
\* The bytes of a run of n frames that starts at frame f.
LEMMA RunBytes ==
  ASSUME NEW f \in Nat, NEW n \in Nat \ {0}, f + n <= TotalFrames
  PROVE  /\ f * PageSize \in Nat /\ n * PageSize \in Nat
         /\ (f + n) * PageSize = f * PageSize + n * PageSize
         /\ PageSize <= n * PageSize /\ (f + n) * PageSize <= RAM
<1>1. PICK p \in Nat \ {0}, t \in Nat : p = PageSize /\ t = TotalFrames
  OBVIOUS
<1>2. PICK one \in Nat : one = 1
  OBVIOUS
<1>3. f * p \in Nat /\ n * p \in Nat /\ (f + n) * p = f * p + n * p
  BY ONLY f \in Nat, n \in Nat, p \in Nat
<1>4. one * p <= n * p /\ one * p = p
  <2>1. one <= n /\ n \in Nat /\ p \in Nat
    BY <1>2
  <2> QED BY ONLY <1>2, <2>1, MulMonotone
<1>5. (f + n) * p <= t * p
  <2>1. f + n \in Nat /\ f + n <= t
    BY <1>1
  <2> QED BY ONLY <1>1, <2>1, MulMonotone
<1> QED
  BY <1>1, <1>3, <1>4, <1>5 DEF RAM

\* A region is a run of frames the physical memory manager has handed out.
RegionsHeld(rs, fs) ==
  \A r \in rs : \E f, n \in Nat \ {0} :
     /\ r = [start |-> f * PageSize, end |-> (f + n) * PageSize]
     /\ f + n <= TotalFrames /\ f .. f + n - 1 \subseteq fs

\* grow_heap: the new region lies apart from the others, and one free block fills it.
LEMMA GrowKeeps ==
  ASSUME Core, RegionsHeld(regions, frames), 0 \in frames,
         NEW pages \in Nat \ {0}, NEW f \in PMM!RunStarts(pages),
         NEW pa, pa = f * PageSize, NEW blk,
         blk = [size |-> pages * PageSize - Header, used |-> FALSE, next |-> NULL, prev |-> NULL],
         blocks' = Put(blocks, pa, blk),
         free_list' = <<pa>> \o free_list,
         regions' = regions \cup {[start |-> pa, end |-> pa + pages * PageSize]},
         frames' = frames \cup PMM!RunOf(f, pages),
         heap_used' = heap_used
  PROVE  /\ CoreNext /\ RegionsApart(regions') /\ RegionsHeld(regions', frames')
         /\ SameUsed(blocks, blocks')
         /\ pa \in DOMAIN blocks' /\ blocks'[pa].size = pages * PageSize - Header
<1>1. /\ f \in Nat /\ f + pages <= TotalFrames /\ f .. f + pages - 1 \subseteq PMM!Available
      /\ PMM!RunOf(f, pages) = f .. f + pages - 1
  BY DEF PMM!RunStarts, PMM!RunOf, PMM!Frames
<1>2. f # 0
  <2>1. f \in f .. f + pages - 1
    BY <1>1
  <2>2. f \in PMM!Available
    BY <1>1, <2>1
  <2> QED BY <2>2 DEF PMM!Available
<1>3. PICK w \in Nat : w = pages * PageSize
  BY <1>1, RunBytes
<1>4. /\ pa \in Nat \ {0} /\ w >= Header /\ w >= 1 /\ pa + w = (f + pages) * PageSize
      /\ pa + w <= RAM
  <2>1. /\ pa \in Nat /\ w >= PageSize /\ pa + w = (f + pages) * PageSize /\ pa + w <= RAM
    BY <1>1, <1>3, RunBytes
  <2>2. PICK p \in Nat \ {0} : p = PageSize
    OBVIOUS
  <2>3. f * p # 0
    BY ONLY <1>1, <1>2, p \in Nat \ {0}
  <2> QED BY <2>1, <2>2, <2>3
<1>5. PICK q : q = [start |-> pa, end |-> pa + w]
  OBVIOUS
<1>6. regions' = regions \cup {q}
  BY <1>3, <1>5
<1>7. ASSUME NEW r \in regions
      PROVE  r.end <= q.start \/ q.end <= r.start
  <2>1. PICK g, n \in Nat \ {0} :
          /\ r = [start |-> g * PageSize, end |-> (g + n) * PageSize]
          /\ g + n <= TotalFrames /\ g .. g + n - 1 \subseteq frames
    BY DEF RegionsHeld
  <2>2. g + n <= f \/ f + pages <= g
    <3> SUFFICES ASSUME ~(g + n <= f), ~(f + pages <= g) PROVE FALSE
      OBVIOUS
    <3>2. g \in Nat /\ n \in Nat \ {0} /\ f < g + n /\ g < f + pages
      <4>1. f \in Nat /\ pages \in Nat /\ g \in Nat /\ n \in Nat \ {0}
        BY <1>1
      <4> QED BY ONLY <4>1, ~(g + n <= f), ~(f + pages <= g)
    <3>1. PICK x \in Nat : x \in g .. g + n - 1 /\ x \in f .. f + pages - 1
      <4>1. CASE f <= g
        <5>1. g \in g .. g + n - 1 /\ g \in f .. f + pages - 1
          BY <1>1, <3>2, <4>1
        <5> QED BY <3>2, <5>1
      <4>2. CASE g <= f
        <5>1. f \in g .. g + n - 1 /\ f \in f .. f + pages - 1
          BY ONLY <1>1, <3>2, <4>2
        <5> QED BY <1>1, <5>1
      <4> QED BY <1>1, <3>2, <4>1, <4>2
    <3> QED BY <1>1, <2>1, <3>1 DEF PMM!Available
  <2>3. PICK p \in Nat : p = PageSize
    OBVIOUS
  <2>4. (g + n) * p <= f * p \/ (f + pages) * p <= g * p
    <3>1. g + n \in Nat /\ f + pages \in Nat /\ f \in Nat /\ g \in Nat
      BY <1>1
    <3> QED BY ONLY <2>2, <3>1, p \in Nat, MulMonotone
  <2> QED BY <1>4, <1>5, <2>1, <2>3, <2>4
<1>8. RegionsApart(regions')
  <2>1. q.start \in Nat /\ q.end \in 0 .. RAM /\ q.start < q.end
    BY <1>4, <1>5
  <2>2. ASSUME NEW r \in regions', NEW z \in regions', r # z
        PROVE  r.end <= z.start \/ z.end <= r.start
    BY <1>6, <1>7, <2>2 DEF Core, RegionsApart
  <2> QED BY <1>6, <2>1, <2>2 DEF Core, RegionsApart
<1>9. RegionsHeld(regions', frames')
  <2>1. \A r \in regions : \E g, n \in Nat \ {0} :
          /\ r = [start |-> g * PageSize, end |-> (g + n) * PageSize]
          /\ g + n <= TotalFrames /\ g .. g + n - 1 \subseteq frames'
    BY DEF RegionsHeld
  <2>2. /\ q = [start |-> f * PageSize, end |-> (f + pages) * PageSize]
        /\ f + pages <= TotalFrames /\ f .. f + pages - 1 \subseteq frames'
    BY <1>1, <1>4, <1>5
  <2> QED BY <1>1, <1>2, <1>6, <2>1, <2>2 DEF RegionsHeld
<1>10. /\ Chained(blocks) /\ Filled(blocks, regions) /\ RegionsApart(regions)
       /\ Listed(blocks, free_list) /\ NoPair(blocks)
       /\ heap_used = Cardinality(BytesOf(blocks))
  BY DEF Core
<1>11. ASSUME NEW b \in DOMAIN blocks
       PROVE  /\ b \in Nat \ {0} /\ Stop(blocks, b) \in Nat /\ b < Stop(blocks, b)
              /\ Stop(blocks, b) <= pa \/ pa + w <= b
  <2>1. b \in Nat \ {0} /\ blocks[b].size \in Nat /\ Stop(blocks, b) \in 0 .. RAM
    BY <1>10, BytesInRam
  <2>2. PICK r \in regions : Within(blocks, b, r)
    BY <1>10 DEF Filled
  <2>3. r.end <= pa \/ pa + w <= r.start
    BY <1>5, <1>7
  <2>4. /\ r.start <= b /\ Stop(blocks, b) <= r.end
        /\ r.start \in Nat /\ r.end \in Nat
    BY <1>10, <2>2 DEF Within, RegionsApart
  <2>5. b < Stop(blocks, b)
    <3>1. Header \in Nat \ {0}
      OBVIOUS
    <3> QED BY ONLY <2>1, <3>1 DEF Stop
  <2> QED BY ONLY <1>4, <2>1, <2>3, <2>4, <2>5
<1>12. pa \notin DOMAIN blocks
  <2>1. ASSUME pa \in DOMAIN blocks PROVE FALSE
    <3>1. Stop(blocks, pa) <= pa \/ pa + w <= pa
      BY <1>11, <2>1
    <3> QED BY <1>4, <1>11, <2>1, <3>1
  <2> QED BY <2>1
<1>13. PICK m : m = Put(blocks, pa, blk)
  OBVIOUS
<1>14. /\ DOMAIN m = {pa} \cup DOMAIN blocks /\ m[pa] = blk
       /\ \A b \in DOMAIN blocks : m[b] = blocks[b]
       /\ m = [b \in DOMAIN m |-> m[b]]
  BY <1>12, <1>13 DEF Put
<1>15. /\ blk \in BlockFields /\ blk.size = w - Header /\ blk.used = FALSE
       /\ blk.next = NULL /\ blk.prev = NULL
  <2>1. PICK x \in Nat : x = w - Header
    BY <1>4
  <2>2. pages * PageSize - Header = x
    BY ONLY <1>3, <2>1
  <2>3. blk = [size |-> x, used |-> FALSE, next |-> NULL, prev |-> NULL]
    BY ONLY <2>2,
            blk = [size |-> pages * PageSize - Header, used |-> FALSE, next |-> NULL, prev |-> NULL]
  <2> QED BY ONLY <2>1, <2>3 DEF BlockFields, NULL
<1>16. Stop(m, pa) = pa + w /\ \A b \in DOMAIN blocks : Stop(m, b) = Stop(blocks, b)
  <2>1. m[pa].size = w - Header
    BY <1>14, <1>15
  <2> QED BY <1>4, <1>14, <2>1 DEF Stop
<1>17. Typed(m)
  BY <1>4, <1>10, <1>14, <1>15 DEF Typed, Chained
<1>18. Linked(m)
  BY <1>4, <1>10, <1>14, <1>15, <1>16 DEF Linked, Chained
<1>19. Apart(m)
  <2> SUFFICES ASSUME NEW b \in DOMAIN m, NEW c \in DOMAIN m, b # c
               PROVE  Stop(m, b) <= c \/ Stop(m, c) <= b
    BY DEF Apart
  <2>1. CASE b = pa \/ c = pa
    BY <1>11, <1>14, <1>16, <2>1
  <2>2. CASE b # pa /\ c # pa
    BY <1>10, <1>14, <1>16, <2>2 DEF Chained, Apart
  <2> QED BY <2>1, <2>2
<1>20. Filled(m, regions')
  <2>1. Within(m, pa, q)
    BY <1>4, <1>5, <1>14, <1>15, <1>16 DEF Within
  <2>2. \A b \in DOMAIN blocks, r \in regions : Within(blocks, b, r) => Within(m, b, r)
    BY <1>14, <1>16 DEF Within
  <2>3. q.start = pa /\ q \in regions'
    BY <1>5, <1>6
  <2> QED BY <1>6, <1>10, <1>14, <2>1, <2>2, <2>3 DEF Filled
<1>21. Listed(m, <<pa>> \o free_list)
  <2>1. FreeOf(m) = {pa} \cup FreeOf(blocks)
    BY <1>14, <1>15 DEF FreeOf
  <2>2. pa \notin Range(free_list)
    BY <1>10, <1>12 DEF Listed, FreeOf
  <2> QED BY <1>4, <1>10, <2>1, <2>2, ListPush DEF Listed
<1>22. NoPair(m)
  BY <1>10, <1>14, <1>15 DEF NoPair, FreeOf, Chained, Linked
<1>23. SameUsed(blocks, m)
  BY <1>12, <1>14, <1>15 DEF SameUsed, UsedOf
<1>24. BytesOf(m) = BytesOf(blocks)
  BY <1>23, SameBytes
<1>25. blocks' = m
  BY <1>13
<1> QED
  BY <1>3, <1>8, <1>9, <1>10, <1>14, <1>15, <1>17, <1>18, <1>19, <1>20, <1>21, <1>22, <1>23, <1>24,
     <1>25 DEF CoreNext, Chained

-----------------------------------------------------------------------------
\* A request in progress has a size; krealloc's blocks stay in use until it is done.
CallOK ==
  \/ call = Idle
  \/ call.op \in {"kmalloc", "kmalloc_aligned"} /\ call.size \in Nat
  \/ call.op = "krealloc" /\ call.size \in Nat /\ HeaderOf(call.old) \in UsedOf(blocks)
  \/ /\ call.op = "copy" /\ call.new # call.old
     /\ HeaderOf(call.old) \in UsedOf(blocks) /\ HeaderOf(call.new) \in UsedOf(blocks)

\* The inductive invariant for every size a caller may ask for.
HeapInv ==
  /\ Core
  /\ RegionsHeld(regions, frames)
  /\ frames \subseteq PMM!Frames /\ 0 \in frames
  /\ CallOK

\* align_up returns a natural, also when it wraps.
LEMMA AlignedIsNat ==
  ASSUME NEW v \in Nat, NEW a \in Nat \ {0}
  PROVE  align_up(v, a) \in Nat
<1>1. PICK x \in Nat : x = v + a - 1
  OBVIOUS
<1>2. x % SizeMod \in Nat
  BY <1>1
<1>3. (x % SizeMod) \div a \in Nat
  BY <1>2
<1>4. ((x % SizeMod) \div a) * a \in Nat
  <2>1. PICK y \in Nat : y = (x % SizeMod) \div a
    BY <1>3
  <2>2. y * a \in Nat
    BY ONLY <2>1, a \in Nat \ {0}
  <2> QED BY <2>1, <2>2
<1> QED
  BY <1>1, <1>4 DEF align_up

\* So do the sizes that kmalloc and kmalloc_aligned compute from their arguments.
LEMMA InputsAreNats ==
  /\ \A size \in Sizes : size \in Nat /\ align_up(size, Align) \in Nat
  /\ \A size \in Sizes, align \in Alignments :
       align \in Nat \ {0} /\ align_up((size + align + Header + PointerSize) % SizeMod, Align) \in Nat
<1>1. Sizes \subseteq Nat /\ Alignments \subseteq Nat \ {0}
  BY HeapAssumption
<1>2. \A size \in Sizes, align \in Alignments : (size + align + Header + PointerSize) % SizeMod \in Nat
  BY <1>1
<1> QED
  BY <1>1, <1>2, AlignedIsNat

\* heap_init: no region, no block, an empty list.
LEMMA HeapInvInit == Init => HeapInv
<1> SUFFICES ASSUME Init PROVE HeapInv
  OBVIOUS
<1> USE DEF Init
<1>1. Chained(blocks) /\ UsedOf(blocks) = {} /\ FreeOf(blocks) = {}
  BY DEF Chained, Typed, Linked, Apart, UsedOf, FreeOf
<1>2. Filled(blocks, regions) /\ RegionsApart(regions) /\ NoPair(blocks)
  BY <1>1 DEF Filled, RegionsApart, NoPair
<1>3. Listed(blocks, free_list)
  BY <1>1 DEF Listed, IsInjective, Range
<1>4. heap_used = Cardinality(BytesOf(blocks))
  BY <1>1, FS_EmptySet DEF BytesOf
<1>5. RegionsHeld(regions, frames) /\ frames \subseteq PMM!Frames /\ 0 \in frames /\ CallOK
  BY DEF RegionsHeld, PMM!Frames, CallOK
<1> QED
  BY <1>1, <1>2, <1>3, <1>4, <1>5 DEF HeapInv, Core

\* A step that leaves the blocks alone.
LEMMA CoreStays ==
  ASSUME Core, UNCHANGED <<blocks, free_list, heap_used, regions>>
  PROVE  Core'
BY DEF Core, Chained, Typed, Linked, Apart, Filled, Within, RegionsApart, Listed, NoPair, FreeOf,
       BytesOf, UsedOf, PayloadIn, Payload, Stop

\* A lemma that speaks of CoreNext gives the invariant after the step.
LEMMA CoreMoves ==
  ASSUME CoreNext, RegionsApart(regions')
  PROVE  Core'
BY DEF Core, CoreNext

\* Frames that others take leave the regions with the heap.
LEMMA HeldStays ==
  ASSUME RegionsHeld(regions, frames), frames \subseteq frames', regions' = regions
  PROVE  RegionsHeld(regions, frames)'
BY DEF RegionsHeld

\* The step of Allocate, with its local definitions named.
LEMMA AllocateStep ==
  ASSUME Core, Allocate, call.size \in Nat
  PROVE  \E b \in FreeOf(blocks) :
           /\ CoreNext /\ Core'
           /\ UsedOf(blocks') = UsedOf(blocks) \cup {b}
           /\ \A c \in UsedOf(blocks) : blocks'[c].size = blocks[c].size
           /\ blocks'[b].size >= call.size /\ Stop(blocks', b) <= RAM
           /\ IF call.op = "krealloc"
              THEN /\ call' = [op |-> "copy", new |-> Payload(b), old |-> call.old,
                               asked |-> call.asked]
                   /\ live' = live
              ELSE call' = Idle /\ live' = Put(live, Result(b), call.asked)
<1>1. PICK size \in Nat : size = call.size
  OBVIOUS
<1>2. FirstFit(size) # 0
  BY <1>1 DEF Allocate
<1>3. PICK b : b = free_list[FirstFit(size)]
  OBVIOUS
<1>4. b \in FreeOf(blocks) /\ Fits(b, size)
  BY <1>2, <1>3, FirstFitFits
<1>5. PICK taken : taken = IF CanSplit(b, size) THEN Split(b, size) ELSE blocks
  OBVIOUS
<1>6. /\ blocks' = [taken EXCEPT ![b].used = TRUE]
      /\ free_list' = RemoveFirst(IF CanSplit(b, size) THEN <<Payload(b) + size>> \o free_list
                                                       ELSE free_list, b)
      /\ heap_used' = heap_used + taken[b].size
      /\ regions' = regions
      /\ IF call.op = "krealloc"
         THEN /\ call' = [op |-> "copy", new |-> Payload(b), old |-> call.old, asked |-> call.asked]
              /\ live' = live
         ELSE call' = Idle /\ live' = Put(live, Result(b), call.asked)
  BY <1>1, <1>3, <1>5 DEF Allocate
<1>7. /\ CoreNext
      /\ UsedOf(blocks') = UsedOf(blocks) \cup {b}
      /\ \A c \in UsedOf(blocks) : blocks'[c].size = blocks[c].size
      /\ blocks'[b].size >= size /\ Stop(blocks', b) <= RAM
  BY <1>4, <1>5, <1>6, AllocateKeeps
<1>8. Core'
  BY <1>6, <1>7, CoreMoves DEF Core
<1> QED
  BY <1>1, <1>4, <1>6, <1>7, <1>8

\* The step of grow_heap likewise.
LEMMA GrowStep ==
  ASSUME Core, RegionsHeld(regions, frames), 0 \in frames, grow_heap, call.size \in Nat
  PROVE  /\ Core' /\ RegionsHeld(regions', frames') /\ SameUsed(blocks, blocks')
         /\ frames \subseteq frames'
         /\ PagesFor(call.size) \in Nat \ {0}
         /\ \E i \in DOMAIN free_list' :
              blocks'[free_list'[i]].size = PagesFor(call.size) * PageSize - Header
<1>1. PICK pages : pages = PagesFor(call.size)
  OBVIOUS
<1>2. pages \in Nat
  <2>1. PICK need \in Nat : need = (call.size + Header) % SizeMod
    OBVIOUS
  <2>2. PICK x \in Nat : x = (need + PageSize - 1) % SizeMod
    OBVIOUS
  <2>3. x \div PageSize \in Nat
    OBVIOUS
  <2> QED BY <1>1, <2>1, <2>2, <2>3 DEF PagesFor
<1>3. PICK f \in PMM!RunStarts(pages) :
        /\ pages # 0
        /\ frames' = frames \cup PMM!RunOf(f, pages)
        /\ blocks' = Put(blocks, f * PageSize,
                         [size |-> pages * PageSize - Header, used |-> FALSE,
                          next |-> NULL, prev |-> NULL])
        /\ free_list' = <<f * PageSize>> \o free_list
        /\ regions' = regions \cup
                        {[start |-> f * PageSize, end |-> f * PageSize + pages * PageSize]}
        /\ heap_used' = heap_used
  BY <1>1 DEF grow_heap, Growable
<1>4. PICK pa, blk :
        /\ pa = f * PageSize
        /\ blk = [size |-> pages * PageSize - Header, used |-> FALSE, next |-> NULL, prev |-> NULL]
  OBVIOUS
<1>5. /\ CoreNext /\ RegionsApart(regions') /\ RegionsHeld(regions', frames')
      /\ SameUsed(blocks, blocks')
      /\ pa \in DOMAIN blocks' /\ blocks'[pa].size = pages * PageSize - Header
  BY <1>2, <1>3, <1>4, GrowKeeps
<1>6. Core'
  BY <1>5, CoreMoves
<1>7. 1 \in DOMAIN free_list' /\ free_list'[1] = pa
  <2>1. free_list \in Seq(Nat) /\ free_list' \in Seq(Nat)
    BY <1>5 DEF Core, CoreNext, Listed
  <2>2. pa \in Nat
    BY <1>5 DEF CoreNext, Chained, Typed
  <2> QED BY <1>3, <1>4, <2>1, <2>2
<1> QED
  BY <1>1, <1>2, <1>3, <1>5, <1>6, <1>7

\* Every step keeps the block table, the list, the counter and the regions.
LEMMA HeapInvNext == HeapInv /\ [Next]_vars => HeapInv'
<1> SUFFICES ASSUME HeapInv, [Next]_vars PROVE HeapInv'
  OBVIOUS
<1>1. /\ Core /\ RegionsHeld(regions, frames) /\ frames \subseteq PMM!Frames /\ 0 \in frames
      /\ CallOK
  BY DEF HeapInv
<1>2. PMM!Frames' = PMM!Frames
  BY DEF PMM!Frames
<1>3. CASE OtherTakesFrame
  <2>1. frames \subseteq frames' /\ frames' \subseteq PMM!Frames /\ 0 \in frames'
    BY <1>1, <1>3 DEF OtherTakesFrame, PMM!Available
  <2>2. Core' /\ RegionsHeld(regions, frames)'
    BY <1>1, <1>3, <2>1, CoreStays, HeldStays DEF OtherTakesFrame
  <2>3. CallOK'
    BY <1>3 DEF OtherTakesFrame, CallOK
  <2> QED BY <1>2, <2>1, <2>2, <2>3 DEF HeapInv
<1>4. ASSUME UNCHANGED <<blocks, free_list, heap_used, frames, regions>>, CallOK'
      PROVE  HeapInv'
  <2>1. Core' /\ RegionsHeld(regions, frames)'
    BY <1>1, <1>4, CoreStays, HeldStays
  <2> QED BY <1>1, <1>2, <1>4, <2>1 DEF HeapInv
<1>5. CASE \E size \in Sizes : kmalloc(size)
  <2>1. CallOK'
    BY <1>5, InputsAreNats DEF kmalloc, Begin, CallOK
  <2> QED BY <1>4, <1>5, <2>1 DEF kmalloc, Begin
<1>6. CASE \E size \in Sizes, align \in Alignments : kmalloc_aligned(size, align)
  <2>1. CallOK'
    BY <1>6, InputsAreNats DEF kmalloc_aligned, Begin, CallOK
  <2> QED BY <1>4, <1>6, <2>1 DEF kmalloc_aligned, Begin
<1>7. CASE \E ptr \in Plain, size \in Sizes : krealloc(ptr, size) \/ krealloc_in_place(ptr, size)
  <2>1. PICK ptr \in Plain, size \in Sizes : krealloc(ptr, size) \/ krealloc_in_place(ptr, size)
    BY <1>7
  <2>2. CASE krealloc(ptr, size)
    <3>1. HeaderOf(ptr) \in UsedOf(blocks) /\ UNCHANGED blocks
      BY <2>2 DEF Plain, UsedOf, krealloc, Begin
    <3>2. CallOK'
      BY <2>2, <3>1, InputsAreNats DEF krealloc, Begin, CallOK, UsedOf
    <3> QED BY <1>4, <2>2, <3>2 DEF krealloc, Begin
  <2>3. CASE krealloc_in_place(ptr, size)
    <3>1. CallOK'
      BY <2>3 DEF krealloc_in_place, CallOK
    <3> QED BY <1>4, <2>3, <3>1 DEF krealloc_in_place
  <2> QED BY <2>1, <2>2, <2>3
<1>8. CASE \E ptr \in Plain : kfree(ptr)
  <2>1. PICK ptr \in Plain : kfree(ptr)
    BY <1>8
  <2>2. HeaderOf(ptr) \in UsedOf(blocks) /\ FreeBlock(HeaderOf(ptr)) /\ regions' = regions
    BY <2>1 DEF kfree, Plain, UsedOf
  <2>3. CoreNext
    BY <1>1, <2>2, FreeKeeps
  <2>4. Core' /\ RegionsHeld(regions, frames)'
    BY <1>1, <2>1, <2>2, <2>3, CoreMoves, HeldStays DEF Core, kfree
  <2>5. CallOK'
    BY <2>1 DEF kfree, CallOK
  <2> QED BY <1>1, <1>2, <2>1, <2>4, <2>5 DEF HeapInv, kfree
<1>9. CASE Allocate
  <2>1. call.size \in Nat /\ UNCHANGED <<frames, regions>> /\ call # Idle /\ call.op # "copy"
    BY <1>1, <1>9 DEF Allocate, CallOK
  <2>2. PICK b \in FreeOf(blocks) :
           /\ CoreNext /\ Core'
           /\ UsedOf(blocks') = UsedOf(blocks) \cup {b}
           /\ IF call.op = "krealloc"
              THEN call' = [op |-> "copy", new |-> Payload(b), old |-> call.old,
                            asked |-> call.asked]
              ELSE call' = Idle
    BY <1>1, <1>9, <2>1, AllocateStep
  <2>3. CallOK'
    <3>1. CASE call.op = "krealloc"
      <4>1. HeaderOf(call.old) \in UsedOf(blocks) /\ b \notin UsedOf(blocks)
        BY <1>1, <2>1, <3>1 DEF CallOK, FreeOf, UsedOf
      <4>2. b \in Nat /\ HeaderOf(Payload(b)) = b
        BY <1>1 DEF Core, Chained, Typed, FreeOf, HeaderOf, Payload
      <4>3. Payload(b) # call.old
        BY <4>1, <4>2
      <4>4. /\ call'.op = "copy" /\ call'.new = Payload(b) /\ call'.old = call.old
        BY <2>2, <3>1
      <4> QED BY <2>2, <4>1, <4>2, <4>3, <4>4 DEF CallOK
    <3>2. CASE call.op # "krealloc"
      BY <2>2, <3>2 DEF CallOK
    <3> QED BY <3>1, <3>2
  <2>4. RegionsHeld(regions, frames)'
    BY <1>1, <2>1, HeldStays
  <2> QED BY <1>1, <1>2, <2>1, <2>2, <2>3, <2>4 DEF HeapInv
<1>10. CASE FinishRealloc
  <2>1. HeaderOf(call.old) \in UsedOf(blocks) /\ FreeBlock(HeaderOf(call.old))
    BY <1>1, <1>10 DEF FinishRealloc, CallOK
  <2>2. call' = Idle /\ regions' = regions /\ frames' = frames
    BY <1>10 DEF FinishRealloc
  <2>3. CoreNext
    BY <1>1, <2>1, <2>2, FreeKeeps
  <2>4. Core' /\ RegionsHeld(regions, frames)' /\ CallOK'
    BY <1>1, <2>2, <2>3, CoreMoves, HeldStays DEF Core, CallOK
  <2> QED BY <1>1, <1>2, <2>2, <2>4 DEF HeapInv
<1>11. CASE grow_heap
  <2>1. call.size \in Nat
    BY <1>1, <1>11 DEF grow_heap, CallOK
  <2>2. /\ Core' /\ RegionsHeld(regions', frames') /\ SameUsed(blocks, blocks')
        /\ frames \subseteq frames'
    BY <1>1, <1>11, <2>1, GrowStep
  <2>3. frames' \subseteq PMM!Frames
    BY <1>1, <1>11 DEF grow_heap, PMM!RunStarts, PMM!Available
  <2>4. CallOK'
    <3>1. UsedOf(blocks') = UsedOf(blocks)
      BY <2>2 DEF SameUsed
    <3>2. call' = Idle \/ call' = call
      BY <1>11 DEF grow_heap
    <3> QED BY <1>1, <3>1, <3>2 DEF CallOK
  <2> QED BY <1>1, <1>2, <2>2, <2>3, <2>4 DEF HeapInv
<1>12. CASE OutOfMemory
  <2>1. CallOK'
    BY <1>12 DEF OutOfMemory, CallOK
  <2> QED BY <1>4, <1>12, <2>1 DEF OutOfMemory
<1>13. CASE UNCHANGED vars
  <2>1. CallOK'
    BY <1>1, <1>13 DEF vars, CallOK, UsedOf
  <2> QED BY <1>4, <1>13, <2>1 DEF vars
<1> QED
  BY <1>3, <1>5, <1>6, <1>7, <1>8, <1>9, <1>10, <1>11, <1>12, <1>13 DEF Next

\* HeapInv holds in every behaviour.
LEMMA HeapInvHolds == Spec => []HeapInv
BY HeapInvInit, HeapInvNext, PTL DEF Spec

\* HeapInv gives what the runs check of the blocks, the list and the counter.
LEMMA HeapInvImplies ==
  ASSUME HeapInv
  PROVE  BlocksTileRegions /\ FreeListExact /\ HeapUsedExact
<1>1. /\ Chained(blocks) /\ Filled(blocks, regions) /\ RegionsApart(regions)
      /\ Listed(blocks, free_list) /\ NoPair(blocks)
      /\ heap_used = Cardinality(BytesOf(blocks)) /\ frames \subseteq PMM!Frames
  BY DEF HeapInv, Core
<1>2. /\ \A b \in DOMAIN blocks :
           b \in Nat \ {0} /\ blocks[b].size \in Nat /\ Stop(blocks, b) \in 0 .. RAM
      /\ Cardinality(BytesOf(blocks)) \in 0 .. RAM
  BY <1>1, BytesInRam
<1>3. \A b \in DOMAIN blocks : EndOf(b) = Stop(blocks, b)
  BY <1>2 DEF EndOf, Payload, Stop
<1>4. /\ \A b \in DOMAIN blocks : blocks[b] \in BlockFields
      /\ \A b \in DOMAIN blocks : blocks[b].next # NULL =>
           /\ blocks[b].next = Stop(blocks, b) /\ blocks[b].next \in DOMAIN blocks
           /\ blocks[blocks[b].next].prev = b
      /\ \A b \in DOMAIN blocks : blocks[b].prev # NULL => blocks[b].prev \in DOMAIN blocks
  BY <1>1 DEF Chained, Typed, Linked
<1>5. TypeOK
  <2>1. \A b \in DOMAIN blocks :
          /\ b \in 0 .. RAM /\ blocks[b].size \in 0 .. RAM /\ blocks[b].used \in BOOLEAN
          /\ {blocks[b].next, blocks[b].prev} \subseteq DOMAIN blocks \cup {NULL}
    BY <1>2, <1>4 DEF Stop, BlockFields
  <2> QED BY <1>1, <1>2, <2>1 DEF TypeOK, RAM
<1>6. BlocksTileRegions
  <2>1. \A r \in regions : r.start \in DOMAIN blocks
    BY <1>1 DEF Filled
  <2>2. ASSUME NEW b \in DOMAIN blocks
        PROVE  \E r \in regions :
                 /\ r.start <= b /\ EndOf(b) <= r.end
                 /\ IF blocks[b].next = NULL
                    THEN EndOf(b) = r.end
                    ELSE blocks[b].next = EndOf(b) /\ blocks[EndOf(b)].prev = b
                 /\ blocks[b].prev = NULL <=> b = r.start
    <3>1. PICK r \in regions : Within(blocks, b, r)
      BY <1>1 DEF Filled
    <3> QED BY <1>3, <1>4, <3>1 DEF Within
  <2> QED BY <1>5, <2>1, <2>2 DEF BlocksTileRegions
<1>7. FreeListExact
  <2>1. ToSet(free_list) = Range(free_list)
    BY DEF ToSet, Range
  <2>2. ToSet(free_list) = {b \in DOMAIN blocks : ~blocks[b].used}
    BY <1>1, <2>1 DEF Listed, FreeOf
  <2>3. Len(free_list) = Cardinality(ToSet(free_list))
    BY <1>1, <2>1, ListLength DEF Listed
  <2>4. \A b \in DOMAIN blocks : ~blocks[b].used => ~IsFree(blocks, blocks[b].next)
    BY <1>1 DEF NoPair, FreeOf, IsFree
  <2> QED BY <2>2, <2>3, <2>4 DEF FreeListExact
<1>8. HeapUsedExact
  <2>1. UsedBlocks = UsedOf(blocks)
    BY DEF UsedBlocks, UsedOf
  <2>2. \A b \in UsedBlocks : PayloadOf(b) = PayloadIn(blocks, b)
    BY <1>3 DEF UsedBlocks, PayloadOf, PayloadIn
  <2>3. UsedBytes = BytesOf(blocks)
    BY <2>1, <2>2 DEF UsedBytes, BytesOf
  <2> QED BY <1>1, <2>3 DEF HeapUsedExact
<1> QED
  BY <1>6, <1>7, <1>8

\* The headers of a region tile it from its first byte to its last through every
\* split of kmalloc and every merge of kfree, whatever sizes the callers ask for.
THEOREM HeapBlocksTile == Spec => []BlocksTileRegions
<1>1. HeapInv => BlocksTileRegions
  BY HeapInvImplies
<1> QED
  BY <1>1, HeapInvHolds, PTL

\* The list that kmalloc searches holds each free block once and no used one, and
\* kfree leaves no two free neighbours.
THEOREM HeapListExact == Spec => []FreeListExact
<1>1. HeapInv => FreeListExact
  BY HeapInvImplies
<1> QED
  BY <1>1, HeapInvHolds, PTL

\* heap_get_used returns the number of payload bytes of the blocks in use.
THEOREM HeapUsedIsExact == Spec => []HeapUsedExact
<1>1. HeapInv => HeapUsedExact
  BY HeapInvImplies
<1> QED
  BY <1>1, HeapInvHolds, PTL

-----------------------------------------------------------------------------
\* The sizes that are asked for stay in size_t when they are rounded up, padded and
\* counted in pages.  The code does not check that they do.
SizesDoNotWrap ==
  \A size \in Sizes :
    /\ size + Align + Header + PageSize < SizeMod
    /\ \A align \in Alignments :
         size + align + Header + PointerSize + Align + Header + PageSize < SizeMod

\* align_up rounds up by less than the alignment, where the sum does not wrap.
LEMMA AlignUpRoundsUp ==
  ASSUME NEW v \in Nat, NEW a \in Nat \ {0}, v + a - 1 < SizeMod
  PROVE  align_up(v, a) \in Nat /\ v <= align_up(v, a) /\ align_up(v, a) < v + a
<1>1. PICK x \in Nat : x = v + a - 1
  OBVIOUS
<1>2. x % SizeMod = x
  <2>1. x \in -SizeMod .. 2 * SizeMod - 1 /\ SizeMod \in Nat \ {0} /\ 0 <= x /\ x < SizeMod
    BY <1>1
  <2>2. x % SizeMod = IF x < 0 THEN x + SizeMod ELSE IF x < SizeMod THEN x ELSE x - SizeMod
    BY ONLY <2>1, ModWrapsOnce
  <2> QED BY <2>1, <2>2
<1>3. PICK q \in Nat, r \in 0 .. a - 1 : q = x \div a /\ r = x % a
  <2>1. x \div a \in Nat /\ x % a \in 0 .. a - 1
    BY ONLY x \in Nat, a \in Nat \ {0}
  <2> QED BY <2>1
<1>4. x = a * q + r
  BY ONLY <1>1, <1>3, a \in Nat \ {0}
<1>5. align_up(v, a) = q * a /\ q * a \in Nat /\ q * a = a * q
  <2>1. align_up(v, a) = q * a
    BY <1>1, <1>2, <1>3 DEF align_up
  <2>2. q * a \in Nat /\ q * a = a * q
    BY ONLY <1>3, a \in Nat \ {0}
  <2> QED BY <2>1, <2>2
<1> QED
  BY <1>1, <1>3, <1>4, <1>5

\* A pointer lies in the payload of block b,
UnderIn(bs, b, p) == Payload(b) <= p /\ p < Stop(bs, b)

\* with the n bytes behind it, and room for the raw pointer where it is not the payload.
Holds(bs, b, p, n) ==
  /\ p = Payload(b) \/ Payload(b) + PointerSize <= p
  /\ p + n <= Stop(bs, b)

\* Each pointer of lv is in a used block, each used block but those of fresh has one.
Owned(bs, lv, fresh) ==
  /\ \A p \in DOMAIN lv : p \in Nat /\ lv[p] \in Nat \ {0}
  /\ \A p \in DOMAIN lv : \E b \in UsedOf(bs) \ fresh : Holds(bs, b, p, lv[p])
  /\ \A b \in UsedOf(bs) \ fresh : \E p \in DOMAIN lv : UnderIn(bs, b, p)
  /\ \A b \in UsedOf(bs) : \A p, q \in DOMAIN lv :
       UnderIn(bs, b, p) /\ UnderIn(bs, b, q) => p = q

\* A pointer that a block holds lies in its payload.
LEMMA HoldsIsUnder ==
  ASSUME NEW bs, NEW b, NEW p \in Nat, NEW n \in Nat \ {0}, Holds(bs, b, p, n),
         b \in Nat, Stop(bs, b) \in Nat
  PROVE  UnderIn(bs, b, p)
BY DEF Holds, UnderIn, Payload

\* Payloads do not overlap: a pointer is in one block at most.
LEMMA UnderOne ==
  ASSUME NEW bs, Chained(bs), NEW b \in DOMAIN bs, NEW c \in DOMAIN bs, NEW p \in Nat,
         UnderIn(bs, b, p), UnderIn(bs, c, p)
  PROVE  b = c
<1>1. /\ b \in Nat /\ c \in Nat /\ bs[b].size \in Nat /\ bs[c].size \in Nat
      /\ b # c => Stop(bs, b) <= c \/ Stop(bs, c) <= b
  BY DEF Chained, Typed, Apart, BlockFields
<1>2. Stop(bs, b) \in Nat /\ Stop(bs, c) \in Nat
  BY <1>1 DEF Stop
<1> QED
  BY <1>1, <1>2 DEF UnderIn, Payload

\* kfree and krealloc find the block of a pointer that kmalloc returned below it.
LEMMA PlainIsUnder ==
  ASSUME NEW bs, Chained(bs), NEW lv, NEW fresh, Owned(bs, lv, fresh),
         NEW p \in DOMAIN lv, HeaderOf(p) \in UsedOf(bs)
  PROVE  /\ HeaderOf(p) \in UsedOf(bs) \ fresh
         /\ UnderIn(bs, HeaderOf(p), p) /\ Holds(bs, HeaderOf(p), p, lv[p])
<1>1. PICK b \in UsedOf(bs) \ fresh : Holds(bs, b, p, lv[p])
  BY DEF Owned
<1>2. PICK h \in UsedOf(bs) : h = HeaderOf(p)
  OBVIOUS
<1>3. p \in Nat /\ lv[p] \in Nat \ {0}
  BY DEF Owned
<1>4. b \in DOMAIN bs /\ h \in DOMAIN bs
  BY DEF UsedOf
<1>5. /\ b \in Nat /\ h \in Nat /\ bs[b].size \in Nat /\ bs[h].size \in Nat
      /\ h # b => Stop(bs, h) <= b \/ Stop(bs, b) <= h
  BY <1>4 DEF Chained, Typed, Apart, BlockFields
<1>6. p = h + Header
  BY <1>2, <1>3 DEF HeaderOf
<1>7. UnderIn(bs, b, p)
  BY <1>1, <1>3, <1>5, HoldsIsUnder DEF Stop
<1>8. h = b
  BY <1>5, <1>6, <1>7 DEF UnderIn, Payload, Stop
<1> QED
  BY <1>1, <1>2, <1>7, <1>8

\* A block that becomes used waits for its owner,
LEMMA OwnFresh ==
  ASSUME NEW bs, NEW lv, Owned(bs, lv, {}), Chained(bs),
         NEW b, b \notin UsedOf(bs), NEW bs2, Chained(bs2),
         UsedOf(bs2) = UsedOf(bs) \cup {b}, \A c \in UsedOf(bs) : bs2[c].size = bs[c].size
  PROVE  Owned(bs2, lv, {b})
<1>1. \A c \in UsedOf(bs) : Stop(bs2, c) = Stop(bs, c)
  BY DEF Stop
<1>2. \A p \in DOMAIN lv : p \in Nat /\ lv[p] \in Nat \ {0}
  BY DEF Owned
<1>3. ASSUME NEW p \in DOMAIN lv
      PROVE  \E c \in UsedOf(bs2) \ {b} : Holds(bs2, c, p, lv[p])
  <2>1. PICK c \in UsedOf(bs) : Holds(bs, c, p, lv[p])
    BY DEF Owned
  <2> QED BY <1>1, <2>1 DEF Holds
<1>4. ASSUME NEW c \in UsedOf(bs2) \ {b}
      PROVE  \E p \in DOMAIN lv : UnderIn(bs2, c, p)
  <2>1. c \in UsedOf(bs)
    OBVIOUS
  <2>2. PICK p \in DOMAIN lv : UnderIn(bs, c, p)
    BY <2>1 DEF Owned
  <2> QED BY <1>1, <2>1, <2>2 DEF UnderIn
<1>5. ASSUME NEW p \in DOMAIN lv PROVE ~UnderIn(bs2, b, p)
  <2>1. PICK c \in UsedOf(bs2) \ {b} : Holds(bs2, c, p, lv[p])
    BY <1>3
  <2>2. c \in DOMAIN bs2 /\ b \in DOMAIN bs2
    BY DEF UsedOf
  <2>3. c \in Nat /\ Stop(bs2, c) \in Nat
    BY <2>2 DEF Chained, Typed, BlockFields, Stop
  <2>4. UnderIn(bs2, c, p)
    BY <1>2, <2>1, <2>3, HoldsIsUnder
  <2> QED BY <1>2, <2>2, <2>4, UnderOne
<1>6. ASSUME NEW c \in UsedOf(bs2), NEW p \in DOMAIN lv, NEW q \in DOMAIN lv,
             UnderIn(bs2, c, p), UnderIn(bs2, c, q)
      PROVE  p = q
  <2>1. c \in UsedOf(bs)
    BY <1>5, <1>6
  <2>2. UnderIn(bs, c, p) /\ UnderIn(bs, c, q)
    BY <1>1, <1>6, <2>1 DEF UnderIn
  <2> QED BY <2>1, <2>2 DEF Owned
<1> QED
  BY <1>2, <1>3, <1>4, <1>6 DEF Owned

\* and is given to the caller that gets a pointer into it.
LEMMA OwnGive ==
  ASSUME NEW bs, Chained(bs), NEW lv, NEW b \in UsedOf(bs), Owned(bs, lv, {b}),
         NEW p \in Nat, NEW n \in Nat \ {0}, Holds(bs, b, p, n)
  PROVE  Owned(bs, Put(lv, p, n), {})
<1>1. PICK lv2 : lv2 = Put(lv, p, n)
  OBVIOUS
<1>2. \A c \in UsedOf(bs) : c \in DOMAIN bs /\ c \in Nat /\ Stop(bs, c) \in Nat
  BY DEF Chained, Typed, BlockFields, Stop, UsedOf
<1>3. UnderIn(bs, b, p)
  BY <1>2, HoldsIsUnder
<1>4. \A q \in DOMAIN lv : q \in Nat /\ lv[q] \in Nat \ {0}
  BY DEF Owned
<1>5. \A q \in DOMAIN lv : \E c \in UsedOf(bs) \ {b} : Holds(bs, c, q, lv[q]) /\ UnderIn(bs, c, q)
  <2> SUFFICES ASSUME NEW q \in DOMAIN lv
               PROVE  \E c \in UsedOf(bs) \ {b} : Holds(bs, c, q, lv[q]) /\ UnderIn(bs, c, q)
    OBVIOUS
  <2>1. PICK c \in UsedOf(bs) \ {b} : Holds(bs, c, q, lv[q])
    BY DEF Owned
  <2> QED BY <1>2, <1>4, <2>1, HoldsIsUnder
<1>6. \A q \in DOMAIN lv : ~UnderIn(bs, b, q)
  BY <1>2, <1>4, <1>5, UnderOne
<1>7. p \notin DOMAIN lv
  BY <1>3, <1>6
<1>8. /\ DOMAIN lv2 = DOMAIN lv \cup {p} /\ lv2[p] = n
      /\ \A q \in DOMAIN lv : lv2[q] = lv[q]
  BY <1>1, <1>7 DEF Put
<1>9. \A q \in DOMAIN lv2 : q \in Nat /\ lv2[q] \in Nat \ {0}
  BY <1>4, <1>8
<1>10. \A q \in DOMAIN lv2 : \E c \in UsedOf(bs) : Holds(bs, c, q, lv2[q])
  BY <1>5, <1>8
<1>11. \A c \in UsedOf(bs) : \E q \in DOMAIN lv2 : UnderIn(bs, c, q)
  BY <1>3, <1>8 DEF Owned
<1>12. ASSUME NEW c \in UsedOf(bs), NEW q \in DOMAIN lv2, NEW r \in DOMAIN lv2,
              UnderIn(bs, c, q), UnderIn(bs, c, r)
       PROVE  q = r
  <2>1. CASE c = b
    BY <1>6, <1>8, <1>12, <2>1
  <2>2. CASE c # b
    <3>1. ~UnderIn(bs, c, p)
      BY <1>2, <1>3, <2>2, UnderOne
    <3>2. q \in DOMAIN lv /\ r \in DOMAIN lv
      BY <1>8, <1>12, <3>1
    <3> QED BY <1>12, <3>2 DEF Owned
  <2> QED BY <2>1, <2>2
<1> QED
  BY <1>1, <1>9, <1>10, <1>11, <1>12 DEF Owned

\* A block that is freed takes its owner's pointer with it.
LEMMA OwnDrop ==
  ASSUME NEW bs, Chained(bs), NEW lv, NEW fresh, Owned(bs, lv, fresh),
         NEW p \in DOMAIN lv, NEW b \in UsedOf(bs), UnderIn(bs, b, p),
         NEW bs2, UsedOf(bs2) = UsedOf(bs) \ {b},
         \A c \in UsedOf(bs2) : bs2[c].size = bs[c].size
  PROVE  Owned(bs2, [q \in DOMAIN lv \ {p} |-> lv[q]], fresh)
<1>1. PICK lv2 : lv2 = [q \in DOMAIN lv \ {p} |-> lv[q]]
  OBVIOUS
<1>2. DOMAIN lv2 = DOMAIN lv \ {p} /\ \A q \in DOMAIN lv2 : lv2[q] = lv[q]
  BY <1>1
<1>3. \A c \in UsedOf(bs2) : c \in UsedOf(bs) /\ c # b /\ Stop(bs2, c) = Stop(bs, c)
  BY DEF Stop
<1>4. \A q \in DOMAIN lv : q \in Nat /\ lv[q] \in Nat \ {0}
  BY DEF Owned
<1>5. \A c \in UsedOf(bs) : c \in DOMAIN bs /\ c \in Nat /\ Stop(bs, c) \in Nat
  BY DEF Chained, Typed, BlockFields, Stop, UsedOf
<1>6. ASSUME NEW q \in DOMAIN lv2
      PROVE  \E c \in UsedOf(bs2) \ fresh : Holds(bs2, c, q, lv2[q])
  <2>1. PICK c \in UsedOf(bs) \ fresh : Holds(bs, c, q, lv[q])
    BY <1>2 DEF Owned
  <2>2. UnderIn(bs, c, q)
    BY <1>2, <1>4, <1>5, <2>1, HoldsIsUnder
  <2>3. c # b
    BY <1>2, <2>2 DEF Owned
  <2> QED BY <1>2, <1>3, <2>1, <2>3 DEF Holds
<1>7. ASSUME NEW c \in UsedOf(bs2) \ fresh
      PROVE  \E q \in DOMAIN lv2 : UnderIn(bs2, c, q)
  <2>1. PICK q \in DOMAIN lv : UnderIn(bs, c, q)
    BY <1>3 DEF Owned
  <2>2. q # p
    BY <1>3, <1>4, <1>5, <2>1, UnderOne
  <2> QED BY <1>2, <1>3, <2>1, <2>2 DEF UnderIn
<1>8. ASSUME NEW c \in UsedOf(bs2), NEW q \in DOMAIN lv2, NEW r \in DOMAIN lv2,
             UnderIn(bs2, c, q), UnderIn(bs2, c, r)
      PROVE  q = r
  <2>1. UnderIn(bs, c, q) /\ UnderIn(bs, c, r)
    BY <1>3, <1>8 DEF UnderIn
  <2> QED BY <1>2, <1>3, <2>1 DEF Owned
<1> QED
  BY <1>1, <1>2, <1>4, <1>6, <1>7, <1>8 DEF Owned

\* Ownership depends on the used blocks only.
LEMMA OwnSame ==
  ASSUME NEW bs, NEW lv, NEW fresh, Owned(bs, lv, fresh), NEW bs2, SameUsed(bs, bs2)
  PROVE  Owned(bs2, lv, fresh)
<1>1. UsedOf(bs2) = UsedOf(bs) /\ \A c \in UsedOf(bs) : Stop(bs2, c) = Stop(bs, c)
  BY DEF SameUsed, Stop
<1>2. \A c \in UsedOf(bs) : \A p, n : /\ Holds(bs2, c, p, n) <=> Holds(bs, c, p, n)
                                      /\ UnderIn(bs2, c, p) <=> UnderIn(bs, c, p)
  BY <1>1 DEF Holds, UnderIn
<1> QED
  BY <1>1, <1>2 DEF Owned

\* krealloc that keeps the block changes the bytes behind one pointer.
LEMMA OwnResize ==
  ASSUME NEW bs, NEW lv, Owned(bs, lv, {}), NEW p \in DOMAIN lv, NEW n \in Nat \ {0},
         NEW b \in UsedOf(bs), Holds(bs, b, p, n)
  PROVE  Owned(bs, [lv EXCEPT ![p] = n], {})
<1>1. PICK lv2 : lv2 = [lv EXCEPT ![p] = n]
  OBVIOUS
<1>2. DOMAIN lv2 = DOMAIN lv /\ \A q \in DOMAIN lv : lv2[q] = IF q = p THEN n ELSE lv[q]
  BY <1>1
<1>3. \A q \in DOMAIN lv2 : q \in Nat /\ lv2[q] \in Nat \ {0}
  BY <1>2 DEF Owned
<1>4. ASSUME NEW q \in DOMAIN lv2 PROVE \E c \in UsedOf(bs) : Holds(bs, c, q, lv2[q])
  BY <1>2 DEF Owned
<1> QED
  BY <1>1, <1>2, <1>3, <1>4 DEF Owned

\* A request in progress asks for at least one byte and no more than its size; what
\* krealloc copies to is large enough.
CallSized ==
  \/ call = Idle
  \/ /\ call.op \in {"kmalloc", "krealloc", "kmalloc_aligned"}
     /\ call.asked \in Nat \ {0} /\ call.size \in Nat /\ call.asked <= call.size
     /\ call.size + Header + PageSize < SizeMod
     /\ call.op = "krealloc" => call.old \in DOMAIN live
     /\ call.op = "kmalloc_aligned" =>
          /\ call.align \in Nat \ {0}
          /\ call.asked + call.align + Header + PointerSize <= call.size
  \/ /\ call.op = "copy" /\ call.asked \in Nat \ {0} /\ call.new \in Nat
     /\ call.asked <= blocks[HeaderOf(call.new)].size
     /\ call.old \in DOMAIN live

\* The block that krealloc is copying to has no pointer in live yet.
Fresh == IF call # Idle /\ call.op = "copy" THEN {HeaderOf(call.new)} ELSE {}

\* What OwnInv adds: each block has its owner, and the request in progress the sizes it was made with.
OwnInv == Owned(blocks, live, Fresh) /\ CallSized

\* At the start nobody holds anything.
LEMMA OwnInvInit == Init => OwnInv
BY DEF Init, OwnInv, Owned, CallSized, Fresh, UsedOf

\* The sizes of a request that does not wrap.
LEMMA RequestSizes ==
  ASSUME SizesDoNotWrap, NEW size \in Sizes, size # 0
  PROVE  /\ size \in Nat \ {0}
         /\ align_up(size, Align) \in Nat /\ size <= align_up(size, Align)
         /\ align_up(size, Align) + Header + PageSize < SizeMod
         /\ \A align \in Alignments :
              LET padded == (size + align + Header + PointerSize) % SizeMod IN
              /\ align \in Nat \ {0}
              /\ align_up(padded, Align) \in Nat
              /\ size + align + Header + PointerSize <= align_up(padded, Align)
              /\ align_up(padded, Align) + Header + PageSize < SizeMod
<1>1. Sizes \subseteq Nat /\ Alignments \subseteq Nat \ {0}
  BY HeapAssumption
<1>2. /\ size + Align + Header + PageSize < SizeMod
      /\ \A align \in Alignments :
           size + align + Header + PointerSize + Align + Header + PageSize < SizeMod
  BY DEF SizesDoNotWrap
<1>3. /\ align_up(size, Align) \in Nat /\ size <= align_up(size, Align)
      /\ align_up(size, Align) < size + Align
  <2>1. size \in Nat /\ Align \in Nat \ {0} /\ size + Align - 1 < SizeMod
    BY <1>1, <1>2
  <2> QED BY ONLY <2>1, AlignUpRoundsUp
<1>4. ASSUME NEW align \in Alignments
      PROVE  LET padded == (size + align + Header + PointerSize) % SizeMod IN
             /\ align \in Nat \ {0}
             /\ align_up(padded, Align) \in Nat
             /\ size + align + Header + PointerSize <= align_up(padded, Align)
             /\ align_up(padded, Align) + Header + PageSize < SizeMod
  <2>1. PICK x \in Nat : x = size + align + Header + PointerSize
    BY <1>1
  <2>2. x + Align + Header + PageSize < SizeMod
    BY <1>1, <1>2, <2>1
  <2>3. x % SizeMod = x
    <3>1. x \in -SizeMod .. 2 * SizeMod - 1 /\ SizeMod \in Nat \ {0} /\ 0 <= x /\ x < SizeMod
      BY <2>2
    <3>2. x % SizeMod = IF x < 0 THEN x + SizeMod ELSE IF x < SizeMod THEN x ELSE x - SizeMod
      BY ONLY <3>1, ModWrapsOnce
    <3> QED BY <3>1, <3>2
  <2>4. align_up(x, Align) \in Nat /\ x <= align_up(x, Align) /\ align_up(x, Align) < x + Align
    <3>1. x \in Nat /\ Align \in Nat \ {0} /\ x + Align - 1 < SizeMod
      BY <2>2
    <3> QED BY ONLY <3>1, AlignUpRoundsUp
  <2> QED BY <1>1, <2>1, <2>2, <2>3, <2>4
<1> QED
  BY <1>1, <1>2, <1>3, <1>4

\* The pointer that a finished request returns has all its bytes in the block.
LEMMA ResultHolds ==
  ASSUME NEW bs, NEW b \in Nat, bs[b].size \in Nat, bs[b].size >= call.size, Stop(bs, b) <= RAM,
         CallSized, call # Idle, call.op # "copy"
  PROVE  Result(b) \in Nat /\ Holds(bs, b, Result(b), call.asked)
<1>1. PICK size, asked \in Nat :
        size = call.size /\ asked = call.asked /\ asked <= size /\ asked # 0
  BY DEF CallSized
<1>2. size \in Nat /\ b + Header + size <= Stop(bs, b) /\ Stop(bs, b) \in Nat
  BY <1>1 DEF CallSized, Stop
<1>3. CASE call.op = "kmalloc_aligned"
  <2>1. PICK align \in Nat \ {0} :
          align = call.align /\ asked + align + Header + PointerSize <= size
    BY <1>1, <1>3 DEF CallSized
  <2>2. PICK v \in Nat : v = b + Header + PointerSize
    OBVIOUS
  <2>3. align_up(v, align) \in Nat /\ v <= align_up(v, align) /\ align_up(v, align) < v + align
    <3>1. v + align - 1 < SizeMod
      BY <1>1, <1>2, <2>1, <2>2
    <3> QED BY ONLY <3>1, v \in Nat, align \in Nat \ {0}, AlignUpRoundsUp
  <2>4. Result(b) = align_up(v, align)
    BY <1>3, <2>1, <2>2 DEF Result, Payload
  <2> QED BY <1>1, <1>2, <2>1, <2>2, <2>3, <2>4 DEF Holds, Payload
<1>4. CASE call.op # "kmalloc_aligned"
  BY <1>1, <1>2, <1>4 DEF Result, Holds, Payload
<1> QED
  BY <1>3, <1>4

\* Every step keeps the owners, if no size wraps around.
LEMMA OwnInvNext ==
  ASSUME SizesDoNotWrap, HeapInv, HeapInv', OwnInv, [Next]_vars
  PROVE  OwnInv'
<1>1. /\ Core /\ Chained(blocks) /\ Chained(blocks') /\ Owned(blocks, live, Fresh) /\ CallSized
      /\ CallOK
  BY DEF HeapInv, Core, OwnInv
<1>2. \A p \in Plain : p \in DOMAIN live /\ HeaderOf(p) \in UsedOf(blocks)
  BY DEF Plain, UsedOf
<1>3. call = Idle => Fresh = {}
  BY DEF Fresh
<1>4. call' = Idle => Fresh' = {} /\ CallSized'
  BY DEF Fresh, CallSized
<1>5. CASE OtherTakesFrame
  BY <1>1, <1>3, <1>4, <1>5 DEF OtherTakesFrame, OwnInv
<1>6. CASE \E size \in Sizes : kmalloc(size)
  <2>1. PICK size \in Sizes : kmalloc(size)
    BY <1>6
  <2>2. UNCHANGED <<blocks, live>> /\ call = Idle /\ size # 0
    BY <2>1 DEF kmalloc, Begin
  <2>3. /\ call'.op = "kmalloc" /\ call'.asked = size /\ call'.size = align_up(size, Align)
    BY <2>1 DEF kmalloc, Begin
  <2>4. CallSized'
    BY <2>2, <2>3, RequestSizes DEF CallSized
  <2>5. Fresh' = {}
    BY <2>3 DEF Fresh
  <2> QED BY <1>1, <1>3, <2>2, <2>4, <2>5 DEF OwnInv
<1>7. CASE \E size \in Sizes, align \in Alignments : kmalloc_aligned(size, align)
  <2>1. PICK size \in Sizes, align \in Alignments : kmalloc_aligned(size, align)
    BY <1>7
  <2>2. UNCHANGED <<blocks, live>> /\ call = Idle /\ size # 0
    BY <2>1 DEF kmalloc_aligned, Begin
  <2>3. /\ call'.op = "kmalloc_aligned" /\ call'.asked = size /\ call'.align = align
        /\ call'.size = align_up((size + align + Header + PointerSize) % SizeMod, Align)
    BY <2>1 DEF kmalloc_aligned, Begin
  <2>4. CallSized'
    <3>1. /\ size \in Nat \ {0} /\ align \in Nat \ {0} /\ call'.size \in Nat
          /\ size + align + Header + PointerSize <= call'.size
          /\ call'.size + Header + PageSize < SizeMod
      BY <2>2, <2>3, RequestSizes
    <3>2. size <= call'.size
      BY <3>1
    <3> QED BY <2>3, <3>1, <3>2 DEF CallSized
  <2>5. Fresh' = {}
    BY <2>3 DEF Fresh
  <2> QED BY <1>1, <1>3, <2>2, <2>4, <2>5 DEF OwnInv
<1>8. CASE \E ptr \in Plain, size \in Sizes : krealloc(ptr, size)
  <2>1. PICK ptr \in Plain, size \in Sizes : krealloc(ptr, size)
    BY <1>8
  <2>2. UNCHANGED <<blocks, live>> /\ call = Idle /\ size # 0
    BY <2>1 DEF krealloc, Begin
  <2>3. /\ call'.op = "krealloc" /\ call'.asked = size /\ call'.old = ptr
        /\ call'.size = align_up(size, Align)
    BY <2>1 DEF krealloc, Begin
  <2>4. CallSized'
    BY <1>2, <2>2, <2>3, RequestSizes DEF CallSized
  <2>5. Fresh' = {}
    BY <2>3 DEF Fresh
  <2> QED BY <1>1, <1>3, <2>2, <2>4, <2>5 DEF OwnInv
<1>9. CASE \E ptr \in Plain, size \in Sizes : krealloc_in_place(ptr, size)
  <2>1. PICK ptr \in Plain, size \in Sizes : krealloc_in_place(ptr, size)
    BY <1>9
  <2>2. /\ UNCHANGED <<blocks, call>> /\ call = Idle /\ size # 0
        /\ live' = [live EXCEPT ![ptr] = size] /\ Fits(HeaderOf(ptr), align_up(size, Align))
    BY <2>1 DEF krealloc_in_place
  <2>3. PICK b \in UsedOf(blocks) : b = HeaderOf(ptr) /\ ptr \in DOMAIN live
    BY <1>2
  <2>4. ptr \in Nat /\ ptr = Payload(b)
    BY <1>1, <2>3 DEF Owned, HeaderOf, Payload
  <2>5. b \in Nat /\ blocks[b].size \in Nat
    BY <1>1 DEF Chained, Typed, BlockFields, UsedOf
  <2>6. size \in Nat \ {0} /\ size <= blocks[b].size
    BY <2>2, <2>3, <2>5, RequestSizes DEF Fits
  <2>7. Holds(blocks, b, ptr, size)
    BY <2>4, <2>5, <2>6 DEF Holds, Payload, Stop
  <2>8. Owned(blocks, live', {})
    BY <1>1, <1>3, <2>2, <2>3, <2>6, <2>7, OwnResize
  <2> QED BY <1>4, <2>2, <2>8 DEF OwnInv
<1>10. CASE \E ptr \in Plain : kfree(ptr)
  <2>1. PICK ptr \in Plain : kfree(ptr)
    BY <1>10
  <2>2. /\ call = Idle /\ call' = call /\ regions' = regions /\ FreeBlock(HeaderOf(ptr))
        /\ live' = [p \in DOMAIN live \ {ptr} |-> live[p]]
    BY <2>1 DEF kfree
  <2>3. PICK b \in UsedOf(blocks) : b = HeaderOf(ptr) /\ ptr \in DOMAIN live
    BY <1>2
  <2>4. /\ UsedOf(blocks') = UsedOf(blocks) \ {b}
        /\ \A c \in UsedOf(blocks') : blocks'[c].size = blocks[c].size
    BY <1>1, <2>2, <2>3, FreeKeeps
  <2>5. UnderIn(blocks, b, ptr)
    BY <1>1, <2>3, PlainIsUnder
  <2>6. Owned(blocks', live', {})
    <3>1. PICK lv : lv = [p \in DOMAIN live \ {ptr} |-> live[p]]
      OBVIOUS
    <3>2. Owned(blocks, live, {})
      BY <1>1, <1>3, <2>2
    <3>3. Owned(blocks', lv, {})
      BY <1>1, <2>3, <2>4, <2>5, <3>1, <3>2, OwnDrop
    <3> QED BY <2>2, <3>1, <3>3
  <2> QED BY <1>4, <2>2, <2>6 DEF OwnInv
<1>11. CASE Allocate
  <2>1. call.size \in Nat /\ call # Idle /\ call.op # "copy"
    BY <1>1, <1>11 DEF Allocate, CallSized
  <2>2. PICK b \in FreeOf(blocks) :
           /\ UsedOf(blocks') = UsedOf(blocks) \cup {b}
           /\ \A c \in UsedOf(blocks) : blocks'[c].size = blocks[c].size
           /\ blocks'[b].size >= call.size /\ Stop(blocks', b) <= RAM
           /\ IF call.op = "krealloc"
              THEN /\ call' = [op |-> "copy", new |-> Payload(b), old |-> call.old,
                               asked |-> call.asked]
                   /\ live' = live
              ELSE call' = Idle /\ live' = Put(live, Result(b), call.asked)
    BY <1>1, <1>11, <2>1, AllocateStep
  <2>3. Fresh = {} /\ b \notin UsedOf(blocks)
    BY <2>1 DEF Fresh, FreeOf, UsedOf
  <2>4. Owned(blocks', live, {b})
    BY <1>1, <2>2, <2>3, OwnFresh
  <2>5. b \in Nat /\ blocks'[b].size \in Nat /\ b \in UsedOf(blocks')
    BY <1>1, <2>2 DEF Chained, Typed, BlockFields, UsedOf
  <2>6. HeaderOf(Payload(b)) = b /\ Payload(b) \in Nat
    BY <2>5 DEF HeaderOf, Payload
  <2>7. CASE call.op = "krealloc"
    <3>1. /\ call'.op = "copy" /\ call'.new = Payload(b) /\ call'.old = call.old
          /\ call'.asked = call.asked /\ live' = live
      BY <2>2, <2>7
    <3>2. Fresh' = {b}
      BY <2>6, <3>1 DEF Fresh, Idle
    <3>3. call.asked \in Nat \ {0} /\ call.asked <= call.size /\ call.old \in DOMAIN live
      BY <1>1, <2>1, <2>7 DEF CallSized
    <3>4. call.asked <= blocks'[b].size
      BY <2>1, <2>2, <2>5, <3>3
    <3>5. CallSized'
      BY <2>6, <3>1, <3>3, <3>4 DEF CallSized
    <3> QED BY <2>4, <3>1, <3>2, <3>5 DEF OwnInv
  <2>8. CASE call.op # "krealloc"
    <3>1. call' = Idle /\ live' = Put(live, Result(b), call.asked)
      BY <2>2, <2>8
    <3>2. PICK p, n : p = Result(b) /\ n = call.asked
      OBVIOUS
    <3>3. p \in Nat /\ Holds(blocks', b, p, n)
      BY <1>1, <2>1, <2>2, <2>5, <3>2, ResultHolds
    <3>4. n \in Nat \ {0}
      BY <1>1, <2>1, <3>2 DEF CallSized
    <3>5. Owned(blocks', Put(live, p, n), {})
      BY <1>1, <2>4, <2>5, <3>3, <3>4, OwnGive
    <3> QED BY <1>4, <3>1, <3>2, <3>5 DEF OwnInv
  <2> QED BY <2>7, <2>8
<1>12. CASE FinishRealloc
  <2>1. /\ call # Idle /\ call.op = "copy" /\ FreeBlock(HeaderOf(call.old))
        /\ live' = Put([p \in DOMAIN live \ {call.old} |-> live[p]], call.new, call.asked)
        /\ call' = Idle /\ regions' = regions
    BY <1>12 DEF FinishRealloc
  <2>2. /\ call.asked \in Nat \ {0} /\ call.new \in Nat /\ call.old \in DOMAIN live
        /\ call.asked <= blocks[HeaderOf(call.new)].size
    BY <1>1, <2>1 DEF CallSized
  <2>3. PICK n, o \in UsedOf(blocks) : n = HeaderOf(call.new) /\ o = HeaderOf(call.old)
    BY <1>1, <2>1 DEF CallOK
  <2>4. Fresh = {n}
    BY <2>1, <2>3 DEF Fresh
  <2>5. o # n /\ UnderIn(blocks, o, call.old)
    BY <1>1, <2>2, <2>3, <2>4, PlainIsUnder
  <2>6. /\ UsedOf(blocks') = UsedOf(blocks) \ {o}
        /\ \A c \in UsedOf(blocks') : blocks'[c].size = blocks[c].size
    BY <1>1, <2>1, <2>3, FreeKeeps
  <2>7. PICK lv : lv = [p \in DOMAIN live \ {call.old} |-> live[p]]
    OBVIOUS
  <2>8. Owned(blocks', lv, {n})
    BY <1>1, <2>2, <2>3, <2>4, <2>5, <2>6, <2>7, OwnDrop
  <2>9. n \in Nat /\ blocks'[n].size \in Nat /\ n \in UsedOf(blocks')
    BY <1>1, <2>3, <2>5, <2>6 DEF Chained, Typed, BlockFields, UsedOf
  <2>10. Holds(blocks', n, call.new, call.asked)
    <3>1. call.new = n + Header
      BY <2>2, <2>3 DEF HeaderOf
    <3>2. call.asked <= blocks'[n].size
      BY <2>2, <2>3, <2>6, <2>9
    <3> QED BY <2>2, <2>9, <3>1, <3>2 DEF Holds, Payload, Stop
  <2>11. Owned(blocks', Put(lv, call.new, call.asked), {})
    BY <1>1, <2>2, <2>8, <2>9, <2>10, OwnGive
  <2> QED BY <1>4, <2>1, <2>7, <2>11 DEF OwnInv
<1>13. CASE grow_heap
  <2>1. call.size \in Nat /\ call # Idle /\ call.op # "copy"
    BY <1>1, <1>13 DEF grow_heap, CallSized
  <2>2. SameUsed(blocks, blocks')
    BY <1>13, <2>1, GrowStep DEF HeapInv
  <2>3. Fresh = {} /\ live' = live /\ (call' = Idle \/ call' = call)
    BY <1>13, <2>1 DEF Fresh, grow_heap
  <2>4. Fresh' = {}
    BY <1>4, <2>1, <2>3 DEF Fresh
  <2>5. Owned(blocks', live', {})
    BY <1>1, <2>2, <2>3, OwnSame
  <2>6. CallSized'
    BY <1>1, <2>1, <2>3 DEF CallSized
  <2> QED BY <2>4, <2>5, <2>6 DEF OwnInv
<1>14. CASE OutOfMemory
  <2>1. Fresh = {} /\ UNCHANGED <<blocks, live>> /\ call' = Idle
    BY <1>14 DEF OutOfMemory, Fresh
  <2> QED BY <1>1, <1>4, <2>1 DEF OwnInv
<1>15. CASE UNCHANGED vars
  <2>1. Fresh' = Fresh /\ CallSized' /\ UNCHANGED <<blocks, live>>
    BY <1>1, <1>15 DEF vars, Fresh, CallSized
  <2> QED BY <1>1, <2>1 DEF OwnInv
<1> QED
  BY <1>5, <1>6, <1>7, <1>8, <1>9, <1>10, <1>11, <1>12, <1>13, <1>14, <1>15 DEF Next

\* OwnInv holds in every behaviour, with HeapInv.
LEMMA OwnInvHolds ==
  ASSUME SizesDoNotWrap PROVE Spec => [](HeapInv /\ OwnInv)
<1>1. HeapInv /\ OwnInv /\ [Next]_vars => HeapInv' /\ OwnInv'
  BY HeapInvNext, OwnInvNext
<1> QED
  BY <1>1, HeapInvInit, OwnInvInit, PTL DEF Spec

\* The two give what the runs check of the pointers that callers hold.
LEMMA OwnInvImplies ==
  ASSUME HeapInv, OwnInv
  PROVE  GrantedInFull /\ EveryBlockHasOneOwner
<1>1. Chained(blocks) /\ Owned(blocks, live, Fresh)
  BY DEF HeapInv, Core, OwnInv
<1>2. UsedBlocks = UsedOf(blocks)
  BY DEF UsedBlocks, UsedOf
<1>3. \A b \in UsedOf(blocks) :
        /\ b \in DOMAIN blocks /\ b \in Nat \ {0} /\ blocks[b].size \in Nat
        /\ Stop(blocks, b) \in Nat /\ EndOf(b) = Stop(blocks, b)
  BY <1>1 DEF Chained, Typed, BlockFields, UsedOf, EndOf, Stop, Payload
<1>4. \A b \in UsedOf(blocks) : \A p : b \in BlockUnder(p) <=> UnderIn(blocks, b, p)
  BY <1>2, <1>3 DEF BlockUnder, UnderIn
<1>5. \A p \in DOMAIN live : p \in Nat /\ live[p] \in Nat \ {0}
  BY <1>1 DEF Owned
<1>6. ASSUME NEW p \in DOMAIN live
      PROVE  \E b \in UsedOf(blocks) \ Fresh : Holds(blocks, b, p, live[p]) /\ b \in BlockUnder(p)
  <2>1. PICK b \in UsedOf(blocks) \ Fresh : Holds(blocks, b, p, live[p])
    BY <1>1 DEF Owned
  <2>2. UnderIn(blocks, b, p)
    BY <1>3, <1>5, <2>1, HoldsIsUnder
  <2> QED BY <1>4, <2>1, <2>2
<1>7. GrantedInFull
  <2> SUFFICES ASSUME NEW p \in DOMAIN live
               PROVE  \E b \in BlockUnder(p) :
                        /\ p + live[p] <= EndOf(b)
                        /\ p \in Plain \/ Payload(b) <= p - PointerSize
    BY DEF GrantedInFull
  <2>1. PICK b \in UsedOf(blocks) : Holds(blocks, b, p, live[p]) /\ b \in BlockUnder(p)
    BY <1>6
  <2>2. p + live[p] <= EndOf(b)
    BY <1>3, <2>1 DEF Holds
  <2>3. CASE p = Payload(b)
    <3>1. HeaderOf(p) = b
      BY <1>3, <2>3 DEF Payload, HeaderOf
    <3>2. p \in Plain
      BY <1>3, <3>1 DEF Plain, UsedOf
    <3> QED BY <2>1, <2>2, <3>2
  <2>4. CASE Payload(b) + PointerSize <= p
    <3>1. Payload(b) <= p - PointerSize
      BY <1>3, <1>5, <2>4 DEF Payload
    <3> QED BY <2>1, <2>2, <3>1
  <2> QED BY <2>1, <2>3, <2>4 DEF Holds
<1>8. EveryBlockHasOneOwner
  <2> SUFFICES ASSUME NEW b \in UsedOf(blocks)
               PROVE  IF call # Idle /\ call.op = "copy" /\ b = HeaderOf(call.new)
                      THEN \A p \in DOMAIN live : b \notin BlockUnder(p)
                      ELSE Cardinality({p \in DOMAIN live : b \in BlockUnder(p)}) = 1
    BY <1>2 DEF EveryBlockHasOneOwner
  <2>1. CASE b \in Fresh
    <3>1. ASSUME NEW p \in DOMAIN live PROVE b \notin BlockUnder(p)
      <4>1. PICK c \in UsedOf(blocks) \ Fresh : c \in BlockUnder(p)
        BY <1>6
      <4> QED BY <1>1, <1>3, <1>4, <1>5, <2>1, <4>1, UnderOne
    <3> QED BY <2>1, <3>1 DEF Fresh
  <2>2. CASE b \notin Fresh
    <3>1. PICK p \in DOMAIN live : UnderIn(blocks, b, p)
      BY <1>1, <2>2 DEF Owned
    <3>2. {q \in DOMAIN live : b \in BlockUnder(q)} = {p}
      BY <1>1, <1>4, <3>1 DEF Owned
    <3>3. Cardinality({p}) = 1
      BY FS_Singleton
    <3> QED BY <2>2, <3>2, <3>3 DEF Fresh
  <2> QED BY <2>1, <2>2
<1> QED
  BY <1>7, <1>8

\* What kmalloc, kmalloc_aligned and krealloc return has all the bytes that were asked
\* for behind it, and room for the raw pointer below it where one is stored.
THEOREM HeapGrantsInFull == ASSUME SizesDoNotWrap PROVE Spec => []GrantedInFull
<1>1. HeapInv /\ OwnInv => GrantedInFull
  BY OwnInvImplies
<1> QED
  BY <1>1, OwnInvHolds, PTL

\* kmalloc hands no block out twice, and kfree and krealloc lose none.
THEOREM HeapOneOwner == ASSUME SizesDoNotWrap PROVE Spec => []EveryBlockHasOneOwner
<1>1. HeapInv /\ OwnInv => EveryBlockHasOneOwner
  BY OwnInvImplies
<1> QED
  BY <1>1, OwnInvHolds, PTL

\* kmalloc calls itself again once: the region that grow_heap added has room.
THEOREM HeapGrowsOnce == ASSUME SizesDoNotWrap PROVE Spec => GrowthIsEnough
<1>1. HeapInv /\ OwnInv /\ [Next]_vars =>
        [regions' # regions /\ call' # Idle =>
           \E i \in DOMAIN free_list' : blocks'[free_list'[i]].size >= call'.size]_vars
  <2> SUFFICES ASSUME HeapInv, OwnInv, Next, regions' # regions, call' # Idle
               PROVE  \E i \in DOMAIN free_list' : blocks'[free_list'[i]].size >= call'.size
    OBVIOUS
  <2>1. grow_heap
    BY DEF Next, OtherTakesFrame, kmalloc, kmalloc_aligned, krealloc, krealloc_in_place, kfree,
           Begin, Allocate, FinishRealloc, OutOfMemory
  <2>2. /\ call.size \in Nat /\ call' = call /\ call.size + Header + PageSize < SizeMod
    BY <2>1 DEF grow_heap, OwnInv, CallSized
  <2>3. /\ PagesFor(call.size) \in Nat \ {0}
        /\ \E i \in DOMAIN free_list' :
             blocks'[free_list'[i]].size = PagesFor(call.size) * PageSize - Header
    BY <2>1, <2>2, GrowStep DEF HeapInv
  <2>4. PagesFor(call.size) * PageSize - Header >= call.size
    <3>1. PICK size \in Nat, p \in Nat \ {0} : size = call.size /\ p = PageSize
      BY <2>2
    <3>2. PICK x \in Nat : x = size + Header + p - 1
      OBVIOUS
    <3>3. PICK need \in Nat : need = size + Header
      OBVIOUS
    <3>4. need < SizeMod /\ x < SizeMod
      BY <2>2, <3>1, <3>2, <3>3
    <3>5. need % SizeMod = need /\ x % SizeMod = x
      <4>1. /\ need \in -SizeMod .. 2 * SizeMod - 1 /\ x \in -SizeMod .. 2 * SizeMod - 1
            /\ SizeMod \in Nat \ {0}
        BY <3>4
      <4>2. /\ need % SizeMod = IF need < 0 THEN need + SizeMod
                                ELSE IF need < SizeMod THEN need ELSE need - SizeMod
            /\ x % SizeMod = IF x < 0 THEN x + SizeMod
                             ELSE IF x < SizeMod THEN x ELSE x - SizeMod
        BY ONLY <4>1, ModWrapsOnce
      <4> QED BY <3>4, <4>2
    <3>6. PagesFor(size) = x \div p
      BY <3>1, <3>2, <3>3, <3>5 DEF PagesFor
    <3>7. PICK q, r \in Nat : q = x \div p /\ x = p * q + r /\ r < p
      <4>1. x \div p \in Nat /\ x % p \in Nat /\ x % p < p /\ x = p * (x \div p) + (x % p)
        BY ONLY x \in Nat, p \in Nat \ {0}
      <4> QED BY <4>1
    <3>8. q * p = p * q /\ q * p \in Nat
      BY ONLY q \in Nat, p \in Nat \ {0}
    <3> QED BY <3>1, <3>2, <3>6, <3>7, <3>8
  <2> QED BY <2>2, <2>3, <2>4
<1> QED
  BY <1>1, OwnInvHolds, PTL DEF Spec, GrowthIsEnough
=============================================================================
