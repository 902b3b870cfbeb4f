---------------------------- MODULE ShellProofs ----------------------------
(***************************************************************************)
(* Proofs about what the user sees, for every text the boot prints, every  *)
(* message and sample, and every number of them.                           *)
(*                                                                         *)
(* Two arguments carry them.  A view leaves nothing of what was on the     *)
(* screen before because its strips cover every cell of the rows it owns,  *)
(* and a row that is covered whole does not depend on what was under it.   *)
(* And the text of the boot stays where it is laid out because on the line *)
(* that is written every character stands to the left of the next one, so  *)
(* vga_putc never writes over it.                                          *)
(***************************************************************************)
EXTENDS Shell, KernelLemmas

\* A row of the screen, the screen, and what is drawn on it.
Row == [1 .. VGA_WIDTH -> Char]
Screens == [Rows -> Row]
Text == Seq(Char)
StripSet == [x : Nat, y : Nat, text : Text]
Drawings == Seq(StripSet)

\* What the strip s leaves in the row r, and on the screen m.
Stroke(r, s) == tui_puts_at(r, s.x, s.text)
Drawn(m, s) ==
  IF s.y \in Rows /\ s.x < VGA_WIDTH THEN [m EXCEPT ![s.y] = Stroke(@, s)] ELSE m

\* The strip s writes the cell of column c.
InStrip(s, c) == s.x < c /\ c <= s.x + Len(s.text)

\* The sizes of the screen, of the line and of the log.
LEMMA ShellSizes ==
  /\ VGA_WIDTH = 80 /\ VGA_HEIGHT = 25 /\ Rows = 0 .. 24
  /\ CMD_MAX \in 1 .. 64 /\ LOG_LINES \in 1 .. 8
BY ShellAssumption DEF Rows

\* The n elements of s from the one after the m-th.
LEMMA Slice ==
  ASSUME NEW T, NEW s, NEW m \in Nat, NEW n \in Nat, \A i \in m + 1 .. m + n : s[i] \in T
  PROVE  /\ SubSeq(s, m + 1, m + n) \in Seq(T) /\ Len(SubSeq(s, m + 1, m + n)) = n
         /\ \A i \in 1 .. n : SubSeq(s, m + 1, m + n)[i] = s[m + i]
<1>1. m + 1 \in Int /\ m + n \in Int
  OBVIOUS
<1>2. PICK q : q = SubSeq(s, m + 1, m + n)
  OBVIOUS
<1>3. /\ q \in Seq(T)
      /\ Len(q) = IF m + 1 <= m + n THEN m + n - (m + 1) + 1 ELSE 0
      /\ \A i \in 1 .. m + n - (m + 1) + 1 : q[i] = s[m + 1 + i - 1]
  BY ONLY <1>1, <1>2, SubSeqProperties, \A i \in m + 1 .. m + n : s[i] \in T
<1>4. Len(q) = n /\ m + n - (m + 1) + 1 = n
  BY ONLY <1>3, m \in Nat, n \in Nat
<1>5. \A i \in 1 .. n : m + 1 + i - 1 = m + i
  BY ONLY m \in Nat, n \in Nat
<1> QED
  BY ONLY <1>2, <1>3, <1>4, <1>5

\* tui_puts_at keeps a row a row, and writes the cells that the text covers only.
LEMMA StrokeCells ==
  ASSUME VGA_WIDTH \in Nat \ {0}, NEW r \in Row, NEW s \in StripSet, s.x < VGA_WIDTH
  PROVE  /\ Stroke(r, s) \in Row
         /\ \A c \in 1 .. VGA_WIDTH :
              Stroke(r, s)[c] = IF InStrip(s, c) THEN s.text[c - s.x] ELSE r[c]
<1>1. PICK W, T, x, t, L : W = VGA_WIDTH /\ T = Char /\ x = s.x /\ t = s.text /\ L = Len(t)
  OBVIOUS
<1>2. W \in Nat \ {0} /\ x \in Nat /\ x < W /\ t \in Seq(T) /\ r \in [1 .. W -> T]
  BY <1>1 DEF StripSet, Text, Row
<1>3. L \in Nat /\ t \in [1 .. L -> T]
  BY ONLY <1>1, <1>2, LenProperties
<1>4. PICK n : n = IF x + L > W THEN W - x ELSE L
  OBVIOUS
<1>5. n \in Nat /\ n <= L /\ x + n <= W
  BY ONLY <1>2, <1>3, <1>4
<1>6. PICK A, B, C : A = SubSeq(r, 1, x) /\ B = SubSeq(t, 1, n) /\ C = SubSeq(r, x + n + 1, W)
  OBVIOUS
<1>7. Stroke(r, s) = A \o B \o C
  BY ONLY <1>1, <1>4, <1>6 DEF Stroke, tui_puts_at
<1>8. A \in Seq(T) /\ Len(A) = x /\ \A i \in 1 .. x : A[i] = r[i]
  <2>1. 0 \in Nat /\ 0 + 1 = 1 /\ 0 + x = x /\ \A i \in 0 + 1 .. 0 + x : r[i] \in T
    BY ONLY <1>2
  <2>2. \A i \in 1 .. x : 0 + i = i
    BY ONLY <1>2
  <2>3. /\ SubSeq(r, 0 + 1, 0 + x) \in Seq(T) /\ Len(SubSeq(r, 0 + 1, 0 + x)) = x
        /\ \A i \in 1 .. x : SubSeq(r, 0 + 1, 0 + x)[i] = r[0 + i]
    BY ONLY <1>2, <2>1, Slice
  <2> QED BY ONLY <1>6, <2>1, <2>2, <2>3
<1>9. B \in Seq(T) /\ Len(B) = n /\ \A i \in 1 .. n : B[i] = t[i]
  <2>1. 0 \in Nat /\ 0 + 1 = 1 /\ 0 + n = n /\ \A i \in 0 + 1 .. 0 + n : t[i] \in T
    BY ONLY <1>3, <1>5
  <2>2. \A i \in 1 .. n : 0 + i = i
    BY ONLY <1>5
  <2>3. /\ SubSeq(t, 0 + 1, 0 + n) \in Seq(T) /\ Len(SubSeq(t, 0 + 1, 0 + n)) = n
        /\ \A i \in 1 .. n : SubSeq(t, 0 + 1, 0 + n)[i] = t[0 + i]
    BY ONLY <1>5, <2>1, Slice
  <2> QED BY ONLY <1>6, <2>1, <2>2, <2>3
<1>10. PICK m, k : m = x + n /\ k = W - m
  OBVIOUS
<1>11. m \in Nat /\ k \in Nat /\ m + k = W
  BY ONLY <1>2, <1>5, <1>10
<1>12. C \in Seq(T) /\ Len(C) = k /\ \A i \in 1 .. k : C[i] = r[m + i]
  <2>1. \A i \in m + 1 .. m + k : r[i] \in T
    BY ONLY <1>2, <1>11
  <2>2. C = SubSeq(r, m + 1, m + k)
    BY ONLY <1>6, <1>10, <1>11
  <2> QED BY ONLY <1>11, <2>1, <2>2, Slice
<1>13. PICK D : D = A \o B
  OBVIOUS
<1>14. /\ D \in Seq(T) /\ Len(D) = m
       /\ \A i \in 1 .. m : D[i] = IF i <= x THEN A[i] ELSE B[i - x]
  <2>1. Len(A) + Len(B) = m
    BY ONLY <1>8, <1>9, <1>10
  <2>2. /\ A \o B \in Seq(T) /\ Len(A \o B) = Len(A) + Len(B)
        /\ \A i \in 1 .. Len(A) + Len(B) : (A \o B)[i] =
                                            IF i <= Len(A) THEN A[i] ELSE B[i - Len(A)]
    BY ONLY <1>8, <1>9, ConcatProperties
  <2> QED BY ONLY <1>8, <1>13, <2>1, <2>2
<1>15. PICK E : E = D \o C
  OBVIOUS
<1>16. /\ E \in Seq(T) /\ Len(E) = W
       /\ \A i \in 1 .. W : E[i] = IF i <= m THEN D[i] ELSE C[i - m]
  BY ONLY <1>11, <1>12, <1>14, <1>15, ConcatProperties
<1>17. E \in [1 .. W -> T]
  BY ONLY <1>16, LenProperties
<1>18. ASSUME NEW c \in 1 .. W
       PROVE  E[c] = IF x < c /\ c <= x + L THEN t[c - x] ELSE r[c]
  <2>1. CASE c <= x
    <3>1. c \in 1 .. m /\ c \in 1 .. x /\ ~ x < c
      BY ONLY <1>2, <1>5, <1>10, <2>1
    <3> QED BY ONLY <1>8, <1>11, <1>14, <1>16, <2>1, <3>1
  <2>2. CASE x < c /\ c <= m
    <3>1. c \in 1 .. m /\ c - x \in 1 .. n /\ ~ c <= x /\ c <= x + L
      BY ONLY <1>2, <1>3, <1>5, <1>10, <2>2
    <3> QED BY ONLY <1>9, <1>14, <1>16, <2>2, <3>1
  <2>3. CASE ~ c <= m
    <3>1. c - m \in 1 .. k /\ m + (c - m) = c
      BY ONLY <1>11, <2>3
    <3>2. ~ c <= x + L
      BY ONLY <1>2, <1>3, <1>4, <1>10, <2>3
    <3> QED BY ONLY <1>12, <1>16, <2>3, <3>1, <3>2
  <2> QED BY ONLY <1>2, <1>5, <1>11, <2>1, <2>2, <2>3
<1> QED
  BY ONLY <1>1, <1>7, <1>13, <1>15, <1>17, <1>18 DEF Row, InStrip

\* A strip drawn on a screen leaves a screen, and its row only is another.
LEMMA DrawnScreen ==
  ASSUME VGA_WIDTH \in Nat \ {0}, NEW m \in Screens, NEW s \in StripSet
  PROVE  /\ Drawn(m, s) \in Screens
         /\ \A y \in Rows : Drawn(m, s)[y] = IF y = s.y /\ s.x < VGA_WIDTH THEN Stroke(m[y], s)
                                             ELSE m[y]
<1>1. CASE s.y \in Rows /\ s.x < VGA_WIDTH
  <2>1. Drawn(m, s) = [m EXCEPT ![s.y] = Stroke(m[s.y], s)]
    BY <1>1 DEF Drawn
  <2>2. m[s.y] \in Row
    BY <1>1 DEF Screens
  <2>3. Stroke(m[s.y], s) \in Row
    BY <1>1, <2>2, StrokeCells
  <2> QED BY <1>1, <2>1, <2>3 DEF Screens
<1>2. CASE ~ (s.y \in Rows /\ s.x < VGA_WIDTH)
  BY <1>2 DEF Drawn
<1> QED
  BY <1>1, <1>2

\* The screens that a drawing goes through, strip by strip.
PaintSteps(e, m, d) ==
  /\ e \in [0 .. Len(d) -> Screens] /\ e[0] = m
  /\ \A i \in 1 .. Len(d) : e[i] = Drawn(e[i - 1], d[i])

\* What Paint is: the last of the screens that a drawing goes through.
LEMMA PaintIs ==
  ASSUME VGA_WIDTH \in Nat \ {0}, NEW m \in Screens, NEW d \in Drawings
  PROVE  /\ \E e : PaintSteps(e, m, d)
         /\ \A e : PaintSteps(e, m, d) => Paint(m, d) = e[Len(d)]
<1>1. PICK n, Q : n = Len(d) /\ Q = StripSet
  OBVIOUS
<1>2. n \in Nat /\ \A i \in 1 .. n : d[i] \in StripSet
  <2>1. d \in Seq(Q)
    BY ONLY <1>1, d \in Drawings DEF Drawings
  <2> QED BY ONLY <1>1, <2>1, LenProperties, ElementOfSeq
<1>3. PICK F : F = [i \in 1 .. n |-> [q \in Screens |-> Drawn(q, d[i])]]
  OBVIOUS
<1>4. PICK P : P = Screens
  OBVIOUS
<1>5. F \in Rounds(n, P)
  <2>1. \A i \in 1 .. n : \A q \in Screens : Drawn(q, d[i]) \in Screens
    BY ONLY VGA_WIDTH \in Nat \ {0}, <1>2, DrawnScreen
  <2> QED BY ONLY <1>3, <1>4, <2>1 DEF Rounds
<1>6. PICK g : Iteration(g, P, m, n, F)
  BY ONLY <1>2, <1>4, <1>5, m \in Screens, Iterates
<1>7. g \in [0 .. n -> P] /\ g[0] = m /\ \A i \in 1 .. n : g[i] = F[i][g[i - 1]]
  BY ONLY <1>6 DEF Iteration
<1>8. \A i \in 1 .. n : \A q \in P : F[i][q] = Drawn(q, d[i])
  BY ONLY <1>3, <1>4
<1>9. \A i \in 1 .. n : i \in 0 .. n /\ i - 1 \in 0 .. n /\ i # 0
  BY ONLY <1>2
<1>10. \A i \in 0 .. n : i = 0 \/ i \in 1 .. n
  BY ONLY <1>2
<1>11. \A i \in 1 .. n : g[i] = Drawn(g[i - 1], d[i])
  BY ONLY <1>7, <1>8, <1>9
<1>12. g = [i \in 0 .. n |-> IF i = 0 THEN m ELSE Drawn(g[i - 1], d[i])]
  <2>1. \A i \in 0 .. n : g[i] = IF i = 0 THEN m ELSE Drawn(g[i - 1], d[i])
    BY ONLY <1>7, <1>9, <1>10, <1>11
  <2> QED BY ONLY <1>7, <2>1
<1>13. PICK h : h = CHOOSE f : f = [i \in 0 .. n |-> IF i = 0 THEN m ELSE Drawn(f[i - 1], d[i])]
  OBVIOUS
<1>14. h = [i \in 0 .. n |-> IF i = 0 THEN m ELSE Drawn(h[i - 1], d[i])]
  BY ONLY <1>12, <1>13
<1>15. Paint(m, d) = h[n]
  BY ONLY <1>1, <1>13 DEF Paint, Drawn, Stroke
<1>16. Follows(h, P, m, n, F)
  <2>1. 0 \in 0 .. n
    BY ONLY <1>2
  <2>2. h[0] = m
    BY ONLY <1>14, <2>1
  <2>3. \A i \in 1 .. n : h[i] = Drawn(h[i - 1], d[i])
    BY ONLY <1>9, <1>14
  <2> QED BY ONLY <1>8, <2>2, <2>3 DEF Follows
<1>17. \A i \in 0 .. n : h[i] = g[i]
  BY ONLY <1>2, <1>6, <1>16, IterationUnique
<1>18. PaintSteps(g, m, d)
  BY ONLY <1>1, <1>4, <1>7, <1>11 DEF PaintSteps
<1>19. ASSUME NEW e, PaintSteps(e, m, d) PROVE Paint(m, d) = e[Len(d)]
  <2>1. e \in [0 .. n -> P] /\ e[0] = m /\ \A i \in 1 .. n : e[i] = Drawn(e[i - 1], d[i])
    BY ONLY <1>1, <1>4, <1>19 DEF PaintSteps
  <2>2. Follows(e, P, m, n, F)
    BY ONLY <1>8, <2>1 DEF Follows
  <2>3. \A i \in 0 .. n : e[i] = g[i]
    BY ONLY <1>2, <1>6, <2>2, IterationUnique
  <2>4. n \in 0 .. n
    BY ONLY <1>2
  <2> QED BY ONLY <1>1, <1>15, <1>17, <2>3, <2>4
<1> QED
  BY ONLY <1>18, <1>19

\* A painted screen is a screen.
LEMMA PaintScreen ==
  ASSUME VGA_WIDTH \in Nat \ {0}, NEW m \in Screens, NEW d \in Drawings
  PROVE  Paint(m, d) \in Screens
<1>1. PICK e : PaintSteps(e, m, d)
  BY PaintIs
<1>2. Paint(m, d) = e[Len(d)]
  BY <1>1, PaintIs
<1>3. Len(d) \in Nat
  BY LenProperties DEF Drawings
<1> QED
  BY ONLY <1>1, <1>2, <1>3 DEF PaintSteps

\* What is drawn in two parts.
LEMMA PaintConcat ==
  ASSUME VGA_WIDTH \in Nat \ {0}, NEW m \in Screens, NEW a \in Drawings, NEW b \in Drawings
  PROVE  a \o b \in Drawings /\ Paint(m, a \o b) = Paint(Paint(m, a), b)
<1>1. PICK k, n, d, Q : k = Len(a) /\ n = Len(b) /\ d = a \o b /\ Q = StripSet
  OBVIOUS
<1>2. a \in Seq(Q) /\ b \in Seq(Q)
  BY ONLY <1>1, a \in Drawings, b \in Drawings DEF Drawings
<1>3. k \in Nat /\ n \in Nat
  BY ONLY <1>1, <1>2, LenProperties
<1>4. /\ d \in Seq(Q) /\ Len(d) = k + n
      /\ \A i \in 1 .. k + n : d[i] = IF i <= k THEN a[i] ELSE b[i - k]
  BY ONLY <1>1, <1>2, ConcatProperties
<1>5. d \in Drawings
  BY ONLY <1>1, <1>4 DEF Drawings
<1>6. PICK e : PaintSteps(e, m, d)
  BY ONLY <1>5, VGA_WIDTH \in Nat \ {0}, m \in Screens, PaintIs
<1>7. /\ e \in [0 .. k + n -> Screens] /\ e[0] = m
      /\ \A i \in 1 .. k + n : e[i] = Drawn(e[i - 1], d[i])
  BY ONLY <1>4, <1>6 DEF PaintSteps
<1>8. PICK f, g : f = [i \in 0 .. k |-> e[i]] /\ g = [i \in 0 .. n |-> e[k + i]]
  OBVIOUS
<1>9. PaintSteps(f, m, a)
  <2>1. \A i \in 0 .. k : i \in 0 .. k + n
    BY ONLY <1>3
  <2>2. \A i \in 1 .. k : i \in 1 .. k + n /\ i \in 0 .. k /\ i - 1 \in 0 .. k /\ i <= k
    BY ONLY <1>3
  <2>3. 0 \in 0 .. k
    BY ONLY <1>3
  <2> QED BY ONLY <1>1, <1>4, <1>7, <1>8, <2>1, <2>2, <2>3 DEF PaintSteps
<1>10. f[k] = Paint(m, a) /\ f[k] = e[k] /\ e[k] \in Screens
  <2>1. k \in 0 .. k /\ k \in 0 .. k + n
    BY ONLY <1>3
  <2>2. Paint(m, a) = f[Len(a)]
    BY ONLY <1>9, VGA_WIDTH \in Nat \ {0}, m \in Screens, a \in Drawings, PaintIs
  <2> QED BY ONLY <1>1, <1>7, <1>8, <2>1, <2>2
<1>11. PaintSteps(g, e[k], b)
  <2>1. \A i \in 0 .. n : k + i \in 0 .. k + n
    BY ONLY <1>3
  <2>2. \A i \in 1 .. n : /\ k + i \in 1 .. k + n /\ i \in 0 .. n /\ i - 1 \in 0 .. n
                          /\ ~ k + i <= k /\ k + i - k = i /\ k + i - 1 = k + (i - 1)
    BY ONLY <1>3
  <2>3. 0 \in 0 .. n /\ k + 0 = k
    BY ONLY <1>3
  <2>4. g \in [0 .. n -> Screens] /\ g[0] = e[k]
    BY ONLY <1>7, <1>8, <2>1, <2>3
  <2>5. ASSUME NEW i \in 1 .. n PROVE g[i] = Drawn(g[i - 1], b[i])
    <3>1. PICK j : j = k + i
      OBVIOUS
    <3>2. j \in 1 .. k + n /\ ~ j <= k /\ j - k = i /\ j - 1 = k + (i - 1)
          /\ i \in 0 .. n /\ i - 1 \in 0 .. n
      BY ONLY <1>3, <3>1, i \in 1 .. n
    <3>3. g[i] = e[j] /\ g[i - 1] = e[j - 1]
      BY ONLY <1>8, <3>1, <3>2
    <3>4. d[j] = b[i]
      BY ONLY <1>4, <3>2
    <3> QED BY ONLY <1>7, <3>2, <3>3, <3>4
  <2> QED BY ONLY <1>1, <2>4, <2>5 DEF PaintSteps
<1>12. Paint(e[k], b) = g[n]
  BY ONLY <1>1, <1>10, <1>11, VGA_WIDTH \in Nat \ {0}, b \in Drawings, PaintIs
<1>13. Paint(m, d) = e[k + n]
  BY ONLY <1>4, <1>5, <1>6, VGA_WIDTH \in Nat \ {0}, m \in Screens, PaintIs
<1>14. n \in 0 .. n
  BY ONLY <1>3
<1> QED
  BY ONLY <1>1, <1>5, <1>8, <1>10, <1>12, <1>13, <1>14

\* The strips of a drawing.
StripsOf(d) == {d[i] : i \in 1 .. Len(d)}

\* A drawing that writes rows from lo to hi only.
On(d, lo, hi) == d \in Drawings /\ \A s \in StripsOf(d) : s.y \in lo .. hi

\* It writes the cells from one to another of a row.
Covers(d, y, from, to) ==
  \A c \in from .. to : \E s \in StripsOf(d) : s.y = y /\ InStrip(s, c)

\* The strips of one drawing after another are those of both.
LEMMA ConcatStrips ==
  ASSUME NEW a \in Drawings, NEW b \in Drawings
  PROVE  a \o b \in Drawings /\ StripsOf(a \o b) = StripsOf(a) \cup StripsOf(b)
<1>1. PICK k, n, d, Q : k = Len(a) /\ n = Len(b) /\ d = a \o b /\ Q = StripSet
  OBVIOUS
<1>2. a \in Seq(Q) /\ b \in Seq(Q)
  BY ONLY <1>1, a \in Drawings, b \in Drawings DEF Drawings
<1>3. k \in Nat /\ n \in Nat
  BY ONLY <1>1, <1>2, LenProperties
<1>4. /\ d \in Seq(Q) /\ Len(d) = k + n
      /\ \A i \in 1 .. k + n : d[i] = IF i <= k THEN a[i] ELSE b[i - k]
  BY ONLY <1>1, <1>2, ConcatProperties
<1>5. ASSUME NEW s \in StripsOf(d) PROVE s \in StripsOf(a) \cup StripsOf(b)
  <2>1. PICK i \in 1 .. k + n : d[i] = s
    BY ONLY <1>4, <1>5 DEF StripsOf
  <2>2. CASE i <= k
    <3>1. i \in 1 .. k
      BY ONLY <1>3, <2>1, <2>2
    <3> QED BY ONLY <1>1, <1>4, <2>1, <2>2, <3>1 DEF StripsOf
  <2>3. CASE ~ i <= k
    <3>1. i - k \in 1 .. n
      BY ONLY <1>3, <2>1, <2>3
    <3> QED BY ONLY <1>1, <1>4, <2>1, <2>3, <3>1 DEF StripsOf
  <2> QED BY ONLY <2>2, <2>3
<1>6. ASSUME NEW s \in StripsOf(a) PROVE s \in StripsOf(d)
  <2>1. PICK i \in 1 .. k : a[i] = s
    BY ONLY <1>1, <1>6 DEF StripsOf
  <2>2. i \in 1 .. k + n /\ i <= k
    BY ONLY <1>3, <2>1
  <2> QED BY ONLY <1>4, <2>1, <2>2 DEF StripsOf
<1>7. ASSUME NEW s \in StripsOf(b) PROVE s \in StripsOf(d)
  <2>1. PICK i \in 1 .. n : b[i] = s
    BY ONLY <1>1, <1>7 DEF StripsOf
  <2>2. PICK j : j = k + i
    OBVIOUS
  <2>3. j \in 1 .. k + n /\ ~ j <= k /\ j - k = i
    BY ONLY <1>3, <2>1, <2>2
  <2>4. d[j] = s
    BY ONLY <1>4, <2>1, <2>3
  <2> QED BY ONLY <1>4, <2>3, <2>4 DEF StripsOf
<1>8. StripsOf(d) = StripsOf(a) \cup StripsOf(b)
  BY ONLY <1>5, <1>6, <1>7
<1> QED
  BY ONLY <1>1, <1>4, <1>8 DEF Drawings

\* Two drawings that keep to some rows keep to them together.
LEMMA ConcatOn ==
  \A lo, hi : \A a, b : On(a, lo, hi) /\ On(b, lo, hi) => On(a \o b, lo, hi)
BY ConcatStrips DEF On

\* A drawing of one strip.
LEMMA OneStrip ==
  ASSUME NEW s \in StripSet
  PROVE  /\ <<s>> \in Drawings /\ StripsOf(<<s>>) = {s}
         /\ \A lo, hi : s.y \in lo .. hi => On(<<s>>, lo, hi)
<1>1. <<s>> \in Drawings
  BY DEF Drawings
<1>2. PICK d : d = <<s>>
  OBVIOUS
<1>3. Len(d) = 1 /\ d[1] = s
  BY <1>2
<1>4. StripsOf(d) = {s}
  BY ONLY <1>3 DEF StripsOf
<1> QED
  BY ONLY <1>1, <1>2, <1>4 DEF On

\* It is painted by drawing the strip.
LEMMA PaintOne ==
  ASSUME VGA_WIDTH \in Nat \ {0}, NEW m \in Screens, NEW s \in StripSet
  PROVE  Paint(m, <<s>>) = Drawn(m, s)
<1>1. PICK d : d = <<s>>
  OBVIOUS
<1>2. Len(d) = 1 /\ d[1] = s /\ d \in Drawings
  BY <1>1, OneStrip
<1>3. PICK e : e = [i \in 0 .. 1 |-> IF i = 0 THEN m ELSE Drawn(m, s)]
  OBVIOUS
<1>4. Drawn(m, s) \in Screens
  BY DrawnScreen
<1>5. e \in [0 .. 1 -> Screens]
  BY ONLY <1>3, <1>4, m \in Screens
<1>6. e[0] = m /\ e[1] = Drawn(m, s)
  BY ONLY <1>3
<1>7. PaintSteps(e, m, d)
  <2>1. \A i \in 1 .. 1 : i = 1
    OBVIOUS
  <2> QED BY ONLY <1>2, <1>5, <1>6, <2>1 DEF PaintSteps
<1> QED
  BY ONLY <1>1, <1>2, <1>6, <1>7, VGA_WIDTH \in Nat \ {0}, m \in Screens, PaintIs

\* A row that no strip is on stays as it is.
LEMMA RowKept ==
  ASSUME VGA_WIDTH \in Nat \ {0}, NEW m \in Screens, NEW lo, NEW hi, NEW d, On(d, lo, hi),
         NEW y \in Rows, y \notin lo .. hi
  PROVE  Paint(m, d)[y] = m[y]
<1>1. PICK n : n = Len(d)
  OBVIOUS
<1>2. d \in Drawings /\ \A i \in 1 .. n : d[i].y # y
  BY ONLY <1>1, On(d, lo, hi), y \notin lo .. hi DEF On, StripsOf
<1>3. n \in Nat /\ \A i \in 1 .. n : d[i] \in StripSet
  BY <1>1, <1>2, LenProperties, ElementOfSeq DEF Drawings
<1>4. PICK e : PaintSteps(e, m, d)
  BY ONLY <1>2, VGA_WIDTH \in Nat \ {0}, m \in Screens, PaintIs
<1>5. e \in [0 .. n -> Screens] /\ e[0] = m /\ \A i \in 1 .. n : e[i] = Drawn(e[i - 1], d[i])
  BY ONLY <1>1, <1>4 DEF PaintSteps
<1> DEFINE A == {i \in 0 .. n : e[i][y] # m[y]}
<1>6. ASSUME NEW k \in A, \A j \in A : k <= j PROVE FALSE
  <2>1. k \in 1 .. n /\ k - 1 \in 0 .. n /\ k - 1 \notin A
    BY <1>3, <1>5, <1>6
  <2>2. e[k - 1][y] = m[y] /\ e[k - 1] \in Screens /\ e[k] = Drawn(e[k - 1], d[k])
        /\ d[k] \in StripSet /\ d[k].y # y
    BY <1>2, <1>3, <1>5, <2>1
  <2>3. e[k][y] = e[k - 1][y]
    BY ONLY <2>2, VGA_WIDTH \in Nat \ {0}, y \in Rows, DrawnScreen
  <2> QED BY <2>2, <2>3
<1>7. A \in SUBSET Nat
  OBVIOUS
<1>8. A = {}
  BY <1>6, <1>7, MinOfNaturals, ZenonT(60)
<1>9. e[n][y] = m[y]
  BY <1>3, <1>8
<1>10. Paint(m, d) = e[n]
  BY ONLY <1>1, <1>2, <1>4, VGA_WIDTH \in Nat \ {0}, m \in Screens, PaintIs
<1> QED
  BY <1>9, <1>10

\* Where a strip has been written nothing of what was there before is left.
LEMMA CoveredCells ==
  ASSUME VGA_WIDTH \in Nat \ {0}, NEW p \in Screens, NEW q \in Screens, NEW d \in Drawings,
         NEW y \in Rows, NEW c \in 1 .. VGA_WIDTH, Covers(d, y, c, c)
  PROVE  Paint(p, d)[y][c] = Paint(q, d)[y][c]
<1>1. PICK n, W : n = Len(d) /\ W = VGA_WIDTH
  OBVIOUS
<1>2. n \in Nat /\ W \in Nat \ {0} /\ \A i \in 1 .. n : d[i] \in StripSet
  BY <1>1, LenProperties, ElementOfSeq DEF Drawings
<1>3. PICK e : PaintSteps(e, p, d)
  BY ONLY d \in Drawings, VGA_WIDTH \in Nat \ {0}, p \in Screens, PaintIs
<1>4. PICK f : PaintSteps(f, q, d)
  BY ONLY d \in Drawings, VGA_WIDTH \in Nat \ {0}, q \in Screens, PaintIs
<1>5. e \in [0 .. n -> Screens] /\ \A i \in 1 .. n : e[i] = Drawn(e[i - 1], d[i])
  BY ONLY <1>1, <1>3 DEF PaintSteps
<1>6. f \in [0 .. n -> Screens] /\ \A i \in 1 .. n : f[i] = Drawn(f[i - 1], d[i])
  BY ONLY <1>1, <1>4 DEF PaintSteps
<1>7. PICK w \in 1 .. n : d[w].y = y /\ InStrip(d[w], c)
  <2>1. c \in c .. c
    BY <1>2
  <2> QED BY ONLY <1>1, <2>1, Covers(d, y, c, c) DEF Covers, StripsOf
<1>8. ASSUME NEW i \in 1 .. n, NEW g, g \in [0 .. n -> Screens], g[i] = Drawn(g[i - 1], d[i])
      PROVE  /\ (d[i].y = y /\ InStrip(d[i], c)) => g[i][y][c] = d[i].text[c - d[i].x]
             /\ ~ (d[i].y = y /\ InStrip(d[i], c)) => g[i][y][c] = g[i - 1][y][c]
  <2>1. PICK s, m : s = d[i] /\ m = g[i - 1]
    OBVIOUS
  <2>2. s \in StripSet /\ m \in Screens
    <3>1. i - 1 \in 0 .. n
      BY ONLY <1>2, i \in 1 .. n
    <3> QED BY ONLY <1>2, <1>8, <2>1, <3>1
  <2>3. g[i][y] = IF y = s.y /\ s.x < W THEN Stroke(m[y], s) ELSE m[y]
    BY ONLY <1>1, <1>8, <2>1, <2>2, VGA_WIDTH \in Nat \ {0}, y \in Rows, DrawnScreen
  <2>4. m[y] \in Row
    BY ONLY <2>2, y \in Rows DEF Screens
  <2>5. s.x < W => Stroke(m[y], s)[c] = IF InStrip(s, c) THEN s.text[c - s.x] ELSE m[y][c]
    BY ONLY <1>1, <2>2, <2>4, VGA_WIDTH \in Nat \ {0}, c \in 1 .. VGA_WIDTH, StrokeCells
  <2>6. InStrip(s, c) => s.x < W
    <3>1. s.x \in Nat
      BY ONLY <2>2 DEF StripSet
    <3> QED BY ONLY <1>1, <1>2, <3>1, c \in 1 .. VGA_WIDTH DEF InStrip
  <2> QED BY ONLY <2>1, <2>3, <2>5, <2>6
<1> DEFINE A == {i \in 0 .. n - w : e[w + i][y][c] # f[w + i][y][c]}
<1>9. ASSUME NEW k \in A, \A j \in A : k <= j PROVE FALSE
  <2>1. PICK i : i = w + k
    OBVIOUS
  <2>2. i \in 1 .. n /\ i - 1 \in 0 .. n
    BY <1>2, <1>9, <2>1
  <2>3. e[i][y][c] # f[i][y][c]
    BY <1>9, <2>1
  <2>4. ~ (d[i].y = y /\ InStrip(d[i], c))
    <3>1. ASSUME d[i].y = y, InStrip(d[i], c) PROVE FALSE
      <4>1. e[i][y][c] = d[i].text[c - d[i].x]
        BY ONLY <1>5, <1>8, <2>2, <3>1
      <4>2. f[i][y][c] = d[i].text[c - d[i].x]
        BY ONLY <1>6, <1>8, <2>2, <3>1
      <4> QED BY ONLY <2>3, <4>1, <4>2
    <3> QED BY ONLY <3>1
  <2>5. k # 0
    BY <1>2, <1>7, <2>1, <2>4
  <2>6. k - 1 \in 0 .. n - w /\ k - 1 \notin A /\ w + (k - 1) = i - 1
    BY <1>2, <1>9, <2>1, <2>5
  <2>7. e[i - 1][y][c] = f[i - 1][y][c]
    BY <2>6
  <2>8. e[i][y][c] = e[i - 1][y][c]
    BY ONLY <1>5, <1>8, <2>2, <2>4
  <2>9. f[i][y][c] = f[i - 1][y][c]
    BY ONLY <1>6, <1>8, <2>2, <2>4
  <2> QED BY ONLY <2>3, <2>7, <2>8, <2>9
<1>10. A \in SUBSET Nat
  OBVIOUS
<1>11. A = {}
  BY <1>9, <1>10, MinOfNaturals, ZenonT(60)
<1>12. n - w \in 0 .. n - w /\ w + (n - w) = n
  BY <1>2
<1>13. e[n][y][c] = f[n][y][c]
  BY <1>11, <1>12
<1>14. Paint(p, d) = e[n]
  BY ONLY <1>1, <1>3, d \in Drawings, VGA_WIDTH \in Nat \ {0}, p \in Screens, PaintIs
<1>15. Paint(q, d) = f[n]
  BY ONLY <1>1, <1>4, d \in Drawings, VGA_WIDTH \in Nat \ {0}, q \in Screens, PaintIs
<1> QED
  BY ONLY <1>13, <1>14, <1>15

\* A row that is covered whole looks the same whatever was there before: why a view
\* that is drawn leaves nothing of the one before it.
LEMMA CoveredRow ==
  ASSUME VGA_WIDTH \in Nat \ {0}, NEW p \in Screens, NEW q \in Screens, NEW d \in Drawings,
         NEW y \in Rows, Covers(d, y, 1, VGA_WIDTH)
  PROVE  Paint(p, d)[y] = Paint(q, d)[y]
<1>1. PICK W : W = VGA_WIDTH
  OBVIOUS
<1>2. Paint(p, d)[y] \in [1 .. W -> Char] /\ Paint(q, d)[y] \in [1 .. W -> Char]
  BY <1>1, PaintScreen DEF Screens, Row
<1>3. ASSUME NEW c \in 1 .. W PROVE Paint(p, d)[y][c] = Paint(q, d)[y][c]
  <2>1. Covers(d, y, c, c)
    <3>1. \A k \in c .. c : k = c
      BY <1>1
    <3> QED BY ONLY <1>1, <3>1, c \in 1 .. W, Covers(d, y, 1, VGA_WIDTH) DEF Covers
  <2> QED BY <1>1, <2>1, CoveredCells
<1>4. PICK u, v : u = Paint(p, d)[y] /\ v = Paint(q, d)[y]
  OBVIOUS
<1>5. W \in Nat /\ u \in [1 .. W -> Char] /\ v \in [1 .. W -> Char] /\ \A c \in 1 .. W : u[c] = v[c]
  BY ONLY <1>1, <1>2, <1>3, <1>4, VGA_WIDTH \in Nat \ {0}
<1>6. u = v
  BY ONLY <1>5
<1> QED
  BY ONLY <1>4, <1>6

\* What one of two drawings covers, both together cover.
LEMMA ConcatCovers ==
  \A y, from, to : \A a, b \in Drawings :
     Covers(a, y, from, to) \/ Covers(b, y, from, to) => Covers(a \o b, y, from, to)
BY ConcatStrips DEF Covers
-----------------------------------------------------------------------------
(***************************************************************************)
(* The texts and the strips of the views.                                  *)
(***************************************************************************)
\* Texts joined.
LEMMA ConcatText ==
  ASSUME NEW a \in Text, NEW b \in Text
  PROVE  a \o b \in Text /\ Len(a \o b) = Len(a) + Len(b)
BY ConcatProperties DEF Text

\* A character repeated.
LEMMA RepText ==
  ASSUME NEW ch \in Char, NEW n \in Nat
  PROVE  Rep(ch, n) \in Text /\ Len(Rep(ch, n)) = n /\ \A i \in 1 .. n : Rep(ch, n)[i] = ch
<1>1. PICK T, r : T = Char /\ r = Rep(ch, n)
  OBVIOUS
<1>2. r = [i \in 1 .. n |-> ch] /\ ch \in T
  BY <1>1 DEF Rep
<1>3. r \in [1 .. n -> T] /\ \A i \in 1 .. n : r[i] = ch
  BY ONLY <1>2
<1>4. r \in Seq(T) /\ Len(r) = n
  BY ONLY <1>3, n \in Nat
<1> QED
  BY ONLY <1>1, <1>3, <1>4 DEF Text

\* The words and the blanks of the views are as long as they say.
LEMMA WordText ==
  ASSUME NEW n \in Nat
  PROVE  /\ Word(n) \in Text /\ Len(Word(n)) = n
         /\ Blanks(n) \in Text /\ Len(Blanks(n)) = n
<1>1. "w" \in Char /\ " " \in Char
  BY ShellTextAssumption
<1>2. PICK a, b : a = "w" /\ b = " "
  OBVIOUS
<1>3. a \in Char /\ b \in Char
  BY ONLY <1>1, <1>2
<1>4. Rep(a, n) \in Text /\ Len(Rep(a, n)) = n /\ Rep(b, n) \in Text /\ Len(Rep(b, n)) = n
  BY ONLY <1>3, n \in Nat, RepText
<1> QED
  BY ONLY <1>2, <1>4 DEF Word, Blanks

\* The parts of a strip.
LEMMA StripIs ==
  ASSUME NEW x \in Nat, NEW y \in Nat, NEW t \in Text
  PROVE  /\ Strip(x, y, t) \in StripSet
         /\ Strip(x, y, t).x = x /\ Strip(x, y, t).y = y /\ Strip(x, y, t).text = t
BY DEF Strip, StripSet

\* A function from 1 .. n to strips is a drawing.
LEMMA StripsInARow ==
  ASSUME NEW n \in Nat, NEW f \in [1 .. n -> StripSet]
  PROVE  f \in Drawings /\ StripsOf(f) = {f[i] : i \in 1 .. n}
<1>1. PICK Q : Q = StripSet
  OBVIOUS
<1>2. f \in Seq(Q) /\ Len(f) = n
  BY ONLY <1>1, n \in Nat, f \in [1 .. n -> StripSet]
<1> QED
  BY ONLY <1>1, <1>2 DEF Drawings, StripsOf

\* So are two strips,
LEMMA TwoStrips ==
  ASSUME NEW s \in StripSet, NEW t \in StripSet
  PROVE  <<s, t>> \in Drawings /\ StripsOf(<<s, t>>) = {s, t} /\ <<s, t>> = <<s>> \o <<t>>
<1>1. PICK f : f = <<s, t>>
  OBVIOUS
<1>2. f \in [1 .. 2 -> StripSet] /\ f[1] = s /\ f[2] = t
  BY <1>1
<1>3. {f[i] : i \in 1 .. 2} = {s, t}
  BY ONLY <1>2
<1>4. f \in Drawings /\ StripsOf(f) = {s, t}
  BY ONLY <1>2, <1>3, StripsInARow
<1>5. f = <<s>> \o <<t>>
  <2>1. PICK g, h, Q : g = <<s>> /\ h = <<t>> /\ Q = StripSet
    OBVIOUS
  <2>2. g \in Seq(Q) /\ h \in Seq(Q) /\ f \in Seq(Q) /\ Len(g) = 1 /\ Len(h) = 1 /\ Len(f) = 2
        /\ g[1] = s /\ h[1] = t
    BY <1>1, <2>1
  <2>3. PICK k : k = g \o h
    OBVIOUS
  <2>4. k \in Seq(Q) /\ Len(k) = 1 + 1
        /\ \A i \in 1 .. 1 + 1 : k[i] = IF i <= 1 THEN g[i] ELSE h[i - 1]
    BY ONLY <2>2, <2>3, ConcatProperties
  <2>5. Len(k) = 2 /\ \A i \in 1 .. 2 : k[i] = f[i]
    BY ONLY <1>2, <2>2, <2>4
  <2>6. k = f
    BY ONLY <2>2, <2>4, <2>5, SeqEqual
  <2> QED BY ONLY <2>1, <2>3, <2>6
<1>6. <<s, t>> = <<s>> \o <<t>>
  BY ONLY <1>1, <1>5
<1> QED
  BY ONLY <1>1, <1>4, <1>6

\* and three.
LEMMA ThreeStrips ==
  ASSUME NEW s \in StripSet, NEW t \in StripSet, NEW u \in StripSet
  PROVE  <<s, t, u>> \in Drawings /\ StripsOf(<<s, t, u>>) = {s, t, u}
<1>1. PICK f : f = <<s, t, u>>
  OBVIOUS
<1>2. f \in [1 .. 3 -> StripSet] /\ f[1] = s /\ f[2] = t /\ f[3] = u
  BY <1>1
<1>3. {f[i] : i \in 1 .. 3} = {s, t, u}
  BY ONLY <1>2
<1>4. f \in Drawings /\ StripsOf(f) = {s, t, u}
  BY ONLY <1>2, <1>3, StripsInARow
<1> QED
  BY <1>1, <1>4

\* A text of one character.
LEMMA OneLetter ==
  ASSUME NEW ch \in Char
  PROVE  <<ch>> \in Text /\ Len(<<ch>>) = 1 /\ <<ch>>[1] = ch
<1>1. PICK T : T = Char
  OBVIOUS
<1>2. ch \in T
  BY <1>1
<1>3. <<ch>> \in Seq(T) /\ Len(<<ch>>) = 1 /\ <<ch>>[1] = ch
  BY ONLY <1>2
<1> QED
  BY ONLY <1>1, <1>3 DEF Text

\* The beginning of a text, as vga_printf and tui_printf_at cut it.
LEMMA PrefixText ==
  ASSUME NEW t \in Text, NEW n \in Nat, n <= Len(t)
  PROVE  SubSeq(t, 1, n) \in Text /\ Len(SubSeq(t, 1, n)) = n
         /\ \A i \in 1 .. n : SubSeq(t, 1, n)[i] = t[i]
<1>1. PICK T : T = Char
  OBVIOUS
<1>2. t \in Seq(T) /\ Len(t) \in Nat /\ t \in [1 .. Len(t) -> T]
  BY <1>1, LenProperties DEF Text
<1>3. \A i \in 0 + 1 .. 0 + n : t[i] \in T
  BY <1>2
<1>4. 0 + 1 = 1 /\ 0 + n = n /\ \A i \in 1 .. n : 0 + i = i
  OBVIOUS
<1>5. /\ SubSeq(t, 0 + 1, 0 + n) \in Seq(T) /\ Len(SubSeq(t, 0 + 1, 0 + n)) = n
      /\ \A i \in 1 .. n : SubSeq(t, 0 + 1, 0 + n)[i] = t[0 + i]
  <2>1. 0 \in Nat
    OBVIOUS
  <2> QED BY ONLY <1>3, <2>1, n \in Nat, Slice
<1> QED
  BY ONLY <1>1, <1>4, <1>5 DEF Text

\* tui_printf_at writes one row.
LEMMA PrintfOn ==
  ASSUME NEW x \in Nat, NEW y \in Nat, NEW t \in Text, NEW lo, NEW hi, y \in lo .. hi
  PROVE  On(tui_printf_at(x, y, t), lo, hi)
<1>1. PICK n : n = IF Len(t) < 80 THEN Len(t) ELSE 80
  OBVIOUS
<1>2. n \in Nat /\ n <= Len(t)
  <2>1. Len(t) \in Nat
    BY LenProperties DEF Text
  <2> QED BY <1>1, <2>1
<1>3. SubSeq(t, 1, n) \in Text
  BY <1>2, PrefixText
<1>4. PICK s : s = Strip(x, y, SubSeq(t, 1, n))
  OBVIOUS
<1>5. s \in StripSet /\ s.y = y
  BY <1>3, <1>4, StripIs
<1>6. tui_printf_at(x, y, t) = <<s>>
  BY ONLY <1>1, <1>4 DEF tui_printf_at
<1> QED
  BY ONLY <1>5, <1>6, y \in lo .. hi, OneStrip
-----------------------------------------------------------------------------
(***************************************************************************)
(* Numbers in decimal digits.                                              *)
(***************************************************************************)
\* A digit is a character.
LEMMA DigitText ==
  ASSUME NEW i \in 0 .. 9
  PROVE  Digit[i + 1] \in Char
<1>1. PICK d : d = Digit
  OBVIOUS
<1>2. /\ d[0 + 1] = "0" /\ d[1 + 1] = "1" /\ d[2 + 1] = "2" /\ d[3 + 1] = "3" /\ d[4 + 1] = "4"
      /\ d[5 + 1] = "5" /\ d[6 + 1] = "6" /\ d[7 + 1] = "7" /\ d[8 + 1] = "8" /\ d[9 + 1] = "9"
  BY <1>1 DEF Digit
<1>3. /\ "0" \in Char /\ "1" \in Char /\ "2" \in Char /\ "3" \in Char /\ "4" \in Char
      /\ "5" \in Char /\ "6" \in Char /\ "7" \in Char /\ "8" \in Char /\ "9" \in Char
  BY ONLY ShellTextAssumption
<1>4. i = 0 \/ i = 1 \/ i = 2 \/ i = 3 \/ i = 4 \/ i = 5 \/ i = 6 \/ i = 7 \/ i = 8 \/ i = 9
  OBVIOUS
<1> QED
  BY ONLY <1>1, <1>2, <1>3, <1>4

\* What the definition of Decimal says of a function f at n.
DecimalAt(f, n) ==
  f[n] = IF n < 10 THEN <<Digit[n + 1]>> ELSE Append(f[n \div 10], Digit[(n % 10) + 1])

\* And of one up to n.
DecimalUpTo(f, n) == f \in [0 .. n -> Text] /\ \A i \in 0 .. n : DecimalAt(f, i)

\* The recursion of Decimal goes down.
LEMMA TenthIsLess ==
  ASSUME NEW n \in Nat, ~ n < 10
  PROVE  n \div 10 \in 0 .. n - 1
<1>1. PICK q, r : q = n \div 10 /\ r = n % 10
  OBVIOUS
<1>2. q \in Nat /\ r \in 0 .. 9 /\ n = 10 * q + r
  BY <1>1
<1> QED
  BY ONLY <1>1, <1>2, n \in Nat, ~ n < 10

\* Two functions that do what Decimal says agree,
LEMMA DecimalUnique ==
  ASSUME NEW n \in Nat, NEW m \in Nat, NEW f, NEW g, DecimalUpTo(f, n), DecimalUpTo(g, m)
  PROVE  \A i \in 0 .. n : i <= m => f[i] = g[i]
<1> DEFINE A == {i \in 0 .. n : i <= m /\ f[i] # g[i]}
<1>1. ASSUME NEW k \in A, \A j \in A : k <= j PROVE FALSE
  <2>1. DecimalAt(f, k) /\ DecimalAt(g, k) /\ f[k] # g[k]
    BY DEF DecimalUpTo
  <2>2. CASE k < 10
    BY ONLY <2>1, <2>2 DEF DecimalAt
  <2>3. CASE ~ k < 10
    <3>1. k \div 10 \in 0 .. k - 1
      BY <2>3, TenthIsLess
    <3>2. k \div 10 \notin A /\ k \div 10 \in 0 .. n /\ k \div 10 <= m
      BY <1>1, <3>1
    <3>3. f[k \div 10] = g[k \div 10]
      BY <3>2
    <3> QED BY ONLY <2>1, <2>3, <3>3 DEF DecimalAt
  <2> QED BY <2>2, <2>3
<1>2. A \in SUBSET Nat
  OBVIOUS
<1>3. A = {}
  BY <1>1, <1>2, MinOfNaturals
<1> QED
  BY <1>3

\* and for every number there is one.
LEMMA DecimalExists ==
  ASSUME NEW n \in Nat
  PROVE  \E f : DecimalUpTo(f, n)
<1> DEFINE A == {i \in 0 .. n : ~ \E f : DecimalUpTo(f, i)}
<1>1. ASSUME NEW k \in A, \A j \in A : k <= j PROVE FALSE
  <2>1. PICK f : k # 0 => DecimalUpTo(f, k - 1)
    <3>1. k # 0 => k - 1 \in 0 .. n /\ k - 1 \notin A
      BY <1>1
    <3> QED BY <3>1
  <2>2. k \in Nat /\ \A i \in 0 .. k - 1 : f[i] \in Text /\ DecimalAt(f, i)
    BY <2>1 DEF DecimalUpTo
  <2>3. PICK t : t = IF k < 10 THEN <<Digit[k + 1]>>
                     ELSE Append(f[k \div 10], Digit[(k % 10) + 1])
    OBVIOUS
  <2>4. t \in Text
    <3>1. CASE k < 10
      <4>1. Digit[k + 1] \in Char
        BY ONLY <2>2, <3>1, DigitText
      <4> QED BY ONLY <2>3, <3>1, <4>1, OneLetter
    <3>2. CASE ~ k < 10
      <4>1. k \div 10 \in 0 .. k - 1
        BY ONLY <2>2, <3>2, TenthIsLess
      <4>2. Digit[(k % 10) + 1] \in Char
        <5>1. k % 10 \in 0 .. 9
          BY ONLY <2>2
        <5> QED BY ONLY <5>1, DigitText
      <4>3. f[k \div 10] \in Text
        BY ONLY <2>2, <4>1
      <4>4. Append(f[k \div 10], Digit[(k % 10) + 1]) \in Text
        BY ONLY <4>2, <4>3, AppendProperties DEF Text
      <4> QED BY ONLY <2>3, <3>2, <4>4
    <3> QED BY ONLY <3>1, <3>2
  <2>5. PICK g : g = [i \in 0 .. k |-> IF i = k THEN t ELSE f[i]]
    OBVIOUS
  <2>6. \A i \in 0 .. k : i = k \/ i \in 0 .. k - 1
    BY ONLY <2>2
  <2>7. k \in 0 .. k /\ \A i \in 0 .. k - 1 : i \in 0 .. k /\ i # k
    BY ONLY <2>2
  <2>8. g[k] = t /\ \A i \in 0 .. k - 1 : g[i] = f[i]
    BY ONLY <2>5, <2>7
  <2>9. g \in [0 .. k -> Text]
    BY ONLY <2>2, <2>4, <2>5, <2>6
  <2>10. ASSUME NEW i \in 0 .. k PROVE DecimalAt(g, i)
    <3>1. CASE i < 10
      <4>1. CASE i = k
        BY ONLY <2>3, <2>8, <3>1, <4>1 DEF DecimalAt
      <4>2. CASE i # k
        BY ONLY <2>2, <2>6, <2>8, <3>1, <4>2, i \in 0 .. k DEF DecimalAt
      <4> QED BY ONLY <4>1, <4>2
    <3>2. CASE ~ i < 10
      <4>1. i \div 10 \in 0 .. i - 1 /\ i \div 10 \in 0 .. k - 1
        <5>1. i \in Nat /\ i <= k
          BY ONLY <2>2, i \in 0 .. k
        <5>2. i \div 10 \in 0 .. i - 1
          BY ONLY <3>2, <5>1, TenthIsLess
        <5> QED BY ONLY <2>2, <5>1, <5>2
      <4>2. g[i \div 10] = f[i \div 10]
        BY ONLY <2>8, <4>1
      <4>3. CASE i = k
        BY ONLY <2>3, <2>8, <3>2, <4>2, <4>3 DEF DecimalAt
      <4>4. CASE i # k
        BY ONLY <2>2, <2>6, <2>8, <3>2, <4>2, <4>4, i \in 0 .. k DEF DecimalAt
      <4> QED BY ONLY <4>3, <4>4
    <3> QED BY ONLY <3>1, <3>2
  <2>11. DecimalUpTo(g, k)
    BY ONLY <2>9, <2>10 DEF DecimalUpTo
  <2> QED BY ONLY <2>11, k \in A
<1>2. A \in SUBSET Nat
  OBVIOUS
<1>3. A = {}
  BY <1>1, <1>2, MinOfNaturals
<1> QED
  BY <1>3

\* The digits of a number are a text.
LEMMA DecimalText ==
  \A n \in Nat : Decimal[n] \in Text
<1>1. PICK F : F = [n \in Nat |-> (CHOOSE f : DecimalUpTo(f, n))[n]]
  OBVIOUS
<1>2. ASSUME NEW n \in Nat, NEW f, DecimalUpTo(f, n) PROVE \A i \in 0 .. n : F[i] = f[i]
  <2>1. ASSUME NEW i \in 0 .. n PROVE F[i] = f[i]
    <3>1. i \in Nat /\ i \in 0 .. i /\ i <= n
      OBVIOUS
    <3>2. PICK g : g = CHOOSE h : DecimalUpTo(h, i)
      OBVIOUS
    <3>3. DecimalUpTo(g, i)
      BY ONLY <3>1, <3>2, DecimalExists
    <3>4. g[i] = f[i]
      BY ONLY <1>2, <3>1, <3>3, n \in Nat, DecimalUnique
    <3> QED BY ONLY <1>1, <3>1, <3>2, <3>4
  <2> QED BY ONLY <2>1
<1>3. ASSUME NEW n \in Nat PROVE F[n] \in Text /\ DecimalAt(F, n)
  <2>1. PICK f : DecimalUpTo(f, n)
    BY ONLY n \in Nat, DecimalExists
  <2>2. n \in 0 .. n /\ (~ n < 10 => n \div 10 \in 0 .. n)
    BY TenthIsLess
  <2>3. F[n] = f[n] /\ (~ n < 10 => F[n \div 10] = f[n \div 10])
    BY ONLY <1>2, <2>1, <2>2, n \in Nat
  <2>4. f[n] \in Text /\ DecimalAt(f, n)
    BY ONLY <2>1, <2>2 DEF DecimalUpTo
  <2>5. DecimalAt(F, n)
    <3>1. CASE n < 10
      BY ONLY <2>3, <2>4, <3>1 DEF DecimalAt
    <3>2. CASE ~ n < 10
      BY ONLY <2>3, <2>4, <3>2 DEF DecimalAt
    <3> QED BY ONLY <3>1, <3>2
  <2> QED BY ONLY <2>3, <2>4, <2>5
<1>4. F = [n \in Nat |-> IF n < 10 THEN <<Digit[n + 1]>>
                         ELSE Append(F[n \div 10], Digit[(n % 10) + 1])]
  <2>1. \A n \in Nat : F[n] = IF n < 10 THEN <<Digit[n + 1]>>
                              ELSE Append(F[n \div 10], Digit[(n % 10) + 1])
    BY ONLY <1>3 DEF DecimalAt
  <2> QED BY ONLY <1>1, <2>1
<1>5. Decimal = [n \in Nat |-> IF n < 10 THEN <<Digit[n + 1]>>
                               ELSE Append(Decimal[n \div 10], Digit[(n % 10) + 1])]
  BY ONLY <1>4 DEF Decimal
<1>6. ASSUME NEW n \in Nat PROVE Decimal[n] = F[n]
  <2>1. PICK f : DecimalUpTo(f, n)
    BY ONLY n \in Nat, DecimalExists
  <2> DEFINE A == {i \in 0 .. n : Decimal[i] # F[i]}
  <2>2. ASSUME NEW k \in A, \A j \in A : k <= j PROVE FALSE
    <3>1. k \in Nat /\ Decimal[k] # F[k] /\ DecimalAt(F, k)
      BY <1>3
    <3>2. Decimal[k] = IF k < 10 THEN <<Digit[k + 1]>>
                       ELSE Append(Decimal[k \div 10], Digit[(k % 10) + 1])
      BY ONLY <1>5, <3>1
    <3>3. CASE k < 10
      BY ONLY <3>1, <3>2, <3>3 DEF DecimalAt
    <3>4. CASE ~ k < 10
      <4>1. k \div 10 \in 0 .. k - 1
        BY ONLY <3>1, <3>4, TenthIsLess
      <4>2. k \div 10 \notin A /\ k \div 10 \in 0 .. n
        BY <2>2, <4>1
      <4>3. Decimal[k \div 10] = F[k \div 10]
        BY <4>2
      <4> QED BY ONLY <3>1, <3>2, <3>4, <4>3 DEF DecimalAt
    <3> QED BY ONLY <3>3, <3>4
  <2>3. A \in SUBSET Nat
    OBVIOUS
  <2>4. A = {}
    BY <2>2, <2>3, MinOfNaturals
  <2> QED BY <2>4
<1> QED
  BY ONLY <1>3, <1>6

\* ConcatText, for a list of texts at once.
LEMMA ConcatTexts == \A a, b \in Text : a \o b \in Text
BY ConcatText

\* What is drawn from a sample is made of texts.
LEMMA SampleTexts ==
  ASSUME NEW st \in Samples
  PROVE  /\ Percent(st.load) \in Text /\ UsedOfTotal(st) \in Text
         /\ \A n \in Nat : /\ Decimal[st.heap] \o Word(n) \in Text
                          /\ Decimal[st.secs] \o Word(n) \in Text
         /\ Decimal[st.ticks] \in Text /\ format_uptime(st.secs) \in Text
         /\ Len(format_uptime(st.secs)) = 8
         /\ Decimal[st.saved] \o Word(10) \o Decimal[st.ratio \div 100] \o <<".">>
              \o Decimal[(st.ratio % 100) \div 10] \o Word(2) \in Text
<1>1. PICK a, b, c, d, e, f, g, h :
        /\ a = st.load /\ b = st.secs /\ c = st.ticks /\ d = st.used /\ e = st.total
        /\ f = st.heap /\ g = st.saved /\ h = st.ratio
  OBVIOUS
<1>2. /\ a \in Nat /\ b \in Nat /\ c \in Nat /\ d \in Nat /\ e \in Nat
      /\ f \in Nat /\ g \in Nat /\ h \in Nat
  BY <1>1 DEF Samples
<1>3. h \div 100 \in Nat /\ (h % 100) \div 10 \in Nat
  BY ONLY <1>2
<1>4. \A n \in Nat : Word(n) \in Text
  BY ONLY WordText
<1>5. <<"%">> \in Text /\ <<"/">> \in Text /\ <<".">> \in Text /\ <<":">> \in Text
      /\ Len(<<":">>) = 1
  <2>1. "%" \in Char /\ "/" \in Char /\ "." \in Char /\ ":" \in Char
    BY ONLY ShellTextAssumption
  <2> QED BY ONLY <2>1, OneLetter
<1>6. Percent(a) \in Text
  BY ONLY <1>2, <1>5, DecimalText, ConcatTexts DEF Percent
<1>7. UsedOfTotal(st) \in Text
  <2>1. Decimal[d] \o <<"/">> \in Text
    BY ONLY <1>2, <1>5, DecimalText, ConcatTexts
  <2>2. Decimal[d] \o <<"/">> \o Decimal[e] \in Text
    BY ONLY <1>2, <2>1, DecimalText, ConcatTexts
  <2>3. Word(3) \in Text
    BY ONLY <1>4
  <2> QED BY ONLY <1>1, <2>2, <2>3, ConcatTexts DEF UsedOfTotal
<1>8. \A n \in Nat : Decimal[f] \o Word(n) \in Text /\ Decimal[b] \o Word(n) \in Text
  BY ONLY <1>2, <1>4, DecimalText, ConcatTexts
<1>9. ASSUME NEW n \in Nat PROVE TwoDigits(n) \in Text /\ Len(TwoDigits(n)) = 2
  <2>1. PICK u, v : u = (IF n < 100 THEN Digit[(n \div 10) + 1] ELSE "?") /\ v = Digit[(n % 10) + 1]
    OBVIOUS
  <2>2. u \in Char
    <3>1. CASE n < 100
      <4>1. n \div 10 \in 0 .. 9
        BY ONLY <3>1, n \in Nat
      <4> QED BY ONLY <2>1, <3>1, <4>1, DigitText
    <3>2. CASE ~ n < 100
      BY ONLY <2>1, <3>2, ShellTextAssumption
    <3> QED BY ONLY <3>1, <3>2
  <2>3. v \in Char
    <3>1. n % 10 \in 0 .. 9
      BY ONLY n \in Nat
    <3> QED BY ONLY <2>1, <3>1, DigitText
  <2>4. <<u, v>> \in Seq(Char) /\ Len(<<u, v>>) = 2
    BY ONLY <2>2, <2>3
  <2> QED BY ONLY <2>1, <2>4 DEF TwoDigits, Text
<1>10. format_uptime(b) \in Text /\ Len(format_uptime(b)) = 8
  <2>1. b \div 3600 \in Nat /\ (b % 3600) \div 60 \in Nat /\ b % 60 \in Nat
    BY ONLY <1>2
  <2>2. PICK i : i = TwoDigits(b \div 3600)
    OBVIOUS
  <2>3. PICK j : j = TwoDigits((b % 3600) \div 60)
    OBVIOUS
  <2>4. PICK k, m : k = TwoDigits(b % 60) /\ m = <<":">>
    OBVIOUS
  <2>5. /\ i \in Text /\ j \in Text /\ k \in Text /\ m \in Text
        /\ Len(i) = 2 /\ Len(j) = 2 /\ Len(k) = 2 /\ Len(m) = 1
    BY ONLY <1>5, <1>9, <2>1, <2>2, <2>3, <2>4
  <2>6. PICK p, q, r, t : p = i \o m /\ q = p \o j /\ r = q \o m /\ t = r \o k
    OBVIOUS
  <2>7. p \in Text /\ Len(p) = Len(i) + Len(m)
    BY ONLY <2>5, <2>6, ConcatText
  <2>8. q \in Text /\ Len(q) = Len(p) + Len(j)
    BY ONLY <2>5, <2>6, <2>7, ConcatText
  <2>9. r \in Text /\ Len(r) = Len(q) + Len(m)
    BY ONLY <2>5, <2>6, <2>8, ConcatText
  <2>10. t \in Text /\ Len(t) = Len(r) + Len(k)
    BY ONLY <2>5, <2>6, <2>9, ConcatText
  <2>11. Len(t) = 8
    BY ONLY <2>5, <2>7, <2>8, <2>9, <2>10
  <2>12. format_uptime(b) = t
    BY ONLY <2>2, <2>3, <2>4, <2>6 DEF format_uptime
  <2> QED BY ONLY <2>10, <2>11, <2>12
<1>11. Decimal[g] \o Word(10) \o Decimal[h \div 100] \o <<".">>
              \o Decimal[(h % 100) \div 10] \o Word(2) \in Text
  <2>1. PICK i, j, k, m, p, q : i = Decimal[g] /\ j = Word(10) /\ k = Decimal[h \div 100]
               /\ m = <<".">> /\ p = Decimal[(h % 100) \div 10] /\ q = Word(2)
    OBVIOUS
  <2>2. i \in Text /\ j \in Text /\ k \in Text /\ m \in Text /\ p \in Text /\ q \in Text
    BY ONLY <1>2, <1>3, <1>4, <1>5, <2>1, DecimalText
  <2>3. i \o j \o k \o m \o p \o q \in Text
    BY ONLY <2>2, ConcatTexts
  <2> QED BY ONLY <2>1, <2>3
<1>12. Decimal[c] \in Text
  BY ONLY <1>2, DecimalText
<1> QED
  BY ONLY <1>1, <1>6, <1>7, <1>8, <1>10, <1>11, <1>12

\* A box draws its own rows, and all their cells.
LEMMA BoxDraws ==
  ASSUME NEW x \in Nat, NEW y \in Nat, NEW w \in Nat, NEW h \in Nat, w >= 5, h >= 2,
         NEW title \in Text
  PROVE  /\ On(tui_draw_box(x, y, w, h, title), y, y + h - 1)
         /\ \A r \in y .. y + h - 1 : Covers(tui_draw_box(x, y, w, h, title), r, x + 1, x + w)
<1>1. PICK Border, shown, Inside :
        /\ Border = <<"+">> \o Rep("-", w - 2) \o <<"+">>
        /\ shown = SubSeq(title, 1, IF Len(title) < w - 5 THEN Len(title) ELSE w - 5)
        /\ Inside = <<"|">> \o Blanks(w - 2) \o <<"|">>
  OBVIOUS
<1>2. <<"+">> \in Text /\ <<"|">> \in Text /\ <<" ">> \in Text /\ "-" \in Char
      /\ Len(<<"+">>) = 1 /\ Len(<<"|">>) = 1
  <2>1. "+" \in Char /\ "|" \in Char /\ " " \in Char /\ "-" \in Char
    BY ONLY ShellTextAssumption
  <2> QED BY ONLY <2>1, OneLetter
<1>3. w - 2 \in Nat /\ h - 2 \in Nat
  BY ONLY w \in Nat, h \in Nat, w >= 5, h >= 2
<1>4. Border \in Text /\ Len(Border) = w
  <2>1. PICK a, b : a = <<"+">> /\ b = Rep("-", w - 2)
    OBVIOUS
  <2>2. a \in Text /\ Len(a) = 1 /\ b \in Text /\ Len(b) = w - 2
    <3>1. PICK ch, k : ch = "-" /\ k = w - 2
      OBVIOUS
    <3>2. ch \in Char /\ k \in Nat
      BY ONLY <1>2, <1>3, <3>1
    <3> QED BY ONLY <1>2, <2>1, <3>1, <3>2, RepText
  <2>3. a \o b \in Text /\ Len(a \o b) = w - 1
    <3>1. Len(a \o b) = 1 + (w - 2) /\ a \o b \in Text
      BY ONLY <2>2, ConcatText, ZenonT(60)
    <3> QED BY ONLY <3>1, w \in Nat
  <2>4. a \o b \o a \in Text /\ Len(a \o b \o a) = w - 1 + 1
    BY ONLY <2>2, <2>3, ConcatText
  <2> QED BY ONLY <1>1, <2>1, <2>4, w \in Nat
<1>5. Inside \in Text /\ Len(Inside) = w
  <2>1. PICK a, b : a = <<"|">> /\ b = Blanks(w - 2)
    OBVIOUS
  <2>2. a \in Text /\ Len(a) = 1 /\ b \in Text /\ Len(b) = w - 2
    BY ONLY <1>2, <1>3, <2>1, WordText
  <2>3. a \o b \in Text /\ Len(a \o b) = w - 1
    <3>1. Len(a \o b) = 1 + (w - 2) /\ a \o b \in Text
      BY ONLY <2>2, ConcatText, ZenonT(60)
    <3> QED BY ONLY <3>1, w \in Nat
  <2>4. a \o b \o a \in Text /\ Len(a \o b \o a) = w - 1 + 1
    BY ONLY <2>2, <2>3, ConcatText
  <2> QED BY ONLY <1>1, <2>1, <2>4, w \in Nat
<1>6. <<" ">> \o shown \o <<" ">> \in Text
  <2>1. PICK k : k = IF Len(title) < w - 5 THEN Len(title) ELSE w - 5
    OBVIOUS
  <2>2. Len(title) \in Nat
    BY LenProperties DEF Text
  <2>3. k \in Nat /\ k <= Len(title)
    BY ONLY <2>1, <2>2, w \in Nat, w >= 5
  <2>4. shown \in Text
    BY ONLY <1>1, <2>1, <2>3, title \in Text, PrefixText
  <2> QED BY ONLY <1>2, <2>4, ConcatTexts
<1>7. PICK top, name, low : /\ top = Strip(x, y, Border)
                            /\ name = Strip(x + 2, y, <<" ">> \o shown \o <<" ">>)
                            /\ low = Strip(x, y + h - 1, Border)
  OBVIOUS
<1>8. PICK side : side = [j \in 1 .. h - 2 |-> Strip(x, y + j, Inside)]
  OBVIOUS
<1>9. /\ top \in StripSet /\ top.x = x /\ top.y = y /\ top.text = Border
      /\ name \in StripSet /\ name.y = y
      /\ low \in StripSet /\ low.x = x /\ low.y = y + h - 1 /\ low.text = Border
  <2>1. x + 2 \in Nat /\ y + h - 1 \in Nat
    BY ONLY x \in Nat, y \in Nat, h \in Nat, h >= 2
  <2>2. top \in StripSet /\ top.x = x /\ top.y = y /\ top.text = Border
    <3>1. Border \in Text
      BY ONLY <1>4
    <3>2. /\ Strip(x, y, Border) \in StripSet
           /\ Strip(x, y, Border).x = x /\ Strip(x, y, Border).y = y
          /\ Strip(x, y, Border).text = Border
      BY ONLY <3>1, StripIs, x \in Nat, y \in Nat
    <3>3. top = Strip(x, y, Border)
      BY ONLY <1>7
    <3> QED BY ONLY <3>2, <3>3
  <2>3. name \in StripSet /\ name.y = y
    <3>1. PICK t, u : t = <<" ">> \o shown \o <<" ">> /\ u = x + 2
      OBVIOUS
    <3>2. t \in Text /\ u \in Nat
      BY ONLY <1>6, <2>1, <3>1
    <3>3. Strip(u, y, t) \in StripSet /\ Strip(u, y, t).y = y
      BY ONLY <3>2, StripIs, y \in Nat
    <3>4. name = Strip(u, y, t)
      BY ONLY <1>7, <3>1
    <3> QED BY ONLY <3>3, <3>4
  <2>4. low \in StripSet /\ low.x = x /\ low.y = y + h - 1 /\ low.text = Border
    <3>1. PICK u : u = y + h - 1
      OBVIOUS
    <3>2. Border \in Text /\ u \in Nat
      BY ONLY <1>4, <2>1, <3>1
    <3>3. /\ Strip(x, u, Border) \in StripSet
           /\ Strip(x, u, Border).x = x /\ Strip(x, u, Border).y = u
          /\ Strip(x, u, Border).text = Border
      BY ONLY <3>2, StripIs, x \in Nat
    <3>4. low = Strip(x, u, Border)
      BY ONLY <1>7, <3>1
    <3> QED BY ONLY <3>1, <3>3, <3>4
  <2> QED BY ONLY <2>2, <2>3, <2>4
<1>10. \A j \in 1 .. h - 2 : /\ side[j] \in StripSet /\ side[j].x = x /\ side[j].y = y + j
                             /\ side[j].text = Inside
  <2>1. ASSUME NEW j \in 1 .. h - 2
        PROVE  side[j] \in StripSet /\ side[j].x = x /\ side[j].y = y + j
               /\ side[j].text = Inside
    <3>1. y + j \in Nat
      BY ONLY <1>3, y \in Nat, j \in 1 .. h - 2
    <3> QED BY ONLY <1>5, <1>8, <3>1, StripIs, x \in Nat, j \in 1 .. h - 2
  <2> QED BY ONLY <2>1
<1>11. side \in Drawings /\ StripsOf(side) = {side[j] : j \in 1 .. h - 2}
  <2>1. side \in [1 .. h - 2 -> StripSet]
    BY ONLY <1>8, <1>10
  <2> QED BY ONLY <1>3, <2>1, StripsInARow
<1>12. PICK d : d = tui_draw_box(x, y, w, h, title)
  OBVIOUS
<1>13. d = <<top, name>> \o side \o <<low>>
  <2>1. ~ (w < 2 \/ h < 2)
    BY ONLY w \in Nat, h \in Nat, w >= 5, h >= 2
  <2> QED BY ONLY <1>1, <1>7, <1>8, <1>12, <2>1 DEF tui_draw_box
<1>14. d \in Drawings /\ StripsOf(d) = {top, name} \cup {side[j] : j \in 1 .. h - 2} \cup {low}
  <2>1. PICK a, b : a = <<top, name>> /\ b = <<low>>
    OBVIOUS
  <2>2. a \in Drawings /\ StripsOf(a) = {top, name} /\ b \in Drawings /\ StripsOf(b) = {low}
    BY ONLY <1>9, <2>1, TwoStrips, OneStrip
  <2>3. a \o side \in Drawings /\ StripsOf(a \o side) = StripsOf(a) \cup StripsOf(side)
    BY ONLY <1>11, <2>2, ConcatStrips
  <2>4. a \o side \o b \in Drawings
        /\ StripsOf(a \o side \o b) = StripsOf(a \o side) \cup StripsOf(b)
    BY ONLY <2>2, <2>3, ConcatStrips
  <2> QED BY ONLY <1>11, <1>13, <2>1, <2>2, <2>3, <2>4
<1>15. On(d, y, y + h - 1)
  <2>1. \A s \in StripsOf(d) : s.y \in y .. y + h - 1
    <3>1. y \in y .. y + h - 1 /\ y + h - 1 \in y .. y + h - 1
          /\ \A j \in 1 .. h - 2 : y + j \in y .. y + h - 1
      BY ONLY y \in Nat, h \in Nat, h >= 2
    <3> QED BY ONLY <1>9, <1>10, <1>14, <3>1
  <2> QED BY ONLY <1>14, <2>1 DEF On
<1>16. ASSUME NEW r \in y .. y + h - 1, NEW c \in x + 1 .. x + w
       PROVE  \E s \in StripsOf(d) : s.y = r /\ InStrip(s, c)
  <2>1. x < c /\ c <= x + w
    BY ONLY x \in Nat, w \in Nat, c \in x + 1 .. x + w
  <2>2. r = y \/ r = y + h - 1 \/ \E j \in 1 .. h - 2 : r = y + j
    <3>1. r # y /\ r # y + h - 1 => r - y \in 1 .. h - 2 /\ r = y + (r - y)
      BY ONLY y \in Nat, h \in Nat, h >= 2, r \in y .. y + h - 1
    <3> QED BY ONLY <3>1
  <2>3. CASE r = y
    <3>1. InStrip(top, c)
      BY ONLY <1>4, <1>9, <2>1 DEF InStrip
    <3> QED BY ONLY <1>9, <1>14, <2>3, <3>1
  <2>4. CASE r = y + h - 1
    <3>1. InStrip(low, c)
      BY ONLY <1>4, <1>9, <2>1 DEF InStrip
    <3> QED BY ONLY <1>9, <1>14, <2>4, <3>1
  <2>5. CASE \E j \in 1 .. h - 2 : r = y + j
    <3>1. PICK j \in 1 .. h - 2 : r = y + j
      BY ONLY <2>5
    <3>2. InStrip(side[j], c)
      BY ONLY <1>5, <1>10, <2>1, j \in 1 .. h - 2 DEF InStrip
    <3>3. side[j] \in StripsOf(d) /\ side[j].y = r
      BY ONLY <1>10, <1>14, <3>1
    <3> QED BY ONLY <3>2, <3>3
  <2> QED BY ONLY <2>2, <2>3, <2>4, <2>5
<1> QED
  BY ONLY <1>12, <1>15, <1>16 DEF Covers
-----------------------------------------------------------------------------
(***************************************************************************)
(* What the parts of the views cover.                                      *)
(***************************************************************************)
\* A drawing that writes the rows from lo to hi, and in each the cells from one to
\* another.
Fills(d, lo, hi, from, to) ==
  On(d, lo, hi) /\ \A y \in lo .. hi : Covers(d, y, from, to)

\* What is drawn over it within its rows leaves it so.
LEMMA FillsThen ==
  \A lo, hi, from, to : \A a, b :
     Fills(a, lo, hi, from, to) /\ On(b, lo, hi) => Fills(a \o b, lo, hi, from, to)
<1>1. ASSUME NEW lo, NEW hi, NEW from, NEW to, NEW a, NEW b, Fills(a, lo, hi, from, to),
             On(b, lo, hi)
      PROVE  Fills(a \o b, lo, hi, from, to)
  <2>1. a \in Drawings /\ b \in Drawings /\ On(a, lo, hi)
        /\ \A y \in lo .. hi : Covers(a, y, from, to)
    BY ONLY <1>1 DEF Fills, On
  <2>2. On(a \o b, lo, hi)
    BY ONLY <1>1, <2>1, ConcatOn
  <2>3. \A y \in lo .. hi : Covers(a \o b, y, from, to)
    BY ONLY <2>1, ConcatCovers
  <2> QED BY ONLY <2>2, <2>3 DEF Fills
<1> QED
  BY ONLY <1>1

\* tui_draw_box fills its rows from its left to its right edge.
LEMMA BoxFills ==
  ASSUME NEW x \in Nat, NEW y \in Nat, NEW w \in Nat, NEW h \in Nat, w >= 5, h >= 2,
         NEW n \in Nat, NEW hi, hi = y + h - 1, NEW to, to = x + w
  PROVE  Fills(tui_draw_box(x, y, w, h, Word(n)), y, hi, x + 1, to)
<1>1. Word(n) \in Text
  BY WordText
<1> QED
  BY <1>1, BoxDraws DEF Fills

\* tui_draw_header fills the first row.
LEMMA HeaderFills ==
  ASSUME NEW title \in Text, NEW subtitle \in Text, Len(subtitle) <= 78
  PROVE  Fills(tui_draw_header(title, subtitle), 0, 0, 1, 80)
<1>1. PICK a, b, c : /\ a = Strip(0, 0, Blanks(80)) /\ b = Strip(1, 0, title)
                     /\ c = Strip(80 - Len(subtitle) - 2, 0, subtitle)
  OBVIOUS
<1>2. 80 - Len(subtitle) - 2 \in Nat
  <2>1. Len(subtitle) \in Nat
    BY LenProperties DEF Text
  <2> QED BY ONLY <2>1, Len(subtitle) <= 78
<1>3. Blanks(80) \in Text /\ Len(Blanks(80)) = 80
  BY ONLY WordText
<1>4. a \in StripSet /\ a.x = 0 /\ a.y = 0 /\ a.text = Blanks(80)
  <2>1. 0 \in Nat
    OBVIOUS
  <2>2. /\ Strip(0, 0, Blanks(80)) \in StripSet /\ Strip(0, 0, Blanks(80)).x = 0
        /\ Strip(0, 0, Blanks(80)).y = 0 /\ Strip(0, 0, Blanks(80)).text = Blanks(80)
    BY ONLY <1>3, <2>1, StripIs
  <2>3. a = Strip(0, 0, Blanks(80))
    BY ONLY <1>1
  <2> QED BY ONLY <2>2, <2>3
<1>5. b \in StripSet /\ b.y = 0
  <2>1. 0 \in Nat /\ 1 \in Nat
    OBVIOUS
  <2>2. Strip(1, 0, title) \in StripSet /\ Strip(1, 0, title).y = 0
    BY ONLY <2>1, StripIs, title \in Text
  <2> QED BY ONLY <1>1, <2>2
<1>6. c \in StripSet /\ c.y = 0
  <2>1. 0 \in Nat
    OBVIOUS
  <2>2. PICK u : u = 80 - Len(subtitle) - 2
    OBVIOUS
  <2>3. u \in Nat
    BY ONLY <1>2, <2>2
  <2>4. Strip(u, 0, subtitle) \in StripSet /\ Strip(u, 0, subtitle).y = 0
    BY ONLY <2>1, <2>3, StripIs, subtitle \in Text
  <2> QED BY ONLY <1>1, <2>2, <2>4
<1>7. PICK d : d = tui_draw_header(title, subtitle)
  OBVIOUS
<1>8. d = <<a, b, c>>
  BY ONLY <1>1, <1>7, ShellSizes DEF tui_draw_header
<1>9. d \in Drawings /\ StripsOf(d) = {a, b, c}
  BY ONLY <1>4, <1>5, <1>6, <1>8, ThreeStrips
<1>10. On(d, 0, 0)
  <2>1. 0 \in 0 .. 0
    OBVIOUS
  <2> QED BY ONLY <1>4, <1>5, <1>6, <1>9, <2>1 DEF On
<1>11. \A k \in 1 .. 80 : InStrip(a, k)
  <2>1. ASSUME NEW k \in 1 .. 80 PROVE 0 < k /\ k <= 0 + 80
    OBVIOUS
  <2>2. a.x = 0 /\ Len(a.text) = 80
    BY ONLY <1>3, <1>4
  <2> QED BY ONLY <2>1, <2>2 DEF InStrip
<1>12. \A y \in 0 .. 0 : y = 0
  OBVIOUS
<1>13. \A y \in 0 .. 0 : Covers(d, y, 1, 80)
  BY ONLY <1>4, <1>9, <1>11, <1>12 DEF Covers
<1> QED
  BY ONLY <1>7, <1>10, <1>13 DEF Fills

\* tui_draw_footer fills the last row.
LEMMA FooterFills ==
  ASSUME NEW hints \in Text
  PROVE  Fills(tui_draw_footer(hints), 24, 24, 1, 80)
<1>1. PICK a, b : a = Strip(0, 24, Blanks(80)) /\ b = Strip(2, 24, hints)
  OBVIOUS
<1>2. Blanks(80) \in Text /\ Len(Blanks(80)) = 80
  BY ONLY WordText
<1>3. 0 \in Nat /\ 2 \in Nat /\ 24 \in Nat
  OBVIOUS
<1>4. a \in StripSet /\ a.x = 0 /\ a.y = 24 /\ a.text = Blanks(80)
  <2>1. /\ Strip(0, 24, Blanks(80)) \in StripSet /\ Strip(0, 24, Blanks(80)).x = 0
        /\ Strip(0, 24, Blanks(80)).y = 24 /\ Strip(0, 24, Blanks(80)).text = Blanks(80)
    BY ONLY <1>2, <1>3, StripIs
  <2>2. a = Strip(0, 24, Blanks(80))
    BY ONLY <1>1
  <2> QED BY ONLY <2>1, <2>2
<1>5. b \in StripSet /\ b.y = 24
  <2>1. Strip(2, 24, hints) \in StripSet /\ Strip(2, 24, hints).y = 24
    BY ONLY <1>3, StripIs, hints \in Text
  <2> QED BY ONLY <1>1, <2>1
<1>6. PICK d : d = tui_draw_footer(hints)
  OBVIOUS
<1>7. d = <<a, b>>
  <2>1. VGA_WIDTH = 80 /\ VGA_HEIGHT - 1 = 24
    BY ONLY ShellSizes
  <2> QED BY ONLY <1>1, <1>6, <2>1 DEF tui_draw_footer
<1>8. d \in Drawings /\ StripsOf(d) = {a, b}
  BY ONLY <1>4, <1>5, <1>7, TwoStrips
<1>9. On(d, 24, 24)
  <2>1. 24 \in 24 .. 24
    OBVIOUS
  <2> QED BY ONLY <1>4, <1>5, <1>8, <2>1 DEF On
<1>10. \A k \in 1 .. 80 : InStrip(a, k)
  <2>1. ASSUME NEW k \in 1 .. 80 PROVE 0 < k /\ k <= 0 + 80
    OBVIOUS
  <2>2. a.x = 0 /\ Len(a.text) = 80
    BY ONLY <1>2, <1>4
  <2> QED BY ONLY <2>1, <2>2 DEF InStrip
<1>11. \A y \in 24 .. 24 : y = 24
  OBVIOUS
<1>12. \A y \in 24 .. 24 : Covers(d, y, 1, 80)
  BY ONLY <1>4, <1>8, <1>10, <1>11 DEF Covers
<1> QED
  BY ONLY <1>6, <1>9, <1>12 DEF Fills

\* A strip keeps to its row,
LEMMA StripOn ==
  ASSUME NEW x \in Nat, NEW y \in Nat, NEW t \in Text, NEW lo, NEW hi, y \in lo .. hi
  PROVE  On(<<Strip(x, y, t)>>, lo, hi)
<1>1. Strip(x, y, t) \in StripSet /\ Strip(x, y, t).y = y
  BY StripIs
<1> QED
  BY ONLY <1>1, OneStrip, y \in lo .. hi

\* and so does a bar (tui_draw_bar).
LEMMA BarOn ==
  ASSUME NEW x \in Nat, NEW y \in Nat, NEW width \in Nat, NEW val \in Nat, NEW max \in Nat,
         NEW lo, NEW hi, y \in lo .. hi
  PROVE  On(tui_draw_bar(x, y, width, val, max), lo, hi)
<1>1. PICK share : share = ((val * width) % U32) \div max
  OBVIOUS
<1>2. PICK filled : filled = IF share > width THEN width ELSE share
  OBVIOUS
<1>3. CASE width <= 0 \/ max = 0
  <2>1. tui_draw_bar(x, y, width, val, max) = << >>
    BY ONLY <1>3 DEF tui_draw_bar
  <2>2. << >> \in Drawings /\ StripsOf(<< >>) = {}
    BY DEF Drawings, StripsOf
  <2> QED BY ONLY <2>1, <2>2 DEF On
<1>4. CASE ~ (width <= 0 \/ max = 0)
  <2>1. share \in Nat
    <3>1. PICK p : p = val * width
      OBVIOUS
    <3>2. p \in Nat
      BY ONLY <3>1, val \in Nat, width \in Nat
    <3>3. p % U32 \in Nat
      <4>1. U32 \in Nat \ {0}
        BY ONLY ShellTextAssumption
      <4> QED BY ONLY <3>2, <4>1
    <3>4. (p % U32) \div max \in Nat
      BY ONLY <1>4, <3>3, max \in Nat
    <3> QED BY ONLY <1>1, <3>1, <3>4
  <2>2. filled \in Nat /\ width - filled \in Nat
    BY ONLY <1>2, <2>1, width \in Nat
  <2>3. PICK a, b, k : a = "#" /\ b = "." /\ k = width - filled
    OBVIOUS
  <2>4. a \in Char /\ b \in Char /\ k \in Nat
    BY ONLY <2>2, <2>3, ShellTextAssumption
  <2>5. Rep(a, filled) \in Text /\ Rep(b, k) \in Text
    BY ONLY <2>2, <2>4, RepText
  <2>6. Rep(a, filled) \o Rep(b, k) \in Text
    BY ONLY <2>5, ConcatTexts
  <2>7. tui_draw_bar(x, y, width, val, max) = <<Strip(x, y, Rep(a, filled) \o Rep(b, k))>>
    BY ONLY <1>1, <1>2, <1>4, <2>3 DEF tui_draw_bar
  <2> QED BY ONLY <2>6, <2>7, StripOn, x \in Nat, y \in Nat, y \in lo .. hi
<1> QED
  BY ONLY <1>3, <1>4

\* What the log may be.
Logs == [lines : [1 .. LOG_LINES -> Messages], count : 0 .. LOG_LINES]

\* A line of the shell is a text that leaves room for its end in cmd_buf.
LEMMA LineText ==
  ASSUME NEW cmd \in Lines
  PROVE  cmd \in Text /\ Len(cmd) \in 0 .. CMD_MAX - 1 /\ Len(cmd) \in 0 .. 63
<1>1. PICK n \in 0 .. CMD_MAX - 1 : cmd \in [1 .. n -> Letters]
  BY DEF Lines
<1>2. CMD_MAX \in 1 .. 64 /\ Letters \subseteq Char
  BY ShellAssumption, ShellTextAssumption
<1>3. n \in Nat /\ n \in 0 .. 63
  BY ONLY <1>2, n \in 0 .. CMD_MAX - 1
<1>4. PICK T : T = Char
  OBVIOUS
<1>5. cmd \in [1 .. n -> T]
  BY ONLY <1>1, <1>2, <1>4
<1>6. cmd \in Seq(T) /\ Len(cmd) = n
  BY ONLY <1>3, <1>5
<1> QED
  BY ONLY <1>3, <1>4, <1>6, n \in 0 .. CMD_MAX - 1 DEF Text

\* A message is a text that fits the log window.
LEMMA MessageText ==
  ASSUME NEW msg \in Messages
  PROVE  msg \in Text /\ Len(msg) \in 0 .. 76 /\ 76 - Len(msg) \in Nat
<1>1. msg \in Seq(Char) /\ Len(msg) <= 76
  BY DEF Messages
<1>2. PICK n : n = Len(msg)
  OBVIOUS
<1>3. n \in Nat /\ n <= 76
  BY ONLY <1>1, <1>2, LenProperties
<1>4. n \in 0 .. 76 /\ 76 - n \in Nat
  BY ONLY <1>3
<1> QED
  BY ONLY <1>1, <1>2, <1>4 DEF Text

\* No text at all is both.
LEMMA NoText == << >> \in Text /\ Len(<< >>) = 0 /\ << >> \in Messages
<1>1. << >> \in Seq(Char) /\ Len(<< >>) = 0
  BY EmptySeq
<1> QED
  BY ONLY <1>1 DEF Text, Messages

\* The status bar fills its rows.
LEMMA StatusFills ==
  ASSUME NEW st \in Samples
  PROVE  Fills(StatusStrips(st), 1, 5, 1, 80)
<1>1. PICK p1, p2, p3, p4, p5 :
        /\ p1 = Percent(st.load) /\ p2 = UsedOfTotal(st) /\ p3 = Decimal[st.ticks]
        /\ p4 = Decimal[st.heap] \o Word(3) /\ p5 = Decimal[st.secs] \o Word(2)
  OBVIOUS
<1>2. p1 \in Text /\ p2 \in Text /\ p3 \in Text /\ p4 \in Text /\ p5 \in Text
  BY <1>1, SampleTexts
<1>3. PICK w5, w6, w7, w8, w10, w12 :
        /\ w5 = Word(5) /\ w6 = Word(6) /\ w7 = Word(7) /\ w8 = Word(8) /\ w10 = Word(10)
        /\ w12 = Word(12)
  OBVIOUS
<1>4. /\ w5 \in Text /\ w6 \in Text /\ w7 \in Text /\ w8 \in Text /\ w10 \in Text
      /\ w12 \in Text
  BY ONLY <1>3, WordText
<1>5. PICK a : a = tui_draw_box(0, 1, 80, 5, Word(15))
  OBVIOUS
<1>6. Fills(a, 1, 5, 1, 80)
  <2>1. /\ 0 \in Nat /\ 1 \in Nat /\ 80 \in Nat /\ 5 \in Nat /\ 80 >= 5 /\ 5 >= 2 /\ 15 \in Nat
        /\ 5 = 1 + 5 - 1 /\ 80 = 0 + 80 /\ 0 + 1 = 1
    OBVIOUS
  <2>2. Fills(a, 1, 5, 0 + 1, 80)
    BY ONLY <1>5, <2>1, BoxFills
  <2> QED BY ONLY <2>1, <2>2
<1>7. \A x \in Nat : \A t \in Text : /\ On(tui_printf_at(x, 2, t), 1, 5)
                                     /\ On(tui_printf_at(x, 3, t), 1, 5)
  <2>1. 2 \in 1 .. 5 /\ 3 \in 1 .. 5 /\ 2 \in Nat /\ 3 \in Nat
    OBVIOUS
  <2> QED BY ONLY <2>1, PrintfOn
<1>8. PICK d1, d2, d3, d4, d5, d6, d7, d8 :
        /\ d1 = tui_printf_at(2, 2, w10) /\ d2 = tui_printf_at(12, 2, p1)
        /\ d3 = tui_printf_at(20, 2, w8) /\ d4 = tui_printf_at(28, 2, p5)
        /\ d5 = tui_printf_at(40, 2, w7) /\ d6 = tui_printf_at(47, 2, p3)
        /\ d7 = tui_printf_at(60, 2, w5) /\ d8 = tui_printf_at(65, 2, w7)
  OBVIOUS
<1>9. PICK e1, e2, e3, e4, e5, e6 :
        /\ e1 = tui_printf_at(2, 3, w10) /\ e2 = tui_printf_at(12, 3, p2)
        /\ e3 = tui_printf_at(30, 3, w6) /\ e4 = tui_printf_at(36, 3, p4)
        /\ e5 = tui_printf_at(50, 3, w6) /\ e6 = tui_printf_at(56, 3, w12)
  OBVIOUS
<1>10. /\ On(d1, 1, 5) /\ On(d2, 1, 5) /\ On(d3, 1, 5) /\ On(d4, 1, 5)
       /\ On(d5, 1, 5) /\ On(d6, 1, 5) /\ On(d7, 1, 5) /\ On(d8, 1, 5)
  <2>1. /\ 2 \in Nat /\ 12 \in Nat /\ 20 \in Nat /\ 28 \in Nat /\ 40 \in Nat /\ 47 \in Nat
        /\ 60 \in Nat /\ 65 \in Nat
    OBVIOUS
  <2> QED BY ONLY <1>2, <1>4, <1>7, <1>8, <2>1
<1>11. /\ On(e1, 1, 5) /\ On(e2, 1, 5) /\ On(e3, 1, 5) /\ On(e4, 1, 5) /\ On(e5, 1, 5)
       /\ On(e6, 1, 5)
  <2>1. /\ 2 \in Nat /\ 12 \in Nat /\ 30 \in Nat /\ 36 \in Nat /\ 50 \in Nat /\ 56 \in Nat
    OBVIOUS
  <2> QED BY ONLY <1>2, <1>4, <1>7, <1>9, <2>1
<1>12. PICK a1 : a1 = a \o d1 \o d2 \o d3 \o d4 \o d5 \o d6 \o d7 \o d8
  OBVIOUS
<1>13. Fills(a1, 1, 5, 1, 80)
  BY ONLY <1>6, <1>10, <1>12, FillsThen
<1>14. Fills(a1 \o e1 \o e2 \o e3 \o e4 \o e5 \o e6, 1, 5, 1, 80)
  BY ONLY <1>11, <1>13, FillsThen
<1>15. StatusStrips(st) = a1 \o e1 \o e2 \o e3 \o e4 \o e5 \o e6
  BY ONLY <1>1, <1>3, <1>5, <1>8, <1>9, <1>12 DEF StatusStrips
<1> QED
  BY ONLY <1>14, <1>15

\* The line of the log window that is drawn from the i-th line of the log.
LogLine(log, i) == IF i <= log.count THEN log.lines[i] ELSE << >>

\* The strip of a line of the log window.
LEMMA LogStripIs ==
  ASSUME NEW log \in Logs, NEW i \in 1 .. LOG_LINES
  PROVE  /\ LogLine(log, i) \in Messages
         /\ LogStrips(log)[i] \in StripSet /\ LogStrips(log)[i].y = 7 + i
         /\ LogStrips(log)[i].x = 2
         /\ LogStrips(log)[i].text = LogLine(log, i) \o Blanks(76 - Len(LogLine(log, i)))
         /\ Len(LogStrips(log)[i].text) = 76
<1>1. PICK line, t : line = LogLine(log, i) /\ t = line \o Blanks(76 - Len(line))
  OBVIOUS
<1>2. line \in Messages
  BY <1>1, NoText DEF LogLine, Logs
<1>3. line \in Text /\ Len(line) \in Nat /\ 76 - Len(line) \in Nat
  BY ONLY <1>2, MessageText
<1>4. t \in Text /\ Len(t) = 76
  <2>1. PICK k, b : k = 76 - Len(line) /\ b = Blanks(k)
    OBVIOUS
  <2>2. b \in Text /\ Len(b) = k
    BY ONLY <1>3, <2>1, WordText
  <2>3. t \in Text /\ Len(t) = Len(line) + Len(b)
    BY ONLY <1>1, <1>3, <2>1, <2>2, ConcatText
  <2> QED BY ONLY <1>3, <2>1, <2>2, <2>3
<1>5. LogStrips(log)[i] = Strip(2, 7 + i, t)
  BY ONLY <1>1, i \in 1 .. LOG_LINES DEF LogStrips, LogLine
<1>6. PICK y : y = 7 + i
  OBVIOUS
<1>7. y \in Nat /\ 2 \in Nat
  BY <1>6, ShellSizes
<1>8. /\ Strip(2, y, t) \in StripSet /\ Strip(2, y, t).x = 2 /\ Strip(2, y, t).y = y
      /\ Strip(2, y, t).text = t
  BY ONLY <1>4, <1>7, StripIs
<1> QED
  BY ONLY <1>1, <1>2, <1>4, <1>5, <1>6, <1>8, ZenonT(60)

\* The log window keeps to its rows.
LEMMA LogOn ==
  ASSUME NEW log \in Logs
  PROVE  LogStrips(log) \in [1 .. LOG_LINES -> StripSet] /\ On(LogStrips(log), 6, 19)
<1>1. PICK d : d = LogStrips(log)
  OBVIOUS
<1>2. \A i \in 1 .. LOG_LINES : d[i] \in StripSet /\ d[i].y = 7 + i
  BY ONLY <1>1, LogStripIs, log \in Logs
<1>3. d \in [1 .. LOG_LINES -> StripSet]
  BY ONLY <1>1, <1>2 DEF LogStrips
<1>4. LOG_LINES \in Nat /\ \A i \in 1 .. LOG_LINES : 7 + i \in 6 .. 19
  BY ShellSizes
<1>5. d \in Drawings /\ StripsOf(d) = {d[i] : i \in 1 .. LOG_LINES}
  BY ONLY <1>3, <1>4, StripsInARow
<1>6. On(d, 6, 19)
  BY ONLY <1>2, <1>4, <1>5 DEF On
<1> QED
  BY ONLY <1>1, <1>3, <1>6

\* The prompt: its box, the line, and the cursor after it.
Typed(cmd) == tui_printf_at(2, 21, Word(6) \o cmd)
Cursor(cmd) == Strip(8 + Len(cmd), 21, <<"_">>)
Rest(cmd) == Strip(9 + Len(cmd), 21, Blanks(69 - Len(cmd)))

\* The parts of the prompt.
LEMMA PromptParts ==
  ASSUME NEW cmd \in Lines
  PROVE  /\ Word(6) \o cmd \in Text /\ Len(Word(6) \o cmd) = 6 + Len(cmd)
         /\ Typed(cmd) = <<Strip(2, 21, Word(6) \o cmd)>>
         /\ Cursor(cmd) \in StripSet /\ Cursor(cmd).y = 21 /\ Cursor(cmd).x = 8 + Len(cmd)
         /\ Cursor(cmd).text = <<"_">>
         /\ Rest(cmd) \in StripSet /\ Rest(cmd).y = 21 /\ Rest(cmd).x = 9 + Len(cmd)
         /\ Rest(cmd).text = Blanks(69 - Len(cmd))
<1>1. PICK n : n = Len(cmd)
  OBVIOUS
<1>2. cmd \in Text /\ n \in 0 .. 63
  BY ONLY <1>1, LineText, cmd \in Lines
<1>3. PICK w, t : w = Word(6) /\ t = w \o cmd
  OBVIOUS
<1>4. w \in Text /\ Len(w) = 6
  BY ONLY <1>3, WordText
<1>5. t \in Text /\ Len(t) = 6 + n
  BY ONLY <1>1, <1>2, <1>3, <1>4, ConcatText
<1>6. Typed(cmd) = <<Strip(2, 21, t)>>
  <2>1. PICK k : k = IF Len(t) < 80 THEN Len(t) ELSE 80
    OBVIOUS
  <2>2. k = Len(t)
    BY ONLY <1>2, <1>5, <2>1
  <2>3. SubSeq(t, 1, Len(t)) = t
    BY ONLY <1>5, SubSeqFull DEF Text
  <2>4. tui_printf_at(2, 21, t) = <<Strip(2, 21, SubSeq(t, 1, k))>>
    BY ONLY <2>1 DEF tui_printf_at
  <2> QED BY ONLY <1>3, <2>2, <2>3, <2>4 DEF Typed
<1>7. PICK b, u : b = Blanks(69 - n) /\ u = <<"_">>
  OBVIOUS
<1>8. PICK i \in Nat, j \in Nat, k \in Nat : i = 8 + n /\ j = 9 + n /\ k = 69 - n /\ 21 \in Nat
  BY ONLY <1>2
<1>9. u \in Text /\ b \in Text
  <2>1. "_" \in Char
    BY ONLY ShellTextAssumption
  <2> QED BY ONLY <1>7, <1>8, <2>1, OneLetter, WordText
<1>10. /\ Strip(i, 21, u) \in StripSet /\ Strip(i, 21, u).x = i
       /\ Strip(i, 21, u).y = 21 /\ Strip(i, 21, u).text = u
  BY ONLY <1>8, <1>9, StripIs
<1>11. /\ Strip(j, 21, b) \in StripSet /\ Strip(j, 21, b).x = j
       /\ Strip(j, 21, b).y = 21 /\ Strip(j, 21, b).text = b
  BY ONLY <1>8, <1>9, StripIs
<1>12. Cursor(cmd) = Strip(i, 21, u) /\ Rest(cmd) = Strip(j, 21, b)
  BY ONLY <1>1, <1>7, <1>8 DEF Cursor, Rest
<1> QED
  BY ONLY <1>1, <1>3, <1>5, <1>6, <1>7, <1>8, <1>10, <1>11, <1>12, ZenonT(60)

\* Its box.
PromptBox == tui_draw_box(0, 20, 80, 3, Word(9))

\* The box of the prompt fills its rows,
LEMMA PromptBoxFills == Fills(PromptBox, 20, 22, 1, 80)
<1>1. /\ 0 \in Nat /\ 20 \in Nat /\ 80 \in Nat /\ 3 \in Nat /\ 80 >= 5 /\ 3 >= 2 /\ 9 \in Nat
      /\ 22 = 20 + 3 - 1 /\ 80 = 0 + 80 /\ 0 + 1 = 1
  OBVIOUS
<1>2. Fills(PromptBox, 20, 22, 0 + 1, 80)
  BY ONLY <1>1, BoxFills DEF PromptBox
<1> QED
  BY ONLY <1>1, <1>2

\* and so does all of the prompt.
LEMMA PromptFills ==
  ASSUME NEW cmd \in Lines
  PROVE  /\ PromptStrips(cmd) = PromptBox \o Typed(cmd) \o <<Cursor(cmd), Rest(cmd)>>
         /\ On(Typed(cmd), 20, 22) /\ On(<<Cursor(cmd), Rest(cmd)>>, 20, 22)
         /\ Fills(PromptStrips(cmd), 20, 22, 1, 80)
<1>1. PICK a, b, c : a = PromptBox /\ b = Typed(cmd) /\ c = <<Cursor(cmd), Rest(cmd)>>
  OBVIOUS
<1>2. PromptStrips(cmd) = a \o b \o c
  BY ONLY <1>1 DEF PromptStrips, PromptBox, Typed, Cursor, Rest
<1>3. 21 \in 20 .. 22 /\ 2 \in Nat /\ 21 \in Nat
  OBVIOUS
<1>4. On(b, 20, 22)
  BY ONLY <1>1, <1>3, PromptParts, PrintfOn, cmd \in Lines DEF Typed
<1>5. Cursor(cmd) \in StripSet /\ Rest(cmd) \in StripSet /\ Cursor(cmd).y = 21
      /\ Rest(cmd).y = 21
  BY ONLY PromptParts, cmd \in Lines
<1>6. c \in Drawings /\ StripsOf(c) = {Cursor(cmd), Rest(cmd)}
  BY ONLY <1>1, <1>5, TwoStrips
<1>7. On(c, 20, 22)
  BY ONLY <1>3, <1>5, <1>6 DEF On
<1>8. Fills(a, 20, 22, 1, 80)
  BY ONLY <1>1, PromptBoxFills
<1>9. Fills(a \o b \o c, 20, 22, 1, 80)
  BY ONLY <1>4, <1>7, <1>8, FillsThen
<1> QED
  BY ONLY <1>1, <1>2, <1>4, <1>7, <1>9

\* A drawing with more strips covers no less.
LEMMA CoversMore ==
  \A a, d, y, from, to :
     StripsOf(a) \subseteq StripsOf(d) /\ Covers(a, y, from, to) => Covers(d, y, from, to)
BY DEF Covers

\* What it means to fill rows.
LEMMA FillsDraws ==
  \A a, lo, hi, from, to :
     Fills(a, lo, hi, from, to) =>
       /\ a \in Drawings /\ On(a, lo, hi) /\ \A y \in lo .. hi : Covers(a, y, from, to)
BY DEF Fills, On

\* What menu_render draws before the lines of the log, and all of the menu's view.
Above(st) ==
  tui_draw_header(Word(26), Word(6)) \o StatusStrips(st)
  \o tui_draw_box(0, 6, 80, 14, Word(16))

\* The menu's view covers every row but the one above the footer.
LEMMA MenuDraws ==
  ASSUME NEW st \in Samples, NEW log \in Logs, NEW cmd \in Lines
  PROVE  /\ MenuStrips(st, log, cmd)
              = Above(st) \o LogStrips(log) \o PromptStrips(cmd) \o tui_draw_footer(Word(59))
         /\ Above(st) \in Drawings /\ tui_draw_footer(Word(59)) \in Drawings
         /\ On(tui_draw_footer(Word(59)), 24, 24)
         /\ MenuStrips(st, log, cmd) \in Drawings
         /\ \A y \in Rows \ {23} : Covers(MenuStrips(st, log, cmd), y, 1, 80)
<1>1. PICK a, b, c, d, e, f :
        /\ a = tui_draw_header(Word(26), Word(6)) /\ b = StatusStrips(st)
        /\ c = tui_draw_box(0, 6, 80, 14, Word(16)) /\ d = LogStrips(log)
        /\ e = PromptStrips(cmd) /\ f = tui_draw_footer(Word(59))
  OBVIOUS
<1>2. Fills(a, 0, 0, 1, 80)
  <2>1. Word(26) \in Text /\ Word(6) \in Text /\ Len(Word(6)) = 6
    BY ONLY WordText
  <2>2. Len(Word(6)) <= 78
    <3>1. 6 <= 78
      OBVIOUS
    <3> QED BY ONLY <2>1, <3>1
  <2> QED BY ONLY <1>1, <2>1, <2>2, HeaderFills
<1>3. Fills(b, 1, 5, 1, 80)
  BY ONLY <1>1, StatusFills, st \in Samples
<1>4. Fills(c, 6, 19, 1, 80)
  <2>1. /\ 0 \in Nat /\ 6 \in Nat /\ 80 \in Nat /\ 14 \in Nat /\ 80 >= 5 /\ 14 >= 2 /\ 16 \in Nat
        /\ 19 = 6 + 14 - 1 /\ 80 = 0 + 80 /\ 0 + 1 = 1
    OBVIOUS
  <2>2. Fills(c, 6, 19, 0 + 1, 80)
    BY ONLY <1>1, <2>1, BoxFills
  <2> QED BY ONLY <2>1, <2>2
<1>5. d \in Drawings
  BY ONLY <1>1, LogOn, log \in Logs DEF On
<1>6. Fills(e, 20, 22, 1, 80)
  BY ONLY <1>1, PromptFills, cmd \in Lines
<1>7. Fills(f, 24, 24, 1, 80)
  BY ONLY <1>1, WordText, FooterFills
<1>8. a \in Drawings /\ b \in Drawings /\ c \in Drawings /\ e \in Drawings /\ f \in Drawings
  BY ONLY <1>2, <1>3, <1>4, <1>6, <1>7, FillsDraws
<1>9. PICK ab, abc, abcd, abcde, all :
        /\ ab = a \o b /\ abc = ab \o c /\ abcd = abc \o d /\ abcde = abcd \o e
        /\ all = abcde \o f
  OBVIOUS
<1>10. ab \in Drawings /\ StripsOf(ab) = StripsOf(a) \cup StripsOf(b)
  BY ONLY <1>8, <1>9, ConcatStrips
<1>11. abc \in Drawings /\ StripsOf(abc) = StripsOf(ab) \cup StripsOf(c)
  BY ONLY <1>8, <1>9, <1>10, ConcatStrips
<1>12. abcd \in Drawings /\ StripsOf(abcd) = StripsOf(abc) \cup StripsOf(d)
  BY ONLY <1>5, <1>9, <1>11, ConcatStrips
<1>13. abcde \in Drawings /\ StripsOf(abcde) = StripsOf(abcd) \cup StripsOf(e)
  BY ONLY <1>8, <1>9, <1>12, ConcatStrips
<1>14. all \in Drawings /\ StripsOf(all) = StripsOf(abcde) \cup StripsOf(f)
  BY ONLY <1>8, <1>9, <1>13, ConcatStrips
<1>15. /\ StripsOf(a) \subseteq StripsOf(all) /\ StripsOf(b) \subseteq StripsOf(all)
       /\ StripsOf(c) \subseteq StripsOf(all) /\ StripsOf(e) \subseteq StripsOf(all)
       /\ StripsOf(f) \subseteq StripsOf(all)
  BY ONLY <1>10, <1>11, <1>12, <1>13, <1>14
<1>16. /\ \A y \in 0 .. 0 : Covers(all, y, 1, 80)
       /\ \A y \in 1 .. 5 : Covers(all, y, 1, 80)
       /\ \A y \in 6 .. 19 : Covers(all, y, 1, 80)
       /\ \A y \in 20 .. 22 : Covers(all, y, 1, 80)
       /\ \A y \in 24 .. 24 : Covers(all, y, 1, 80)
  BY ONLY <1>2, <1>3, <1>4, <1>6, <1>7, <1>15, FillsDraws, CoversMore
<1>17. \A y \in Rows \ {23} :
          y \in 0 .. 0 \/ y \in 1 .. 5 \/ y \in 6 .. 19 \/ y \in 20 .. 22 \/ y \in 24 .. 24
  <2>1. Rows = 0 .. 24
    BY ONLY ShellSizes
  <2> QED BY ONLY <2>1
<1>18. \A y \in Rows \ {23} : Covers(all, y, 1, 80)
  BY ONLY <1>16, <1>17
<1>19. MenuStrips(st, log, cmd) = all /\ Above(st) = abc
  BY ONLY <1>1, <1>9 DEF MenuStrips, Above
<1>20. On(f, 24, 24)
  BY ONLY <1>7, FillsDraws
<1> QED
  BY ONLY <1>1, <1>8, <1>9, <1>11, <1>14, <1>18, <1>19, <1>20

\* The box of the CPU fills the left half of its rows,
LEMMA CpuFills ==
  ASSUME NEW st \in Samples
  PROVE  Fills(draw_cpu_box(st), 1, 8, 1, 40)
<1>1. PICK p, t, v : p = Percent(st.load) /\ t = Decimal[st.ticks] /\ v = st.load
  OBVIOUS
<1>2. p \in Text /\ t \in Text
  BY <1>1, SampleTexts
<1>3. v \in Nat
  BY <1>1 DEF Samples
<1>4. Word(4) \in Text /\ Word(5) \in Text
  BY ONLY WordText
<1>5. PICK a : a = tui_draw_box(0, 1, 40, 8, Word(5))
  OBVIOUS
<1>6. Fills(a, 1, 8, 1, 40)
  <2>1. /\ 0 \in Nat /\ 1 \in Nat /\ 40 \in Nat /\ 8 \in Nat /\ 40 >= 5 /\ 8 >= 2 /\ 5 \in Nat
        /\ 8 = 1 + 8 - 1 /\ 40 = 0 + 40 /\ 0 + 1 = 1
    OBVIOUS
  <2>2. Fills(a, 1, 8, 0 + 1, 40)
    BY ONLY <1>5, <2>1, BoxFills
  <2> QED BY ONLY <2>1, <2>2
<1>7. PICK d1, d2, d3, d4, d5, d6 :
        /\ d1 = tui_printf_at(2, 3, Word(4)) /\ d2 = tui_printf_at(8, 3, p)
        /\ d3 = tui_printf_at(20, 3, Word(5)) /\ d4 = tui_printf_at(27, 3, t)
        /\ d5 = tui_draw_bar(2, 5, 36, v, 100) /\ d6 = tui_printf_at(17, 6, p)
  OBVIOUS
<1>8. /\ 2 \in Nat /\ 3 \in Nat /\ 5 \in Nat /\ 6 \in Nat /\ 8 \in Nat /\ 17 \in Nat /\ 20 \in Nat
      /\ 27 \in Nat /\ 36 \in Nat /\ 100 \in Nat /\ 3 \in 1 .. 8 /\ 5 \in 1 .. 8 /\ 6 \in 1 .. 8
  OBVIOUS
<1>9. On(d1, 1, 8) /\ On(d2, 1, 8) /\ On(d3, 1, 8) /\ On(d4, 1, 8) /\ On(d6, 1, 8)
  BY ONLY <1>2, <1>4, <1>7, <1>8, PrintfOn
<1>10. On(d5, 1, 8)
  BY ONLY <1>3, <1>7, <1>8, BarOn
<1>11. Fills(a \o d1 \o d2 \o d3 \o d4 \o d5 \o d6, 1, 8, 1, 40)
  BY ONLY <1>6, <1>9, <1>10, FillsThen
<1>12. draw_cpu_box(st) = a \o d1 \o d2 \o d3 \o d4 \o d5 \o d6
  BY ONLY <1>1, <1>5, <1>7 DEF draw_cpu_box
<1> QED
  BY ONLY <1>11, <1>12

\* the box of the memory the right half,
LEMMA MemoryFills ==
  ASSUME NEW st \in Samples
  PROVE  Fills(draw_memory_box(st), 1, 8, 41, 80)
<1>1. PICK p, q, r, u, v :
        /\ p = UsedOfTotal(st) /\ q = Decimal[st.heap] \o Word(8)
        /\ r = Decimal[st.saved] \o Word(10) \o Decimal[st.ratio \div 100]
               \o <<".">> \o Decimal[(st.ratio % 100) \div 10] \o Word(2)
        /\ u = st.used /\ v = st.total
  OBVIOUS
<1>2. p \in Text /\ q \in Text /\ r \in Text
  <2>1. 8 \in Nat
    OBVIOUS
  <2> QED BY <1>1, <2>1, SampleTexts
<1>3. u \in Nat /\ v \in Nat
  BY <1>1 DEF Samples
<1>4. Word(3) \in Text /\ Word(4) \in Text
  BY ONLY WordText
<1>5. PICK a : a = tui_draw_box(40, 1, 40, 8, Word(5))
  OBVIOUS
<1>6. Fills(a, 1, 8, 41, 80)
  <2>1. /\ 1 \in Nat /\ 40 \in Nat /\ 8 \in Nat /\ 40 >= 5 /\ 8 >= 2 /\ 5 \in Nat
        /\ 8 = 1 + 8 - 1 /\ 80 = 40 + 40 /\ 40 + 1 = 41
    OBVIOUS
  <2>2. Fills(a, 1, 8, 40 + 1, 80)
    BY ONLY <1>5, <2>1, BoxFills
  <2> QED BY ONLY <2>1, <2>2
<1>7. PICK d1, d2, d3, d4, d5, d6, d7 :
        /\ d1 = tui_printf_at(42, 3, Word(3)) /\ d2 = tui_printf_at(47, 3, p)
        /\ d3 = tui_printf_at(42, 4, Word(4)) /\ d4 = tui_printf_at(48, 4, q)
        /\ d5 = tui_printf_at(42, 5, Word(4)) /\ d6 = tui_printf_at(48, 5, r)
        /\ d7 = tui_draw_bar(42, 7, 36, u, v)
  OBVIOUS
<1>8. /\ 3 \in Nat /\ 4 \in Nat /\ 5 \in Nat /\ 7 \in Nat /\ 42 \in Nat /\ 47 \in Nat /\ 48 \in Nat
      /\ 36 \in Nat /\ 3 \in 1 .. 8 /\ 4 \in 1 .. 8 /\ 5 \in 1 .. 8 /\ 7 \in 1 .. 8
  OBVIOUS
<1>9. On(d1, 1, 8) /\ On(d2, 1, 8) /\ On(d3, 1, 8) /\ On(d4, 1, 8) /\ On(d5, 1, 8) /\ On(d6, 1, 8)
  BY ONLY <1>2, <1>4, <1>7, <1>8, PrintfOn
<1>10. On(d7, 1, 8)
  BY ONLY <1>3, <1>7, <1>8, BarOn
<1>11. Fills(a \o d1 \o d2 \o d3 \o d4 \o d5 \o d6 \o d7, 1, 8, 41, 80)
  BY ONLY <1>6, <1>9, <1>10, FillsThen
<1>12. draw_memory_box(st) = a \o d1 \o d2 \o d3 \o d4 \o d5 \o d6 \o d7
  BY ONLY <1>1, <1>5, <1>7 DEF draw_memory_box
<1> QED
  BY ONLY <1>11, <1>12

\* and the table of the processes the rows below.
LEMMA TableFills == Fills(draw_process_table, 9, 22, 1, 80)
<1>1. PICK a : a = tui_draw_box(0, 9, 80, 14, Word(7))
  OBVIOUS
<1>2. Fills(a, 9, 22, 1, 80)
  <2>1. /\ 0 \in Nat /\ 9 \in Nat /\ 80 \in Nat /\ 14 \in Nat /\ 80 >= 5 /\ 14 >= 2 /\ 7 \in Nat
        /\ 22 = 9 + 14 - 1 /\ 80 = 0 + 80 /\ 0 + 1 = 1
    OBVIOUS
  <2>2. Fills(a, 9, 22, 0 + 1, 80)
    BY ONLY <1>1, <2>1, BoxFills
  <2> QED BY ONLY <2>1, <2>2
<1>3. PICK b, c, d : /\ b = tui_printf_at(2, 11, Word(47)) /\ c = <<Strip(50, 11, Blanks(28))>>
                     /\ d = [i \in 1 .. PROCESS_COUNT |-> Strip(2, 11 + i, Word(30))]
  OBVIOUS
<1>4. 2 \in Nat /\ 11 \in Nat /\ 50 \in Nat /\ 11 \in 9 .. 22
  OBVIOUS
<1>5. Word(47) \in Text /\ Blanks(28) \in Text /\ Word(30) \in Text
  BY ONLY WordText
<1>6. On(b, 9, 22)
  BY ONLY <1>3, <1>4, <1>5, PrintfOn
<1>7. On(c, 9, 22)
  BY ONLY <1>3, <1>4, <1>5, StripOn
<1>8. \A i \in 1 .. 4 : d[i] \in StripSet /\ d[i].y \in 9 .. 22
  <2>1. ASSUME NEW i \in 1 .. 4 PROVE d[i] \in StripSet /\ d[i].y \in 9 .. 22
    <3>1. PICK y : y = 11 + i
      OBVIOUS
    <3>2. y \in Nat /\ y \in 9 .. 22
      BY ONLY <3>1, i \in 1 .. 4
    <3>3. d[i] = Strip(2, y, Word(30))
      BY ONLY <1>3, <3>1, i \in 1 .. 4 DEF PROCESS_COUNT
    <3>4. Strip(2, y, Word(30)) \in StripSet /\ Strip(2, y, Word(30)).y = y
      BY ONLY <1>4, <1>5, <3>2, StripIs
    <3> QED BY ONLY <3>2, <3>3, <3>4
  <2> QED BY ONLY <2>1
<1>9. On(d, 9, 22)
  <2>1. d \in [1 .. 4 -> StripSet]
    BY ONLY <1>3, <1>8 DEF PROCESS_COUNT
  <2>2. 4 \in Nat
    OBVIOUS
  <2>3. d \in Drawings /\ StripsOf(d) = {d[i] : i \in 1 .. 4}
    BY ONLY <2>1, <2>2, StripsInARow
  <2> QED BY ONLY <1>8, <2>3 DEF On
<1>10. Fills(a \o b \o c \o d, 9, 22, 1, 80)
  BY ONLY <1>2, <1>6, <1>7, <1>9, FillsThen
<1>11. draw_process_table = a \o b \o c \o d
  BY ONLY <1>1, <1>3 DEF draw_process_table
<1> QED
  BY ONLY <1>10, <1>11

\* The dashboard covers every row but the one above the footer.
LEMMA DashboardDraws ==
  ASSUME NEW st \in Samples
  PROVE  /\ dashboard_render(st) \in Drawings
         /\ \A y \in Rows \ {23} : Covers(dashboard_render(st), y, 1, 80)
<1>1. PICK a, b, c, d, e :
        /\ a = tui_draw_header(Word(15), format_uptime(st.secs)) /\ b = draw_cpu_box(st)
        /\ c = draw_memory_box(st) /\ d = draw_process_table /\ e = tui_draw_footer(Word(22))
  OBVIOUS
<1>2. Fills(a, 0, 0, 1, 80)
  <2>1. PICK t : t = format_uptime(st.secs)
    OBVIOUS
  <2>2. t \in Text /\ Len(t) = 8
    BY <2>1, SampleTexts
  <2>3. Word(15) \in Text
    BY ONLY WordText
  <2>4. Len(t) <= 78
    BY ONLY <2>2
  <2> QED BY ONLY <1>1, <2>1, <2>2, <2>3, <2>4, HeaderFills
<1>3. Fills(b, 1, 8, 1, 40) /\ Fills(c, 1, 8, 41, 80)
  BY ONLY <1>1, CpuFills, MemoryFills, st \in Samples
<1>4. Fills(d, 9, 22, 1, 80)
  BY ONLY <1>1, TableFills
<1>5. Fills(e, 24, 24, 1, 80)
  BY ONLY <1>1, WordText, FooterFills
<1>6. a \in Drawings /\ b \in Drawings /\ c \in Drawings /\ d \in Drawings /\ e \in Drawings
  BY ONLY <1>2, <1>3, <1>4, <1>5, FillsDraws
<1>7. PICK ab, abc, abcd, all :
        ab = a \o b /\ abc = ab \o c /\ abcd = abc \o d /\ all = abcd \o e
  OBVIOUS
<1>8. ab \in Drawings /\ StripsOf(ab) = StripsOf(a) \cup StripsOf(b)
  BY ONLY <1>6, <1>7, ConcatStrips
<1>9. abc \in Drawings /\ StripsOf(abc) = StripsOf(ab) \cup StripsOf(c)
  BY ONLY <1>6, <1>7, <1>8, ConcatStrips
<1>10. abcd \in Drawings /\ StripsOf(abcd) = StripsOf(abc) \cup StripsOf(d)
  BY ONLY <1>6, <1>7, <1>9, ConcatStrips
<1>11. all \in Drawings /\ StripsOf(all) = StripsOf(abcd) \cup StripsOf(e)
  BY ONLY <1>6, <1>7, <1>10, ConcatStrips
<1>12. /\ StripsOf(a) \subseteq StripsOf(all) /\ StripsOf(b) \subseteq StripsOf(all)
       /\ StripsOf(c) \subseteq StripsOf(all) /\ StripsOf(d) \subseteq StripsOf(all)
       /\ StripsOf(e) \subseteq StripsOf(all)
  BY ONLY <1>8, <1>9, <1>10, <1>11
<1>13. /\ \A y \in 0 .. 0 : Covers(all, y, 1, 80)
       /\ \A y \in 1 .. 8 : Covers(all, y, 1, 40)
       /\ \A y \in 1 .. 8 : Covers(all, y, 41, 80)
       /\ \A y \in 9 .. 22 : Covers(all, y, 1, 80)
       /\ \A y \in 24 .. 24 : Covers(all, y, 1, 80)
  BY ONLY <1>2, <1>3, <1>4, <1>5, <1>12, FillsDraws, CoversMore
<1>14. \A y \in 1 .. 8 : Covers(all, y, 1, 80)
  <2>1. \A c1 \in 1 .. 80 : c1 \in 1 .. 40 \/ c1 \in 41 .. 80
    OBVIOUS
  <2> QED BY ONLY <1>13, <2>1 DEF Covers
<1>15. \A y \in Rows \ {23} :
          y \in 0 .. 0 \/ y \in 1 .. 8 \/ y \in 9 .. 22 \/ y \in 24 .. 24
  <2>1. Rows = 0 .. 24
    BY ONLY ShellSizes
  <2> QED BY ONLY <2>1
<1>16. \A y \in Rows \ {23} : Covers(all, y, 1, 80)
  BY ONLY <1>13, <1>14, <1>15
<1>17. dashboard_render(st) = all
  BY ONLY <1>1, <1>7 DEF dashboard_render
<1> QED
  BY ONLY <1>11, <1>16, <1>17

\* Either view, drawn on whatever there was.
LEMMA ViewDraws ==
  ASSUME NEW view, NEW st \in Samples, NEW log \in Logs, NEW cmd \in Lines
  PROVE  /\ View(view, st, log, cmd) \in Drawings
         /\ \A m, q \in Screens : \A y \in Rows \ {23} :
              Paint(m, View(view, st, log, cmd))[y] = Paint(q, View(view, st, log, cmd))[y]
<1>1. PICK d : d = View(view, st, log, cmd)
  OBVIOUS
<1>2. d \in Drawings /\ \A y \in Rows \ {23} : Covers(d, y, 1, 80)
  BY ONLY <1>1, MenuDraws, DashboardDraws, st \in Samples, log \in Logs, cmd \in Lines DEF View
<1>3. VGA_WIDTH = 80 /\ VGA_WIDTH \in Nat \ {0}
  BY ONLY ShellSizes
<1> QED
  BY ONLY <1>1, <1>2, <1>3, CoveredRow
-----------------------------------------------------------------------------
(***************************************************************************)
(* What else is drawn.                                                     *)
(***************************************************************************)
\* tui_printf_at draws.
LEMMA PrintfDrawing ==
  \A x, y \in Nat : \A t \in Text : tui_printf_at(x, y, t) \in Drawings
<1>1. ASSUME NEW x \in Nat, NEW y \in Nat, NEW t \in Text
      PROVE  tui_printf_at(x, y, t) \in Drawings
  <2>1. y \in y .. y
    BY y \in Nat
  <2> QED BY ONLY <1>1, <2>1, PrintfOn DEF On
<1> QED
  BY ONLY <1>1

\* menu_update writes numbers into the second row.
LEMMA LiveOn ==
  ASSUME NEW st \in Samples
  PROVE  On(LiveStrips(st), 2, 2)
<1>1. PICK p, q, r : /\ p = Percent(st.load) \o Blanks(1)
                     /\ q = Decimal[st.secs] \o Word(2) \o Blanks(2)
                     /\ r = Decimal[st.ticks] \o Blanks(3)
  OBVIOUS
<1>2. p \in Text /\ q \in Text /\ r \in Text
  <2>1. /\ Percent(st.load) \in Text /\ Decimal[st.secs] \o Word(2) \in Text
        /\ Decimal[st.ticks] \in Text
    BY SampleTexts
  <2>2. Blanks(1) \in Text /\ Blanks(2) \in Text /\ Blanks(3) \in Text
    BY ONLY WordText
  <2> QED BY ONLY <1>1, <2>1, <2>2, ConcatTexts
<1>3. PICK a, b, c : /\ a = tui_printf_at(12, 2, p) /\ b = tui_printf_at(28, 2, q)
                     /\ c = tui_printf_at(47, 2, r)
  OBVIOUS
<1>4. 2 \in Nat /\ 12 \in Nat /\ 28 \in Nat /\ 47 \in Nat /\ 2 \in 2 .. 2
  OBVIOUS
<1>5. On(a, 2, 2) /\ On(b, 2, 2) /\ On(c, 2, 2)
  BY ONLY <1>2, <1>3, <1>4, PrintfOn
<1>6. On(a \o b \o c, 2, 2)
  BY ONLY <1>5, ConcatOn
<1>7. LiveStrips(st) = a \o b \o c
  BY ONLY <1>1, <1>3 DEF LiveStrips
<1> QED
  BY ONLY <1>6, <1>7

\* Drawings one after another are a drawing.
LEMMA ConcatDrawings == \A a, b \in Drawings : a \o b \in Drawings
BY ConcatStrips

\* A strip is a drawing.
LEMMA OneStripDrawing ==
  \A x, y \in Nat : \A t \in Text : <<Strip(x, y, t)>> \in Drawings /\ Strip(x, y, t) \in StripSet
BY StripIs, OneStrip

\* A box is a drawing.
LEMMA BoxDrawing ==
  ASSUME NEW x \in Nat, NEW y \in Nat, NEW w \in Nat, NEW h \in Nat, w >= 5, h >= 2,
         NEW n \in Nat
  PROVE  tui_draw_box(x, y, w, h, Word(n)) \in Drawings
BY WordText, BoxDraws DEF On

\* aura_panic_interactive draws.
LEMMA PanicDrawing == PanicStrips \in Drawings
<1>1. \A n \in Nat : Word(n) \in Text /\ Blanks(n) \in Text
  BY ONLY WordText
<1>2. PICK a : a = <<Strip(0, 0, Blanks(80)), Strip(2, 0, Word(39)), Strip(62, 0, Word(13))>>
  OBVIOUS
<1>3. a \in Drawings
  <2>1. 0 \in Nat /\ 2 \in Nat /\ 62 \in Nat /\ 80 \in Nat /\ 39 \in Nat /\ 13 \in Nat
    OBVIOUS
  <2>2. /\ Strip(0, 0, Blanks(80)) \in StripSet /\ Strip(2, 0, Word(39)) \in StripSet
        /\ Strip(62, 0, Word(13)) \in StripSet
    BY ONLY <1>1, <2>1, OneStripDrawing
  <2> QED BY ONLY <1>2, <2>2, ThreeStrips
<1>4. PICK b : b = [y \in 1 .. 23 |-> Strip(0, y, Blanks(80))]
  OBVIOUS
<1>5. b \in Drawings
  <2>1. 0 \in Nat /\ 23 \in Nat /\ 80 \in Nat /\ \A y \in 1 .. 23 : y \in Nat
    OBVIOUS
  <2>2. \A y \in 1 .. 23 : Strip(0, y, Blanks(80)) \in StripSet
    BY ONLY <1>1, <2>1, OneStripDrawing
  <2>3. b \in [1 .. 23 -> StripSet]
    BY ONLY <1>4, <2>2
  <2> QED BY ONLY <2>1, <2>3, StripsInARow
<1>6. PICK c, d, e : /\ c = tui_draw_box(2, 2, 76, 7, Word(24))
                     /\ d = tui_draw_box(2, 10, 76, 8, Word(29))
                     /\ e = tui_draw_box(2, 19, 76, 4, Word(28))
  OBVIOUS
<1>7. c \in Drawings /\ d \in Drawings /\ e \in Drawings
  <2>1. /\ 2 \in Nat /\ 76 \in Nat /\ 7 \in Nat /\ 24 \in Nat /\ 10 \in Nat /\ 8 \in Nat
        /\ 29 \in Nat /\ 19 \in Nat /\ 4 \in Nat /\ 28 \in Nat
        /\ 76 >= 5 /\ 7 >= 2 /\ 8 >= 2 /\ 4 >= 2
    OBVIOUS
  <2> QED BY ONLY <1>6, <2>1, BoxDrawing
<1>8. PICK f1, f2, f3, f4, f5, f6 :
        /\ f1 = tui_printf_at(4, 4, Word(10)) /\ f2 = tui_printf_at(14, 4, Word(32))
        /\ f3 = tui_printf_at(4, 6, Word(10)) /\ f4 = tui_printf_at(14, 6, Word(37))
        /\ f5 = tui_printf_at(4, 12, Word(44)) /\ f6 = tui_printf_at(4, 16, Word(23))
  OBVIOUS
<1>9. /\ f1 \in Drawings /\ f2 \in Drawings /\ f3 \in Drawings /\ f4 \in Drawings
      /\ f5 \in Drawings /\ f6 \in Drawings
  <2>1. /\ 4 \in Nat /\ 6 \in Nat /\ 10 \in Nat /\ 12 \in Nat /\ 14 \in Nat /\ 16 \in Nat
        /\ 32 \in Nat /\ 37 \in Nat /\ 44 \in Nat /\ 23 \in Nat
    OBVIOUS
  <2> QED BY ONLY <1>1, <1>8, <2>1, PrintfDrawing
<1>10. PICK g1, g2, g3, g4, g5, g6 :
        /\ g1 = tui_printf_at(4, 20, Word(11)) /\ g2 = tui_printf_at(16, 20, Word(44))
        /\ g3 = tui_printf_at(4, 21, Word(10)) /\ g4 = tui_printf_at(16, 21, Word(36))
        /\ g5 = tui_printf_at(40, 21, Word(13)) /\ g6 = tui_printf_at(54, 21, Word(16))
  OBVIOUS
<1>11. /\ g1 \in Drawings /\ g2 \in Drawings /\ g3 \in Drawings /\ g4 \in Drawings
       /\ g5 \in Drawings /\ g6 \in Drawings
  <2>1. /\ 4 \in Nat /\ 20 \in Nat /\ 16 \in Nat /\ 21 \in Nat /\ 40 \in Nat /\ 54 \in Nat
        /\ 11 \in Nat /\ 44 \in Nat /\ 10 \in Nat /\ 36 \in Nat /\ 13 \in Nat
    OBVIOUS
  <2> QED BY ONLY <1>1, <1>10, <2>1, PrintfDrawing
<1>12. PICK h : h = [i \in 1 .. 3 |-> Strip(4, 12 + i, Word(29))]
  OBVIOUS
<1>13. h \in Drawings
  <2>1. 3 \in Nat /\ 4 \in Nat /\ 29 \in Nat /\ \A i \in 1 .. 3 : 12 + i \in Nat
    OBVIOUS
  <2>2. \A i \in 1 .. 3 : Strip(4, 12 + i, Word(29)) \in StripSet
    BY ONLY <1>1, <2>1, OneStripDrawing
  <2>3. h \in [1 .. 3 -> StripSet]
    BY ONLY <1>12, <2>2
  <2> QED BY ONLY <2>1, <2>3, StripsInARow
<1>14. PICK k : k = <<Strip(0, 24, Blanks(80)), Strip(2, 24, Word(55))>>
  OBVIOUS
<1>15. k \in Drawings
  <2>1. 0 \in Nat /\ 2 \in Nat /\ 24 \in Nat /\ 80 \in Nat /\ 55 \in Nat
    OBVIOUS
  <2>2. Strip(0, 24, Blanks(80)) \in StripSet /\ Strip(2, 24, Word(55)) \in StripSet
    BY ONLY <1>1, <2>1, OneStripDrawing
  <2> QED BY ONLY <1>14, <2>2, TwoStrips
<1>16. PICK u, v : /\ u = a \o b \o c \o f1 \o f2 \o f3 \o f4
                   /\ v = u \o d \o f5 \o h \o f6
  OBVIOUS
<1>17. u \in Drawings
  BY ONLY <1>3, <1>5, <1>7, <1>9, <1>16, ConcatDrawings
<1>18. v \in Drawings
  BY ONLY <1>7, <1>9, <1>13, <1>16, <1>17, ConcatDrawings
<1>19. v \o e \o g1 \o g2 \o g3 \o g4 \o g5 \o g6 \o k \in Drawings
  BY ONLY <1>7, <1>11, <1>15, <1>18, ConcatDrawings
<1>20. PanicStrips = a \o b \o c \o f1 \o f2 \o f3 \o f4 \o d \o f5 \o h \o f6
                     \o e \o g1 \o g2 \o g3 \o g4 \o g5 \o g6 \o k
  BY ONLY <1>2, <1>4, <1>6, <1>8, <1>10, <1>12, <1>14 DEF PanicStrips
<1> QED
  BY ONLY <1>16, <1>19, <1>20

\* vga_init leaves a screen.
LEMMA BlankIsScreen == BlankScreen \in Screens
<1>1. PICK b : b = " "
  OBVIOUS
<1>2. b \in Char
  BY ONLY <1>1, ShellTextAssumption
<1>3. Rep(b, VGA_WIDTH) \in [1 .. VGA_WIDTH -> Char]
  BY ONLY <1>2 DEF Rep
<1> QED
  BY ONLY <1>1, <1>3 DEF BlankScreen, Screens, Row
-----------------------------------------------------------------------------
(***************************************************************************)
(* The log.                                                                *)
(***************************************************************************)
\* A message is no longer than the buffer of its line.
LEMMA NotCut == \A msg \in Messages : LogCut(msg) = msg
<1>1. ASSUME NEW msg \in Messages PROVE LogCut(msg) = msg
  <2>1. msg \in Seq(Char) /\ Len(msg) \in 0 .. 76
    BY MessageText DEF Text
  <2>2. (IF Len(msg) < 78 THEN Len(msg) ELSE 78) = Len(msg)
    <3>1. PICK n : n = Len(msg)
      OBVIOUS
    <3>2. n \in 0 .. 76
      BY ONLY <2>1, <3>1
    <3>3. n < 78
      BY ONLY <3>2
    <3> QED BY ONLY <3>1, <3>3
  <2>3. SubSeq(msg, 1, Len(msg)) = msg
    BY ONLY <2>1, SubSeqFull
  <2> QED BY ONLY <2>2, <2>3 DEF LogCut
<1> QED
  BY ONLY <1>1

\* What log_print does to the log.
LEMMA LogPrintType ==
  ASSUME NEW log \in Logs, NEW msg \in Messages
  PROVE  /\ log_print(log, msg) \in Logs
         /\ log_print(log, msg).count = IF log.count < LOG_LINES THEN log.count + 1 ELSE log.count
         /\ \A j \in 1 .. LOG_LINES : log_print(log, msg).lines[j] =
               IF log.count < LOG_LINES
               THEN (IF j = log.count + 1 THEN msg ELSE log.lines[j])
               ELSE (IF j < LOG_LINES THEN log.lines[j + 1] ELSE msg)
<1>1. PICK L, M, k, ls, new : /\ L = LOG_LINES /\ M = Messages /\ k = log.count /\ ls = log.lines
                              /\ new = log_print(log, msg)
  OBVIOUS
<1>2. L \in 1 .. 8
  BY ONLY <1>1, ShellSizes
<1>3. k \in 0 .. L /\ ls \in [1 .. L -> M] /\ msg \in M /\ log = [lines |-> ls, count |-> k]
  BY ONLY <1>1, log \in Logs, msg \in Messages DEF Logs
<1>4. LogCut(msg) = msg
  BY NotCut
<1>5. CASE k < L
  <2>1. PICK up : up = [ls EXCEPT ![k + 1] = msg]
    OBVIOUS
  <2>2. new = [lines |-> up, count |-> k + 1]
    BY ONLY <1>1, <1>4, <1>5, <2>1 DEF log_print
  <2>3. up \in [1 .. L -> M] /\ \A j \in 1 .. L : up[j] = IF j = k + 1 THEN msg ELSE ls[j]
    BY ONLY <1>2, <1>3, <1>5, <2>1
  <2>4. k + 1 \in 0 .. L
    BY ONLY <1>2, <1>3, <1>5
  <2>5. new.count = k + 1 /\ new.lines = up /\ new \in [lines : [1 .. L -> M], count : 0 .. L]
    BY ONLY <2>2, <2>3, <2>4
  <2> QED BY ONLY <1>1, <1>5, <2>3, <2>5 DEF Logs
<1>6. CASE ~ k < L
  <2>1. PICK up : up = [i \in 1 .. L |-> IF i < L THEN ls[i + 1] ELSE msg]
    OBVIOUS
  <2>2. new = [log EXCEPT !.lines = up]
    BY ONLY <1>1, <1>4, <1>6, <2>1 DEF log_print
  <2>3. new = [lines |-> up, count |-> k]
    BY ONLY <1>3, <2>2
  <2>4. \A i \in 1 .. L : (i < L => i + 1 \in 1 .. L)
    BY ONLY <1>2
  <2>5. up \in [1 .. L -> M]
    BY ONLY <1>3, <2>1, <2>4
  <2>6. new.count = k /\ new.lines = up /\ new \in [lines : [1 .. L -> M], count : 0 .. L]
    BY ONLY <1>3, <2>3, <2>5
  <2> QED BY ONLY <1>1, <1>6, <2>1, <2>6 DEF Logs
<1> QED
  BY ONLY <1>5, <1>6

\* The log after each of the messages msgs.
LogSteps(e, log, msgs) ==
  /\ e \in [0 .. Len(msgs) -> Logs] /\ e[0] = log
  /\ \A i \in 1 .. Len(msgs) : e[i] = log_print(e[i - 1], msgs[i])

\* The log after several messages is reached one by one.
LEMMA LogAllIs ==
  ASSUME NEW log \in Logs, NEW msgs \in Seq(Messages)
  PROVE  \E e : LogSteps(e, log, msgs) /\ LogAll(log, msgs) = e[Len(msgs)]
<1>1. PICK n, P : n = Len(msgs) /\ P = Logs
  OBVIOUS
<1>2. n \in Nat /\ \A i \in 1 .. n : msgs[i] \in Messages
  BY ONLY <1>1, msgs \in Seq(Messages), LenProperties, ElementOfSeq
<1>3. PICK F : F = [i \in 1 .. n |-> [q \in Logs |-> log_print(q, msgs[i])]]
  OBVIOUS
<1>4. F \in Rounds(n, P)
  <2>1. \A i \in 1 .. n : \A q \in Logs : log_print(q, msgs[i]) \in Logs
    BY ONLY <1>2, LogPrintType
  <2> QED BY ONLY <1>1, <1>3, <2>1 DEF Rounds
<1>5. PICK g : Iteration(g, P, log, n, F)
  BY ONLY <1>1, <1>2, <1>4, log \in Logs, Iterates
<1>6. g \in [0 .. n -> P] /\ g[0] = log /\ \A i \in 1 .. n : g[i] = F[i][g[i - 1]]
  BY ONLY <1>5 DEF Iteration
<1>7. \A i \in 1 .. n : \A q \in P : F[i][q] = log_print(q, msgs[i])
  BY ONLY <1>1, <1>3
<1>8. \A i \in 1 .. n : i \in 0 .. n /\ i - 1 \in 0 .. n /\ i # 0
  BY ONLY <1>2
<1>9. \A i \in 0 .. n : i = 0 \/ i \in 1 .. n
  BY ONLY <1>2
<1>10. \A i \in 1 .. n : g[i] = log_print(g[i - 1], msgs[i])
  BY ONLY <1>6, <1>7, <1>8
<1>11. g = [i \in 0 .. n |-> IF i = 0 THEN log ELSE log_print(g[i - 1], msgs[i])]
  <2>1. \A i \in 0 .. n : g[i] = IF i = 0 THEN log ELSE log_print(g[i - 1], msgs[i])
    BY ONLY <1>6, <1>8, <1>9, <1>10
  <2> QED BY ONLY <1>6, <2>1
<1>12. PICK h : h = CHOOSE f : f = [i \in 0 .. n |->
                                      IF i = 0 THEN log ELSE log_print(f[i - 1], msgs[i])]
  OBVIOUS
<1>13. h = [i \in 0 .. n |-> IF i = 0 THEN log ELSE log_print(h[i - 1], msgs[i])]
  BY ONLY <1>11, <1>12
<1>14. LogAll(log, msgs) = h[n]
  BY ONLY <1>1, <1>12 DEF LogAll
<1>15. Follows(h, P, log, n, F)
  <2>1. 0 \in 0 .. n
    BY ONLY <1>2
  <2>2. h[0] = log
    BY ONLY <1>13, <2>1
  <2>3. \A i \in 1 .. n : h[i] = log_print(h[i - 1], msgs[i])
    BY ONLY <1>8, <1>13
  <2> QED BY ONLY <1>7, <2>2, <2>3 DEF Follows
<1>16. \A i \in 0 .. n : h[i] = g[i]
  BY ONLY <1>2, <1>5, <1>15, IterationUnique
<1>17. n \in 0 .. n
  BY ONLY <1>2
<1>18. LogSteps(g, log, msgs)
  BY ONLY <1>1, <1>6, <1>10 DEF LogSteps
<1> QED
  BY ONLY <1>1, <1>14, <1>16, <1>17, <1>18

\* The log holds the last of the first k messages of H.
Holds(log, H, k) ==
  /\ log \in Logs
  /\ log.count = IF k < LOG_LINES THEN k ELSE LOG_LINES
  /\ \A j \in 1 .. log.count : log.lines[j] = H[k - log.count + j]

\* log_print keeps the last messages, scrolling when the log is full.
LEMMA HoldsOneMore ==
  ASSUME NEW log, NEW H \in Seq(Messages), NEW k \in Nat, k < Len(H), Holds(log, H, k)
  PROVE  Holds(log_print(log, H[k + 1]), H, k + 1)
<1>1. PICK msg, new, L, c, d : /\ msg = H[k + 1] /\ new = log_print(log, H[k + 1])
                               /\ L = LOG_LINES /\ c = log.count /\ d = new.count
  OBVIOUS
<1>2. msg \in Messages
  <2>1. Len(H) \in Nat
    BY LenProperties
  <2>2. k + 1 \in 1 .. Len(H)
    BY ONLY <2>1, k \in Nat, k < Len(H)
  <2> QED BY ONLY <1>1, <2>2, H \in Seq(Messages), ElementOfSeq
<1>3. log \in Logs /\ c = (IF k < L THEN k ELSE L)
      /\ \A j \in 1 .. c : log.lines[j] = H[k - c + j]
  BY ONLY <1>1, Holds(log, H, k) DEF Holds
<1>4. /\ new \in Logs /\ d = (IF c < L THEN c + 1 ELSE c)
      /\ \A j \in 1 .. L : new.lines[j] = IF c < L THEN (IF j = c + 1 THEN msg ELSE log.lines[j])
                                         ELSE (IF j < L THEN log.lines[j + 1] ELSE msg)
  <2>1. /\ log_print(log, msg) \in Logs
        /\ log_print(log, msg).count
             = IF log.count < LOG_LINES THEN log.count + 1 ELSE log.count
        /\ \A j \in 1 .. LOG_LINES : log_print(log, msg).lines[j] =
              IF log.count < LOG_LINES
              THEN (IF j = log.count + 1 THEN msg ELSE log.lines[j])
              ELSE (IF j < LOG_LINES THEN log.lines[j + 1] ELSE msg)
    BY ONLY <1>2, <1>3, LogPrintType
  <2>2. new = log_print(log, msg)
    BY ONLY <1>1
  <2> QED BY ONLY <1>1, <2>1, <2>2
<1>5. L \in 1 .. 8
  BY ONLY <1>1, ShellSizes
<1>6. d = IF k + 1 < L THEN k + 1 ELSE L
  BY ONLY <1>3, <1>4, <1>5, k \in Nat
<1>7. ASSUME NEW j \in 1 .. d PROVE new.lines[j] = H[k + 1 - d + j]
  <2>1. CASE c < L
    <3>1. c = k /\ d = k + 1 /\ k + 1 - d + j = j /\ j \in 1 .. L
      BY ONLY <1>3, <1>4, <1>5, <2>1, k \in Nat, j \in 1 .. d
    <3>2. CASE j = c + 1
      BY ONLY <1>1, <1>4, <2>1, <3>1, <3>2
    <3>3. CASE j # c + 1
      <4>1. j \in 1 .. c /\ k - c + j = j
        BY ONLY <3>1, <3>3, k \in Nat, j \in 1 .. d
      <4>2. new.lines[j] = log.lines[j]
        BY ONLY <1>4, <2>1, <3>1, <3>3
      <4> QED BY ONLY <1>3, <3>1, <4>1, <4>2
    <3> QED BY ONLY <3>2, <3>3
  <2>2. CASE ~ c < L
    <3>1. c = L /\ d = L /\ L <= k /\ j \in 1 .. L
      BY ONLY <1>3, <1>4, <1>5, <2>2, k \in Nat, j \in 1 .. d
    <3>2. CASE j < L
      <4>1. j + 1 \in 1 .. c /\ k - c + (j + 1) = k + 1 - d + j
        BY ONLY <1>5, <3>1, <3>2, k \in Nat
      <4>2. new.lines[j] = log.lines[j + 1]
        BY ONLY <1>4, <2>2, <3>1, <3>2
      <4>3. log.lines[j + 1] = H[k - c + (j + 1)]
        BY ONLY <1>3, <4>1
      <4> QED BY ONLY <4>1, <4>2, <4>3
    <3>3. CASE ~ j < L
      <4>1. k + 1 - d + j = k + 1
        BY ONLY <1>5, <3>1, <3>3, k \in Nat
      <4>2. new.lines[j] = msg
        BY ONLY <1>4, <2>2, <3>1, <3>3
      <4> QED BY ONLY <1>1, <4>1, <4>2
    <3> QED BY ONLY <3>2, <3>3
  <2> QED BY ONLY <2>1, <2>2
<1> QED
  <2>1. Holds(new, H, k + 1)
    <3>1. PICK k1 : k1 = k + 1
      OBVIOUS
    <3>2. new \in Logs /\ d = (IF k1 < L THEN k1 ELSE L)
      BY ONLY <1>4, <1>6, <3>1
    <3>3. \A j \in 1 .. d : new.lines[j] = H[k1 - d + j]
      <4>1. ASSUME NEW j \in 1 .. d PROVE new.lines[j] = H[k1 - d + j]
        <5>1. new.lines[j] = H[k + 1 - d + j]
          BY ONLY <1>7, j \in 1 .. d
        <5>2. d \in Nat /\ j \in Nat
          BY ONLY <1>5, <1>6, k \in Nat, j \in 1 .. d
        <5>3. k + 1 - d + j = k1 - d + j
          BY ONLY <3>1, <5>2, k \in Nat
        <5> QED BY ONLY <5>1, <5>3
      <4> QED BY ONLY <4>1
    <3>4. d = new.count /\ L = LOG_LINES
      BY ONLY <1>1
    <3>5. Holds(new, H, k1)
      BY ONLY <3>2, <3>3, <3>4 DEF Holds
    <3> QED BY ONLY <3>1, <3>5
  <2>2. new = log_print(log, H[k + 1])
    BY ONLY <1>1
  <2> QED BY ONLY <2>1, <2>2

\* What the history remembers is what the log holds.
Mirrors(log, h) ==
  /\ log \in Logs /\ h \in Seq(Messages) /\ Len(h) = log.count
  /\ \A i \in 1 .. log.count : log.lines[i] = h[i]

\* After any messages the log holds what the history remembers.
LEMMA LogAllMirrors ==
  ASSUME NEW log, NEW h, Mirrors(log, h), NEW msgs \in Seq(Messages)
  PROVE  Mirrors(LogAll(log, msgs), Remember(h, msgs))
<1>1. PICK M, L, k, n, H, N : /\ M = Messages /\ L = LOG_LINES /\ k = Len(h) /\ n = Len(msgs)
                              /\ H = h \o msgs /\ N = Len(H)
  OBVIOUS
<1>2. k = Len(h) /\ n = Len(msgs) /\ H = h \o msgs /\ N = Len(H)
  BY ONLY <1>1
<1>3. /\ log \in Logs /\ h \in Seq(M) /\ k = log.count
      /\ \A i \in 1 .. k : log.lines[i] = h[i]
  BY ONLY <1>1, Mirrors(log, h) DEF Mirrors
<1>4. L \in 1 .. 8 /\ k \in 0 .. L
  BY ONLY <1>1, <1>3, ShellSizes DEF Logs
<1>5. msgs \in Seq(M) /\ n \in Nat
  BY ONLY <1>1, msgs \in Seq(Messages), LenProperties
<1>6. /\ H \in Seq(M) /\ N = k + n
      /\ \A i \in 1 .. k + n : H[i] = IF i <= k THEN h[i] ELSE msgs[i - k]
  <2>1. h \in Seq(M) /\ msgs \in Seq(M)
    BY ONLY <1>3, <1>5
  <2>2. /\ h \o msgs \in Seq(M) /\ Len(h \o msgs) = Len(h) + Len(msgs)
        /\ \A i \in 1 .. Len(h) + Len(msgs) :
              (h \o msgs)[i] = IF i <= Len(h) THEN h[i] ELSE msgs[i - Len(h)]
    BY ONLY <2>1, ConcatProperties
  <2> QED BY ONLY <1>2, <2>2
<1>7. PICK e : LogSteps(e, log, msgs) /\ LogAll(log, msgs) = e[n]
  BY ONLY <1>1, <1>3, msgs \in Seq(Messages), LogAllIs
<1>8. /\ e \in [0 .. n -> Logs] /\ e[0] = log
      /\ \A i \in 1 .. n : e[i] = log_print(e[i - 1], msgs[i])
  BY ONLY <1>1, <1>7 DEF LogSteps
<1>9. Holds(log, H, k)
  <2>1. k = IF k < L THEN k ELSE L
    BY ONLY <1>4
  <2>2. \A j \in 1 .. k : k - k + j = j /\ j \in 1 .. k + n /\ j <= k
    BY ONLY <1>4, <1>5
  <2> QED BY ONLY <1>1, <1>3, <1>6, <2>1, <2>2, ZenonT(60) DEF Holds
<1> DEFINE A == {i \in 0 .. n : ~ Holds(e[i], H, k + i)}
<1>10. ASSUME NEW i \in A, \A j \in A : i <= j PROVE FALSE
  <2>1. i # 0
    <3>1. k + 0 = k
      BY ONLY <1>4
    <3> QED BY <1>8, <1>9, <3>1
  <2>2. i \in 1 .. n /\ i - 1 \in 0 .. n /\ i - 1 \notin A
    BY <1>5, <1>10, <2>1
  <2>3. Holds(e[i - 1], H, k + (i - 1))
    BY <2>2
  <2>4. PICK m : m = k + (i - 1)
    OBVIOUS
  <2>5. m \in Nat /\ m < N /\ m + 1 = k + i /\ m + 1 \in 1 .. k + n /\ ~ m + 1 <= k
        /\ m + 1 - k = i
    BY ONLY <1>4, <1>5, <1>6, <2>2, <2>4
  <2>6. H[m + 1] = msgs[i]
    <3>1. PICK j : j = m + 1
      OBVIOUS
    <3>2. j \in 1 .. k + n /\ ~ j <= k /\ j - k = i
      BY ONLY <1>4, <1>5, <2>2, <2>4, <3>1
    <3>3. H[j] = msgs[j - k]
      BY ONLY <1>6, <3>2
    <3> QED BY ONLY <3>1, <3>2, <3>3
  <2>7. H \in Seq(Messages) /\ m < Len(H)
    BY ONLY <1>1, <1>6, <2>5
  <2>8. Holds(log_print(e[i - 1], H[m + 1]), H, m + 1)
    BY ONLY <2>3, <2>4, <2>5, <2>7, HoldsOneMore
  <2>9. Holds(e[i], H, k + i)
    BY ONLY <1>8, <2>2, <2>5, <2>6, <2>8
  <2> QED BY <2>9
<1>11. A \in SUBSET Nat
  OBVIOUS
<1>12. A = {}
  BY <1>10, <1>11, MinOfNaturals
<1>13. Holds(e[n], H, N)
  BY <1>5, <1>6, <1>12
<1>14. PICK log2, c, skip, r : /\ log2 = e[n] /\ c = log2.count
                               /\ skip = (IF N > L THEN N - L ELSE 0) /\ r = Remember(h, msgs)
  OBVIOUS
<1>15. log2 \in Logs /\ c = (IF N < L THEN N ELSE L)
       /\ \A j \in 1 .. c : log2.lines[j] = H[N - c + j]
  BY ONLY <1>1, <1>13, <1>14 DEF Holds
<1>16. N \in Nat
  BY ONLY <1>4, <1>5, <1>6
<1>17. skip \in Nat /\ c \in Nat /\ skip = N - c /\ skip + c = N
  <2>1. L \in Nat /\ skip = (IF N > L THEN N - L ELSE 0) /\ c = (IF N < L THEN N ELSE L)
    BY ONLY <1>4, <1>14, <1>15
  <2> QED BY ONLY <1>16, <2>1
<1>18. r = SubSeq(H, skip + 1, skip + c)
  BY ONLY <1>1, <1>14, <1>17 DEF Remember
<1>19. \A i \in skip + 1 .. skip + c : H[i] \in M
  <2>1. \A i \in skip + 1 .. skip + c : i \in 1 .. N
    BY ONLY <1>16, <1>17
  <2> QED BY ONLY <1>1, <1>6, <2>1, ElementOfSeq
<1>20. r \in Seq(M) /\ Len(r) = c /\ \A i \in 1 .. c : r[i] = H[skip + i]
  <2>1. PICK q : q = SubSeq(H, skip + 1, skip + c)
    OBVIOUS
  <2>2. skip \in Nat /\ c \in Nat
    BY ONLY <1>17
  <2>3. q \in Seq(M) /\ Len(q) = c /\ \A i \in 1 .. c : q[i] = H[skip + i]
    <3>1. /\ SubSeq(H, skip + 1, skip + c) \in Seq(M)
          /\ Len(SubSeq(H, skip + 1, skip + c)) = c
          /\ \A i \in 1 .. c : SubSeq(H, skip + 1, skip + c)[i] = H[skip + i]
      BY ONLY <1>19, <2>2, Slice
    <3> QED BY ONLY <2>1, <3>1
  <2>4. r = q
    BY ONLY <1>18, <2>1
  <2> QED BY ONLY <2>3, <2>4
<1>21. LogAll(log, msgs) = log2 /\ Remember(h, msgs) = r /\ M = Messages
  BY ONLY <1>1, <1>7, <1>14
<1>22. \A i \in 1 .. c : log2.lines[i] = r[i]
  <2>1. \A i \in 1 .. c : log2.lines[i] = H[skip + i]
    BY ONLY <1>15, <1>17
  <2> QED BY ONLY <1>20, <2>1
<1>23. log2.count = c
  BY ONLY <1>14
<1>24. Mirrors(log2, r)
  BY ONLY <1>15, <1>20, <1>21, <1>22, <1>23 DEF Mirrors
<1> QED
  BY ONLY <1>21, <1>24
-----------------------------------------------------------------------------
(***************************************************************************)
(* The text in the log window and in the prompt.                           *)
(***************************************************************************)
\* The last strip of a drawing on a row is what the row shows of it.
LEMMA LastStrip ==
  ASSUME VGA_WIDTH \in Nat \ {0}, NEW m \in Screens, NEW d \in Drawings, NEW i \in 1 .. Len(d),
         NEW y \in Rows, d[i].y = y, d[i].x < VGA_WIDTH,
         \A j \in i + 1 .. Len(d) : d[j].y # y
  PROVE  \E r \in Row : Paint(m, d)[y] = Stroke(r, d[i])
<1>1. PICK n : n = Len(d)
  OBVIOUS
<1>2. n \in Nat /\ i \in 1 .. n /\ \A j \in 1 .. n : d[j] \in StripSet
  BY <1>1, LenProperties, ElementOfSeq DEF Drawings
<1>3. PICK e : PaintSteps(e, m, d)
  BY ONLY d \in Drawings, VGA_WIDTH \in Nat \ {0}, m \in Screens, PaintIs
<1>4. e \in [0 .. n -> Screens] /\ \A j \in 1 .. n : e[j] = Drawn(e[j - 1], d[j])
  BY ONLY <1>1, <1>3 DEF PaintSteps
<1>5. PICK r : r = e[i - 1][y]
  OBVIOUS
<1>6. r \in Row /\ e[i][y] = Stroke(r, d[i])
  <2>1. i - 1 \in 0 .. n
    BY ONLY <1>2
  <2>2. e[i - 1] \in Screens /\ d[i] \in StripSet /\ e[i] = Drawn(e[i - 1], d[i])
    BY ONLY <1>2, <1>4, <2>1
  <2>3. PICK q, s : q = e[i - 1] /\ s = d[i]
    OBVIOUS
  <2>4. Drawn(q, s)[y] = Stroke(q[y], s)
    <3>1. q \in Screens /\ s \in StripSet /\ s.y = y /\ s.x < VGA_WIDTH
      BY ONLY <2>2, <2>3, d[i].y = y, d[i].x < VGA_WIDTH
    <3> QED BY ONLY <3>1, VGA_WIDTH \in Nat \ {0}, y \in Rows, DrawnScreen
  <2>5. r \in Row
    BY ONLY <1>5, <2>2, y \in Rows DEF Screens
  <2> QED BY ONLY <1>5, <2>2, <2>3, <2>4, <2>5
<1> DEFINE A == {k \in 0 .. n - i : e[i + k][y] # e[i][y]}
<1>7. ASSUME NEW k \in A, \A j \in A : k <= j PROVE FALSE
  <2>1. k # 0
    BY <1>2
  <2>2. k - 1 \in 0 .. n - i /\ k - 1 \notin A
    BY <1>2, <1>7, <2>1
  <2>3. PICK j : j = i + k
    OBVIOUS
  <2>4. j \in 1 .. n /\ j \in i + 1 .. n /\ i + (k - 1) = j - 1 /\ j - 1 \in 0 .. n
    BY <1>2, <2>1, <2>3
  <2>5. e[j - 1][y] = e[i][y]
    BY <2>2, <2>4
  <2>6. d[j].y # y
    BY ONLY <1>1, <2>4, \A h \in i + 1 .. Len(d) : d[h].y # y
  <2>7. PICK q, s : q = e[j - 1] /\ s = d[j]
    OBVIOUS
  <2>8. q \in Screens /\ s \in StripSet /\ s.y # y /\ e[j] = Drawn(q, s)
    BY ONLY <1>2, <1>4, <2>4, <2>6, <2>7
  <2>9. Drawn(q, s)[y] = q[y]
    BY ONLY <2>8, VGA_WIDTH \in Nat \ {0}, y \in Rows, DrawnScreen
  <2>10. e[j][y] # e[i][y]
    BY <2>3
  <2> QED BY ONLY <2>5, <2>7, <2>8, <2>9, <2>10
<1>8. A \in SUBSET Nat
  OBVIOUS
<1>9. A = {}
  BY <1>7, <1>8, MinOfNaturals, ZenonT(60)
<1>10. n - i \in 0 .. n - i /\ i + (n - i) = n
  BY <1>2
<1>11. e[n][y] = e[i][y]
  BY <1>9, <1>10
<1>12. Paint(m, d) = e[n]
  BY ONLY <1>1, <1>3, d \in Drawings, VGA_WIDTH \in Nat \ {0}, m \in Screens, PaintIs
<1> QED
  BY ONLY <1>6, <1>11, <1>12

\* The window of the screen that shows the text that is written there.
LEMMA Window ==
  ASSUME NEW r \in Row, NEW t \in Text, NEW x \in Nat, x + Len(t) <= 80,
         \A i \in 1 .. Len(t) : r[x + i] = t[i]
  PROVE  SubSeq(r, x + 1, x + Len(t)) = t
<1>1. PICK T, n : T = Char /\ n = Len(t)
  OBVIOUS
<1>2. t \in Seq(T) /\ n \in Nat
  BY ONLY <1>1, t \in Text, LenProperties DEF Text
<1>3. VGA_WIDTH = 80
  BY ONLY ShellSizes
<1>4. r \in [1 .. 80 -> T]
  BY ONLY <1>1, <1>3, r \in Row DEF Row
<1>5. \A i \in x + 1 .. x + n : r[i] \in T
  <2>1. \A i \in x + 1 .. x + n : i \in 1 .. 80
    BY ONLY <1>1, <1>2, x \in Nat, x + Len(t) <= 80
  <2> QED BY ONLY <1>4, <2>1
<1>6. /\ SubSeq(r, x + 1, x + n) \in Seq(T) /\ Len(SubSeq(r, x + 1, x + n)) = n
      /\ \A i \in 1 .. n : SubSeq(r, x + 1, x + n)[i] = r[x + i]
  BY ONLY <1>2, <1>5, x \in Nat, Slice
<1>7. PICK q : q = SubSeq(r, x + 1, x + n)
  OBVIOUS
<1>8. q \in Seq(T) /\ Len(q) = Len(t) /\ \A i \in 1 .. Len(q) : q[i] = t[i]
  BY ONLY <1>1, <1>6, <1>7, \A i \in 1 .. Len(t) : r[x + i] = t[i]
<1>9. q = t
  BY ONLY <1>2, <1>8, SeqEqual
<1> QED
  BY ONLY <1>1, <1>7, <1>9

\* What the menu's view shows in the rows of the log.
LogWindow(m, st, log, cmd, i) ==
  SubSeq(Paint(m, MenuStrips(st, log, cmd))[7 + i], 3, 78)
    = LogLine(log, i) \o Blanks(76 - Len(LogLine(log, i)))

\* The row of the log window shows the line of the log, whatever was there before.
LEMMA MenuShowsLog ==
  ASSUME NEW m \in Screens, NEW st \in Samples, NEW log \in Logs, NEW cmd \in Lines,
         NEW i \in 1 .. LOG_LINES
  PROVE  LogWindow(m, st, log, cmd, i)
<1> SUFFICES SubSeq(Paint(m, MenuStrips(st, log, cmd))[7 + i], 3, 78)
               = LogLine(log, i) \o Blanks(76 - Len(LogLine(log, i)))
  BY DEF LogWindow
<1>1. PICK a, d, e, f, y : /\ a = Above(st) /\ d = LogStrips(log) /\ e = PromptStrips(cmd)
                           /\ f = tui_draw_footer(Word(59)) /\ y = 7 + i
  OBVIOUS
<1>2. VGA_WIDTH = 80 /\ VGA_WIDTH \in Nat \ {0} /\ Rows = 0 .. 24 /\ LOG_LINES \in 1 .. 8
  BY ONLY ShellSizes
<1>3. y \in Rows /\ y \notin 20 .. 22 /\ y \notin 24 .. 24
  BY ONLY <1>1, <1>2, i \in 1 .. LOG_LINES
<1>4. /\ MenuStrips(st, log, cmd) = a \o d \o e \o f /\ a \in Drawings /\ f \in Drawings
      /\ On(f, 24, 24)
  BY ONLY <1>1, MenuDraws, st \in Samples, log \in Logs, cmd \in Lines
<1>5. d \in [1 .. LOG_LINES -> StripSet] /\ d \in Drawings
  BY ONLY <1>1, LogOn, log \in Logs DEF On
<1>6. On(e, 20, 22) /\ e \in Drawings
  BY ONLY <1>1, PromptFills, FillsDraws, cmd \in Lines
<1>7. PICK q : q = Paint(m, a)
  OBVIOUS
<1>8. q \in Screens
  BY ONLY <1>2, <1>4, <1>7, PaintScreen, m \in Screens
<1>9. PICK p, r : p = Paint(q, d) /\ r = Paint(p, e)
  OBVIOUS
<1>10. p \in Screens /\ r \in Screens
  BY ONLY <1>2, <1>5, <1>6, <1>8, <1>9, PaintScreen
<1>11. Paint(m, a \o d \o e \o f) = Paint(r, f)
  <2>1. PICK ad, ade : ad = a \o d /\ ade = ad \o e
    OBVIOUS
  <2>2. ad \in Drawings /\ Paint(m, ad) = p
    BY ONLY <1>2, <1>4, <1>5, <1>7, <1>9, <2>1, PaintConcat, m \in Screens
  <2>3. ade \in Drawings /\ Paint(m, ade) = r
    BY ONLY <1>2, <1>6, <1>9, <2>1, <2>2, PaintConcat, m \in Screens
  <2>4. Paint(m, ade \o f) = Paint(r, f)
    BY ONLY <1>2, <1>4, <2>3, PaintConcat, m \in Screens
  <2> QED BY ONLY <2>1, <2>4
<1>12. Paint(r, f)[y] = p[y]
  <2>1. Paint(r, f)[y] = r[y]
    <3>1. On(f, 24, 24)
      BY ONLY <1>4
    <3> QED BY ONLY <1>2, <1>3, <1>10, <3>1, RowKept
  <2>2. Paint(p, e)[y] = p[y]
    BY ONLY <1>2, <1>3, <1>6, <1>10, RowKept
  <2> QED BY ONLY <1>9, <2>1, <2>2
<1>13. PICK s, t : s = d[i] /\ t = LogLine(log, i) \o Blanks(76 - Len(LogLine(log, i)))
  OBVIOUS
<1>14. s \in StripSet /\ s.y = y /\ s.x = 2 /\ s.text = t /\ Len(t) = 76
  <2>1. /\ LogStrips(log)[i] \in StripSet /\ LogStrips(log)[i].y = 7 + i
        /\ LogStrips(log)[i].x = 2
        /\ LogStrips(log)[i].text = LogLine(log, i) \o Blanks(76 - Len(LogLine(log, i)))
        /\ Len(LogStrips(log)[i].text) = 76
    BY ONLY LogStripIs, log \in Logs, i \in 1 .. LOG_LINES, ZenonT(60)
  <2>2. s = LogStrips(log)[i]
    BY ONLY <1>1, <1>13
  <2>3. y = 7 + i
    BY ONLY <1>1
  <2>4. t = LogLine(log, i) \o Blanks(76 - Len(LogLine(log, i)))
    BY ONLY <1>13
  <2> QED BY ONLY <2>1, <2>2, <2>3, <2>4
<1>15. PICK row \in Row : p[y] = Stroke(row, s)
  <2>1. LOG_LINES \in Nat
    BY ONLY <1>2
  <2>2. Len(d) = LOG_LINES
    BY ONLY <1>5, <2>1
  <2>3. i \in 1 .. Len(d)
    BY ONLY <2>2, i \in 1 .. LOG_LINES
  <2>4. \A j \in i + 1 .. Len(d) : d[j].y # y
    <3>1. ASSUME NEW j \in i + 1 .. LOG_LINES PROVE d[j].y # y
      <4>1. j \in 1 .. LOG_LINES /\ 7 + j # y
        BY ONLY <1>1, <1>2, i \in 1 .. LOG_LINES, j \in i + 1 .. LOG_LINES
      <4>2. d[j].y = 7 + j
        BY ONLY <1>1, <4>1, LogStripIs, log \in Logs
      <4> QED BY ONLY <4>1, <4>2
    <3> QED BY ONLY <2>2, <3>1
  <2>5. d[i].y = y /\ d[i].x < VGA_WIDTH
    BY ONLY <1>2, <1>13, <1>14
  <2>6. \E w \in Row : Paint(q, d)[y] = Stroke(w, d[i])
    <3>1. d \in Drawings /\ VGA_WIDTH \in Nat \ {0} /\ y \in Rows
      BY ONLY <1>2, <1>3, <1>5
    <3> QED BY ONLY <1>8, <2>3, <2>4, <2>5, <3>1, LastStrip
  <2> QED BY ONLY <1>9, <1>13, <2>6
<1>16. p[y] \in Row
  BY ONLY <1>3, <1>10 DEF Screens
<1>17. t \in Text
  BY ONLY <1>14 DEF StripSet
<1>18. \A c \in 1 .. Len(t) : p[y][2 + c] = t[c]
  <2>1. ASSUME NEW c \in 1 .. 76 PROVE p[y][2 + c] = t[c]
    <3>1. PICK k : k = 2 + c
      OBVIOUS
    <3>2. k \in 1 .. 80 /\ s.x < k /\ k <= s.x + 76 /\ k - s.x = c
      BY ONLY <1>14, <3>1, c \in 1 .. 76
    <3>3. InStrip(s, k)
      BY ONLY <1>14, <3>2 DEF InStrip
    <3>4. s.x < VGA_WIDTH
      BY ONLY <1>2, <1>14, SMTT(30)
    <3>5. Stroke(row, s)[k] = s.text[k - s.x]
      BY ONLY <1>2, <1>14, <1>15, <3>2, <3>3, <3>4, StrokeCells, SMTT(30)
    <3> QED BY ONLY <1>14, <1>15, <3>1, <3>2, <3>5
  <2> QED BY ONLY <1>14, <2>1
<1>19. SubSeq(p[y], 2 + 1, 2 + Len(t)) = t
  <2>1. 2 \in Nat /\ 2 + Len(t) <= 80
    BY ONLY <1>14
  <2> QED BY ONLY <1>16, <1>17, <1>18, <2>1, Window
<1>20. 2 + 1 = 3 /\ 2 + Len(t) = 78
  BY ONLY <1>14
<1> QED
  BY ONLY <1>1, <1>4, <1>11, <1>12, <1>13, <1>19, <1>20

\* What the menu's view shows of the line and the cursor.
LEMMA MenuShowsLine ==
  ASSUME NEW m \in Screens, NEW st \in Samples, NEW log \in Logs, NEW cmd \in Lines
  PROVE  SubSeq(Paint(m, MenuStrips(st, log, cmd))[21], 9, 78)
           = cmd \o <<"_">> \o Blanks(69 - Len(cmd))
<1>1. PICK a, d, f : a = Above(st) /\ d = LogStrips(log) /\ f = tui_draw_footer(Word(59))
  OBVIOUS
<1>2. VGA_WIDTH = 80 /\ VGA_WIDTH \in Nat \ {0} /\ Rows = 0 .. 24
  BY ONLY ShellSizes
<1>3. 21 \in Rows /\ 21 \notin 24 .. 24
  BY ONLY <1>2
<1>4. /\ MenuStrips(st, log, cmd) = a \o d \o PromptStrips(cmd) \o f
      /\ a \in Drawings /\ f \in Drawings /\ On(f, 24, 24)
  BY ONLY <1>1, MenuDraws, st \in Samples, log \in Logs, cmd \in Lines
<1>5. d \in Drawings
  BY ONLY <1>1, LogOn, log \in Logs DEF On
<1>6. PICK b, t, u, v, uv, e : /\ b = PromptBox /\ t = Strip(2, 21, Word(6) \o cmd)
                               /\ u = Cursor(cmd) /\ v = Rest(cmd) /\ uv = <<u, v>>
                               /\ e = PromptStrips(cmd)
  OBVIOUS
<1>7. /\ e = b \o <<t>> \o uv /\ e \in Drawings /\ b \in Drawings
      /\ <<t>> \in Drawings /\ uv \in Drawings
  <2>1. /\ e = b \o Typed(cmd) \o uv /\ On(Typed(cmd), 20, 22) /\ On(uv, 20, 22)
        /\ Fills(e, 20, 22, 1, 80)
    BY ONLY <1>6, PromptFills, cmd \in Lines
  <2>2. Typed(cmd) = <<t>>
    BY ONLY <1>6, PromptParts, cmd \in Lines
  <2>3. b \in Drawings
    BY ONLY <1>6, PromptBoxFills, FillsDraws
  <2> QED BY ONLY <2>1, <2>2, <2>3, FillsDraws DEF On
<1>8. PICK n, w : n = Len(cmd) /\ w = Word(6) \o cmd
  OBVIOUS
<1>9. cmd \in Text /\ n \in 0 .. 63
  BY ONLY <1>8, LineText, cmd \in Lines
<1>10. /\ w \in Text /\ Len(w) = 6 + n
       /\ u \in StripSet /\ u.y = 21 /\ u.x = 8 + n /\ u.text = <<"_">>
       /\ v \in StripSet /\ v.y = 21 /\ v.x = 9 + n /\ v.text = Blanks(69 - n)
  BY ONLY <1>6, <1>8, PromptParts, cmd \in Lines
<1>11. 8 + n < VGA_WIDTH /\ 9 + n < VGA_WIDTH
  BY ONLY <1>2, <1>9
<1>12. t \in StripSet /\ t.y = 21 /\ t.x = 2 /\ t.text = w
  <2>1. 2 \in Nat /\ 21 \in Nat
    OBVIOUS
  <2>2. /\ Strip(2, 21, w) \in StripSet /\ Strip(2, 21, w).x = 2 /\ Strip(2, 21, w).y = 21
        /\ Strip(2, 21, w).text = w
    <3>1. w \in Text
      BY ONLY <1>10
    <3> QED BY ONLY <2>1, <3>1, StripIs
  <2>3. t = Strip(2, 21, w)
    BY ONLY <1>6, <1>8
  <2> QED BY ONLY <2>2, <2>3
<1>13. PICK q, p, q1, q2, q3, q4 :
          /\ q = Paint(m, a \o d) /\ p = Paint(q, b) /\ q1 = Drawn(p, t)
          /\ q2 = Drawn(q1, u) /\ q3 = Drawn(q2, v) /\ q4 = Paint(q3, f)
  OBVIOUS
<1>14. a \o d \in Drawings /\ q \in Screens
  <2>1. a \o d \in Drawings
    BY ONLY <1>4, <1>5, ConcatDrawings
  <2> QED BY ONLY <1>2, <1>13, <2>1, m \in Screens, PaintScreen
<1>15. p \in Screens
  BY ONLY <1>2, <1>7, <1>13, <1>14, PaintScreen
<1>16. q1 \in Screens /\ q1[21] = Stroke(p[21], t)
  <2>1. t.y = 21 /\ t.x < VGA_WIDTH
    BY ONLY <1>2, <1>12
  <2> QED BY ONLY <1>2, <1>3, <1>12, <1>13, <1>15, <2>1, DrawnScreen
<1>17. q2 \in Screens /\ q2[21] = Stroke(q1[21], u)
  <2>1. u.y = 21 /\ u.x < VGA_WIDTH /\ u \in StripSet
    BY ONLY <1>10, <1>11
  <2> QED BY ONLY <1>2, <1>3, <1>13, <1>16, <2>1, DrawnScreen
<1>18. q3 \in Screens /\ q3[21] = Stroke(q2[21], v)
  <2>1. v.y = 21 /\ v.x < VGA_WIDTH /\ v \in StripSet
    BY ONLY <1>10, <1>11
  <2> QED BY ONLY <1>2, <1>3, <1>13, <1>17, <2>1, DrawnScreen
<1>19. q4[21] = q3[21]
  <2>1. On(f, 24, 24)
    BY ONLY <1>4
  <2> QED BY ONLY <1>2, <1>3, <1>13, <1>18, <2>1, RowKept
<1>20. Paint(m, MenuStrips(st, log, cmd)) = q4
  <2>1. PICK ad, bt : ad = a \o d /\ bt = b \o <<t>>
    OBVIOUS
  <2>2. Paint(q, <<t>>) = Drawn(q, t) /\ \A s \in Screens : Paint(s, <<t>>) = Drawn(s, t)
    BY ONLY <1>2, <1>12, <1>14, PaintOne
  <2>3. bt \in Drawings /\ Paint(q, bt) = q1
    <3>1. bt \in Drawings /\ Paint(q, bt) = Paint(p, <<t>>)
      BY ONLY <1>2, <1>7, <1>13, <1>14, <2>1, PaintConcat
    <3> QED BY ONLY <1>13, <1>15, <2>2, <3>1
  <2>4. Paint(q1, uv) = q3
    <3>1. <<u>> \in Drawings /\ <<v>> \in Drawings /\ uv = <<u>> \o <<v>>
      BY ONLY <1>6, <1>10, OneStrip, TwoStrips
    <3>2. Paint(q1, uv) = Paint(Paint(q1, <<u>>), <<v>>)
      BY ONLY <1>2, <1>16, <3>1, PaintConcat
    <3>3. Paint(q1, <<u>>) = q2
      BY ONLY <1>2, <1>10, <1>13, <1>16, PaintOne, ZenonT(60)
    <3>4. Paint(q2, <<v>>) = q3
      BY ONLY <1>2, <1>10, <1>13, <1>17, PaintOne, ZenonT(60)
    <3> QED BY ONLY <3>2, <3>3, <3>4
  <2>5. Paint(q, e) = q3
    <3>1. e = bt \o uv
      BY ONLY <1>7, <2>1
    <3>2. Paint(q, bt \o uv) = Paint(q1, uv)
      BY ONLY <1>2, <1>7, <1>14, <2>3, PaintConcat
    <3> QED BY ONLY <2>4, <3>1, <3>2
  <2>6. ad \in Drawings /\ Paint(m, ad) = q
    BY ONLY <1>13, <1>14, <2>1
  <2>7. ad \o e \in Drawings /\ Paint(m, ad \o e) = q3
    BY ONLY <1>2, <1>7, <2>5, <2>6, PaintConcat, m \in Screens
  <2>8. Paint(m, ad \o e \o f) = q4
    <3>1. f \in Drawings
      BY ONLY <1>4
    <3> QED BY ONLY <1>2, <1>13, <2>7, <3>1, PaintConcat, m \in Screens
  <2>9. MenuStrips(st, log, cmd) = ad \o e \o f
    BY ONLY <1>4, <1>6, <2>1
  <2> QED BY ONLY <2>8, <2>9
<1>21. PICK r0, r1, r2, r3 : r0 = p[21] /\ r1 = q1[21] /\ r2 = q2[21] /\ r3 = q3[21]
  OBVIOUS
<1>22. /\ r0 \in Row /\ r1 \in Row /\ r2 \in Row /\ r3 \in Row
       /\ r1 = Stroke(r0, t) /\ r2 = Stroke(r1, u) /\ r3 = Stroke(r2, v)
  BY ONLY <1>3, <1>15, <1>16, <1>17, <1>18, <1>21 DEF Screens
<1>23. \A c \in 1 .. 80 : r1[c] = IF InStrip(t, c) THEN t.text[c - t.x] ELSE r0[c]
  <2>1. t \in StripSet /\ t.x < VGA_WIDTH
    BY ONLY <1>2, <1>12
  <2> QED BY ONLY <1>2, <1>22, <2>1, StrokeCells, ZenonT(60)
<1>24. \A c \in 1 .. 80 : r2[c] = IF InStrip(u, c) THEN u.text[c - u.x] ELSE r1[c]
  <2>1. u \in StripSet /\ u.x < VGA_WIDTH
    BY ONLY <1>10, <1>11
  <2> QED BY ONLY <1>2, <1>22, <2>1, StrokeCells, ZenonT(60)
<1>25. \A c \in 1 .. 80 : r3[c] = IF InStrip(v, c) THEN v.text[c - v.x] ELSE r2[c]
  <2>1. v \in StripSet /\ v.x < VGA_WIDTH
    BY ONLY <1>10, <1>11
  <2> QED BY ONLY <1>2, <1>22, <2>1, StrokeCells, ZenonT(60)
<1>26. PICK k : k = 69 - n
  OBVIOUS
<1>27. k \in Nat /\ n + 1 + k = 70 /\ n \in Nat
  BY ONLY <1>9, <1>26
<1>28. PICK T, one, bl, dot, sp :
          T = Char /\ one = <<"_">> /\ bl = Blanks(k) /\ dot = "_" /\ sp = " "
  OBVIOUS
<1>29. T = Char /\ one = <<"_">> /\ k = 69 - n /\ bl = Blanks(k) /\ dot = "_" /\ sp = " "
  BY ONLY <1>26, <1>28
<1>30. /\ one \in Text /\ Len(one) = 1 /\ one[1] = dot
       /\ bl \in Text /\ Len(bl) = k /\ \A i \in 1 .. k : bl[i] = sp
  <2>1. dot \in Char /\ sp \in Char
    BY ONLY <1>29, ShellTextAssumption
  <2>2. Rep(sp, k) \in Text /\ Len(Rep(sp, k)) = k /\ \A i \in 1 .. k : Rep(sp, k)[i] = sp
    BY ONLY <1>27, <2>1, RepText
  <2>3. bl = Rep(sp, k)
    BY ONLY <1>29 DEF Blanks
  <2>4. <<dot>> \in Text /\ Len(<<dot>>) = 1 /\ <<dot>>[1] = dot
    BY ONLY <2>1, OneLetter
  <2>5. one = <<dot>>
    BY ONLY <1>29
  <2> QED BY ONLY <2>2, <2>3, <2>4, <2>5
<1>31. PICK g, h : g = cmd \o one /\ h = g \o bl
  OBVIOUS
<1>32. /\ g \in Seq(T) /\ Len(g) = n + 1
       /\ \A i \in 1 .. n + 1 : g[i] = IF i <= n THEN cmd[i] ELSE one[i - n]
  <2>1. cmd \in Seq(T) /\ one \in Seq(T)
    BY ONLY <1>9, <1>29, <1>30 DEF Text
  <2>2. /\ cmd \o one \in Seq(T) /\ Len(cmd \o one) = Len(cmd) + Len(one)
        /\ \A i \in 1 .. Len(cmd) + Len(one) :
             (cmd \o one)[i] = IF i <= Len(cmd) THEN cmd[i] ELSE one[i - Len(cmd)]
    BY ONLY <2>1, ConcatProperties
  <2>3. n = Len(cmd) /\ Len(one) = 1
    BY ONLY <1>8, <1>30
  <2> QED BY ONLY <1>31, <2>2, <2>3
<1>33. /\ h \in Seq(T) /\ Len(h) = n + 1 + k
       /\ \A i \in 1 .. n + 1 + k : h[i] = IF i <= n + 1 THEN g[i] ELSE bl[i - (n + 1)]
  <2>1. g \in Seq(T) /\ bl \in Seq(T)
    BY ONLY <1>29, <1>30, <1>32 DEF Text
  <2>2. /\ g \o bl \in Seq(T) /\ Len(g \o bl) = Len(g) + Len(bl)
        /\ \A i \in 1 .. Len(g) + Len(bl) :
             (g \o bl)[i] = IF i <= Len(g) THEN g[i] ELSE bl[i - Len(g)]
    BY ONLY <2>1, ConcatProperties
  <2>3. Len(g) = n + 1 /\ Len(bl) = k
    BY ONLY <1>30, <1>32
  <2> QED BY ONLY <1>31, <2>2, <2>3
<1>34. ASSUME NEW i \in 1 .. 70 PROVE r3[8 + i] = h[i]
  <2>1. PICK c : c = 8 + i
    OBVIOUS
  <2>2. c \in 1 .. 80 /\ c - 2 = 6 + i /\ i \in 1 .. n + 1 + k
    BY ONLY <1>27, <2>1, i \in 1 .. 70
  <2>3. InStrip(t, c) <=> i <= n
    <3>1. t.x = 2 /\ Len(t.text) = 6 + n
      BY ONLY <1>10, <1>12
    <3> QED BY ONLY <1>27, <2>1, <3>1, i \in 1 .. 70 DEF InStrip
  <2>4. InStrip(u, c) <=> i = n + 1
    <3>1. u.x = 8 + n /\ Len(u.text) = 1
      BY ONLY <1>10, <1>29, <1>30
    <3> QED BY ONLY <1>27, <2>1, <3>1, i \in 1 .. 70 DEF InStrip
  <2>5. InStrip(v, c) <=> i > n + 1
    <3>1. v.x = 9 + n /\ Len(v.text) = k
      BY ONLY <1>10, <1>29, <1>30
    <3> QED BY ONLY <1>27, <2>1, <3>1, i \in 1 .. 70 DEF InStrip
  <2>6. CASE i <= n
    <3>1. ~ InStrip(v, c) /\ ~ InStrip(u, c) /\ InStrip(t, c)
      BY ONLY <1>27, <2>3, <2>4, <2>5, <2>6, i \in 1 .. 70, SMTT(30)
    <3>2. r3[c] = w[c - 2]
      BY ONLY <1>12, <1>23, <1>24, <1>25, <2>2, <3>1
    <3>3. w[6 + i] = cmd[i]
      <4>1. PICK x, j : x = Word(6) /\ j = 6 + i
        OBVIOUS
      <4>2. x \in Seq(T) /\ cmd \in Seq(T) /\ Len(x) = 6
        BY ONLY <1>9, <1>29, <4>1, WordText DEF Text
      <4>3. \A z \in 1 .. Len(x) + Len(cmd) :
               (x \o cmd)[z] = IF z <= Len(x) THEN x[z] ELSE cmd[z - Len(x)]
        BY ONLY <4>2, ConcatProperties
      <4>4. Len(cmd) = n /\ w = x \o cmd
        BY ONLY <1>8, <4>1
      <4>5. j \in 1 .. 6 + n /\ ~ j <= 6 /\ j - 6 = i
        BY ONLY <1>27, <2>6, <4>1, i \in 1 .. 70
      <4> QED BY ONLY <4>1, <4>2, <4>3, <4>4, <4>5, ZenonT(60)
    <3>4. h[i] = cmd[i]
      <4>1. i <= n + 1 /\ i \in 1 .. n + 1
        BY ONLY <1>27, <2>6, i \in 1 .. 70
      <4> QED BY ONLY <1>32, <1>33, <2>2, <2>6, <4>1
    <3> QED BY ONLY <2>1, <2>2, <3>2, <3>3, <3>4
  <2>7. CASE i = n + 1
    <3>1. ~ InStrip(v, c) /\ InStrip(u, c) /\ c - u.x = 1
      <4>1. u.x = 8 + n
        BY ONLY <1>10
      <4> QED BY ONLY <1>27, <2>1, <2>4, <2>5, <2>7, <4>1, i \in 1 .. 70
    <3>2. r3[c] = dot
      <4>1. u.text = one
        BY ONLY <1>10, <1>29
      <4> QED BY ONLY <1>24, <1>25, <1>30, <2>2, <3>1, <4>1
    <3>3. h[i] = dot
      <4>1. i <= n + 1 /\ i \in 1 .. n + 1 /\ ~ i <= n /\ i - n = 1
        BY ONLY <1>27, <2>7
      <4>2. h[i] = g[i]
        BY ONLY <1>33, <2>2, <4>1
      <4>3. g[i] = one[1]
        BY ONLY <1>32, <4>1
      <4> QED BY ONLY <1>30, <4>2, <4>3
    <3> QED BY ONLY <2>1, <3>2, <3>3
  <2>8. CASE i > n + 1
    <3>1. InStrip(v, c) /\ c - v.x \in 1 .. k /\ ~ i <= n + 1 /\ i - (n + 1) \in 1 .. k
      <4>1. v.x = 9 + n
        BY ONLY <1>10
      <4> QED BY ONLY <1>27, <2>1, <2>5, <2>8, <4>1, i \in 1 .. 70
    <3>2. r3[c] = sp
      <4>1. v.text = bl
        BY ONLY <1>10, <1>29
      <4> QED BY ONLY <1>25, <1>30, <2>2, <3>1, <4>1
    <3>3. h[i] = sp
      BY ONLY <1>30, <1>33, <2>2, <3>1
    <3> QED BY ONLY <2>1, <3>2, <3>3
  <2>9. i <= n \/ i = n + 1 \/ i > n + 1
    BY ONLY <1>27, i \in 1 .. 70
  <2> QED BY ONLY <2>6, <2>7, <2>8, <2>9
<1>35. SubSeq(r3, 8 + 1, 8 + Len(h)) = h
  <2>1. h \in Text /\ Len(h) = 70
    BY ONLY <1>29, <1>27, <1>33 DEF Text
  <2>2. 8 \in Nat /\ 8 + Len(h) <= 80 /\ \A i \in 1 .. Len(h) : r3[8 + i] = h[i]
    BY ONLY <1>34, <2>1
  <2> QED BY ONLY <1>22, <2>1, <2>2, Window
<1>36. 8 + 1 = 9 /\ 8 + Len(h) = 78
  BY ONLY <1>27, <1>33
<1> QED
  BY ONLY <1>8, <1>19, <1>20, <1>21, <1>29, <1>31, <1>35, <1>36
-----------------------------------------------------------------------------
(***************************************************************************)
(* The console of the boot.                                                *)
(***************************************************************************)
\* The console, and what it is given.
Consoles == [mem : Screens, row : Rows, col : 0 .. VGA_WIDTH - 1]
Characters == Char \cup {Newline}

\* The screen after a scroll.
LEMMA Scrolled ==
  ASSUME NEW m \in Screens
  PROVE  /\ vga_scroll(m) \in Screens
         /\ \A y \in Rows : vga_scroll(m)[y] = IF y + 1 \in Rows THEN m[y + 1] ELSE BlankScreen[y]
<1>1. PICK b : b = Rep(" ", VGA_WIDTH)
  OBVIOUS
<1>2. \A y \in Rows : BlankScreen[y] = b /\ b \in Row
  BY <1>1, BlankIsScreen DEF BlankScreen, Screens
<1>3. vga_scroll(m) = [y \in Rows |-> IF y + 1 \in Rows THEN m[y + 1] ELSE b]
  BY ONLY <1>1 DEF vga_scroll
<1>4. \A y \in Rows : m[y] \in Row
  BY DEF Screens
<1> QED
  BY ONLY <1>2, <1>3, <1>4 DEF Screens

\* The console after a line feed.
LEMMA NewlineIs ==
  ASSUME NEW m \in Screens, NEW y \in Rows, NEW x \in Nat
  PROVE  LET con == [mem |-> m, row |-> y, col |-> x]
         IN  /\ vga_newline(con) \in Consoles
             /\ vga_newline(con) = IF y = 24 THEN [mem |-> vga_scroll(m), row |-> 24, col |-> 0]
                                   ELSE [mem |-> m, row |-> y + 1, col |-> 0]
<1>1. PICK con : con = [mem |-> m, row |-> y, col |-> x]
  OBVIOUS
<1>2. VGA_HEIGHT = 25 /\ VGA_WIDTH = 80 /\ Rows = 0 .. 24
  BY ONLY ShellSizes
<1>3. con.mem = m /\ con.row = y /\ con.col = x
  BY ONLY <1>1
<1>4. 0 \in 0 .. VGA_WIDTH - 1
  BY ONLY <1>2
<1>5. CASE y = 24
  <2>1. vga_newline(con) = [mem |-> vga_scroll(m), row |-> 24, col |-> 0]
    BY ONLY <1>2, <1>3, <1>5 DEF vga_newline
  <2>2. vga_scroll(m) \in Screens /\ 24 \in Rows
    BY ONLY <1>2, Scrolled, m \in Screens
  <2>3. vga_newline(con) \in Consoles
    BY ONLY <1>4, <2>1, <2>2 DEF Consoles
  <2> QED BY ONLY <1>1, <1>5, <2>1, <2>3
<1>6. CASE y # 24
  <2>1. ~ y + 1 >= VGA_HEIGHT /\ y + 1 \in Rows
    BY ONLY <1>2, <1>6, y \in Rows
  <2>2. vga_newline(con) = [con EXCEPT !.row = @ + 1, !.col = 0]
    BY ONLY <1>3, <2>1 DEF vga_newline
  <2>3. vga_newline(con) = [mem |-> m, row |-> y + 1, col |-> 0]
    BY ONLY <1>1, <2>2
  <2>4. vga_newline(con) \in Consoles
    BY ONLY <1>4, <2>1, <2>3, m \in Screens DEF Consoles
  <2> QED BY ONLY <1>1, <1>6, <2>3, <2>4
<1> QED
  BY ONLY <1>5, <1>6

\* The screen with a character in a cell.
Put(m, y, x, ch) == [m EXCEPT ![y] = [@ EXCEPT ![x + 1] = ch]]

\* Its cells.
PutAt(m, y, x, ch) ==
  \A r \in Rows, c \in 1 .. 80 :
    Put(m, y, x, ch)[r][c] = IF r = y /\ c = x + 1 THEN ch ELSE m[r][c]

\* It differs in that cell only.
LEMMA PutIs ==
  ASSUME NEW m \in Screens, NEW y \in Rows, NEW x \in 0 .. 79, NEW ch \in Char
  PROVE  Put(m, y, x, ch) \in Screens /\ PutAt(m, y, x, ch)
<1>1. PICK T, W : T = Char /\ W = VGA_WIDTH
  OBVIOUS
<1>2. W = 80 /\ ch \in T
  BY ONLY <1>1, ShellSizes, ch \in Char
<1>3. m \in [Rows -> [1 .. 80 -> T]]
  BY ONLY <1>1, <1>2, m \in Screens DEF Screens, Row
<1>4. PICK k : k = x + 1
  OBVIOUS
<1>5. k \in 1 .. 80
  BY ONLY <1>4, x \in 0 .. 79
<1>6. PICK r0, r1 : r0 = m[y] /\ r1 = [r0 EXCEPT ![k] = ch]
  OBVIOUS
<1>7. r0 \in [1 .. 80 -> T]
  BY ONLY <1>3, <1>6, y \in Rows
<1>8. r1 \in [1 .. 80 -> T] /\ \A c \in 1 .. 80 : r1[c] = IF c = k THEN ch ELSE r0[c]
  BY ONLY <1>2, <1>5, <1>6, <1>7
<1>9. PICK p : p = [m EXCEPT ![y] = r1]
  OBVIOUS
<1>10. p \in [Rows -> [1 .. 80 -> T]] /\ \A r \in Rows : p[r] = IF r = y THEN r1 ELSE m[r]
  BY ONLY <1>3, <1>8, <1>9, y \in Rows
<1>11. Put(m, y, x, ch) = p
  BY ONLY <1>4, <1>6, <1>9 DEF Put
<1>12. p \in Screens
  BY ONLY <1>1, <1>2, <1>10 DEF Screens, Row
<1>13. \A r \in Rows, c \in 1 .. 80 : p[r][c] = IF r = y /\ c = k THEN ch ELSE m[r][c]
  BY ONLY <1>6, <1>8, <1>10
<1>14. PutAt(m, y, x, ch)
  BY ONLY <1>4, <1>11, <1>13 DEF PutAt
<1> QED
  BY ONLY <1>11, <1>12, <1>14

\* What vga_putc does with each kind of character, at each place.
PutcCases(m, y, x, ch) ==
  LET con == [mem |-> m, row |-> y, col |-> x]
  IN  /\ vga_putc(con, ch) \in Consoles
      /\ ch = Newline => vga_putc(con, ch) = vga_newline(con)
      /\ ch # Newline /\ x = 79 =>
           /\ Put(m, y, x, ch) \in Screens
           /\ vga_putc(con, ch) = vga_newline([mem |-> Put(m, y, x, ch), row |-> y, col |-> 80])
      /\ ch # Newline /\ x # 79 =>
           /\ Put(m, y, x, ch) \in Screens
           /\ vga_putc(con, ch) = [mem |-> Put(m, y, x, ch), row |-> y, col |-> x + 1]

\* So vga_putc does just that.
LEMMA PutcIs ==
  ASSUME NEW m \in Screens, NEW y \in Rows, NEW x \in 0 .. 79, NEW ch \in Characters
  PROVE  PutcCases(m, y, x, ch)
<1> SUFFICES LET con == [mem |-> m, row |-> y, col |-> x]
             IN  /\ vga_putc(con, ch) \in Consoles
                 /\ ch = Newline => vga_putc(con, ch) = vga_newline(con)
                 /\ ch # Newline /\ x = 79 =>
                      /\ Put(m, y, x, ch) \in Screens
                      /\ vga_putc(con, ch)
                           = vga_newline([mem |-> Put(m, y, x, ch), row |-> y, col |-> 80])
                 /\ ch # Newline /\ x # 79 =>
                      /\ Put(m, y, x, ch) \in Screens
                      /\ vga_putc(con, ch) = [mem |-> Put(m, y, x, ch), row |-> y, col |-> x + 1]
  BY DEF PutcCases
<1>1. PICK con, put : /\ con = [mem |-> m, row |-> y, col |-> x]
                      /\ put = [con EXCEPT !.mem[con.row][con.col + 1] = ch, !.col = @ + 1]
  OBVIOUS
<1>2. VGA_WIDTH = 80
  BY ONLY ShellSizes
<1>3. put = [mem |-> Put(m, y, x, ch), row |-> y, col |-> x + 1]
  BY ONLY <1>1 DEF Put
<1>4. vga_putc(con, ch) = IF ch = Newline THEN vga_newline(con)
                          ELSE IF put.col >= VGA_WIDTH THEN vga_newline(put) ELSE put
  BY ONLY <1>1 DEF vga_putc
<1>5. put.col = x + 1
  BY ONLY <1>3
<1>6. CASE ch = Newline
  <2>1. vga_putc(con, ch) = vga_newline(con)
    BY ONLY <1>4, <1>6
  <2>2. x \in Nat
    BY ONLY x \in 0 .. 79
  <2>3. vga_newline(con) \in Consoles
    BY ONLY <1>1, <2>2, NewlineIs, m \in Screens, y \in Rows
  <2> QED BY ONLY <1>1, <1>6, <2>1, <2>3
<1>7. CASE ch # Newline
  <2>1. ch \in Char
    BY ONLY <1>7, ch \in Characters DEF Characters
  <2>2. PICK p : p = Put(m, y, x, ch)
    OBVIOUS
  <2>3. p \in Screens
    BY ONLY <2>1, <2>2, PutIs, m \in Screens, y \in Rows, x \in 0 .. 79
  <2>4. CASE x = 79
    <3>1. vga_putc(con, ch) = vga_newline(put)
      BY ONLY <1>2, <1>4, <1>5, <1>7, <2>4
    <3>2. put = [mem |-> p, row |-> y, col |-> 80]
      BY ONLY <1>3, <2>2, <2>4
    <3>3. 80 \in Nat
      OBVIOUS
    <3>4. vga_newline(put) \in Consoles
      BY ONLY <2>3, <3>2, <3>3, NewlineIs, y \in Rows
    <3> QED BY ONLY <1>1, <1>7, <2>2, <2>3, <2>4, <3>1, <3>2, <3>4
  <2>5. CASE x # 79
    <3>1. ~ x + 1 >= 80 /\ x + 1 \in 0 .. 80 - 1
      BY ONLY <2>5, x \in 0 .. 79
    <3>2. vga_putc(con, ch) = put
      BY ONLY <1>2, <1>4, <1>5, <1>7, <3>1
    <3>3. put = [mem |-> p, row |-> y, col |-> x + 1]
      BY ONLY <1>3, <2>2
    <3>4. put \in Consoles
      BY ONLY <1>2, <2>3, <3>1, <3>3, y \in Rows DEF Consoles
    <3> QED BY ONLY <1>1, <1>7, <2>2, <2>3, <2>5, <3>2, <3>3, <3>4
  <2> QED BY ONLY <2>4, <2>5
<1> QED
  BY ONLY <1>6, <1>7

\* vga_putc leaves a console.
LEMMA PutcType ==
  ASSUME NEW con \in Consoles, NEW ch \in Characters
  PROVE  vga_putc(con, ch) \in Consoles
<1>1. PICK m, y, x : m = con.mem /\ y = con.row /\ x = con.col
  OBVIOUS
<1>2. m \in Screens /\ y \in Rows /\ x \in 0 .. VGA_WIDTH - 1
      /\ con = [mem |-> m, row |-> y, col |-> x]
  BY <1>1 DEF Consoles
<1>3. x \in 0 .. 79
  BY ONLY <1>2, ShellSizes
<1> QED
  BY ONLY <1>2, <1>3, PutcIs, ch \in Characters DEF PutcCases

\* The console after each character of a text.
PutsSteps(e, con, text) ==
  /\ e \in [0 .. Len(text) -> Consoles] /\ e[0] = con
  /\ \A i \in 1 .. Len(text) : e[i] = vga_putc(e[i - 1], text[i])

\* What vga_puts does, character by character.
LEMMA PutsIs ==
  ASSUME NEW con \in Consoles, NEW text \in Seq(Characters)
  PROVE  \E e : PutsSteps(e, con, text) /\ vga_puts(con, text) = e[Len(text)]
<1>1. PICK n, P, C : n = Len(text) /\ P = Consoles /\ C = Characters
  OBVIOUS
<1>2. n \in Nat /\ \A i \in 1 .. n : text[i] \in C
  BY ONLY <1>1, text \in Seq(Characters), LenProperties, ElementOfSeq
<1>3. PICK F : F = [i \in 1 .. n |-> [q \in Consoles |-> vga_putc(q, text[i])]]
  OBVIOUS
<1>4. F \in Rounds(n, P)
  <2>1. \A i \in 1 .. n : \A q \in Consoles : vga_putc(q, text[i]) \in Consoles
    BY ONLY <1>1, <1>2, PutcType
  <2> QED BY ONLY <1>1, <1>3, <2>1 DEF Rounds
<1>5. PICK g : Iteration(g, P, con, n, F)
  BY ONLY <1>1, <1>2, <1>4, con \in Consoles, Iterates
<1>6. g \in [0 .. n -> P] /\ g[0] = con /\ \A i \in 1 .. n : g[i] = F[i][g[i - 1]]
  BY ONLY <1>5 DEF Iteration
<1>7. \A i \in 1 .. n : \A q \in P : F[i][q] = vga_putc(q, text[i])
  BY ONLY <1>1, <1>3
<1>8. \A i \in 1 .. n : i \in 0 .. n /\ i - 1 \in 0 .. n /\ i # 0
  BY ONLY <1>2
<1>9. \A i \in 0 .. n : i = 0 \/ i \in 1 .. n
  BY ONLY <1>2
<1>10. \A i \in 1 .. n : g[i] = vga_putc(g[i - 1], text[i])
  BY ONLY <1>6, <1>7, <1>8
<1>11. g = [i \in 0 .. n |-> IF i = 0 THEN con ELSE vga_putc(g[i - 1], text[i])]
  <2>1. \A i \in 0 .. n : g[i] = IF i = 0 THEN con ELSE vga_putc(g[i - 1], text[i])
    BY ONLY <1>6, <1>8, <1>9, <1>10
  <2> QED BY ONLY <1>6, <2>1
<1>12. PICK h : h = CHOOSE f : f = [i \in 0 .. n |->
                                      IF i = 0 THEN con ELSE vga_putc(f[i - 1], text[i])]
  OBVIOUS
<1>13. h = [i \in 0 .. n |-> IF i = 0 THEN con ELSE vga_putc(h[i - 1], text[i])]
  BY ONLY <1>11, <1>12
<1>14. vga_puts(con, text) = h[n]
  BY ONLY <1>1, <1>12 DEF vga_puts
<1>15. Follows(h, P, con, n, F)
  <2>1. 0 \in 0 .. n
    BY ONLY <1>2
  <2>2. h[0] = con
    BY ONLY <1>13, <2>1
  <2>3. \A i \in 1 .. n : h[i] = vga_putc(h[i - 1], text[i])
    BY ONLY <1>8, <1>13
  <2> QED BY ONLY <1>7, <2>2, <2>3 DEF Follows
<1>16. \A i \in 0 .. n : h[i] = g[i]
  BY ONLY <1>2, <1>5, <1>15, IterationUnique
<1>17. n \in 0 .. n
  BY ONLY <1>2
<1>18. PutsSteps(g, con, text)
  BY ONLY <1>1, <1>6, <1>10 DEF PutsSteps
<1> QED
  BY ONLY <1>1, <1>14, <1>16, <1>17, <1>18

\* vga_puts leaves a console.
LEMMA PutsType ==
  ASSUME NEW con \in Consoles, NEW text \in Seq(Characters)
  PROVE  vga_puts(con, text) \in Consoles
<1>1. PICK e : PutsSteps(e, con, text) /\ vga_puts(con, text) = e[Len(text)]
  BY PutsIs
<1>2. Len(text) \in Nat
  BY LenProperties
<1>3. Len(text) \in 0 .. Len(text)
  BY ONLY <1>2
<1> QED
  BY ONLY <1>1, <1>3 DEF PutsSteps
-----------------------------------------------------------------------------
(***************************************************************************)
(* The invariant of the shell, and its steps.                              *)
(***************************************************************************)
\* The rows that the view owns show its picture, drawn from some sample.
Shown(mem, view, log, cmd) ==
  \E st \in Stats :
    \A y \in Rows \ {23} : (view = 1 \/ y # 2) =>
      mem[y] = Paint(BlankScreen, View(view, st, log, cmd))[y]

\* The types of the variables; the log holds what the history remembers.
ShellTypes ==
  /\ pc \in {"boot", "loop", "panic", "off"}
  /\ VGA_MEMORY \in Screens /\ vga_row \in Rows /\ vga_col \in 0 .. VGA_WIDTH - 1
  /\ cmd_buf \in Lines /\ active_view \in {0, 1}
  /\ valid \in BOOLEAN /\ stats \in Stats
  /\ Mirrors(Log, logged)

\* What the steps of the shell preserve.
ShellInv == ShellTypes /\ (pc = "loop" => Shown(VGA_MEMORY, active_view, Log, cmd_buf))

\* menu_render leaves the picture of the view, whatever was there.
LEMMA RenderShows ==
  ASSUME NEW m \in Screens, NEW view, NEW log \in Logs, NEW cmd \in Lines,
         menu_render(m, view, log, cmd)
  PROVE  VGA_MEMORY' \in Screens /\ stats' \in Stats /\ Shown(VGA_MEMORY', view, log, cmd)
<1>1. PICK st \in Stats : stats' = st /\ VGA_MEMORY' = Paint(m, View(view, st, log, cmd))
  BY DEF menu_render
<1>2. st \in Samples
  BY ONLY ShellTextAssumption, st \in Stats
<1>3. PICK d : d = View(view, st, log, cmd)
  OBVIOUS
<1>4. /\ d \in Drawings
      /\ \A p, q \in Screens : \A y \in Rows \ {23} : Paint(p, d)[y] = Paint(q, d)[y]
  <2>1. /\ View(view, st, log, cmd) \in Drawings
        /\ \A p, q \in Screens : \A y \in Rows \ {23} :
             Paint(p, View(view, st, log, cmd))[y] = Paint(q, View(view, st, log, cmd))[y]
    BY ONLY <1>2, ViewDraws, log \in Logs, cmd \in Lines
  <2> QED BY ONLY <1>3, <2>1
<1>5. VGA_WIDTH = 80 /\ VGA_WIDTH \in Nat \ {0}
  BY ONLY ShellSizes
<1>6. VGA_MEMORY' \in Screens
  BY ONLY <1>1, <1>3, <1>4, <1>5, PaintScreen, m \in Screens
<1>7. \A y \in Rows \ {23} : VGA_MEMORY'[y] = Paint(BlankScreen, View(view, st, log, cmd))[y]
  BY ONLY <1>1, <1>3, <1>4, BlankIsScreen, m \in Screens
<1> QED
  BY ONLY <1>1, <1>6, <1>7, st \in Stats DEF Shown

\* Painting VGA_MEMORY leaves a screen.
LEMMA PaintedScreen ==
  ASSUME VGA_MEMORY \in Screens, NEW d \in Drawings, VGA_MEMORY' = Paint(VGA_MEMORY, d)
  PROVE  VGA_MEMORY' \in Screens
<1>1. VGA_WIDTH \in Nat \ {0}
  BY ShellSizes
<1> QED
  BY <1>1, PaintScreen

\* The log of the shell is a log.
LEMMA LogIs ==
  ASSUME ShellTypes
  PROVE  Log \in Logs /\ Log' = [lines |-> log_history', count |-> log_count']
BY DEF ShellTypes, Mirrors, Log

\* The first state of the shell.
LEMMA ShellInit == Init => ShellInv
<1> SUFFICES ASSUME Init PROVE ShellInv
  OBVIOUS
<1>1. VGA_WIDTH = 80 /\ Rows = 0 .. 24 /\ LOG_LINES \in 1 .. 8 /\ CMD_MAX \in 1 .. 64
  BY ShellSizes
<1>2. VGA_MEMORY \in Screens /\ vga_row \in Rows /\ vga_col \in 0 .. VGA_WIDTH - 1
  BY <1>1, BlankIsScreen DEF Init
<1>3. cmd_buf \in Lines
  <2>1. << >> \in [1 .. 0 -> Letters] /\ 0 \in 0 .. CMD_MAX - 1
    BY <1>1
  <2> QED BY <2>1 DEF Lines, Init
<1>4. Mirrors(Log, logged)
  <2>1. PICK M, ls, h : M = Messages /\ ls = log_history /\ h = logged
    OBVIOUS
  <2>2. ls = [i \in 1 .. LOG_LINES |-> << >>] /\ h = << >> /\ << >> \in M
    BY <2>1, NoText DEF Init
  <2>3. ls \in [1 .. LOG_LINES -> M]
    BY ONLY <2>2
  <2>4. h \in Seq(M) /\ Len(h) = 0
    BY ONLY <2>2, EmptySeq
  <2>5. Log = [lines |-> ls, count |-> 0] /\ 0 \in 0 .. LOG_LINES
    BY <1>1, <2>1 DEF Init, Log
  <2>6. Log \in Logs /\ Log.count = 0
    BY ONLY <2>1, <2>3, <2>5 DEF Logs
  <2>7. \A i \in 1 .. 0 : FALSE
    OBVIOUS
  <2> QED BY ONLY <2>1, <2>4, <2>6, <2>7 DEF Mirrors
<1> QED
  BY <1>2, <1>3, <1>4 DEF Init, ShellInv, ShellTypes

\* The log and its history after msgs have been logged.
LEMMA LogsMore ==
  ASSUME Mirrors(Log, logged), NEW msgs \in Seq(Messages), SetLog(LogAll(Log, msgs)),
         logged' = Remember(logged, msgs)
  PROVE  /\ Log' = LogAll(Log, msgs) /\ Mirrors(Log', logged')
<1>1. PICK new : new = LogAll(Log, msgs)
  OBVIOUS
<1>2. Mirrors(new, logged')
  BY <1>1, LogAllMirrors
<1>3. new = [lines |-> new.lines, count |-> new.count]
  BY ONLY <1>2 DEF Mirrors, Logs
<1>4. Log' = [lines |-> new.lines, count |-> new.count]
  BY <1>1 DEF SetLog, Log
<1> QED
  BY ONLY <1>1, <1>2, <1>3, <1>4

\* vga_printf keeps the invariant: while the kernel boots, nothing is promised of
\* the screen but that it is one.
LEMMA PrintfStep ==
  ASSUME ShellInv, NEW text \in Texts, vga_printf(text)
  PROVE  ShellInv'
<1>1. ShellTypes
  BY DEF ShellInv
<1>2. Console \in Consoles
  BY <1>1 DEF ShellTypes, Console, Consoles
<1>3. text \in Seq(Characters)
  BY ShellTextAssumption DEF Characters
<1>4. PICK con : con = vga_puts(Console, text)
  OBVIOUS
<1>5. con \in Consoles
  BY ONLY <1>2, <1>3, <1>4, PutsType
<1>6. VGA_MEMORY' = con.mem /\ vga_row' = con.row /\ vga_col' = con.col
  BY <1>4 DEF vga_printf, Becomes
<1>7. VGA_MEMORY' \in Screens /\ vga_row' \in Rows /\ vga_col' \in 0 .. VGA_WIDTH - 1
  BY ONLY <1>5, <1>6 DEF Consoles
<1>8. /\ pc' = "boot" /\ cmd_buf' = cmd_buf /\ active_view' = active_view /\ valid' = valid
      /\ stats' = stats /\ logged' = logged /\ Log' = Log
  BY DEF vga_printf, shellVars, Log
<1> QED
  BY <1>1, <1>7, <1>8 DEF ShellTypes, ShellInv

\* menu_init draws the first menu, over the text of the boot.
LEMMA MenuInitStep ==
  ASSUME ShellInv, menu_init
  PROVE  ShellInv'
<1>1. ShellTypes
  BY DEF ShellInv
<1>2. PICK empty, log : /\ empty = [lines |-> log_history, count |-> 0]
                        /\ log = LogAll(empty, ReadyMessages)
  OBVIOUS
<1>3. Mirrors(empty, << >>)
  <2>1. PICK M : M = Messages
    OBVIOUS
  <2>2. log_history \in [1 .. LOG_LINES -> M]
    BY <1>1, <2>1 DEF ShellTypes, Mirrors, Log, Logs
  <2>3. 0 \in 0 .. LOG_LINES
    BY ShellSizes
  <2>4. empty \in Logs /\ empty.count = 0
    BY ONLY <1>2, <2>1, <2>2, <2>3 DEF Logs
  <2>5. << >> \in Seq(M) /\ Len(<< >>) = 0
    BY ONLY EmptySeq
  <2>6. \A i \in 1 .. 0 : FALSE
    OBVIOUS
  <2> QED BY ONLY <2>1, <2>4, <2>5, <2>6 DEF Mirrors
<1>4. Mirrors(log, Remember(<< >>, ReadyMessages))
  <2>1. ReadyMessages \in Seq(Messages)
    BY ONLY ShellTextAssumption
  <2> QED BY ONLY <1>2, <1>3, <2>1, LogAllMirrors
<1>5. /\ pc' = "loop" /\ valid' = TRUE /\ cmd_buf' = << >> /\ active_view' = 0
      /\ log_history' = log.lines /\ log_count' = log.count
      /\ logged' = Remember(<< >>, ReadyMessages)
      /\ menu_render(VGA_MEMORY, 0, log, << >>) /\ vga_row' = vga_row /\ vga_col' = vga_col
  BY <1>2 DEF menu_init, SetLog
<1>6. log \in Logs
  BY ONLY <1>4 DEF Mirrors
<1>7. Log' = log
  <2>1. log = [lines |-> log.lines, count |-> log.count]
    BY ONLY <1>6 DEF Logs
  <2> QED BY ONLY <1>5, <2>1 DEF Log
<1>8. << >> \in Lines
  <2>1. << >> \in [1 .. 0 -> Letters] /\ 0 \in 0 .. CMD_MAX - 1
    BY ShellSizes
  <2> QED BY <2>1 DEF Lines
<1>9. VGA_MEMORY' \in Screens /\ stats' \in Stats /\ Shown(VGA_MEMORY', 0, log, << >>)
  <2>1. VGA_MEMORY \in Screens
    BY ONLY <1>1 DEF ShellTypes
  <2> QED BY ONLY <1>5, <1>6, <1>8, <2>1, RenderShows
<1>10. ShellTypes'
  BY <1>1, <1>4, <1>5, <1>7, <1>8, <1>9 DEF ShellTypes
<1> QED
  BY ONLY <1>5, <1>7, <1>9, <1>10 DEF ShellInv

\* A line that is edited is drawn at once.
LEMMA EditStep ==
  ASSUME ShellInv, InMenu, NEW line \in Lines, Edit(line)
  PROVE  ShellInv'
<1>1. ShellTypes /\ Log \in Logs /\ VGA_MEMORY \in Screens /\ pc = "loop" /\ active_view = 0
  BY LogIs DEF ShellInv, ShellTypes, InMenu
<1>2. /\ cmd_buf' = line /\ menu_render(VGA_MEMORY, 0, Log, line)
      /\ pc' = pc /\ active_view' = active_view /\ Log' = Log /\ logged' = logged
      /\ vga_row' = vga_row /\ vga_col' = vga_col /\ valid' = valid
  BY DEF Edit, Log
<1>3. VGA_MEMORY' \in Screens /\ stats' \in Stats /\ Shown(VGA_MEMORY', 0, Log, line)
  BY ONLY <1>1, <1>2, RenderShows, line \in Lines
<1>4. ShellTypes'
  BY <1>1, <1>2, <1>3 DEF ShellTypes
<1> QED
  BY ONLY <1>1, <1>2, <1>3, <1>4 DEF ShellInv

\* A shorter and a longer line are lines.
LEMMA LineEdits ==
  ASSUME NEW line \in Lines
  PROVE  /\ line # << >> => SubSeq(line, 1, Len(line) - 1) \in Lines
         /\ \A ch \in Letters : Len(line) < CMD_MAX - 1 => Append(line, ch) \in Lines
<1>1. PICK L : L = Letters
  OBVIOUS
<1>2. PICK n \in 0 .. CMD_MAX - 1 : line \in [1 .. n -> L]
  BY <1>1 DEF Lines
<1>3. CMD_MAX \in 1 .. 64
  BY ShellSizes
<1>4. n \in Nat /\ n <= CMD_MAX - 1
  BY ONLY <1>3, n \in 0 .. CMD_MAX - 1
<1>5. line \in Seq(L) /\ Len(line) = n
  BY ONLY <1>2, <1>4
<1>6. ASSUME line # << >> PROVE SubSeq(line, 1, Len(line) - 1) \in Lines
  <2>1. n # 0
    BY ONLY <1>5, <1>6, EmptySeq
  <2>2. PICK k : k = n - 1
    OBVIOUS
  <2>3. k \in Nat /\ k \in 0 .. CMD_MAX - 1 /\ 0 + 1 = 1 /\ 0 + k = k /\ 0 \in Nat
    BY ONLY <1>3, <1>4, <2>1, <2>2
  <2>4. \A i \in 0 + 1 .. 0 + k : line[i] \in L
    BY ONLY <1>2, <1>4, <2>1, <2>2
  <2>5. SubSeq(line, 0 + 1, 0 + k) \in Seq(L) /\ Len(SubSeq(line, 0 + 1, 0 + k)) = k
    BY ONLY <2>3, <2>4, Slice
  <2>6. PICK q : q = SubSeq(line, 1, k)
    OBVIOUS
  <2>7. q \in Seq(L) /\ Len(q) = k
    BY ONLY <2>3, <2>5, <2>6
  <2>8. q \in [1 .. k -> L]
    BY ONLY <2>7, LenProperties
  <2> QED BY ONLY <1>1, <1>5, <2>2, <2>3, <2>6, <2>8 DEF Lines
<1>7. ASSUME NEW ch \in Letters, Len(line) < CMD_MAX - 1 PROVE Append(line, ch) \in Lines
  <2>1. PICK k, q : k = n + 1 /\ q = Append(line, ch)
    OBVIOUS
  <2>2. k \in 0 .. CMD_MAX - 1
    BY ONLY <1>3, <1>4, <1>5, <1>7, <2>1
  <2>3. q \in Seq(L) /\ Len(q) = Len(line) + 1
    BY ONLY <1>1, <1>5, <1>7, <2>1, AppendProperties
  <2>4. q \in [1 .. k -> L]
    BY ONLY <1>5, <2>1, <2>3, LenProperties
  <2> QED BY ONLY <1>1, <2>1, <2>2, <2>4 DEF Lines
<1> QED
  BY ONLY <1>6, <1>7

\* What the execution of a line logs.
Logged(line) == <<<<">", " ">> \o line>> \o Output[line]

\* All of it fits the log window: the echo of the longest line too.
LEMMA LoggedMessages ==
  ASSUME NEW line \in Lines
  PROVE  Logged(line) \in Seq(Messages)
<1>1. PICK M, gt, sp, pre, echo :
        /\ M = Messages /\ gt = ">" /\ sp = " " /\ pre = <<gt, sp>> /\ echo = pre \o line
  OBVIOUS
<1>2. gt \in Char /\ sp \in Char
  BY ONLY <1>1, ShellTextAssumption
<1>3. PICK T : T = Char
  OBVIOUS
<1>4. pre \in Seq(T) /\ Len(pre) = 2
  <2>1. pre = <<gt, sp>>
    BY ONLY <1>1
  <2>2. gt \in T /\ sp \in T
    BY ONLY <1>2, <1>3
  <2>3. <<gt, sp>> \in Seq(T) /\ Len(<<gt, sp>>) = 2
    BY ONLY <2>2
  <2> QED BY ONLY <2>1, <2>3
<1>5. line \in Seq(T) /\ Len(line) \in 0 .. 63
  BY ONLY <1>3, LineText, line \in Lines DEF Text
<1>6. echo \in Seq(T) /\ Len(echo) = Len(pre) + Len(line)
  BY ONLY <1>1, <1>4, <1>5, ConcatProperties
<1>7. Len(echo) <= 76
  <2>1. PICK n : n = Len(line)
    OBVIOUS
  <2>2. Len(echo) = 2 + n /\ n \in 0 .. 63
    BY ONLY <1>4, <1>5, <1>6, <2>1
  <2>3. 2 + n <= 76
    BY ONLY <2>2
  <2> QED BY ONLY <2>2, <2>3
<1>8. echo \in M
  BY ONLY <1>1, <1>3, <1>6, <1>7 DEF Messages
<1>9. PICK a, b : a = <<echo>> /\ b = Output[line]
  OBVIOUS
<1>10. a \in Seq(M)
  BY ONLY <1>8, <1>9
<1>11. b \in Seq(M)
  <2>1. Output \in [Lines -> Seq(Messages)]
    BY ONLY ShellTextAssumption
  <2> QED BY ONLY <1>1, <1>9, <2>1, line \in Lines
<1>12. a \o b \in Seq(M)
  BY ONLY <1>10, <1>11, ConcatProperties
<1> QED
  BY ONLY <1>1, <1>9, <1>12 DEF Logged

\* Enter, whatever the command does.
LEMMA EnterStep ==
  ASSUME ShellInv, Enter
  PROVE  ShellInv'
<1>1. ShellTypes /\ Log \in Logs /\ VGA_MEMORY \in Screens /\ pc = "loop" /\ active_view = 0
      /\ cmd_buf \in Lines /\ Mirrors(Log, logged)
  BY LogIs DEF ShellInv, ShellTypes, InMenu, Enter
<1>2. PICK line, msgs, log, after, view :
        /\ line = cmd_buf /\ msgs = Logged(line) /\ log = LogAll(Log, msgs)
        /\ after = (IF Effect[line] = "clear" THEN [log EXCEPT !.count = 0] ELSE log)
        /\ view = IF Effect[line] = "dashboard" THEN 1 ELSE 0
  OBVIOUS
<1>3. /\ SetLog(after)
      /\ logged' = IF Effect[line] = "clear" THEN << >> ELSE Remember(logged, msgs)
      /\ active_view' = view
      /\ CASE Effect[line] = "fault" -> aura_panic_interactive /\ UNCHANGED cmd_buf
           [] Effect[line] = "halt"  -> pc' = "off" /\ UNCHANGED <<VGA_MEMORY, stats, cmd_buf>>
           [] OTHER -> /\ cmd_buf' = << >>
                       /\ menu_render(VGA_MEMORY, view, after, << >>)
                       /\ UNCHANGED pc
  BY <1>2 DEF Enter, Execute, Logged
<1>4. vga_row' = vga_row /\ vga_col' = vga_col /\ valid' = valid
  BY DEF Enter
<1>5. line \in Lines /\ msgs \in Seq(Messages)
  BY ONLY <1>1, <1>2, LoggedMessages
<1>6. Mirrors(log, Remember(logged, msgs))
  BY ONLY <1>1, <1>2, <1>5, LogAllMirrors
<1>7. Mirrors(after, logged')
  <2>1. CASE Effect[line] = "clear"
    <3>1. PICK M, ls, c : M = Messages /\ ls = log.lines /\ c = log.count
      OBVIOUS
    <3>2. ls \in [1 .. LOG_LINES -> M] /\ log = [lines |-> ls, count |-> c]
      BY ONLY <1>6, <3>1 DEF Mirrors, Logs
    <3>3. after = [lines |-> ls, count |-> 0]
      BY ONLY <1>2, <2>1, <3>2
    <3>4. 0 \in 0 .. LOG_LINES
      BY ONLY ShellSizes
    <3>5. after \in Logs /\ after.count = 0
      BY ONLY <3>1, <3>2, <3>3, <3>4 DEF Logs
    <3>6. PICK h : h = logged'
      OBVIOUS
    <3>7. h = << >>
      BY ONLY <1>3, <2>1, <3>6
    <3>8. h \in Seq(M) /\ Len(h) = 0
      BY ONLY <3>7, EmptySeq
    <3>9. \A i \in 1 .. 0 : FALSE
      OBVIOUS
    <3> QED BY ONLY <3>1, <3>5, <3>6, <3>8, <3>9 DEF Mirrors
  <2>2. CASE Effect[line] # "clear"
    BY ONLY <1>2, <1>3, <1>6, <2>2
  <2> QED BY ONLY <2>1, <2>2
<1>8. after \in Logs /\ view \in {0, 1}
  BY ONLY <1>2, <1>7 DEF Mirrors
<1>9. Log' = after
  <2>1. after = [lines |-> after.lines, count |-> after.count]
    BY ONLY <1>8 DEF Logs
  <2> QED BY ONLY <1>3, <2>1 DEF SetLog, Log
<1>10. CASE Effect[line] = "fault"
  <2>1. /\ pc' = "panic" /\ VGA_MEMORY' = Paint(VGA_MEMORY, PanicStrips) /\ stats' = stats
        /\ cmd_buf' = cmd_buf
    BY ONLY <1>3, <1>10 DEF aura_panic_interactive
  <2>2. VGA_MEMORY' \in Screens
    BY ONLY <1>1, <2>1, PanicDrawing, PaintedScreen
  <2> QED BY <1>1, <1>3, <1>4, <1>7, <1>8, <1>9, <2>1, <2>2 DEF ShellInv, ShellTypes
<1>11. CASE Effect[line] = "halt"
  <2>1. pc' = "off" /\ VGA_MEMORY' = VGA_MEMORY /\ stats' = stats /\ cmd_buf' = cmd_buf
    BY ONLY <1>3, <1>11
  <2> QED BY <1>1, <1>3, <1>4, <1>7, <1>8, <1>9, <2>1 DEF ShellInv, ShellTypes
<1>12. CASE Effect[line] # "fault" /\ Effect[line] # "halt"
  <2>1. cmd_buf' = << >> /\ menu_render(VGA_MEMORY, view, after, << >>) /\ pc' = pc
    BY ONLY <1>3, <1>12
  <2>2. << >> \in Lines
    <3>1. << >> \in [1 .. 0 -> Letters] /\ 0 \in 0 .. CMD_MAX - 1
      BY ShellSizes
    <3> QED BY <3>1 DEF Lines
  <2>3. VGA_MEMORY' \in Screens /\ stats' \in Stats /\ Shown(VGA_MEMORY', view, after, << >>)
    BY ONLY <1>1, <1>8, <2>1, <2>2, RenderShows
  <2>4. ShellTypes'
    BY <1>1, <1>3, <1>4, <1>7, <1>8, <1>9, <2>1, <2>2, <2>3 DEF ShellTypes
  <2> QED BY ONLY <1>3, <1>9, <2>1, <2>3, <2>4 DEF ShellInv
<1> QED
  BY ONLY <1>10, <1>11, <1>12

\* A key in the dashboard.
LEMMA DashboardStep ==
  ASSUME ShellInv, NEW view \in {0, 1}, DashboardKey(view)
  PROVE  ShellInv'
<1>1. ShellTypes /\ Log \in Logs /\ VGA_MEMORY \in Screens /\ cmd_buf \in Lines
  BY LogIs DEF ShellInv, ShellTypes
<1>2. /\ active_view' = view /\ menu_render(VGA_MEMORY, view, Log, cmd_buf)
      /\ pc' = pc /\ cmd_buf' = cmd_buf /\ Log' = Log /\ logged' = logged
      /\ vga_row' = vga_row /\ vga_col' = vga_col /\ valid' = valid
  BY DEF DashboardKey, Log
<1>3. VGA_MEMORY' \in Screens /\ stats' \in Stats /\ Shown(VGA_MEMORY', view, Log, cmd_buf)
  BY ONLY <1>1, <1>2, RenderShows
<1>4. ShellTypes'
  BY <1>1, <1>2, <1>3 DEF ShellTypes
<1> QED
  BY ONLY <1>2, <1>3, <1>4 DEF ShellInv

\* menu_update writes over what it owns only.
LEMMA UpdateStep ==
  ASSUME ShellInv, menu_update
  PROVE  ShellInv'
<1>1. /\ ShellTypes /\ Log \in Logs /\ VGA_MEMORY \in Screens /\ cmd_buf \in Lines
      /\ active_view \in {0, 1} /\ pc = "loop" /\ Shown(VGA_MEMORY, active_view, Log, cmd_buf)
  BY LogIs DEF ShellInv, ShellTypes, menu_update
<1>2. PICK st \in Stats :
        /\ stats' = st
        /\ VGA_MEMORY' = Paint(VGA_MEMORY, IF active_view = 0 THEN LiveStrips(st)
                                           ELSE dashboard_render(st))
  BY DEF menu_update
<1>3. st \in Samples
  BY ONLY ShellTextAssumption, st \in Stats
<1>4. /\ pc' = pc /\ active_view' = active_view /\ cmd_buf' = cmd_buf /\ Log' = Log
      /\ logged' = logged /\ vga_row' = vga_row /\ vga_col' = vga_col /\ valid' = valid
  BY DEF menu_update, shellVars, Log
<1>5. VGA_WIDTH = 80 /\ VGA_WIDTH \in Nat \ {0} /\ Rows = 0 .. 24
  BY ONLY ShellSizes
<1>6. CASE active_view = 0
  <2>1. PICK d : d = LiveStrips(st)
    OBVIOUS
  <2>2. On(d, 2, 2) /\ d \in Drawings /\ VGA_MEMORY' = Paint(VGA_MEMORY, d)
    BY ONLY <1>2, <1>3, <1>6, <2>1, LiveOn DEF On
  <2>3. VGA_MEMORY' \in Screens
    BY ONLY <1>1, <2>2, PaintedScreen
  <2>4. \A y \in Rows \ {23} : y # 2 => VGA_MEMORY'[y] = VGA_MEMORY[y]
    <3>1. ASSUME NEW y \in Rows, y # 2 PROVE Paint(VGA_MEMORY, d)[y] = VGA_MEMORY[y]
      <4>1. y \notin 2 .. 2
        BY ONLY <1>5, <3>1
      <4> QED BY ONLY <1>1, <1>5, <2>2, <3>1, <4>1, RowKept
    <3> QED BY ONLY <2>2, <3>1
  <2>5. Shown(VGA_MEMORY', active_view, Log, cmd_buf)
    BY ONLY <1>1, <1>6, <2>4 DEF Shown
  <2>6. ShellTypes'
    BY <1>1, <1>2, <1>4, <2>3 DEF ShellTypes
  <2> QED BY ONLY <1>4, <2>5, <2>6 DEF ShellInv
<1>7. CASE active_view = 1
  <2>1. PICK d : d = View(active_view, st, Log, cmd_buf)
    OBVIOUS
  <2>2. VGA_MEMORY' = Paint(VGA_MEMORY, d)
    BY ONLY <1>2, <1>7, <2>1 DEF View
  <2>3. /\ View(active_view, st, Log, cmd_buf) \in Drawings
        /\ \A p, q \in Screens : \A y \in Rows \ {23} :
             Paint(p, View(active_view, st, Log, cmd_buf))[y]
               = Paint(q, View(active_view, st, Log, cmd_buf))[y]
    BY ONLY <1>1, <1>3, ViewDraws
  <2>4. VGA_MEMORY' \in Screens
    <3>1. d \in Drawings
      BY ONLY <2>1, <2>3
    <3> QED BY ONLY <1>1, <2>2, <3>1, PaintedScreen
  <2>5. \A y \in Rows \ {23} :
           VGA_MEMORY'[y] = Paint(BlankScreen, View(active_view, st, Log, cmd_buf))[y]
    BY ONLY <1>1, <2>1, <2>2, <2>3, BlankIsScreen
  <2>6. Shown(VGA_MEMORY', active_view, Log, cmd_buf)
    BY ONLY <2>5, st \in Stats DEF Shown
  <2>7. ShellTypes'
    BY <1>1, <1>2, <1>4, <2>4 DEF ShellTypes
  <2> QED BY ONLY <1>4, <2>6, <2>7 DEF ShellInv
<1> QED
  BY ONLY <1>1, <1>6, <1>7

\* A fault draws the panic screen over the view.
LEMMA FaultStep ==
  ASSUME ShellInv, Fault
  PROVE  ShellInv'
<1>1. ShellTypes /\ VGA_MEMORY \in Screens
  BY DEF ShellInv, ShellTypes
<1>2. /\ pc' = "panic" /\ VGA_MEMORY' = Paint(VGA_MEMORY, PanicStrips) /\ stats' = stats
      /\ Log' = Log /\ logged' = logged /\ cmd_buf' = cmd_buf /\ active_view' = active_view
      /\ vga_row' = vga_row /\ vga_col' = vga_col /\ valid' = valid
  BY DEF Fault, aura_panic_interactive, shellVars, Log
<1>3. VGA_MEMORY' \in Screens
  BY ONLY <1>1, <1>2, PanicDrawing, PaintedScreen
<1> QED
  BY <1>1, <1>2, <1>3 DEF ShellInv, ShellTypes

\* panic_do_restore draws the view again, from nothing.
LEMMA RestoreStep ==
  ASSUME ShellInv, panic_do_restore
  PROVE  ShellInv'
<1>1. ShellTypes /\ Mirrors(Log, logged) /\ cmd_buf \in Lines /\ active_view \in {0, 1}
  BY DEF ShellInv, ShellTypes
<1>2. PICK msgs, log : msgs = <<RestoredMessage>> /\ log = LogAll(Log, msgs)
  OBVIOUS
<1>3. /\ SetLog(log) /\ logged' = Remember(logged, msgs)
      /\ menu_render(BlankScreen, active_view, log, cmd_buf)
      /\ pc' = "loop" /\ vga_row' = 0 /\ vga_col' = 0
      /\ cmd_buf' = cmd_buf /\ active_view' = active_view /\ valid' = valid
  BY <1>2 DEF panic_do_restore
<1>4. msgs \in Seq(Messages)
  <2>1. RestoredMessage \in Messages
    BY ONLY ShellTextAssumption
  <2> QED BY ONLY <1>2, <2>1
<1>5. Log' = log /\ Mirrors(Log', logged')
  BY ONLY <1>1, <1>2, <1>3, <1>4, LogsMore
<1>6. log \in Logs
  BY ONLY <1>5 DEF Mirrors
<1>7. VGA_MEMORY' \in Screens /\ stats' \in Stats
      /\ Shown(VGA_MEMORY', active_view, log, cmd_buf)
  BY ONLY <1>1, <1>3, <1>6, BlankIsScreen, RenderShows
<1>8. 0 \in Rows /\ 0 \in 0 .. VGA_WIDTH - 1
  BY ShellSizes
<1>9. ShellTypes'
  BY <1>1, <1>3, <1>5, <1>7, <1>8 DEF ShellTypes
<1> QED
  BY ONLY <1>3, <1>5, <1>7, <1>9 DEF ShellInv

\* A refused key writes into the panic screen.
LEMMA NoticeStep ==
  ASSUME ShellInv, NoRestorePoint \/ panic_do_poweroff
  PROVE  ShellInv'
<1>1. ShellTypes /\ VGA_MEMORY \in Screens
  BY DEF ShellInv, ShellTypes
<1>2. PICK d : d = tui_printf_at(2, 23, Word(58))
  OBVIOUS
<1>3. d \in Drawings
  <2>1. 2 \in Nat /\ 23 \in Nat /\ 58 \in Nat
    OBVIOUS
  <2> QED BY ONLY <1>2, <2>1, WordText, PrintfDrawing
<1>4. /\ VGA_MEMORY' = Paint(VGA_MEMORY, d) /\ stats' = stats
      /\ Log' = Log /\ logged' = logged /\ cmd_buf' = cmd_buf /\ active_view' = active_view
      /\ vga_row' = vga_row /\ vga_col' = vga_col /\ valid' = valid
      /\ pc' \in {"panic", "off"}
  BY <1>2 DEF NoRestorePoint, panic_do_poweroff, Notice, shellVars, Log
<1>5. VGA_MEMORY' \in Screens
  BY ONLY <1>1, <1>3, <1>4, PaintedScreen
<1> QED
  BY <1>1, <1>4, <1>5 DEF ShellInv, ShellTypes

\* A reset changes nothing more that is seen.
LEMMA SameStep ==
  ASSUME ShellInv, panic_do_reboot \/ UNCHANGED vars
  PROVE  ShellInv'
<1>1. ShellTypes /\ (pc = "loop" => Shown(VGA_MEMORY, active_view, Log, cmd_buf))
  BY DEF ShellInv
<1>2. /\ VGA_MEMORY' = VGA_MEMORY /\ stats' = stats
      /\ Log' = Log /\ logged' = logged /\ cmd_buf' = cmd_buf /\ active_view' = active_view
      /\ vga_row' = vga_row /\ vga_col' = vga_col /\ valid' = valid
      /\ pc' = "off" \/ pc' = pc
  BY DEF panic_do_reboot, vars, vgaVars, shellVars, Log
<1>3. ShellTypes'
  BY <1>1, <1>2 DEF ShellTypes
<1> QED
  BY ONLY <1>1, <1>2, <1>3 DEF ShellInv

\* Every step of the shell keeps the invariant.
LEMMA ShellStep == ShellInv /\ [Next]_vars => ShellInv'
<1> SUFFICES ASSUME ShellInv, [Next]_vars PROVE ShellInv'
  OBVIOUS
<1>1. CASE \E text \in Texts : vga_printf(text)
  BY ONLY <1>1, ShellInv, PrintfStep
<1>2. CASE menu_init
  BY ONLY <1>2, ShellInv, MenuInitStep
<1>3. CASE Enter
  BY ONLY <1>3, ShellInv, EnterStep
<1>4. cmd_buf \in Lines /\ Len(cmd_buf) \in Nat
  <2>1. cmd_buf \in Lines
    BY DEF ShellInv, ShellTypes
  <2> QED BY ONLY <2>1, LineText
<1>5. CASE Backspace
  BY ONLY <1>4, <1>5, ShellInv, LineEdits, EditStep DEF Backspace
<1>6. CASE \E ch \in Letters : Letter(ch)
  BY ONLY <1>4, <1>6, ShellInv, LineEdits, EditStep DEF Letter
<1>7. CASE \E view \in {0, 1} : DashboardKey(view)
  BY ONLY <1>7, ShellInv, DashboardStep
<1>8. CASE menu_update
  BY ONLY <1>8, ShellInv, UpdateStep
<1>9. CASE Fault
  BY ONLY <1>9, ShellInv, FaultStep
<1>10. CASE panic_do_restore
  BY ONLY <1>10, ShellInv, RestoreStep
<1>11. CASE NoRestorePoint \/ panic_do_poweroff
  BY ONLY <1>11, ShellInv, NoticeStep
<1>12. CASE panic_do_reboot \/ UNCHANGED vars
  BY ONLY <1>12, ShellInv, SameStep
<1> QED
  BY ONLY <1>1, <1>2, <1>3, <1>5, <1>6, <1>7, <1>8, <1>9, <1>10, <1>11, <1>12, [Next]_vars DEF Next

\* In every state the variables have their types, the log holds what the history
\* remembers, and while the loop of kernel_main runs the rows that the view owns (all but
\* the row above the footer and the numbers of the status bar) show its picture:
\* menu_handle_key, menu_update and the restore of the panic console leave none of
\* them half drawn.
THEOREM ShellInvariant == Spec => []ShellInv
<1> QED
  BY ShellInit, ShellStep, PTL DEF Spec
-----------------------------------------------------------------------------
(***************************************************************************)
(* What follows of it.                                                     *)
(***************************************************************************)
\* The rows of a screen are sequences of its width.
LEMMA RowsOf ==
  ASSUME NEW m \in Screens, NEW y \in Rows
  PROVE  m[y] \in Seq(Char) /\ Len(m[y]) = VGA_WIDTH
<1>1. PICK T, W, r : T = Char /\ W = VGA_WIDTH /\ r = m[y]
  OBVIOUS
<1>2. W \in Nat
  BY ONLY <1>1, ShellSizes
<1>3. r \in [1 .. W -> T]
  BY ONLY <1>1, m \in Screens, y \in Rows DEF Screens, Row
<1>4. r \in Seq(T) /\ Len(r) = W
  BY ONLY <1>2, <1>3
<1> QED
  BY ONLY <1>1, <1>4

\* The invariant gives the types,
LEMMA ShellTyped == ShellInv => TypeOK
<1> SUFFICES ASSUME ShellInv PROVE TypeOK
  OBVIOUS
<1>1. ShellTypes /\ VGA_MEMORY \in Screens /\ Log \in Logs
  BY DEF ShellInv, ShellTypes, Mirrors
<1>2. \A y \in Rows : VGA_MEMORY[y] \in Seq(Char) /\ Len(VGA_MEMORY[y]) = VGA_WIDTH
  BY ONLY <1>1, RowsOf
<1>3. DOMAIN log_history = 1 .. LOG_LINES /\ log_count \in 0 .. LOG_LINES
  BY <1>1 DEF Log, Logs
<1> QED
  BY <1>1, <1>2, <1>3 DEF TypeOK, ShellTypes

\* and that the rows a view owns show the picture of that view.
LEMMA OwnedShown == ShellInv => NoLeftovers
<1> SUFFICES ASSUME ShellInv PROVE NoLeftovers
  OBVIOUS
<1>1. TypeOK
  BY ONLY ShellInv, ShellTyped
<1>2. ASSUME pc = "loop"
      PROVE  \E st \in Stats :
               LET picture == Paint(BlankScreen, View(active_view, st, Log, cmd_buf))
               IN  \A y \in Owned : VGA_MEMORY[y] = picture[y]
  <2>1. Shown(VGA_MEMORY, active_view, Log, cmd_buf)
    BY ONLY <1>2, ShellInv DEF ShellInv
  <2>2. PICK st \in Stats :
          \A y \in Rows \ {23} : active_view = 1 \/ y # 2 =>
            VGA_MEMORY[y] = Paint(BlankScreen, View(active_view, st, Log, cmd_buf))[y]
    BY ONLY <2>1 DEF Shown
  <2>3. VGA_HEIGHT - 2 = 23
    BY ONLY ShellSizes
  <2>4. \A y \in Owned : y \in Rows \ {23} /\ (active_view = 1 \/ y # 2)
    BY ONLY <2>3 DEF Owned
  <2> QED BY ONLY <2>2, <2>4
<1> QED
  BY ONLY <1>1, <1>2 DEF NoLeftovers

\* Whatever was on the screen before (the text of the boot, the other view, the panic
\* screen), the view that is shown is the picture it draws on an empty screen: for
\* every number of lines, messages and samples, and after any commands, faults and
\* restores (menu_render, menu_update, panic_do_restore).
THEOREM NothingIsLeftOver == Spec => []NoLeftovers
<1> QED
  BY ShellInvariant, OwnedShown, PTL

\* The menu that is shown was drawn from a sample.
LEMMA MenuIsShown ==
  ASSUME ShellInv, InMenu
  PROVE  /\ Log \in Logs /\ cmd_buf \in Lines /\ Mirrors(Log, logged)
         /\ \E st \in Samples : \A y \in Rows \ {23} : y # 2 =>
              VGA_MEMORY[y] = Paint(BlankScreen, MenuStrips(st, Log, cmd_buf))[y]
<1>1. Log \in Logs /\ cmd_buf \in Lines /\ Mirrors(Log, logged)
  BY DEF ShellInv, ShellTypes, Mirrors
<1>2. active_view = 0 /\ Shown(VGA_MEMORY, active_view, Log, cmd_buf)
  BY DEF ShellInv, InMenu
<1>3. PICK st \in Stats :
        \A y \in Rows \ {23} : active_view = 1 \/ y # 2 =>
          VGA_MEMORY[y] = Paint(BlankScreen, View(active_view, st, Log, cmd_buf))[y]
  BY ONLY <1>2 DEF Shown
<1>4. st \in Samples
  BY ONLY ShellTextAssumption, st \in Stats
<1>5. View(active_view, st, Log, cmd_buf) = MenuStrips(st, Log, cmd_buf)
  BY ONLY <1>2 DEF View
<1> QED
  BY ONLY <1>1, <1>3, <1>4, <1>5

\* The row of the prompt shows the line.
LEMMA LineIsShown == ShellInv => RunsWhatIsShown
<1> SUFFICES ASSUME ShellInv, InMenu
             PROVE  SubSeq(VGA_MEMORY[21], 9, 78)
                      = cmd_buf \o <<"_">> \o Blanks(69 - Len(cmd_buf))
  BY DEF RunsWhatIsShown
<1>1. Log \in Logs /\ cmd_buf \in Lines
  BY ONLY ShellInv, InMenu, MenuIsShown
<1>2. PICK st \in Samples : \A y \in Rows \ {23} : y # 2 =>
        VGA_MEMORY[y] = Paint(BlankScreen, MenuStrips(st, Log, cmd_buf))[y]
  BY ONLY ShellInv, InMenu, MenuIsShown
<1>3. 21 \in Rows \ {23} /\ 21 # 2
  BY ONLY ShellSizes
<1>4. VGA_MEMORY[21] = Paint(BlankScreen, MenuStrips(st, Log, cmd_buf))[21]
  BY ONLY <1>2, <1>3
<1>5. SubSeq(Paint(BlankScreen, MenuStrips(st, Log, cmd_buf))[21], 9, 78)
        = cmd_buf \o <<"_">> \o Blanks(69 - Len(cmd_buf))
  BY ONLY <1>1, st \in Samples, BlankIsScreen, MenuShowsLine, ZenonT(60)
<1> QED
  BY ONLY <1>4, <1>5

\* The line that Enter would run is the one before the cursor on the screen, always
\* (menu_handle_key, menu_render, panic_do_restore).
THEOREM EnterRunsWhatIsShown == Spec => []RunsWhatIsShown
<1> QED
  BY ShellInvariant, LineIsShown, PTL

\* The rows of the log window show the log, and the log is what the history remembers.
LEMMA LogIsShown == ShellInv => LogShown
<1> SUFFICES ASSUME ShellInv, InMenu, NEW i \in 1 .. LOG_LINES
             PROVE  LET line == IF i <= Len(logged) THEN logged[i] ELSE << >>
                    IN  SubSeq(VGA_MEMORY[7 + i], 3, 78) = line \o Blanks(76 - Len(line))
  BY DEF LogShown
<1>1. Log \in Logs /\ cmd_buf \in Lines /\ Mirrors(Log, logged)
  BY ONLY ShellInv, InMenu, MenuIsShown
<1>2. PICK st \in Samples : \A y \in Rows \ {23} : y # 2 =>
        VGA_MEMORY[y] = Paint(BlankScreen, MenuStrips(st, Log, cmd_buf))[y]
  BY ONLY ShellInv, InMenu, MenuIsShown
<1>3. 7 + i \in Rows \ {23} /\ 7 + i # 2
  BY ONLY ShellSizes, i \in 1 .. LOG_LINES
<1>4. VGA_MEMORY[7 + i] = Paint(BlankScreen, MenuStrips(st, Log, cmd_buf))[7 + i]
  BY ONLY <1>2, <1>3
<1>5. SubSeq(Paint(BlankScreen, MenuStrips(st, Log, cmd_buf))[7 + i], 3, 78)
        = LogLine(Log, i) \o Blanks(76 - Len(LogLine(Log, i)))
  <2>1. PICK b, l, c : b = BlankScreen /\ l = Log /\ c = cmd_buf
    OBVIOUS
  <2>2. b \in Screens /\ l \in Logs /\ c \in Lines
    BY ONLY <1>1, <2>1, BlankIsScreen
  <2>3. LogWindow(b, st, l, c, i)
    BY ONLY <2>2, st \in Samples, i \in 1 .. LOG_LINES, MenuShowsLog
  <2> QED BY ONLY <2>1, <2>3 DEF LogWindow
<1>6. LogLine(Log, i) = IF i <= Len(logged) THEN logged[i] ELSE << >>
  <2>1. PICK h, ls, k : h = logged /\ ls = Log.lines /\ k = Log.count
    OBVIOUS
  <2>2. Len(h) = k /\ \A j \in 1 .. k : ls[j] = h[j]
    BY ONLY <1>1, <2>1 DEF Mirrors
  <2>3. k \in Nat /\ i \in 1 .. 8
    BY ONLY <1>1, <2>1, ShellSizes, i \in 1 .. LOG_LINES DEF Logs
  <2>4. i <= k => i \in 1 .. k
    BY ONLY <2>3
  <2>5. (IF i <= k THEN ls[i] ELSE << >>) = IF i <= Len(h) THEN h[i] ELSE << >>
    BY ONLY <2>2, <2>4
  <2> QED BY ONLY <2>1, <2>5 DEF LogLine
<1> QED
  BY ONLY <1>4, <1>5, <1>6

\* The log window shows the last messages logged since it was cleared, oldest first,
\* and nothing below them, however many there were (log_print, execute_command, menu_render).
THEOREM LogIsAlwaysShown == Spec => []LogShown
<1> QED
  BY ShellInvariant, LogIsShown, PTL

-----------------------------------------------------------------------------
(***************************************************************************)
(* The page that a text is laid out on, and the text of the boot.          *)
(***************************************************************************)
\* The first character of a page stands in its corner.
LEMMA PageStart ==
  ASSUME NEW t \in Seq(Characters)
  PROVE  PageCol(t, 1) = 0 /\ PageRow(t, 1) = 0
<1>1. PICK n : n = Len(t)
  OBVIOUS
<1>2. n \in Nat /\ VGA_WIDTH = 80
  BY ONLY <1>1, ShellSizes, LenProperties
<1>3. {k \in Newlines(t) : k < 1} = {} /\ {k \in LineEnds(t) : k < 1} = {}
  BY ONLY <1>1, <1>2 DEF Newlines, LineEnds
<1>4. PageCol(t, 1) = (1 - 1 - 0) % 80
  BY ONLY <1>2, <1>3 DEF PageCol
<1>5. PageRow(t, 1) = Cardinality({})
  BY ONLY <1>3 DEF PageRow
<1> QED
  BY ONLY <1>4, <1>5, FS_EmptySet

\* The last newline before a character, 0 when there is none.
LastBefore(t, i) ==
  LET before == {n \in Newlines(t) : n < i}
  IN  IF before = {} THEN 0 ELSE CHOOSE n \in before : \A m \in before : m <= n

\* It is what the column of a character is counted from.
LEMMA LastBeforeIs ==
  ASSUME NEW t \in Seq(Characters), NEW i \in 1 .. Len(t) + 1
  PROVE  /\ PageCol(t, i) = (i - 1 - LastBefore(t, i)) % 80
         /\ LastBefore(t, i) \in 0 .. i - 1
         /\ LastBefore(t, i) # 0 => t[LastBefore(t, i)] = Newline
<1>1. PICK n, before : n = Len(t) /\ before = {k \in Newlines(t) : k < i}
  OBVIOUS
<1>2. n \in Nat /\ VGA_WIDTH = 80
  BY ONLY <1>1, ShellSizes, LenProperties
<1>3. PageCol(t, i) = (i - 1 - LastBefore(t, i)) % 80
  BY ONLY <1>2 DEF PageCol, LastBefore
<1>4. before \subseteq 1 .. i - 1 /\ i \in Nat \ {0}
  BY ONLY <1>1, <1>2, i \in 1 .. Len(t) + 1 DEF Newlines
<1>5. LastBefore(t, i) = IF before = {} THEN 0 ELSE CHOOSE k \in before : \A m \in before : m <= k
  BY ONLY <1>1 DEF LastBefore
<1>6. CASE before = {}
  <2>1. LastBefore(t, i) = 0
    BY ONLY <1>5, <1>6
  <2> QED BY ONLY <1>3, <1>4, <2>1
<1>7. CASE before # {}
  <2>1. PICK S : S = {i - k : k \in before}
    OBVIOUS
  <2>2. S \in SUBSET Nat /\ S # {}
    <3>1. \A k \in before : i - k \in Nat
      BY ONLY <1>4
    <3> QED BY ONLY <1>7, <2>1, <3>1
  <2>3. Min(S) \in S /\ \A y \in S : Min(S) <= y
    BY ONLY <2>2, MinOfNaturals
  <2>4. PICK k \in before : Min(S) = i - k
    BY ONLY <2>1, <2>3
  <2>5. \A m \in before : m <= k
    <3>1. \A m \in before : i - k <= i - m
      BY ONLY <2>1, <2>3, <2>4
    <3>2. k \in 1 .. i - 1 /\ \A m \in before : m \in 1 .. i - 1
      BY ONLY <1>4
    <3> QED BY ONLY <1>4, <3>1, <3>2
  <2>6. LastBefore(t, i) \in before
    BY ONLY <1>5, <1>7, <2>5
  <2>7. LastBefore(t, i) \in 1 .. i - 1
    BY ONLY <1>4, <2>6
  <2>8. t[LastBefore(t, i)] = Newline
    BY ONLY <1>1, <2>6 DEF Newlines
  <2> QED BY ONLY <1>3, <1>4, <2>7, <2>8
<1> QED
  BY ONLY <1>6, <1>7

\* The column of the next character.
LEMMA ColGoesOn ==
  ASSUME NEW t \in Seq(Characters), NEW i \in 1 .. Len(t)
  PROVE  PageCol(t, i + 1) = IF t[i] = Newline \/ PageCol(t, i) = 79 THEN 0
                             ELSE PageCol(t, i) + 1
<1>1. PICK n, a, b, la, lb : /\ n = Len(t) /\ a = {k \in Newlines(t) : k < i}
                             /\ b = {k \in Newlines(t) : k < i + 1}
                             /\ la = LastBefore(t, i) /\ lb = LastBefore(t, i + 1)
  OBVIOUS
<1>2. n \in Nat /\ i \in 1 .. n /\ i \in 1 .. n + 1 /\ i + 1 \in 1 .. n + 1
  BY ONLY <1>1, LenProperties, i \in 1 .. Len(t), t \in Seq(Characters)
<1>3. /\ PageCol(t, i) = (i - 1 - la) % 80 /\ la \in 0 .. i - 1
      /\ PageCol(t, i + 1) = (i + 1 - 1 - lb) % 80
  <2>1. i \in 1 .. Len(t) + 1 /\ i + 1 \in 1 .. Len(t) + 1
    BY ONLY <1>1, <1>2
  <2>2. PageCol(t, i) = (i - 1 - LastBefore(t, i)) % 80 /\ LastBefore(t, i) \in 0 .. i - 1
    BY ONLY <2>1, LastBeforeIs, t \in Seq(Characters)
  <2>3. PICK j : j = i + 1
    OBVIOUS
  <2>4. PageCol(t, j) = (j - 1 - LastBefore(t, j)) % 80 /\ LastBefore(t, j) \in 0 .. j - 1
    BY ONLY <2>1, <2>3, LastBeforeIs, t \in Seq(Characters)
  <2>5. LastBefore(t, j) = lb /\ LastBefore(t, i) = la
    BY ONLY <1>1, <2>3
  <2>6. PageCol(t, j) = (j - 1 - lb) % 80 /\ lb \in 0 .. j - 1
    BY ONLY <2>4, <2>5
  <2>7. j - 1 - lb = i + 1 - 1 - lb
    BY ONLY <1>2, <2>3, <2>6
  <2>8. PageCol(t, i) = (i - 1 - la) % 80 /\ la \in 0 .. i - 1
    BY ONLY <2>2, <2>5
  <2> QED BY ONLY <2>3, <2>6, <2>7, <2>8
<1>4. /\ la = (IF a = {} THEN 0 ELSE CHOOSE k \in a : \A m \in a : m <= k)
      /\ lb = (IF b = {} THEN 0 ELSE CHOOSE k \in b : \A m \in b : m <= k)
  BY ONLY <1>1 DEF LastBefore
<1>5. CASE t[i] = Newline
  <2>1. i \in b /\ \A m \in b : m \in 1 .. i
    BY ONLY <1>1, <1>2, <1>5 DEF Newlines
  <2>2. lb \in b /\ \A m \in b : m <= lb
    <3>1. \A m \in b : m <= i
      BY ONLY <1>2, <2>1
    <3> QED BY ONLY <1>4, <2>1, <3>1
  <2>3. lb = i
    BY ONLY <1>2, <2>1, <2>2
  <2>4. PageCol(t, i + 1) = 0
    BY ONLY <1>2, <1>3, <2>3
  <2> QED BY ONLY <1>5, <2>4
<1>6. CASE t[i] # Newline
  <2>1. a = b
    BY ONLY <1>1, <1>2, <1>6 DEF Newlines
  <2>2. lb = la
    BY ONLY <1>4, <2>1
  <2>3. PageCol(t, i + 1) = IF PageCol(t, i) = 79 THEN 0 ELSE PageCol(t, i) + 1
    <3>1. PICK d : d = i - 1 - la
      OBVIOUS
    <3>2. d \in Nat /\ i + 1 - 1 - lb = d + 1
      BY ONLY <1>2, <1>3, <2>2, <3>1
    <3>3. (d + 1) % 80 = IF d % 80 = 79 THEN 0 ELSE (d % 80) + 1
      BY ONLY <3>2
    <3> QED BY ONLY <1>3, <3>1, <3>2, <3>3
  <2> QED BY ONLY <1>6, <2>3
<1> QED
  BY ONLY <1>5, <1>6

\* And its line.
LEMMA RowGoesOn ==
  ASSUME NEW t \in Seq(Characters), NEW i \in 1 .. Len(t)
  PROVE  /\ PageRow(t, i) \in Nat
         /\ PageRow(t, i + 1) = IF t[i] = Newline \/ PageCol(t, i) = 79
                                THEN PageRow(t, i) + 1 ELSE PageRow(t, i)
<1>1. PICK n, a, b : /\ n = Len(t) /\ a = {k \in LineEnds(t) : k < i}
                     /\ b = {k \in LineEnds(t) : k < i + 1}
  OBVIOUS
<1>2. n \in Nat /\ i \in 1 .. n /\ VGA_WIDTH - 1 = 79
  BY ONLY <1>1, LenProperties, i \in 1 .. Len(t), t \in Seq(Characters), ShellSizes
<1>3. PageRow(t, i) = Cardinality(a) /\ PageRow(t, i + 1) = Cardinality(b)
  BY ONLY <1>1 DEF PageRow
<1>4. IsFiniteSet(a)
  <2>1. IsFiniteSet(1 .. n)
    BY ONLY <1>2, FS_Interval
  <2>2. a \in SUBSET (1 .. n)
    BY ONLY <1>1 DEF LineEnds
  <2> QED BY ONLY <2>1, <2>2, FS_Subset
<1>5. Cardinality(a) \in Nat
  BY ONLY <1>4, FS_CardinalityType
<1>6. i \notin a
  BY ONLY <1>1, <1>2
<1>7. CASE t[i] = Newline \/ PageCol(t, i) = 79
  <2>1. i \in LineEnds(t)
    BY ONLY <1>1, <1>2, <1>7 DEF LineEnds
  <2>2. \A k \in LineEnds(t) : k \in Nat
    BY ONLY <1>1, <1>2 DEF LineEnds
  <2>3. b = a \cup {i}
    <3>1. \A k : k \in a <=> k \in LineEnds(t) /\ k < i
      BY ONLY <1>1
    <3>2. \A k : k \in b <=> k \in LineEnds(t) /\ k < i + 1
      BY ONLY <1>1
    <3>3. \A k \in LineEnds(t) : k < i + 1 <=> k < i \/ k = i
      BY ONLY <1>2, <2>2
    <3>4. i < i + 1
      BY ONLY <1>2
    <3> QED BY ONLY <2>1, <3>1, <3>2, <3>3, <3>4
  <2>4. Cardinality(b) = Cardinality(a) + 1
    BY ONLY <1>4, <1>6, <2>3, FS_AddElement
  <2> QED BY ONLY <1>3, <1>5, <1>7, <2>4
<1>8. CASE ~ (t[i] = Newline \/ PageCol(t, i) = 79)
  <2>1. i \notin LineEnds(t)
    BY ONLY <1>2, <1>8 DEF LineEnds
  <2>2. \A k \in LineEnds(t) : k \in Nat
    BY ONLY <1>1, <1>2 DEF LineEnds
  <2>3. b = a
    BY ONLY <1>1, <1>2, <2>1, <2>2
  <2> QED BY ONLY <1>3, <1>5, <1>8, <2>3
<1> QED
  BY ONLY <1>7, <1>8

\* A longer text has the same page to start with.
LEMMA PagePrefix ==
  ASSUME NEW p \in Seq(Characters), NEW t \in Seq(Characters), Len(p) <= Len(t),
         \A i \in 1 .. Len(p) : p[i] = t[i], NEW i \in 1 .. Len(p) + 1
  PROVE  PageCol(p, i) = PageCol(t, i) /\ PageRow(p, i) = PageRow(t, i)
<1>1. PICK n, m : n = Len(p) /\ m = Len(t)
  OBVIOUS
<1>2. n \in Nat /\ m \in Nat /\ n <= m /\ i \in 1 .. n + 1 /\ \A j \in 1 .. n : p[j] = t[j]
  BY ONLY <1>1, LenProperties, p \in Seq(Characters), t \in Seq(Characters), Len(p) <= Len(t),
          \A j \in 1 .. Len(p) : p[j] = t[j], i \in 1 .. Len(p) + 1
<1>3. ASSUME NEW j \in 1 .. n + 1 PROVE PageCol(p, j) = PageCol(t, j)
  <2>1. {k \in Newlines(p) : k < j} = {k \in Newlines(t) : k < j}
    BY ONLY <1>1, <1>2, <1>3 DEF Newlines
  <2>2. LastBefore(p, j) = LastBefore(t, j)
    <3>1. PICK A, B : /\ A = {k \in Newlines(p) : k < j}
                      /\ B = {k \in Newlines(t) : k < j}
      OBVIOUS
    <3>2. /\ LastBefore(p, j) = IF A = {} THEN 0 ELSE CHOOSE k \in A : \A l \in A : l <= k
          /\ LastBefore(t, j) = IF B = {} THEN 0 ELSE CHOOSE k \in B : \A l \in B : l <= k
      BY ONLY <3>1 DEF LastBefore
    <3>3. A = B
      BY ONLY <2>1, <3>1
    <3> QED BY ONLY <3>2, <3>3
  <2>3. PageCol(p, j) = (j - 1 - LastBefore(p, j)) % VGA_WIDTH
    BY DEF PageCol, LastBefore
  <2>4. PageCol(t, j) = (j - 1 - LastBefore(t, j)) % VGA_WIDTH
    BY DEF PageCol, LastBefore
  <2> QED BY ONLY <2>2, <2>3, <2>4
<1>4. {k \in LineEnds(p) : k < i} = {k \in LineEnds(t) : k < i}
  <2>1. ASSUME NEW k, k < i PROVE k \in LineEnds(p) <=> k \in LineEnds(t)
    <3>1. k \in 1 .. n => k \in 1 .. m /\ k \in 1 .. n + 1
      BY ONLY <1>2
    <3>2. k \in 1 .. m => k \in 1 .. n
      BY ONLY <1>2, <2>1
    <3>3. k \in 1 .. n => PageCol(p, k) = PageCol(t, k) /\ p[k] = t[k]
      BY ONLY <1>2, <1>3, <3>1
    <3> QED BY ONLY <1>1, <3>1, <3>2, <3>3 DEF LineEnds
  <2> QED BY ONLY <2>1
<1>5. PageRow(p, i) = PageRow(t, i)
  BY ONLY <1>4 DEF PageRow
<1> QED
  BY ONLY <1>2, <1>3, <1>5

\* The lines R and the columns C of a text's characters, and of the one that would
\* follow it.
PageStep(t, R, C, i) ==
  IF t[i] = Newline \/ C[i] = 79 THEN R[i + 1] = R[i] + 1 /\ C[i + 1] = 0
  ELSE R[i + 1] = R[i] /\ C[i + 1] = C[i] + 1

\* All of them, for R and C as functions.
Page(t, R, C) ==
  /\ R \in [1 .. Len(t) + 1 -> Nat] /\ C \in [1 .. Len(t) + 1 -> 0 .. 79]
  /\ \A i \in 1 .. Len(t) + 1 : R[i] = PageRow(t, i) /\ C[i] = PageCol(t, i)
  /\ R[1] = 0 /\ C[1] = 0
  /\ \A i \in 1 .. Len(t) : PageStep(t, R, C, i)

\* Every text has a page.
LEMMA PageIs ==
  ASSUME NEW t \in Seq(Characters)
  PROVE  \E R, C : Page(t, R, C)
<1>1. PICK n : n = Len(t)
  OBVIOUS
<1>2. n \in Nat
  BY ONLY <1>1, LenProperties, t \in Seq(Characters)
<1>3. \A i \in 1 .. n : /\ i \in 1 .. n + 1 /\ i + 1 \in 1 .. n + 1
  BY ONLY <1>2
<1>4. \A i \in 1 .. n + 1 : PageCol(t, i) \in 0 .. 79
  <2>1. ASSUME NEW i \in 1 .. n + 1 PROVE PageCol(t, i) \in 0 .. 79
    <3>1. i \in 1 .. Len(t) + 1
      BY ONLY <1>1
    <3>2. PICK k : k = LastBefore(t, i)
      OBVIOUS
    <3>3. PageCol(t, i) = (i - 1 - k) % 80 /\ k \in 0 .. i - 1
      BY ONLY <3>1, <3>2, LastBeforeIs, t \in Seq(Characters)
    <3> QED BY ONLY <1>2, <2>1, <3>3
  <2> QED BY ONLY <2>1
<1>5. 1 \in 1 .. n + 1 /\ PageRow(t, 1) = 0 /\ PageCol(t, 1) = 0
  BY ONLY <1>2, PageStart, t \in Seq(Characters)
<1>6. \A i \in 1 .. n :
        /\ PageRow(t, i) \in Nat
        /\ IF t[i] = Newline \/ PageCol(t, i) = 79
           THEN PageRow(t, i + 1) = PageRow(t, i) + 1 /\ PageCol(t, i + 1) = 0
           ELSE PageRow(t, i + 1) = PageRow(t, i) /\ PageCol(t, i + 1) = PageCol(t, i) + 1
  BY ONLY <1>1, RowGoesOn, ColGoesOn, t \in Seq(Characters)
<1>7. \A i \in 1 .. n + 1 : PageRow(t, i) \in Nat
  <2>1. ASSUME NEW i \in 1 .. n + 1, i # 1 PROVE PageRow(t, i) \in Nat
    <3>1. PICK k : k = i - 1
      OBVIOUS
    <3>2. k \in 1 .. n /\ k + 1 = i
      BY ONLY <1>2, <2>1, <3>1
    <3>3. PageRow(t, k) \in Nat
          /\ (PageRow(t, k + 1) = PageRow(t, k) + 1 \/ PageRow(t, k + 1) = PageRow(t, k))
      BY ONLY <1>6, <3>2
    <3> QED BY ONLY <3>2, <3>3
  <2> QED BY ONLY <1>5, <2>1
<1>8. PICK R, C : /\ R = [i \in 1 .. n + 1 |-> PageRow(t, i)]
                  /\ C = [i \in 1 .. n + 1 |-> PageCol(t, i)]
  OBVIOUS
<1>9. R \in [1 .. n + 1 -> Nat] /\ C \in [1 .. n + 1 -> 0 .. 79]
  BY ONLY <1>4, <1>7, <1>8
<1>10. \A i \in 1 .. n + 1 : R[i] = PageRow(t, i) /\ C[i] = PageCol(t, i)
  BY ONLY <1>8
<1>11. \A i \in 1 .. n : PageStep(t, R, C, i)
  BY ONLY <1>3, <1>6, <1>10 DEF PageStep
<1> QED
  <2>1. R[1] = 0 /\ C[1] = 0
    BY ONLY <1>5, <1>10
  <2>2. R \in [1 .. Len(t) + 1 -> Nat] /\ C \in [1 .. Len(t) + 1 -> 0 .. 79]
    BY ONLY <1>1, <1>9
  <2>3. \A i \in 1 .. Len(t) + 1 : R[i] = PageRow(t, i) /\ C[i] = PageCol(t, i)
    BY ONLY <1>1, <1>10
  <2>4. \A i \in 1 .. Len(t) : PageStep(t, R, C, i)
    BY ONLY <1>1, <1>11
  <2> QED BY ONLY <2>1, <2>2, <2>3, <2>4 DEF Page

\* The screen shows the first m characters from the line top of the page on, and
\* nothing else.
Pictured(mem, t, R, C, m, top) ==
  /\ \A i \in 1 .. m : t[i] # Newline /\ R[i] >= top => mem[R[i] - top][C[i] + 1] = t[i]
  /\ \A y \in Rows, x \in 1 .. 80 : mem[y][x] # " " =>
       \E i \in 1 .. m : t[i] # Newline /\ R[i] >= top /\ y = R[i] - top /\ x = C[i] + 1

\* The first m characters stand before the next one on the page.
InOrder(t, R, C, m) ==
  \A i \in 1 .. m : /\ R[i] <= R[m + 1]
                    /\ t[i] # Newline /\ R[i] = R[m + 1] => C[i] < C[m + 1]

\* The line of the page that is on top when the last one is e.
TopOf(e) == IF e < 25 THEN 0 ELSE e - 24

\* The console after the first m characters.
Laid(con, t, R, C, m) ==
  /\ con.row = R[m + 1] - TopOf(R[m + 1]) /\ con.col = C[m + 1]
  /\ InOrder(t, R, C, m)
  /\ Pictured(con.mem, t, R, C, m, TopOf(R[m + 1]))

\* And so on for one character more.
LEMMA OrderGoesOn ==
  ASSUME NEW t \in Seq(Characters), NEW R, NEW C, Page(t, R, C), NEW m \in 0 .. Len(t) - 1,
         InOrder(t, R, C, m)
  PROVE  InOrder(t, R, C, m + 1)
<1>1. PICK n : n = Len(t)
  OBVIOUS
<1>2. n \in Nat /\ m \in 0 .. n - 1 /\ m + 1 \in 1 .. n /\ m + 1 \in 1 .. n + 1
      /\ m + 1 + 1 \in 1 .. n + 1
  BY ONLY <1>1, LenProperties, t \in Seq(Characters), m \in 0 .. Len(t) - 1
<1>3. PICK k : k = m + 1
  OBVIOUS
<1>4. R \in [1 .. n + 1 -> Nat] /\ C \in [1 .. n + 1 -> 0 .. 79]
  BY ONLY <1>1, Page(t, R, C) DEF Page
<1>5. PageStep(t, R, C, k)
  BY ONLY <1>1, <1>2, <1>3, Page(t, R, C) DEF Page
<1>6. PICK r, rr, c, cc : r = R[k] /\ rr = R[k + 1] /\ c = C[k] /\ cc = C[k + 1]
  OBVIOUS
<1>7. r \in Nat /\ rr \in Nat /\ c \in 0 .. 79 /\ cc \in 0 .. 79
  BY ONLY <1>2, <1>3, <1>4, <1>6
<1>8. rr = r + 1 \/ (rr = r /\ t[k] # Newline /\ cc = c + 1)
  BY ONLY <1>5, <1>6 DEF PageStep
<1>9. ASSUME NEW i \in 1 .. k
      PROVE  R[i] <= R[k + 1] /\ (t[i] # Newline /\ R[i] = R[k + 1] => C[i] < C[k + 1])
  <2>1. i \in 1 .. n + 1
    BY ONLY <1>2, <1>3, <1>9
  <2>2. R[i] \in Nat /\ C[i] \in 0 .. 79
    BY ONLY <1>4, <2>1
  <2>3. CASE i = k
    <3>1. R[i] = r /\ C[i] = c
      BY ONLY <1>6, <2>3
    <3>2. r <= rr /\ (r = rr => c < cc)
      BY ONLY <1>7, <1>8
    <3> QED BY ONLY <1>6, <3>1, <3>2
  <2>4. CASE i # k
    <3>1. i \in 1 .. m
      BY ONLY <1>2, <1>3, <1>9, <2>4
    <3>2. R[i] <= R[k] /\ (t[i] # Newline /\ R[i] = R[k] => C[i] < C[k])
      BY ONLY <1>3, <3>1, InOrder(t, R, C, m) DEF InOrder
    <3>3. PICK a, b : a = R[i] /\ b = C[i]
      OBVIOUS
    <3>4. a \in Nat /\ b \in 0 .. 79 /\ a <= r /\ (t[i] # Newline /\ a = r => b < c)
      BY ONLY <1>6, <2>2, <3>2, <3>3
    <3>5. a <= rr /\ (t[i] # Newline /\ a = rr => b < cc)
      BY ONLY <1>7, <1>8, <3>4
    <3> QED BY ONLY <1>6, <3>3, <3>5
  <2> QED BY ONLY <2>3, <2>4
<1> QED
  BY ONLY <1>3, <1>9 DEF InOrder

\* vga_putc puts a character into the cell where it belongs.
LEMMA PutPictured ==
  ASSUME NEW t \in Seq(Characters), NEW R, NEW C, Page(t, R, C), NEW m \in 0 .. Len(t) - 1,
         InOrder(t, R, C, m), NEW mem \in Screens, NEW top \in Nat,
         Pictured(mem, t, R, C, m, top), R[m + 1] - top \in Rows, t[m + 1] # Newline
  PROVE  Pictured(Put(mem, R[m + 1] - top, C[m + 1], t[m + 1]), t, R, C, m + 1, top)
<1>1. PICK n, k, ch, y, x, new :
        /\ n = Len(t) /\ k = m + 1 /\ ch = t[m + 1] /\ y = R[m + 1] - top /\ x = C[m + 1]
        /\ new = Put(mem, R[m + 1] - top, C[m + 1], t[m + 1])
  OBVIOUS
<1>2. n \in Nat /\ m \in 0 .. n - 1 /\ k \in 1 .. n /\ k \in 1 .. n + 1 /\ k = m + 1
  BY ONLY <1>1, LenProperties, t \in Seq(Characters), m \in 0 .. Len(t) - 1
<1>3. R \in [1 .. n + 1 -> Nat] /\ C \in [1 .. n + 1 -> 0 .. 79]
  BY ONLY <1>1, Page(t, R, C) DEF Page
<1>4. ch = t[k] /\ y = R[k] - top /\ x = C[k] /\ new = Put(mem, y, x, ch)
  BY ONLY <1>1
<1>5. y \in Rows /\ x \in 0 .. 79
  BY ONLY <1>1, <1>2, <1>3, R[m + 1] - top \in Rows
<1>6. ch \in Char
  <2>1. ch \in Characters
    BY ONLY <1>1, <1>2, <1>4, t \in Seq(Characters), ElementOfSeq, SMTT(30)
  <2> QED BY ONLY <1>1, <2>1, t[m + 1] # Newline DEF Characters
<1>7. \A r \in Rows, c \in 1 .. 80 : new[r][c] = IF r = y /\ c = x + 1 THEN ch ELSE mem[r][c]
  <2>1. \A r \in Rows, c \in 1 .. 80 :
          Put(mem, y, x, ch)[r][c] = IF r = y /\ c = x + 1 THEN ch ELSE mem[r][c]
    <3>1. PutAt(mem, y, x, ch)
      BY ONLY <1>5, <1>6, mem \in Screens, PutIs
    <3> QED BY ONLY <3>1 DEF PutAt
  <2> QED BY ONLY <1>4, <2>1
<1>8. Rows = 0 .. 24 /\ top \in Nat
  BY ONLY ShellSizes, top \in Nat
<1>9. R[k] \in Nat /\ R[k] = y + top /\ R[k] >= top
  <2>1. PICK a : a = R[k]
    OBVIOUS
  <2>2. a \in Nat /\ y = a - top
    BY ONLY <1>2, <1>3, <1>4, <2>1
  <2>3. a = y + top /\ a >= top
    BY ONLY <1>5, <1>8, <2>2
  <2> QED BY ONLY <2>1, <2>2, <2>3
<1>10. \A i \in 1 .. k : /\ i \in 1 .. n + 1 /\ (i = k \/ i \in 1 .. m)
                         /\ R[i] \in Nat /\ C[i] \in 0 .. 79
  <2>1. \A i \in 1 .. k : i \in 1 .. n + 1 /\ (i = k \/ i \in 1 .. m)
    BY ONLY <1>2
  <2> QED BY ONLY <1>3, <2>1
<1>11. \A i \in 1 .. m : R[i] <= R[k] /\ (t[i] # Newline /\ R[i] = R[k] => C[i] < C[k])
  BY ONLY <1>2, InOrder(t, R, C, m) DEF InOrder
<1>12. \A i \in 1 .. m : i \in 1 .. k
  BY ONLY <1>2
<1>13. /\ \A i \in 1 .. m : t[i] # Newline /\ R[i] >= top => mem[R[i] - top][C[i] + 1] = t[i]
       /\ \A r \in Rows, c \in 1 .. 80 : mem[r][c] # " " =>
            \E i \in 1 .. m : t[i] # Newline /\ R[i] >= top /\ r = R[i] - top /\ c = C[i] + 1
  BY ONLY Pictured(mem, t, R, C, m, top) DEF Pictured
<1>14. ASSUME NEW i \in 1 .. k, t[i] # Newline, R[i] >= top
       PROVE  new[R[i] - top][C[i] + 1] = t[i]
  <2>1. CASE i = k
    <3>1. x + 1 \in 1 .. 80
      BY ONLY <1>5
    <3>2. new[y][x + 1] = ch
      BY ONLY <1>5, <1>7, <3>1
    <3> QED BY ONLY <1>4, <2>1, <3>2
  <2>2. CASE i # k
    <3>1. i \in 1 .. m /\ R[i] \in Nat /\ C[i] \in 0 .. 79
      BY ONLY <1>10, <2>2, i \in 1 .. k
    <3>2. mem[R[i] - top][C[i] + 1] = t[i]
      BY ONLY <1>13, <1>14, <3>1
    <3>3. R[i] <= R[k] /\ (R[i] = R[k] => C[i] < C[k])
      BY ONLY <1>11, <1>14, <3>1
    <3>4. PICK a, b, e : a = R[i] /\ b = C[i] /\ e = R[k]
      OBVIOUS
    <3>5. /\ a \in Nat /\ b \in 0 .. 79 /\ e \in Nat /\ a >= top /\ e = y + top
          /\ a <= e /\ (a = e => b < x)
      BY ONLY <1>4, <1>9, <1>14, <3>1, <3>3, <3>4
    <3>6. a - top \in Rows /\ b + 1 \in 1 .. 80
      BY ONLY <1>5, <1>8, <3>5
    <3>7. ~ (a - top = y /\ b + 1 = x + 1)
      BY ONLY <1>5, <1>8, <3>5
    <3>8. new[a - top][b + 1] = mem[a - top][b + 1]
      BY ONLY <1>7, <3>6, <3>7
    <3> QED BY ONLY <3>2, <3>4, <3>8
  <2> QED BY ONLY <2>1, <2>2
<1>15. ASSUME NEW r \in Rows, NEW c \in 1 .. 80, new[r][c] # " "
       PROVE  \E i \in 1 .. k : t[i] # Newline /\ R[i] >= top /\ r = R[i] - top /\ c = C[i] + 1
  <2>1. CASE r = y /\ c = x + 1
    <3>1. k \in 1 .. k
      BY ONLY <1>2
    <3> QED BY ONLY <1>1, <1>4, <1>9, <2>1, <3>1, t[m + 1] # Newline
  <2>2. CASE ~ (r = y /\ c = x + 1)
    <3>1. mem[r][c] # " "
      BY ONLY <1>7, <1>15, <2>2
    <3> QED BY ONLY <1>12, <1>13, <3>1, r \in Rows, c \in 1 .. 80
  <2> QED BY ONLY <2>1, <2>2
<1>16. Pictured(new, t, R, C, k, top)
  BY ONLY <1>14, <1>15 DEF Pictured
<1> QED
  BY ONLY <1>1, <1>16

\* A newline takes no cell.
LEMMA NewlinePictured ==
  ASSUME NEW t \in Seq(Characters), NEW R, NEW C, NEW m \in 0 .. Len(t) - 1, NEW mem,
         NEW top, Pictured(mem, t, R, C, m, top), t[m + 1] = Newline
  PROVE  Pictured(mem, t, R, C, m + 1, top)
<1>1. PICK k : k = m + 1
  OBVIOUS
<1>2. m \in Nat
  BY ONLY LenProperties, t \in Seq(Characters), m \in 0 .. Len(t) - 1
<1>3. \A i \in 1 .. k : i = k \/ i \in 1 .. m
  BY ONLY <1>1, <1>2
<1>4. \A i \in 1 .. m : i \in 1 .. k
  BY ONLY <1>1, <1>2
<1>5. t[k] = Newline
  BY ONLY <1>1, t[m + 1] = Newline
<1>6. Pictured(mem, t, R, C, k, top)
  BY ONLY <1>3, <1>4, <1>5, Pictured(mem, t, R, C, m, top) DEF Pictured
<1> QED
  BY ONLY <1>1, <1>6

\* Scrolling shows the page from the next line on.
LEMMA ScrollPictured ==
  ASSUME NEW t \in Seq(Characters), NEW R, NEW C, Page(t, R, C), NEW m \in 0 .. Len(t),
         NEW mem \in Screens, NEW top \in Nat, Pictured(mem, t, R, C, m, top),
         \A i \in 1 .. m : R[i] <= top + 24
  PROVE  Pictured(vga_scroll(mem), t, R, C, m, top + 1)
<1>1. PICK n, new, up : n = Len(t) /\ new = vga_scroll(mem) /\ up = top + 1
  OBVIOUS
<1>2. n \in Nat /\ m \in 0 .. n /\ top \in Nat /\ up = top + 1 /\ Rows = 0 .. 24
  BY ONLY <1>1, LenProperties, t \in Seq(Characters), m \in 0 .. Len(t), top \in Nat, ShellSizes
<1>3. R \in [1 .. n + 1 -> Nat] /\ C \in [1 .. n + 1 -> 0 .. 79]
  BY ONLY <1>1, Page(t, R, C) DEF Page
<1>4. \A y \in Rows : new[y] = IF y + 1 \in Rows THEN mem[y + 1] ELSE BlankScreen[y]
  BY ONLY <1>1, mem \in Screens, Scrolled
<1>5. \A i \in 1 .. m : i \in 1 .. n + 1 /\ R[i] \in Nat /\ C[i] \in 0 .. 79 /\ R[i] <= top + 24
  <2>1. \A i \in 1 .. m : i \in 1 .. n + 1
    BY ONLY <1>2
  <2> QED BY ONLY <1>3, <2>1, \A i \in 1 .. m : R[i] <= top + 24
<1>6. /\ \A i \in 1 .. m : t[i] # Newline /\ R[i] >= top => mem[R[i] - top][C[i] + 1] = t[i]
      /\ \A r \in Rows, c \in 1 .. 80 : mem[r][c] # " " =>
           \E i \in 1 .. m : t[i] # Newline /\ R[i] >= top /\ r = R[i] - top /\ c = C[i] + 1
  BY ONLY Pictured(mem, t, R, C, m, top) DEF Pictured
<1>7. ASSUME NEW i \in 1 .. m, t[i] # Newline, R[i] >= up
      PROVE  new[R[i] - up][C[i] + 1] = t[i]
  <2>1. R[i] \in Nat /\ R[i] <= top + 24
    BY ONLY <1>5
  <2>2. R[i] >= top /\ R[i] - up \in Rows /\ (R[i] - up) + 1 \in Rows
        /\ (R[i] - up) + 1 = R[i] - top
    <3>1. PICK a : a = R[i]
      OBVIOUS
    <3>2. a \in Nat /\ a <= top + 24 /\ a >= up
      BY ONLY <1>7, <2>1, <3>1
    <3>3. a >= top /\ a - up \in Rows /\ (a - up) + 1 \in Rows /\ (a - up) + 1 = a - top
      BY ONLY <1>2, <3>2
    <3> QED BY ONLY <3>1, <3>3
  <2>3. mem[R[i] - top][C[i] + 1] = t[i]
    BY ONLY <1>6, <1>7, <2>2
  <2>4. new[R[i] - up] = mem[R[i] - top]
    BY ONLY <1>4, <2>2
  <2> QED BY ONLY <2>3, <2>4
<1>8. ASSUME NEW y \in Rows, NEW x \in 1 .. 80, new[y][x] # " "
      PROVE  \E i \in 1 .. m : t[i] # Newline /\ R[i] >= up /\ y = R[i] - up /\ x = C[i] + 1
  <2>1. y + 1 \in Rows
    <3>1. ASSUME y + 1 \notin Rows PROVE FALSE
      <4>1. new[y] = BlankScreen[y]
        BY ONLY <1>4, <3>1, y \in Rows
      <4>2. PICK s : s = " "
        OBVIOUS
      <4>3. BlankScreen[y][x] = s
        <5>1. VGA_WIDTH = 80
          BY ONLY ShellSizes
        <5> QED BY ONLY <4>2, <5>1, y \in Rows, x \in 1 .. 80 DEF BlankScreen, Rep
      <4> QED BY ONLY <1>8, <4>1, <4>2, <4>3
    <3> QED BY ONLY <3>1
  <2>2. mem[y + 1][x] # " "
    BY ONLY <1>4, <1>8, <2>1, y \in Rows
  <2>3. PICK i \in 1 .. m : t[i] # Newline /\ R[i] >= top /\ y + 1 = R[i] - top /\ x = C[i] + 1
    BY ONLY <1>6, <2>1, <2>2, x \in 1 .. 80
  <2>4. R[i] \in Nat
    BY ONLY <1>5
  <2>5. R[i] >= up /\ y = R[i] - up
    BY ONLY <1>2, <2>3, <2>4, y \in Rows, SMTT(30)
  <2> QED BY ONLY <2>3, <2>5
<1>9. Pictured(new, t, R, C, m, up)
  BY ONLY <1>7, <1>8 DEF Pictured
<1> QED
  BY ONLY <1>1, <1>9

\* vga_newline, once the character before the new line is in its cell.
LEMMA NewlineLaid ==
  ASSUME NEW t \in Seq(Characters), NEW R, NEW C, Page(t, R, C), NEW m \in 0 .. Len(t) - 1,
         InOrder(t, R, C, m), NEW mem \in Screens, NEW x \in Nat,
         R[m + 1] - TopOf(R[m + 1]) \in Rows,
         Pictured(mem, t, R, C, m + 1, TopOf(R[m + 1])),
         R[m + 1 + 1] = R[m + 1] + 1, C[m + 1 + 1] = 0
  PROVE  Laid(vga_newline([mem |-> mem, row |-> R[m + 1] - TopOf(R[m + 1]), col |-> x]),
              t, R, C, m + 1)
<1>1. PICK n, k, top : n = Len(t) /\ k = m + 1 /\ top = TopOf(R[m + 1])
  OBVIOUS
<1>2. PICK e, f, y : e = R[k] /\ f = R[k + 1] /\ y = e - top
  OBVIOUS
<1>3. n \in Nat /\ m \in 0 .. n - 1 /\ k \in 1 .. n /\ k \in 1 .. n + 1 /\ k = m + 1
      /\ k \in 0 .. Len(t)
  BY ONLY <1>1, LenProperties, t \in Seq(Characters), m \in 0 .. Len(t) - 1
<1>4. R \in [1 .. n + 1 -> Nat]
  BY ONLY <1>1, Page(t, R, C) DEF Page
<1>5. e \in Nat /\ y \in Rows /\ f = e + 1 /\ C[k + 1] = 0
  BY ONLY <1>1, <1>2, <1>3, <1>4, R[m + 1] - TopOf(R[m + 1]) \in Rows,
          R[m + 1 + 1] = R[m + 1] + 1, C[m + 1 + 1] = 0
<1>6. top = IF e < 25 THEN 0 ELSE e - 24
  BY ONLY <1>1, <1>2 DEF TopOf
<1>7. TopOf(f) = IF f < 25 THEN 0 ELSE f - 24
  BY DEF TopOf
<1>8. InOrder(t, R, C, k)
  BY ONLY <1>1, OrderGoesOn, t \in Seq(Characters), Page(t, R, C), m \in 0 .. Len(t) - 1,
          InOrder(t, R, C, m)
<1>9. Pictured(mem, t, R, C, k, top)
  BY ONLY <1>1, Pictured(mem, t, R, C, m + 1, TopOf(R[m + 1]))
<1>10. PICK con : con = vga_newline([mem |-> mem, row |-> y, col |-> x])
  OBVIOUS
<1>11. con = IF y = 24 THEN [mem |-> vga_scroll(mem), row |-> 24, col |-> 0]
             ELSE [mem |-> mem, row |-> y + 1, col |-> 0]
  BY ONLY <1>5, <1>10, mem \in Screens, x \in Nat, NewlineIs
<1>12. Rows = 0 .. 24
  BY ONLY ShellSizes
<1>13. CASE y = 24
  <2>1. e = top + 24 /\ top \in Nat /\ TopOf(f) = top + 1 /\ f - TopOf(f) = 24
    <3>1. PICK g : g = TopOf(f)
      OBVIOUS
    <3>2. /\ g = (IF f < 25 THEN 0 ELSE f - 24) /\ f = e + 1 /\ e \in Nat
          /\ top = (IF e < 25 THEN 0 ELSE e - 24) /\ 24 = e - top
      BY ONLY <1>2, <1>5, <1>6, <1>7, <1>13, <3>1
    <3>3. CASE e < 25
      <4>1. top = 0 /\ e = 24
        BY ONLY <3>2, <3>3
      <4>2. g = 1 /\ f = 25
        BY ONLY <3>2, <4>1
      <4> QED BY ONLY <3>1, <4>1, <4>2
    <3>4. CASE ~ (e < 25)
      <4>1. top = e - 24 /\ g = f - 24
        BY ONLY <3>2, <3>4
      <4>2. e = top + 24 /\ top \in Nat /\ g = top + 1 /\ f - g = 24
        BY ONLY <3>2, <3>4, <4>1
      <4> QED BY ONLY <3>1, <4>2
    <3> QED BY ONLY <3>3, <3>4
  <2>2. \A i \in 1 .. k : R[i] <= top + 24
    <3>1. ASSUME NEW i \in 1 .. k PROVE R[i] <= top + 24
      <4>1. i = k \/ i \in 1 .. m
        BY ONLY <1>3, <3>1
      <4>2. i \in 1 .. m => R[i] <= R[k]
        BY ONLY <1>1, InOrder(t, R, C, m) DEF InOrder
      <4>3. e <= top + 24 /\ e = top + 24
        BY ONLY <1>5, <2>1
      <4> QED BY ONLY <1>2, <4>1, <4>2, <4>3
    <3> QED BY ONLY <3>1
  <2>3. Pictured(vga_scroll(mem), t, R, C, k, top + 1)
    BY ONLY <1>3, <1>9, <2>1, <2>2, mem \in Screens, t \in Seq(Characters), Page(t, R, C),
            ScrollPictured
  <2>4. con.mem = vga_scroll(mem) /\ con.row = 24 /\ con.col = 0
    BY ONLY <1>11, <1>13
  <2>5. con.row = f - TopOf(f) /\ con.col = C[k + 1] /\ Pictured(con.mem, t, R, C, k, TopOf(f))
    BY ONLY <1>5, <2>1, <2>3, <2>4
  <2> QED BY ONLY <1>1, <1>2, <1>8, <1>10, <2>5 DEF Laid
<1>14. CASE y # 24
  <2>1. top = 0 /\ TopOf(f) = 0 /\ f - TopOf(f) = y + 1
    BY ONLY <1>2, <1>5, <1>6, <1>7, <1>12, <1>14, SMTT(30)
  <2>2. con.mem = mem /\ con.row = y + 1 /\ con.col = 0
    BY ONLY <1>11, <1>14
  <2>3. con.row = f - TopOf(f) /\ con.col = C[k + 1] /\ Pictured(con.mem, t, R, C, k, TopOf(f))
    BY ONLY <1>5, <1>9, <2>1, <2>2
  <2> QED BY ONLY <1>1, <1>2, <1>8, <1>10, <2>3 DEF Laid
<1> QED
  BY ONLY <1>13, <1>14

\* vga_putc, for one character of a text.
LEMMA PutcLaid ==
  ASSUME NEW t \in Seq(Characters), NEW R, NEW C, Page(t, R, C), NEW m \in 0 .. Len(t) - 1,
         NEW con \in Consoles, Laid(con, t, R, C, m)
  PROVE  Laid(vga_putc(con, t[m + 1]), t, R, C, m + 1)
<1>1. PICK n, k, ch, e, f, top : /\ n = Len(t) /\ k = m + 1 /\ ch = t[m + 1]
                                 /\ e = R[m + 1] /\ f = R[m + 1 + 1] /\ top = TopOf(R[m + 1])
  OBVIOUS
<1>2. PICK mem, y, x : mem = con.mem /\ y = con.row /\ x = con.col
  OBVIOUS
<1>3. VGA_WIDTH - 1 = 79 /\ Rows = 0 .. 24
  BY ONLY ShellSizes
<1>4. con = [mem |-> mem, row |-> y, col |-> x] /\ mem \in Screens /\ y \in Rows /\ x \in 0 .. 79
  BY ONLY <1>2, <1>3, con \in Consoles DEF Consoles
<1>5. n \in Nat /\ m \in 0 .. n - 1 /\ k \in 1 .. n /\ k \in 1 .. n + 1 /\ k = m + 1
  BY ONLY <1>1, LenProperties, t \in Seq(Characters), m \in 0 .. Len(t) - 1
<1>6. R \in [1 .. n + 1 -> Nat] /\ PageStep(t, R, C, k)
  BY ONLY <1>1, <1>5, Page(t, R, C) DEF Page
<1>7. ch \in Characters /\ (ch # Newline => ch \in Char)
  <2>1. ch \in Characters
    BY ONLY <1>1, <1>5, t \in Seq(Characters), ElementOfSeq
  <2> QED BY ONLY <2>1 DEF Characters
<1>8. /\ y = e - top /\ x = C[k] /\ InOrder(t, R, C, m) /\ Pictured(mem, t, R, C, m, top)
  BY ONLY <1>1, <1>2, Laid(con, t, R, C, m) DEF Laid
<1>9. e \in Nat /\ top \in Nat
  <2>1. e \in Nat
    BY ONLY <1>1, <1>5, <1>6
  <2>2. top = IF e < 25 THEN 0 ELSE e - 24
    BY ONLY <1>1 DEF TopOf
  <2> QED BY ONLY <2>1, <2>2
<1>10. /\ ch = Newline => vga_putc(con, ch) = vga_newline(con)
       /\ ch # Newline /\ x = 79 =>
            /\ Put(mem, y, x, ch) \in Screens
            /\ vga_putc(con, ch)
                 = vga_newline([mem |-> Put(mem, y, x, ch), row |-> y, col |-> 80])
       /\ ch # Newline /\ x # 79 =>
            /\ Put(mem, y, x, ch) \in Screens
            /\ vga_putc(con, ch) = [mem |-> Put(mem, y, x, ch), row |-> y, col |-> x + 1]
  <2>1. PutcCases(mem, y, x, ch)
    BY ONLY <1>4, <1>7, PutcIs
  <2> QED BY ONLY <1>4, <2>1 DEF PutcCases
<1>11. ch # Newline => Pictured(Put(mem, y, x, ch), t, R, C, k, top)
  <2>1. ASSUME ch # Newline PROVE Pictured(Put(mem, y, x, ch), t, R, C, k, top)
    <3>1. R[m + 1] - top \in Rows /\ t[m + 1] # Newline
      BY ONLY <1>1, <1>4, <1>8, <2>1
    <3>2. Pictured(Put(mem, R[m + 1] - top, C[m + 1], t[m + 1]), t, R, C, m + 1, top)
      BY ONLY <1>4, <1>8, <1>9, <3>1, t \in Seq(Characters), Page(t, R, C),
              m \in 0 .. Len(t) - 1, PutPictured
    <3> QED BY ONLY <1>1, <1>8, <3>2
  <2> QED BY ONLY <2>1
<1>12. ASSUME NEW new \in Screens, NEW w \in Nat, Pictured(new, t, R, C, k, top),
              f = e + 1, C[k + 1] = 0
       PROVE  Laid(vga_newline([mem |-> new, row |-> y, col |-> w]), t, R, C, k)
  <2>1. R[m + 1] - TopOf(R[m + 1]) \in Rows /\ Pictured(new, t, R, C, m + 1, TopOf(R[m + 1]))
        /\ R[m + 1 + 1] = R[m + 1] + 1 /\ C[m + 1 + 1] = 0
    BY ONLY <1>1, <1>4, <1>8, <1>12
  <2>2. Laid(vga_newline([mem |-> new, row |-> R[m + 1] - TopOf(R[m + 1]), col |-> w]),
             t, R, C, m + 1)
    BY ONLY <1>8, <2>1, t \in Seq(Characters), Page(t, R, C), m \in 0 .. Len(t) - 1,
            new \in Screens, w \in Nat, NewlineLaid
  <2> QED BY ONLY <1>1, <1>8, <2>2
<1>13. CASE ch = Newline
  <2>1. Pictured(mem, t, R, C, k, top)
    <3>1. t[m + 1] = Newline
      BY ONLY <1>1, <1>13
    <3> QED BY ONLY <1>1, <1>8, <3>1, t \in Seq(Characters), m \in 0 .. Len(t) - 1,
                    NewlinePictured
  <2>2. f = e + 1 /\ C[k + 1] = 0
    BY ONLY <1>1, <1>6, <1>13 DEF PageStep
  <2>3. x \in Nat
    BY ONLY <1>4
  <2>4. Laid(vga_newline([mem |-> mem, row |-> y, col |-> x]), t, R, C, k)
    BY ONLY <1>4, <1>12, <2>1, <2>2, <2>3
  <2> QED BY ONLY <1>1, <1>4, <1>10, <1>13, <2>4
<1>14. CASE ch # Newline /\ x = 79
  <2>1. f = e + 1 /\ C[k + 1] = 0
    BY ONLY <1>1, <1>6, <1>8, <1>14 DEF PageStep
  <2>2. PICK new : new = Put(mem, y, x, ch)
    OBVIOUS
  <2>3. new \in Screens /\ vga_putc(con, ch) = vga_newline([mem |-> new, row |-> y, col |-> 80])
        /\ Pictured(new, t, R, C, k, top)
    BY ONLY <1>10, <1>11, <1>14, <2>2
  <2>4. Laid(vga_newline([mem |-> new, row |-> y, col |-> 80]), t, R, C, k)
    BY ONLY <1>12, <2>1, <2>3, 80 \in Nat
  <2> QED BY ONLY <1>1, <2>3, <2>4
<1>15. CASE ch # Newline /\ x # 79
  <2>1. f = e /\ C[k + 1] = x + 1
    BY ONLY <1>1, <1>6, <1>8, <1>15 DEF PageStep
  <2>2. PICK after : after = vga_putc(con, ch)
    OBVIOUS
  <2>3. after.mem = Put(mem, y, x, ch) /\ after.row = y /\ after.col = x + 1
    BY ONLY <1>10, <1>15, <2>2
  <2>4. InOrder(t, R, C, k)
    BY ONLY <1>1, <1>8, OrderGoesOn, t \in Seq(Characters), Page(t, R, C), m \in 0 .. Len(t) - 1
  <2>5. R[k + 1] = e /\ TopOf(R[k + 1]) = top
    BY ONLY <1>1, <2>1
  <2>6. Pictured(after.mem, t, R, C, k, top)
    BY ONLY <1>11, <1>15, <2>3
  <2>7. after.row = R[k + 1] - TopOf(R[k + 1]) /\ after.col = C[k + 1]
        /\ Pictured(after.mem, t, R, C, k, TopOf(R[k + 1]))
    BY ONLY <1>8, <2>1, <2>3, <2>5, <2>6
  <2> QED BY ONLY <1>1, <2>2, <2>4, <2>7 DEF Laid
<1> QED
  BY ONLY <1>13, <1>14, <1>15

\* The console shows all of a text.
AllLaid(con, t) == \E R, C : Page(t, R, C) /\ Laid(con, t, R, C, Len(t))

\* A console that shows all of t shows the same as the beginning of a longer text.
LEMMA StillLaid ==
  ASSUME NEW t \in Seq(Characters), NEW full \in Seq(Characters), NEW con, AllLaid(con, t),
         NEW R, NEW C, Page(full, R, C), Len(t) <= Len(full),
         \A i \in 1 .. Len(t) : t[i] = full[i]
  PROVE  Laid(con, full, R, C, Len(t))
<1>1. PICK n, k : n = Len(full) /\ k = Len(t)
  OBVIOUS
<1>2. n \in Nat /\ k \in Nat /\ k <= n /\ \A i \in 1 .. k : t[i] = full[i]
  BY ONLY <1>1, LenProperties, t \in Seq(Characters), full \in Seq(Characters),
          Len(t) <= Len(full), \A i \in 1 .. Len(t) : t[i] = full[i]
<1>3. PICK P, Q : Page(t, P, Q) /\ Laid(con, t, P, Q, k)
  BY ONLY <1>1, AllLaid(con, t) DEF AllLaid
<1>4. \A i \in 1 .. k + 1 : P[i] = PageRow(t, i) /\ Q[i] = PageCol(t, i)
  BY ONLY <1>1, <1>3 DEF Page
<1>5. \A i \in 1 .. n + 1 : R[i] = PageRow(full, i) /\ C[i] = PageCol(full, i)
  BY ONLY <1>1, Page(full, R, C) DEF Page
<1>6. \A i \in 1 .. k + 1 : PageCol(t, i) = PageCol(full, i) /\ PageRow(t, i) = PageRow(full, i)
  BY ONLY <1>1, <1>2, PagePrefix, t \in Seq(Characters), full \in Seq(Characters)
<1>7. \A i \in 1 .. k + 1 : i \in 1 .. n + 1
  BY ONLY <1>2
<1>8. \A i \in 1 .. k + 1 : P[i] = R[i] /\ Q[i] = C[i]
  BY ONLY <1>4, <1>5, <1>6, <1>7
<1>9. k + 1 \in 1 .. k + 1 /\ \A i \in 1 .. k : i \in 1 .. k + 1
  BY ONLY <1>2
<1>10. P[k + 1] = R[k + 1] /\ Q[k + 1] = C[k + 1]
  BY ONLY <1>8, <1>9
<1>11. PICK top : top = TopOf(R[k + 1])
  OBVIOUS
<1>12. /\ con.row = R[k + 1] - top /\ con.col = C[k + 1] /\ InOrder(t, P, Q, k)
       /\ Pictured(con.mem, t, P, Q, k, top)
  BY ONLY <1>3, <1>10, <1>11 DEF Laid
<1>13. InOrder(full, R, C, k)
  BY ONLY <1>2, <1>8, <1>9, <1>12 DEF InOrder
<1>14. Pictured(con.mem, full, R, C, k, top)
  <2>1. \A i \in 1 .. k : full[i] = t[i] /\ R[i] = P[i] /\ C[i] = Q[i]
    BY ONLY <1>2, <1>8, <1>9
  <2>2. /\ \A i \in 1 .. k : t[i] # Newline /\ P[i] >= top => con.mem[P[i] - top][Q[i] + 1] = t[i]
        /\ \A y \in Rows, x \in 1 .. 80 : con.mem[y][x] # " " =>
             \E i \in 1 .. k : t[i] # Newline /\ P[i] >= top /\ y = P[i] - top /\ x = Q[i] + 1
    BY ONLY <1>12 DEF Pictured
  <2>3. \A i \in 1 .. k :
          full[i] # Newline /\ R[i] >= top => con.mem[R[i] - top][C[i] + 1] = full[i]
    BY ONLY <2>1, <2>2, ZenonT(60)
  <2>4. ASSUME NEW y \in Rows, NEW x \in 1 .. 80, con.mem[y][x] # " "
        PROVE  \E i \in 1 .. k : full[i] # Newline /\ R[i] >= top /\ y = R[i] - top /\ x = C[i] + 1
    <3>1. PICK i \in 1 .. k : t[i] # Newline /\ P[i] >= top /\ y = P[i] - top /\ x = Q[i] + 1
      BY ONLY <2>2, <2>4
    <3>2. full[i] # Newline /\ R[i] >= top /\ y = R[i] - top /\ x = C[i] + 1
      BY ONLY <2>1, <3>1
    <3> QED BY ONLY <3>2
  <2> QED BY ONLY <2>3, <2>4 DEF Pictured
<1> QED
  BY ONLY <1>1, <1>11, <1>12, <1>13, <1>14 DEF Laid

\* vga_puts.
LEMMA PutsLaid ==
  ASSUME NEW t \in Seq(Characters), NEW text \in Seq(Characters), NEW con \in Consoles,
         AllLaid(con, t)
  PROVE  AllLaid(vga_puts(con, text), t \o text)
<1>1. PICK full, k, j, n : full = t \o text /\ k = Len(t) /\ j = Len(text) /\ n = Len(full)
  OBVIOUS
<1>2. /\ full \in Seq(Characters) /\ n = k + j /\ k \in Nat /\ j \in Nat
      /\ \A i \in 1 .. k : full[i] = t[i]
      /\ \A i \in 1 .. j : full[k + i] = text[i]
  BY ONLY <1>1, LenProperties, ConcatProperties, t \in Seq(Characters), text \in Seq(Characters)
<1>3. PICK R, C : Page(full, R, C)
  BY ONLY <1>2, PageIs
<1>4. Laid(con, full, R, C, k)
  <2>1. Len(t) <= Len(full) /\ \A i \in 1 .. Len(t) : t[i] = full[i]
    BY ONLY <1>1, <1>2
  <2>2. Laid(con, full, R, C, Len(t))
    BY ONLY <1>2, <1>3, <2>1, StillLaid, t \in Seq(Characters), AllLaid(con, t)
  <2> QED BY ONLY <1>1, <2>2
<1>5. PICK e : PutsSteps(e, con, text) /\ vga_puts(con, text) = e[j]
  BY ONLY <1>1, PutsIs, con \in Consoles, text \in Seq(Characters)
<1>6. e \in [0 .. j -> Consoles] /\ e[0] = con
      /\ \A i \in 1 .. j : e[i] = vga_putc(e[i - 1], text[i])
  BY ONLY <1>1, <1>5 DEF PutsSteps
<1> DEFINE A == {i \in 0 .. j : ~ Laid(e[i], full, R, C, k + i)}
<1>7. ASSUME NEW m \in A, \A i \in A : m <= i PROVE FALSE
  <2>1. m \in 0 .. j /\ ~ Laid(e[m], full, R, C, k + m)
    BY ONLY <1>7
  <2>2. m # 0
    <3>1. k + 0 = k
      BY ONLY <1>2
    <3> QED BY ONLY <1>4, <1>6, <2>1, <3>1
  <2>3. PICK p, q : p = m - 1 /\ q = k + p
    OBVIOUS
  <2>4. p \in 0 .. j /\ p < m /\ m \in 1 .. j /\ q \in 0 .. n - 1 /\ q + 1 = k + m /\ m - 1 = p
    BY ONLY <1>2, <2>1, <2>2, <2>3
  <2>5. Laid(e[p], full, R, C, q)
    <3>1. p \notin A
      BY ONLY <1>7, <2>1, <2>4
    <3> QED BY ONLY <2>3, <2>4, <3>1
  <2>6. e[p] \in Consoles /\ e[m] = vga_putc(e[p], text[m]) /\ full[k + m] = text[m]
    BY ONLY <1>2, <1>6, <2>4
  <2>7. q \in 0 .. Len(full) - 1
    BY ONLY <1>1, <2>4
  <2>8. Laid(vga_putc(e[p], full[q + 1]), full, R, C, q + 1)
    BY ONLY <1>2, <1>3, <2>5, <2>6, <2>7, PutcLaid
  <2> QED BY ONLY <2>1, <2>4, <2>6, <2>8
<1>8. A = {}
  <2>1. A \in SUBSET Nat
    BY ONLY <1>2
  <2> QED BY ONLY <1>7, <2>1, MinOfNaturals
<1>9. Laid(e[j], full, R, C, k + j)
  <2>1. j \in 0 .. j
    BY ONLY <1>2
  <2> QED BY ONLY <1>8, <2>1
<1>10. Laid(vga_puts(con, text), full, R, C, Len(full))
  BY ONLY <1>1, <1>2, <1>5, <1>9
<1> QED
  BY ONLY <1>1, <1>3, <1>10 DEF AllLaid

\* Such a console shows the end of the page.
LEMMA AllShown ==
  ASSUME NEW t \in Seq(Characters), NEW con, AllLaid(con, t)
  PROVE  ShowsTail(con, t)
<1>1. PICK n : n = Len(t)
  OBVIOUS
<1>2. n \in Nat /\ VGA_HEIGHT = 25 /\ VGA_WIDTH = 80
  BY ONLY <1>1, ShellSizes, LenProperties, t \in Seq(Characters)
<1>3. PICK R, C : Page(t, R, C) /\ Laid(con, t, R, C, n)
  BY ONLY <1>1, AllLaid(con, t) DEF AllLaid
<1>4. \A i \in 1 .. n + 1 : R[i] = PageRow(t, i) /\ C[i] = PageCol(t, i)
  BY ONLY <1>1, <1>3 DEF Page
<1>5. n + 1 \in 1 .. n + 1 /\ \A i \in 1 .. n : i \in 1 .. n + 1
  BY ONLY <1>2
<1>6. PICK end, top : /\ end = PageRow(t, Len(t) + 1)
                      /\ top = (IF end < VGA_HEIGHT THEN 0 ELSE end - VGA_HEIGHT + 1)
  OBVIOUS
<1>7. end = R[n + 1] /\ C[n + 1] = PageCol(t, n + 1) /\ R \in [1 .. n + 1 -> Nat]
  BY ONLY <1>1, <1>3, <1>4, <1>5, <1>6 DEF Page
<1>8. top = TopOf(R[n + 1])
  <2>1. end \in Nat
    BY ONLY <1>5, <1>7
  <2>2. TopOf(end) = IF end < 25 THEN 0 ELSE end - 24
    BY DEF TopOf
  <2>3. top = IF end < 25 THEN 0 ELSE end - 25 + 1
    BY ONLY <1>2, <1>6
  <2>4. end - 25 + 1 = end - 24
    BY ONLY <2>1
  <2>5. top = TopOf(end)
    BY ONLY <2>2, <2>3, <2>4
  <2> QED BY ONLY <1>7, <2>5
<1>9. /\ con.row = end - top /\ con.col = PageCol(t, Len(t) + 1)
      /\ Pictured(con.mem, t, R, C, n, top)
  BY ONLY <1>1, <1>3, <1>7, <1>8 DEF Laid
<1> DEFINE seen == {i \in 1 .. Len(t) : t[i] # Newline /\ PageRow(t, i) >= top}
           At(i) == <<PageRow(t, i) - top, PageCol(t, i) + 1>>
           cells == {At(i) : i \in seen}
<1>10. /\ \A i \in 1 .. n : t[i] # Newline /\ R[i] >= top => con.mem[R[i] - top][C[i] + 1] = t[i]
       /\ \A y \in Rows, x \in 1 .. 80 : con.mem[y][x] # " " =>
            \E i \in 1 .. n : t[i] # Newline /\ R[i] >= top /\ y = R[i] - top /\ x = C[i] + 1
  BY ONLY <1>9 DEF Pictured
<1>11. ASSUME NEW i \in seen PROVE con.mem[At(i)[1]][At(i)[2]] = t[i]
  <2>1. /\ i \in 1 .. n /\ t[i] # Newline /\ R[i] >= top
        /\ R[i] = PageRow(t, i) /\ C[i] = PageCol(t, i)
    BY ONLY <1>1, <1>4, <1>5, <1>11
  <2>2. con.mem[PageRow(t, i) - top][PageCol(t, i) + 1] = t[i]
    BY ONLY <1>10, <2>1
  <2>3. At(i)[1] = PageRow(t, i) - top /\ At(i)[2] = PageCol(t, i) + 1
    OBVIOUS
  <2> QED BY ONLY <2>2, <2>3
<1>12. ASSUME NEW y \in Rows, NEW x \in 1 .. VGA_WIDTH, con.mem[y][x] # " "
       PROVE  <<y, x>> \in cells
  <2>1. PICK i \in 1 .. n : t[i] # Newline /\ R[i] >= top /\ y = R[i] - top /\ x = C[i] + 1
    BY ONLY <1>2, <1>10, <1>12
  <2>2. R[i] = PageRow(t, i) /\ C[i] = PageCol(t, i)
    BY ONLY <1>4, <1>5
  <2>3. i \in seen
    BY ONLY <1>1, <2>1, <2>2
  <2>4. <<y, x>> = At(i)
    BY ONLY <2>1, <2>2
  <2> QED BY ONLY <2>3, <2>4
<1> HIDE DEF cells, At, seen
<1>13. /\ con.row = end - top /\ con.col = PageCol(t, Len(t) + 1)
       /\ \A i \in seen : con.mem[At(i)[1]][At(i)[2]] = t[i]
       /\ \A y \in Rows, x \in 1 .. VGA_WIDTH : con.mem[y][x] # " " => <<y, x>> \in cells
  BY ONLY <1>9, <1>11, <1>12
<1> QED
  BY ONLY <1>6, <1>13, ZenonT(60) DEF ShowsTail, cells, At, seen

\* The texts of a sequence, joined one after another.
Joined(g, texts) ==
  /\ g \in [0 .. Len(texts) -> Seq(Characters)] /\ g[0] = << >>
  /\ \A i \in 1 .. Len(texts) : g[i] = g[i - 1] \o texts[i]

\* FlattenSeq joins them.
LEMMA FlattenIs ==
  ASSUME NEW texts \in Seq(Seq(Characters)), NEW g, Joined(g, texts)
  PROVE  FlattenSeq(texts) = g[Len(texts)]
<1>1. PICK n, T : n = Len(texts) /\ T = Seq(Characters)
  OBVIOUS
<1>2. n \in Nat /\ \A i \in 1 .. n : texts[i] \in T
  BY ONLY <1>1, LenProperties, ElementOfSeq, texts \in Seq(Seq(Characters))
<1>3. g \in [0 .. n -> T] /\ g[0] = << >> /\ \A i \in 1 .. n : g[i] = g[i - 1] \o texts[i]
  BY ONLY <1>1, Joined(g, texts) DEF Joined
<1>4. CASE n = 0
  <2>1. texts = << >>
    BY ONLY <1>1, <1>4, EmptySeq, texts \in Seq(Seq(Characters))
  <2>2. FlattenSeq(texts) = texts
    BY ONLY <1>1, <1>4 DEF FlattenSeq
  <2> QED BY ONLY <1>1, <1>3, <1>4, <2>1, <2>2
<1>5. CASE n # 0
  <2>1. \A i \in 1 .. n : i \in 0 .. n /\ i - 1 \in 0 .. n /\ (i # 1 => i - 1 \in 1 .. n)
    BY ONLY <1>2
  <2>2. PICK f : f = [i \in 1 .. n |-> g[i]]
    OBVIOUS
  <2>3. \A i \in 1 .. n : f[i] = IF i = 1 THEN texts[i] ELSE f[i - 1] \o texts[i]
    <3>1. ASSUME NEW i \in 1 .. n, i = 1 PROVE f[i] = texts[i]
      <4>1. f[i] = g[0] \o texts[i]
        <5>1. i - 1 = 0
          BY ONLY <3>1
        <5>2. f[i] = g[i - 1] \o texts[i]
          BY ONLY <1>3, <2>2, <3>1
        <5> QED BY ONLY <5>1, <5>2
      <4>2. << >> \o texts[i] = texts[i]
        BY ONLY <1>1, <1>2, <3>1, ConcatEmptySeq
      <4> QED BY ONLY <1>3, <4>1, <4>2
    <3>2. ASSUME NEW i \in 1 .. n, i # 1 PROVE f[i] = f[i - 1] \o texts[i]
      BY ONLY <1>3, <2>1, <2>2, <3>2
    <3> QED BY ONLY <3>1, <3>2
  <2>4. f = [i \in 1 .. n |-> IF i = 1 THEN texts[i] ELSE f[i - 1] \o texts[i]]
    BY ONLY <2>2, <2>3
  <2>5. PICK h : h = CHOOSE u : u = [i \in 1 .. n |->
                                       IF i = 1 THEN texts[i] ELSE u[i - 1] \o texts[i]]
    OBVIOUS
  <2>6. h = [i \in 1 .. n |-> IF i = 1 THEN texts[i] ELSE h[i - 1] \o texts[i]]
    BY ONLY <2>4, <2>5
  <2>7. FlattenSeq(texts) = h[n]
    BY ONLY <1>1, <1>5, <2>5 DEF FlattenSeq
  <2> DEFINE A == {i \in 1 .. n : h[i] # f[i]}
  <2>8. ASSUME NEW m \in A, \A i \in A : m <= i PROVE FALSE
    <3>1. m \in 1 .. n /\ h[m] # f[m]
      BY ONLY <2>8
    <3>2. h[m] = (IF m = 1 THEN texts[m] ELSE h[m - 1] \o texts[m])
          /\ f[m] = IF m = 1 THEN texts[m] ELSE f[m - 1] \o texts[m]
      BY ONLY <2>3, <2>6, <3>1
    <3>3. m # 1
      BY ONLY <3>1, <3>2
    <3>4. m - 1 \in 1 .. n /\ ~ (m <= m - 1)
      BY ONLY <1>2, <3>1, <3>3
    <3>5. h[m - 1] = f[m - 1]
      BY ONLY <2>8, <3>4
    <3> QED BY ONLY <3>1, <3>2, <3>3, <3>5
  <2>9. A = {}
    <3>1. A \in SUBSET Nat
      BY ONLY <1>2
    <3> QED BY ONLY <2>8, <3>1, MinOfNaturals
  <2>10. n \in 1 .. n
    BY ONLY <1>2, <1>5
  <2>11. h[n] = g[n]
    BY ONLY <2>2, <2>9, <2>10
  <2> QED BY ONLY <1>1, <2>7, <2>11
<1> QED
  BY ONLY <1>4, <1>5

\* One text more is joined to the ones before it.
LEMMA FlattenMore ==
  ASSUME NEW texts \in Seq(Seq(Characters)), NEW text \in Seq(Characters), NEW g,
         Joined(g, texts)
  PROVE  /\ \E h : Joined(h, Append(texts, text))
         /\ FlattenSeq(texts) \in Seq(Characters)
         /\ FlattenSeq(Append(texts, text)) = FlattenSeq(texts) \o text
<1>1. PICK n, T, more : n = Len(texts) /\ T = Seq(Characters) /\ more = Append(texts, text)
  OBVIOUS
<1>2. n \in Nat /\ text \in T /\ texts \in Seq(T)
  BY ONLY <1>1, LenProperties, texts \in Seq(Seq(Characters)), text \in Seq(Characters)
<1>3. /\ more \in Seq(T) /\ Len(more) = n + 1 /\ more[n + 1] = text
      /\ \A i \in 1 .. n : more[i] = texts[i]
  BY ONLY <1>1, <1>2, AppendProperties
<1>4. g \in [0 .. n -> T] /\ g[0] = << >> /\ \A i \in 1 .. n : g[i] = g[i - 1] \o texts[i]
  BY ONLY <1>1, Joined(g, texts) DEF Joined
<1>5. n \in 0 .. n /\ g[n] \in T
  BY ONLY <1>2, <1>4
<1>6. g[n] \o text \in T
  BY ONLY <1>1, <1>2, <1>5, ConcatProperties
<1>7. PICK k, new : k = n + 1 /\ new = [i \in 0 .. k |-> IF i = k THEN g[n] \o text ELSE g[i]]
  OBVIOUS
<1>8. /\ k \in Nat /\ k \in 1 .. k /\ k \in 0 .. k /\ k - 1 = n /\ n # k
      /\ \A i \in 0 .. k : i # k => i \in 0 .. n
      /\ \A i \in 1 .. k : i # k => i \in 1 .. n
      /\ \A i \in 0 .. n : i \in 0 .. k /\ i # k
      /\ \A i \in 1 .. n : i - 1 \in 0 .. n /\ i \in 0 .. n
      /\ 0 \in 0 .. n
  BY ONLY <1>2, <1>7
<1>9. \A i \in 0 .. n : new[i] = g[i]
  BY ONLY <1>7, <1>8
<1>10. new[k] = g[n] \o text
  BY ONLY <1>7, <1>8
<1>11. new \in [0 .. k -> T]
  <2>1. \A i \in 0 .. k : (IF i = k THEN g[n] \o text ELSE g[i]) \in T
    BY ONLY <1>4, <1>6, <1>8
  <2> QED BY ONLY <1>7, <2>1
<1>12. \A i \in 1 .. k : new[i] = new[i - 1] \o more[i]
  <2>1. ASSUME NEW i \in 1 .. k, i = k PROVE new[i] = new[i - 1] \o more[i]
    BY ONLY <1>3, <1>5, <1>7, <1>8, <1>9, <1>10, <2>1
  <2>2. ASSUME NEW i \in 1 .. k, i # k PROVE new[i] = new[i - 1] \o more[i]
    <3>1. i \in 1 .. n /\ i \in 0 .. n /\ i - 1 \in 0 .. n
      BY ONLY <1>8, <2>2
    <3>2. new[i] = g[i] /\ new[i - 1] = g[i - 1] /\ more[i] = texts[i]
      BY ONLY <1>3, <1>9, <3>1
    <3> QED BY ONLY <1>4, <3>1, <3>2
  <2> QED BY ONLY <2>1, <2>2
<1>13. Joined(new, more)
  <2>1. new[0] = << >>
    BY ONLY <1>4, <1>8, <1>9
  <2> QED BY ONLY <1>1, <1>3, <1>7, <1>11, <1>12, <2>1 DEF Joined
<1>14. FlattenSeq(texts) = g[n]
  BY ONLY <1>1, FlattenIs, Joined(g, texts), texts \in Seq(Seq(Characters))
<1>15. FlattenSeq(more) = new[Len(more)]
  <2>1. more \in Seq(Seq(Characters))
    BY ONLY <1>1, <1>3
  <2> QED BY ONLY <1>13, <2>1, FlattenIs
<1>16. FlattenSeq(more) = FlattenSeq(texts) \o text
  BY ONLY <1>3, <1>7, <1>10, <1>14, <1>15
<1> QED
  BY ONLY <1>1, <1>5, <1>13, <1>14, <1>16

\* While the kernel boots, all that it has printed is laid out on the screen.
Printed ==
  /\ printed \in Seq(Seq(Characters)) /\ \E g : Joined(g, printed)
  /\ FlattenSeq(printed) \in Seq(Characters) /\ AllLaid(Console, FlattenSeq(printed))

\* What every step preserves, of the boot too.
BootInv == ShellInv /\ (pc = "boot" => Printed)

\* Nothing is printed at first, and the screen is empty.
LEMMA BootInit == Init => BootInv
<1> SUFFICES ASSUME Init PROVE BootInv
  OBVIOUS
<1>1. PICK none, S : none = << >> /\ S = Seq(Characters)
  OBVIOUS
<1>2. none \in Seq(S) /\ none \in Seq(Characters) /\ Len(none) = 0
  BY ONLY <1>1, EmptySeq
<1>3. PICK g : g = [i \in 0 .. 0 |-> none]
  OBVIOUS
<1>4. Joined(g, none)
  <2>1. g \in [0 .. 0 -> S] /\ g[0] = none
    BY ONLY <1>1, <1>2, <1>3
  <2>2. \A i \in 1 .. 0 : FALSE
    OBVIOUS
  <2> QED BY ONLY <1>1, <1>2, <2>1, <2>2 DEF Joined
<1>5. FlattenSeq(none) = none
  BY ONLY <1>2 DEF FlattenSeq
<1>6. PICK con : con = Console
  OBVIOUS
<1>7. con.mem = BlankScreen /\ con.row = 0 /\ con.col = 0
  BY <1>6 DEF Init, Console
<1>8. AllLaid(con, none)
  <2>1. PICK R, C : Page(none, R, C)
    BY ONLY <1>2, PageIs
  <2>2. R[1] = 0 /\ C[1] = 0
    BY ONLY <2>1 DEF Page
  <2>3. TopOf(R[0 + 1]) = 0 /\ R[0 + 1] = 0 /\ C[0 + 1] = 0
    BY ONLY <2>2 DEF TopOf
  <2>4. \A i \in 1 .. 0 : FALSE
    OBVIOUS
  <2>5. \A y \in Rows, x \in 1 .. 80 : con.mem[y][x] = " "
    <3>1. VGA_WIDTH = 80
      BY ONLY ShellSizes
    <3>2. PICK b : b = " "
      OBVIOUS
    <3>3. \A y \in Rows, x \in 1 .. 80 : BlankScreen[y][x] = b
      BY ONLY <3>1, <3>2 DEF BlankScreen, Rep
    <3> QED BY ONLY <1>7, <3>2, <3>3
  <2>6. Pictured(con.mem, none, R, C, 0, 0)
    BY ONLY <2>4, <2>5 DEF Pictured
  <2>7. InOrder(none, R, C, 0)
    BY ONLY <2>4 DEF InOrder
  <2>8. con.row = R[0 + 1] - TopOf(R[0 + 1]) /\ con.col = C[0 + 1]
    BY ONLY <1>7, <2>3
  <2>9. Laid(con, none, R, C, 0)
    BY ONLY <2>3, <2>6, <2>7, <2>8 DEF Laid
  <2> QED BY ONLY <1>2, <2>1, <2>9 DEF AllLaid
<1>9. printed = none
  BY <1>1 DEF Init
<1>10. Printed
  BY ONLY <1>1, <1>2, <1>4, <1>5, <1>6, <1>8, <1>9 DEF Printed
<1> QED
  BY <1>10, ShellInit DEF BootInv

\* vga_printf lays out its text after what is there; every other step ends the boot
\* or changes nothing.
LEMMA BootStep == BootInv /\ [Next]_vars => BootInv'
<1> SUFFICES ASSUME BootInv, [Next]_vars PROVE BootInv'
  OBVIOUS
<1>1. ShellInv /\ ShellInv'
  BY ONLY BootInv, [Next]_vars, ShellStep DEF BootInv
<1>2. ASSUME NEW text \in Texts, vga_printf(text) PROVE Printed'
  <2>1. Printed /\ Becomes(vga_puts(Console, text)) /\ printed' = Append(printed, text)
    BY ONLY <1>2, BootInv DEF BootInv, vga_printf
  <2>2. text \in Seq(Characters)
    BY ONLY ShellTextAssumption, text \in Texts DEF Characters
  <2>3. Console \in Consoles
    <3>1. ShellTypes
      BY ONLY <1>1 DEF ShellInv
    <3> QED BY ONLY <3>1 DEF ShellTypes, Console, Consoles
  <2>4. PICK old, flat, con, new : /\ old = printed /\ flat = FlattenSeq(printed) /\ con = Console
                                   /\ new = vga_puts(Console, text)
    OBVIOUS
  <2>5. /\ old \in Seq(Seq(Characters)) /\ flat \in Seq(Characters) /\ AllLaid(con, flat)
        /\ con \in Consoles /\ flat = FlattenSeq(old) /\ new = vga_puts(con, text)
    BY ONLY <2>1, <2>3, <2>4 DEF Printed
  <2>6. PICK g : Joined(g, old)
    BY ONLY <2>1, <2>4 DEF Printed
  <2>7. /\ \E h : Joined(h, Append(old, text))
        /\ FlattenSeq(Append(old, text)) = FlattenSeq(old) \o text
    BY ONLY <2>2, <2>5, <2>6, FlattenMore
  <2>8. new \in Consoles /\ AllLaid(new, flat \o text)
    BY ONLY <2>2, <2>5, PutsType, PutsLaid
  <2>9. Console' = new
    <3>1. VGA_MEMORY' = new.mem /\ vga_row' = new.row /\ vga_col' = new.col
      BY ONLY <2>1, <2>4 DEF Becomes
    <3>2. new = [mem |-> new.mem, row |-> new.row, col |-> new.col]
      BY ONLY <2>8 DEF Consoles
    <3> QED BY ONLY <3>1, <3>2 DEF Console
  <2>10. Append(old, text) \in Seq(Seq(Characters)) /\ flat \o text \in Seq(Characters)
    <3>1. PICK S : S = Seq(Characters)
      OBVIOUS
    <3>2. Append(old, text) \in Seq(S)
      BY ONLY <2>2, <2>5, <3>1, AppendProperties
    <3> QED BY ONLY <2>2, <2>5, <3>1, <3>2, ConcatProperties
  <2>11. printed' = Append(old, text) /\ FlattenSeq(printed') = flat \o text
    BY ONLY <2>1, <2>4, <2>5, <2>7
  <2> QED BY ONLY <2>7, <2>8, <2>9, <2>10, <2>11 DEF Printed
<1>3. ASSUME pc' = "boot" PROVE (\E text \in Texts : vga_printf(text)) \/ UNCHANGED vars
  BY <1>3 DEF Next, vars, menu_init, Enter, Execute, Edit, Backspace, Letter, DashboardKey,
              menu_update, Fault, aura_panic_interactive, panic_do_restore, NoRestorePoint,
              panic_do_poweroff, panic_do_reboot, InMenu, InDashboard
<1>4. ASSUME UNCHANGED vars PROVE pc' = pc /\ Printed' = Printed
  BY <1>4 DEF vars, vgaVars, Printed, Console
<1>5. ASSUME pc' = "boot" PROVE Printed'
  BY ONLY <1>2, <1>3, <1>4, <1>5, BootInv DEF BootInv
<1> QED
  BY ONLY <1>1, <1>5 DEF BootInv

\* A console with all of the text laid out shows the end of its page.
LEMMA BootShown == BootInv => BootTextShown
BY ONLY AllShown DEF BootInv, Printed, BootTextShown

\* Everything the boot prints is on the screen as a reader would lay it out, scrolled
\* to its end, for every text that is printed (vga_putc, vga_newline, vga_scroll).
THEOREM BootTextIsShown == Spec => []BootTextShown
<1> QED
  BY BootInit, BootStep, BootShown, PTL DEF Spec
=============================================================================
