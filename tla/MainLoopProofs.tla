--------------------------- MODULE MainLoopProofs ---------------------------
(***************************************************************************)
(* Proofs about the idle loop and its interrupts, for every size of the    *)
(* keyboard ring, of the monitor's window and of the refresh period.       *)
(*                                                                         *)
(* The ring is a queue because of what the two sides do not touch: the     *)
(* handler never writes the cell at kbd_tail while a key waits there, so   *)
(* what keyboard_getchar has read is still the head of the queue when it   *)
(* advances the index.                                                     *)
(***************************************************************************)
EXTENDS MainLoop, KernelLemmas, SequenceTheorems

\* The cell after h, the number of characters between t and h, and the i-th of
\* them, without the modulus.
NextCell(h) == IF h + 1 < KBD_BUF_SIZE THEN h + 1 ELSE 0
Count(h, t) == IF h >= t THEN h - t ELSE h - t + KBD_BUF_SIZE
CellAt(t, i) == IF t + i - 1 < KBD_BUF_SIZE THEN t + i - 1 ELSE t + i - 1 - KBD_BUF_SIZE
Contents(buf, h, t) == [i \in 1 .. Count(h, t) |-> buf[CellAt(t, i)]]

Characters == Keys \cup {NoKey}

Queue == [i \in 1 .. K!Waiting |-> K!WaitingKey(i)]

\* A key that keyboard_getchar found is still the one at kbd_tail.
ReadKeyIsNext ==
  /\ pc \in {"read", "advance"} => kbd_tail # kbd_head
  /\ pc = "advance" => c = kbd_buf[kbd_tail]

\* From sysmon_set_idle on the flag stays set until a tick takes it.
IdleIsMarked == pc \in {"check", "update", "hlt", "halted"} => current_idle \/ lag > 0

LoopTypeOK == TypeOK /\ window_idle <= window_count

LoopInv == LoopTypeOK /\ ReadKeyIsNext /\ IdleIsMarked

LEMMA Sizes ==
  /\ Refresh \in Nat \ {0} /\ Window \in Nat \ {0} /\ FifoSize \in Nat \ {0}
  /\ KBD_BUF_SIZE \in Nat \ {0, 1}
<1> QED BY MainLoopAssumption, MainLoopKeyboardAssumption DEF K!KeyboardAssumption

USE Sizes
-----------------------------------------------------------------------------
\* Indices of the ring, as the driver computes them.
LEMMA RingIndices ==
  ASSUME NEW h \in K!Cells, NEW t \in K!Cells
  PROVE  /\ (h + 1) % KBD_BUF_SIZE = NextCell(h) /\ NextCell(h) \in K!Cells
         /\ (h - t) % KBD_BUF_SIZE = Count(h, t) /\ Count(h, t) \in 0 .. KBD_BUF_SIZE - 1
         /\ \A i \in 1 .. KBD_BUF_SIZE :
              /\ (t + i - 1) % KBD_BUF_SIZE = CellAt(t, i) /\ CellAt(t, i) \in K!Cells
<1>1. PICK m \in Nat \ {0} : m = KBD_BUF_SIZE
  OBVIOUS
<1>2. h \in 0 .. m - 1 /\ t \in 0 .. m - 1 /\ K!Cells = 0 .. m - 1
  BY <1>1 DEF K!Cells
<1>3. ASSUME NEW a \in -m .. 2 * m - 1
      PROVE  a % m = IF a < 0 THEN a + m ELSE IF a < m THEN a ELSE a - m
  BY ModWrapsOnce
<1>4. (h + 1) % m = IF h + 1 < m THEN h + 1 ELSE 0
  <2>1. PICK a \in -m .. 2 * m - 1 : a = h + 1
    BY <1>2
  <2>2. a % m = IF a < 0 THEN a + m ELSE IF a < m THEN a ELSE a - m
    BY <1>3
  <2>3. (IF a < 0 THEN a + m ELSE IF a < m THEN a ELSE a - m) = IF h + 1 < m THEN h + 1 ELSE 0
    BY <1>2, <2>1
  <2> QED BY <2>1, <2>2, <2>3, Zenon
<1>5. (h - t) % m = IF h >= t THEN h - t ELSE h - t + m
  <2>1. PICK a \in -m .. 2 * m - 1 : a = h - t
    BY <1>2
  <2>2. a % m = IF a < 0 THEN a + m ELSE IF a < m THEN a ELSE a - m
    BY <1>3
  <2>3. (IF a < 0 THEN a + m ELSE IF a < m THEN a ELSE a - m) = IF h >= t THEN h - t ELSE h - t + m
    BY <1>2, <2>1
  <2> QED BY <2>1, <2>2, <2>3, Zenon
<1>6. ASSUME NEW i \in 1 .. m
      PROVE  (t + i - 1) % m = IF t + i - 1 < m THEN t + i - 1 ELSE t + i - 1 - m
  <2>1. PICK a \in -m .. 2 * m - 1 : a = t + i - 1
    BY <1>2
  <2>2. a % m = IF a < 0 THEN a + m ELSE IF a < m THEN a ELSE a - m
    BY <1>3
  <2>3. (IF a < 0 THEN a + m ELSE IF a < m THEN a ELSE a - m)
          = IF t + i - 1 < m THEN t + i - 1 ELSE t + i - 1 - m
    BY <1>2, <2>1
  <2> QED BY <2>1, <2>2, <2>3, Zenon
<1>7. /\ NextCell(h) = IF h + 1 < m THEN h + 1 ELSE 0
      /\ Count(h, t) = IF h >= t THEN h - t ELSE h - t + m
      /\ \A i \in 1 .. m : CellAt(t, i) = IF t + i - 1 < m THEN t + i - 1 ELSE t + i - 1 - m
  BY <1>1 DEF NextCell, Count, CellAt
<1>8. /\ NextCell(h) \in 0 .. m - 1 /\ Count(h, t) \in 0 .. m - 1
      /\ \A i \in 1 .. m : CellAt(t, i) \in 0 .. m - 1
  BY <1>2, <1>7
<1> QED
  BY <1>1, <1>2, <1>4, <1>5, <1>6, <1>7, <1>8, Zenon

LEMMA ContentsIsSeq ==
  ASSUME NEW buf \in [K!Cells -> Characters], NEW h \in K!Cells, NEW t \in K!Cells
  PROVE  /\ Contents(buf, h, t) \in Seq(Characters)
         /\ Len(Contents(buf, h, t)) = Count(h, t)
         /\ \A i \in 1 .. Count(h, t) : Contents(buf, h, t)[i] = buf[CellAt(t, i)]
<1>1. /\ Count(h, t) \in Nat
      /\ \A i \in 1 .. Count(h, t) : CellAt(t, i) \in K!Cells
  <2>1. Count(h, t) \in 0 .. KBD_BUF_SIZE - 1
    BY RingIndices
  <2>2. \A i \in 1 .. Count(h, t) : i \in 1 .. KBD_BUF_SIZE
    BY <2>1
  <2>3. \A i \in 1 .. KBD_BUF_SIZE : CellAt(t, i) \in K!Cells
    BY RingIndices
  <2> QED BY <2>1, <2>2, <2>3
<1>2. Contents(buf, h, t) \in [1 .. Count(h, t) -> Characters]
  BY <1>1 DEF Contents
<1>3. Contents(buf, h, t) \in Seq(Characters)
  BY <1>1, <1>2, SeqDef
<1>4. Len(Contents(buf, h, t)) \in Nat /\ 1 .. Len(Contents(buf, h, t)) = 1 .. Count(h, t)
  BY <1>2, <1>3, LenProperties
<1>5. Len(Contents(buf, h, t)) = Count(h, t)
  BY <1>1, <1>4
<1> QED
  BY <1>3, <1>5 DEF Contents

\* The character stored at the head becomes the last of the queue.
LEMMA StoreAppends ==
  ASSUME NEW buf \in [K!Cells -> Characters], NEW h \in K!Cells, NEW t \in K!Cells,
         NEW k \in Keys, NextCell(h) # t
  PROVE  /\ Contents([buf EXCEPT ![h] = k], NextCell(h), t) = Append(Contents(buf, h, t), k)
         /\ Count(h, t) < KBD_BUF_SIZE - 1
<1> DEFINE buf2 == [buf EXCEPT ![h] = k]
           s == Contents(buf, h, t)
           s2 == Contents(buf2, NextCell(h), t)
<1>1. NextCell(h) \in K!Cells /\ buf2 \in [K!Cells -> Characters]
  BY RingIndices DEF Characters
<1>2. /\ Count(NextCell(h), t) = Count(h, t) + 1 /\ Count(h, t) < KBD_BUF_SIZE - 1
      /\ CellAt(t, Count(h, t) + 1) = h
      /\ \A i \in 1 .. Count(h, t) : CellAt(t, i) # h /\ CellAt(t, i) \in K!Cells
  BY DEF Count, NextCell, CellAt, K!Cells
<1>3. s \in Seq(Characters) /\ Len(s) = Count(h, t)
      /\ \A i \in 1 .. Count(h, t) : s[i] = buf[CellAt(t, i)]
  BY ContentsIsSeq
<1>4. s2 \in Seq(Characters) /\ Len(s2) = Count(h, t) + 1
      /\ \A i \in 1 .. Count(h, t) + 1 : s2[i] = buf2[CellAt(t, i)]
  <2>1. /\ s2 \in Seq(Characters) /\ Len(s2) = Count(NextCell(h), t)
        /\ \A i \in 1 .. Count(NextCell(h), t) : s2[i] = buf2[CellAt(t, i)]
    BY ONLY <1>1, t \in K!Cells, ContentsIsSeq
  <2> QED BY <1>2, <2>1
<1>5. Count(h, t) \in Nat
  BY RingIndices
<1> HIDE DEF s, s2
<1>6. Append(s, k) \in Seq(Characters) /\ Len(Append(s, k)) = Count(h, t) + 1
  BY <1>3 DEF Characters
<1>7. ASSUME NEW i \in 1 .. Count(h, t) + 1 PROVE s2[i] = Append(s, k)[i]
  <2>1. CASE i \in 1 .. Count(h, t)
    BY <1>2, <1>3, <1>4, <2>1
  <2>2. CASE i = Count(h, t) + 1
    BY <1>2, <1>3, <1>4, <1>5, <2>2
  <2>3. i \in 1 .. Count(h, t) \/ i = Count(h, t) + 1
    BY <1>5
  <2> QED BY <2>1, <2>2, <2>3, Zenon
<1>8. s2 = Append(s, k)
  BY <1>4, <1>6, <1>7, SeqEqual
<1> QED
  BY <1>2, <1>8 DEF s, s2

\* The character at the tail is the first of the queue, and advancing the index
\* takes it off.
LEMMA AdvanceTakesHead ==
  ASSUME NEW buf \in [K!Cells -> Characters], NEW h \in K!Cells, NEW t \in K!Cells, h # t
  PROVE  /\ Contents(buf, h, t) # << >>
         /\ Head(Contents(buf, h, t)) = buf[t]
         /\ Tail(Contents(buf, h, t)) = Contents(buf, h, NextCell(t))
<1> DEFINE s == Contents(buf, h, t)
           s2 == Contents(buf, h, NextCell(t))
<1>1. NextCell(t) \in K!Cells
  BY RingIndices
<1>2. /\ Count(h, NextCell(t)) = Count(h, t) - 1 /\ Count(h, t) >= 1 /\ Count(h, t) \in Nat
      /\ CellAt(t, 1) = t
      /\ \A i \in 1 .. Count(h, t) - 1 : CellAt(NextCell(t), i) = CellAt(t, i + 1)
  BY DEF Count, NextCell, CellAt, K!Cells
<1>3. s \in Seq(Characters) /\ Len(s) = Count(h, t)
      /\ \A i \in 1 .. Count(h, t) : s[i] = buf[CellAt(t, i)]
  BY ContentsIsSeq
<1>4. s2 \in Seq(Characters) /\ Len(s2) = Count(h, t) - 1
      /\ \A i \in 1 .. Count(h, t) - 1 : s2[i] = buf[CellAt(NextCell(t), i)]
  <2>1. /\ s2 \in Seq(Characters) /\ Len(s2) = Count(h, NextCell(t))
        /\ \A i \in 1 .. Count(h, NextCell(t)) : s2[i] = buf[CellAt(NextCell(t), i)]
    BY <1>1, ContentsIsSeq
  <2> QED BY <1>2, <2>1
<1> HIDE DEF s, s2
<1>5. s # << >>
  BY <1>2, <1>3
<1>6. Head(s) = buf[t]
  BY <1>2, <1>3, <1>5
<1>7. Tail(s) \in Seq(Characters) /\ Len(Tail(s)) = Count(h, t) - 1
      /\ \A i \in 1 .. Count(h, t) - 1 : Tail(s)[i] = s[i + 1]
  BY <1>3, <1>5, HeadTailProperties
<1>8. \A i \in 1 .. Count(h, t) - 1 : s2[i] = Tail(s)[i]
  BY <1>2, <1>3, <1>4, <1>7
<1>9. s2 = Tail(s)
  BY <1>4, <1>7, <1>8, SeqEqual
<1> QED
  BY <1>5, <1>6, <1>9 DEF s, s2

\* The queue of module Keyboard holds the contents of the ring.
LEMMA QueueOfRing ==
  ASSUME NEW buf, NEW h \in K!Cells, NEW t \in K!Cells
  PROVE  [i \in 1 .. (h - t) % KBD_BUF_SIZE |-> buf[(t + i - 1) % KBD_BUF_SIZE]]
           = Contents(buf, h, t)
<1>1. /\ (h - t) % KBD_BUF_SIZE = Count(h, t)
      /\ Count(h, t) \in 0 .. KBD_BUF_SIZE - 1
      /\ \A i \in 1 .. KBD_BUF_SIZE : (t + i - 1) % KBD_BUF_SIZE = CellAt(t, i)
  BY RingIndices
<1>2. \A i \in 1 .. Count(h, t) : i \in 1 .. KBD_BUF_SIZE
  BY <1>1
<1>3. [i \in 1 .. Count(h, t) |-> buf[(t + i - 1) % KBD_BUF_SIZE]] = Contents(buf, h, t)
  BY <1>1, <1>2, Zenon DEF Contents
<1> QED
  BY <1>1, <1>3
-----------------------------------------------------------------------------
LEMMA LoopInitInv == Init => LoopInv /\ K!KQ!Init
<1> SUFFICES ASSUME Init PROVE LoopInv /\ K!KQ!Init
  OBVIOUS
<1>1. LoopInv
  <2>1. 0 \in 0 .. Refresh /\ 0 \in 0 .. FifoSize /\ 0 \in 0 .. Window
    OBVIOUS
  <2>2. 0 \in K!Cells
    BY DEF K!Cells
  <2>3. K!TypeOK
    BY <2>2 DEF Init, K!Init, K!TypeOK, KeyboardPc
  <2>4. TypeOK
    BY <2>1, <2>3 DEF Init, TypeOK, Places
  <2>5. window_idle <= window_count
    BY DEF Init
  <2>6. pc = "poll"
    BY DEF Init
  <2> QED BY <2>4, <2>5, <2>6 DEF LoopInv, LoopTypeOK, ReadKeyIsNext, IdleIsMarked
<1>2. kbd_head = 0 /\ kbd_tail = 0 /\ 0 \in K!Cells /\ taken = NoKey /\ fate = "none"
  BY DEF Init, K!Init, K!Cells
<1>3. K!Waiting = 0
  BY <1>2, RingIndices DEF K!Waiting, Count
<1>4. [i \in 1 .. K!Waiting |-> K!WaitingKey(i)] = << >>
  BY <1>3
<1> QED
  BY <1>1, <1>2, <1>4 DEF K!KQ!Init

\* The handler of the keyboard, wherever it finds the loop.
LEMMA KeyboardStep ==
  ASSUME LoopInv, keyboard_irq
  PROVE  /\ LoopInv'
         /\ \/ \E k \in Keys : K!KQ!Accept(k)
            \/ K!KQ!Refuse
            \/ UNCHANGED <<Queue, taken, fate>>
<1>1. /\ pc \in Places /\ pc' \in Places
      /\ pc # "halted" => pc' = pc
      /\ pc = "halted" => pc' = "poll"
      /\ UNCHANGED <<fifo, since, elapsed, lag, current_idle, window_idle, window_count,
                     prev_window_idle, prev_window_total>>
  BY DEF keyboard_irq, Wake, timeVars, loadVars, LoopInv, LoopTypeOK, TypeOK, Places
<1>2. /\ kbd_buf \in [K!Cells -> Characters] /\ kbd_head \in K!Cells /\ kbd_tail \in K!Cells
      /\ c \in Characters /\ taken \in Characters /\ fate \in {"none", "queued", "dropped"}
  BY DEF LoopInv, LoopTypeOK, TypeOK, K!TypeOK, Characters
<1>3. Queue = Contents(kbd_buf, kbd_head, kbd_tail)
  BY <1>2, QueueOfRing DEF Queue, K!Waiting, K!WaitingKey
<1>4. KeyboardPc' \in {"poll", "read", "advance"} /\ UNCHANGED <<c, taken, kbd_tail>>
  BY DEF KeyboardPc, keyboard_irq, K!keyboard_handler, K!keyboard_handler_full,
         K!keyboard_handler_ignored, K!vars
<1>5. /\ pc' \in {"check", "update", "hlt", "halted"} => pc \in {"check", "update", "hlt"}
      /\ pc' \in {"read", "advance"} => pc = pc'
  BY <1>1
<1>6. CASE \E k \in Keys : K!keyboard_handler(k)
  <2>1. PICK k \in Keys : K!keyboard_handler(k)
    BY <1>6
  <2>2. /\ NextCell(kbd_head) # kbd_tail /\ NextCell(kbd_head) \in K!Cells
        /\ kbd_buf' = [kbd_buf EXCEPT ![kbd_head] = k]
        /\ kbd_head' = NextCell(kbd_head) /\ fate' = "queued"
        /\ UNCHANGED <<kbd_tail, c, taken>>
    BY <1>2, <2>1, RingIndices DEF K!keyboard_handler, K!After
  <2>3. /\ Queue' = Append(Queue, k) /\ Len(Queue) < KBD_BUF_SIZE - 1
    <3>1. Queue' = Contents(kbd_buf', kbd_head', kbd_tail')
      <4>1. kbd_head' \in K!Cells /\ kbd_tail' \in K!Cells
        BY <1>2, <2>2
      <4>2. [i \in 1 .. (kbd_head' - kbd_tail') % KBD_BUF_SIZE |->
               kbd_buf'[(kbd_tail' + i - 1) % KBD_BUF_SIZE]]
              = Contents(kbd_buf', kbd_head', kbd_tail')
        BY <4>1, QueueOfRing
      <4> QED BY <4>2, Zenon DEF Queue, K!Waiting, K!WaitingKey
    <3>2. Len(Queue) = Count(kbd_head, kbd_tail)
      BY <1>2, <1>3, ContentsIsSeq
    <3> QED BY <1>2, <1>3, <2>2, <3>1, <3>2, StoreAppends
  <2>4. K!KQ!Accept(k)
    BY <2>2, <2>3 DEF K!KQ!Accept, Queue
  <2>5. K!TypeOK'
    BY <1>2, <1>4, <2>2 DEF K!TypeOK, Characters
  <2>6. LoopTypeOK'
    BY <1>1, <2>5 DEF LoopInv, LoopTypeOK, TypeOK
  <2>7. ReadKeyIsNext'
    BY <1>1, <1>2, <1>5, <2>2 DEF LoopInv, ReadKeyIsNext
  <2>8. IdleIsMarked'
    BY <1>1, <1>5 DEF LoopInv, IdleIsMarked
  <2> QED BY <2>4, <2>6, <2>7, <2>8 DEF LoopInv
<1>7. CASE K!keyboard_handler_full \/ K!keyboard_handler_ignored
  <2>1. /\ UNCHANGED <<kbd_buf, kbd_head, kbd_tail, c, taken>>
        /\ fate' \in {fate, "dropped"}
        /\ fate' = fate \/ K!keyboard_handler_full
    BY <1>7 DEF K!keyboard_handler_full, K!keyboard_handler_ignored, K!vars
  <2>2. Queue' = Queue
    BY <2>1 DEF Queue, K!Waiting, K!WaitingKey
  <2>3. K!keyboard_handler_full => K!KQ!Refuse
    <3> SUFFICES ASSUME K!keyboard_handler_full PROVE K!KQ!Refuse
      OBVIOUS
    <3>1. NextCell(kbd_head) = kbd_tail /\ fate' = "dropped"
      BY <1>2, RingIndices DEF K!keyboard_handler_full, K!After
    <3>2. Len(Queue) = Count(kbd_head, kbd_tail)
      BY <1>2, <1>3, ContentsIsSeq
    <3>3. Count(kbd_head, kbd_tail) = KBD_BUF_SIZE - 1
      BY <1>2, <3>1 DEF Count, NextCell, K!Cells
    <3> QED BY <2>1, <2>2, <3>1, <3>2, <3>3 DEF K!KQ!Refuse, Queue
  <2>4. K!TypeOK'
    BY <1>2, <1>4, <2>1 DEF K!TypeOK, Characters
  <2>5. LoopTypeOK'
    BY <1>1, <2>4 DEF LoopInv, LoopTypeOK, TypeOK
  <2>6. ReadKeyIsNext'
    BY <1>1, <1>5, <2>1 DEF LoopInv, ReadKeyIsNext
  <2>7. IdleIsMarked'
    BY <1>1, <1>5 DEF LoopInv, IdleIsMarked
  <2> QED BY <2>1, <2>2, <2>3, <2>5, <2>6, <2>7 DEF LoopInv
<1> QED
  BY <1>6, <1>7 DEF keyboard_irq

\* A tick: the load window of sysmon_tick, and the end of a sleep.
LEMMA TickStep == LoopInv /\ pit_irq_handler => LoopInv' /\ UNCHANGED <<Queue, taken, fate>>
<1> SUFFICES ASSUME LoopInv, pit_irq_handler
             PROVE  LoopInv' /\ UNCHANGED <<Queue, taken, fate>>
  OBVIOUS
<1>1. /\ UNCHANGED <<kbd_buf, kbd_head, kbd_tail, c, taken, fate>> /\ UNCHANGED <<fifo, elapsed>>
      /\ since' = OneMore(since) /\ lag' = OneMore(lag) /\ sysmon_tick /\ Wake
  BY DEF pit_irq_handler, keyVars
<1>2. UNCHANGED Queue
  BY <1>1 DEF Queue, K!Waiting, K!WaitingKey
<1>3. pc' \in Places /\ (pc # "halted" => pc' = pc) /\ (pc = "halted" => pc' = "poll")
  BY <1>1 DEF Wake, LoopInv, LoopTypeOK, TypeOK, Places
<1>4. since' \in 0 .. Refresh /\ lag' \in 1 .. Refresh
  BY <1>1 DEF OneMore, LoopInv, LoopTypeOK, TypeOK
<1>flag. current_idle' \in BOOLEAN
  BY <1>1 DEF sysmon_tick
<1>5. /\ window_count' \in 0 .. Window - 1
      /\ window_idle' \in 0 .. Window /\ prev_window_idle' \in 0 .. Window
      /\ window_idle' <= window_count'
  <2>1. /\ window_idle \in 0 .. Window /\ window_count \in 0 .. Window - 1
        /\ prev_window_idle \in 0 .. Window /\ window_idle <= window_count
    BY DEF LoopInv, LoopTypeOK, TypeOK
  <2>2. PICK idle \in {window_idle, window_idle + 1} :
          /\ window_count' = IF WindowFull THEN 0 ELSE window_count + 1
          /\ window_idle' = IF WindowFull THEN 0 ELSE idle
          /\ prev_window_idle' = IF WindowFull THEN idle ELSE prev_window_idle
    BY <1>1 DEF sysmon_tick
  <2>3. idle \in 0 .. Window /\ idle <= window_count + 1
    BY <2>1
  <2>4. CASE WindowFull
    BY <2>1, <2>2, <2>3, <2>4
  <2>5. CASE ~ WindowFull
    <3>1. window_count + 1 < Window
      BY <2>1, <2>5 DEF WindowFull
    <3> QED BY <2>1, <2>2, <2>3, <2>5, <3>1
  <2> QED BY <2>4, <2>5
<1>6. K!TypeOK'
  BY <1>1, <1>3 DEF K!TypeOK, LoopInv, LoopTypeOK, TypeOK, KeyboardPc
<1>7. LoopTypeOK'
  BY <1>1, <1>3, <1>4, <1>flag, <1>5, <1>6 DEF LoopInv, LoopTypeOK, TypeOK
<1>8. ReadKeyIsNext'
  BY <1>1, <1>3 DEF LoopInv, ReadKeyIsNext
<1>9. IdleIsMarked'
  BY <1>4 DEF IdleIsMarked
<1> QED
  BY <1>1, <1>2, <1>7, <1>8, <1>9 DEF LoopInv

\* The steps of the loop that take a key.
LEMMA AdvanceStep == LoopInv /\ AdvanceTail => LoopInv' /\ K!KQ!Take
<1> SUFFICES ASSUME LoopInv, AdvanceTail PROVE LoopInv' /\ K!KQ!Take
  OBVIOUS
<1>1. /\ kbd_buf \in [K!Cells -> Characters] /\ kbd_head \in K!Cells /\ kbd_tail \in K!Cells
      /\ c \in Characters /\ taken \in Characters /\ fate \in {"none", "queued", "dropped"}
  BY DEF LoopInv, LoopTypeOK, TypeOK, K!TypeOK, Characters
<1>2. /\ pc = "advance" /\ pc' = "key" /\ kbd_tail # kbd_head /\ c = kbd_buf[kbd_tail]
      /\ kbd_tail' = NextCell(kbd_tail) /\ taken' = c
      /\ NextCell(kbd_tail) \in K!Cells
      /\ UNCHANGED <<kbd_buf, kbd_head, c, fate>>
      /\ UNCHANGED <<fifo, since, elapsed, lag, current_idle, window_idle, window_count,
                     prev_window_idle, prev_window_total>>
  BY <1>1, RingIndices DEF AdvanceTail, Goto, K!GetcharAdvance, K!After, LoopInv, ReadKeyIsNext,
     timeVars, loadVars
<1>3. Queue = Contents(kbd_buf, kbd_head, kbd_tail)
  BY <1>1, QueueOfRing DEF Queue, K!Waiting, K!WaitingKey
<1>4. Queue' = Contents(kbd_buf', kbd_head', kbd_tail')
  <2>1. kbd_head' \in K!Cells /\ kbd_tail' \in K!Cells
    BY <1>1, <1>2
  <2>2. [i \in 1 .. (kbd_head' - kbd_tail') % KBD_BUF_SIZE |->
           kbd_buf'[(kbd_tail' + i - 1) % KBD_BUF_SIZE]]
          = Contents(kbd_buf', kbd_head', kbd_tail')
    BY <2>1, QueueOfRing
  <2> QED BY <2>2, Zenon DEF Queue, K!Waiting, K!WaitingKey
<1>5. Queue # << >> /\ taken' = Head(Queue) /\ Queue' = Tail(Queue)
  BY <1>1, <1>2, <1>3, <1>4, AdvanceTakesHead
<1>6. K!KQ!Take
  BY <1>2, <1>5 DEF K!KQ!Take, Queue
<1>7. K!TypeOK'
  BY <1>1, <1>2 DEF K!TypeOK, Characters, KeyboardPc
<1>8. LoopTypeOK'
  BY <1>2, <1>7 DEF LoopInv, LoopTypeOK, TypeOK, Places
<1> QED
  BY <1>2, <1>6, <1>8 DEF LoopInv, ReadKeyIsNext, IdleIsMarked

\* The other steps of the loop leave the ring alone.
LEMMA QuietStep ==
  LoopInv /\ (SerialArrives \/ (Loop /\ ~ AdvanceTail) \/ UNCHANGED vars)
    => LoopInv' /\ UNCHANGED <<Queue, taken, fate>>
<1> SUFFICES ASSUME LoopInv, SerialArrives \/ (Loop /\ ~ AdvanceTail) \/ UNCHANGED vars
             PROVE  LoopInv' /\ UNCHANGED <<Queue, taken, fate>>
  OBVIOUS
<1> USE DEF keyVars, timeVars, loadVars, Goto
<1>1. UNCHANGED <<kbd_buf, kbd_head, kbd_tail, taken, fate>> /\ (pc # "read" => c' = c)
  BY DEF SerialArrives, Loop, vars, PollKeys, ReadKey, HandleKey, PollSerial, HandleByte, ReadNow,
         sysmon_set_idle, CheckRefresh, MenuUpdate, Hlt, K!keyboard_has_key, K!GetcharRead
<1>2. UNCHANGED Queue
  BY <1>1 DEF Queue, K!Waiting, K!WaitingKey
<1>3. CASE PollKeys
  <2>1. /\ pc = "poll" /\ pc' \in {"read", "serial"} /\ c' = c
        /\ pc' = "read" => kbd_tail # kbd_head
        /\ UNCHANGED <<fifo, since, elapsed, lag, current_idle, window_idle, window_count,
                       prev_window_idle, prev_window_total>>
    BY <1>3 DEF PollKeys, K!keyboard_has_key, K!HasKey
  <2>2. K!TypeOK' /\ LoopTypeOK'
    BY <1>1, <2>1 DEF LoopInv, LoopTypeOK, TypeOK, K!TypeOK, Places, KeyboardPc
  <2> QED BY <1>1, <1>2, <2>1, <2>2 DEF LoopInv, ReadKeyIsNext, IdleIsMarked
<1>4. CASE ReadKey
  <2>1. /\ pc = "read" /\ pc' = "advance"
        /\ kbd_tail # kbd_head /\ c' = kbd_buf[kbd_tail]
        /\ UNCHANGED <<fifo, since, elapsed, lag, current_idle, window_idle, window_count,
                       prev_window_idle, prev_window_total>>
    BY <1>4 DEF ReadKey, K!GetcharRead, LoopInv, ReadKeyIsNext
  <2>2. K!TypeOK' /\ LoopTypeOK'
    BY <1>1, <2>1 DEF LoopInv, LoopTypeOK, TypeOK, K!TypeOK, Places, KeyboardPc
  <2> QED BY <1>1, <1>2, <2>1, <2>2 DEF LoopInv, ReadKeyIsNext, IdleIsMarked
<1>5. CASE SerialArrives \/ UNCHANGED vars
  <2>1. /\ pc' = pc /\ c' = c /\ fifo' \in 0 .. FifoSize
        /\ UNCHANGED <<since, elapsed, lag, current_idle, window_idle, window_count,
                       prev_window_idle, prev_window_total>>
    BY <1>5 DEF SerialArrives, vars, LoopInv, LoopTypeOK, TypeOK
  <2>2. K!TypeOK' /\ LoopTypeOK'
    BY <1>1, <2>1 DEF LoopInv, LoopTypeOK, TypeOK, K!TypeOK, KeyboardPc
  <2> QED BY <1>1, <1>2, <2>1, <2>2 DEF LoopInv, ReadKeyIsNext, IdleIsMarked
<1>6. CASE HandleKey \/ PollSerial \/ HandleByte \/ ReadNow \/ sysmon_set_idle
           \/ CheckRefresh \/ MenuUpdate \/ Hlt
  <2>1. /\ pc' \in Places \ {"read", "advance"} /\ pc # "read"
        /\ fifo' \in 0 .. FifoSize
        /\ UNCHANGED <<window_idle, window_count, prev_window_idle, prev_window_total>>
    BY <1>6 DEF HandleKey, PollSerial, HandleByte, ReadNow, sysmon_set_idle, CheckRefresh,
                MenuUpdate, Hlt, LoopInv, LoopTypeOK, TypeOK, Places
  <2>2. /\ since' \in 0 .. Refresh /\ elapsed' \in 0 .. Refresh /\ lag' \in 0 .. Refresh
    BY <1>6 DEF HandleKey, PollSerial, HandleByte, ReadNow, sysmon_set_idle, CheckRefresh,
                MenuUpdate, Hlt, LoopInv, LoopTypeOK, TypeOK
  <2>flag. current_idle' \in BOOLEAN
    BY <1>6 DEF HandleKey, PollSerial, HandleByte, ReadNow, sysmon_set_idle, CheckRefresh,
                MenuUpdate, Hlt, LoopInv, LoopTypeOK, TypeOK
  <2>3. K!TypeOK' /\ LoopTypeOK'
    BY <1>1, <2>1, <2>2, <2>flag DEF LoopInv, LoopTypeOK, TypeOK, K!TypeOK, KeyboardPc
  <2>4. IdleIsMarked'
    <3>1. CASE pc' \in {"check", "update", "hlt", "halted"}
      <4>1. lag' = lag /\ (current_idle' = TRUE \/ current_idle' = current_idle)
        BY <1>6, <3>1 DEF HandleKey, PollSerial, HandleByte, ReadNow, sysmon_set_idle,
                          CheckRefresh, MenuUpdate, Hlt
      <4>2. pc \in {"check", "update", "hlt"} \/ current_idle' = TRUE
        BY <1>6, <3>1 DEF HandleKey, PollSerial, HandleByte, ReadNow, sysmon_set_idle,
                          CheckRefresh, MenuUpdate, Hlt
      <4> QED BY <4>1, <4>2 DEF LoopInv, IdleIsMarked
    <3> QED BY <3>1 DEF IdleIsMarked
  <2> QED BY <1>1, <1>2, <2>1, <2>3, <2>4 DEF LoopInv, ReadKeyIsNext
<1> QED
  BY <1>3, <1>4, <1>5, <1>6 DEF Loop

LEMMA LoopStep ==
  LoopInv /\ [Next]_vars => LoopInv' /\ [K!KQ!Next]_<<Queue, taken, fate>>
<1> SUFFICES ASSUME LoopInv, [Next]_vars
             PROVE  LoopInv' /\ [K!KQ!Next]_<<Queue, taken, fate>>
  OBVIOUS
<1>1. CASE keyboard_irq
  BY <1>1, KeyboardStep DEF K!KQ!Next
<1>2. CASE AdvanceTail
  BY <1>2, AdvanceStep DEF K!KQ!Next
<1>3. CASE pit_irq_handler
  BY <1>3, TickStep
<1>4. CASE SerialArrives \/ (Loop /\ ~ AdvanceTail) \/ UNCHANGED vars
  BY <1>4, QuietStep
<1> QED
  BY <1>1, <1>2, <1>3, <1>4 DEF Next, Loop

LEMMA LoopInvariance == Spec => []LoopInv /\ K!KQ!Init /\ [][K!KQ!Next]_<<Queue, taken, fate>>
<1> QED BY LoopInitInv, LoopStep, PTL DEF Spec
-----------------------------------------------------------------------------
\* The state of the loop, of the ring, of the receiver and of the load window keeps
\* its type: no index leaves the ring, and no more ticks of a window are idle than the
\* window has.
THEOREM LoopTypeCorrect == Spec => []TypeOK
<1>1. LoopInv => TypeOK
  BY DEF LoopInv, LoopTypeOK
<1> QED
  BY <1>1, LoopInvariance, PTL

\* sysmon_set_idle before the hlt is enough: no interrupt between the two loses the
\* mark without leaving the tick that took it.
THEOREM SleepIsIdle == Spec => []SleepCountsAsIdle
<1>1. LoopInv => SleepCountsAsIdle
  BY DEF LoopInv, IdleIsMarked, SleepCountsAsIdle
<1> QED
  BY <1>1, LoopInvariance, PTL

\* The ring that keyboard_handler fills and keyboard_getchar empties without a lock
\* implements the bounded queue of KeyQueue, for every size of the ring.
THEOREM RingIsQueue == Spec => RefinesKeyQueue
<1> QED
  BY LoopInvariance, PTL DEF RefinesKeyQueue, K!RefinesKeyQueue, K!KQ!Spec, Queue
=============================================================================
