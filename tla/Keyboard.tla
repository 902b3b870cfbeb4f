------------------------------ MODULE Keyboard ------------------------------
(***************************************************************************)
(* The PS/2 keyboard driver (kernel/drivers/keyboard.c): a ring of         *)
(* characters that the interrupt handler fills and the main loop empties   *)
(* without locks.  The handler runs to its end between any two steps of    *)
(* the main loop; the steps are the loop's accesses to the ring.  Module   *)
(* MainLoop takes them, with the rest of the loop around them.             *)
(***************************************************************************)
EXTENDS Integers, Sequences

CONSTANTS
  KBD_BUF_SIZE,
  Keys,      \* the characters of scancode_ascii
  NoKey      \* 0: what an unused cell holds and an empty ring returns

\* Assumed where the module is instantiated.
KeyboardAssumption ==
  /\ KBD_BUF_SIZE \in Nat \ {0, 1}
  /\ NoKey \notin Keys

VARIABLES
  kbd_buf, kbd_head, kbd_tail,
  pc,      \* where the main loop is in keyboard_has_key and keyboard_getchar
  c,       \* the character keyboard_getchar has read
  taken,   \* history: the character last passed to menu_handle_key
  fate     \* history: what the handler did with the last character

vars == <<kbd_buf, kbd_head, kbd_tail, pc, c, taken, fate>>

Cells == 0 .. KBD_BUF_SIZE - 1

After(i) == (i + 1) % KBD_BUF_SIZE
-----------------------------------------------------------------------------
\* keyboard_init
Init ==
  /\ kbd_buf = [i \in Cells |-> NoKey]
  /\ kbd_head = 0
  /\ kbd_tail = 0
  /\ pc = "poll"
  /\ c = NoKey
  /\ taken = NoKey
  /\ fate = "none"

\* keyboard_handler for a make code with a character: stored unless the ring is
\* full.  The cell is written before the index that publishes it.
keyboard_handler(k) ==
  /\ After(kbd_head) # kbd_tail
  /\ kbd_buf' = [kbd_buf EXCEPT ![kbd_head] = k]
  /\ kbd_head' = After(kbd_head)
  /\ fate' = "queued"
  /\ UNCHANGED <<kbd_tail, pc, c, taken>>

keyboard_handler_full ==
  /\ After(kbd_head) = kbd_tail
  /\ fate' = "dropped"
  /\ UNCHANGED <<kbd_buf, kbd_head, kbd_tail, pc, c, taken>>

\* A break code or a key without a character.
keyboard_handler_ignored == UNCHANGED vars

HasKey == kbd_tail # kbd_head

keyboard_has_key ==
  /\ pc = "poll" /\ HasKey
  /\ pc' = "read"
  /\ UNCHANGED <<kbd_buf, kbd_head, kbd_tail, c, taken, fate>>

\* keyboard_getchar checks again that the ring is not empty and reads the cell.
GetcharRead ==
  /\ pc = "read"
  /\ c' = IF kbd_tail = kbd_head THEN NoKey ELSE kbd_buf[kbd_tail]
  /\ pc' = IF kbd_tail = kbd_head THEN "poll" ELSE "advance"
  /\ UNCHANGED <<kbd_buf, kbd_head, kbd_tail, taken, fate>>

\* Mutant: the ring is emptied.
GetcharAdvance_ToHead ==
  /\ pc = "advance"
  /\ kbd_tail' = kbd_head
  /\ taken' = c
  /\ pc' = "poll"
  /\ UNCHANGED <<kbd_buf, kbd_head, c, fate>>

GetcharAdvance ==
  /\ pc = "advance"
  /\ kbd_tail' = After(kbd_tail)
  /\ taken' = c
  /\ pc' = "poll"
  /\ UNCHANGED <<kbd_buf, kbd_head, c, fate>>
-----------------------------------------------------------------------------
\* Type correctness.
TypeOK ==
  /\ kbd_buf \in [Cells -> Keys \cup {NoKey}]
  /\ kbd_head \in Cells /\ kbd_tail \in Cells
  /\ pc \in {"poll", "read", "advance"}
  /\ c \in Keys \cup {NoKey} /\ taken \in Keys \cup {NoKey}
  /\ fate \in {"none", "queued", "dropped"}

\* How many characters wait, and the i-th of them.
Waiting == (kbd_head - kbd_tail) % KBD_BUF_SIZE
WaitingKey(i) == kbd_buf[(kbd_tail + i - 1) % KBD_BUF_SIZE]

KQ == INSTANCE KeyQueue WITH
        queue <- [i \in 1 .. Waiting |-> WaitingKey(i)],
        Capacity <- KBD_BUF_SIZE - 1

\* The ring shared with the interrupt handler is a bounded queue: nothing lost
\* but when it is full, nothing twice, nothing out of order.
RefinesKeyQueue == KQ!Spec
=============================================================================
