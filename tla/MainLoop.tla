------------------------------ MODULE MainLoop ------------------------------
(***************************************************************************)
(* The idle loop of kernel_main (kernel/main.c) with what interrupts it:   *)
(* the timer (arch/x86_shared/pit.c), whose handler samples the CPU load   *)
(* (core/sysmon.c), the keyboard, and the receiver of the serial port,     *)
(* which raises no interrupt and is polled (arch/x86_shared/serial.c).     *)
(* The loop runs with interrupts enabled: a handler runs to its end        *)
(* between any two of its steps.  The ring of the keyboard is the one of   *)
(* module Keyboard, whose steps are steps here.                            *)
(*                                                                         *)
(* Only differences of tick counts are used, so ticks are counted from     *)
(* last_refresh and from the moment now was read, up to Refresh.           *)
(***************************************************************************)
EXTENDS Integers

CONSTANTS
  Refresh,    \* ticks between two updates of the screen (200)
  Window,     \* SYSMON_WINDOW (1000)
  KBD_BUF_SIZE, Keys, NoKey,    \* of module Keyboard
  FifoSize    \* bytes the receiver of the UART holds (16)

ASSUME MainLoopAssumption == {Refresh, Window, FifoSize} \subseteq Nat \ {0}

VARIABLES
  pc,
  kbd_buf, kbd_head, kbd_tail, c, taken, fate,    \* of module Keyboard
  fifo,          \* bytes in the receiver
  since,         \* pit_ticks - last_refresh
  elapsed,       \* now - last_refresh
  lag,           \* pit_ticks - now
  current_idle, window_idle, window_count, prev_window_idle, prev_window_total

loadVars == <<current_idle, window_idle, window_count, prev_window_idle, prev_window_total>>
timeVars == <<since, elapsed, lag>>
keyVars == <<kbd_buf, kbd_head, kbd_tail, c, taken, fate>>
vars == <<pc, keyVars, fifo, since, elapsed, lag,
          current_idle, window_idle, window_count, prev_window_idle, prev_window_total>>

Places == {"poll", "read", "advance", "key", "serial", "byte", "now", "idle", "check", "update", "hlt", "halted"}

\* Where the loop does work for its user.
Working == pc \in {"key", "byte", "update"}

\* Where the loop is in keyboard_has_key and keyboard_getchar.
KeyboardPc == IF pc \in {"read", "advance"} THEN pc ELSE "poll"

K == INSTANCE Keyboard WITH pc <- KeyboardPc

ASSUME MainLoopKeyboardAssumption == K!KeyboardAssumption

OneMore(t) == IF t < Refresh THEN t + 1 ELSE t
-----------------------------------------------------------------------------
\* The window has been running since sysmon_init, with the loop not yet idle.
Init ==
  /\ pc = "poll" /\ K!Init
  /\ fifo = 0
  /\ since = 0 /\ elapsed = 0 /\ lag = 0
  /\ current_idle = FALSE /\ window_idle = 0
  /\ window_count \in 0 .. Window - 1
  /\ prev_window_idle = 0 /\ prev_window_total = Window

\* Mutant: the window is latched one tick late.
WindowFull_Late == window_count >= Window

WindowFull == window_count + 1 >= Window

\* sysmon_tick
sysmon_tick ==
  LET idle == IF current_idle THEN window_idle + 1 ELSE window_idle
  IN  /\ current_idle' = FALSE
      /\ window_count' = IF WindowFull THEN 0 ELSE window_count + 1
      /\ window_idle' = IF WindowFull THEN 0 ELSE idle
      /\ prev_window_idle' = IF WindowFull THEN idle ELSE prev_window_idle
      /\ prev_window_total' = IF WindowFull THEN window_count + 1 ELSE prev_window_total

\* Mutant: the loop goes back to its hlt.
Wake_Never == UNCHANGED pc

\* A handler that returns to hlt continues after it.
Wake == pc' = IF pc = "halted" THEN "poll" ELSE pc

pit_irq_handler ==
  /\ since' = OneMore(since)
  /\ lag' = OneMore(lag)
  /\ sysmon_tick
  /\ Wake
  /\ UNCHANGED <<keyVars, fifo, elapsed>>

\* The handler of IRQ 1.
keyboard_irq ==
  /\ Wake
  /\ \/ \E k \in Keys : K!keyboard_handler(k)
     \/ K!keyboard_handler_full
     \/ K!keyboard_handler_ignored
  /\ UNCHANGED <<fifo, timeVars, loadVars>>

\* A byte on the line: a full receiver overruns.
SerialArrives ==
  /\ fifo' = IF fifo < FifoSize THEN fifo + 1 ELSE fifo
  /\ UNCHANGED <<pc, keyVars, timeVars, loadVars>>

Goto(from, to) == pc = from /\ pc' = to

\* The loop goes on in keyboard_getchar, which finds a character, since nobody
\* else takes any.
PollKeys ==
  /\ \/ Goto("poll", "read") /\ K!keyboard_has_key
     \/ Goto("poll", "serial") /\ ~ K!HasKey /\ UNCHANGED keyVars
  /\ UNCHANGED <<fifo, timeVars, loadVars>>

ReadKey ==
  /\ Goto("read", "advance") /\ K!GetcharRead
  /\ UNCHANGED <<fifo, timeVars, loadVars>>

AdvanceTail ==
  /\ Goto("advance", "key") /\ K!GetcharAdvance
  /\ UNCHANGED <<fifo, timeVars, loadVars>>

HandleKey == Goto("key", "poll") /\ UNCHANGED <<keyVars, fifo, timeVars, loadVars>>

\* Mutant: the byte is read and not handled.
PollSerial_Dropped ==
  /\ Goto("serial", "now")
  /\ fifo' = IF fifo > 0 THEN fifo - 1 ELSE fifo
  /\ UNCHANGED <<keyVars, timeVars, loadVars>>

PollSerial ==
  /\ Goto("serial", IF fifo > 0 THEN "byte" ELSE "now")
  /\ fifo' = IF fifo > 0 THEN fifo - 1 ELSE fifo
  /\ UNCHANGED <<keyVars, timeVars, loadVars>>

HandleByte == Goto("byte", "now") /\ UNCHANGED <<keyVars, fifo, timeVars, loadVars>>

ReadNow ==
  /\ Goto("now", "idle")
  /\ elapsed' = since /\ lag' = 0
  /\ UNCHANGED <<keyVars, fifo, since, loadVars>>

\* Mutant: the flag is not set.
sysmon_set_idle_Dropped == Goto("idle", "check") /\ UNCHANGED <<keyVars, fifo, timeVars, loadVars>>

sysmon_set_idle ==
  /\ Goto("idle", "check")
  /\ current_idle' = TRUE
  /\ UNCHANGED <<keyVars, fifo, timeVars, window_idle, window_count, prev_window_idle,
                 prev_window_total>>

CheckRefresh ==
  /\ Goto("check", IF elapsed >= Refresh THEN "update" ELSE "hlt")
  /\ UNCHANGED <<keyVars, fifo, timeVars, loadVars>>

\* menu_update returns and last_refresh becomes now.
MenuUpdate ==
  /\ Goto("update", "hlt")
  /\ since' = lag
  /\ UNCHANGED <<keyVars, fifo, elapsed, lag, loadVars>>

Hlt == Goto("hlt", "halted") /\ UNCHANGED <<keyVars, fifo, timeVars, loadVars>>

Loop == \/ PollKeys \/ ReadKey \/ AdvanceTail \/ HandleKey \/ PollSerial \/ HandleByte \/ ReadNow
        \/ sysmon_set_idle \/ CheckRefresh \/ MenuUpdate \/ Hlt

Next == pit_irq_handler \/ keyboard_irq \/ SerialArrives \/ Loop

\* The CPU executes the loop, and the timer never stops; nobody has to type.
Spec == Init /\ [][Next]_vars /\ WF_vars(Loop) /\ WF_vars(pit_irq_handler)
-----------------------------------------------------------------------------
\* Type correctness.
TypeOK ==
  /\ pc \in Places
  /\ K!TypeOK
  /\ fifo \in 0 .. FifoSize
  /\ since \in 0 .. Refresh /\ elapsed \in 0 .. Refresh /\ lag \in 0 .. Refresh
  /\ current_idle \in BOOLEAN
  /\ window_count \in 0 .. Window - 1
  /\ {window_idle, prev_window_idle} \subseteq 0 .. Window

\* When the CPU sleeps, the tick that ends the sleep will be counted as idle,
\* unless a tick has come between the reading of now and the hlt.
SleepCountsAsIdle == pc = "halted" => current_idle \/ lag > 0

\* The ring of the keyboard driver, between its handler and this loop, keeps what
\* KeyQueue promises.
RefinesKeyQueue == K!RefinesKeyQueue

\* A key that the handler publishes at any point of the loop, also between the last
\* look at the ring and the hlt, is handled, after all that was published before it:
\* no wake-up is lost and no key is left behind.
KeysAreHandled ==
  \A h \in K!Cells :
     (kbd_head = h /\ kbd_tail # h) ~> (kbd_tail = h /\ pc = "key")

\* The loop that empties the keyboard ring, which a user could keep busy.
Draining == pc \in {"poll", "read", "advance", "key"}

\* Unless keys arrive without end, a byte from the serial port is handled, and the
\* screen is updated again and again.
SerialAndScreenAreServed ==
  /\ (fifo > 0) ~> (pc = "byte" \/ []Draining)
  /\ []<>(pc = "update") \/ <>[]Draining
=============================================================================
