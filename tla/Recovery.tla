------------------------------ MODULE Recovery ------------------------------
(***************************************************************************)
(* Interrupts, panics and the shell: what the CPU runs from the boot on    *)
(* (main.c), the interrupt controller (arch/x86_shared/idt.c, isr.S), the  *)
(* panic console and its recovery point (core/panic.c, pagefault.c), and   *)
(* as much of the shell (core/menu.c) as decides when a command faults.    *)
(*                                                                         *)
(* A line of the shell is what execute_command makes of it; one key may    *)
(* turn it into any other line.  The 8042 controller keeps the last byte   *)
(* in its data port.                                                       *)
(*                                                                         *)
(* The stack is counted in words below the frame of kernel_main: rsp is 0  *)
(* in kernel_main as the boot code called it.  Every interrupt pushes what *)
(* it interrupts; saved holds it, by the rsp it was pushed to.  The frames *)
(* of the C handlers, which lie below it, are not counted.                 *)
(***************************************************************************)
EXTENDS Integers, Sequences, FiniteSets

CONSTANTS
  VerifyTicks,  \* ticks that kernel_main waits for after sti (50)
  WindowTicks,  \* ticks of the first window of the monitor (1100)
  RingCap,      \* bound: keys in the ring of the keyboard driver
  MaxNest,      \* bound: contexts on the stack when a non-maskable interrupt comes
  PointWords,   \* words that the call of panic_set_recovery_point and the function
                \* itself have pushed when it reads rsp: the compiler decides
  CommandWords  \* words that the calls from kernel_main into a command have pushed

\* What the CPU (five words), the stub (two) and the common stub (fifteen) push.
ContextWords == 22

\* The return address is one word at least; the frame of the function, which has no
\* locals to keep, is smaller than that of an interrupt.
ASSUME RecoveryAssumption ==
  /\ {VerifyTicks, WindowTicks, RingCap, MaxNest, CommandWords} \subseteq Nat
  /\ PointWords \in 1 .. ContextWords - 1

VARIABLES
  at,        \* where the CPU is
  irq,       \* the line whose handler runs
  iflag,     \* RFLAGS.IF
  rsp,       \* words on the stack below the frame of kernel_main
  saved,     \* interrupted contexts, by the value of rsp after they were pushed
  idt,       \* the interrupt descriptor table is loaded
  interrupt_handlers,  \* the vectors that have a handler
  elapsed,   \* ticks since kernel_main began to wait
  irr, isr,  \* requests and lines in service of the interrupt controller
  kbdata, obf,  \* data port and output-buffer-full bit of the 8042
  lost_edge,    \* the request of the byte in the data port was forgotten
  ring, cmd_buf, active_view,
  recovery_point,  \* valid and rsp
  abandoned  \* history: a restore has left an interrupt handler before its end

stackVars == <<rsp, saved>>
cpuVars == <<at, irq, iflag, stackVars>>
kbdVars == <<kbdata, obf, lost_edge>>
bootVars == <<idt, interrupt_handlers, elapsed>>
pointVars == <<recovery_point, abandoned>>
shellVars == <<ring, cmd_buf, active_view>>
recoveryVars == <<cpuVars, bootVars, irr, isr, kbdVars, shellVars, pointVars>>

Timer == 0
Keyboard == 1
Lines == {Timer, Keyboard}   \* the others are masked by pic_remap
PageFault == 14
Vector(q) == 32 + q

Keys == {"enter", "q", "r", "b", "o"}
Empty == "empty"
Commands == {"panic", "pf", "halt", "dashboard", "other"}

Boot == {"isr_install", "pagefault_init", "pit_init", "keyboard_init", "sti",
         "verify", "window", "menu"}
Code == Boot \cup {"loop", "hlt", "command"}
Places == Code \cup {"handler", "eoi", "iret", "panic", "stopped", "reset"}

\* Nothing but a key in the panic console, or a reset, leads on from here.
Down == at \in {"panic", "stopped", "reset"}
-----------------------------------------------------------------------------
\* kernel_main before isr_install; the boot code has disabled interrupts.
RecoveryInit ==
  /\ at = "isr_install" /\ irq = Timer /\ iflag = FALSE /\ rsp = 0 /\ saved = << >>
  /\ idt = FALSE /\ interrupt_handlers = {} /\ elapsed = 0
  /\ irr = {} /\ isr = {}
  /\ kbdata = "enter" /\ obf = FALSE /\ lost_edge = FALSE
  /\ ring = << >> /\ cmd_buf = Empty /\ active_view = "menu"
  /\ recovery_point = [valid |-> FALSE, rsp |-> 0] /\ abandoned = FALSE

\* The initialisation of the controllers makes the 8259 forget its requests, and a
\* byte that is in the data port by then raises no other.
isr_install ==
  /\ at = "isr_install" /\ at' = "pagefault_init"
  /\ idt' = TRUE /\ interrupt_handlers' = {}
  /\ irr' = {} /\ isr' = {} /\ lost_edge' = obf
  /\ UNCHANGED <<irq, iflag, stackVars, elapsed, kbdata, obf, shellVars, pointVars>>

\* isr_register_handler as one initialisation calls it.
Register(vector, next) ==
  /\ at' = next
  /\ interrupt_handlers' = interrupt_handlers \cup {vector}
  /\ UNCHANGED <<irq, iflag, stackVars, idt, elapsed, irr, isr, kbdVars, shellVars, pointVars>>

pagefault_init == at = "pagefault_init" /\ Register(PageFault, "pit_init")

\* Mutant: the handler goes to the vector of the next line.
pit_init_NextLine == at = "pit_init" /\ Register(Vector(Keyboard), "keyboard_init")

pit_init == at = "pit_init" /\ Register(Vector(Timer), "keyboard_init")

\* keyboard_init leaves the data port as it is.
keyboard_init == at = "keyboard_init" /\ Register(Vector(Keyboard), "sti")

EnableInterrupts ==
  /\ at = "sti" /\ at' = "verify"
  /\ iflag' = TRUE /\ elapsed' = 0
  /\ UNCHANGED <<irq, stackVars, idt, interrupt_handlers, irr, isr, kbdVars, shellVars, pointVars>>

\* The two loops of kernel_main that wait for the timer, one after the other.
HeartbeatVerified ==
  /\ at = "verify" /\ elapsed >= VerifyTicks
  /\ at' = "window" /\ elapsed' = 0
  /\ UNCHANGED <<irq, iflag, stackVars, idt, interrupt_handlers, irr, isr, kbdVars, shellVars, pointVars>>

WindowPassed ==
  /\ at = "window" /\ elapsed >= WindowTicks
  /\ at' = "menu"
  /\ UNCHANGED <<irq, iflag, stackVars, bootVars, irr, isr, kbdVars, shellVars, pointVars>>

\* The rsp recorded is that of the callee, below its own return address.  What it
\* returns, kernel_main ignores.
panic_set_recovery_point ==
  /\ at = "menu"
  /\ recovery_point' = [valid |-> TRUE, rsp |-> rsp + PointWords]
  /\ at' = "loop" /\ UNCHANGED abandoned
  /\ UNCHANGED <<irq, iflag, stackVars, bootVars, irr, isr, kbdVars, shellVars>>

kernel_main ==
  \/ isr_install \/ pagefault_init \/ pit_init \/ keyboard_init \/ EnableInterrupts
  \/ HeartbeatVerified \/ WindowPassed \/ panic_set_recovery_point

\* A tick is longer than the timer's handler.
RaiseTimer ==
  /\ ~(irq = Timer /\ at \in {"handler", "eoi", "iret"})
  /\ irr' = irr \cup {Timer}
  /\ UNCHANGED <<cpuVars, bootVars, isr, kbdVars, shellVars, pointVars>>

KeyPress ==
  /\ ~obf
  /\ \E k \in Keys : kbdata' = k
  /\ obf' = TRUE /\ UNCHANGED lost_edge
  /\ irr' = irr \cup {Keyboard}
  /\ UNCHANGED <<cpuVars, bootVars, isr, shellVars, pointVars>>

\* The CPU aligns the stack to sixteen bytes before it pushes a context.
Aligned(words) == words + (words % 2)

\* What is left of saved above a stack pointer: the words below are overwritten
\* before anything reads them.
Above(words) == [p \in {q \in DOMAIN saved : q <= words} |-> saved[p]]

\* An interrupt gate: the context is pushed and IF cleared.  A hlt is over.
Enter(place) ==
  /\ rsp' = Aligned(rsp) + ContextWords
  /\ saved' = [p \in DOMAIN saved \cup {rsp'} |->
                  IF p # rsp' THEN saved[p]
                  ELSE [at |-> IF at = "hlt" THEN "loop" ELSE at, iflag |-> iflag, rsp |-> rsp]]
  /\ iflag' = FALSE
  /\ at' = place

\* The controller offers the highest request above all lines in service.
Deliver(q) ==
  /\ iflag /\ q \in irr
  /\ \A r \in irr : q <= r
  /\ \A s \in isr : q < s
  /\ Enter("handler")
  /\ irq' = q
  /\ irr' = irr \ {q} /\ isr' = isr \cup {q}
  /\ UNCHANGED <<bootVars, kbdVars, shellVars, pointVars>>

RingAfterKey == IF Len(ring) < RingCap THEN Append(ring, kbdata) ELSE ring

\* Mutant: a full ring leaves the byte in the data port.
ByteTaken_WhenRoom == irq = Keyboard /\ Len(ring) < RingCap

ByteTaken == irq = Keyboard

\* irq_handler calls pit_irq_handler or keyboard_handler, which reads the data
\* port without a look at the status, if they are registered.
RunHandler ==
  /\ at = "handler" /\ at' = "eoi"
  /\ LET registered == Vector(irq) \in interrupt_handlers IN
       /\ obf' = (obf /\ ~(registered /\ ByteTaken))
       /\ ring' = IF registered /\ irq = Keyboard THEN RingAfterKey ELSE ring
       /\ elapsed' = IF registered /\ irq = Timer /\ elapsed < WindowTicks
                     THEN elapsed + 1 ELSE elapsed
  /\ UNCHANGED <<irq, iflag, stackVars, idt, interrupt_handlers, irr, isr, kbdata, lost_edge,
                 cmd_buf, active_view, pointVars>>

\* Mutant: no end of interrupt is sent.
pic_send_eoi_Skipped ==
  /\ at = "eoi" /\ at' = "iret"
  /\ UNCHANGED <<irq, iflag, stackVars, bootVars, irr, isr, kbdVars, shellVars, pointVars>>

\* pic_send_eoi ends the highest line in service.
pic_send_eoi ==
  /\ at = "eoi" /\ at' = "iret"
  /\ isr' = {s \in isr : \E r \in isr : r < s}
  /\ UNCHANGED <<irq, iflag, stackVars, bootVars, irr, kbdVars, shellVars, pointVars>>

iretq ==
  /\ at = "iret"
  /\ LET top == saved[rsp] IN
       /\ at' = top.at /\ iflag' = top.iflag
       /\ rsp' = top.rsp /\ saved' = Above(top.rsp)
  /\ UNCHANGED <<irq, bootVars, irr, isr, kbdVars, shellVars, pointVars>>
-----------------------------------------------------------------------------
\* menu_handle_key: the dashboard takes q, the prompt edits its line or runs it.
TakeKey ==
  /\ at = "loop" /\ ring # << >>
  /\ ring' = Tail(ring)
  /\ \/ /\ active_view = "dashboard"
        /\ active_view' = IF Head(ring) = "q" THEN "menu" ELSE "dashboard"
        /\ UNCHANGED <<at, rsp, cmd_buf>>
     \/ /\ active_view = "menu" /\ Head(ring) # "enter"
        /\ cmd_buf' \in Commands \cup {Empty}
        /\ UNCHANGED <<at, rsp, active_view>>
     \/ /\ active_view = "menu" /\ Head(ring) = "enter"
        /\ at' = "command" /\ rsp' = rsp + CommandWords
        /\ UNCHANGED <<cmd_buf, active_view>>
  /\ UNCHANGED <<irq, iflag, saved, bootVars, irr, isr, kbdVars, pointVars>>

Hlt ==
  /\ at = "loop" /\ ring = << >>
  /\ at' = "hlt"
  /\ UNCHANGED <<irq, iflag, stackVars, bootVars, irr, isr, kbdVars, shellVars, pointVars>>

\* execute_command returned: the line is cleared.
FinishCommand ==
  /\ at = "command" /\ cmd_buf \in {Empty, "dashboard", "other"}
  /\ active_view' = IF cmd_buf = "dashboard" THEN "dashboard" ELSE active_view
  /\ cmd_buf' = Empty
  /\ at' = "loop" /\ rsp' = rsp - CommandWords
  /\ UNCHANGED <<irq, iflag, saved, bootVars, irr, isr, kbdVars, ring, pointVars>>

HaltCommand ==
  /\ at = "command" /\ cmd_buf = "halt"
  /\ at' = "stopped" /\ iflag' = FALSE
  /\ UNCHANGED <<irq, stackVars, bootVars, irr, isr, kbdVars, shellVars, pointVars>>

\* ud2 and the write to 0xdead0000: isr_handler and page_fault_handler both end
\* in aura_panic_interactive.
Fault ==
  /\ at = "command" /\ cmd_buf \in {"panic", "pf"}
  /\ Enter("panic")
  /\ UNCHANGED <<irq, bootVars, irr, isr, kbdVars, shellVars, pointVars>>

\* Vector 2 has no handler of its own: isr_handler panics.  Before there is a table
\* of descriptors the CPU resets itself.
Nmi ==
  /\ at # "reset" /\ Cardinality(DOMAIN saved) < MaxNest
  /\ IF idt THEN Enter("panic") ELSE at' = "reset" /\ UNCHANGED <<iflag, stackVars>>
  /\ UNCHANGED <<irq, bootVars, irr, isr, kbdVars, shellVars, pointVars>>

\* panic_poll_key takes the byte; the request it raised may stay latched.
PollKey(keys) ==
  /\ at = "panic" /\ obf /\ kbdata \in keys
  /\ obf' = FALSE /\ lost_edge' = FALSE
  /\ irr' \in {irr, irr \ {Keyboard}}
  /\ UNCHANGED <<irq, bootVars, isr, kbdata, shellVars, recovery_point>>

\* Mutant: rsp is not restored.
panic_do_restore_KeepsStack ==
  /\ PollKey({"r"})
  /\ recovery_point.valid
  /\ at' = "loop" /\ iflag' = TRUE
  /\ UNCHANGED <<stackVars, abandoned>>

\* Mutant: interrupts are not enabled again.
panic_do_restore_NoSti ==
  /\ PollKey({"r"})
  /\ recovery_point.valid
  /\ at' = "loop" /\ UNCHANGED iflag
  /\ rsp' = recovery_point.rsp /\ saved' = Above(recovery_point.rsp)
  /\ abandoned' = (abandoned \/ isr # {})

\* The jump leads behind the call of panic_set_recovery_point, with the rsp that it
\* recorded inside: the return address stays on the stack.  Of the registers, which
\* are not modelled, only rsp and rbp are loaded; kernel_main gets the others as the
\* fault and the console left them, and no 1 in rax.
panic_do_restore ==
  /\ PollKey({"r"})
  /\ recovery_point.valid
  /\ at' = "loop" /\ iflag' = TRUE
  /\ rsp' = recovery_point.rsp /\ saved' = Above(recovery_point.rsp)
  /\ abandoned' = (abandoned \/ isr # {})

RestoreRefused ==
  /\ PollKey({"r"})
  /\ ~recovery_point.valid
  /\ UNCHANGED <<at, stackVars, iflag, abandoned>>

OtherKey == PollKey(Keys \ {"r", "b", "o"}) /\ UNCHANGED <<at, stackVars, iflag, abandoned>>

panic_do_reboot == PollKey({"b"}) /\ at' = "reset" /\ UNCHANGED <<stackVars, iflag, abandoned>>

\* The machine is off, or cannot be and halts with interrupts disabled.
panic_do_poweroff == PollKey({"o"}) /\ at' \in {"reset", "stopped"} /\ UNCHANGED <<stackVars, iflag, abandoned>>

Handlers == RunHandler \/ pic_send_eoi \/ iretq

Shell == TakeKey \/ Hlt \/ FinishCommand \/ HaltCommand \/ Fault

Console == panic_do_restore \/ RestoreRefused \/ OtherKey \/ panic_do_reboot \/ panic_do_poweroff

RecoveryNext ==
  \/ RaiseTimer \/ KeyPress
  \/ \E q \in Lines : Deliver(q)
  \/ kernel_main \/ Handlers \/ Shell \/ Nmi \/ Console

\* The CPU executes and accepts what the controller offers: kernel_main and a request
\* of the keyboard get on in the gaps that the timer leaves them.  The timer ticks.
RecoverySpec ==
  /\ RecoveryInit /\ [][RecoveryNext]_recoveryVars
  /\ WF_recoveryVars(Handlers) /\ WF_recoveryVars(Shell) /\ SF_recoveryVars(kernel_main)
  /\ WF_recoveryVars(RaiseTimer) /\ WF_recoveryVars(Deliver(Timer))
  /\ SF_recoveryVars(Deliver(Keyboard))
-----------------------------------------------------------------------------
\* Type correctness.
RecoveryTypeOK ==
  /\ at \in Places /\ irq \in Lines /\ {iflag, idt, obf, lost_edge, abandoned} \subseteq BOOLEAN
  /\ interrupt_handlers \subseteq {PageFault} \cup {Vector(q) : q \in Lines}
  /\ elapsed \in 0 .. WindowTicks
  /\ rsp \in Nat /\ recovery_point \in [valid : BOOLEAN, rsp : Nat]
  /\ \A p \in DOMAIN saved : p \in Nat /\ saved[p] \in [at : Places, iflag : BOOLEAN, rsp : Nat]
  /\ irr \subseteq Lines /\ isr \subseteq Lines
  /\ kbdata \in Keys
  /\ Len(ring) <= RingCap /\ \A i \in DOMAIN ring : ring[i] \in Keys
  /\ cmd_buf \in Commands \cup {Empty}
  /\ active_view \in {"menu", "dashboard"}

\* Every hlt of the loop can end: interrupts are enabled and no line is still in
\* service, whatever ran, faulted and was restored before, unless a restore has
\* abandoned an interrupt handler before its end of interrupt.
HltCanEnd == at = "hlt" => iflag /\ (isr = {} \/ abandoned)

\* The loop and its commands run with interrupts enabled, a recovery point behind
\* them and no interrupted context left on the stack.  They stand where kernel_main
\* entered the loop or, once a panic was restored, PointWords lower, because the
\* point has the rsp of panic_set_recovery_point: however many faults, panics in
\* panics and restores there were, the stack goes no deeper.
LoopStackSettles ==
  /\ RecoveryTypeOK
  /\ at \in {"loop", "hlt", "command"} =>
       /\ iflag /\ recovery_point.valid
       /\ DOMAIN saved = {}
       /\ rsp - (IF at = "command" THEN CommandWords ELSE 0) \in {0, PointWords}

\* A request is served, in whatever code it finds the CPU, unless the machine
\* comes down for good or again and again, or a handler was abandoned.
IrqsAreServed == \A q \in Lines : (q \in irr) ~> (q \notin irr \/ abandoned \/ []<>Down)

\* A byte in the data port is read in the end, so that the keyboard can send another:
\* its request is not lost between a full ring, the panic console and the handler.
\* Not so after a restore that abandoned a handler, and if the byte was there before
\* the controller was initialised: keyboard_init does not read it.
BytesAreRead == obf ~> (~obf \/ lost_edge \/ abandoned \/ []<>Down)

\* kernel_main gets past its two waits for the timer and sets the recovery point.
BootCompletes == <>(recovery_point.valid \/ Down)
=============================================================================
