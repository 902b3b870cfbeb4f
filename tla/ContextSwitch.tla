--------------------------- MODULE ContextSwitch ---------------------------
(***************************************************************************)
(* The scheduler with its stacks and registers: the initial frame built by *)
(* sched_create_task, switch_to and task_trampoline (switch.S), and        *)
(* interrupts, which use the stack of whatever runs, below its stack       *)
(* pointer, between any two steps.                                         *)
(*                                                                         *)
(* A stack is an array of words that grows towards index 0; rsp is the     *)
(* index of its top word.  Return addresses are named by where they lead.  *)
(***************************************************************************)
EXTENDS Sched, Sequences

CONSTANTS
  SavedRegs,  \* the callee-saved registers in the order switch_to pushes them
  RegValues,  \* values of a register
  Zero,       \* the value sched_create_task gives every register
  Entry       \* Entry[t]: the entry function of task t

ASSUME ContextAssumption == SavedRegs \in Seq(STRING) /\ Zero \in RegValues

VARIABLES
  stack,     \* stack[t]: the words of t's stack
  saved_rsp, \* tasks[t].rsp
  cpu,       \* rsp, the stack it points into, callee-saved registers, ip, and
             \* the arguments of switch_to
  expected   \* history: the registers task t had when it last ran its own code

ctxVars == <<stack, saved_rsp, cpu, expected>>
vars == <<state, ticks, cur_task, task_count, passed, stack, saved_rsp, cpu, expected>>

N == Len(SavedRegs)
Regs == {SavedRegs[i] : i \in 1 .. N}

\* A stack holds the return address of the call of the entry function and one
\* frame of a task that yields.
Depth == N + 2
Words == 0 .. Depth - 1

Junk == "junk"

Push(words, rsp, value) == [words EXCEPT ![rsp - 1] = value]

Running == cpu.ip \in {"body", "park"}
-----------------------------------------------------------------------------
ZeroRegs == [r \in Regs |-> Zero]

\* The boot task runs on the boot stack, below the frame of its caller.
Init ==
  /\ SchedInit
  /\ stack = [t \in Tasks |-> [w \in Words |-> Junk]]
  /\ saved_rsp = [t \in Tasks |-> 0]
  /\ cpu = [task |-> 0, rsp |-> Depth - 1, regs |-> ZeroRegs, ip |-> "body",
            prev |-> 0, next |-> 0]
  /\ expected = [t \in Tasks |-> ZeroRegs]

\* Between two yields a task's own code changes its registers.
Compute ==
  /\ cpu.ip = "body"
  /\ \E r \in Regs, v \in RegValues :
       /\ cpu' = [cpu EXCEPT !.regs[r] = v]
       /\ expected' = [expected EXCEPT ![cur_task][r] = v]
  /\ UNCHANGED <<state, ticks, cur_task, task_count, passed, stack, saved_rsp>>

\* An interrupt handler runs and returns: it may leave any word below rsp changed.
Interrupt ==
  /\ stack' = [stack EXCEPT ![cpu.task] =
                 [w \in Words |-> IF w < cpu.rsp THEN Junk ELSE @[w]]]
  /\ UNCHANGED <<state, ticks, cur_task, task_count, passed, saved_rsp, cpu, expected>>

\* Mutant: trampoline and entry in the order of the comment in the code.
InitialWord_Swapped(t, w) ==
  CASE w = Depth - 1 -> "trampoline" [] w = Depth - 2 -> Entry[t] [] OTHER -> Zero

\* The words sched_create_task pushes.
InitialWord(t, w) ==
  CASE w = Depth - 1 -> Entry[t] [] w = Depth - 2 -> "trampoline" [] OTHER -> Zero

\* sched_create_task: entry and trampoline on top, zeros for the registers.
CreateTask ==
  /\ cpu.ip = "body"
  /\ sched_create_task
  /\ stack' = [stack EXCEPT ![task_count] =
                 [w \in Words |-> InitialWord(task_count, w)]]
  /\ saved_rsp' = [saved_rsp EXCEPT ![task_count] = Depth - 2 - N]
  /\ expected' = [expected EXCEPT ![task_count] = ZeroRegs]
  /\ UNCHANGED cpu

CreateTaskFails ==
  /\ cpu.ip = "body"
  /\ sched_create_fails
  /\ UNCHANGED ctxVars

\* sched_yield updates the table and calls switch_to, whose return address
\* leads back to where the task yielded.
YieldSwitches ==
  /\ Running
  /\ sched_yield
  /\ stack' = [stack EXCEPT ![cpu.task] = Push(@, cpu.rsp, cpu.ip)]
  /\ cpu' = [cpu EXCEPT !.rsp = @ - 1, !.ip = "save", !.prev = cur_task, !.next = NextTask]
  /\ UNCHANGED <<saved_rsp, expected>>

YieldReturns ==
  /\ Running
  /\ sched_yield_alone
  /\ UNCHANGED ctxVars

SavedRsp == cpu.rsp - N

\* switch_to: push the registers, store rsp in prev.
switch_to_save ==
  /\ cpu.ip = "save"
  /\ stack' = [stack EXCEPT ![cpu.task] =
                 [w \in Words |-> IF w \in cpu.rsp - N .. cpu.rsp - 1
                                  THEN cpu.regs[SavedRegs[cpu.rsp - w]] ELSE @[w]]]
  /\ saved_rsp' = [saved_rsp EXCEPT ![cpu.prev] = SavedRsp]
  /\ cpu' = [cpu EXCEPT !.rsp = @ - N, !.ip = "load"]
  /\ UNCHANGED <<state, ticks, cur_task, task_count, passed, expected>>

\* switch_to: take the stack of next.
switch_to_load ==
  /\ cpu.ip = "load"
  /\ cpu' = [cpu EXCEPT !.task = cpu.next, !.rsp = saved_rsp[cpu.next], !.ip = "restore"]
  /\ UNCHANGED <<state, ticks, cur_task, task_count, passed, stack, saved_rsp, expected>>

\* Mutants: popped in the order of the pushes, or from one word above.
PopIndex_SameOrder(r) == (CHOOSE i \in 1 .. N : SavedRegs[i] = r) - 1

PopIndex_OneAbove(r) == N + 1 - (CHOOSE i \in 1 .. N : SavedRegs[i] = r)

PopIndex(r) == N - (CHOOSE i \in 1 .. N : SavedRegs[i] = r)

\* switch_to: pop the registers in reverse order, return to the address below them.
switch_to_restore ==
  /\ cpu.ip = "restore"
  /\ LET word(k) == stack[cpu.task][cpu.rsp + k] IN
     cpu' = [cpu EXCEPT
               !.regs = [r \in Regs |-> word(PopIndex(r))],
               !.rsp = @ + N + 1,
               !.ip = word(N)]
  /\ UNCHANGED <<state, ticks, cur_task, task_count, passed, stack, saved_rsp, expected>>

\* task_trampoline: pop the entry function, call it; its return address parks.
task_trampoline ==
  /\ cpu.ip = "trampoline"
  /\ stack[cpu.task][cpu.rsp] = Entry[cur_task]
  /\ stack' = [stack EXCEPT ![cpu.task] = Push(@, cpu.rsp + 1, "park")]
  /\ cpu' = [cpu EXCEPT !.ip = "body"]
  /\ UNCHANGED <<state, ticks, cur_task, task_count, passed, saved_rsp, expected>>

\* The entry function returns into the loop that yields for ever.
EntryReturns ==
  /\ cpu.ip = "body" /\ cur_task # 0
  /\ cpu' = [cpu EXCEPT !.ip = stack[cpu.task][cpu.rsp], !.rsp = @ + 1]
  /\ UNCHANGED <<state, ticks, cur_task, task_count, passed, stack, saved_rsp, expected>>

Next ==
  \/ Compute \/ Interrupt
  \/ CreateTask \/ CreateTaskFails
  \/ YieldSwitches \/ YieldReturns
  \/ switch_to_save \/ switch_to_load \/ switch_to_restore
  \/ task_trampoline \/ EntryReturns

Fairness ==
  /\ WF_vars(YieldSwitches)
  /\ WF_vars(switch_to_save) /\ WF_vars(switch_to_load) /\ WF_vars(switch_to_restore)
  /\ WF_vars(task_trampoline)

Spec == Init /\ [][Next]_vars /\ Fairness
-----------------------------------------------------------------------------
\* Type correctness of the machine state.
TypeOK ==
  /\ SchedTypeOK
  /\ cpu.task \in Tasks
  /\ cpu.rsp \in 0 .. Depth
  /\ \A r \in Regs : cpu.regs[r] \in RegValues
  /\ saved_rsp \in [Tasks -> 0 .. Depth]

\* When a task's own code runs, it runs on its own stack, as the task that
\* sched_current names, with the callee-saved registers it had when it yielded
\* (zeros at first): no interrupt and no other task has changed them.
RegistersPreserved ==
  TypeOK /\ (cpu.ip = "body" => cpu.task = cur_task /\ cpu.regs = expected[cur_task])

\* The switch never gets stuck half way: a READY task's own code or its parking
\* loop runs again.
SwitchCompletes ==
  \A t \in Tasks : (state[t] = "READY") ~> (cur_task = t /\ cpu.task = t /\ Running)
=============================================================================
