--------------------------- MODULE ControlProofs ----------------------------
(***************************************************************************)
(* Proofs about what the CPU runs: the tasks of the scheduler, and the     *)
(* code of the kernel with its interrupts and panics.                      *)
(*                                                                         *)
(* First the scheduler, for every size of the task table, in the           *)
(* specification that has its stacks, registers and interrupts too.  Round *)
(* robin is fair because of where the running task stands: all that a      *)
(* waiting task was passed by lie, counted round the table from it, no     *)
(* further than the running one, and each choice moves further still.      *)
(*                                                                         *)
(* Then interrupts, panics and the recovery point, for every length of the *)
(* two waits, of the ring, of the stack and of the calls on it.  A restore *)
(* leaves the loop in order because interrupts are enabled only in code    *)
(* that nothing interrupts: a handler lies on one context, that of the     *)
(* code itself, and whatever piles up on the stack later was pushed below  *)
(* a panic.  That leads back only to the stack pointer of the recovery     *)
(* point, which is set once and above every context.                       *)
(***************************************************************************)
EXTENDS ContextSwitch, Recovery, KernelLemmas

\* How far b lies after a, counted round the table.
Dist(a, b) == IF a <= b THEN b - a ELSE b - a + TASK_MAX

PassedOnTheWay ==
  \A t \in Tasks : state[t] = "READY" =>
    \A p \in passed[t] : Dist(t, p) <= Dist(t, cur_task)

SchedInv == SchedTypeOK /\ OneRunningTask /\ PassedOnTheWay

NotOvertakenTwice ==
  \A t \in Tasks :
    state[t] = "READY" /\ cur_task' # cur_task /\ cur_task' # t
      => cur_task' \notin passed[t]

USE SchedAssumption
-----------------------------------------------------------------------------
\* The slot i places after the running task.
LEMMA SlotIsAfter ==
  ASSUME NEW i \in 1 .. TASK_MAX, cur_task \in Tasks
  PROVE  /\ Slot(i) \in Tasks
         /\ Slot(i) = IF cur_task + i < TASK_MAX THEN cur_task + i ELSE cur_task + i - TASK_MAX
<1>1. PICK a \in 0 .. 2 * TASK_MAX - 1 : a = cur_task + i
  BY DEF Tasks
<1>2. Slot(i) = a % TASK_MAX
  BY <1>1 DEF Slot
<1>3. a % TASK_MAX = IF a < TASK_MAX THEN a ELSE a - TASK_MAX
  <2>1. a \in -TASK_MAX .. 2 * TASK_MAX - 1 /\ ~(a < 0)
    OBVIOUS
  <2>2. a % TASK_MAX = IF a < 0 THEN a + TASK_MAX
                       ELSE IF a < TASK_MAX THEN a ELSE a - TASK_MAX
    BY <2>1, ModWrapsOnce
  <2> QED BY <2>1, <2>2
<1>4. Slot(i) \in Tasks
  BY <1>1, <1>2, <1>3 DEF Tasks
<1>5. Slot(i) = IF a < TASK_MAX THEN a ELSE a - TASK_MAX
  BY <1>2, <1>3, Zenon
<1> QED
  BY <1>1, <1>4, <1>5 DEF Tasks

\* sched_yield chooses a READY task, and the choice lies further from every task
\* that goes on waiting than the caller did.
LEMMA YieldGoesOn ==
  ASSUME SchedTypeOK, OneRunningTask, ReadyAt # {}
  PROVE  /\ NextTask \in Tasks /\ state[NextTask] = "READY" /\ NextTask # cur_task
         /\ \A t \in Tasks : state[t] = "READY" /\ t # NextTask =>
              Dist(t, cur_task) < Dist(t, NextTask)
<1> DEFINE i == Min(ReadyAt)
<1>0. cur_task \in Tasks
  BY DEF SchedTypeOK
<1>1. i \in ReadyAt /\ \A j \in ReadyAt : i <= j
  BY MinOfNaturals DEF ReadyAt
<1>2. NextTask = Slot(i)
  BY DEF NextTask
<1> HIDE DEF i
<1>3. i \in 1 .. TASK_MAX /\ state[Slot(i)] = "READY"
  BY <1>1 DEF ReadyAt
<1>4. NextTask \in Tasks /\ state[NextTask] = "READY" /\ NextTask # cur_task
  BY <1>0, <1>2, <1>3, SlotIsAfter DEF OneRunningTask
<1>5. ASSUME NEW t \in Tasks, state[t] = "READY", t # NextTask
      PROVE  Dist(t, cur_task) < Dist(t, NextTask)
  <2> DEFINE j == Dist(cur_task, t)
  <2>1. t # cur_task
    BY <1>5 DEF OneRunningTask
  <2>2. j \in 1 .. TASK_MAX /\ Slot(j) = t
    <3>1. j \in 1 .. TASK_MAX
      BY <1>0, <2>1 DEF Tasks, Dist
    <3> QED BY <1>0, <2>1, <3>1, SlotIsAfter DEF Tasks, Dist
  <2>3. i <= j /\ i # j
    BY <1>1, <1>2, <1>5, <2>2 DEF ReadyAt
  <2>4. NextTask = IF cur_task + i < TASK_MAX THEN cur_task + i ELSE cur_task + i - TASK_MAX
    BY <1>0, <1>2, <1>3, SlotIsAfter
  <2> QED BY <1>0, <1>3, <2>1, <2>3, <2>4 DEF Tasks, Dist
<1> QED
  BY <1>4, <1>5
-----------------------------------------------------------------------------
LEMMA SchedInitInv == SchedInit => SchedInv
<1> SUFFICES ASSUME SchedInit PROVE SchedInv
  OBVIOUS
<1>1. SchedTypeOK
  BY DEF SchedInit, SchedTypeOK, Tasks, States
<1>2. OneRunningTask
  BY DEF SchedInit, OneRunningTask, Tasks
<1>3. PassedOnTheWay
  BY DEF SchedInit, PassedOnTheWay
<1> QED
  BY <1>1, <1>2, <1>3 DEF SchedInv

LEMMA CreateInv == SchedInv /\ sched_create_task => SchedInv'
<1> SUFFICES ASSUME SchedInv, sched_create_task PROVE SchedInv'
  OBVIOUS
<1> USE DEF SchedInv
<1>1. task_count \in Tasks /\ task_count \in Nat
  BY DEF sched_create_task, SchedTypeOK, Tasks
<1>2. SchedTypeOK'
  BY <1>1 DEF sched_create_task, SchedTypeOK, States
<1>3. OneRunningTask'
  <2>1. cur_task # task_count /\ cur_task \in Tasks
    BY <1>1 DEF OneRunningTask, SchedTypeOK
  <2> QED BY <1>1, <2>1 DEF sched_create_task, OneRunningTask, SchedTypeOK, Tasks
<1>4. PassedOnTheWay'
  BY <1>1 DEF sched_create_task, PassedOnTheWay, SchedTypeOK, Dist
<1> QED
  BY <1>2, <1>3, <1>4

LEMMA YieldInv == SchedInv /\ sched_yield => SchedInv' /\ NotOvertakenTwice
<1> SUFFICES ASSUME SchedInv, sched_yield PROVE SchedInv' /\ NotOvertakenTwice
  OBVIOUS
<1> USE DEF SchedInv
<1> DEFINE q == NextTask
<1>1. /\ q \in Tasks /\ state[q] = "READY" /\ q # cur_task
      /\ \A t \in Tasks : state[t] = "READY" /\ t # q => Dist(t, cur_task) < Dist(t, q)
  BY YieldGoesOn DEF sched_yield
<1>2. /\ state' = [t \in Tasks |-> IF t = q THEN "RUNNING"
                                   ELSE IF t = cur_task /\ state[t] = "RUNNING" THEN "READY"
                                   ELSE state[t]]
      /\ ticks' = [ticks EXCEPT ![cur_task] = (@ + 1) % TickMod]
      /\ cur_task' = q
      /\ passed' = [t \in Tasks |-> IF t \in {cur_task, q} THEN {} ELSE passed[t] \cup {q}]
      /\ task_count' = task_count
  BY DEF sched_yield
<1>3. cur_task \in Tasks /\ state[cur_task] = "RUNNING"
  BY DEF SchedTypeOK, OneRunningTask
<1> HIDE DEF q
<1>4. SchedTypeOK'
  <2>1. ticks' \in [Tasks -> 0 .. TickMod - 1]
    <3>1. ticks[cur_task] \in Nat /\ (ticks[cur_task] + 1) % TickMod \in 0 .. TickMod - 1
      BY <1>3 DEF SchedTypeOK
    <3> QED BY <1>2, <3>1 DEF SchedTypeOK
  <2>2. state' \in [Tasks -> States] /\ passed' \in [Tasks -> SUBSET Tasks]
    BY <1>1, <1>2 DEF SchedTypeOK, States
  <2> QED BY <1>1, <1>2, <2>1, <2>2 DEF SchedTypeOK
<1>5. OneRunningTask'
  BY <1>1, <1>2, <1>3 DEF OneRunningTask
<1>6. NotOvertakenTwice
  <2>1. ASSUME NEW t \in Tasks, state[t] = "READY", q # t, q \in passed[t] PROVE FALSE
    <3>1. Dist(t, cur_task) < Dist(t, q) /\ Dist(t, q) <= Dist(t, cur_task)
      BY <1>1, <2>1 DEF PassedOnTheWay
    <3> QED BY <1>1, <1>3, <3>1 DEF Dist, Tasks
  <2> QED BY <1>2, <2>1 DEF NotOvertakenTwice
<1>7. PassedOnTheWay'
  <2>1. ASSUME NEW t \in Tasks, state'[t] = "READY", NEW p \in passed'[t]
        PROVE  Dist(t, p) <= Dist(t, q)
    <3>1. t # q /\ t # cur_task /\ state[t] = "READY" /\ p \in passed[t] \cup {q}
      BY <1>2, <2>1
    <3>2. Dist(t, cur_task) < Dist(t, q)
      BY <1>1, <3>1
    <3>3. CASE p = q
      BY <1>1, <3>3 DEF Dist, Tasks
    <3>4. CASE p \in passed[t]
      <4>1. Dist(t, p) <= Dist(t, cur_task) /\ p \in Tasks
        BY <3>1, <3>4 DEF PassedOnTheWay, SchedTypeOK
      <4> QED BY <1>1, <1>3, <3>2, <4>1 DEF Dist, Tasks
    <3> QED BY <3>1, <3>3, <3>4
  <2> QED BY <1>2, <2>1 DEF PassedOnTheWay, Dist
<1> QED
  BY <1>4, <1>5, <1>6, <1>7

LEMMA SchedStep ==
  SchedInv /\ [SchedNext]_schedVars => SchedInv' /\ [NotOvertakenTwice]_schedVars
<1> SUFFICES ASSUME SchedInv, [SchedNext]_schedVars
             PROVE  SchedInv' /\ [NotOvertakenTwice]_schedVars
  OBVIOUS
<1>1. CASE sched_create_task
  <2>1. NotOvertakenTwice
    BY <1>1 DEF sched_create_task, NotOvertakenTwice
  <2> QED BY <1>1, <2>1, CreateInv
<1>2. CASE sched_yield
  BY <1>2, YieldInv
<1>3. CASE UNCHANGED schedVars
  BY <1>3 DEF schedVars, SchedInv, SchedTypeOK, OneRunningTask, PassedOnTheWay, Dist
<1> QED
  BY <1>1, <1>2, <1>3 DEF SchedNext, sched_create_fails, sched_yield_alone

\* Whatever the machine does, the task table changes only as the scheduler says:
\* stacks, registers and interrupts do not touch it.
LEMMA MachineStep == [Next]_vars => [SchedNext]_schedVars
<1> SUFFICES ASSUME [Next]_vars PROVE [SchedNext]_schedVars
  OBVIOUS
<1>1. CASE CreateTask \/ CreateTaskFails
  BY <1>1 DEF CreateTask, CreateTaskFails, SchedNext
<1>2. CASE YieldSwitches \/ YieldReturns
  BY <1>2 DEF YieldSwitches, YieldReturns, SchedNext
<1>3. CASE Compute \/ Interrupt \/ task_trampoline \/ EntryReturns
  BY <1>3 DEF Compute, Interrupt, task_trampoline, EntryReturns, schedVars
<1>4. CASE switch_to_save \/ switch_to_load \/ switch_to_restore
  BY <1>4 DEF switch_to_save, switch_to_load, switch_to_restore, schedVars
<1>5. CASE UNCHANGED vars
  BY <1>5 DEF vars, schedVars
<1> QED
  BY <1>1, <1>2, <1>3, <1>4, <1>5 DEF Next

LEMMA SchedInvariance == Spec => []SchedInv /\ [][NotOvertakenTwice]_schedVars
<1>1. Init => SchedInv
  BY SchedInitInv DEF Init
<1>2. SchedInv /\ [Next]_vars => SchedInv' /\ [NotOvertakenTwice]_schedVars
  BY SchedStep, MachineStep
<1> QED
  BY <1>1, <1>2, PTL DEF Spec
-----------------------------------------------------------------------------
\* The task table keeps its type: sched_create_task writes no slot past the last,
\* and cur_task names a slot.
THEOREM SchedTypeCorrect == Spec => []SchedTypeOK
<1>1. SchedInv => SchedTypeOK
  BY DEF SchedInv
<1> QED
  BY <1>1, SchedInvariance, PTL

\* In every state one task is RUNNING, the one sched_current names, and the slots
\* that were not handed out are the BLOCKED ones.
THEOREM SchedOneRunning == Spec => []OneRunningTask
<1>1. SchedInv => OneRunningTask
  BY DEF SchedInv
<1> QED
  BY <1>1, SchedInvariance, PTL

\* sched_yield passes a waiting task with each of the others once at most, for
\* every size of the table and whatever tasks are created meanwhile.
THEOREM SchedBoundedOvertaking == Spec => BoundedOvertaking
<1>1. NotOvertakenTwice =>
        \A t \in Tasks :
          state[t] = "READY" /\ cur_task' # cur_task /\ cur_task' # t
            => cur_task' \notin passed[t]
  BY DEF NotOvertakenTwice
<1> QED
  BY <1>1, SchedInvariance, PTL DEF BoundedOvertaking
-----------------------------------------------------------------------------
(***************************************************************************)
(* Stacks and registers.  RegistersPreserved speaks of the running task    *)
(* alone; what makes it inductive is what every other task left on its     *)
(* stack, which no interrupt and no other task reaches.                    *)
(***************************************************************************)
Returns == {"body", "park", "trampoline"}
WordValues == RegValues \cup Returns \cup {Entry[t] : t \in Tasks} \cup {Junk}

\* The index of the return address that switch_to finds for a task suspended in ret.
ReturnAt(ret) == IF ret = "park" THEN Depth - 1 ELSE Depth - 2

\* What lies under the return address of task t: the way into the parking loop, or
\* the entry function for a task that never ran.
Below(t, ret) ==
  /\ ret = "body" /\ t # 0 => stack[t][Depth - 1] = "park"
  /\ ret = "trampoline" => t # 0 /\ stack[t][Depth - 1] = Entry[t]

\* Task t is suspended on a frame of switch_to that restores its registers.
Frame(t) ==
  \E ret \in Returns :
    /\ saved_rsp[t] = ReturnAt(ret) - N
    /\ stack[t][ReturnAt(ret)] = ret
    /\ Below(t, ret)
    /\ \A r \in Regs :
         LET value == stack[t][saved_rsp[t] + PopIndex(r)] IN
         value \in RegValues /\ (ret # "park" => value = expected[t][r])

Switching == cpu.ip \in {"load", "restore"}

Suspended(t) == t < task_count /\ (Switching \/ t # cpu.task)

\* The processor, by the instruction it is at.
OnBody == /\ cpu.task = cur_task /\ cpu.rsp = Depth - 1 /\ cpu.regs = expected[cur_task]
          /\ Below(cur_task, "body")
OnPark == cpu.task = cur_task /\ cpu.rsp = Depth
OnSave == /\ cpu.task = cpu.prev /\ cpu.next = cur_task /\ cpu.task # cur_task
          /\ \E ret \in {"body", "park"} :
               /\ cpu.rsp = ReturnAt(ret) /\ stack[cpu.task][cpu.rsp] = ret
               /\ Below(cpu.task, ret)
               /\ ret = "body" => cpu.regs = expected[cpu.task]
OnLoad == /\ cpu.task = cpu.prev /\ cpu.next = cur_task /\ cpu.rsp = saved_rsp[cpu.task]
OnRestore == cpu.task = cur_task /\ cpu.rsp = saved_rsp[cur_task]
OnTrampoline == /\ cpu.task = cur_task /\ cpu.rsp = Depth - 1
                /\ cpu.regs = expected[cur_task] /\ Below(cur_task, "trampoline")

MachineTypeOK ==
  /\ cpu \in [task : Tasks, rsp : 0 .. Depth, regs : [Regs -> RegValues],
              ip : Returns \cup {"save", "load", "restore"}, prev : Tasks, next : Tasks]
  /\ stack \in [Tasks -> [Words -> WordValues]]
  /\ saved_rsp \in [Tasks -> 0 .. Depth]
  /\ expected \in [Tasks -> [Regs -> RegValues]]

MachineInv ==
  /\ MachineTypeOK
  /\ cpu.task < task_count
  /\ \A t \in Tasks : Suspended(t) => Frame(t)
  /\ cpu.ip = "body" => OnBody
  /\ cpu.ip = "park" => OnPark
  /\ cpu.ip = "save" => OnSave
  /\ cpu.ip = "load" => OnLoad
  /\ cpu.ip = "restore" => OnRestore
  /\ cpu.ip = "trampoline" => OnTrampoline

\* The place of a register in a frame: the one below the place of its push.
LEMMA PopsWhatWasPushed ==
  /\ N \in Nat
  /\ \A r \in Regs : PopIndex(r) \in 0 .. N - 1 /\ SavedRegs[N - PopIndex(r)] = r
<1>1. N \in Nat
  BY ContextAssumption DEF N
<1>2. ASSUME NEW r \in Regs PROVE PopIndex(r) \in 0 .. N - 1 /\ SavedRegs[N - PopIndex(r)] = r
  <2> DEFINE i == CHOOSE j \in 1 .. N : SavedRegs[j] = r
  <2>1. i \in 1 .. N /\ SavedRegs[i] = r
    BY DEF Regs
  <2>2. PopIndex(r) = N - i
    BY DEF PopIndex
  <2> HIDE DEF i
  <2> QED BY <1>1, <2>1, <2>2
<1> QED
  BY <1>1, <1>2

\* Frames depend on the stack above the saved rsp only.
LEMMA FrameStays ==
  ASSUME NEW t \in Tasks, Frame(t), saved_rsp'[t] = saved_rsp[t], expected'[t] = expected[t],
         \A w \in Words : w >= saved_rsp[t] => stack'[t][w] = stack[t][w]
  PROVE  Frame(t)'
<1>1. PICK ret \in Returns :
    /\ saved_rsp[t] = ReturnAt(ret) - N
    /\ stack[t][ReturnAt(ret)] = ret
    /\ Below(t, ret)
    /\ \A r \in Regs :
         LET value == stack[t][saved_rsp[t] + PopIndex(r)] IN
         value \in RegValues /\ (ret # "park" => value = expected[t][r])
  BY DEF Frame
<1>2. /\ N \in Nat
      /\ \A r \in Regs : PopIndex(r) \in 0 .. N - 1
  BY PopsWhatWasPushed
<1>3. ReturnAt(ret) \in {Depth - 2, Depth - 1} /\ ReturnAt(ret)' = ReturnAt(ret)
  BY DEF ReturnAt, Returns
<1>4. /\ ReturnAt(ret) \in Words /\ Depth - 1 \in Words
      /\ ReturnAt(ret) >= saved_rsp[t] /\ Depth - 1 >= saved_rsp[t]
  BY <1>1, <1>2, <1>3 DEF Words, Depth
<1>5. \A r \in Regs : /\ saved_rsp[t] + PopIndex(r) \in Words
                      /\ saved_rsp[t] + PopIndex(r) >= saved_rsp[t]
  BY <1>1, <1>2, <1>3 DEF Words, Depth
<1>6. stack'[t][ReturnAt(ret)] = ret /\ Below(t, ret)'
  BY <1>1, <1>4 DEF Below
<1>7. \A r \in Regs : stack'[t][saved_rsp'[t] + PopIndex(r)] = stack[t][saved_rsp[t] + PopIndex(r)]
  BY <1>5
<1> QED
  BY <1>1, <1>3, <1>6, <1>7 DEF Frame

LEMMA MachineInitInv == Init => MachineInv
<1> SUFFICES ASSUME Init PROVE MachineInv
  OBVIOUS
<1> USE PopsWhatWasPushed, ContextAssumption
<1>1. cpu.task = 0 /\ cur_task = 0 /\ task_count = 1 /\ 0 \in Tasks
  BY DEF Init, SchedInit, Tasks
<1>2. MachineTypeOK
  BY <1>1 DEF Init, MachineTypeOK, ZeroRegs, Depth, Words, WordValues, Returns
<1>3. \A t \in Tasks : ~ Suspended(t)
  BY <1>1 DEF Suspended, Tasks, Init, Switching
<1>4. OnBody /\ cpu.ip = "body"
  BY <1>1 DEF Init, OnBody, Below
<1> QED
  BY <1>1, <1>2, <1>3, <1>4 DEF MachineInv

LEMMA ComputeInv == MachineInv /\ SchedInv /\ Compute => MachineInv'
<1> SUFFICES ASSUME MachineInv, SchedInv, Compute PROVE MachineInv'
  OBVIOUS
<1>1. PICK r \in Regs, v \in RegValues :
        /\ cpu' = [cpu EXCEPT !.regs[r] = v]
        /\ expected' = [expected EXCEPT ![cur_task][r] = v]
  BY DEF Compute
<1>2. /\ cpu.ip = "body" /\ UNCHANGED <<state, cur_task, task_count, stack, saved_rsp>>
      /\ cur_task \in Tasks
  BY DEF Compute, SchedInv, SchedTypeOK
<1>3. /\ cpu'.ip = "body" /\ cpu'.task = cpu.task /\ cpu'.rsp = cpu.rsp
      /\ cpu'.regs = [cpu.regs EXCEPT ![r] = v]
  BY <1>1, <1>2 DEF MachineInv, MachineTypeOK
<1>4. MachineTypeOK'
  BY <1>1, <1>2 DEF MachineInv, MachineTypeOK
<1>5. ASSUME NEW t \in Tasks, Suspended(t)' PROVE Frame(t)'
  <2>1. Suspended(t) /\ t # cur_task
    BY <1>2, <1>3, <1>5 DEF Suspended, Switching, MachineInv, OnBody
  <2>2. expected'[t] = expected[t]
    BY <1>1, <1>2, <2>1 DEF MachineInv, MachineTypeOK
  <2> QED BY <1>2, <2>1, <2>2, FrameStays DEF MachineInv
<1>6. OnBody'
  BY <1>1, <1>2, <1>3 DEF MachineInv, MachineTypeOK, OnBody, Below
<1> QED
  BY <1>2, <1>3, <1>4, <1>5, <1>6 DEF MachineInv

LEMMA InterruptInv == MachineInv /\ SchedInv /\ Interrupt => MachineInv'
<1> SUFFICES ASSUME MachineInv, SchedInv, Interrupt PROVE MachineInv'
  OBVIOUS
<1> USE PopsWhatWasPushed
<1>1. /\ stack' = [stack EXCEPT ![cpu.task] =
                     [w \in Words |-> IF w < cpu.rsp THEN Junk ELSE @[w]]]
      /\ UNCHANGED <<state, cur_task, task_count, saved_rsp, cpu, expected>>
      /\ cpu.task \in Tasks /\ cur_task \in Tasks
  BY DEF Interrupt, SchedInv, SchedTypeOK, MachineInv, MachineTypeOK
<1>2. MachineTypeOK'
  BY <1>1 DEF MachineInv, MachineTypeOK, WordValues
<1>3. \A t \in Tasks, w \in Words : t # cpu.task \/ w >= cpu.rsp => stack'[t][w] = stack[t][w]
  <2>1. stack \in [Tasks -> [Words -> WordValues]] /\ Words \subseteq Int /\ cpu.rsp \in Int
    BY DEF MachineInv, MachineTypeOK, Words
  <2> QED BY <1>1, <2>1
<1>4. ASSUME NEW t \in Tasks, Suspended(t)' PROVE Frame(t)'
  <2>1. Suspended(t)
    BY <1>1, <1>4 DEF Suspended, Switching
  <2>2. CASE t # cpu.task
    BY <1>1, <1>3, <2>1, <2>2, FrameStays DEF MachineInv
  <2>3. CASE t = cpu.task
    <3>1. cpu.rsp = saved_rsp[t]
      BY <2>1, <2>3 DEF Suspended, Switching, MachineInv, OnLoad, OnRestore
    <3> QED BY <1>1, <1>3, <2>1, <3>1, FrameStays DEF MachineInv
  <2> QED BY <2>2, <2>3
<1>5. Depth \in Nat /\ Depth - 1 \in Words /\ Depth - 2 \in Words /\ cpu.rsp \in 0 .. Depth
  BY DEF Depth, Words, MachineInv, MachineTypeOK
<1>6. cpu.task = cur_task /\ cpu.rsp = Depth - 1
        => stack'[cur_task][Depth - 1] = stack[cur_task][Depth - 1]
  BY <1>1, <1>3, <1>5
<1>7. cpu.ip = "body" => OnBody'
  BY <1>1, <1>6 DEF MachineInv, OnBody, Below
<1>8. cpu.ip = "trampoline" => OnTrampoline'
  BY <1>1, <1>6 DEF MachineInv, OnTrampoline, Below
<1>9. cpu.ip = "save" => OnSave'
  <2> SUFFICES ASSUME cpu.ip = "save" PROVE OnSave'
    OBVIOUS
  <2>1. PICK ret \in {"body", "park"} :
               /\ cpu.rsp = ReturnAt(ret) /\ stack[cpu.task][cpu.rsp] = ret
               /\ Below(cpu.task, ret)
               /\ ret = "body" => cpu.regs = expected[cpu.task]
    BY DEF MachineInv, OnSave
  <2>2. stack'[cpu.task][cpu.rsp] = ret /\ stack'[cpu.task][Depth - 1] = stack[cpu.task][Depth - 1]
    BY <1>1, <1>3, <1>5, <2>1 DEF ReturnAt
  <2> QED BY <1>1, <2>1, <2>2 DEF MachineInv, OnSave, Below, ReturnAt
<1> QED
  BY <1>1, <1>2, <1>4, <1>7, <1>8, <1>9 DEF MachineInv, OnPark, OnLoad, OnRestore

\* The words of a new task are a frame that leads to the trampoline with zeros.
LEMMA NewTaskFrame ==
  ASSUME NEW t
  PROVE  /\ InitialWord(t, Depth - 1) = Entry[t]
         /\ InitialWord(t, Depth - 2) = "trampoline"
         /\ \A w \in 0 .. Depth - 3 : InitialWord(t, w) = Zero
<1>1. Depth \in Nat
  BY PopsWhatWasPushed DEF Depth
<1>2. Depth - 1 # Depth - 2 /\ \A w \in 0 .. Depth - 3 : w # Depth - 1 /\ w # Depth - 2
  BY <1>1
<1> QED
  BY <1>2, Zenon DEF InitialWord

LEMMA CreateTaskInv == MachineInv /\ SchedInv /\ CreateTask => MachineInv'
<1> SUFFICES ASSUME MachineInv, SchedInv, CreateTask PROVE MachineInv'
  OBVIOUS
<1> USE PopsWhatWasPushed
<1>0. PICK n \in Tasks : n = task_count
  BY DEF CreateTask, sched_create_task, SchedInv, SchedTypeOK, Tasks
<1>1. /\ stack' = [stack EXCEPT ![n] = [w \in Words |-> InitialWord(n, w)]]
      /\ saved_rsp' = [saved_rsp EXCEPT ![n] = Depth - 2 - N]
      /\ expected' = [expected EXCEPT ![n] = ZeroRegs]
      /\ cpu' = cpu /\ cur_task' = cur_task /\ task_count' = n + 1
      /\ task_count = n /\ n # 0 /\ n \in Nat /\ cur_task \in Tasks
      /\ cpu.ip = "body" /\ cpu.task = cur_task /\ cur_task # n
  BY <1>0 DEF CreateTask, sched_create_task, SchedInv, SchedTypeOK, Tasks, MachineInv, OnBody
<1>2. Depth = N + 2 /\ Words = 0 .. Depth - 1
  BY DEF Depth, Words
<1>3. \A w \in Words : InitialWord(n, w) \in WordValues
  <2> SUFFICES ASSUME NEW w \in Words PROVE InitialWord(n, w) \in WordValues
    OBVIOUS
  <2>1. w = Depth - 1 \/ w = Depth - 2 \/ w \in 0 .. Depth - 3
    BY <1>2
  <2> QED BY <1>1, <2>1, NewTaskFrame, ContextAssumption DEF WordValues, Returns
<1>4. MachineTypeOK'
  <2>1. stack' \in [Tasks -> [Words -> WordValues]]
    BY <1>1, <1>3 DEF MachineInv, MachineTypeOK
  <2>2. saved_rsp' \in [Tasks -> 0 .. Depth]
    BY <1>1, <1>2 DEF MachineInv, MachineTypeOK
  <2>3. expected' \in [Tasks -> [Regs -> RegValues]]
    BY <1>1, ContextAssumption DEF MachineInv, MachineTypeOK, ZeroRegs
  <2> QED BY <1>1, <2>1, <2>2, <2>3 DEF MachineInv, MachineTypeOK
<1>5. \A t \in Tasks : t # n => /\ stack'[t] = stack[t] /\ saved_rsp'[t] = saved_rsp[t]
                                /\ expected'[t] = expected[t]
  BY <1>1 DEF MachineInv, MachineTypeOK
<1>6. Frame(n)'
  <2>1. /\ stack'[n] = [w \in Words |-> InitialWord(n, w)]
        /\ saved_rsp'[n] = 0 /\ expected'[n] = ZeroRegs
    BY <1>1, <1>2 DEF MachineInv, MachineTypeOK
  <2>2. stack'[n][Depth - 2] = "trampoline" /\ stack'[n][Depth - 1] = Entry[n]
    BY <1>2, <2>1, NewTaskFrame
  <2>3. ASSUME NEW r \in Regs PROVE stack'[n][saved_rsp'[n] + PopIndex(r)] = Zero
    <3>1. PopIndex(r) \in 0 .. Depth - 3 /\ PopIndex(r) \in Words
      BY <1>2
    <3>2. saved_rsp'[n] + PopIndex(r) = PopIndex(r)
      BY <2>1, <3>1
    <3>3. InitialWord(n, PopIndex(r)) = Zero
      BY <3>1, NewTaskFrame
    <3> QED BY <2>1, <3>1, <3>2, <3>3
  <2>4. /\ saved_rsp'[n] = ReturnAt("trampoline") - N
        /\ stack'[n][ReturnAt("trampoline")] = "trampoline"
        /\ Below(n, "trampoline")'
    BY <1>1, <1>2, <2>1, <2>2 DEF ReturnAt, Below
  <2> QED
    BY <2>1, <2>3, <2>4, ContextAssumption, ZenonT(60)
       DEF Frame, Returns, ZeroRegs, Below, ReturnAt
<1>7. ASSUME NEW t \in Tasks, Suspended(t)' PROVE Frame(t)'
  <2>1. CASE t # n
    <3>1. Suspended(t)
      BY <1>1, <1>7, <2>1 DEF Suspended, Switching, Tasks
    <3> QED BY <1>5, <2>1, <3>1, FrameStays DEF MachineInv
  <2> QED BY <1>6, <2>1
<1>8. OnBody'
  BY <1>1, <1>5 DEF MachineInv, OnBody, Below
<1>9. cpu'.task < task_count'
  BY <1>1 DEF MachineInv, Tasks
<1> QED
  BY <1>1, <1>4, <1>7, <1>8, <1>9 DEF MachineInv

LEMMA YieldSwitchesInv == MachineInv /\ SchedInv /\ YieldSwitches => MachineInv'
<1> SUFFICES ASSUME MachineInv, SchedInv, YieldSwitches PROVE MachineInv'
  OBVIOUS
<1> USE PopsWhatWasPushed
<1>0. /\ NextTask \in Tasks /\ NextTask # cur_task /\ state[NextTask] = "READY"
      /\ cur_task \in Tasks
  BY YieldGoesOn DEF SchedInv, SchedTypeOK, YieldSwitches, sched_yield
<1>1. PICK p \in Tasks, q \in Tasks :
        p = cur_task /\ q = NextTask /\ p # q /\ q < task_count /\ p < task_count
  <2>1. state[cur_task] = "RUNNING" /\ state[NextTask] # "BLOCKED" /\ state[cur_task] # "BLOCKED"
    BY <1>0 DEF SchedInv, OneRunningTask
  <2>2. NextTask < task_count /\ cur_task < task_count
    <3> DEFINE q == NextTask
    <3> HIDE DEF q
    <3>1. q \in Tasks /\ state[q] # "BLOCKED"
      BY <1>0, <2>1 DEF q
    <3>2. q < task_count /\ cur_task < task_count
      BY <1>0, <2>1, <3>1 DEF SchedInv, SchedTypeOK, OneRunningTask, Tasks
    <3> QED BY <3>2 DEF q
  <2> QED BY <1>0, <2>2
<1>2. PICK ret \in {"body", "park"} : ret = cpu.ip
  BY DEF YieldSwitches, Running
<1>3. /\ cpu.task = p /\ cpu.rsp = ReturnAt(ret) + 1 /\ Below(p, ret)
      /\ ret = "body" => cpu.regs = expected[p]
  BY <1>1, <1>2 DEF MachineInv, OnBody, OnPark, ReturnAt, Below, Depth
<1>4. ReturnAt(ret) \in Words /\ ReturnAt(ret) \in 0 .. Depth /\ cpu.rsp - 1 = ReturnAt(ret)
  BY <1>3 DEF ReturnAt, Words, Depth
<1>5. /\ stack' = [stack EXCEPT ![p] = [@ EXCEPT ![ReturnAt(ret)] = ret]]
      /\ cpu' = [cpu EXCEPT !.rsp = @ - 1, !.ip = "save", !.prev = p, !.next = q]
      /\ saved_rsp' = saved_rsp /\ expected' = expected
      /\ task_count' = task_count /\ cur_task' = q
  BY <1>1, <1>2, <1>3, <1>4 DEF YieldSwitches, sched_yield, Push
<1>6. /\ cpu'.ip = "save" /\ cpu'.task = p /\ cpu'.rsp = ReturnAt(ret) /\ cpu'.prev = p
      /\ cpu'.next = q /\ cpu'.regs = cpu.regs
  BY <1>3, <1>4, <1>5 DEF MachineInv, MachineTypeOK
<1>7. MachineTypeOK'
  <2>1. stack' \in [Tasks -> [Words -> WordValues]]
    BY <1>4, <1>5 DEF MachineInv, MachineTypeOK, WordValues, Returns
  <2>2. cpu' \in [task : Tasks, rsp : 0 .. Depth, regs : [Regs -> RegValues],
              ip : Returns \cup {"save", "load", "restore"}, prev : Tasks, next : Tasks]
    BY <1>3, <1>4, <1>5 DEF MachineInv, MachineTypeOK
  <2> QED BY <1>5, <2>1, <2>2 DEF MachineInv, MachineTypeOK
<1>8. /\ \A t \in Tasks : t # p => stack'[t] = stack[t]
      /\ stack'[p][ReturnAt(ret)] = ret
      /\ Depth - 1 # ReturnAt(ret) => stack'[p][Depth - 1] = stack[p][Depth - 1]
  BY <1>4, <1>5 DEF MachineInv, MachineTypeOK
<1>9. ASSUME NEW t \in Tasks, Suspended(t)' PROVE Frame(t)'
  <2>1. t # p /\ Suspended(t)
    BY <1>3, <1>5, <1>6, <1>9 DEF Suspended, Switching
  <2> QED BY <1>5, <1>8, <2>1, FrameStays DEF MachineInv
<1>10. OnSave'
  <2>1. Below(p, ret)'
    BY <1>2, <1>3, <1>8 DEF Below, ReturnAt, Depth
  <2> QED BY <1>1, <1>2, <1>3, <1>5, <1>6, <1>8, <2>1 DEF OnSave, Below, ReturnAt
<1> QED
  BY <1>1, <1>5, <1>6, <1>7, <1>9, <1>10 DEF MachineInv

LEMMA SaveInv == MachineInv /\ SchedInv /\ switch_to_save => MachineInv'
<1> SUFFICES ASSUME MachineInv, SchedInv, switch_to_save PROVE MachineInv'
  OBVIOUS
<1> USE PopsWhatWasPushed
<1>1. PICK p \in Tasks, ret \in {"body", "park"} :
        /\ p = cpu.task /\ p = cpu.prev /\ cpu.next = cur_task /\ p # cur_task
        /\ cpu.rsp = ReturnAt(ret) /\ stack[p][cpu.rsp] = ret
        /\ Below(p, ret)
        /\ ret = "body" => cpu.regs = expected[p]
  BY DEF switch_to_save, MachineInv, MachineTypeOK, OnSave
<1> DEFINE s == ReturnAt(ret) - N
<1>2. /\ s \in Nat /\ ReturnAt(ret) \in Nat
      /\ s \in Words /\ s \in 0 .. Depth /\ ReturnAt(ret) \in Words /\ s <= ReturnAt(ret)
      /\ Words \subseteq Int /\ Depth - 1 \in Words /\ Depth - 1 >= ReturnAt(ret)
      /\ Depth \in Nat
  BY DEF ReturnAt, Words, Depth
<1>3. /\ stack' = [stack EXCEPT ![p] =
                     [w \in Words |-> IF w \in s .. ReturnAt(ret) - 1
                                      THEN cpu.regs[SavedRegs[ReturnAt(ret) - w]] ELSE @[w]]]
      /\ saved_rsp' = [saved_rsp EXCEPT ![p] = s]
      /\ cpu' = [cpu EXCEPT !.rsp = @ - N, !.ip = "load"]
      /\ expected' = expected /\ task_count' = task_count /\ cur_task' = cur_task
  BY <1>1 DEF switch_to_save, SavedRsp
<1>4. /\ cpu'.ip = "load" /\ cpu'.task = p /\ cpu'.rsp = s /\ cpu'.prev = p
      /\ cpu'.next = cur_task /\ saved_rsp'[p] = s
  BY <1>1, <1>3 DEF MachineInv, MachineTypeOK
<1>5. ASSUME NEW w \in s .. ReturnAt(ret) - 1
      PROVE  cpu.regs[SavedRegs[ReturnAt(ret) - w]] \in RegValues
  <2>1. ReturnAt(ret) - w \in 1 .. N
    BY <1>2
  <2> QED BY <2>1 DEF Regs, MachineInv, MachineTypeOK
<1>6. MachineTypeOK'
  <2>1. stack' \in [Tasks -> [Words -> WordValues]]
    BY <1>3, <1>5 DEF MachineInv, MachineTypeOK, WordValues
  <2>2. cpu' \in [task : Tasks, rsp : 0 .. Depth, regs : [Regs -> RegValues],
              ip : Returns \cup {"save", "load", "restore"}, prev : Tasks, next : Tasks]
    BY <1>1, <1>2, <1>3 DEF MachineInv, MachineTypeOK
  <2>3. saved_rsp' \in [Tasks -> 0 .. Depth]
    BY <1>2, <1>3 DEF MachineInv, MachineTypeOK
  <2> QED BY <1>3, <2>1, <2>2, <2>3 DEF MachineInv, MachineTypeOK
<1>7. /\ \A t \in Tasks : t # p => stack'[t] = stack[t] /\ saved_rsp'[t] = saved_rsp[t]
      /\ \A w \in Words : w >= ReturnAt(ret) => stack'[p][w] = stack[p][w]
      /\ \A w \in s .. ReturnAt(ret) - 1 :
           w \in Words => stack'[p][w] = cpu.regs[SavedRegs[ReturnAt(ret) - w]]
  BY <1>2, <1>3 DEF MachineInv, MachineTypeOK
<1>8. ASSUME NEW r \in Regs
      PROVE  stack'[p][s + PopIndex(r)] = cpu.regs[r]
  <2>1. PopIndex(r) \in 0 .. N - 1 /\ SavedRegs[N - PopIndex(r)] = r
    OBVIOUS
  <2>2. /\ s + PopIndex(r) \in s .. ReturnAt(ret) - 1 /\ s + PopIndex(r) \in Words
        /\ ReturnAt(ret) - (s + PopIndex(r)) = N - PopIndex(r)
    BY <1>2, <2>1 DEF Words
  <2> QED BY <1>7, <2>1, <2>2
<1>9. Frame(p)'
  <2>1. Below(p, ret)'
    BY <1>1, <1>2, <1>7 DEF Below
  <2>2. stack'[p][ReturnAt(ret)] = ret /\ saved_rsp'[p] = ReturnAt(ret) - N
    <3>1. ReturnAt(ret) >= ReturnAt(ret)
      BY <1>2
    <3> QED BY <1>1, <1>2, <1>4, <1>7, <3>1
  <2>3. \A r \in Regs : stack'[p][saved_rsp'[p] + PopIndex(r)] = cpu.regs[r]
    BY <1>4, <1>8
  <2>4. \A r \in Regs : cpu.regs[r] \in RegValues /\ (ret # "park" => cpu.regs[r] = expected'[p][r])
    BY <1>1, <1>3 DEF MachineInv, MachineTypeOK
  <2> QED BY <2>1, <2>2, <2>3, <2>4 DEF Frame, Below, Returns, ReturnAt
<1>10. ASSUME NEW t \in Tasks, Suspended(t)', t # p PROVE Frame(t)'
  <2>1. Suspended(t)
    BY <1>1, <1>3, <1>10 DEF Suspended
  <2> QED BY <1>3, <1>7, <1>10, <2>1, FrameStays DEF MachineInv
<1>11. \A t \in Tasks : Suspended(t)' => Frame(t)'
  <2> SUFFICES ASSUME NEW t \in Tasks, t = p PROVE Frame(t)'
    BY <1>10
  <2> QED BY <1>9 DEF Frame, Below
<1>12. OnLoad'
  BY <1>3, <1>4 DEF OnLoad
<1> QED
  BY <1>1, <1>3, <1>4, <1>6, <1>11, <1>12 DEF MachineInv

LEMMA LoadInv == MachineInv /\ SchedInv /\ switch_to_load => MachineInv'
<1> SUFFICES ASSUME MachineInv, SchedInv, switch_to_load PROVE MachineInv'
  OBVIOUS
<1>1. /\ cpu' = [cpu EXCEPT !.task = cpu.next, !.rsp = saved_rsp[cpu.next], !.ip = "restore"]
      /\ UNCHANGED <<stack, saved_rsp, expected, cur_task, task_count>>
      /\ cpu.next = cur_task /\ cur_task \in Tasks /\ cpu.ip = "load"
  BY DEF switch_to_load, MachineInv, MachineTypeOK, OnLoad, SchedInv, SchedTypeOK
<1>2. cpu'.ip = "restore" /\ cpu'.task = cur_task /\ cpu'.rsp = saved_rsp[cur_task]
  BY <1>1 DEF MachineInv, MachineTypeOK
<1>3. MachineTypeOK'
  BY <1>1 DEF MachineInv, MachineTypeOK
<1>4. ASSUME NEW t \in Tasks, Suspended(t)' PROVE Frame(t)'
  <2>1. Suspended(t)
    BY <1>1, <1>4 DEF Suspended, Switching
  <2> QED BY <1>1, <2>1, FrameStays DEF MachineInv
<1>5. cur_task < task_count
  BY DEF SchedInv, SchedTypeOK, OneRunningTask, Tasks
<1> QED
  BY <1>1, <1>2, <1>3, <1>4, <1>5 DEF MachineInv, OnRestore

LEMMA RestoreInv == MachineInv /\ SchedInv /\ switch_to_restore => MachineInv'
<1> SUFFICES ASSUME MachineInv, SchedInv, switch_to_restore PROVE MachineInv'
  OBVIOUS
<1> USE PopsWhatWasPushed
<1>1. PICK p \in Tasks :
        p = cur_task /\ cpu.ip = "restore" /\ cpu.task = p /\ cpu.rsp = saved_rsp[p]
        /\ p < task_count
  BY DEF switch_to_restore, MachineInv, OnRestore, SchedInv, SchedTypeOK
<1>2. PICK ret \in Returns :
        /\ saved_rsp[p] = ReturnAt(ret) - N
        /\ stack[p][ReturnAt(ret)] = ret
        /\ Below(p, ret)
        /\ \A r \in Regs :
             LET value == stack[p][saved_rsp[p] + PopIndex(r)] IN
             value \in RegValues /\ (ret # "park" => value = expected[p][r])
  BY <1>1 DEF MachineInv, Suspended, Switching, Frame
<1>3. /\ ReturnAt(ret) \in Nat /\ cpu.rsp + N = ReturnAt(ret)
      /\ ReturnAt(ret) + 1 \in 0 .. Depth
  BY <1>1, <1>2 DEF ReturnAt, Depth
<1>4. /\ cpu' = [cpu EXCEPT !.regs = [r \in Regs |-> stack[p][saved_rsp[p] + PopIndex(r)]],
                            !.rsp = ReturnAt(ret) + 1, !.ip = ret]
      /\ UNCHANGED <<stack, saved_rsp, expected, cur_task, task_count>>
  <2>1. /\ cpu.rsp + N + 1 = ReturnAt(ret) + 1
        /\ stack[cpu.task][cpu.rsp + N] = ret
    BY <1>1, <1>2, <1>3 DEF MachineInv, MachineTypeOK
  <2> QED BY <1>1, <2>1 DEF switch_to_restore
<1>5. /\ cpu'.ip = ret /\ cpu'.task = p /\ cpu'.rsp = ReturnAt(ret) + 1
      /\ cpu'.regs = [r \in Regs |-> stack[p][saved_rsp[p] + PopIndex(r)]]
  BY <1>1, <1>4 DEF MachineInv, MachineTypeOK
<1>6. MachineTypeOK'
  BY <1>2, <1>3, <1>4 DEF MachineInv, MachineTypeOK
<1>7. ASSUME NEW t \in Tasks, Suspended(t)' PROVE Frame(t)'
  <2>1. Suspended(t)
    BY <1>1, <1>4, <1>5, <1>7 DEF Suspended, Switching
  <2> QED BY <1>4, <2>1, FrameStays DEF MachineInv
<1>8. ret # "park" => cpu'.regs = expected[p]
  BY <1>2, <1>5 DEF MachineInv, MachineTypeOK
<1>9. CASE ret = "park"
  <2>1. OnPark'
    BY <1>1, <1>3, <1>4, <1>5, <1>9 DEF OnPark, ReturnAt, Depth
  <2> QED BY <1>1, <1>4, <1>5, <1>6, <1>7, <1>9, <2>1 DEF MachineInv
<1>10. CASE ret = "body"
  <2>1. OnBody'
    BY <1>1, <1>2, <1>3, <1>4, <1>5, <1>8, <1>10 DEF OnBody, ReturnAt, Depth, Below
  <2> QED BY <1>1, <1>4, <1>5, <1>6, <1>7, <1>10, <2>1 DEF MachineInv
<1>11. CASE ret = "trampoline"
  <2>1. OnTrampoline'
    BY <1>1, <1>2, <1>3, <1>4, <1>5, <1>8, <1>11 DEF OnTrampoline, ReturnAt, Depth, Below
  <2> QED BY <1>1, <1>4, <1>5, <1>6, <1>7, <1>11, <2>1 DEF MachineInv
<1> QED
  BY <1>9, <1>10, <1>11 DEF Returns

LEMMA TrampolineInv == MachineInv /\ SchedInv /\ task_trampoline => MachineInv'
<1> SUFFICES ASSUME MachineInv, SchedInv, task_trampoline PROVE MachineInv'
  OBVIOUS
<1> USE PopsWhatWasPushed
<1>1. PICK p \in Tasks :
        /\ p = cur_task /\ cpu.ip = "trampoline" /\ cpu.task = p /\ cpu.rsp = Depth - 1
        /\ cpu.regs = expected[p]
  BY DEF task_trampoline, MachineInv, OnTrampoline, SchedInv, SchedTypeOK
<1>2. Depth \in Nat /\ Depth - 1 \in Words /\ (cpu.rsp + 1) - 1 = Depth - 1
  BY <1>1 DEF Depth, Words
<1>3. /\ stack' = [stack EXCEPT ![p] = [@ EXCEPT ![Depth - 1] = "park"]]
      /\ cpu' = [cpu EXCEPT !.ip = "body"]
      /\ UNCHANGED <<saved_rsp, expected, cur_task, task_count>>
  <2>1. stack' = [stack EXCEPT ![cpu.task] = [@ EXCEPT ![(cpu.rsp + 1) - 1] = "park"]]
    BY DEF task_trampoline, Push
  <2>2. cpu' = [cpu EXCEPT !.ip = "body"] /\ UNCHANGED <<saved_rsp, expected, cur_task, task_count>>
    BY DEF task_trampoline
  <2> QED BY <1>1, <1>2, <2>1, <2>2, Zenon
<1>4. /\ cpu'.ip = "body" /\ cpu'.task = p /\ cpu'.rsp = Depth - 1 /\ cpu'.regs = cpu.regs
      /\ stack'[p][Depth - 1] = "park"
      /\ \A t \in Tasks : t # p => stack'[t] = stack[t]
  BY <1>1, <1>2, <1>3 DEF MachineInv, MachineTypeOK
<1>5. MachineTypeOK'
  BY <1>2, <1>3 DEF MachineInv, MachineTypeOK, WordValues, Returns
<1>6. ASSUME NEW t \in Tasks, Suspended(t)' PROVE Frame(t)'
  <2>1. Suspended(t) /\ t # p
    BY <1>1, <1>3, <1>4, <1>6 DEF Suspended, Switching
  <2> QED BY <1>3, <1>4, <2>1, FrameStays DEF MachineInv
<1>7. OnBody'
  BY <1>1, <1>2, <1>3, <1>4 DEF OnBody, Below
<1> QED
  BY <1>1, <1>3, <1>4, <1>5, <1>6, <1>7 DEF MachineInv

LEMMA EntryReturnsInv == MachineInv /\ SchedInv /\ EntryReturns => MachineInv'
<1> SUFFICES ASSUME MachineInv, SchedInv, EntryReturns PROVE MachineInv'
  OBVIOUS
<1> USE PopsWhatWasPushed
<1>1. PICK p \in Tasks :
        /\ p = cur_task /\ cpu.ip = "body" /\ cpu.task = p /\ cpu.rsp = Depth - 1
        /\ stack[p][cpu.rsp] = "park"
  BY DEF EntryReturns, MachineInv, OnBody, Below, SchedInv, SchedTypeOK
<1>2. Depth \in Nat /\ cpu.rsp + 1 = Depth
  BY <1>1 DEF Depth
<1>3. /\ cpu' = [cpu EXCEPT !.ip = "park", !.rsp = Depth]
      /\ UNCHANGED <<stack, saved_rsp, expected, cur_task, task_count>>
  BY <1>1, <1>2 DEF EntryReturns
<1>4. cpu'.ip = "park" /\ cpu'.task = p /\ cpu'.rsp = Depth
  BY <1>1, <1>3 DEF MachineInv, MachineTypeOK
<1>5. MachineTypeOK'
  <2>1. Depth \in 0 .. Depth /\ "park" \in Returns
    BY <1>2 DEF Returns
  <2> QED BY <1>3, <2>1 DEF MachineInv, MachineTypeOK
<1>6. ASSUME NEW t \in Tasks, Suspended(t)' PROVE Frame(t)'
  <2>1. Suspended(t)
    BY <1>1, <1>3, <1>4, <1>6 DEF Suspended, Switching
  <2> QED BY <1>3, <2>1, FrameStays DEF MachineInv
<1>7. OnPark'
  BY <1>1, <1>2, <1>3, <1>4 DEF OnPark, Depth
<1> QED
  BY <1>1, <1>3, <1>4, <1>5, <1>6, <1>7 DEF MachineInv

LEMMA MachineStays ==
  ASSUME MachineInv, UNCHANGED <<cur_task, task_count>>, UNCHANGED ctxVars
  PROVE  MachineInv'
<1>1. \A t \in Tasks : Suspended(t)' => Frame(t)'
  <2> SUFFICES ASSUME NEW t \in Tasks, Suspended(t)' PROVE Frame(t)'
    OBVIOUS
  <2>1. Suspended(t) /\ Frame(t)
    BY DEF ctxVars, Suspended, Switching, MachineInv
  <2> QED BY <2>1, FrameStays DEF ctxVars
<1>2. MachineTypeOK'
  BY DEF ctxVars, MachineInv, MachineTypeOK
<1>3. cpu' = cpu /\ stack' = stack /\ expected' = expected /\ saved_rsp' = saved_rsp
  BY DEF ctxVars
<1>4. /\ (OnBody' <=> OnBody) /\ (OnPark' <=> OnPark) /\ (OnSave' <=> OnSave)
      /\ (OnLoad' <=> OnLoad) /\ (OnRestore' <=> OnRestore)
      /\ (OnTrampoline' <=> OnTrampoline)
  BY <1>3 DEF OnBody, OnPark, OnSave, OnLoad, OnRestore, OnTrampoline, Below, ReturnAt
<1> QED
  BY <1>1, <1>2, <1>3, <1>4 DEF MachineInv

LEMMA MachineInvariance == Spec => [](SchedInv /\ MachineInv)
<1>1. Init => MachineInv
  BY MachineInitInv
<1>2. SchedInv /\ MachineInv /\ [Next]_vars => MachineInv'
  <2> SUFFICES ASSUME SchedInv, MachineInv, [Next]_vars PROVE MachineInv'
    OBVIOUS
  <2>1. CASE Compute \/ Interrupt \/ CreateTask
    BY <2>1, ComputeInv, InterruptInv, CreateTaskInv
  <2>2. CASE CreateTaskFails \/ YieldReturns \/ UNCHANGED vars
    <3>1. UNCHANGED <<cur_task, task_count>> /\ UNCHANGED ctxVars
      BY <2>2 DEF CreateTaskFails, YieldReturns, sched_create_fails, sched_yield_alone,
                  schedVars, ctxVars, vars
    <3> QED BY <3>1, MachineStays
  <2>3. CASE YieldSwitches \/ switch_to_save \/ switch_to_load \/ switch_to_restore
    BY <2>3, YieldSwitchesInv, SaveInv, LoadInv, RestoreInv
  <2>4. CASE task_trampoline \/ EntryReturns
    BY <2>4, TrampolineInv, EntryReturnsInv
  <2> QED BY <2>1, <2>2, <2>3, <2>4 DEF Next
<1> QED
  BY <1>1, <1>2, SchedInvariance, PTL DEF Spec

\* A task that yields finds its registers again when it runs the next time, on its
\* own stack: whatever the other tasks and the interrupts did meanwhile, for every
\* number of tasks and of callee-saved registers.
THEOREM SwitchKeepsRegisters == Spec => []RegistersPreserved
<1>1. SchedInv /\ MachineInv => RegistersPreserved
  <2> SUFFICES ASSUME SchedInv, MachineInv PROVE RegistersPreserved
    OBVIOUS
  <2>1. TypeOK
    BY DEF SchedInv, MachineInv, MachineTypeOK, TypeOK
  <2> QED BY <2>1 DEF MachineInv, OnBody, RegistersPreserved
<1> QED
  BY <1>1, MachineInvariance, PTL
-----------------------------------------------------------------------------
(***************************************************************************)
(* Interrupts, panics and the recovery point.                              *)
(***************************************************************************)
InHandler == at \in {"handler", "eoi", "iret"}

\* The code that runs with interrupts enabled.
Open == {"verify", "window", "menu", "loop", "hlt", "command"}

Contexts == [at : Places, iflag : BOOLEAN, rsp : Nat]

\* Where the code of kernel_main and below may stand on the stack.
Stands(place) ==
  CASE place = "command"       -> {CommandWords, PointWords + CommandWords}
    [] place \in {"loop", "hlt"} -> {0, PointWords}
    [] OTHER                   -> {0}

RecoveryTypes ==
  /\ at \in Places /\ irq \in Lines
  /\ iflag \in BOOLEAN /\ idt \in BOOLEAN /\ obf \in BOOLEAN /\ lost_edge \in BOOLEAN
  /\ abandoned \in BOOLEAN
  /\ rsp \in Nat /\ recovery_point \in [valid : BOOLEAN, rsp : Nat]
  /\ interrupt_handlers \subseteq {PageFault} \cup {Vector(q) : q \in Lines}
  /\ elapsed \in 0 .. WindowTicks
  /\ \A p \in DOMAIN saved : p \in Nat /\ p >= ContextWords /\ saved[p] \in Contexts
  /\ irr \subseteq Lines /\ isr \subseteq Lines
  /\ kbdata \in Keys
  /\ ring \in Seq(Keys) /\ Len(ring) <= RingCap
  /\ cmd_buf \in Commands \cup {Empty}
  /\ active_view \in {"menu", "dashboard"}

\* A handler lies below the context of the code it interrupted, and nothing else.
Interrupted(place, r) ==
  /\ DOMAIN saved = {rsp} /\ r < rsp
  /\ saved[rsp] = [at |-> place, iflag |-> TRUE, rsp |-> r]
  /\ place \in {"loop", "command"} => recovery_point.valid

StackInv ==
  /\ iflag <=> at \in Open
  /\ at \in Code => DOMAIN saved = {} /\ rsp \in Stands(at)
  /\ at \in {"loop", "hlt", "command"} => recovery_point.valid
  /\ recovery_point.valid => recovery_point.rsp = PointWords
  /\ InHandler => \E place \in Open \ {"hlt"} : \E r \in Stands(place) : Interrupted(place, r)
  /\ ~ idt => at \in {"isr_install", "reset"}

\* Between its delivery and its end of interrupt a line is in service, alone.
ServiceInv ==
  \/ abandoned
  \/ /\ at \in Code \cup {"iret"} => isr = {}
     /\ at \in {"handler", "eoi"} => isr = {irq}

RecoveryInv == RecoveryTypes /\ StackInv /\ ServiceInv

USE RecoveryAssumption DEF Lines, Timer, Keyboard
-----------------------------------------------------------------------------
LEMMA InitInv == RecoveryInit => RecoveryInv
<1> SUFFICES ASSUME RecoveryInit PROVE RecoveryInv
  OBVIOUS
<1>1. DOMAIN saved = {}
  BY DEF RecoveryInit
<1>2. RecoveryTypes
  <2>1. WindowTicks \in Nat /\ RingCap \in Nat
    OBVIOUS
  <2>2. ring \in Seq(Keys) /\ Len(ring) <= RingCap
    BY <2>1 DEF RecoveryInit
  <2>3. elapsed \in 0 .. WindowTicks
    BY <2>1 DEF RecoveryInit
  <2> QED
    BY <1>1, <2>2, <2>3 DEF RecoveryInit, RecoveryTypes, Places, Code, Boot, Keys, Empty, Commands
<1>3. StackInv
  BY <1>1 DEF RecoveryInit, StackInv, Stands, Code, Boot, Open, InHandler
<1>4. ServiceInv
  BY DEF RecoveryInit, ServiceInv, Code, Boot
<1> QED
  BY <1>2, <1>3, <1>4 DEF RecoveryInv

\* The steps of kernel_main up to the recovery point.
LEMMA BootInv == RecoveryInv /\ kernel_main => RecoveryInv'
<1> SUFFICES ASSUME RecoveryInv, kernel_main PROVE RecoveryInv'
  OBVIOUS
<1> USE DEF RecoveryInv, Code, Boot, Places, cpuVars, stackVars, kbdVars, bootVars, pointVars, shellVars
<1>1. CASE isr_install
  BY <1>1 DEF isr_install, RecoveryTypes, StackInv, Stands, ServiceInv, Open, InHandler
<1>2. CASE pagefault_init \/ pit_init \/ keyboard_init
  <2>1. PICK vector \in {PageFault} \cup {Vector(q) : q \in Lines},
             here \in {"pagefault_init", "pit_init", "keyboard_init"},
             next \in {"pit_init", "keyboard_init", "sti"} :
          at = here /\ Register(vector, next)
    BY <1>2 DEF pagefault_init, pit_init, keyboard_init
  <2>2. RecoveryTypes'
    BY <2>1 DEF Register, RecoveryTypes
  <2>3. StackInv'
    BY <2>1 DEF Register, StackInv, Stands, Open, InHandler
  <2>4. ServiceInv'
    BY <2>1 DEF Register, ServiceInv
  <2> QED BY <2>2, <2>3, <2>4
<1>3. CASE EnableInterrupts
  BY <1>3 DEF EnableInterrupts, RecoveryTypes, StackInv, Stands, ServiceInv, Open, InHandler
<1>4. CASE HeartbeatVerified
  BY <1>4 DEF HeartbeatVerified, RecoveryTypes, StackInv, Stands, ServiceInv, Open, InHandler
<1>5. CASE WindowPassed
  BY <1>5 DEF WindowPassed, RecoveryTypes, StackInv, Stands, ServiceInv, Open, InHandler
<1>6. CASE panic_set_recovery_point
  <2>1. rsp = 0
    BY <1>6 DEF panic_set_recovery_point, StackInv, Stands
  <2>2. recovery_point' = [valid |-> TRUE, rsp |-> PointWords]
    BY <1>6, <2>1 DEF panic_set_recovery_point
  <2>3. at = "menu" /\ at' = "loop"
        /\ UNCHANGED <<irq, iflag, stackVars, bootVars, irr, isr, kbdVars, shellVars, abandoned>>
    BY <1>6 DEF panic_set_recovery_point
  <2>4. RecoveryTypes'
    BY <2>2, <2>3 DEF RecoveryTypes
  <2> QED BY <2>1, <2>2, <2>3, <2>4 DEF StackInv, Stands, ServiceInv, Open, InHandler
<1> QED
  BY <1>1, <1>2, <1>3, <1>4, <1>5, <1>6 DEF kernel_main

\* The devices change nothing of the CPU and of what is in service.
LEMMA DeviceInv == RecoveryInv /\ (RaiseTimer \/ KeyPress) => RecoveryInv'
<1> SUFFICES ASSUME RecoveryInv, RaiseTimer \/ KeyPress PROVE RecoveryInv'
  OBVIOUS
<1> USE DEF RecoveryInv, cpuVars, stackVars, kbdVars, bootVars, pointVars, shellVars
<1>1. RecoveryTypes'
  BY ZenonT(60) DEF RaiseTimer, KeyPress, RecoveryTypes
<1>2. UNCHANGED <<at, irq, iflag, rsp, saved, idt, isr, recovery_point, abandoned>>
  BY DEF RaiseTimer, KeyPress
<1> QED
  BY <1>1, <1>2 DEF StackInv, Interrupted, ServiceInv, InHandler

\* An interrupt pushes a context below all that is on the stack.
LEMMA EnterKeepsType ==
  ASSUME RecoveryTypes, NEW place \in Places, Enter(place)
  PROVE  /\ at' = place /\ iflag' = FALSE
         /\ rsp' \in Nat /\ rsp' > rsp /\ rsp' >= ContextWords
         /\ DOMAIN saved' = DOMAIN saved \cup {rsp'}
         /\ saved'[rsp'] = [at |-> IF at = "hlt" THEN "loop" ELSE at, iflag |-> iflag, rsp |-> rsp]
         /\ \A p \in DOMAIN saved' : p \in Nat /\ p >= ContextWords /\ saved'[p] \in Contexts
<1> DEFINE context == [at |-> IF at = "hlt" THEN "loop" ELSE at, iflag |-> iflag, rsp |-> rsp]
<1>1. at' = place /\ iflag' = FALSE
  BY DEF Enter
<1>2. rsp' \in Nat /\ rsp' > rsp /\ rsp' >= ContextWords
  <2>1. rsp \in Nat /\ rsp' = rsp + (rsp % 2) + ContextWords
    BY DEF Enter, Aligned, RecoveryTypes
  <2>2. rsp % 2 \in 0 .. 1
    BY <2>1
  <2> QED BY <2>1, <2>2 DEF ContextWords
<1>3. context \in Contexts
  BY DEF RecoveryTypes, Contexts, Places, Code
<1>4. saved' = [p \in DOMAIN saved \cup {rsp'} |-> IF p # rsp' THEN saved[p] ELSE context]
  BY DEF Enter
<1> HIDE DEF context
<1>5. DOMAIN saved' = DOMAIN saved \cup {rsp'} /\ saved'[rsp'] = context
  BY <1>4
<1>6. \A p \in DOMAIN saved' : p \in Nat /\ p >= ContextWords /\ saved'[p] \in Contexts
  BY <1>2, <1>3, <1>4, <1>5 DEF RecoveryTypes
<1> QED
  BY <1>1, <1>2, <1>5, <1>6 DEF context

LEMMA DeliverInv == ASSUME RecoveryInv, NEW q \in Lines, Deliver(q) PROVE RecoveryInv'
<1> USE DEF RecoveryInv, kbdVars, bootVars, pointVars, shellVars
<1>1. Enter("handler") /\ "handler" \in Places
  BY DEF Deliver, Places
<1>2. RecoveryTypes'
  BY <1>1, EnterKeepsType DEF Deliver, RecoveryTypes
<1>3. at \in Open /\ at \in Code /\ DOMAIN saved = {} /\ rsp \in Stands(at) /\ iflag = TRUE
  BY DEF Deliver, StackInv, RecoveryTypes, Open, Code, Boot
<1>4. StackInv'
  <2>1. PICK place, r : place = (IF at = "hlt" THEN "loop" ELSE at) /\ r = rsp
    OBVIOUS
  <2>2. /\ at' = "handler" /\ iflag' = FALSE /\ r < rsp'
        /\ DOMAIN saved' = {rsp'}
        /\ saved'[rsp'] = [at |-> place, iflag |-> TRUE, rsp |-> r]
    BY <1>1, <1>3, <2>1, EnterKeepsType
  <2>3. /\ place \in Open \ {"hlt"} /\ r \in Stands(place)
        /\ place \in {"loop", "command"} => recovery_point.valid
    BY <1>3, <2>1 DEF StackInv, Open, Stands
  <2>4. recovery_point' = recovery_point /\ idt' = idt
    BY DEF Deliver
  <2>5. idt
    BY <1>3 DEF StackInv, Open, RecoveryTypes
  <2>6. Interrupted(place, r)'
    BY <2>2, <2>3, <2>4 DEF Interrupted
  <2> QED BY <2>2, <2>3, <2>4, <2>5, <2>6 DEF StackInv, InHandler, Open, Code, Boot
<1>5. ServiceInv'
  BY <1>3 DEF Deliver, Enter, ServiceInv, Code, Boot
<1> QED
  BY <1>2, <1>4, <1>5

LEMMA HandlersInv == RecoveryInv /\ Handlers => RecoveryInv'
<1> SUFFICES ASSUME RecoveryInv, Handlers PROVE RecoveryInv'
  OBVIOUS
<1> USE DEF RecoveryInv, cpuVars, stackVars, kbdVars, bootVars, pointVars, shellVars
<1>1. CASE RunHandler
  <2>1. ring' \in Seq(Keys) /\ Len(ring') <= RingCap
    BY <1>1 DEF RunHandler, RingAfterKey, RecoveryTypes
  <2>2. RecoveryTypes'
    BY <1>1, <2>1 DEF RunHandler, RecoveryTypes, Places
  <2>3. StackInv'
    BY <1>1 DEF RunHandler, StackInv, Interrupted, InHandler, Open, Code, Boot
  <2>4. ServiceInv'
    BY <1>1 DEF RunHandler, ServiceInv, Code, Boot
  <2> QED BY <2>2, <2>3, <2>4
<1>2. CASE pic_send_eoi
  <2>1. RecoveryTypes'
    BY <1>2 DEF pic_send_eoi, RecoveryTypes, Places
  <2>2. StackInv'
    BY <1>2 DEF pic_send_eoi, StackInv, Interrupted, InHandler, Open, Code, Boot
  <2>3. ServiceInv'
    BY <1>2 DEF pic_send_eoi, ServiceInv, RecoveryTypes, Code, Boot
  <2> QED BY <2>1, <2>2, <2>3
<1>3. CASE iretq
  <2>0. PICK place \in Open \ {"hlt"} : \E r \in Stands(place) : Interrupted(place, r)
    BY <1>3 DEF iretq, StackInv, InHandler
  <2>1. PICK r \in Stands(place) : Interrupted(place, r)
    BY <2>0
  <2>2. /\ at' = place /\ iflag' = TRUE /\ rsp' = r
        /\ saved' = Above(r)
    BY <1>3, <2>1 DEF iretq, Interrupted
  <2>3. DOMAIN saved' = {}
    BY <2>1, <2>2 DEF Above, Interrupted, Stands, RecoveryTypes
  <2>4. UNCHANGED <<irq, bootVars, irr, isr, kbdVars, shellVars, pointVars>> /\ at = "iret"
    BY <1>3 DEF iretq
  <2>5. r \in Nat
    BY <2>1 DEF Stands, ContextWords
  <2>6. RecoveryTypes'
    BY <2>2, <2>3, <2>4, <2>5 DEF RecoveryTypes, Open, Places, Code, Boot
  <2>7. StackInv'
    BY <2>1, <2>2, <2>3, <2>4 DEF StackInv, Interrupted, InHandler, Open, Code, Boot
  <2>8. ServiceInv'
    BY <2>2, <2>4 DEF ServiceInv, Open
  <2> QED BY <2>6, <2>7, <2>8
<1> QED
  BY <1>1, <1>2, <1>3 DEF Handlers

LEMMA ShellInv == RecoveryInv /\ Shell => RecoveryInv'
<1> SUFFICES ASSUME RecoveryInv, Shell PROVE RecoveryInv'
  OBVIOUS
<1> USE DEF RecoveryInv, cpuVars, stackVars, kbdVars, bootVars, pointVars, shellVars
<1>1. CASE Fault
  <2>1. "panic" \in Places
    BY DEF Places
  <2>2. RecoveryTypes'
    BY <1>1, <2>1, EnterKeepsType DEF Fault, RecoveryTypes
  <2>3. /\ at' = "panic" /\ iflag' = FALSE
        /\ UNCHANGED <<idt, isr, irq, recovery_point, abandoned>>
    BY <1>1, <2>1, EnterKeepsType DEF Fault
  <2>4. StackInv'
    BY <1>1, <2>3 DEF Fault, StackInv, InHandler, Open, Code, Boot
  <2>5. ServiceInv'
    BY <2>3 DEF ServiceInv, Code, Boot
  <2> QED BY <2>2, <2>4, <2>5
<1>2. CASE TakeKey
  <2>1. ring' \in Seq(Keys) /\ Len(ring') <= RingCap
    BY <1>2 DEF TakeKey, RecoveryTypes
  <2>2. RecoveryTypes'
    <3>1. rsp' \in Nat
      BY <1>2 DEF TakeKey, RecoveryTypes
    <3>2. /\ at' \in {"loop", "command"} /\ cmd_buf' \in Commands \cup {Empty}
          /\ active_view' \in {"menu", "dashboard"}
      BY <1>2 DEF TakeKey, RecoveryTypes
    <3>3. /\ UNCHANGED <<irq, iflag, saved, idt, interrupt_handlers, elapsed, irr, isr>>
          /\ UNCHANGED <<kbdata, obf, lost_edge, recovery_point, abandoned>>
      BY <1>2 DEF TakeKey
    <3> QED BY <2>1, <3>1, <3>2, <3>3 DEF RecoveryTypes, Places, Code
  <2>3. /\ at = "loop" /\ UNCHANGED <<irq, iflag, saved, idt, isr, recovery_point, abandoned>>
        /\ \/ at' = "loop" /\ rsp' = rsp
           \/ at' = "command" /\ rsp' = rsp + CommandWords
    BY <1>2 DEF TakeKey
  <2>4. rsp \in {0, PointWords} /\ (at' = "command" => rsp' \in Stands("command"))
    BY <2>3 DEF StackInv, Stands, Code
  <2> QED BY <2>2, <2>3, <2>4 DEF StackInv, Stands, ServiceInv, InHandler, Open, Code, Boot
<1>3. CASE Hlt
  <2>1. RecoveryTypes'
    <3>1. /\ at' = "hlt"
          /\ UNCHANGED <<irq, iflag, rsp, saved, idt, interrupt_handlers, elapsed, irr, isr>>
          /\ UNCHANGED <<kbdata, obf, lost_edge, ring, cmd_buf, active_view>>
          /\ UNCHANGED <<recovery_point, abandoned>>
      BY <1>3 DEF Hlt
    <3> QED BY <3>1 DEF RecoveryTypes, Places, Code
  <2>2. /\ at = "loop" /\ at' = "hlt"
        /\ UNCHANGED <<irq, iflag, rsp, saved, idt, isr, recovery_point, abandoned>>
    BY <1>3 DEF Hlt
  <2> QED BY <2>1, <2>2 DEF StackInv, Stands, ServiceInv, InHandler, Open, Code, Boot
<1>5. CASE FinishCommand
  <2>1. /\ at = "command" /\ at' = "loop" /\ rsp' = rsp - CommandWords
        /\ UNCHANGED <<irq, iflag, saved, idt, isr, recovery_point, abandoned>>
    BY <1>5 DEF FinishCommand
  <2>2. rsp' \in {0, PointWords}
    BY <2>1 DEF StackInv, Stands, Code
  <2>3. RecoveryTypes'
    <3>1. rsp' \in Nat
      BY <2>2 DEF ContextWords
    <3>2. active_view' \in {"menu", "dashboard"} /\ cmd_buf' \in Commands \cup {Empty}
      BY <1>5 DEF FinishCommand, RecoveryTypes
    <3>3. UNCHANGED <<interrupt_handlers, elapsed, irr, kbdata, obf, lost_edge, ring>>
      BY <1>5 DEF FinishCommand
    <3> QED BY <2>1, <3>1, <3>2, <3>3 DEF RecoveryTypes, Places, Code
  <2> QED BY <2>1, <2>2, <2>3 DEF StackInv, Stands, ServiceInv, InHandler, Open, Code, Boot
<1>4. CASE HaltCommand
  BY <1>4 DEF HaltCommand, RecoveryTypes, Places, StackInv, ServiceInv, InHandler, Open, Code, Boot
<1> QED
  BY <1>1, <1>2, <1>3, <1>4, <1>5 DEF Shell

LEMMA NmiInv == RecoveryInv /\ Nmi => RecoveryInv'
<1> SUFFICES ASSUME RecoveryInv, Nmi PROVE RecoveryInv'
  OBVIOUS
<1> USE DEF RecoveryInv, stackVars, kbdVars, bootVars, pointVars, shellVars
<1>1. CASE idt
  <2>1. "panic" \in Places
    BY DEF Places
  <2>2. RecoveryTypes'
    BY <1>1, <2>1, EnterKeepsType DEF Nmi, RecoveryTypes
  <2>3. /\ at' = "panic" /\ iflag' = FALSE
        /\ UNCHANGED <<idt, isr, irq, recovery_point, abandoned>>
    BY <1>1, <2>1, EnterKeepsType DEF Nmi
  <2>4. StackInv'
    BY <1>1, <2>3 DEF StackInv, InHandler, Open, Code, Boot
  <2>5. ServiceInv'
    BY <2>3 DEF ServiceInv, Code, Boot
  <2> QED BY <2>2, <2>4, <2>5
<1>2. CASE ~ idt
  BY <1>2 DEF Nmi, RecoveryTypes, Places, StackInv, ServiceInv, InHandler, Open, Code, Boot
<1> QED
  BY <1>1, <1>2

\* The panic console leaves by panic_do_restore, which goes back above every context
\* on the stack, or never.
LEMMA ConsoleInv == RecoveryInv /\ Console => RecoveryInv'
<1> SUFFICES ASSUME RecoveryInv, Console PROVE RecoveryInv'
  OBVIOUS
<1> USE DEF RecoveryInv, stackVars, bootVars, shellVars
<1>1. PICK keys \in SUBSET Keys : PollKey(keys)
  BY DEF Console, panic_do_restore, RestoreRefused, OtherKey, panic_do_reboot,
         panic_do_poweroff, Keys
<1>2. /\ at = "panic" /\ obf' = FALSE /\ lost_edge' = FALSE /\ irr' \subseteq irr
      /\ UNCHANGED <<irq, bootVars, isr, kbdata, shellVars, recovery_point>>
  BY <1>1 DEF PollKey
<1>3. CASE panic_do_restore
  <2>1. /\ at' = "loop" /\ iflag' = TRUE /\ recovery_point.valid
        /\ rsp' = recovery_point.rsp /\ saved' = Above(recovery_point.rsp)
        /\ abandoned' = (abandoned \/ isr # {})
    BY <1>3 DEF panic_do_restore
  <2>2. /\ abandoned' \in BOOLEAN
        /\ rsp' = PointWords /\ rsp' \in Nat
        /\ DOMAIN saved' = {}
    <3>1. rsp' = PointWords /\ saved' = Above(PointWords) /\ PointWords < ContextWords
      BY <2>1 DEF StackInv, ContextWords
    <3> QED BY <2>1, <3>1 DEF Above, RecoveryTypes, ContextWords
  <2>3. RecoveryTypes'
    <3>1. at' \in Places /\ iflag' \in BOOLEAN
      BY <2>1 DEF Places, Code
    <3>2. UNCHANGED <<irq, idt, interrupt_handlers, elapsed, isr, kbdata, ring, cmd_buf,
                      active_view, recovery_point>> /\ obf' \in BOOLEAN /\ lost_edge' \in BOOLEAN
      BY <1>2
    <3> QED BY <1>2, <2>2, <3>1, <3>2, Zenon DEF RecoveryTypes
  <2> QED BY <1>2, <2>1, <2>2, <2>3 DEF StackInv, Stands, ServiceInv, InHandler, Open, Code, Boot
<1>4. CASE RestoreRefused \/ OtherKey \/ panic_do_reboot \/ panic_do_poweroff
  <2>1. at' \in {"panic", "reset", "stopped"} /\ UNCHANGED <<stackVars, iflag, abandoned>>
    BY <1>2, <1>4 DEF RestoreRefused, OtherKey, panic_do_reboot, panic_do_poweroff
  <2>2. RecoveryTypes'
    BY <1>2, <2>1 DEF RecoveryTypes, Places
  <2> QED BY <1>2, <2>1, <2>2 DEF StackInv, ServiceInv, InHandler, Open, Code, Boot
<1> QED
  BY <1>3, <1>4 DEF Console

LEMMA RecoveryInvariance == RecoverySpec => []RecoveryInv
<1>1. RecoveryInit => RecoveryInv
  BY InitInv
<1>2. RecoveryInv /\ [RecoveryNext]_recoveryVars => RecoveryInv'
  <2> SUFFICES ASSUME RecoveryInv, [RecoveryNext]_recoveryVars PROVE RecoveryInv'
    OBVIOUS
  <2>1. CASE kernel_main \/ RaiseTimer \/ KeyPress \/ \E q \in Lines : Deliver(q)
    BY <2>1, BootInv, DeviceInv, DeliverInv
  <2>2. CASE Handlers \/ Shell \/ Nmi \/ Console
    BY <2>2, HandlersInv, ShellInv, NmiInv, ConsoleInv
  <2>3. CASE UNCHANGED recoveryVars
    <3>1. /\ UNCHANGED <<at, irq, iflag, rsp, saved, idt, interrupt_handlers, elapsed>>
          /\ UNCHANGED <<irr, isr, kbdata, obf, lost_edge, ring, cmd_buf, active_view>>
          /\ UNCHANGED <<recovery_point, abandoned>>
      BY <2>3 DEF recoveryVars, cpuVars, stackVars, kbdVars, bootVars, pointVars, shellVars
    <3>2. RecoveryTypes'
      BY <3>1 DEF RecoveryInv, RecoveryTypes
    <3>3. StackInv'
      BY <3>1 DEF RecoveryInv, StackInv, Interrupted, InHandler
    <3>4. ServiceInv'
      BY <3>1 DEF RecoveryInv, ServiceInv
    <3> QED BY <3>2, <3>3, <3>4 DEF RecoveryInv
  <2> QED BY <2>1, <2>2, <2>3 DEF RecoveryNext
<1> QED
  BY <1>1, <1>2, PTL DEF RecoverySpec
-----------------------------------------------------------------------------
\* The loop of kernel_main and its commands run with interrupts enabled, a recovery
\* point to come back to and no interrupted context left on the stack, and stand where
\* the loop was entered or, after a restore, as much lower as panic_set_recovery_point
\* stood when it read rsp: after any number of interrupts, faults, panics in panics
\* and restores, which do not add up.
THEOREM LoopStackSettled == RecoverySpec => []LoopStackSettles
<1>1. RecoveryInv => LoopStackSettles
  <2> SUFFICES ASSUME RecoveryInv PROVE LoopStackSettles
    OBVIOUS
  <2>1. RecoveryTypeOK
    <3>1. /\ \A p \in DOMAIN saved : p \in Nat /\ saved[p] \in [at : Places, iflag : BOOLEAN, rsp : Nat]
          /\ \A i \in DOMAIN ring : ring[i] \in Keys
      BY DEF RecoveryInv, RecoveryTypes, Contexts
    <3> QED BY <3>1 DEF RecoveryInv, RecoveryTypes, RecoveryTypeOK
  <2>2. at \in {"loop", "hlt", "command"} =>
          rsp - (IF at = "command" THEN CommandWords ELSE 0) \in {0, PointWords}
    BY DEF RecoveryInv, StackInv, Stands, Code
  <2> QED BY <2>1, <2>2 DEF RecoveryInv, StackInv, LoopStackSettles, Code, Open
<1> QED
  BY <1>1, RecoveryInvariance, PTL

\* Whatever was interrupted, faulted and restored before, the hlt of the loop can
\* end: no line is left in service unless a restore abandoned its handler.
THEOREM HltAlwaysCanEnd == RecoverySpec => []HltCanEnd
<1>1. RecoveryInv => HltCanEnd
  BY DEF RecoveryInv, StackInv, ServiceInv, HltCanEnd, Code, Open
<1> QED
  BY <1>1, RecoveryInvariance, PTL
=============================================================================
