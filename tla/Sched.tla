------------------------------- MODULE Sched -------------------------------
(***************************************************************************)
(* The task table of the cooperative scheduler (kernel/core/sched.c) and   *)
(* its round-robin choice.  Module ContextSwitch adds the stacks and the   *)
(* registers (kernel/arch/x86_shared/switch.S).                            *)
(***************************************************************************)
EXTENDS Integers, FiniteSets, FiniteSetsExt

CONSTANTS
  TASK_MAX,  \* slots of the task table
  TickMod    \* 2^w for the width w of the tick counters

ASSUME SchedAssumption ==
  /\ TASK_MAX \in Nat \ {0}
  /\ TickMod \in Nat \ {0}

VARIABLES
  state,       \* tasks[i].state
  ticks,       \* tasks[i].ticks
  cur_task,
  task_count,
  passed       \* history: who was switched to since task i last lost the CPU

schedVars == <<state, ticks, cur_task, task_count, passed>>

Tasks == 0 .. TASK_MAX - 1
States == {"READY", "RUNNING", "BLOCKED"}

\* Mutant: the scan starts at slot 1 whoever yields.
Slot_FromZero(i) == i % TASK_MAX

\* The candidates of the scan in sched_yield, by their distance from the caller.
Slot(i) == (cur_task + i) % TASK_MAX
ReadyAt == {i \in 1 .. TASK_MAX : state[Slot(i)] = "READY"}
NextTask == Slot(Min(ReadyAt))
-----------------------------------------------------------------------------
\* Mutant: the table as it is without sched_init, all zeros.
SchedInit_Zeroed ==
  /\ state = [t \in Tasks |-> IF t = 0 THEN "RUNNING" ELSE "READY"]
  /\ ticks = [t \in Tasks |-> 0]
  /\ cur_task = 0
  /\ task_count = 1
  /\ passed = [t \in Tasks |-> {}]

\* sched_init: slot 0 is the boot task, the other slots are empty.
SchedInit ==
  /\ state = [t \in Tasks |-> IF t = 0 THEN "RUNNING" ELSE "BLOCKED"]
  /\ ticks = [t \in Tasks |-> 0]
  /\ cur_task = 0
  /\ task_count = 1
  /\ passed = [t \in Tasks |-> {}]

\* A slot is taken for good: tasks are never deleted.
sched_create_task ==
  /\ task_count < TASK_MAX
  /\ state' = [state EXCEPT ![task_count] = "READY"]
  /\ ticks' = [ticks EXCEPT ![task_count] = 0]
  /\ task_count' = task_count + 1
  /\ passed' = [passed EXCEPT ![task_count] = {}]
  /\ UNCHANGED cur_task

sched_create_fails == task_count >= TASK_MAX /\ UNCHANGED schedVars

\* The caller becomes READY, the first READY task after it RUNNING.
sched_yield ==
  /\ ReadyAt # {}
  /\ state' = [t \in Tasks |-> IF t = NextTask THEN "RUNNING"
                               ELSE IF t = cur_task /\ state[t] = "RUNNING" THEN "READY"
                               ELSE state[t]]
  /\ ticks' = [ticks EXCEPT ![cur_task] = (@ + 1) % TickMod]
  /\ cur_task' = NextTask
  /\ passed' = [t \in Tasks |-> IF t \in {cur_task, NextTask} THEN {}
                                ELSE passed[t] \cup {NextTask}]
  /\ UNCHANGED task_count

\* Nobody else is READY: the call returns to its caller.
sched_yield_alone == ReadyAt = {} /\ UNCHANGED schedVars

SchedNext == sched_create_task \/ sched_create_fails \/ sched_yield \/ sched_yield_alone

SchedSpec == SchedInit /\ [][SchedNext]_schedVars

-----------------------------------------------------------------------------
\* Type correctness.
SchedTypeOK ==
  /\ state \in [Tasks -> States]
  /\ ticks \in [Tasks -> 0 .. TickMod - 1]
  /\ cur_task \in Tasks
  /\ task_count \in 1 .. TASK_MAX
  /\ passed \in [Tasks -> SUBSET Tasks]

\* Exactly one task is RUNNING, and sched_current names it; a slot that was not
\* handed out is BLOCKED and can never be chosen, a created task never is.
OneRunningTask ==
  /\ \A t \in Tasks : state[t] = "RUNNING" <=> t = cur_task
  /\ \A t \in Tasks : state[t] = "BLOCKED" <=> t >= task_count

\* While a task waits for the CPU nobody is switched to twice: a READY task is
\* overtaken at most once by each of the others, also by tasks created meanwhile.
BoundedOvertaking ==
  [][\A t \in Tasks :
       state[t] = "READY" /\ cur_task' # cur_task /\ cur_task' # t
         => cur_task' \notin passed[t]]_schedVars

=============================================================================
