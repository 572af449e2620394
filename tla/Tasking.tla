------------------------------- MODULE Tasking -------------------------------
(***************************************************************************)
(* The running scheduler: GLOBAL_SCHEDULER and the code that changes it,   *)
(* namely the bootstrap code that calls run_tasks, the scheduled tasks,    *)
(* the idle task's loop and the timer interrupt.  There is one CPU, so the *)
(* interleaving is that of the task on it, the next interrupt and, between *)
(* two run_tasks calls, the bootstrap code.  Every action is one critical  *)
(* section of GLOBAL_SCHEDULER (the lock masks interrupts) together with   *)
(* the context switch that ends it.  A call that returns an error without  *)
(* changing the scheduler is a stuttering step and has no action.          *)
(***************************************************************************)
EXTENDS Scheduler

VARIABLES
  tasks,       \* Scheduler::tasks
  current,     \* Scheduler::current, NONE while the bootstrap context runs
  next_id,     \* Scheduler::next_id
  idle_index,  \* Scheduler::idle_index
  ticks,       \* timer::TICKS
  waiting,     \* per slot: the child argument of the wait_for_child call the
               \* task is inside (ANY when it names no child), else NONE
  idle_pc,     \* where the idle task's loop is: "check", "yield" or "halt"
  boot         \* bootstrap code: "code", "switched" away inside run_tasks,
               \* or "returning" (switched back to, idle not yet dropped)

sched == <<tasks, current, next_id, idle_index>>
vars == <<sched, ticks, waiting, idle_pc, boot>>

TypeOK ==
  /\ tasks \in [Slots -> Task]
  /\ current \in Slots \cup {NONE}
  /\ next_id \in TaskIds
  /\ idle_index \in Slots \cup {NONE}
  /\ ticks \in Ticks
  /\ waiting \in [Slots -> TaskIds \cup {ANY, NONE}]
  /\ idle_pc \in {"check", "yield", "halt"}
  /\ boot \in {"code", "switched", "returning"}

Init ==
  /\ tasks = [i \in Slots |-> EmptySlot]
  /\ current = NONE
  /\ next_id = 1
  /\ idle_index = NONE
  /\ ticks = 0
  /\ waiting = [i \in Slots |-> NONE]
  /\ idle_pc = "check"
  /\ boot = "code"

-----------------------------------------------------------------------------
CurrentId == IF current = NONE THEN NONE ELSE tasks[current].id

\* A task, not the idle one, is executing its own code.
TaskRuns == /\ current # NONE
            /\ ~tasks[current].is_idle
            /\ waiting[current] = NONE

KernelTaskRuns == TaskRuns /\ ~tasks[current].user
UserTaskRuns == TaskRuns /\ tasks[current].user
BootstrapRuns == boot = "code"
KernelCodeRuns == KernelTaskRuns \/ BootstrapRuns
IdleRuns == current # NONE /\ tasks[current].is_idle

\* A system call runs with interrupts masked from entry to return, and so
\* does the part of wait_for_child after the waiter is switched back to.
Masked == current # NONE /\ tasks[current].user /\ waiting[current] # NONE

\* The second half of transition_current: pick the next task after the
\* current one has left the CPU in table T, and switch to it.
SwitchFrom(T) ==
  LET next == SelectNext(T, NextSlot(current))
  IN  /\ tasks' = Dispatch(T, next)
      /\ current' = next

-----------------------------------------------------------------------------
(***************************************************************************)
(* Creating tasks.                                                         *)
(***************************************************************************)

\* insert_task / create_user_task in the first free slot.
InsertTask(user) ==
  LET slot == Least(EmptySlots(tasks))
  IN  /\ EmptySlots(tasks) # {}
      /\ next_id < MAX_ID
      /\ tasks' = [tasks EXCEPT ![slot] = NewTask(next_id, CurrentId, FALSE, user)]
      /\ next_id' = next_id + 1
      /\ waiting' = [waiting EXCEPT ![slot] = NONE]

\* spawn_into and spawn_user_with_arguments_and_fds: until the idle task is
\* installed, one slot is kept for it.
SpareSlot ==
  idle_index = NONE => \E i, j \in EmptySlots(tasks) : i # j

SpawnTask(user) ==
  /\ SpareSlot
  /\ InsertTask(user)
  /\ UNCHANGED <<current, idle_index, ticks, idle_pc, boot>>

Spawn == KernelCodeRuns /\ SpawnTask(FALSE)
SpawnUser == (TaskRuns \/ BootstrapRuns) /\ SpawnTask(TRUE)

(***************************************************************************)
(* run_tasks: install the idle task and switch to the first ready task.    *)
(* The bootstrap code regains the CPU when the idle task finds no live     *)
(* task; it then drops the idle task.                                      *)
(***************************************************************************)
RunTasks ==
  LET slot == Least(EmptySlots(tasks))
      T == [tasks EXCEPT ![slot] = NewTask(next_id, NONE, TRUE, FALSE)]
      next == SelectNext(T, 0)
  IN  /\ BootstrapRuns
      /\ idle_index = NONE
      /\ EmptySlots(tasks) # {}
      /\ next_id < MAX_ID
      /\ tasks' = Dispatch(T, next)
      /\ current' = next
      /\ next_id' = next_id + 1
      /\ idle_index' = slot
      /\ waiting' = [waiting EXCEPT ![slot] = NONE]
      /\ idle_pc' = "check"
      /\ boot' = "switched"
      /\ UNCHANGED ticks

BootstrapReturn ==
  /\ boot = "returning"
  /\ boot' = "code"
  /\ IF /\ current = NONE
        /\ idle_index # NONE
        /\ tasks[idle_index].is_idle
        /\ tasks[idle_index].state = "Ready"
     THEN /\ tasks' = RemoveTask(tasks, idle_index)
          /\ idle_index' = NONE
     ELSE UNCHANGED <<tasks, idle_index>>
  /\ UNCHANGED <<current, next_id, ticks, waiting, idle_pc>>

(***************************************************************************)
(* idle_task_entry: check for live tasks, hand over to a ready one, halt   *)
(* until the next interrupt.                                               *)
(***************************************************************************)
IdleCheck ==
  LET T == WakeExpiredSleepers(tasks, ticks)
  IN  /\ IdleRuns
      /\ idle_pc = "check"
      /\ IF HasLiveNonIdleTasks(T)
         THEN /\ tasks' = T
              /\ idle_pc' = "yield"
              /\ UNCHANGED <<current, boot>>
         ELSE /\ tasks' = [T EXCEPT ![current].state = "Ready"]
              /\ current' = NONE
              /\ boot' = "returning"
              /\ UNCHANGED idle_pc
      /\ UNCHANGED <<next_id, idle_index, ticks, waiting>>

IdleYield ==
  /\ IdleRuns
  /\ idle_pc = "yield"
  /\ SwitchFrom(LeaveCpu(tasks, current, "Ready"))
  /\ idle_pc' = "halt"
  /\ UNCHANGED <<next_id, idle_index, ticks, waiting, boot>>

(***************************************************************************)
(* The timer interrupt: on_interrupt, then preempt_from_timer.  It ends a  *)
(* halt of the idle task, unless it came just before the hlt.              *)
(***************************************************************************)
TimerTick ==
  /\ ~Masked
  /\ ticks' = WrapAdd(ticks, 1)
  /\ IF current = NONE
     THEN UNCHANGED <<tasks, current>>
     ELSE SwitchFrom(LeaveCpu(WakeExpiredSleepers(tasks, ticks'), current, "Ready"))
  /\ \/ UNCHANGED idle_pc
     \/ IdleRuns /\ idle_pc = "halt" /\ idle_pc' = "check"
  /\ UNCHANGED <<next_id, idle_index, waiting, boot>>

-----------------------------------------------------------------------------
(***************************************************************************)
(* What the running task does to itself.                                   *)
(***************************************************************************)
YieldNow ==
  /\ TaskRuns
  /\ SwitchFrom(LeaveCpu(tasks, current, "Ready"))
  /\ UNCHANGED <<next_id, idle_index, ticks, waiting, idle_pc, boot>>

BlockNow ==
  /\ TaskRuns
  /\ SwitchFrom(LeaveCpu(tasks, current, "Blocked"))
  /\ UNCHANGED <<next_id, idle_index, ticks, waiting, idle_pc, boot>>

SleepTicks(duration) ==
  /\ TaskRuns
  /\ SwitchFrom(FallAsleep(tasks, current, WrapAdd(ticks, duration)))
  /\ UNCHANGED <<next_id, idle_index, ticks, waiting, idle_pc, boot>>

\* Exit of the current task, in table T: its code is stored, its parent is
\* woken, another task is picked.
ExitIn(T, code) ==
  LET S == [T EXCEPT ![current].exit_code = code]
  IN  SwitchFrom(LeaveCpu(WakeParent(S, current), current, "Terminated"))

\* sys_exit with a code; a return from a kernel task's entry or a fault in a
\* user task with none.
ExitCurrent(code) ==
  /\ TaskRuns
  /\ tasks[current].user \/ code = NONE
  /\ ExitIn(tasks, code)
  /\ UNCHANGED <<next_id, idle_index, ticks, waiting, idle_pc, boot>>

\* Ctrl-C while a user task is interrupted.
ExitCurrentGroup(code) ==
  /\ UserTaskRuns
  /\ ExitIn(Kill(tasks, Siblings(tasks, current), code), code)
  /\ UNCHANGED <<next_id, idle_index, ticks, waiting, idle_pc, boot>>

\* One iteration of the loop of wait_for_child: return (with or without a
\* child) or block; a blocked waiter runs the iteration again when resumed.
\* The reap of a user task fails, and leaves it in the table, when its
\* address space cannot be destroyed.
WaitForChild(child) ==
  LET me == CurrentId
      dead == TerminatedChildren(tasks, me, child)
  IN  /\ current # NONE
      /\ ~tasks[current].is_idle
      /\ waiting[current] \in {NONE, child}
      /\ \/ /\ dead # {}
            /\ \/ tasks' = RemoveTask(tasks, Least(dead))
               \/ tasks[Least(dead)].user /\ UNCHANGED tasks
            /\ waiting' = [waiting EXCEPT ![current] = NONE]
            /\ UNCHANGED current
         \/ /\ Children(tasks, me, child) = {}
            /\ waiting' = [waiting EXCEPT ![current] = NONE]
            /\ UNCHANGED <<tasks, current>>
         \/ /\ Children(tasks, me, child) # {}
            /\ dead = {}
            /\ waiting' = [waiting EXCEPT ![current] = child]
            /\ SwitchFrom(LeaveCpu(tasks, current, "Blocked"))
      /\ UNCHANGED <<next_id, idle_index, ticks, idle_pc, boot>>

\* A waiter switched back to by the scheduler.
WaitResume ==
  /\ current # NONE
  /\ waiting[current] # NONE
  /\ WaitForChild(waiting[current])

-----------------------------------------------------------------------------
(***************************************************************************)
(* What a task or the bootstrap code does to other tasks.                  *)
(***************************************************************************)
WakeTask(id) ==
  /\ KernelCodeRuns
  /\ tasks' = WakeBlocked(tasks, SlotsOf(tasks, id))
  /\ UNCHANGED <<current, next_id, idle_index, ticks, waiting, idle_pc, boot>>

\* Descriptor activity of the running task, or a key while a user task runs.
WakeAllBlockedTasks ==
  /\ TaskRuns
  /\ tasks' = WakeAllBlocked(tasks)
  /\ UNCHANGED <<current, next_id, idle_index, ticks, waiting, idle_pc, boot>>

TerminateTask(id, code) ==
  /\ KernelCodeRuns
  /\ \E i \in SlotsOf(tasks, id) \ {current} :
        /\ ~tasks[i].is_idle
        /\ tasks[i].state # "Terminated"
        /\ tasks' = WakeParent(Kill(tasks, {i}, code), i)
  /\ UNCHANGED <<current, next_id, idle_index, ticks, waiting, idle_pc, boot>>

ReapTerminated(id) ==
  /\ KernelCodeRuns
  /\ \E i \in SlotsOf(tasks, id) \ {current} :
        /\ tasks[i].state = "Terminated"
        /\ tasks' = RemoveTask(tasks, i)
  /\ UNCHANGED <<current, next_id, idle_index, ticks, waiting, idle_pc, boot>>

-----------------------------------------------------------------------------
Next ==
  \/ Spawn
  \/ SpawnUser
  \/ RunTasks
  \/ BootstrapReturn
  \/ IdleCheck
  \/ IdleYield
  \/ TimerTick
  \/ YieldNow
  \/ BlockNow
  \/ \E duration \in 1..MAX_SLEEP : SleepTicks(duration)
  \/ \E code \in ExitCodes \cup {NONE} : ExitCurrent(code)
  \/ \E code \in ExitCodes : ExitCurrentGroup(code)
  \/ \E child \in TaskIds \cup {ANY} : WaitForChild(child)
  \/ \E id \in TaskIds : WakeTask(id)
  \/ WakeAllBlockedTasks
  \/ \E id \in TaskIds, code \in ExitCodes : TerminateTask(id, code)
  \/ \E id \in TaskIds : ReapTerminated(id)

Spec == Init /\ [][Next]_vars

(***************************************************************************)
(* Fairness.  The timer keeps interrupting code that does not mask it; the *)
(* CPU keeps executing the idle loop and the end of run_tasks; a waiter    *)
(* switched back to re-examines its children before it can be preempted    *)
(* for ever (a few instructions against a 10 ms tick).                     *)
(***************************************************************************)
Fairness ==
  /\ WF_vars(TimerTick)
  /\ WF_vars(IdleCheck)
  /\ WF_vars(BootstrapReturn)
  /\ SF_vars(WaitResume)

FairSpec == Spec /\ Fairness

-----------------------------------------------------------------------------
(***************************************************************************)
(* Safety.                                                                 *)
(***************************************************************************)
\* At most one task is Running and `current` names it: what the unit tests'
\* assert_scheduler_invariants demands after single operations holds after
\* any interleaving of spawns, interrupts, exits, kills and reaps.
RunningIsCurrent ==
  \A i \in Slots : tasks[i].state = "Running" <=> i = current

\* While a task has the CPU the idle task is there to fall back on: it is
\* installed and, unless it is the one running, Ready.  select_next then
\* never reports NoRunnableTasks, so a block, sleep or exit never switches
\* to the stale BOOTSTRAP_CONTEXT and wait_for_child's `?` never leaves a
\* blocked task executing.
IdleStandsBy ==
  /\ idle_index # NONE => tasks[idle_index].is_idle
  /\ current # NONE =>
       /\ idle_index # NONE
       /\ current # idle_index => tasks[idle_index].state = "Ready"

\* As long as the idle task is not installed a slot is left for it, so that
\* run_tasks can always install it.
IdleSlotKept == idle_index = NONE => EmptySlots(tasks) # {}

\* Ids identify tasks: no two slots hold the same id, none holds an id that
\* is still to be handed out, and a parent is older than its child.
IdsIdentify ==
  \A i \in Slots : tasks[i].state # "Empty" =>
    /\ tasks[i].id \in 1..(next_id - 1)
    /\ tasks[i].parent < tasks[i].id
    /\ \A j \in Slots \ {i} : tasks[j].state # "Empty" => tasks[j].id # tasks[i].id

\* No wakeup of a waiting parent is lost: a task blocked in wait_for_child
\* has a child it waits for, and none that has terminated already.
WaiterHasLiveChild ==
  \A i \in Slots : tasks[i].state = "Blocked" /\ waiting[i] # NONE =>
    /\ Children(tasks, tasks[i].id, waiting[i]) # {}
    /\ TerminatedChildren(tasks, tasks[i].id, waiting[i]) = {}

\* A sleeper's deadline is ahead of the tick counter, by no more than the
\* longest sleep, across the counter's wrap: nobody oversleeps a tick.
SleepersNotOverdue ==
  \A i \in Slots : tasks[i].state = "Sleeping" =>
    /\ tasks[i].wake_at # NONE
    /\ WrapSub(tasks[i].wake_at, ticks) \in 1..MAX_SLEEP

\* A sleeper is not woken early either: it leaves its sleep in the very tick
\* it asked for, before and after the counter wraps, unless it is killed.
SleepersWakeOnTime ==
  [][\A i \in Slots :
       tasks[i].state = "Sleeping" /\ tasks'[i].state \notin {"Sleeping", "Terminated"}
         => ticks' = tasks[i].wake_at]_vars

\* The bootstrap code regains the CPU only when nobody is left behind: the
\* tasks in the table have terminated or have not started yet.
NobodyLeftBehind ==
  current = NONE =>
    \A i \in Slots : tasks[i].state \in {"Empty", "Ready", "Terminated"}

(***************************************************************************)
(* Refinement: the abstract life of a task id, read off the table.         *)
(***************************************************************************)
LifeOf(id) ==
  IF next_id <= id THEN "unborn"
  ELSE IF \E i \in Slots : tasks[i].id = id
       THEN LET t == tasks[CHOOSE i \in Slots : tasks[i].id = id]
            IN  IF t.is_idle THEN "idle"
                ELSE IF t.state = "Terminated" THEN "zombie" ELSE "live"
       ELSE "gone"

CodeOf(id) ==
  IF \E i \in Slots : tasks[i].id = id /\ tasks[i].state = "Terminated"
  THEN tasks[CHOOSE i \in Slots : tasks[i].id = id].exit_code
  ELSE NONE

Lifecycle ==
  INSTANCE TaskLifecycle
    WITH MaxId <- MAX_ID, Codes <- ExitCodes,
         life <- [id \in TaskIds |-> LifeOf(id)],
         code <- [id \in TaskIds |-> CodeOf(id)]

\* The scheduler implements TaskLifecycle: ids are issued in order and never
\* reused, a task terminates once, its exit code survives later kills and
\* group exits until it is reaped, and it is reaped once.
ImplementsLifecycle == Lifecycle!LifecycleSpec

(***************************************************************************)
(* Liveness.                                                               *)
(***************************************************************************)
\* Round robin: a ready task does not stay ready for ever while the timer
\* ticks and the scheduler runs.
NoStarvation ==
  \A i \in Slots :
    (current # NONE /\ tasks[i].state = "Ready" /\ ~tasks[i].is_idle)
      ~> tasks[i].state # "Ready"

\* Every sleeper is woken (or killed).
SleepersWake ==
  \A i \in Slots : tasks[i].state = "Sleeping" ~> tasks[i].state # "Sleeping"

\* A wait_for_child call whose child has terminated returns (or its caller
\* is killed).
WaitReturns ==
  \A i \in Slots :
    (/\ i \in Live(tasks)
     /\ waiting[i] # NONE
     /\ TerminatedChildren(tasks, tasks[i].id, waiting[i]) # {})
      ~> (waiting[i] = NONE \/ tasks[i].state = "Terminated")

=============================================================================
