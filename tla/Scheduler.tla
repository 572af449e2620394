------------------------------ MODULE Scheduler ------------------------------
(***************************************************************************)
(* The task table of src/kernel/src/tasking/scheduler.rs and the pure      *)
(* operations of `impl Scheduler` on it.                                   *)
(*                                                                         *)
(* A table T is a function from slots to task records.  The fields kept    *)
(* are the ones the scheduler's decisions read: id, parent, state,         *)
(* exit_code, wake_at, is_idle and whether the task has a user part; the   *)
(* saved registers and the stack are abstracted away.  An absent slot      *)
(* (Option::None) is the record EmptySlot, and an absent id, index, exit   *)
(* code or deadline is NONE.                                               *)
(***************************************************************************)
EXTENDS Integers

CONSTANTS
  MAX_TASKS,   \* slots in the task table (16 in the code)
  MAX_ID,      \* the last value of next_id (u64::MAX in the code)
  ExitCodes,   \* exit codes tasks pass to exit or are killed with
  HALF,        \* 2^63 in the code: half of the tick counter's range
  MAX_SLEEP    \* the longest sleep a caller asks for, in ticks

ASSUME SchedulerAssumption ==
  /\ MAX_TASKS \in Nat \ {0, 1}
  /\ MAX_ID \in Nat \ {0}
  /\ ExitCodes \subseteq Nat
  /\ HALF \in Nat \ {0}
  /\ MAX_SLEEP \in 1..HALF

NONE == -1
ANY == 0

Slots == 0..(MAX_TASKS - 1)
TaskIds == 1..MAX_ID
TICKS == 2 * HALF
Ticks == 0..(TICKS - 1)

TaskState == {"Ready", "Running", "Blocked", "Sleeping", "Terminated"}

Task == [id        : TaskIds \cup {0},
         parent    : TaskIds \cup {NONE},
         state     : TaskState \cup {"Empty"},
         exit_code : ExitCodes \cup {NONE},
         wake_at   : Ticks \cup {NONE},
         is_idle   : BOOLEAN,
         user      : BOOLEAN]

EmptySlot == [id |-> 0, parent |-> NONE, state |-> "Empty", exit_code |-> NONE,
              wake_at |-> NONE, is_idle |-> FALSE, user |-> FALSE]

NewTask(id, parent, idle, user) ==
  [id |-> id, parent |-> parent, state |-> "Ready", exit_code |-> NONE,
   wake_at |-> NONE, is_idle |-> idle, user |-> user]

-----------------------------------------------------------------------------
(***************************************************************************)
(* u64 arithmetic on ticks: wrapping_add and wrapping_sub.                 *)
(***************************************************************************)
WrapAdd(t, d) == IF t + d < TICKS THEN t + d ELSE t + d - TICKS

WrapSub(a, b) == IF b <= a THEN a - b ELSE a - b + TICKS

\* Mutant: a comparison that ignores the wrap.
ExpiredUnwrapped(now, deadline) == deadline <= now

\* A deadline counts as reached during the half range that follows it.
Expired(now, deadline) == WrapSub(now, deadline) < HALF

-----------------------------------------------------------------------------
(***************************************************************************)
(* Looking things up.                                                      *)
(***************************************************************************)
Least(S) == CHOOSE i \in S : \A j \in S : i <= j

EmptySlots(T) == {i \in Slots : T[i].state = "Empty"}

\* task(id) and the `position(... task.id == id)` searches.
SlotsOf(T, id) == {i \in Slots : T[i].state # "Empty" /\ T[i].id = id}

Live(T) == {i \in Slots : T[i].state \notin {"Empty", "Terminated"}}

HasLiveNonIdleTasks(T) == \E i \in Live(T) : ~T[i].is_idle

\* The children wait_for_child(child) of task `parent` may return.
Children(T, parent, child) ==
  {i \in Slots : /\ T[i].state # "Empty"
                 /\ T[i].parent = parent
                 /\ child # ANY => T[i].id = child}

TerminatedChildren(T, parent, child) ==
  {i \in Children(T, parent, child) : T[i].state = "Terminated"}

-----------------------------------------------------------------------------
(***************************************************************************)
(* select_next: round robin from slot `start`, ordinary tasks before the   *)
(* idle task.  SelectNext is the slot picked, NONE when no task is ready.  *)
(***************************************************************************)
\* Mutant: every search starts at the first slot.
FirstSlot(i) == 0

NextSlot(i) == IF i + 1 < MAX_TASKS THEN i + 1 ELSE 0

Distance(start, i) == IF start <= i THEN i - start ELSE i - start + MAX_TASKS

ReadySlots(T, idle) == {i \in Slots : T[i].state = "Ready" /\ T[i].is_idle = idle}

Candidates(T) ==
  IF ReadySlots(T, FALSE) # {} THEN ReadySlots(T, FALSE) ELSE ReadySlots(T, TRUE)

Nearest(S, start) ==
  CHOOSE i \in S : \A j \in S : Distance(start, i) <= Distance(start, j)

SelectNext(T, start) ==
  IF Candidates(T) = {} THEN NONE ELSE Nearest(Candidates(T), start)

\* The table once the picked task (if any) is Running.
Dispatch(T, next) ==
  [i \in Slots |-> IF i = next THEN [T[i] EXCEPT !.state = "Running"] ELSE T[i]]

-----------------------------------------------------------------------------
(***************************************************************************)
(* State changes of single tasks and of groups of tasks.                   *)
(***************************************************************************)
\* The first half of transition_current: the running task leaves the CPU.
LeaveCpu(T, i, state) ==
  [T EXCEPT ![i] = [@ EXCEPT !.state = state, !.wake_at = NONE]]

\* Mutant: the deadline is not stored.
FallAsleepForgetful(T, i, deadline) ==
  [T EXCEPT ![i] = [@ EXCEPT !.state = "Sleeping", !.wake_at = NONE]]

\* The first half of sleep_current_until.
FallAsleep(T, i, deadline) ==
  [T EXCEPT ![i] = [@ EXCEPT !.state = "Sleeping", !.wake_at = deadline]]

WakeExpiredSleepers(T, now) ==
  [i \in Slots |->
     IF T[i].state = "Sleeping" /\ T[i].wake_at # NONE /\ Expired(now, T[i].wake_at)
     THEN [T[i] EXCEPT !.state = "Ready", !.wake_at = NONE]
     ELSE T[i]]

WakeBlocked(T, S) ==
  [i \in Slots |-> IF i \in S /\ T[i].state = "Blocked"
                   THEN [T[i] EXCEPT !.state = "Ready"]
                   ELSE T[i]]

WakeAllBlocked(T) == WakeBlocked(T, Slots)

\* Mutant: the parent is not told.
WakeNobody(T, child) == T

WakeParent(T, child) == WakeBlocked(T, SlotsOf(T, T[child].parent))

\* Mutant: a task that has terminated already is killed again.
KillAgain(T, S, code) ==
  [i \in Slots |-> IF i \in S
                   THEN [T[i] EXCEPT !.state = "Terminated", !.exit_code = code]
                   ELSE T[i]]

\* terminate_task and the sibling loop of a group exit.
Kill(T, S, code) ==
  [i \in Slots |-> IF i \in S /\ T[i].state # "Terminated"
                   THEN [T[i] EXCEPT !.state = "Terminated", !.exit_code = code]
                   ELSE T[i]]

\* The other children of the parent of the task in slot i.
Siblings(T, i) ==
  {j \in Slots \ {i} : /\ T[i].parent # NONE
                       /\ T[j].state # "Empty"
                       /\ T[j].parent = T[i].parent}

RemoveTask(T, i) == [T EXCEPT ![i] = EmptySlot]

=============================================================================
