---------------------------- MODULE Tasking_proofs ----------------------------
(***************************************************************************)
(* Safety of Tasking, and its refinement of TaskLifecycle, for every table *)
(* size, id range and tick range.                                          *)
(*                                                                         *)
(* The properties of Tasking are not inductive one by one: that an exit    *)
(* finds another task to run needs the idle task to be Ready, that needs   *)
(* the idle task to be the only one of its kind and out of reach of kills, *)
(* and so on.  IInv collects what is.  Its larger part, TableInv, speaks   *)
(* of the table without `current`; it is preserved by each operation on    *)
(* the table, and SwitchLemma takes it across select_next.                 *)
(***************************************************************************)
EXTENDS Tasking, WellFoundedInduction, TLAPS

-----------------------------------------------------------------------------
(***************************************************************************)
(* The operators of Scheduler: which slot a search returns and what        *)
(* select_next picks.                                                      *)
(***************************************************************************)
\* A non-empty set of naturals has a least element: the slot searches of
\* scheduler.rs, which scan upwards, find something when it is there.
LEMMA LeastNatural ==
  ASSUME NEW S \in SUBSET Nat, S # {}
  PROVE  \E i \in S : \A j \in S : i <= j
<1> DEFINE R == {p \in Nat \X Nat : p[1] < p[2]}
<1>1. IsWellFoundedOn(R, Nat)
  BY NatLessThanWellFounded, Zenon DEF OpToRel
<1>2. PICK i \in S : \A j \in S : ~(<<j, i>> \in R)
  <2> HIDE DEF R
  <2> QED BY <1>1, WFMin, Zenon
<1>3. ASSUME NEW j \in S PROVE i <= j
  <2>1. j < i => <<j, i>> \in R
    BY Zenon
  <2>2. QED BY <2>1, <1>2
<1>4. QED BY <1>3, Zenon

\* `position(...)` returns a slot of the set it searches.
LEMMA LeastIsMember ==
  ASSUME NEW S \in SUBSET Slots, S # {}
  PROVE  Least(S) \in S
<1>1. S \in SUBSET Nat
  BY SchedulerAssumption DEF Slots
<1>2. \E i \in S : \A j \in S : i <= j
  BY <1>1, LeastNatural, Zenon
<1>3. QED BY <1>2, Zenon DEF Least

\* The round-robin scan from any start finds the first of the slots it is for.
LEMMA NearestIsMember ==
  ASSUME NEW S \in SUBSET Slots, S # {}, NEW start \in Slots
  PROVE  /\ Nearest(S, start) \in S
         /\ \A j \in S : Distance(start, Nearest(S, start)) <= Distance(start, j)
<1> DEFINE D == {Distance(start, i) : i \in S}
<1>1. \A i \in Slots : Distance(start, i) \in Nat
  BY SchedulerAssumption DEF Slots, Distance
<1>2. D \in SUBSET Nat /\ D # {}
  BY <1>1, Zenon
<1>3. PICK d \in D : \A e \in D : d <= e
  <2> HIDE DEF D
  <2> QED BY <1>2, LeastNatural, Zenon
<1>4. PICK i \in S : d = Distance(start, i)
  BY Zenon
<1>5. \A j \in S : Distance(start, i) <= Distance(start, j)
  BY <1>3, <1>4, Zenon
<1>6. \E k \in S : \A j \in S : Distance(start, k) <= Distance(start, j)
  BY <1>5, Zenon
<1>7. QED BY <1>6, Zenon DEF Nearest

\* select_next takes the ready tasks of a kind in circular order from its start.
THEOREM SelectNextInOrder ==
  ASSUME NEW T, NEW start \in Slots, NEW i \in Candidates(T)
  PROVE  Distance(start, SelectNext(T, start)) <= Distance(start, i)
<1>1. Candidates(T) \in SUBSET Slots /\ Candidates(T) # {}
  BY Zenon DEF Candidates, ReadySlots
<1>2. QED BY <1>1, NearestIsMember, Zenon DEF SelectNext

\* The slot after any slot is a slot.
LEMMA NextSlotType ==
  ASSUME NEW i \in Slots
  PROVE  NextSlot(i) \in Slots
BY SchedulerAssumption DEF Slots, NextSlot

\* select_next picks a ready task; it reports NoRunnableTasks only when none
\* is ready; it falls back on the idle task only when no ordinary task is
\* ready.
THEOREM SelectNextCorrect ==
  ASSUME NEW T \in [Slots -> Task], NEW start \in Slots
  PROVE  LET next == SelectNext(T, start)
         IN  /\ next \in Slots \cup {NONE}
             /\ next # NONE => T[next].state = "Ready"
             /\ next = NONE => \A i \in Slots : T[i].state # "Ready"
             /\ next # NONE /\ T[next].is_idle =>
                  \A i \in Slots : T[i].state = "Ready" => T[i].is_idle
<1> DEFINE C == Candidates(T)
           next == SelectNext(T, start)
<1>1. \A i \in Slots : T[i].is_idle \in BOOLEAN
  BY Zenon DEF Task
<1>2. C \in SUBSET Slots
  BY Zenon DEF Candidates, ReadySlots
<1>3. NONE \notin Slots
  BY SchedulerAssumption DEF NONE, Slots
<1>4. CASE C = {}
  <2>1. next = NONE
    BY <1>4, Zenon DEF SelectNext
  <2>2. \A i \in Slots : T[i].state # "Ready"
    BY <1>1, <1>4, Zenon DEF Candidates, ReadySlots
  <2>3. QED BY <2>1, <2>2, Zenon
<1>5. CASE C # {}
  <2>1. next = Nearest(C, start)
    BY <1>5, Zenon DEF SelectNext
  <2>2. next \in C
    <3> HIDE DEF C
    <3> QED BY <1>2, <1>5, <2>1, NearestIsMember, Zenon
  <2>3. next \in Slots /\ T[next].state = "Ready"
    BY <2>2, Zenon DEF Candidates, ReadySlots
  <2>4. ASSUME T[next].is_idle, NEW i \in Slots, T[i].state = "Ready"
        PROVE  T[i].is_idle
    <3> HIDE DEF next
    <3>1. ReadySlots(T, FALSE) = {}
      BY <2>2, <2>4, <1>1, Zenon DEF Candidates, ReadySlots
    <3>2. QED BY <3>1, <2>4, <1>1, Zenon DEF ReadySlots
  <2>5. QED BY <1>3, <2>3, <2>4, Zenon
<1>6. QED BY <1>4, <1>5, Zenon

-----------------------------------------------------------------------------
(***************************************************************************)
(* The invariant.                                                          *)
(***************************************************************************)
Types(T, idle, nid, now, w) ==
  /\ T \in [Slots -> Task]
  /\ idle \in Slots \cup {NONE}
  /\ nid \in TaskIds
  /\ now \in Ticks
  /\ w \in [Slots -> TaskIds \cup {ANY, NONE}]

\* Only the slot idle_index holds an idle task, which is never off the run
\* queue and has no parent.
IdleTable(T, idle) ==
  \A i \in Slots :
    /\ T[i].is_idle <=> i = idle
    /\ T[i].is_idle => T[i].state \in {"Ready", "Running"} /\ T[i].parent = NONE

IdTable(T, nid) ==
  \A i \in Slots :
    IF T[i].state = "Empty" THEN T[i].id = 0
    ELSE /\ T[i].id \in 1..(nid - 1)
         /\ T[i].parent < T[i].id
         /\ \A j \in Slots : T[j].id = T[i].id => j = i

WaiterTable(T, w) ==
  \A i \in Slots : T[i].state = "Blocked" /\ w[i] # NONE =>
    /\ Children(T, T[i].id, w[i]) # {}
    /\ TerminatedChildren(T, T[i].id, w[i]) = {}

SleeperTable(T, now) ==
  \A i \in Slots : T[i].state = "Sleeping" =>
    /\ T[i].wake_at # NONE
    /\ WrapSub(T[i].wake_at, now) \in 1..MAX_SLEEP

TableInv(T, idle, nid, now, w) ==
  /\ Types(T, idle, nid, now, w)
  /\ IdleTable(T, idle)
  /\ IdTable(T, nid)
  /\ WaiterTable(T, w)
  /\ SleeperTable(T, now)

IInv ==
  /\ TypeOK
  /\ TableInv(tasks, idle_index, next_id, ticks, waiting)
  /\ RunningIsCurrent
  /\ boot = "switched" <=> current # NONE
  /\ boot = "code" <=> idle_index = NONE
  /\ IdleSlotKept
  /\ NobodyLeftBehind

-----------------------------------------------------------------------------
(***************************************************************************)
(* Operations that only move tasks between states.                         *)
(***************************************************************************)
SameTasks(T, U) ==
  /\ U \in [Slots -> Task]
  /\ \A i \in Slots :
       /\ U[i].id = T[i].id
       /\ U[i].parent = T[i].parent
       /\ U[i].is_idle <=> T[i].is_idle
       /\ U[i].state = "Empty" <=> T[i].state = "Empty"

\* The idle task stays on the run queue, and a task that newly sleeps has
\* its deadline ahead.
IdleKept(T, U) ==
  \A i \in Slots : T[i].is_idle => U[i].state \in {"Ready", "Running"}

SleepersKept(T, U) ==
  \A i \in Slots : U[i].state = "Sleeping" =>
    T[i].state = "Sleeping" /\ U[i].wake_at = T[i].wake_at

\* Nobody starts waiting for a child, and the parent of a task that
\* terminates is not left blocked.
WaitersKept(T, U, w) ==
  \A i \in Slots : U[i].state = "Blocked" /\ w[i] # NONE =>
    /\ T[i].state = "Blocked"
    /\ \A j \in Slots : U[j].parent = T[i].id /\ U[j].state = "Terminated" =>
         T[j].state = "Terminated"

\* State changes preserve the table invariant.
LEMMA StateChangeLemma ==
  ASSUME NEW T, NEW U, NEW idle, NEW nid, NEW now, NEW w,
         TableInv(T, idle, nid, now, w),
         SameTasks(T, U),
         IdleKept(T, U),
         SleepersKept(T, U),
         WaitersKept(T, U, w)
  PROVE  TableInv(U, idle, nid, now, w)
<1>1. Types(U, idle, nid, now, w)
  BY Zenon DEF TableInv, Types, SameTasks
<1>2. IdleTable(U, idle)
  BY Zenon DEF TableInv, IdleTable, SameTasks, IdleKept
<1>3. IdTable(U, nid)
  BY DEF TableInv, IdTable, SameTasks
<1>4. WaiterTable(U, w)
  <2> SUFFICES ASSUME NEW i \in Slots, U[i].state = "Blocked", w[i] # NONE
               PROVE  /\ Children(U, U[i].id, w[i]) # {}
                      /\ TerminatedChildren(U, U[i].id, w[i]) = {}
    BY Zenon DEF WaiterTable
  <2>1. /\ Children(T, T[i].id, w[i]) # {}
        /\ TerminatedChildren(T, T[i].id, w[i]) = {}
    BY Zenon DEF WaitersKept, TableInv, WaiterTable
  <2>2. Children(U, U[i].id, w[i]) = Children(T, T[i].id, w[i])
    BY Zenon DEF Children, SameTasks
  <2>3. TerminatedChildren(U, U[i].id, w[i]) \subseteq TerminatedChildren(T, T[i].id, w[i])
    BY <2>2 DEF TerminatedChildren, Children, SameTasks, WaitersKept
  <2>4. QED BY <2>1, <2>2, <2>3, Zenon
<1>5. SleeperTable(U, now)
  BY Zenon DEF TableInv, SleeperTable, SleepersKept
<1>6. QED BY <1>1, <1>2, <1>3, <1>4, <1>5, Zenon DEF TableInv

\* `next` is the one Running task.
OnlyRuns(U, next) == \A i \in Slots : U[i].state = "Running" <=> i = next

NoneRuns(U) == \A i \in Slots : U[i].state # "Running"

\* select_next and the switch: from a table in which nobody runs and the
\* idle task is ready, exactly the picked task runs.
LEMMA SwitchLemma ==
  ASSUME NEW T, NEW idle, NEW nid, NEW now, NEW w, NEW start \in Slots,
         TableInv(T, idle, nid, now, w),
         idle # NONE,
         NoneRuns(T)
  PROVE  LET next == SelectNext(T, start)
             U == Dispatch(T, next)
         IN  /\ next \in Slots
             /\ TableInv(U, idle, nid, now, w)
             /\ OnlyRuns(U, next)
<1> DEFINE next == SelectNext(T, start)
           U == Dispatch(T, next)
<1>1. T \in [Slots -> Task]
  BY Zenon DEF TableInv, Types
<1>2. idle \in Slots /\ T[idle].state = "Ready"
  BY Zenon DEF TableInv, Types, IdleTable, NoneRuns
<1>3. next \in Slots /\ T[next].state = "Ready"
  BY <1>1, <1>2, SelectNextCorrect, Zenon
<1> HIDE DEF next
<1>4. \A i \in Slots : U[i] = IF i = next THEN [T[i] EXCEPT !.state = "Running"] ELSE T[i]
  BY Zenon DEF Dispatch
<1>5. SameTasks(T, U)
  <2>1. \A i \in Slots : U[i] \in Task
    <3> TAKE i \in Slots
    <3>1. T[i] \in Task
      BY <1>1, Zenon
    <3>2. [T[i] EXCEPT !.state = "Running"] \in Task
      BY <3>1, Zenon DEF Task, TaskState
    <3>3. QED BY <1>4, <3>1, <3>2, Zenon
  <2>2. U \in [Slots -> Task]
    BY <2>1, Zenon DEF Dispatch
  <2>3. QED BY <1>1, <1>3, <1>4, <2>2, Zenon DEF SameTasks, Task
<1>a. \A i \in Slots : U[i].is_idle = T[i].is_idle /\ U[i].wake_at = T[i].wake_at
                        /\ U[i].state = IF i = next THEN "Running" ELSE T[i].state
  <2> TAKE i \in Slots
  <2>1. T[i] \in Task
    BY <1>1, Zenon
  <2> HIDE DEF U
  <2> QED BY <1>4, <2>1, Zenon DEF Task
<1>6. IdleKept(T, U)
  <2> HIDE DEF U
  <2> QED BY <1>a, Zenon DEF IdleKept, TableInv, IdleTable
<1>7. SleepersKept(T, U)
  BY <1>1, <1>4, Zenon DEF SleepersKept, Task
<1>8. WaitersKept(T, U, w)
  BY <1>1, <1>4, Zenon DEF WaitersKept, Task
<1>9. TableInv(U, idle, nid, now, w)
  <2> HIDE DEF U
  <2> QED BY <1>5, <1>6, <1>7, <1>8, StateChangeLemma, Zenon
<1>10. OnlyRuns(U, next)
  BY <1>1, <1>4, Zenon DEF Task, OnlyRuns, NoneRuns
<1>11. QED BY <1>3, <1>9, <1>10, Zenon DEF next

-----------------------------------------------------------------------------
(***************************************************************************)
(* The table operations one by one.  Each lemma also says what becomes of  *)
(* the Running task and of the free slots.                                 *)
(***************************************************************************)
SameRunning(T, U) ==
  \A i \in Slots : U[i].state = "Running" <=> T[i].state = "Running"

SameEmpty(T, U) ==
  \A i \in Slots : U[i].state = "Empty" <=> T[i].state = "Empty"

SameElsewhere(T, U, i) == \A j \in Slots \ {i} : U[j] = T[j]

\* Nobody newly blocks or falls asleep.
NoneSuspended(T, U) ==
  \A i \in Slots :
    U[i].state \in {"Blocked", "Sleeping"} => T[i].state \in {"Blocked", "Sleeping"}

\* wake_all_blocked, wake and wake_parent.
LEMMA WakeBlockedLemma ==
  ASSUME NEW T, NEW idle, NEW nid, NEW now, NEW w, NEW S,
         TableInv(T, idle, nid, now, w)
  PROVE  LET U == WakeBlocked(T, S)
         IN  /\ TableInv(U, idle, nid, now, w)
             /\ SameRunning(T, U)
             /\ SameEmpty(T, U)
             /\ NoneSuspended(T, U)
<1> DEFINE U == WakeBlocked(T, S)
<1>1. T \in [Slots -> Task]
  BY Zenon DEF TableInv, Types
<1>2. \A i \in Slots : U[i] = IF i \in S /\ T[i].state = "Blocked"
                              THEN [T[i] EXCEPT !.state = "Ready"]
                              ELSE T[i]
  BY Zenon DEF WakeBlocked
<1>3. U \in [Slots -> Task]
  <2>1. ASSUME NEW i \in Slots PROVE U[i] \in Task
    <3>1. T[i] \in Task
      BY <1>1, Zenon
    <3>2. [T[i] EXCEPT !.state = "Ready"] \in Task
      BY <3>1, Zenon DEF Task, TaskState
    <3>3. QED BY <1>2, <3>1, <3>2, Zenon
  <2>2. QED BY <2>1, Zenon DEF WakeBlocked
<1> HIDE DEF U
<1>4. ASSUME NEW i \in Slots
      PROVE  /\ U[i].id = T[i].id
             /\ U[i].parent = T[i].parent
             /\ U[i].is_idle = T[i].is_idle
             /\ U[i].wake_at = T[i].wake_at
             /\ \/ U[i].state = T[i].state
                \/ T[i].state = "Blocked" /\ U[i].state = "Ready"
  <2>1. T[i] \in Task
    BY <1>1, Zenon
  <2>2. QED BY <1>2, <2>1, Zenon DEF Task
<1>5. SameTasks(T, U)
  BY <1>3, <1>4, Zenon DEF SameTasks
<1>6. IdleKept(T, U)
  BY <1>4, Zenon DEF IdleKept, TableInv, IdleTable
<1>7. SleepersKept(T, U) /\ WaitersKept(T, U, w)
  BY <1>4, Zenon DEF SleepersKept, WaitersKept
<1>8. TableInv(U, idle, nid, now, w)
  BY <1>5, <1>6, <1>7, StateChangeLemma, Zenon
<1>9. SameRunning(T, U) /\ SameEmpty(T, U) /\ NoneSuspended(T, U)
  BY <1>4, Zenon DEF SameRunning, SameEmpty, NoneSuspended
<1>10. QED BY <1>8, <1>9, Zenon DEF U

\* wake_expired_sleepers, whatever the time it is given.
LEMMA WakeExpiredLemma ==
  ASSUME NEW T, NEW idle, NEW nid, NEW now, NEW w, NEW later,
         TableInv(T, idle, nid, now, w)
  PROVE  LET U == WakeExpiredSleepers(T, later)
         IN  /\ TableInv(U, idle, nid, now, w)
             /\ SameRunning(T, U)
             /\ SameEmpty(T, U)
             /\ NoneSuspended(T, U)
<1> DEFINE U == WakeExpiredSleepers(T, later)
           Due(i) == /\ T[i].state = "Sleeping"
                     /\ T[i].wake_at # NONE
                     /\ Expired(later, T[i].wake_at)
<1>1. T \in [Slots -> Task]
  BY Zenon DEF TableInv, Types
<1>2. \A i \in Slots : U[i] = IF Due(i)
                              THEN [T[i] EXCEPT !.state = "Ready", !.wake_at = NONE]
                              ELSE T[i]
  BY Zenon DEF WakeExpiredSleepers
<1>3. \A i \in Slots : Due(i) => T[i].state = "Sleeping"
  BY Zenon
<1> HIDE DEF Due
<1>4. U \in [Slots -> Task]
  <2>1. ASSUME NEW i \in Slots PROVE U[i] \in Task
    <3>1. T[i] \in Task
      BY <1>1, Zenon
    <3>2. [T[i] EXCEPT !.state = "Ready", !.wake_at = NONE] \in Task
      BY <3>1, Zenon DEF Task, TaskState
    <3>3. QED BY <1>2, <3>1, <3>2, Zenon
  <2>2. QED BY <2>1, Zenon DEF WakeExpiredSleepers
<1> HIDE DEF U
<1>5. ASSUME NEW i \in Slots
      PROVE  /\ U[i].id = T[i].id
             /\ U[i].parent = T[i].parent
             /\ U[i].is_idle = T[i].is_idle
             /\ \/ U[i].state = T[i].state /\ U[i].wake_at = T[i].wake_at
                \/ T[i].state = "Sleeping" /\ U[i].state = "Ready"
  <2>1. T[i] \in Task
    BY <1>1, Zenon
  <2>2. QED BY <1>2, <1>3, <2>1, Zenon DEF Task
<1>6. SameTasks(T, U)
  BY <1>4, <1>5, Zenon DEF SameTasks
<1>7. IdleKept(T, U)
  BY <1>5, Zenon DEF IdleKept, TableInv, IdleTable
<1>8. SleepersKept(T, U) /\ WaitersKept(T, U, w)
  BY <1>5, Zenon DEF SleepersKept, WaitersKept
<1>9. TableInv(U, idle, nid, now, w)
  BY <1>6, <1>7, <1>8, StateChangeLemma, Zenon
<1>10. SameRunning(T, U) /\ SameEmpty(T, U) /\ NoneSuspended(T, U)
  BY <1>5, Zenon DEF SameRunning, SameEmpty, NoneSuspended
<1>11. QED BY <1>9, <1>10, Zenon DEF U

\* One tick later, the sleepers that wake_expired_sleepers left asleep still
\* have their deadline ahead, also when the counter or the deadline wraps.
LEMMA TickLemma ==
  ASSUME NEW T, NEW idle, NEW nid, NEW now, NEW w,
         TableInv(T, idle, nid, now, w)
  PROVE  LET later == WrapAdd(now, 1)
         IN  TableInv(WakeExpiredSleepers(T, later), idle, nid, later, w)
<1> DEFINE later == WrapAdd(now, 1)
           U == WakeExpiredSleepers(T, later)
<1>1. TableInv(U, idle, nid, now, w)
  BY WakeExpiredLemma, Zenon
<1>2. now \in Ticks /\ later \in Ticks
  BY SchedulerAssumption DEF TableInv, Types, Ticks, TICKS, WrapAdd
<1>3. SleeperTable(U, later)
  <2> SUFFICES ASSUME NEW i \in Slots, U[i].state = "Sleeping"
               PROVE  WrapSub(U[i].wake_at, later) \in 1..MAX_SLEEP
    BY <1>1, Zenon DEF SleeperTable, TableInv
  <2>1. /\ U[i].wake_at \in Ticks \cup {NONE}
        /\ U[i].wake_at # NONE
        /\ WrapSub(U[i].wake_at, now) \in 1..MAX_SLEEP
    <3> HIDE DEF U
    <3> QED BY <1>1, Zenon DEF TableInv, SleeperTable, Types, Task
  <2>2. U[i] = T[i] /\ ~Expired(later, U[i].wake_at)
    <3>1. T[i] \in Task
      BY Zenon DEF TableInv, Types
    <3>2. QED BY <3>1, <2>1, Zenon DEF WakeExpiredSleepers, Task
  <2> HIDE DEF U
  <2>3. WrapSub(U[i].wake_at, later) \in 1..MAX_SLEEP
    <3> DEFINE a == U[i].wake_at
    <3>1. a \in 0..(2 * HALF - 1) /\ now \in 0..(2 * HALF - 1)
      BY <2>1, <1>2, Zenon DEF Ticks, TICKS
    <3>2. later = IF now + 1 < 2 * HALF THEN now + 1 ELSE now + 1 - 2 * HALF
      BY Zenon DEF WrapAdd, TICKS
    <3>3. WrapSub(a, now) \in 1..MAX_SLEEP
      BY <2>1, Zenon
    <3>4. ~(WrapSub(later, a) < HALF)
      BY <2>2, Zenon DEF Expired
    <3> HIDE DEF a, later
    <3>5. WrapSub(a, later) \in 1..MAX_SLEEP
      BY <3>1, <3>2, <3>3, <3>4, SchedulerAssumption DEF WrapSub, TICKS
    <3>6. QED BY <3>5, Zenon DEF a
  <2>4. QED BY <2>3, Zenon
<1>4. QED
  <2> HIDE DEF U, later
  <2>1. Types(U, idle, nid, later, w)
    BY <1>1, <1>2, Zenon DEF TableInv, Types
  <2>2. TableInv(U, idle, nid, later, w)
    BY <1>1, <1>3, <2>1, Zenon DEF TableInv
  <2>3. QED BY <2>2, Zenon DEF U, later

\* The first half of transition_current.  A task blocks here outside
\* wait_for_child, and terminates once its parent has been woken.
LEMMA LeaveCpuLemma ==
  ASSUME NEW T, NEW idle, NEW nid, NEW now, NEW w,
         TableInv(T, idle, nid, now, w),
         NEW i \in Slots, OnlyRuns(T, i),
         NEW state \in {"Ready", "Blocked", "Terminated"},
         T[i].is_idle => state = "Ready",
         state = "Blocked" => w[i] = NONE,
         state = "Terminated" =>
           \A j \in Slots : T[j].id = T[i].parent => T[j].state # "Blocked"
  PROVE  LET U == LeaveCpu(T, i, state)
         IN  /\ TableInv(U, idle, nid, now, w)
             /\ NoneRuns(U)
<1> DEFINE U == LeaveCpu(T, i, state)
<1>1. T \in [Slots -> Task] /\ T[i] \in Task
  BY Zenon DEF TableInv, Types
<1>2. /\ U[i] = [T[i] EXCEPT !.state = state, !.wake_at = NONE]
      /\ \A j \in Slots \ {i} : U[j] = T[j]
  BY <1>1, Zenon DEF LeaveCpu
<1>3. U[i] \in Task
  BY <1>1, <1>2, Zenon DEF Task, TaskState
<1>4. U \in [Slots -> Task]
  BY <1>1, <1>3, Zenon DEF LeaveCpu
<1>5. U[i].state = state /\ U[i].id = T[i].id /\ U[i].parent = T[i].parent
      /\ U[i].is_idle = T[i].is_idle
  BY <1>1, <1>2, Zenon DEF Task
<1> HIDE DEF U
<1>6. SameTasks(T, U)
  BY <1>2, <1>4, <1>5, Zenon DEF SameTasks, OnlyRuns
<1>7. IdleKept(T, U)
  BY <1>2, <1>5, Zenon DEF IdleKept, TableInv, IdleTable
<1>8. SleepersKept(T, U)
  BY <1>2, <1>5, Zenon DEF SleepersKept
<1>9. WaitersKept(T, U, w)
  <2> SUFFICES ASSUME NEW k \in Slots, U[k].state = "Blocked", w[k] # NONE
               PROVE  /\ T[k].state = "Blocked"
                      /\ \A j \in Slots :
                           U[j].parent = T[k].id /\ U[j].state = "Terminated" =>
                             T[j].state = "Terminated"
    BY Zenon DEF WaitersKept
  <2>1. k # i
    BY <1>5, Zenon
  <2>2. U[k] = T[k]
    BY <2>1, <1>2, Zenon
  <2>3. ASSUME NEW j \in Slots, U[j].parent = T[k].id, U[j].state = "Terminated"
        PROVE  T[j].state = "Terminated"
    <3>1. CASE j = i
      <4>1. T[k].state # "Blocked"
        BY <1>5, <2>3, <3>1, Zenon
      <4>2. QED BY <4>1, <2>2, Zenon
    <3>2. CASE j # i
      BY <1>2, <2>3, <3>2, Zenon
    <3>3. QED BY <3>1, <3>2, Zenon
  <2>4. QED BY <2>2, <2>3, Zenon
<1>10. TableInv(U, idle, nid, now, w)
  BY <1>6, <1>7, <1>8, <1>9, StateChangeLemma, Zenon
<1>11. NoneRuns(U)
  BY <1>2, <1>5, Zenon DEF NoneRuns, OnlyRuns
<1>12. QED BY <1>10, <1>11, Zenon DEF U

\* The first half of sleep_current_until, for a sleep of at most MAX_SLEEP.
LEMMA FallAsleepLemma ==
  ASSUME NEW T, NEW idle, NEW nid, NEW now, NEW w,
         TableInv(T, idle, nid, now, w),
         NEW i \in Slots, OnlyRuns(T, i), ~T[i].is_idle,
         NEW d \in 1..MAX_SLEEP
  PROVE  LET U == FallAsleep(T, i, WrapAdd(now, d))
         IN  /\ TableInv(U, idle, nid, now, w)
             /\ NoneRuns(U)
<1> DEFINE a == WrapAdd(now, d)
           U == FallAsleep(T, i, a)
<1>1. T \in [Slots -> Task] /\ T[i] \in Task /\ now \in Ticks
  BY Zenon DEF TableInv, Types
<1>2. a \in Ticks /\ WrapSub(a, now) \in 1..MAX_SLEEP
  BY <1>1, SchedulerAssumption DEF WrapAdd, WrapSub, Ticks, TICKS
<1>3. a # NONE
  BY <1>2, SchedulerAssumption DEF Ticks, TICKS, NONE
<1> HIDE DEF a
<1>4. /\ U[i] = [T[i] EXCEPT !.state = "Sleeping", !.wake_at = a]
      /\ \A j \in Slots \ {i} : U[j] = T[j]
  BY <1>1, Zenon DEF FallAsleep
<1>5. U[i] \in Task
  BY <1>1, <1>2, <1>4, Zenon DEF Task, TaskState
<1>6. U \in [Slots -> Task]
  BY <1>1, <1>5, Zenon DEF FallAsleep
<1>7. /\ U[i].state = "Sleeping" /\ U[i].wake_at = a /\ U[i].id = T[i].id
      /\ U[i].parent = T[i].parent /\ U[i].is_idle = T[i].is_idle
  BY <1>1, <1>4, Zenon DEF Task
<1> HIDE DEF U
<1>8. SameTasks(T, U)
  BY <1>4, <1>6, <1>7, Zenon DEF SameTasks, OnlyRuns
<1>9. Types(U, idle, nid, now, w)
  BY <1>6, Zenon DEF TableInv, Types
<1>10. IdleTable(U, idle) /\ IdTable(U, nid)
  BY <1>4, <1>7, <1>8 DEF TableInv, IdleTable, IdTable, SameTasks
<1>11. WaiterTable(U, w)
  <2> SUFFICES ASSUME NEW k \in Slots, U[k].state = "Blocked", w[k] # NONE
               PROVE  /\ Children(U, U[k].id, w[k]) # {}
                      /\ TerminatedChildren(U, U[k].id, w[k]) = {}
    BY Zenon DEF WaiterTable
  <2>1. U[k] = T[k]
    BY <1>4, <1>7, Zenon
  <2>2. /\ Children(T, U[k].id, w[k]) # {}
        /\ TerminatedChildren(T, U[k].id, w[k]) = {}
    BY <2>1, Zenon DEF TableInv, WaiterTable
  <2>3. Children(U, U[k].id, w[k]) = Children(T, U[k].id, w[k])
    BY <1>8 DEF Children, SameTasks
  <2>4. \A j \in Slots : U[j].state = "Terminated" => T[j].state = "Terminated"
    BY <1>4, <1>7, Zenon
  <2>5. QED BY <2>2, <2>3, <2>4, Zenon DEF TerminatedChildren, Children
<1>12. SleeperTable(U, now)
  BY <1>2, <1>3, <1>4, <1>7, Zenon DEF TableInv, SleeperTable
<1>13. NoneRuns(U)
  BY <1>4, <1>7, Zenon DEF NoneRuns, OnlyRuns
<1>14. QED BY <1>9, <1>10, <1>11, <1>12, <1>13, Zenon DEF U, a, TableInv

\* Table K is T with the tasks of S terminated; exit codes are free.
Killed(T, K, S) ==
  /\ K \in [Slots -> Task]
  /\ \A k \in Slots :
       /\ K[k].id = T[k].id
       /\ K[k].parent = T[k].parent
       /\ K[k].is_idle <=> T[k].is_idle
       /\ K[k].wake_at = T[k].wake_at
       /\ K[k].state = IF k \in S THEN "Terminated" ELSE T[k].state

\* The tasks in S may die with task i: none of them runs or is the idle task,
\* and they are children of i's parent.
Mortal(T, S, i) ==
  \A j \in S : /\ T[j].state \notin {"Empty", "Running"}
               /\ ~T[j].is_idle
               /\ T[j].parent = T[i].parent

\* What the deaths that turn table T into U leave alone, and that the parent
\* of task i is no longer blocked.
AfterKill(T, U, i) ==
  /\ SameRunning(T, U)
  /\ SameEmpty(T, U)
  /\ NoneSuspended(T, U)
  /\ U[i].parent = T[i].parent
  /\ U[i].is_idle <=> T[i].is_idle
  /\ \A j \in Slots : U[j].id = U[i].parent => U[j].state # "Blocked"

\* terminate_task, and the part of an exit or a group exit that comes before
\* the switch: children of one parent die and that parent is woken.
LEMMA KillLemma ==
  ASSUME NEW T, NEW K, NEW idle, NEW nid, NEW now, NEW w,
         TableInv(T, idle, nid, now, w),
         NEW i \in Slots, NEW S \in SUBSET Slots,
         Killed(T, K, S), Mortal(T, S, i)
  PROVE  /\ TableInv(WakeParent(K, i), idle, nid, now, w)
         /\ AfterKill(T, WakeParent(K, i), i)
<1> DEFINE U == WakeParent(K, i)
           P == SlotsOf(K, K[i].parent)
<1>1. T \in [Slots -> Task] /\ K \in [Slots -> Task]
  BY Zenon DEF TableInv, Types, Killed
<1>2. \A k \in Slots : U[k] = IF k \in P /\ K[k].state = "Blocked"
                              THEN [K[k] EXCEPT !.state = "Ready"]
                              ELSE K[k]
  BY Zenon DEF WakeParent, WakeBlocked
<1>3. U \in [Slots -> Task]
  <2>1. ASSUME NEW k \in Slots PROVE U[k] \in Task
    <3>1. K[k] \in Task
      BY <1>1, Zenon
    <3>2. [K[k] EXCEPT !.state = "Ready"] \in Task
      BY <3>1, Zenon DEF Task, TaskState
    <3>3. QED BY <1>2, <3>1, <3>2, Zenon
  <2>2. QED BY <2>1, Zenon DEF WakeParent, WakeBlocked
<1>4. \A k \in Slots : k \in P <=> K[k].state # "Empty" /\ K[k].id = T[i].parent
  BY Zenon DEF SlotsOf, Killed
<1> HIDE DEF U, P
<1>5. \A k \in Slots :
        /\ U[k].id = T[k].id
        /\ U[k].parent = T[k].parent
        /\ U[k].is_idle <=> T[k].is_idle
        /\ U[k].wake_at = T[k].wake_at
        /\ U[k].state = IF k \in P /\ K[k].state = "Blocked" THEN "Ready" ELSE K[k].state
  <2>1. ASSUME NEW k \in Slots
        PROVE  /\ U[k].id = K[k].id
               /\ U[k].parent = K[k].parent
               /\ U[k].is_idle = K[k].is_idle
               /\ U[k].wake_at = K[k].wake_at
               /\ U[k].state = IF k \in P /\ K[k].state = "Blocked" THEN "Ready" ELSE K[k].state
    <3>1. K[k] \in Task
      BY <1>1, Zenon
    <3>2. QED BY <1>2, <3>1, Zenon DEF Task
  <2>2. QED BY <2>1 DEF Killed
<1>6. \A k \in Slots : K[k].state = IF k \in S THEN "Terminated" ELSE T[k].state
  BY Zenon DEF Killed
<1>7. SameTasks(T, U)
  BY <1>3, <1>5, <1>6 DEF SameTasks, Mortal
<1>8. IdleKept(T, U)
  BY <1>5, <1>6 DEF IdleKept, TableInv, IdleTable, Mortal
<1>9. SleepersKept(T, U)
  BY <1>5, <1>6 DEF SleepersKept, Mortal
<1>10. WaitersKept(T, U, w)
  <2> SUFFICES ASSUME NEW k \in Slots, U[k].state = "Blocked", w[k] # NONE
               PROVE  /\ T[k].state = "Blocked"
                      /\ \A j \in Slots :
                           U[j].parent = T[k].id /\ U[j].state = "Terminated" =>
                             T[j].state = "Terminated"
    BY Zenon DEF WaitersKept
  <2>1. K[k].state = "Blocked" /\ k \notin P
    BY <1>5, Zenon
  <2>2. T[k].state = "Blocked" /\ T[k].id # T[i].parent
    BY <2>1, <1>4, <1>6, Zenon DEF Killed
  <2>3. ASSUME NEW j \in Slots, U[j].parent = T[k].id, U[j].state = "Terminated"
        PROVE  T[j].state = "Terminated"
    <3>1. j \notin S
      BY <1>5, <2>2, <2>3, Zenon DEF Mortal
    <3>2. QED BY <3>1, <1>5, <1>6, <2>3, Zenon
  <2>4. QED BY <2>2, <2>3, Zenon
<1>11. TableInv(U, idle, nid, now, w)
  BY <1>7, <1>8, <1>9, <1>10, StateChangeLemma, Zenon
<1>12. SameRunning(T, U) /\ SameEmpty(T, U) /\ NoneSuspended(T, U)
  BY <1>5, <1>6 DEF SameRunning, SameEmpty, NoneSuspended, Mortal
<1>13. \A j \in Slots : U[j].id = U[i].parent => U[j].state # "Blocked"
  BY <1>4, <1>5, <1>6 DEF Killed, Mortal
<1>14. AfterKill(T, U, i)
  BY <1>5, <1>12, <1>13, Zenon DEF AfterKill
<1>15. QED BY <1>11, <1>14, Zenon DEF U

\* A new task for table T: it has the next id, an older parent if any, and
\* is the idle task only if there is none.
Fresh(t, nid, idle) ==
  /\ t \in Task
  /\ t.id = nid
  /\ t.parent < nid
  /\ t.state = "Ready"
  /\ t.is_idle => idle = NONE /\ t.parent = NONE

Inserted(T, U, w, v, slot, t) ==
  /\ slot \in EmptySlots(T)
  /\ U = [T EXCEPT ![slot] = t]
  /\ v = [w EXCEPT ![slot] = NONE]

\* insert_task: a fresh id in a free slot.
LEMMA InsertLemma ==
  ASSUME NEW T, NEW idle, NEW nid, NEW now, NEW w,
         TableInv(T, idle, nid, now, w),
         NEW slot, NEW t, NEW U, NEW v,
         Fresh(t, nid, idle), nid < MAX_ID,
         Inserted(T, U, w, v, slot, t),
         NEW idl, idl = IF t.is_idle THEN slot ELSE idle
  PROVE  TableInv(U, idl, nid + 1, now, v)
<1> USE DEF Fresh, Inserted
<1>1. /\ T \in [Slots -> Task] /\ nid \in TaskIds
      /\ w \in [Slots -> TaskIds \cup {ANY, NONE}]
      /\ slot \in Slots /\ T[slot].state = "Empty" /\ NONE \notin Slots
  BY SchedulerAssumption DEF TableInv, Types, EmptySlots, NONE, Slots
<1>4. U \in [Slots -> Task] /\ U[slot] = t /\ \A j \in Slots \ {slot} : U[j] = T[j]
  BY <1>1, Zenon
<1>5. v \in [Slots -> TaskIds \cup {ANY, NONE}] /\ v[slot] = NONE
      /\ \A j \in Slots \ {slot} : v[j] = w[j]
  BY <1>1, Zenon
<1>6. nid + 1 \in TaskIds /\ nid \in Nat \ {0}
  BY <1>1, SchedulerAssumption DEF TaskIds
<1>7. Types(U, idl, nid + 1, now, v)
  BY <1>1, <1>4, <1>5, <1>6, Zenon DEF TableInv, Types
<1>8. ~T[slot].is_idle /\ slot # idle
  BY <1>1, Zenon DEF TableInv, IdleTable
<1>9. IdleTable(U, idl)
  BY <1>1, <1>4, <1>8 DEF TableInv, IdleTable
<1>10. IdTable(U, nid + 1)
  <2>1. \A j \in Slots : T[j].id # nid /\ (T[j].state # "Empty" => T[j].id \in 1..nid)
    BY <1>6 DEF TableInv, IdTable
  <2>2. \A i \in Slots \ {slot} : T[i].state # "Empty" =>
          /\ T[i].id \in 1..(nid - 1) /\ T[i].parent < T[i].id
          /\ \A j \in Slots : T[j].id = T[i].id => j = i
    BY Zenon DEF TableInv, IdTable
  <2>3. \A i \in Slots \ {slot} : T[i].state = "Empty" => T[i].id = 0
    BY Zenon DEF TableInv, IdTable
  <2>4. (nid + 1) - 1 = nid
    BY <1>6
  <2>5. QED BY <1>4, <1>6, <2>1, <2>2, <2>3, <2>4 DEF IdTable
<1>11. WaiterTable(U, v)
  <2> SUFFICES ASSUME NEW i \in Slots, U[i].state = "Blocked", v[i] # NONE
               PROVE  /\ Children(U, U[i].id, v[i]) # {}
                      /\ TerminatedChildren(U, U[i].id, v[i]) = {}
    BY Zenon DEF WaiterTable
  <2>1. i # slot /\ U[i] = T[i] /\ v[i] = w[i]
    BY <1>4, <1>5, Zenon
  <2>2. /\ Children(T, U[i].id, v[i]) # {}
        /\ TerminatedChildren(T, U[i].id, v[i]) = {}
    BY <2>1, Zenon DEF TableInv, WaiterTable
  <2>3. Children(T, U[i].id, v[i]) \subseteq Children(U, U[i].id, v[i])
    BY <1>1, <1>4, Zenon DEF Children
  <2>4. TerminatedChildren(U, U[i].id, v[i]) \subseteq TerminatedChildren(T, U[i].id, v[i])
    BY <1>4, Zenon DEF TerminatedChildren, Children
  <2>5. QED BY <2>2, <2>3, <2>4, Zenon
<1>12. SleeperTable(U, now)
  BY <1>4, Zenon DEF TableInv, SleeperTable
<1>13. QED BY <1>7, <1>9, <1>10, <1>11, <1>12, Zenon DEF TableInv

\* reap_terminated frees the slot of a terminated task, the end of run_tasks
\* that of the idle task; no waiter loses a child it still waits for.
LEMMA RemoveLemma ==
  ASSUME NEW T, NEW idle, NEW nid, NEW now, NEW w,
         TableInv(T, idle, nid, now, w),
         NEW i \in Slots, T[i].state = "Terminated" \/ T[i].is_idle
  PROVE  LET U == RemoveTask(T, i)
         IN  /\ TableInv(U, IF i = idle THEN NONE ELSE idle, nid, now, w)
             /\ U[i].state = "Empty"
             /\ SameElsewhere(T, U, i)
<1> DEFINE U == RemoveTask(T, i)
           idl == IF i = idle THEN NONE ELSE idle
<1>1. T \in [Slots -> Task] /\ NONE \notin Slots /\ nid \in TaskIds
  BY SchedulerAssumption DEF TableInv, Types, NONE, Slots
<1>2. /\ EmptySlot.state = "Empty" /\ EmptySlot.id = 0 /\ EmptySlot.is_idle = FALSE
      /\ EmptySlot.parent = NONE
  BY Zenon DEF EmptySlot
<1>3. EmptySlot \in Task
  BY Zenon DEF EmptySlot, Task, TaskState
<1>4. U \in [Slots -> Task] /\ U[i] = EmptySlot /\ \A j \in Slots \ {i} : U[j] = T[j]
  BY <1>1, <1>3, Zenon DEF RemoveTask
<1> HIDE DEF U
<1>5. Types(U, idl, nid, now, w)
  BY <1>4, Zenon DEF TableInv, Types
<1>6. IdleTable(U, idl)
  BY <1>1, <1>2, <1>4, Zenon DEF TableInv, IdleTable
<1>7. IdTable(U, nid)
  <2>1. \A k \in Slots : T[k].state # "Empty" => T[k].id # 0
    BY DEF TableInv, IdTable
  <2>2. QED BY <1>2, <1>4, <2>1 DEF TableInv, IdTable
<1>8. WaiterTable(U, w)
  <2> SUFFICES ASSUME NEW k \in Slots, U[k].state = "Blocked", w[k] # NONE
               PROVE  /\ Children(U, U[k].id, w[k]) # {}
                      /\ TerminatedChildren(U, U[k].id, w[k]) = {}
    BY Zenon DEF WaiterTable
  <2>1. k # i /\ U[k] = T[k]
    BY <1>2, <1>4, Zenon
  <2>2. /\ Children(T, U[k].id, w[k]) # {}
        /\ TerminatedChildren(T, U[k].id, w[k]) = {}
    BY <2>1, Zenon DEF TableInv, WaiterTable
  <2>3. T[k].id # NONE
    <3>1. T[k].id \in 1..(nid - 1)
      BY <2>1, Zenon DEF TableInv, IdTable
    <3>2. QED BY <3>1 DEF NONE
  <2>4. i \notin Children(T, U[k].id, w[k])
    BY <2>1, <2>2, <2>3, Zenon DEF TerminatedChildren, Children, TableInv, IdleTable
  <2>5. Children(T, U[k].id, w[k]) \subseteq Children(U, U[k].id, w[k])
    BY <1>4, <2>4, Zenon DEF Children
  <2>6. TerminatedChildren(U, U[k].id, w[k]) \subseteq TerminatedChildren(T, U[k].id, w[k])
    BY <1>2, <1>4, Zenon DEF TerminatedChildren, Children
  <2>7. QED BY <2>2, <2>5, <2>6, Zenon
<1>9. SleeperTable(U, now)
  BY <1>2, <1>4, Zenon DEF TableInv, SleeperTable
<1>10. QED BY <1>2, <1>4, <1>5, <1>6, <1>7, <1>8, <1>9, Zenon DEF TableInv, U, SameElsewhere

\* A task may record what it waits for when it is not blocked, or has a live
\* child to wait for.
LEMMA WaitingLemma ==
  ASSUME NEW T, NEW idle, NEW nid, NEW now, NEW w,
         TableInv(T, idle, nid, now, w),
         NEW i \in Slots, NEW child \in TaskIds \cup {ANY, NONE},
         \/ T[i].state # "Blocked"
         \/ child = NONE
         \/ /\ Children(T, T[i].id, child) # {}
            /\ TerminatedChildren(T, T[i].id, child) = {}
  PROVE  TableInv(T, idle, nid, now, [w EXCEPT ![i] = child])
<1> DEFINE v == [w EXCEPT ![i] = child]
<1>1. w \in [Slots -> TaskIds \cup {ANY, NONE}]
  BY Zenon DEF TableInv, Types
<1>2. /\ v \in [Slots -> TaskIds \cup {ANY, NONE}]
      /\ v[i] = child
      /\ \A j \in Slots \ {i} : v[j] = w[j]
  BY <1>1, Zenon
<1> HIDE DEF v
<1>3. Types(T, idle, nid, now, v)
  BY <1>2, Zenon DEF TableInv, Types
<1>4. WaiterTable(T, v)
  BY <1>2, Zenon DEF TableInv, WaiterTable
<1>5. QED BY <1>3, <1>4, Zenon DEF TableInv, v

-----------------------------------------------------------------------------
(***************************************************************************)
(* The steps of the system.  A step either switches tasks, or leaves the   *)
(* CPU where it is and changes the table.                                  *)
(***************************************************************************)
\* While a task has the CPU the scheduler is started, the idle task is in the
\* table and the current slot is the only Running one.
LEMMA CurrentLemma ==
  ASSUME IInv, current # NONE
  PROVE  /\ current \in Slots
         /\ idle_index \in Slots
         /\ boot = "switched"
         /\ tasks \in [Slots -> Task]
         /\ OnlyRuns(tasks, current)
BY Zenon DEF IInv, TypeOK, RunningIsCurrent, OnlyRuns

\* A step that ends in transition_current: when the table without its running
\* task satisfies TableInv, so does the system after select_next.
LEMMA SwitchingStep ==
  ASSUME IInv, current # NONE,
         NEW T,
         TableInv(T, idle_index, next_id', ticks', waiting'),
         NoneRuns(T),
         SwitchFrom(T),
         UNCHANGED <<idle_index, boot>>,
         idle_pc' \in {"check", "yield", "halt"}
  PROVE  IInv'
<1> DEFINE next == SelectNext(T, NextSlot(current))
           U == Dispatch(T, next)
<1>1. /\ current \in Slots /\ idle_index \in Slots /\ boot = "switched"
      /\ NONE \notin Slots
  BY CurrentLemma, SchedulerAssumption DEF Slots, NONE
<1>2. NextSlot(current) \in Slots /\ idle_index # NONE
  BY <1>1, NextSlotType, Zenon
<1>3. /\ next \in Slots
      /\ TableInv(U, idle_index, next_id', ticks', waiting')
      /\ OnlyRuns(U, next)
  BY <1>2, SwitchLemma, Zenon
<1>4. tasks' = U /\ current' = next
  BY Zenon DEF SwitchFrom
<1> HIDE DEF U, next
<1>5. TableInv(tasks, idle_index, next_id, ticks, waiting)'
  BY <1>3, <1>4, Zenon
<1>6. RunningIsCurrent'
  BY <1>3, <1>4, Zenon DEF RunningIsCurrent, OnlyRuns
<1>7. TypeOK'
  BY <1>1, <1>3, <1>4, <1>5, Zenon DEF TypeOK, TableInv, Types
<1>8. current' # NONE /\ idle_index' # NONE /\ boot' = "switched"
  BY <1>1, <1>3, <1>4, Zenon
<1>9. QED BY <1>5, <1>6, <1>7, <1>8, Zenon DEF IInv, IdleSlotKept, NobodyLeftBehind

\* A step that leaves the CPU where it is: a spawn, wake, kill or reap.
LEMMA StayingStep ==
  ASSUME IInv,
         TableInv(tasks', idle_index, next_id', ticks', waiting'),
         SameRunning(tasks, tasks'),
         NoneSuspended(tasks, tasks'),
         idle_index = NONE => EmptySlots(tasks') # {},
         UNCHANGED <<current, idle_index, boot>>,
         idle_pc' \in {"check", "yield", "halt"}
  PROVE  IInv'
<1>1. TableInv(tasks, idle_index, next_id, ticks, waiting)'
  BY Zenon
<1>2. TypeOK'
  BY <1>1, Zenon DEF IInv, TypeOK, TableInv, Types
<1>3. RunningIsCurrent'
  BY Zenon DEF IInv, RunningIsCurrent, SameRunning
<1>4. IdleSlotKept'
  BY Zenon DEF IdleSlotKept
<1>5. NobodyLeftBehind'
  <2> SUFFICES ASSUME current = NONE, NEW i \in Slots
               PROVE  tasks'[i].state \in {"Empty", "Ready", "Terminated"}
    BY Zenon DEF NobodyLeftBehind
  <2>1. tasks[i].state \in {"Empty", "Ready", "Terminated"}
    BY Zenon DEF IInv, NobodyLeftBehind
  <2>2. tasks'[i].state \notin {"Running", "Blocked", "Sleeping"}
    BY <2>1, Zenon DEF SameRunning, NoneSuspended
  <2>3. tasks'[i] \in Task
    BY <1>1, Zenon DEF TableInv, Types
  <2>4. QED BY <2>2, <2>3, Zenon DEF Task, TaskState
<1>6. QED BY <1>1, <1>2, <1>3, <1>4, <1>5, Zenon DEF IInv

\* Scheduler::new.
LEMMA InitInv == Init => IInv
<1> SUFFICES ASSUME Init PROVE IInv
  BY Zenon
<1>1. EmptySlot \in Task /\ NONE \notin Slots /\ Slots # {}
  BY SchedulerAssumption DEF EmptySlot, Task, TaskState, NONE, Slots
<1>2. EmptySlot.state = "Empty" /\ EmptySlot.id = 0 /\ EmptySlot.is_idle = FALSE
  BY Zenon DEF EmptySlot
<1>3. \A i \in Slots : tasks[i] = EmptySlot
  BY Zenon DEF Init
<1>4. TypeOK
  BY <1>1, SchedulerAssumption DEF Init, TypeOK, TaskIds, Ticks, TICKS
<1>5. TableInv(tasks, idle_index, next_id, ticks, waiting)
  BY <1>1, <1>2, <1>3, <1>4, Zenon
     DEF Init, TypeOK, TableInv, Types, IdleTable, IdTable, WaiterTable, SleeperTable
<1>6. QED
  BY <1>1, <1>2, <1>3, <1>4, <1>5, Zenon
     DEF Init, IInv, RunningIsCurrent, IdleSlotKept, NobodyLeftBehind, EmptySlots

\* spawn and spawn_user: the slot kept for the idle task stays free.
LEMMA SpawnTaskInv ==
  ASSUME IInv, NEW user \in BOOLEAN, SpawnTask(user)
  PROVE  IInv'
<1> DEFINE slot == Least(EmptySlots(tasks))
<1>1. slot \in EmptySlots(tasks)
  <2>1. EmptySlots(tasks) \in SUBSET Slots /\ EmptySlots(tasks) # {}
    BY Zenon DEF SpawnTask, InsertTask, EmptySlots
  <2>2. QED BY <2>1, LeastIsMember, Zenon
<1>2. /\ next_id < MAX_ID /\ next_id' = next_id + 1
      /\ tasks' = [tasks EXCEPT ![slot] = NewTask(next_id, CurrentId, FALSE, user)]
      /\ waiting' = [waiting EXCEPT ![slot] = NONE]
      /\ UNCHANGED <<current, idle_index, ticks, idle_pc, boot>>
      /\ SpareSlot
  BY Zenon DEF SpawnTask, InsertTask
<1> HIDE DEF slot
<1>3. CurrentId \in TaskIds \cup {NONE} /\ CurrentId < next_id
  <2>1. next_id \in Nat \ {0}
    BY SchedulerAssumption DEF IInv, TypeOK, TaskIds
  <2>2. CASE current = NONE
    BY <2>1, <2>2 DEF CurrentId, NONE
  <2>3. CASE current # NONE
    <3>1. current \in Slots /\ tasks[current].state = "Running"
      BY <2>3, Zenon DEF IInv, TypeOK, RunningIsCurrent
    <3>2. tasks[current].id \in 1..(next_id - 1)
      BY <3>1, Zenon DEF IInv, TableInv, IdTable
    <3>3. next_id \in TaskIds
      BY Zenon DEF IInv, TypeOK
    <3>4. QED BY <2>1, <2>3, <3>2, <3>3, SchedulerAssumption DEF CurrentId, TaskIds
  <2>4. QED BY <2>2, <2>3, Zenon
<1>4. TableInv(tasks, idle_index, next_id, ticks, waiting)
  BY Zenon DEF IInv
<1>5. /\ TableInv(tasks', idle_index, next_id', ticks', waiting')
      /\ tasks'[slot].state = "Ready"
      /\ SameElsewhere(tasks, tasks', slot)
  <2> DEFINE t == NewTask(next_id, CurrentId, FALSE, user)
  <2>1. next_id \in TaskIds
    BY Zenon DEF IInv, TypeOK
  <2>2. Fresh(t, next_id, idle_index) /\ t.is_idle = FALSE /\ t.state = "Ready"
    <3>1. t \in Task
      BY <1>3, <2>1, Zenon DEF NewTask, Task, TaskState
    <3>2. /\ t.id = next_id /\ t.parent = CurrentId /\ t.state = "Ready"
          /\ t.is_idle = FALSE
      BY Zenon DEF NewTask
    <3>3. QED BY <1>3, <3>1, <3>2, Zenon DEF Fresh
  <2>3. Inserted(tasks, tasks', waiting, waiting', slot, t)
    BY <1>1, <1>2, Zenon DEF Inserted
  <2> HIDE DEF t
  <2>4. idle_index = IF t.is_idle THEN slot ELSE idle_index
    BY <2>2, Zenon
  <2>5. TableInv(tasks', idle_index, next_id + 1, ticks, waiting')
    BY <1>2, <1>4, <2>2, <2>3, <2>4, InsertLemma, Zenon
  <2>6. tasks'[slot].state = "Ready" /\ SameElsewhere(tasks, tasks', slot)
    BY <2>2, <2>3, Zenon DEF Inserted, SameElsewhere, EmptySlots, IInv, TypeOK
  <2>7. QED BY <1>2, <2>5, <2>6, Zenon
<1>6. tasks[slot].state = "Empty" /\ slot \in Slots
  BY <1>1, Zenon DEF EmptySlots
<1>7. SameRunning(tasks, tasks') /\ NoneSuspended(tasks, tasks')
  BY <1>5, <1>6, Zenon DEF SameRunning, NoneSuspended, SameElsewhere
<1>8. idle_index = NONE => EmptySlots(tasks') # {}
  <2> SUFFICES ASSUME idle_index = NONE PROVE EmptySlots(tasks') # {}
    BY Zenon
  <2>1. PICK i \in EmptySlots(tasks), j \in EmptySlots(tasks) : i # j
    BY <1>2, Zenon DEF SpareSlot
  <2>2. PICK k \in EmptySlots(tasks) : k # slot
    BY <2>1, Zenon
  <2>3. QED BY <2>2, <1>5, Zenon DEF EmptySlots, SameElsewhere
<1>9. idle_pc' \in {"check", "yield", "halt"}
  BY <1>2, Zenon DEF IInv, TypeOK
<1>10. QED BY <1>2, <1>5, <1>7, <1>8, <1>9, StayingStep, Zenon

\* run_tasks up to the switch.
LEMMA RunTasksInv ==
  ASSUME IInv, RunTasks
  PROVE  IInv'
<1> DEFINE slot == Least(EmptySlots(tasks))
           T == [tasks EXCEPT ![slot] = NewTask(next_id, NONE, TRUE, FALSE)]
           next == SelectNext(T, 0)
           U == Dispatch(T, next)
           v == [waiting EXCEPT ![slot] = NONE]
<1>1. slot \in EmptySlots(tasks)
  <2>1. EmptySlots(tasks) \in SUBSET Slots /\ EmptySlots(tasks) # {}
    BY Zenon DEF RunTasks, EmptySlots
  <2>2. QED BY <2>1, LeastIsMember, Zenon
<1>2. /\ boot = "code" /\ idle_index = NONE /\ next_id < MAX_ID
      /\ tasks' = U /\ current' = next
      /\ next_id' = next_id + 1 /\ idle_index' = slot /\ waiting' = v
      /\ idle_pc' = "check" /\ boot' = "switched" /\ ticks' = ticks
  BY Zenon DEF RunTasks, BootstrapRuns
<1>3. /\ current = NONE /\ NONE \notin Slots /\ 0 \in Slots
      /\ next_id \in Nat \ {0} /\ slot \in Slots
  BY <1>1, <1>2, SchedulerAssumption DEF IInv, TypeOK, TaskIds, Slots, NONE, EmptySlots
<1> HIDE DEF slot
<1>4. TableInv(tasks, idle_index, next_id, ticks, waiting)
  BY Zenon DEF IInv
<1>5. NONE < next_id /\ NONE \in TaskIds \cup {NONE}
  BY <1>3 DEF NONE
<1>6. /\ TableInv(T, slot, next_id + 1, ticks, v)
      /\ T[slot].state = "Ready"
      /\ SameElsewhere(tasks, T, slot)
  <2> DEFINE t == NewTask(next_id, NONE, TRUE, FALSE)
  <2>1. next_id \in TaskIds
    BY Zenon DEF IInv, TypeOK
  <2>2. Fresh(t, next_id, idle_index) /\ t.is_idle = TRUE /\ t.state = "Ready"
    <3>1. t \in Task
      BY <2>1, Zenon DEF NewTask, Task, TaskState
    <3>2. /\ t.id = next_id /\ t.parent = NONE /\ t.state = "Ready"
          /\ t.is_idle = TRUE
      BY Zenon DEF NewTask
    <3>3. QED BY <1>2, <1>5, <3>1, <3>2, Zenon DEF Fresh
  <2>3. Inserted(tasks, T, waiting, v, slot, t)
    BY <1>1, Zenon DEF Inserted
  <2> HIDE DEF t, T, v
  <2>4. slot = IF t.is_idle THEN slot ELSE idle_index
    BY <2>2, Zenon
  <2>5. TableInv(T, slot, next_id + 1, ticks, v)
    BY <1>2, <1>4, <2>2, <2>3, <2>4, InsertLemma, Zenon
  <2>6. T[slot].state = "Ready" /\ SameElsewhere(tasks, T, slot)
    BY <2>2, <2>3, Zenon DEF Inserted, SameElsewhere, EmptySlots, IInv, TypeOK
  <2>7. QED BY <2>5, <2>6, Zenon
<1> HIDE DEF T, v
<1>7. NoneRuns(T)
  BY <1>3, <1>6, Zenon DEF NoneRuns, IInv, RunningIsCurrent, SameElsewhere
<1>8. next \in Slots /\ TableInv(U, slot, next_id + 1, ticks, v) /\ OnlyRuns(U, next)
  BY <1>3, <1>6, <1>7, SwitchLemma, Zenon
<1> HIDE DEF next, U
<1>9. TableInv(tasks, idle_index, next_id, ticks, waiting)'
  BY <1>2, <1>8, Zenon
<1>10. RunningIsCurrent'
  BY <1>2, <1>8, Zenon DEF RunningIsCurrent, OnlyRuns
<1>11. TypeOK'
  BY <1>2, <1>8, <1>9, Zenon DEF TypeOK, TableInv, Types
<1>12. QED BY <1>2, <1>3, <1>8, <1>9, <1>10, <1>11, Zenon
  DEF IInv, IdleSlotKept, NobodyLeftBehind

\* The end of run_tasks.
LEMMA BootstrapReturnInv ==
  ASSUME IInv, BootstrapReturn
  PROVE  IInv'
<1>1. /\ current = NONE /\ idle_index \in Slots /\ idle_index # NONE /\ NONE \notin Slots
  BY SchedulerAssumption DEF IInv, TypeOK, BootstrapReturn, Slots, NONE
<1>2. tasks[idle_index].is_idle /\ tasks[idle_index].state = "Ready"
  BY <1>1, Zenon DEF IInv, TableInv, IdleTable, RunningIsCurrent
<1>3. /\ tasks' = RemoveTask(tasks, idle_index) /\ idle_index' = NONE
      /\ boot' = "code"
      /\ UNCHANGED <<current, next_id, ticks, waiting, idle_pc>>
  BY <1>1, <1>2, Zenon DEF BootstrapReturn
<1>4. TableInv(tasks, idle_index, next_id, ticks, waiting)
  BY Zenon DEF IInv
<1>5. /\ TableInv(tasks', NONE, next_id, ticks, waiting)
      /\ tasks'[idle_index].state = "Empty"
      /\ SameElsewhere(tasks, tasks', idle_index)
  BY <1>1, <1>2, <1>3, <1>4, RemoveLemma, Zenon
<1>6. TableInv(tasks, idle_index, next_id, ticks, waiting)'
  BY <1>3, <1>5, Zenon
<1>7. TypeOK'
  BY <1>1, <1>3, <1>6, Zenon DEF IInv, TypeOK, TableInv, Types
<1>8. RunningIsCurrent'
  BY <1>1, <1>3, <1>5, Zenon DEF IInv, RunningIsCurrent, SameElsewhere
<1>9. IdleSlotKept' /\ NobodyLeftBehind'
  BY <1>1, <1>5, Zenon DEF IInv, IdleSlotKept, NobodyLeftBehind, EmptySlots, SameElsewhere
<1>10. QED BY <1>1, <1>3, <1>6, <1>7, <1>8, <1>9, Zenon DEF IInv

\* One round of the idle loop: either there are live tasks, or the bootstrap
\* code gets the CPU back and nobody is left behind.
LEMMA IdleCheckInv ==
  ASSUME IInv, IdleCheck
  PROVE  IInv'
<1> DEFINE T == WakeExpiredSleepers(tasks, ticks)
<1>1. /\ current # NONE /\ tasks[current].is_idle
      /\ current \in Slots /\ idle_index \in Slots /\ boot = "switched"
      /\ OnlyRuns(tasks, current) /\ tasks \in [Slots -> Task] /\ NONE \notin Slots
  BY CurrentLemma, SchedulerAssumption DEF IdleCheck, IdleRuns, Slots, NONE
<1>2. TableInv(tasks, idle_index, next_id, ticks, waiting)
  BY Zenon DEF IInv
<1>3. /\ TableInv(T, idle_index, next_id, ticks, waiting)
      /\ SameRunning(tasks, T) /\ SameEmpty(tasks, T) /\ NoneSuspended(tasks, T)
  BY <1>2, WakeExpiredLemma, Zenon
<1>4. UNCHANGED <<next_id, idle_index, ticks, waiting>>
  BY Zenon DEF IdleCheck
<1>5. CASE HasLiveNonIdleTasks(T)
  <2>1. tasks' = T /\ idle_pc' = "yield" /\ UNCHANGED <<current, boot>>
    BY <1>5, Zenon DEF IdleCheck
  <2> HIDE DEF T
  <2>2. idle_index # NONE
    BY <1>1, Zenon
  <2>3. QED BY <1>3, <1>4, <2>1, <2>2, StayingStep, Zenon
<1>6. CASE ~HasLiveNonIdleTasks(T)
  <2> DEFINE U == [T EXCEPT ![current].state = "Ready"]
  <2>1. /\ tasks' = U /\ current' = NONE /\ boot' = "returning" /\ idle_pc' = idle_pc
    BY <1>6, Zenon DEF IdleCheck
  <2>2. T \in [Slots -> Task] /\ current = idle_index
    BY <1>1, <1>2, <1>3, Zenon DEF TableInv, Types, IdleTable
  <2>3. \A i \in Slots \ {current} : T[i].state \in {"Empty", "Terminated"}
    BY <1>3, <1>6, <2>2, Zenon DEF HasLiveNonIdleTasks, Live, TableInv, IdleTable
  <2> HIDE DEF T
  <2>4. /\ U[current] = [T[current] EXCEPT !.state = "Ready"]
        /\ \A i \in Slots \ {current} : U[i] = T[i]
    BY <1>1, <2>2, Zenon
  <2>5. T[current].state = "Running"
    BY <1>1, <1>3, Zenon DEF OnlyRuns, SameRunning
  <2> DEFINE t == T[current]
             u == U[current]
  <2>a. t \in Task /\ u = [t EXCEPT !.state = "Ready"]
    BY <1>1, <2>2, <2>4, Zenon
  <2>6. U[current] \in Task
    BY <2>a DEF Task, TaskState
  <2>7. /\ U[current].state = "Ready" /\ U[current].id = T[current].id
        /\ U[current].parent = T[current].parent
        /\ U[current].is_idle = T[current].is_idle
    <3> HIDE DEF t, u
    <3>1. u.state = "Ready" /\ u.id = t.id /\ u.parent = t.parent /\ u.is_idle = t.is_idle
      BY <2>a, Zenon DEF Task
    <3>2. QED BY <3>1, Zenon DEF t, u
  <2>8. U \in [Slots -> Task]
    BY <1>1, <2>2, <2>6, Zenon
  <2> HIDE DEF U
  <2>9. SameTasks(T, U)
    BY <2>4, <2>5, <2>7, <2>8, Zenon DEF SameTasks
  <2>10. IdleKept(T, U) /\ SleepersKept(T, U) /\ WaitersKept(T, U, waiting)
    BY <1>3, <2>3, <2>4, <2>7, Zenon
       DEF IdleKept, SleepersKept, WaitersKept, TableInv, IdleTable
  <2>11. TableInv(U, idle_index, next_id, ticks, waiting)
    BY <1>3, <2>9, <2>10, StateChangeLemma, Zenon
  <2>12. TableInv(tasks, idle_index, next_id, ticks, waiting)'
    BY <1>4, <2>1, <2>11, Zenon
  <2>13. TypeOK'
    BY <1>4, <2>1, <2>12, Zenon DEF IInv, TypeOK, TableInv, Types
  <2>14. ASSUME NEW i \in Slots
         PROVE  U[i].state \in {"Empty", "Ready", "Terminated"}
    <3>1. CASE i = current
      BY <2>7, <3>1, Zenon
    <3>2. CASE i # current
      BY <2>3, <2>4, <3>2, Zenon
    <3>3. QED BY <3>1, <3>2, Zenon
  <2>15. RunningIsCurrent' /\ NobodyLeftBehind'
    BY <1>1, <2>1, <2>14, Zenon DEF RunningIsCurrent, NobodyLeftBehind
  <2>16. IdleSlotKept' /\ idle_index' # NONE
    BY <1>1, <1>4, Zenon DEF IdleSlotKept
  <2>17. QED BY <2>1, <2>12, <2>13, <2>15, <2>16, Zenon DEF IInv
<1>7. QED BY <1>5, <1>6, Zenon

\* A task (or the idle task) goes to the back of the round.
LEMMA RequeueInv ==
  ASSUME IInv, current # NONE,
         SwitchFrom(LeaveCpu(tasks, current, "Ready")),
         UNCHANGED <<next_id, idle_index, ticks, waiting, boot>>,
         idle_pc' \in {"check", "yield", "halt"}
  PROVE  IInv'
<1> DEFINE T == LeaveCpu(tasks, current, "Ready")
<1>1. TableInv(tasks, idle_index, next_id, ticks, waiting)
  BY Zenon DEF IInv
<1>2. current \in Slots /\ OnlyRuns(tasks, current)
  BY CurrentLemma, Zenon
<1>3. TableInv(T, idle_index, next_id, ticks, waiting) /\ NoneRuns(T)
  BY <1>1, <1>2, LeaveCpuLemma, Zenon
<1>4. TableInv(T, idle_index, next_id', ticks', waiting')
  BY <1>3, Zenon
<1>5. SwitchFrom(T)
  BY Zenon
<1> HIDE DEF T
<1>6. QED BY <1>3, <1>4, <1>5, SwitchingStep, Zenon

\* The timer interrupt.
LEMMA TimerTickInv ==
  ASSUME IInv, TimerTick
  PROVE  IInv'
<1>1. TableInv(tasks, idle_index, next_id, ticks, waiting)
  BY Zenon DEF IInv
<1>2. /\ ticks' = WrapAdd(ticks, 1)
      /\ UNCHANGED <<next_id, idle_index, waiting, boot>>
      /\ idle_pc' \in {"check", "yield", "halt"}
  BY Zenon DEF TimerTick, IInv, TypeOK
<1> DEFINE T == WakeExpiredSleepers(tasks, ticks')
<1>3. TableInv(T, idle_index, next_id, ticks', waiting)
  BY <1>1, <1>2, TickLemma, Zenon
<1>4. CASE current = NONE
  <2>1. UNCHANGED <<tasks, current>>
    BY <1>4, Zenon DEF TimerTick
  <2>2. \A i \in Slots : tasks[i].state # "Sleeping"
    BY <1>4, Zenon DEF IInv, NobodyLeftBehind
  <2>3. Types(tasks, idle_index, next_id, ticks', waiting)
    BY <1>1, <1>3, Zenon DEF TableInv, Types
  <2>4. TableInv(tasks', idle_index, next_id', ticks', waiting')
    BY <1>1, <1>2, <2>1, <2>2, <2>3, Zenon DEF TableInv, SleeperTable
  <2>5. SameRunning(tasks, tasks') /\ NoneSuspended(tasks, tasks')
    BY <2>1, Zenon DEF SameRunning, NoneSuspended
  <2>6. idle_index = NONE => EmptySlots(tasks') # {}
    BY <2>1, Zenon DEF IInv, IdleSlotKept
  <2>7. QED BY <1>2, <2>1, <2>4, <2>5, <2>6, StayingStep, Zenon
<1>5. CASE current # NONE
  <2> DEFINE U == LeaveCpu(T, current, "Ready")
  <2>1. SwitchFrom(U)
    BY <1>5, Zenon DEF TimerTick
  <2>2. current \in Slots /\ OnlyRuns(tasks, current)
    BY <1>5, CurrentLemma, Zenon
  <2>3. SameRunning(tasks, T)
    BY <1>1, WakeExpiredLemma, Zenon
  <2> HIDE DEF T
  <2>4. OnlyRuns(T, current)
    BY <2>2, <2>3, Zenon DEF OnlyRuns, SameRunning
  <2>5. TableInv(U, idle_index, next_id, ticks', waiting) /\ NoneRuns(U)
    BY <1>3, <2>2, <2>4, LeaveCpuLemma, Zenon
  <2> HIDE DEF U
  <2>6. TableInv(U, idle_index, next_id', ticks', waiting')
    BY <1>2, <2>5, Zenon
  <2>7. QED BY <1>2, <1>5, <2>1, <2>5, <2>6, SwitchingStep, Zenon
<1>6. QED BY <1>4, <1>5, Zenon

\* block_now and sleep_ticks.
LEMMA BlockNowInv ==
  ASSUME IInv, BlockNow
  PROVE  IInv'
<1> DEFINE T == LeaveCpu(tasks, current, "Blocked")
<1>1. /\ current # NONE /\ waiting[current] = NONE /\ ~tasks[current].is_idle
      /\ SwitchFrom(T)
      /\ UNCHANGED <<next_id, idle_index, ticks, waiting, boot>>
      /\ idle_pc' \in {"check", "yield", "halt"}
  BY Zenon DEF BlockNow, TaskRuns, IInv, TypeOK
<1>2. TableInv(tasks, idle_index, next_id, ticks, waiting)
  BY Zenon DEF IInv
<1>3. current \in Slots /\ OnlyRuns(tasks, current)
  BY <1>1, CurrentLemma, Zenon
<1>4. TableInv(T, idle_index, next_id, ticks, waiting) /\ NoneRuns(T)
  BY <1>1, <1>2, <1>3, LeaveCpuLemma, Zenon
<1> HIDE DEF T
<1>5. TableInv(T, idle_index, next_id', ticks', waiting')
  BY <1>1, <1>4, Zenon
<1>6. QED BY <1>1, <1>4, <1>5, SwitchingStep, Zenon

\* sleep_ticks stores a deadline ahead of the tick counter.
LEMMA SleepTicksInv ==
  ASSUME IInv, NEW duration \in 1..MAX_SLEEP, SleepTicks(duration)
  PROVE  IInv'
<1> DEFINE T == FallAsleep(tasks, current, WrapAdd(ticks, duration))
<1>1. /\ current # NONE /\ ~tasks[current].is_idle
      /\ SwitchFrom(T)
      /\ UNCHANGED <<next_id, idle_index, ticks, waiting, boot>>
      /\ idle_pc' \in {"check", "yield", "halt"}
  BY Zenon DEF SleepTicks, TaskRuns, IInv, TypeOK
<1>2. TableInv(tasks, idle_index, next_id, ticks, waiting)
  BY Zenon DEF IInv
<1>3. current \in Slots /\ OnlyRuns(tasks, current)
  BY <1>1, CurrentLemma, Zenon
<1>4. TableInv(T, idle_index, next_id, ticks, waiting) /\ NoneRuns(T)
  BY <1>1, <1>2, <1>3, FallAsleepLemma, Zenon
<1> HIDE DEF T
<1>5. TableInv(T, idle_index, next_id', ticks', waiting')
  BY <1>1, <1>4, Zenon
<1>6. QED BY <1>1, <1>4, <1>5, SwitchingStep, Zenon

\* An exit that takes the tasks of S, siblings of the current one, along.
LEMMA ExitInv ==
  ASSUME IInv, current # NONE, ~tasks[current].is_idle,
         NEW S \in SUBSET Slots, NEW K, Killed(tasks, K, S),
         Mortal(tasks, S, current),
         SwitchFrom(LeaveCpu(WakeParent(K, current), current, "Terminated")),
         UNCHANGED <<next_id, idle_index, ticks, waiting, idle_pc, boot>>
  PROVE  IInv'
<1> DEFINE U == WakeParent(K, current)
           T == LeaveCpu(U, current, "Terminated")
<1>1. TableInv(tasks, idle_index, next_id, ticks, waiting)
  BY Zenon DEF IInv
<1>2. current \in Slots /\ OnlyRuns(tasks, current)
  BY CurrentLemma, Zenon
<1>3. /\ TableInv(U, idle_index, next_id, ticks, waiting)
      /\ AfterKill(tasks, U, current)
  BY <1>1, <1>2, KillLemma, Zenon
<1>4. SwitchFrom(T)
  BY Zenon
<1> HIDE DEF U
<1>5. OnlyRuns(U, current) /\ ~U[current].is_idle
  BY <1>2, <1>3, Zenon DEF OnlyRuns, SameRunning, AfterKill
<1>6. TableInv(T, idle_index, next_id, ticks, waiting) /\ NoneRuns(T)
  BY <1>2, <1>3, <1>5, LeaveCpuLemma, Zenon DEF AfterKill
<1> HIDE DEF T
<1>7. TableInv(T, idle_index, next_id', ticks', waiting')
  BY <1>6, Zenon
<1>8. idle_pc' \in {"check", "yield", "halt"}
  BY Zenon DEF IInv, TypeOK
<1>9. QED BY <1>4, <1>6, <1>7, <1>8, SwitchingStep, Zenon

\* Storing an exit code terminates nobody.
LEMMA StoreCodeLemma ==
  ASSUME NEW T, T \in [Slots -> Task], NEW K, NEW S, Killed(T, K, S),
         NEW i \in Slots, NEW code \in ExitCodes \cup {NONE}
  PROVE  Killed(T, [K EXCEPT ![i].exit_code = code], S)
<1> DEFINE L == [K EXCEPT ![i].exit_code = code]
           k == K[i]
           l == [k EXCEPT !.exit_code = code]
<1>1. K \in [Slots -> Task]
  BY Zenon DEF Killed
<1>2. L[i] = l /\ (\A j \in Slots \ {i} : L[j] = K[j]) /\ L = [K EXCEPT ![i] = l]
  BY <1>1, Zenon
<1>3. k \in Task
  BY <1>1, Zenon
<1> HIDE DEF k
<1>4. l \in Task
  BY <1>3, Zenon DEF Task
<1>5. /\ l.id = k.id /\ l.parent = k.parent /\ l.state = k.state
      /\ l.wake_at = k.wake_at /\ l.is_idle = k.is_idle
  BY <1>3, Zenon DEF Task
<1> HIDE DEF l
<1>6. L \in [Slots -> Task]
  BY <1>1, <1>2, <1>4, Zenon
<1> HIDE DEF L
<1>7. ASSUME NEW j \in Slots
      PROVE  /\ L[j].id = T[j].id
             /\ L[j].parent = T[j].parent
             /\ L[j].is_idle <=> T[j].is_idle
             /\ L[j].wake_at = T[j].wake_at
             /\ L[j].state = IF j \in S THEN "Terminated" ELSE T[j].state
  <2>1. CASE j = i
    BY <2>1, <1>2, <1>5, Zenon DEF Killed, k
  <2>2. CASE j # i
    BY <2>2, <1>2, Zenon DEF Killed
  <2>3. QED BY <2>1, <2>2, Zenon
<1>8. Killed(T, L, S)
  BY <1>6, <1>7, Zenon DEF Killed
<1>9. QED BY <1>8, Zenon DEF L

\* Kill of the tasks of S, those of them that are live.
LEMMA KillIsKilled ==
  ASSUME NEW T, T \in [Slots -> Task], NEW S \in SUBSET Slots,
         NEW code \in ExitCodes \cup {NONE}
  PROVE  Killed(T, Kill(T, S, code), {j \in S : T[j].state # "Terminated"})
<1> DEFINE K == Kill(T, S, code)
           D == {j \in S : T[j].state # "Terminated"}
<1>1. \A j \in Slots : K[j] = IF j \in D
                              THEN [T[j] EXCEPT !.state = "Terminated", !.exit_code = code]
                              ELSE T[j]
  BY Zenon DEF Kill
<1>2. ASSUME NEW j \in Slots
      PROVE  /\ K[j] \in Task
             /\ K[j].id = T[j].id
             /\ K[j].parent = T[j].parent
             /\ K[j].is_idle <=> T[j].is_idle
             /\ K[j].wake_at = T[j].wake_at
             /\ K[j].state = IF j \in D THEN "Terminated" ELSE T[j].state
  <2> DEFINE t == T[j]
             u == [t EXCEPT !.state = "Terminated", !.exit_code = code]
  <2>1. t \in Task
    BY Zenon
  <2> HIDE DEF t
  <2>2. /\ u.id = t.id /\ u.parent = t.parent /\ u.is_idle = t.is_idle
        /\ u.wake_at = t.wake_at /\ u.state = "Terminated"
    BY <2>1, Zenon DEF Task
  <2>3. u \in Task
    BY <2>1, Zenon DEF Task, TaskState
  <2>4. K[j] = IF j \in D THEN u ELSE t
    BY <1>1, Zenon DEF t
  <2> HIDE DEF u, K, D
  <2>5. CASE j \in D
    BY <2>2, <2>3, <2>4, <2>5, Zenon DEF t
  <2>6. CASE j \notin D
    BY <2>1, <2>4, <2>6, Zenon DEF t
  <2>7. QED BY <2>5, <2>6, Zenon
<1>3. K \in [Slots -> Task]
  BY <1>2, Zenon DEF Kill
<1> HIDE DEF K, D
<1>4. Killed(T, K, D)
  BY <1>2, <1>3, Zenon DEF Killed
<1>5. QED BY <1>4, Zenon DEF K, D

\* The exit of one task: sys_exit, a fault, a return from a task's entry.
LEMMA ExitCurrentInv ==
  ASSUME IInv, NEW code \in ExitCodes \cup {NONE}, ExitCurrent(code)
  PROVE  IInv'
<1> DEFINE K == [tasks EXCEPT ![current].exit_code = code]
<1>1. /\ current # NONE /\ ~tasks[current].is_idle
      /\ SwitchFrom(LeaveCpu(WakeParent(K, current), current, "Terminated"))
      /\ UNCHANGED <<next_id, idle_index, ticks, waiting, idle_pc, boot>>
  BY Zenon DEF ExitCurrent, ExitIn, TaskRuns
<1>2. current \in Slots /\ tasks \in [Slots -> Task]
  BY <1>1, CurrentLemma, Zenon
<1>3. Killed(tasks, tasks, {})
  BY <1>2, Zenon DEF Killed
<1>4. Killed(tasks, K, {})
  BY <1>2, <1>3, StoreCodeLemma, Zenon
<1> HIDE DEF K
<1>5. {} \in SUBSET Slots /\ Mortal(tasks, {}, current)
  BY Zenon DEF Mortal
<1>6. QED BY <1>1, <1>4, <1>5, ExitInv, Zenon

\* The exit of a task with its siblings, on Ctrl-C.
LEMMA ExitCurrentGroupInv ==
  ASSUME IInv, NEW code \in ExitCodes \cup {NONE}, ExitCurrentGroup(code)
  PROVE  IInv'
<1> DEFINE G == Siblings(tasks, current)
           S == {j \in G : tasks[j].state # "Terminated"}
           M == Kill(tasks, G, code)
           K == [M EXCEPT ![current].exit_code = code]
<1>1. /\ current # NONE /\ ~tasks[current].is_idle
      /\ SwitchFrom(LeaveCpu(WakeParent(K, current), current, "Terminated"))
      /\ UNCHANGED <<next_id, idle_index, ticks, waiting, idle_pc, boot>>
  BY Zenon DEF ExitCurrentGroup, ExitIn, UserTaskRuns, TaskRuns
<1>2. current \in Slots /\ tasks \in [Slots -> Task] /\ OnlyRuns(tasks, current)
  BY <1>1, CurrentLemma, Zenon
<1>3. G \in SUBSET Slots /\ S \in SUBSET Slots
  BY Zenon DEF Siblings
<1>4. Killed(tasks, M, S)
  BY <1>2, <1>3, KillIsKilled, Zenon
<1>5. Mortal(tasks, S, current)
  BY <1>2, Zenon DEF Mortal, Siblings, OnlyRuns, IInv, TableInv, IdleTable
<1> HIDE DEF M, S
<1>6. Killed(tasks, K, S)
  BY <1>2, <1>4, StoreCodeLemma, Zenon
<1> HIDE DEF K
<1>7. QED BY <1>1, <1>3, <1>5, <1>6, ExitInv, Zenon

\* wake_task and wake_all_blocked_tasks.
LEMMA WakeInv ==
  ASSUME IInv, NEW S, tasks' = WakeBlocked(tasks, S),
         UNCHANGED <<current, next_id, idle_index, ticks, waiting, idle_pc, boot>>
  PROVE  IInv'
<1>1. TableInv(tasks, idle_index, next_id, ticks, waiting)
  BY Zenon DEF IInv
<1>2. /\ TableInv(tasks', idle_index, next_id, ticks, waiting)
      /\ SameRunning(tasks, tasks')
      /\ SameEmpty(tasks, tasks')
      /\ NoneSuspended(tasks, tasks')
  BY <1>1, WakeBlockedLemma, Zenon
<1>3. idle_index = NONE => EmptySlots(tasks') # {}
  BY <1>2, Zenon DEF IInv, IdleSlotKept, EmptySlots, SameEmpty
<1>4. idle_pc' \in {"check", "yield", "halt"}
  BY Zenon DEF IInv, TypeOK
<1>5. QED BY <1>2, <1>3, <1>4, StayingStep, Zenon

\* terminate_task kills neither the caller nor the idle task and wakes the
\* parent that may be waiting.
LEMMA TerminateTaskInv ==
  ASSUME IInv, NEW id, NEW code \in ExitCodes, TerminateTask(id, code)
  PROVE  IInv'
<1>1. PICK i \in SlotsOf(tasks, id) \ {current} :
         /\ ~tasks[i].is_idle
         /\ tasks[i].state # "Terminated"
         /\ tasks' = WakeParent(Kill(tasks, {i}, code), i)
  BY Zenon DEF TerminateTask
<1> DEFINE K == Kill(tasks, {i}, code)
           S == {j \in {i} : tasks[j].state # "Terminated"}
<1>2. /\ i \in Slots /\ {i} \in SUBSET Slots /\ S \in SUBSET Slots
      /\ tasks[i].state \notin {"Empty", "Running"}
      /\ tasks \in [Slots -> Task]
  BY <1>1, Zenon DEF SlotsOf, IInv, RunningIsCurrent, TypeOK
<1>3. TableInv(tasks, idle_index, next_id, ticks, waiting)
  BY Zenon DEF IInv
<1>4. Killed(tasks, K, S)
  BY <1>2, KillIsKilled, Zenon
<1>5. Mortal(tasks, S, i)
  BY <1>1, <1>2, Zenon DEF Mortal
<1> HIDE DEF K, S
<1>6. /\ TableInv(WakeParent(K, i), idle_index, next_id, ticks, waiting)
      /\ AfterKill(tasks, WakeParent(K, i), i)
  BY <1>2, <1>3, <1>4, <1>5, KillLemma, Zenon
<1>7. tasks' = WakeParent(K, i)
  BY <1>1, Zenon DEF K
<1>8. /\ UNCHANGED <<current, next_id, idle_index, ticks, waiting, boot>>
      /\ idle_pc' \in {"check", "yield", "halt"}
  BY Zenon DEF TerminateTask, IInv, TypeOK
<1>9. idle_index = NONE => EmptySlots(tasks') # {}
  BY <1>6, <1>7, Zenon DEF IInv, IdleSlotKept, EmptySlots, SameEmpty, AfterKill
<1>10. SameRunning(tasks, tasks') /\ NoneSuspended(tasks, tasks')
  BY <1>6, <1>7, Zenon DEF AfterKill
<1>11. QED BY <1>6, <1>7, <1>8, <1>9, <1>10, StayingStep, Zenon

\* A reaped task is neither the running one nor the idle one.
LEMMA ReapLemma ==
  ASSUME IInv, NEW i \in Slots, tasks[i].state = "Terminated"
  PROVE  LET U == RemoveTask(tasks, i)
         IN  /\ TableInv(U, idle_index, next_id, ticks, waiting)
             /\ SameRunning(tasks, U)
             /\ NoneSuspended(tasks, U)
             /\ EmptySlots(U) # {}
             /\ \A j \in Slots : tasks[j].state = "Running" => U[j] = tasks[j]
<1> DEFINE U == RemoveTask(tasks, i)
           idl == IF i = idle_index THEN NONE ELSE idle_index
<1>1. TableInv(tasks, idle_index, next_id, ticks, waiting)
  BY Zenon DEF IInv
<1>2. /\ TableInv(U, idl, next_id, ticks, waiting)
      /\ U[i].state = "Empty"
      /\ SameElsewhere(tasks, U, i)
  BY <1>1, RemoveLemma, Zenon
<1>3. idl = idle_index
  BY <1>1, Zenon DEF TableInv, IdleTable
<1> HIDE DEF U
<1>4. SameRunning(tasks, U) /\ NoneSuspended(tasks, U) /\ EmptySlots(U) # {}
  BY <1>2, Zenon DEF SameElsewhere, SameRunning, NoneSuspended, EmptySlots
<1>5. \A j \in Slots : tasks[j].state = "Running" => U[j] = tasks[j]
  BY <1>2, Zenon DEF SameElsewhere
<1>6. QED BY <1>2, <1>3, <1>4, <1>5, Zenon DEF U

\* reap_terminated removes a task nobody is blocked on.
LEMMA ReapTerminatedInv ==
  ASSUME IInv, NEW id, ReapTerminated(id)
  PROVE  IInv'
<1>1. PICK i \in SlotsOf(tasks, id) \ {current} :
         /\ tasks[i].state = "Terminated"
         /\ tasks' = RemoveTask(tasks, i)
  BY Zenon DEF ReapTerminated
<1>2. i \in Slots
  BY Zenon DEF SlotsOf
<1>3. /\ TableInv(tasks', idle_index, next_id, ticks, waiting)
      /\ SameRunning(tasks, tasks')
      /\ NoneSuspended(tasks, tasks')
      /\ EmptySlots(tasks') # {}
  BY <1>1, <1>2, ReapLemma, Zenon
<1>4. /\ UNCHANGED <<current, next_id, idle_index, ticks, waiting, boot>>
      /\ idle_pc' \in {"check", "yield", "halt"}
  BY Zenon DEF ReapTerminated, IInv, TypeOK
<1>5. QED BY <1>3, <1>4, StayingStep, Zenon

\* One iteration of wait_for_child.
LEMMA WaitForChildInv ==
  ASSUME IInv, NEW child \in TaskIds \cup {ANY}, WaitForChild(child)
  PROVE  IInv'
<1> DEFINE me == CurrentId
           dead == TerminatedChildren(tasks, me, child)
           w == [waiting EXCEPT ![current] = NONE]
<1>1. /\ current # NONE /\ ~tasks[current].is_idle
      /\ UNCHANGED <<next_id, idle_index, ticks, idle_pc, boot>>
  BY Zenon DEF WaitForChild
<1>2. /\ current \in Slots /\ OnlyRuns(tasks, current) /\ tasks[current].state = "Running"
      /\ idle_index # NONE /\ me = tasks[current].id
      /\ idle_pc' \in {"check", "yield", "halt"}
  BY <1>1, CurrentLemma, SchedulerAssumption, Zenon
     DEF OnlyRuns, CurrentId, IInv, TypeOK, Slots, NONE
<1>3. TableInv(tasks, idle_index, next_id, ticks, waiting)
  BY Zenon DEF IInv
<1>4. TableInv(tasks, idle_index, next_id, ticks, w)
  BY <1>2, <1>3, WaitingLemma, Zenon
<1>5. CASE /\ waiting' = w
           /\ UNCHANGED <<tasks, current>>
  <2>1. SameRunning(tasks, tasks') /\ NoneSuspended(tasks, tasks')
    BY <1>5, Zenon DEF SameRunning, NoneSuspended
  <2>2. TableInv(tasks', idle_index, next_id', ticks', waiting')
    BY <1>1, <1>4, <1>5, Zenon
  <2>3. QED BY <1>1, <1>2, <1>5, <2>1, <2>2, StayingStep, Zenon
<1>6. CASE /\ dead # {}
           /\ tasks' = RemoveTask(tasks, Least(dead))
           /\ waiting' = w
           /\ UNCHANGED current
  <2> DEFINE i == Least(dead)
  <2>1. i \in dead
    <3>1. dead \in SUBSET Slots
      BY Zenon DEF TerminatedChildren, Children
    <3>2. dead # {}
      BY <1>6, Zenon
    <3> HIDE DEF dead
    <3>3. QED BY <3>1, <3>2, LeastIsMember, Zenon
  <2>2. i \in Slots /\ tasks[i].state = "Terminated"
    BY <2>1, Zenon DEF TerminatedChildren, Children
  <2> HIDE DEF i, dead
  <2>3. tasks' = RemoveTask(tasks, i)
    BY <1>6, Zenon DEF i
  <2>4. /\ TableInv(tasks', idle_index, next_id, ticks, waiting)
        /\ SameRunning(tasks, tasks')
        /\ NoneSuspended(tasks, tasks')
        /\ tasks'[current] = tasks[current]
    BY <1>2, <2>2, <2>3, ReapLemma, Zenon
  <2>5. TableInv(tasks', idle_index, next_id, ticks, w)
    BY <1>2, <2>4, WaitingLemma, Zenon
  <2> HIDE DEF w
  <2>6. TableInv(tasks', idle_index, next_id', ticks', waiting')
    BY <1>1, <1>6, <2>5, Zenon
  <2>7. QED BY <1>1, <1>2, <1>6, <2>4, <2>6, StayingStep, Zenon
<1>7. CASE /\ Children(tasks, me, child) # {}
           /\ dead = {}
           /\ waiting' = [waiting EXCEPT ![current] = child]
           /\ SwitchFrom(LeaveCpu(tasks, current, "Blocked"))
  <2> DEFINE T == LeaveCpu(tasks, current, "Blocked")
             v == [w EXCEPT ![current] = child]
  <2>1. w[current] = NONE /\ waiting' = v
    BY <1>2, <1>7, Zenon DEF IInv, TypeOK
  <2>2. TableInv(T, idle_index, next_id, ticks, w) /\ NoneRuns(T)
    BY <1>1, <1>2, <1>4, <2>1, LeaveCpuLemma, Zenon
  <2>3. /\ Children(T, T[current].id, child) # {}
        /\ TerminatedChildren(T, T[current].id, child) = {}
    <3>1. ASSUME NEW j \in Slots
          PROVE  /\ T[j].id = tasks[j].id /\ T[j].parent = tasks[j].parent
                 /\ T[j].state = IF j = current THEN "Blocked" ELSE tasks[j].state
      <4> DEFINE t == tasks[j]
      <4>1. tasks \in [Slots -> Task] /\ t \in Task
        BY Zenon DEF IInv, TypeOK
      <4>2. T[j] = IF j = current THEN [t EXCEPT !.state = "Blocked", !.wake_at = NONE] ELSE t
        BY <4>1, Zenon DEF LeaveCpu
      <4> HIDE DEF t, T
      <4>3. /\ T[j].id = t.id /\ T[j].parent = t.parent
            /\ T[j].state = IF j = current THEN "Blocked" ELSE t.state
        BY <4>1, <4>2, Zenon DEF Task
      <4>4. QED BY <4>3, Zenon DEF t
    <3> HIDE DEF T
    <3>2. Children(T, T[current].id, child) = Children(tasks, me, child)
      BY <1>2, <3>1, Zenon DEF Children
    <3>3. TerminatedChildren(T, T[current].id, child) \subseteq dead
      BY <3>1, <3>2, Zenon DEF TerminatedChildren, Children
    <3>4. QED BY <1>7, <3>2, <3>3, Zenon
  <2>4. SwitchFrom(T)
    BY <1>7, Zenon
  <2> HIDE DEF T, w
  <2>5. TableInv(T, idle_index, next_id, ticks, v)
    BY <1>2, <2>2, <2>3, WaitingLemma, Zenon
  <2> HIDE DEF v
  <2>6. TableInv(T, idle_index, next_id', ticks', waiting')
    BY <1>1, <2>1, <2>5, Zenon
  <2>7. QED BY <1>1, <1>2, <2>2, <2>4, <2>6, SwitchingStep, Zenon
<1>8. QED BY <1>5, <1>6, <1>7, Zenon DEF WaitForChild

-----------------------------------------------------------------------------
(***************************************************************************)
(* The theorems.                                                           *)
(***************************************************************************)
\* Every action of Tasking preserves the inductive invariant.
LEMMA NextInv ==
  ASSUME IInv, [Next]_vars
  PROVE  IInv'
<1>1. ASSUME Spawn PROVE IInv'
  BY <1>1, SpawnTaskInv, Zenon DEF Spawn
<1>2. ASSUME SpawnUser PROVE IInv'
  BY <1>2, SpawnTaskInv, Zenon DEF SpawnUser
<1>3. ASSUME IdleYield PROVE IInv'
  BY <1>3, RequeueInv, Zenon DEF IdleYield, IdleRuns
<1>4. ASSUME YieldNow PROVE IInv'
  <2>1. idle_pc' \in {"check", "yield", "halt"}
    BY <1>4, Zenon DEF YieldNow, IInv, TypeOK
  <2>2. QED BY <1>4, <2>1, RequeueInv, Zenon DEF YieldNow, TaskRuns
<1>5. ASSUME NEW id, WakeTask(id) PROVE IInv'
  BY <1>5, WakeInv, Zenon DEF WakeTask
<1>6. ASSUME WakeAllBlockedTasks PROVE IInv'
  BY <1>6, WakeInv, Zenon DEF WakeAllBlockedTasks, WakeAllBlocked
<1>7. ASSUME UNCHANGED vars PROVE IInv'
  BY <1>7, Zenon
     DEF vars, sched, IInv, TypeOK, RunningIsCurrent, IdleSlotKept, NobodyLeftBehind
<1>8. QED
  BY <1>1, <1>2, <1>3, <1>4, <1>5, <1>6, <1>7, RunTasksInv, BootstrapReturnInv,
     IdleCheckInv, TimerTickInv, BlockNowInv, SleepTicksInv, ExitCurrentInv,
     ExitCurrentGroupInv, WaitForChildInv, TerminateTaskInv, ReapTerminatedInv, Zenon
     DEF Next

\* The inductive invariant holds in every reachable state.
THEOREM TaskingInvariant == Spec => []IInv
<1>1. Init => IInv
  BY InitInv, Zenon
<1>2. IInv /\ [Next]_vars => IInv'
  BY NextInv, Zenon
<1>3. QED BY <1>1, <1>2, PTL DEF Spec

\* What holds in every state of IInv holds always; the properties of Tasking
\* follow from IInv by unfolding the table invariant.
LEMMA IInvImplies ==
  ASSUME IInv
  PROVE  /\ TypeOK /\ RunningIsCurrent /\ IdleSlotKept /\ NobodyLeftBehind
         /\ IdleStandsBy /\ IdsIdentify /\ WaiterHasLiveChild /\ SleepersNotOverdue
<1>1. TypeOK /\ RunningIsCurrent /\ IdleSlotKept /\ NobodyLeftBehind
  BY Zenon DEF IInv
<1>2. IdleStandsBy
  <2>1. idle_index # NONE => idle_index \in Slots /\ tasks[idle_index].is_idle
    BY Zenon DEF IInv, TypeOK, TableInv, IdleTable
  <2>2. ASSUME current # NONE
        PROVE  /\ idle_index # NONE
               /\ current # idle_index => tasks[idle_index].state = "Ready"
    <3>1. idle_index \in Slots /\ OnlyRuns(tasks, current)
      BY <2>2, CurrentLemma, Zenon
    <3>2. idle_index # NONE
      BY <3>1, SchedulerAssumption DEF Slots, NONE
    <3>3. tasks[idle_index].state \in {"Ready", "Running"}
      BY <2>1, <3>1, <3>2, Zenon DEF IInv, TableInv, IdleTable
    <3>4. QED BY <3>1, <3>2, <3>3, Zenon DEF OnlyRuns
  <2>3. QED BY <2>1, <2>2, Zenon DEF IdleStandsBy
<1>3. IdsIdentify
  BY Zenon DEF IInv, TableInv, IdTable, IdsIdentify
<1>4. WaiterHasLiveChild
  BY Zenon DEF IInv, TableInv, WaiterTable, WaiterHasLiveChild
<1>5. SleepersNotOverdue
  BY Zenon DEF IInv, TableInv, SleeperTable, SleepersNotOverdue
<1>6. QED BY <1>1, <1>2, <1>3, <1>4, <1>5, Zenon

\* Every variable of the scheduler keeps its type.
THEOREM TypeCorrect == Spec => []TypeOK
BY TaskingInvariant, IInvImplies, PTL

\* One task at a time: exactly the slot `current` is Running, whatever the
\* interleaving of timer interrupts, exits, kills, waits and reaps.
THEOREM OneTaskRuns == Spec => []RunningIsCurrent
BY TaskingInvariant, IInvImplies, PTL

\* The idle task is always there for select_next to fall back on, so that a
\* block, sleep, wait or exit always finds a task to switch to.
THEOREM IdleAlwaysReady == Spec => []IdleStandsBy
BY TaskingInvariant, IInvImplies, PTL

\* Spawns never use up the slot run_tasks needs for the idle task.
THEOREM SlotForIdle == Spec => []IdleSlotKept
BY TaskingInvariant, IInvImplies, PTL

\* Task ids are unique in the table and never issued again.
THEOREM UniqueIds == Spec => []IdsIdentify
BY TaskingInvariant, IInvImplies, PTL

\* No parent sleeps through the end of the child it waits for.
THEOREM NoLostChildWakeup == Spec => []WaiterHasLiveChild
BY TaskingInvariant, IInvImplies, PTL

\* Sleepers' deadlines stay ahead of the wrapping tick counter.
THEOREM NobodyOversleeps == Spec => []SleepersNotOverdue
BY TaskingInvariant, IInvImplies, PTL

\* run_tasks returns to the bootstrap code only when no task is suspended.
THEOREM RunTasksFinishes == Spec => []NobodyLeftBehind
BY TaskingInvariant, IInvImplies, PTL

-----------------------------------------------------------------------------
(***************************************************************************)
(* The scheduler implements TaskLifecycle, and wakes sleepers on time.     *)
(*                                                                         *)
(* What has become of an id is read off the table, slot by slot.  Fate     *)
(* says what a step may do to one slot: leave its id and its exit code, or *)
(* terminate it with a code.  The operations of Scheduler are composed to  *)
(* the actions of Tasking, and Fate is transitive, so that each action is  *)
(* one of three things: tasks terminate together, one is added, one is     *)
(* removed.  That ids name slots comes from IInv.                          *)
(***************************************************************************)
\* LifeOf and CodeOf, of any table.
LifeIn(T, nid, id) ==
  IF nid <= id THEN "unborn"
  ELSE IF \E i \in Slots : T[i].id = id
       THEN LET t == T[CHOOSE i \in Slots : T[i].id = id]
            IN  IF t.is_idle THEN "idle"
                ELSE IF t.state = "Terminated" THEN "zombie" ELSE "live"
       ELSE "gone"

CodeIn(T, id) ==
  IF \E i \in Slots : T[i].id = id /\ T[i].state = "Terminated"
  THEN T[CHOOSE i \in Slots : T[i].id = id].exit_code
  ELSE NONE

\* The slot keeps its task, and a terminated task its exit code.
Quiet(t, u) ==
  /\ u.id = t.id
  /\ u.is_idle = t.is_idle
  /\ u.state = "Terminated" <=> t.state = "Terminated"
  /\ t.state = "Terminated" => u.exit_code = t.exit_code

Fate(t, u, c) ==
  \/ Quiet(t, u)
  \/ /\ u.id = t.id
     /\ u.is_idle = t.is_idle
     /\ ~t.is_idle
     /\ t.state # "Terminated"
     /\ u.state = "Terminated"
     /\ u.exit_code = c

\* A sleeper sleeps on or is killed.
Calm(t, u) ==
  t.state \in {"Sleeping", "Terminated"} => u.state \in {"Sleeping", "Terminated"}

Fates(T, U, c) == \A i \in Slots : Fate(T[i], U[i], c)
Calms(T, U) == \A i \in Slots : Calm(T[i], U[i])

Tables == [Slots -> Task]

-----------------------------------------------------------------------------
(***************************************************************************)
(* What a table says of an id.                                             *)
(***************************************************************************)
\* An id in the table is that of one slot, whose state says what it is.
LEMMA LifeAt ==
  ASSUME NEW T \in Tables, NEW nid \in TaskIds, IdTable(T, nid),
         NEW i \in Slots, NEW id \in TaskIds, T[i].id = id
  PROVE  /\ id < nid
         /\ LifeIn(T, nid, id) = IF T[i].is_idle THEN "idle"
                                 ELSE IF T[i].state = "Terminated" THEN "zombie" ELSE "live"
         /\ CodeIn(T, id) = IF T[i].state = "Terminated" THEN T[i].exit_code ELSE NONE
<1>1. id \in Nat /\ id # 0 /\ nid \in Nat
  BY SchedulerAssumption DEF TaskIds
<1>2. T[i].state # "Empty"
  BY <1>1, Zenon DEF IdTable
<1>3. id \in 1..(nid - 1) /\ \A j \in Slots : T[j].id = id => j = i
  BY <1>2, Zenon DEF IdTable
<1>4. id < nid /\ ~(nid <= id)
  BY <1>1, <1>3
<1>5. (CHOOSE j \in Slots : T[j].id = id) = i
  BY <1>3, Zenon
<1>6. (\E j \in Slots : T[j].id = id /\ T[j].state = "Terminated") <=> T[i].state = "Terminated"
  BY <1>3, Zenon
<1>7. \E j \in Slots : T[j].id = id
  BY Zenon
<1>8. LifeIn(T, nid, id) = IF T[i].is_idle THEN "idle"
                           ELSE IF T[i].state = "Terminated" THEN "zombie" ELSE "live"
  BY <1>4, <1>5, <1>7, Zenon DEF LifeIn
<1>9. CodeIn(T, id) = IF T[i].state = "Terminated" THEN T[i].exit_code ELSE NONE
  BY <1>5, <1>6, Zenon DEF CodeIn
<1>10. QED BY <1>4, <1>8, <1>9, Zenon

\* An id that is not in the table is gone or still to be issued.
LEMMA LifeNowhere ==
  ASSUME NEW T, NEW nid, NEW id, \A i \in Slots : T[i].id # id
  PROVE  /\ LifeIn(T, nid, id) = IF nid <= id THEN "unborn" ELSE "gone"
         /\ CodeIn(T, id) = NONE
BY Zenon DEF LifeIn, CodeIn

\* The types of the abstract state.
LEMMA LifeTypes ==
  ASSUME NEW T \in Tables, NEW nid \in TaskIds, IdTable(T, nid), NEW id \in TaskIds
  PROVE  /\ LifeIn(T, nid, id) \in {"unborn", "live", "idle", "zombie", "gone"}
         /\ CodeIn(T, id) \in ExitCodes \cup {NONE}
<1>1. CASE \A i \in Slots : T[i].id # id
  BY <1>1, LifeNowhere, Zenon
<1>2. ASSUME NEW i \in Slots, T[i].id = id
      PROVE  /\ LifeIn(T, nid, id) \in {"live", "idle", "zombie"}
             /\ CodeIn(T, id) \in ExitCodes \cup {NONE}
  <2>1. T[i].exit_code \in ExitCodes \cup {NONE}
    BY Zenon DEF Tables, Task
  <2>2. QED BY <1>2, <2>1, LifeAt, Zenon
<1>3. QED BY <1>1, <1>2, Zenon

\* Tasks that terminate together: every other id is what it was.
LEMMA FatesTerminate ==
  ASSUME NEW T \in Tables, NEW U \in Tables, NEW nid \in TaskIds,
         IdTable(T, nid), IdTable(U, nid), NEW c, Fates(T, U, c), NEW id \in TaskIds
  PROVE  \/ LifeIn(U, nid, id) = LifeIn(T, nid, id) /\ CodeIn(U, id) = CodeIn(T, id)
         \/ /\ LifeIn(T, nid, id) = "live"
            /\ LifeIn(U, nid, id) = "zombie"
            /\ CodeIn(U, id) = c
<1>1. \A i \in Slots : U[i].id = T[i].id
  BY Zenon DEF Fates, Fate, Quiet
<1>2. CASE \A i \in Slots : T[i].id # id
  <2>1. \A i \in Slots : U[i].id # id
    BY <1>1, <1>2, Zenon
  <2>2. QED BY <1>2, <2>1, LifeNowhere, Zenon
<1>3. ASSUME NEW i \in Slots, T[i].id = id
      PROVE  \/ LifeIn(U, nid, id) = LifeIn(T, nid, id) /\ CodeIn(U, id) = CodeIn(T, id)
             \/ /\ LifeIn(T, nid, id) = "live"
                /\ LifeIn(U, nid, id) = "zombie"
                /\ CodeIn(U, id) = c
  <2>1. /\ LifeIn(T, nid, id) = IF T[i].is_idle THEN "idle"
                                ELSE IF T[i].state = "Terminated" THEN "zombie" ELSE "live"
        /\ CodeIn(T, id) = IF T[i].state = "Terminated" THEN T[i].exit_code ELSE NONE
    BY <1>3, LifeAt, Zenon
  <2>2. /\ LifeIn(U, nid, id) = IF U[i].is_idle THEN "idle"
                                ELSE IF U[i].state = "Terminated" THEN "zombie" ELSE "live"
        /\ CodeIn(U, id) = IF U[i].state = "Terminated" THEN U[i].exit_code ELSE NONE
    BY <1>1, <1>3, LifeAt, Zenon
  <2>3. Fate(T[i], U[i], c)
    BY Zenon DEF Fates
  <2>4. CASE Quiet(T[i], U[i])
    BY <2>1, <2>2, <2>4, Zenon DEF Quiet
  <2>5. CASE ~Quiet(T[i], U[i])
    BY <2>1, <2>2, <2>3, <2>5, Zenon DEF Fate
  <2>6. QED BY <2>4, <2>5, Zenon
<1>4. QED BY <1>2, <1>3, Zenon

\* An id whose slot keeps its task is what it was.
LEMMA QuietLife ==
  ASSUME NEW T \in Tables, NEW U \in Tables, NEW nid \in TaskIds, NEW mid \in TaskIds,
         IdTable(T, nid), IdTable(U, mid),
         NEW i \in Slots, NEW id \in TaskIds, T[i].id = id, Quiet(T[i], U[i])
  PROVE  LifeIn(U, mid, id) = LifeIn(T, nid, id) /\ CodeIn(U, id) = CodeIn(T, id)
<1>1. U[i].id = id
  BY Zenon DEF Quiet
<1>2. /\ LifeIn(T, nid, id) = IF T[i].is_idle THEN "idle"
                              ELSE IF T[i].state = "Terminated" THEN "zombie" ELSE "live"
      /\ CodeIn(T, id) = IF T[i].state = "Terminated" THEN T[i].exit_code ELSE NONE
  BY LifeAt, Zenon
<1>3. /\ LifeIn(U, mid, id) = IF U[i].is_idle THEN "idle"
                              ELSE IF U[i].state = "Terminated" THEN "zombie" ELSE "live"
      /\ CodeIn(U, id) = IF U[i].state = "Terminated" THEN U[i].exit_code ELSE NONE
  BY <1>1, LifeAt, Zenon
<1>4. QED BY <1>2, <1>3, Zenon DEF Quiet

\* A task with the id nid enters an empty slot; the task of slot i leaves.
Joined(T, U, nid, slot) ==
  /\ T[slot].id = 0
  /\ U[slot].id = nid
  /\ U[slot].state # "Terminated"
  /\ \A j \in Slots \ {slot} : Quiet(T[j], U[j])

Left(T, U, i) ==
  /\ T[i].state = "Terminated" \/ T[i].is_idle
  /\ T[i].id # 0
  /\ U[i].id = 0
  /\ \A j \in Slots \ {i} : Quiet(T[j], U[j])

\* Exactly the ids from nid on are unborn.
LEMMA UnbornIds ==
  ASSUME NEW T \in Tables, NEW nid \in TaskIds, IdTable(T, nid), NEW id \in TaskIds
  PROVE  LifeIn(T, nid, id) = "unborn" <=> nid <= id
<1>1. CASE \A i \in Slots : T[i].id # id
  BY <1>1, LifeNowhere, Zenon
<1>2. ASSUME NEW i \in Slots, T[i].id = id
      PROVE  LifeIn(T, nid, id) # "unborn" /\ ~(nid <= id)
  <2>1. id < nid /\ LifeIn(T, nid, id) \in {"idle", "zombie", "live"}
    BY <1>2, LifeAt, Zenon
  <2>2. QED BY <2>1 DEF TaskIds
<1>3. QED BY <1>1, <1>2, Zenon

\* The new task takes the id nid, and every other id is what it was.
LEMMA JoinedLife ==
  ASSUME NEW T \in Tables, NEW U \in Tables, NEW nid \in TaskIds, nid + 1 \in TaskIds,
         IdTable(T, nid), IdTable(U, nid + 1),
         NEW slot \in Slots, Joined(T, U, nid, slot), NEW id \in TaskIds
  PROVE  /\ LifeIn(U, nid + 1, id) =
              IF id = nid THEN IF U[slot].is_idle THEN "idle" ELSE "live"
              ELSE LifeIn(T, nid, id)
         /\ CodeIn(U, id) = CodeIn(T, id)
<1>1. id \in Nat \ {0} /\ nid \in Nat \ {0}
  BY SchedulerAssumption DEF TaskIds
<1>2. CASE id = nid
  <2>1. \A i \in Slots : T[i].id # id
    BY <1>1, <1>2 DEF IdTable
  <2>2. CodeIn(T, id) = NONE
    BY <2>1, LifeNowhere, Zenon
  <2>3. /\ LifeIn(U, nid + 1, id) = IF U[slot].is_idle THEN "idle" ELSE "live"
        /\ CodeIn(U, id) = NONE
    <3>1. U[slot].id = id /\ U[slot].state # "Terminated"
      BY <1>2, Zenon DEF Joined
    <3>2. QED BY <3>1, LifeAt, Zenon
  <2>4. QED BY <1>2, <2>2, <2>3, Zenon
<1>3. CASE id # nid /\ \A i \in Slots : T[i].id # id
  <2>1. \A i \in Slots : U[i].id # id
    BY <1>3, Zenon DEF Joined, Quiet
  <2>2. nid + 1 <= id <=> nid <= id
    BY <1>1, <1>3
  <2>3. QED BY <1>3, <2>1, <2>2, LifeNowhere
<1>4. ASSUME id # nid, NEW i \in Slots, T[i].id = id
      PROVE  LifeIn(U, nid + 1, id) = LifeIn(T, nid, id) /\ CodeIn(U, id) = CodeIn(T, id)
  <2>1. Quiet(T[i], U[i])
    BY <1>1, <1>4, Zenon DEF Joined
  <2>2. QED BY <1>4, <2>1, QuietLife
<1>5. QED BY <1>2, <1>3, <1>4, Zenon

\* The task that leaves was collectable, and its id is gone.
LEMMA LeftLife ==
  ASSUME NEW T \in Tables, NEW U \in Tables, NEW nid \in TaskIds,
         IdTable(T, nid), IdTable(U, nid),
         NEW i \in Slots, Left(T, U, i), NEW id \in TaskIds
  PROVE  /\ T[i].id \in TaskIds
         /\ LifeIn(T, nid, T[i].id) \in {"zombie", "idle"}
         /\ LifeIn(U, nid, id) = IF id = T[i].id THEN "gone" ELSE LifeIn(T, nid, id)
         /\ CodeIn(U, id) = IF id = T[i].id THEN NONE ELSE CodeIn(T, id)
<1>1. id \in Nat \ {0} /\ nid \in Nat \ {0}
  BY SchedulerAssumption DEF TaskIds
<1>2. T[i].id \in TaskIds
  BY Zenon DEF Left, Tables, Task
<1>3. /\ T[i].id < nid
      /\ LifeIn(T, nid, T[i].id) = IF T[i].is_idle THEN "idle"
                                   ELSE IF T[i].state = "Terminated" THEN "zombie" ELSE "live"
  BY <1>2, LifeAt, Zenon
<1>4. LifeIn(T, nid, T[i].id) \in {"zombie", "idle"}
  BY <1>3, Zenon DEF Left
<1>5. CASE id = T[i].id
  <2>1. \A j \in Slots : U[j].id # id
    <3>1. \A j \in Slots : T[j].id = id => j = i
      <4>1. T[i].state # "Empty"
        BY Zenon DEF Left, IdTable
      <4>2. QED BY <1>5, <4>1, Zenon DEF IdTable
    <3>2. QED BY <1>1, <3>1, Zenon DEF Left, Quiet
  <2>2. ~(nid <= id)
    BY <1>1, <1>3, <1>5
  <2>3. QED BY <1>2, <1>4, <1>5, <2>1, <2>2, LifeNowhere, Zenon
<1>6. CASE id # T[i].id /\ \A j \in Slots : T[j].id # id
  <2>1. \A j \in Slots : U[j].id # id
    BY <1>1, <1>6, Zenon DEF Left, Quiet
  <2>2. QED BY <1>2, <1>4, <1>6, <2>1, LifeNowhere
<1>7. ASSUME id # T[i].id, NEW j \in Slots, T[j].id = id
      PROVE  LifeIn(U, nid, id) = LifeIn(T, nid, id) /\ CodeIn(U, id) = CodeIn(T, id)
  <2>1. Quiet(T[j], U[j])
    BY <1>7, Zenon DEF Left
  <2>2. QED BY <1>7, <2>1, QuietLife
<1>8. QED BY <1>2, <1>4, <1>5, <1>6, <1>7, Zenon

-----------------------------------------------------------------------------
(***************************************************************************)
(* The operations on the table.                                            *)
(***************************************************************************)
Settled(T, U) == U \in Tables /\ (\A i \in Slots : Quiet(T[i], U[i])) /\ Calms(T, U)

\* Settled steps before and after others change nothing in them.
LEMMA FatesCompose ==
  ASSUME NEW T, NEW U, NEW V, NEW c
  PROVE  /\ Fates(T, U, c) /\ Fates(U, V, c) => Fates(T, V, c)
         /\ Settled(T, U) => Fates(T, U, c)
         /\ Calms(T, U) /\ Calms(U, V) => Calms(T, V)
<1>1. ASSUME Fates(T, U, c), Fates(U, V, c), NEW i \in Slots
      PROVE  Fate(T[i], V[i], c)
  <2>1. Fate(T[i], U[i], c) /\ Fate(U[i], V[i], c)
    BY <1>1, Zenon DEF Fates
  <2>2. QED BY <2>1, Zenon DEF Fate, Quiet
<1>2. Settled(T, U) => Fates(T, U, c)
  BY Zenon DEF Settled, Fates, Fate
<1>3. Calms(T, U) /\ Calms(U, V) => Calms(T, V)
  BY Zenon DEF Calms, Calm
<1>4. QED BY <1>1, <1>2, <1>3, Zenon DEF Fates

\* Two settled steps are one.
LEMMA SettledCompose ==
  ASSUME NEW T, NEW U, NEW V, Settled(T, U), Settled(U, V)
  PROVE  Settled(T, V)
BY Zenon DEF Settled, Quiet, Calms, Calm

\* A task is put in another state with another deadline; a task is killed.
Moves(t, u, state, wake_at) == u = [t EXCEPT !.state = state, !.wake_at = wake_at]
Dies(t, u, c) == u = [t EXCEPT !.state = "Terminated", !.exit_code = c]

\* A task in another state and with another deadline is otherwise the same.
LEMMA StateRewritten ==
  ASSUME NEW t \in Task, NEW state \in TaskState, NEW wake_at \in Ticks \cup {NONE},
         NEW u, Moves(t, u, state, wake_at)
  PROVE  /\ u \in Task /\ u.id = t.id /\ u.is_idle = t.is_idle
         /\ u.exit_code = t.exit_code /\ u.state = state
<1>1. u = [t EXCEPT !.state = state, !.wake_at = wake_at]
  BY Zenon DEF Moves
<1>2. u \in Task
  BY <1>1, Zenon DEF Task
<1>3. QED BY <1>1, <1>2, Zenon DEF Task

\* And so is a task that is killed.
LEMMA CodeRewritten ==
  ASSUME NEW t \in Task, NEW c \in ExitCodes,
         NEW u, Dies(t, u, c)
  PROVE  /\ u \in Task /\ u.id = t.id /\ u.is_idle = t.is_idle
         /\ u.exit_code = c /\ u.state = "Terminated"
<1>1. u = [t EXCEPT !.state = "Terminated", !.exit_code = c]
  BY Zenon DEF Dies
<1>2. u \in Task
  BY <1>1, Zenon DEF Task, TaskState
<1>3. QED BY <1>1, <1>2, Zenon DEF Task

\* wake, wake_parent and wake_all_blocked.
LEMMA WakeBlockedSettled ==
  ASSUME NEW T \in Tables, NEW S
  PROVE  Settled(T, WakeBlocked(T, S))
<1> DEFINE U == WakeBlocked(T, S)
<1>1. ASSUME NEW i \in Slots
      PROVE  U[i] \in Task /\ Quiet(T[i], U[i]) /\ Calm(T[i], U[i])
  <2>1. T[i] \in Task
    BY Zenon DEF Tables
  <2>2. U[i] = IF i \in S /\ T[i].state = "Blocked" THEN [T[i] EXCEPT !.state = "Ready"] ELSE T[i]
    BY Zenon DEF WakeBlocked
  <2> HIDE DEF U
  <2>3. QED BY <2>1, <2>2 DEF Task, TaskState, Quiet, Calm
<1>2. U \in Tables
  BY <1>1, Zenon DEF WakeBlocked, Tables
<1>3. QED BY <1>1, <1>2, Zenon DEF Settled, Calms

\* wake_expired_sleepers: whom it wakes had a deadline that counts as reached.
LEMMA WakeExpiredFates ==
  ASSUME NEW T \in Tables, NEW now
  PROVE  LET U == WakeExpiredSleepers(T, now)
         IN  /\ U \in Tables
             /\ \A i \in Slots : Quiet(T[i], U[i])
             /\ \A i \in Slots : \/ Calm(T[i], U[i])
                                  \/ /\ T[i].wake_at # NONE
                                     /\ Expired(now, T[i].wake_at)
<1> DEFINE U == WakeExpiredSleepers(T, now)
           Due(i) == T[i].wake_at # NONE /\ Expired(now, T[i].wake_at)
<1>1. ASSUME NEW i \in Slots
      PROVE  /\ U[i] \in Task
             /\ Quiet(T[i], U[i])
             /\ Calm(T[i], U[i]) \/ Due(i)
  <2>1. T[i] \in Task
    BY Zenon DEF Tables
  <2>2. U[i] = IF T[i].state = "Sleeping" /\ Due(i)
               THEN [T[i] EXCEPT !.state = "Ready", !.wake_at = NONE]
               ELSE T[i]
    BY Zenon DEF WakeExpiredSleepers
  <2> HIDE DEF U, Due
  <2>3. CASE T[i].state = "Sleeping" /\ Due(i)
    <3>1. U[i] = [T[i] EXCEPT !.state = "Ready", !.wake_at = NONE]
      BY <2>2, <2>3, Zenon
    <3>2. U[i] \in Task
      BY <2>1, <3>1, Zenon DEF Task, TaskState
    <3>3. Quiet(T[i], U[i])
      BY <2>1, <2>3, <3>1, Zenon DEF Task, Quiet
    <3>4. QED BY <2>3, <3>2, <3>3, Zenon
  <2>4. CASE ~(T[i].state = "Sleeping" /\ Due(i))
    BY <2>1, <2>2, <2>4, Zenon DEF Quiet, Calm
  <2>5. QED BY <2>3, <2>4, Zenon
<1>2. U \in Tables
  BY <1>1, Zenon DEF WakeExpiredSleepers, Tables
<1>3. QED BY <1>1, <1>2, Zenon

\* The running task leaves the CPU and stays alive.
LEMMA LeaveCpuSettled ==
  ASSUME NEW T \in Tables, NEW i \in Slots, T[i].state = "Running",
         NEW state \in {"Ready", "Blocked"}
  PROVE  Settled(T, LeaveCpu(T, i, state))
<1> DEFINE U == LeaveCpu(T, i, state)
<1>1. ASSUME NEW j \in Slots
      PROVE  U[j] \in Task /\ Quiet(T[j], U[j]) /\ Calm(T[j], U[j])
  <2>1. T[j] \in Task
    BY Zenon DEF Tables
  <2>2. U[j] = IF j = i THEN [T[j] EXCEPT !.state = state, !.wake_at = NONE] ELSE T[j]
    BY Zenon DEF LeaveCpu, Tables
  <2> HIDE DEF U
  <2>3. CASE j = i
    <3>1. /\ U[j] \in Task /\ U[j].id = T[j].id /\ U[j].is_idle = T[j].is_idle
          /\ U[j].exit_code = T[j].exit_code /\ U[j].state = state
      <4>1. Moves(T[j], U[j], state, NONE)
        BY <2>2, <2>3, Zenon DEF Moves
      <4>2. state \in TaskState /\ NONE \in Ticks \cup {NONE}
        BY Zenon DEF TaskState
      <4>3. QED BY <2>1, <4>1, <4>2, StateRewritten
    <3>2. QED BY <2>3, <3>1, Zenon DEF Quiet, Calm
  <2>4. CASE j # i
    BY <2>1, <2>2, <2>4, Zenon DEF Quiet, Calm
  <2>5. QED BY <2>3, <2>4, Zenon
<1>2. U \in Tables
  BY <1>1, Zenon DEF LeaveCpu, Tables
<1>3. QED BY <1>1, <1>2, Zenon DEF Settled, Calms

\* The running task leaves the CPU for good, with the code stored before.
LEMMA LeaveCpuFates ==
  ASSUME NEW T \in Tables, NEW i \in Slots, T[i].state = "Running", ~T[i].is_idle
  PROVE  LET U == LeaveCpu(T, i, "Terminated")
         IN  U \in Tables /\ Fates(T, U, T[i].exit_code) /\ Calms(T, U)
<1> DEFINE U == LeaveCpu(T, i, "Terminated")
<1>1. ASSUME NEW j \in Slots
      PROVE  U[j] \in Task /\ Fate(T[j], U[j], T[i].exit_code) /\ Calm(T[j], U[j])
  <2>1. T[j] \in Task
    BY Zenon DEF Tables
  <2>2. U[j] = IF j = i THEN [T[j] EXCEPT !.state = "Terminated", !.wake_at = NONE] ELSE T[j]
    BY Zenon DEF LeaveCpu, Tables
  <2> HIDE DEF U
  <2>3. CASE j = i
    <3>1. /\ U[j] \in Task /\ U[j].id = T[j].id /\ U[j].is_idle = T[j].is_idle
          /\ U[j].exit_code = T[j].exit_code /\ U[j].state = "Terminated"
      <4>1. Moves(T[j], U[j], "Terminated", NONE)
        BY <2>2, <2>3, Zenon DEF Moves
      <4>2. "Terminated" \in TaskState /\ NONE \in Ticks \cup {NONE}
        BY Zenon DEF TaskState
      <4>3. QED BY <2>1, <4>1, <4>2, StateRewritten
    <3>2. QED BY <2>3, <3>1, Zenon DEF Fate, Calm
  <2>4. CASE j # i
    BY <2>1, <2>2, <2>4, Zenon DEF Fate, Quiet, Calm
  <2>5. QED BY <2>3, <2>4, Zenon
<1>2. U \in Tables
  BY <1>1, Zenon DEF LeaveCpu, Tables
<1>3. QED BY <1>1, <1>2, Zenon DEF Fates, Calms

\* sleep_current_until.
LEMMA FallAsleepSettled ==
  ASSUME NEW T \in Tables, NEW i \in Slots, T[i].state = "Running", NEW deadline \in Ticks
  PROVE  Settled(T, FallAsleep(T, i, deadline))
<1> DEFINE U == FallAsleep(T, i, deadline)
<1>1. ASSUME NEW j \in Slots
      PROVE  U[j] \in Task /\ Quiet(T[j], U[j]) /\ Calm(T[j], U[j])
  <2>1. T[j] \in Task
    BY Zenon DEF Tables
  <2>2. U[j] = IF j = i THEN [T[j] EXCEPT !.state = "Sleeping", !.wake_at = deadline] ELSE T[j]
    BY Zenon DEF FallAsleep, Tables
  <2> HIDE DEF U
  <2>3. CASE j = i
    <3>1. /\ U[j] \in Task /\ U[j].id = T[j].id /\ U[j].is_idle = T[j].is_idle
          /\ U[j].exit_code = T[j].exit_code /\ U[j].state = "Sleeping"
      <4>1. Moves(T[j], U[j], "Sleeping", deadline)
        BY <2>2, <2>3, Zenon DEF Moves
      <4>2. "Sleeping" \in TaskState /\ deadline \in Ticks \cup {NONE}
        BY Zenon DEF TaskState
      <4>3. QED BY <2>1, <4>1, <4>2, StateRewritten
    <3>2. QED BY <2>3, <3>1, Zenon DEF Quiet, Calm
  <2>4. CASE j # i
    BY <2>1, <2>2, <2>4, Zenon DEF Quiet, Calm
  <2>5. QED BY <2>3, <2>4, Zenon
<1>2. U \in Tables
  BY <1>1, Zenon DEF FallAsleep, Tables
<1>3. QED BY <1>1, <1>2, Zenon DEF Settled, Calms

\* The exit code of a task that has not terminated is stored.
LEMMA StoreCodeSettled ==
  ASSUME NEW T \in Tables, NEW i \in Slots, T[i].state # "Terminated",
         NEW c \in ExitCodes \cup {NONE}
  PROVE  LET U == [T EXCEPT ![i].exit_code = c]
         IN  Settled(T, U) /\ U[i].state = T[i].state /\ U[i].exit_code = c
               /\ U[i].is_idle = T[i].is_idle
<1> DEFINE U == [T EXCEPT ![i].exit_code = c]
<1>1. ASSUME NEW j \in Slots
      PROVE  U[j] \in Task /\ Quiet(T[j], U[j]) /\ Calm(T[j], U[j])
  <2>1. T[j] \in Task
    BY Zenon DEF Tables
  <2>2. U[j] = IF j = i THEN [T[j] EXCEPT !.exit_code = c] ELSE T[j]
    BY Zenon DEF Tables
  <2> HIDE DEF U
  <2>3. QED BY <2>1, <2>2 DEF Task, TaskState, Quiet, Calm
<1>2. U \in Tables
  BY <1>1, Zenon DEF Tables
<1>3. U[i].state = T[i].state /\ U[i].exit_code = c /\ U[i].is_idle = T[i].is_idle
  <2>1. T[i] \in Task /\ U[i] = [T[i] EXCEPT !.exit_code = c]
    BY Zenon DEF Tables
  <2> HIDE DEF U
  <2>2. QED BY <2>1, Zenon DEF Task
<1>4. QED BY <1>1, <1>2, <1>3, Zenon DEF Settled, Calms

\* terminate_task and the sibling loop: a task that has terminated keeps its code.
LEMMA KillFates ==
  ASSUME NEW T \in Tables, NEW S, \A i \in S : ~T[i].is_idle, NEW c \in ExitCodes
  PROVE  LET U == Kill(T, S, c)
         IN  U \in Tables /\ Fates(T, U, c) /\ Calms(T, U)
<1> DEFINE U == Kill(T, S, c)
<1>1. ASSUME NEW i \in Slots
      PROVE  U[i] \in Task /\ Fate(T[i], U[i], c) /\ Calm(T[i], U[i])
  <2>1. T[i] \in Task
    BY Zenon DEF Tables
  <2>2. U[i] = IF i \in S /\ T[i].state # "Terminated"
               THEN [T[i] EXCEPT !.state = "Terminated", !.exit_code = c] ELSE T[i]
    BY Zenon DEF Kill
  <2> HIDE DEF U
  <2>3. CASE i \in S /\ T[i].state # "Terminated"
    <3>1. /\ U[i] \in Task /\ U[i].id = T[i].id /\ U[i].is_idle = T[i].is_idle
          /\ U[i].exit_code = c /\ U[i].state = "Terminated"
      <4>1. Dies(T[i], U[i], c)
        BY <2>2, <2>3, Zenon DEF Dies
      <4>2. QED BY <2>1, <4>1, CodeRewritten
    <3>2. QED BY <2>3, <3>1, Zenon DEF Fate, Calm
  <2>4. CASE ~(i \in S /\ T[i].state # "Terminated")
    BY <2>1, <2>2, <2>4, Zenon DEF Fate, Quiet, Calm
  <2>5. QED BY <2>3, <2>4, Zenon
<1>2. U \in Tables
  BY <1>1, Zenon DEF Kill, Tables
<1>3. QED BY <1>1, <1>2, Zenon DEF Fates, Calms

\* The picked task runs.
LEMMA DispatchSettled ==
  ASSUME NEW T \in Tables, NEW next, next \in Slots => T[next].state = "Ready"
  PROVE  Settled(T, Dispatch(T, next))
<1> DEFINE U == Dispatch(T, next)
<1>1. ASSUME NEW i \in Slots
      PROVE  U[i] \in Task /\ Quiet(T[i], U[i]) /\ Calm(T[i], U[i])
  <2>1. T[i] \in Task
    BY Zenon DEF Tables
  <2>2. U[i] = IF i = next THEN [T[i] EXCEPT !.state = "Running"] ELSE T[i]
    BY Zenon DEF Dispatch
  <2> HIDE DEF U
  <2>3. QED BY <2>1, <2>2 DEF Task, TaskState, Quiet, Calm
<1>2. U \in Tables
  BY <1>1, Zenon DEF Dispatch, Tables
<1>3. QED BY <1>1, <1>2, Zenon DEF Settled, Calms

\* select_next and the switch.
LEMMA SwitchSettled ==
  ASSUME NEW T \in Tables, current \in Slots, SwitchFrom(T)
  PROVE  Settled(T, tasks')
<1> DEFINE next == SelectNext(T, NextSlot(current))
<1>1. tasks' = Dispatch(T, next)
  BY Zenon DEF SwitchFrom
<1>2. NextSlot(current) \in Slots
  BY NextSlotType, Zenon
<1>3. NONE \notin Slots
  BY SchedulerAssumption DEF NONE, Slots
<1>4. next \in Slots => T[next].state = "Ready"
  BY <1>2, <1>3, SelectNextCorrect, Zenon DEF Tables
<1> HIDE DEF next
<1>5. QED BY <1>1, <1>4, DispatchSettled, Zenon

-----------------------------------------------------------------------------
(***************************************************************************)
(* What a step of Tasking is.                                              *)
(***************************************************************************)
Shape ==
  \/ /\ UNCHANGED next_id
     /\ \E c \in ExitCodes \cup {NONE} : Fates(tasks, tasks', c)
  \/ /\ next_id' = next_id + 1
     /\ \E slot \in Slots : /\ Joined(tasks, tasks', next_id, slot)
                            /\ tasks'[slot].is_idle => idle_index = NONE
  \/ /\ UNCHANGED next_id
     /\ \E i \in Slots : Left(tasks, tasks', i)

OnTime ==
  \A i \in Slots :
    tasks[i].state = "Sleeping" /\ tasks'[i].state \notin {"Sleeping", "Terminated"}
      => ticks' = tasks[i].wake_at

Sound == Shape /\ OnTime

\* Steps that only move tasks between states.
LEMMA CalmStep ==
  ASSUME UNCHANGED next_id, NEW c \in ExitCodes \cup {NONE},
         Fates(tasks, tasks', c), Calms(tasks, tasks')
  PROVE  Sound
BY Zenon DEF Sound, Shape, OnTime, Calms, Calm

\* A step that changes nothing about the life of a task is sound.
LEMMA SettledStep ==
  ASSUME UNCHANGED next_id, Settled(tasks, tasks')
  PROVE  Sound
<1>1. Fates(tasks, tasks', NONE)
  BY FatesCompose, Zenon
<1>2. QED BY <1>1, CalmStep, Zenon DEF Settled

\* The running task goes elsewhere.
LEMMA SwitchStep ==
  ASSUME IInv, current # NONE, UNCHANGED next_id,
         NEW T, Settled(tasks, T), SwitchFrom(T)
  PROVE  Sound
<1>1. current \in Slots
  BY CurrentLemma, Zenon
<1>2. Settled(T, tasks')
  BY <1>1, SwitchSettled, Zenon DEF Settled
<1>3. Settled(tasks, tasks')
  BY <1>2, SettledCompose, Zenon
<1>4. QED BY <1>3, SettledStep, Zenon

\* The task that `current` names is the running one.
LEMMA CurrentRuns ==
  ASSUME IInv, current # NONE
  PROVE  current \in Slots /\ tasks \in Tables /\ tasks[current].state = "Running"
BY CurrentLemma, Zenon DEF OnlyRuns, Tables

\* insert_task, and the switch of run_tasks that may follow.
LEMMA JoinStep ==
  ASSUME IInv, NEW slot \in EmptySlots(tasks), NEW t \in Task,
         t.id = next_id, t.state = "Ready", t.is_idle => idle_index = NONE,
         NEW T, T = [tasks EXCEPT ![slot] = t], Settled(T, tasks'),
         next_id' = next_id + 1
  PROVE  Sound
<1>1. tasks \in Tables /\ slot \in Slots /\ tasks[slot].state = "Empty"
  BY Zenon DEF IInv, TypeOK, Tables, EmptySlots
<1>2. tasks[slot].id = 0
  BY <1>1, Zenon DEF IInv, TableInv, IdTable
<1>3. T[slot] = t /\ \A j \in Slots \ {slot} : T[j] = tasks[j]
  BY <1>1, Zenon DEF Tables
<1>4. \A j \in Slots : Quiet(T[j], tasks'[j]) /\ Calm(T[j], tasks'[j])
  BY Zenon DEF Settled, Calms
<1>5. tasks'[slot].id = next_id /\ tasks'[slot].state # "Terminated"
      /\ tasks'[slot].is_idle = t.is_idle
  BY <1>1, <1>3, <1>4, Zenon DEF Quiet
<1>6. \A j \in Slots \ {slot} : Quiet(tasks[j], tasks'[j]) /\ Calm(tasks[j], tasks'[j])
  BY <1>3, <1>4, Zenon
<1>7. Shape
  BY <1>1, <1>2, <1>5, <1>6, Zenon DEF Shape, Joined
<1>8. OnTime
  BY <1>1, <1>6, Zenon DEF OnTime, Calm
<1>9. QED BY <1>7, <1>8, Zenon DEF Sound

\* A table that stays as it is has settled.
LEMMA SettledRefl ==
  ASSUME NEW T \in Tables
  PROVE  Settled(T, T)
BY Zenon DEF Settled, Quiet, Calms, Calm

\* spawn and spawn_user: one more task, under the next id.
LEMMA SpawnTaskSound ==
  ASSUME IInv, NEW user \in BOOLEAN, SpawnTask(user)
  PROVE  Sound
<1> DEFINE slot == Least(EmptySlots(tasks))
           t == NewTask(next_id, CurrentId, FALSE, user)
           T == [tasks EXCEPT ![slot] = t]
<1>1. /\ EmptySlots(tasks) # {} /\ EmptySlots(tasks) \in SUBSET Slots
      /\ tasks' = T /\ next_id' = next_id + 1
  BY Zenon DEF SpawnTask, InsertTask, EmptySlots
<1>2. slot \in EmptySlots(tasks)
  BY <1>1, LeastIsMember, Zenon
<1>3. IInv'
  BY SpawnTaskInv, Zenon
<1>4. tasks' \in Tables /\ tasks \in Tables /\ next_id \in TaskIds
  BY <1>3, Zenon DEF IInv, TypeOK, Tables
<1>5. T[slot] = t
  BY <1>2, <1>4, Zenon DEF Tables, EmptySlots
<1>6. t \in Task /\ t.id = next_id /\ t.state = "Ready" /\ t.is_idle = FALSE
  <2>1. slot \in Slots
    BY <1>2, Zenon DEF EmptySlots
  <2>2. T \in Tables
    BY <1>1, <1>4, Zenon
  <2>3. T[slot] \in Task
    BY <2>1, <2>2, Zenon DEF Tables
  <2>4. QED BY <1>5, <2>3, Zenon DEF NewTask
<1>7. Settled(tasks', tasks')
  BY <1>4, SettledRefl, Zenon
<1>8. QED
  <2> HIDE DEF slot, t
  <2>1. QED BY <1>1, <1>2, <1>6, <1>7, JoinStep, Zenon

\* run_tasks: the idle task under the next id, and the first switch.
LEMMA RunTasksSound ==
  ASSUME IInv, RunTasks
  PROVE  Sound
<1> DEFINE slot == Least(EmptySlots(tasks))
           t == NewTask(next_id, NONE, TRUE, FALSE)
           T == [tasks EXCEPT ![slot] = t]
           next == SelectNext(T, 0)
<1>1. /\ EmptySlots(tasks) # {} /\ EmptySlots(tasks) \in SUBSET Slots
      /\ tasks' = Dispatch(T, next) /\ next_id' = next_id + 1
      /\ idle_index = NONE
  BY Zenon DEF RunTasks, EmptySlots
<1>2. slot \in EmptySlots(tasks) /\ slot \in Slots
  BY <1>1, LeastIsMember, Zenon
<1>3. tasks \in Tables /\ next_id \in TaskIds
  BY Zenon DEF IInv, TypeOK, Tables
<1>4. t \in Task /\ t.id = next_id /\ t.state = "Ready"
  BY <1>3, Zenon DEF NewTask, Task, TaskState
<1>5. T \in Tables
  <2> HIDE DEF slot, t
  <2>1. QED BY <1>2, <1>3, <1>4, Zenon DEF Tables
<1>6. next \in Slots => T[next].state = "Ready"
  <2>1. 0 \in Slots /\ NONE \notin Slots
    BY SchedulerAssumption DEF Slots, NONE
  <2> HIDE DEF T
  <2>2. QED BY <1>5, <2>1, SelectNextCorrect, Zenon DEF Tables
<1>7. Settled(T, tasks')
  <2> HIDE DEF T, next
  <2>1. QED BY <1>1, <1>5, <1>6, DispatchSettled, Zenon
<1>8. QED
  <2> HIDE DEF slot, t, next
  <2>1. QED BY <1>1, <1>2, <1>4, <1>7, JoinStep, Zenon

\* remove_task, of a terminated task or of the idle task.
LEMMA LeaveStep ==
  ASSUME IInv, NEW i \in Slots, tasks[i].state = "Terminated" \/ tasks[i].is_idle,
         tasks[i].state # "Sleeping",
         tasks' = RemoveTask(tasks, i), UNCHANGED next_id
  PROVE  Sound
<1>1. tasks \in Tables
  BY Zenon DEF IInv, TypeOK, Tables
<1>2. tasks'[i] = EmptySlot /\ \A j \in Slots \ {i} : tasks'[j] = tasks[j]
  BY <1>1, Zenon DEF RemoveTask, Tables
<1>3. tasks'[i].id = 0
  BY <1>2 DEF EmptySlot
<1>4. tasks[i].id # 0
  <2>1. tasks[i].state # "Empty"
    BY Zenon DEF IInv, TableInv, IdleTable
  <2>2. tasks[i].id \in 1..(next_id - 1) /\ next_id \in TaskIds
    BY <2>1, Zenon DEF IInv, TypeOK, TableInv, IdTable
  <2>3. QED BY <2>2, SchedulerAssumption DEF TaskIds
<1>5. \A j \in Slots \ {i} : Quiet(tasks[j], tasks'[j])
  BY <1>2, Zenon DEF Quiet
<1>6. Shape
  BY <1>3, <1>4, <1>5, Zenon DEF Shape, Left
<1>7. OnTime
  BY <1>2, Zenon DEF OnTime
<1>8. QED BY <1>6, <1>7, Zenon DEF Sound

\* The end of run_tasks: the idle task leaves.
LEMMA BootstrapReturnSound ==
  ASSUME IInv, BootstrapReturn
  PROVE  Sound
<1>1. UNCHANGED next_id
  BY Zenon DEF BootstrapReturn
<1>2. CASE UNCHANGED tasks
  <2>1. tasks \in Tables
    BY Zenon DEF IInv, TypeOK, Tables
  <2>2. Settled(tasks, tasks')
    BY <1>2, <2>1, SettledRefl, Zenon
  <2>3. QED BY <1>1, <2>2, SettledStep, Zenon
<1>3. CASE /\ idle_index # NONE /\ tasks[idle_index].is_idle
           /\ tasks[idle_index].state = "Ready"
           /\ tasks' = RemoveTask(tasks, idle_index)
  <2>1. idle_index \in Slots
    BY <1>3, Zenon DEF IInv, TypeOK
  <2>2. QED BY <1>1, <1>3, <2>1, LeaveStep, Zenon
<1>4. QED BY <1>2, <1>3, Zenon DEF BootstrapReturn

\* A deadline between 1 and MAX_SLEEP ticks ahead has not expired, and expires
\* with the next tick only when that is the tick asked for.
LEMMA DeadlineAhead ==
  ASSUME NEW now \in Ticks, NEW at \in Ticks, WrapSub(at, now) \in 1..MAX_SLEEP
  PROVE  /\ ~Expired(now, at)
         /\ Expired(WrapAdd(now, 1), at) => WrapAdd(now, 1) = at
<1>1. HALF \in Nat \ {0} /\ MAX_SLEEP \in Nat /\ MAX_SLEEP <= HALF
  BY SchedulerAssumption
<1>2. /\ now \in Nat /\ now < 2 * HALF
      /\ at \in Nat /\ at < 2 * HALF
  BY <1>1 DEF Ticks, TICKS
<1>3. QED BY <1>1, <1>2 DEF Expired, WrapSub, WrapAdd, TICKS

\* A sleeper has a deadline ahead of the clock.
LEMMA SleeperDeadline ==
  ASSUME IInv, NEW i \in Slots, tasks[i].state = "Sleeping"
  PROVE  /\ tasks[i].wake_at \in Ticks /\ ticks \in Ticks
         /\ WrapSub(tasks[i].wake_at, ticks) \in 1..MAX_SLEEP
<1>1. tasks[i] \in Task /\ ticks \in Ticks
  BY Zenon DEF IInv, TypeOK
<1>2. tasks[i].wake_at # NONE /\ WrapSub(tasks[i].wake_at, ticks) \in 1..MAX_SLEEP
  BY Zenon DEF IInv, TableInv, SleeperTable
<1>3. QED BY <1>1, <1>2, Zenon DEF Task

\* A tick, or the idle task's look at the clock, wakes whose time has come.
LEMMA ExpiredOnTime ==
  ASSUME IInv, NEW now, now \in {ticks, WrapAdd(ticks, 1)}, ticks' = now
  PROVE  LET T == WakeExpiredSleepers(tasks, now)
         IN  /\ T \in Tables
             /\ \A i \in Slots : Quiet(tasks[i], T[i])
             /\ \A i \in Slots :
                  tasks[i].state = "Sleeping" /\ T[i].state \notin {"Sleeping", "Terminated"}
                    => ticks' = tasks[i].wake_at
<1> DEFINE T == WakeExpiredSleepers(tasks, now)
<1>1. tasks \in Tables
  BY Zenon DEF IInv, TypeOK, Tables
<1>2. /\ T \in Tables
      /\ \A i \in Slots : Quiet(tasks[i], T[i])
      /\ \A i \in Slots : \/ Calm(tasks[i], T[i])
                           \/ /\ tasks[i].wake_at # NONE
                              /\ Expired(now, tasks[i].wake_at)
  BY <1>1, WakeExpiredFates, Zenon
<1> HIDE DEF T
<1>3. ASSUME NEW i \in Slots, tasks[i].state = "Sleeping",
             T[i].state \notin {"Sleeping", "Terminated"}
      PROVE  ticks' = tasks[i].wake_at
  <2>1. Expired(now, tasks[i].wake_at)
    BY <1>2, <1>3, Zenon DEF Calm
  <2>2. /\ tasks[i].wake_at \in Ticks /\ ticks \in Ticks
        /\ WrapSub(tasks[i].wake_at, ticks) \in 1..MAX_SLEEP
    BY <1>3, SleeperDeadline, Zenon
  <2>3. /\ ~Expired(ticks, tasks[i].wake_at)
        /\ Expired(WrapAdd(ticks, 1), tasks[i].wake_at) =>
              WrapAdd(ticks, 1) = tasks[i].wake_at
    BY <2>2, DeadlineAhead, Zenon
  <2>4. QED BY <2>1, <2>3, Zenon
<1>4. QED BY <1>2, <1>3, Zenon DEF T

\* Such a wake-up and what settles after it.
LEMMA ExpiredStep ==
  ASSUME IInv, UNCHANGED next_id, NEW now, now \in {ticks, WrapAdd(ticks, 1)}, ticks' = now,
         Settled(WakeExpiredSleepers(tasks, now), tasks')
  PROVE  Sound
<1> DEFINE T == WakeExpiredSleepers(tasks, now)
<1>1. /\ T \in Tables
      /\ \A i \in Slots : Quiet(tasks[i], T[i])
      /\ \A i \in Slots :
           tasks[i].state = "Sleeping" /\ T[i].state \notin {"Sleeping", "Terminated"}
             => ticks' = tasks[i].wake_at
  BY ExpiredOnTime, Zenon
<1>2. Settled(T, tasks')
  BY Zenon
<1> HIDE DEF T
<1>3. Fates(tasks, T, NONE) /\ Fates(T, tasks', NONE)
  <2>1. Fates(tasks, T, NONE)
    BY <1>1, Zenon DEF Fates, Fate
  <2>2. QED BY <1>2, <2>1, FatesCompose, Zenon
<1>4. Shape
  <2>1. Fates(tasks, tasks', NONE)
    BY <1>3, FatesCompose, Zenon
  <2>2. QED BY <2>1, Zenon DEF Shape
<1>5. OnTime
  BY <1>1, <1>2, Zenon DEF OnTime, Settled, Calms, Calm
<1>6. QED BY <1>4, <1>5, Zenon DEF Sound

\* The task on the CPU is not asleep.
LEMMA CurrentKeptAwake ==
  ASSUME NEW T \in Tables, NEW now, NEW i \in Slots, T[i].state = "Running"
  PROVE  WakeExpiredSleepers(T, now)[i].state = "Running"
BY Zenon DEF WakeExpiredSleepers

\* The running task goes back to the run queue.
LEMMA BackToReady ==
  ASSUME NEW T \in Tables, NEW i \in Slots, T[i].state = "Running"
  PROVE  Settled(T, [T EXCEPT ![i].state = "Ready"])
<1> DEFINE U == [T EXCEPT ![i].state = "Ready"]
<1>1. ASSUME NEW j \in Slots
      PROVE  U[j] \in Task /\ Quiet(T[j], U[j]) /\ Calm(T[j], U[j])
  <2>1. T[j] \in Task
    BY Zenon DEF Tables
  <2>2. U[j] = IF j = i THEN [T[j] EXCEPT !.state = "Ready"] ELSE T[j]
    BY Zenon DEF Tables
  <2> HIDE DEF U
  <2>3. QED BY <2>1, <2>2 DEF Task, TaskState, Quiet, Calm
<1>2. U \in Tables
  BY <1>1, Zenon DEF Tables
<1>3. QED BY <1>1, <1>2, Zenon DEF Settled, Calms

\* The idle task's look at the clock, which finds nobody overdue.
LEMMA IdleCheckSound ==
  ASSUME IInv, IdleCheck
  PROVE  Sound
<1> DEFINE T == WakeExpiredSleepers(tasks, ticks)
<1>1. /\ current # NONE /\ UNCHANGED <<next_id, ticks>>
      /\ tasks' = T \/ tasks' = [T EXCEPT ![current].state = "Ready"]
  BY Zenon DEF IdleCheck, IdleRuns
<1>2. current \in Slots /\ tasks \in Tables /\ tasks[current].state = "Running"
  BY <1>1, CurrentRuns, Zenon
<1>3. T \in Tables /\ T[current].state = "Running"
  BY <1>2, WakeExpiredFates, CurrentKeptAwake, Zenon
<1>4. Settled(T, tasks')
  <2> HIDE DEF T
  <2>1. QED BY <1>1, <1>2, <1>3, SettledRefl, BackToReady, Zenon
<1>5. QED BY <1>1, <1>4, ExpiredStep, Zenon

\* The timer interrupt, with the preemption that follows.
LEMMA TimerTickSound ==
  ASSUME IInv, TimerTick
  PROVE  Sound
<1> DEFINE now == WrapAdd(ticks, 1)
           T == WakeExpiredSleepers(tasks, now)
<1>1. ticks' = now /\ UNCHANGED next_id
  BY Zenon DEF TimerTick
<1>2. CASE current = NONE
  <2>1. tasks' = tasks /\ tasks \in Tables
    BY <1>2, Zenon DEF TimerTick, IInv, TypeOK, Tables
  <2>2. QED BY <1>1, <2>1, SettledRefl, SettledStep, Zenon
<1>3. CASE current # NONE
  <2>1. SwitchFrom(LeaveCpu(T, current, "Ready"))
    BY <1>1, <1>3, Zenon DEF TimerTick
  <2>2. current \in Slots /\ tasks \in Tables /\ tasks[current].state = "Running"
    BY <1>3, CurrentRuns, Zenon
  <2>3. T \in Tables /\ T[current].state = "Running"
    BY <2>2, WakeExpiredFates, CurrentKeptAwake, Zenon
  <2>4. Settled(T, tasks')
    <3> HIDE DEF T
    <3>1. Settled(T, LeaveCpu(T, current, "Ready"))
      BY <2>2, <2>3, LeaveCpuSettled, Zenon
    <3>2. Settled(LeaveCpu(T, current, "Ready"), tasks')
      BY <2>1, <2>2, <3>1, SwitchSettled, Zenon DEF Settled
    <3>3. QED BY <3>1, <3>2, SettledCompose, Zenon
  <2>5. QED BY <1>1, <2>4, ExpiredStep, Zenon
<1>4. QED BY <1>2, <1>3, Zenon

\* yield_now, block_now and the waiter that blocks.
LEMMA LeaveStepSound ==
  ASSUME IInv, current # NONE, UNCHANGED next_id, NEW state \in {"Ready", "Blocked"},
         SwitchFrom(LeaveCpu(tasks, current, state))
  PROVE  Sound
<1>1. current \in Slots /\ tasks \in Tables /\ tasks[current].state = "Running"
  BY CurrentRuns, Zenon
<1>2. Settled(tasks, LeaveCpu(tasks, current, state))
  BY <1>1, LeaveCpuSettled, Zenon
<1>3. QED BY <1>2, SwitchStep, Zenon

\* sleep_ticks.
LEMMA SleepTicksSound ==
  ASSUME IInv, NEW duration \in 1..MAX_SLEEP, SleepTicks(duration)
  PROVE  Sound
<1>1. /\ current # NONE /\ UNCHANGED next_id
      /\ SwitchFrom(FallAsleep(tasks, current, WrapAdd(ticks, duration)))
  BY Zenon DEF SleepTicks, TaskRuns
<1>2. current \in Slots /\ tasks \in Tables /\ tasks[current].state = "Running"
  BY <1>1, CurrentRuns, Zenon
<1>3. WrapAdd(ticks, duration) \in Ticks
  <2>1. ticks \in Ticks
    BY Zenon DEF IInv, TypeOK
  <2>2. QED BY <2>1, SchedulerAssumption DEF WrapAdd, Ticks, TICKS
<1>4. Settled(tasks, FallAsleep(tasks, current, WrapAdd(ticks, duration)))
  BY <1>2, <1>3, FallAsleepSettled, Zenon
<1>5. QED BY <1>1, <1>4, SwitchStep, Zenon

\* exit, once the siblings of a group exit are dead in table T.
LEMMA ExitSound ==
  ASSUME IInv, current # NONE, ~tasks[current].is_idle, UNCHANGED next_id,
         NEW c \in ExitCodes \cup {NONE}, NEW T \in Tables,
         Fates(tasks, T, c), Calms(tasks, T), T[current] = tasks[current],
         ExitIn(T, c)
  PROVE  Sound
<1> DEFINE S == [T EXCEPT ![current].exit_code = c]
           W == WakeParent(S, current)
           L == LeaveCpu(W, current, "Terminated")
<1>1. current \in Slots /\ T[current].state = "Running"
  BY CurrentRuns, Zenon
<1>2. /\ Settled(T, S) /\ S[current].state = "Running" /\ S[current].exit_code = c
      /\ ~S[current].is_idle
  BY <1>1, StoreCodeSettled, Zenon
<1>3. Settled(S, W) /\ W[current] = S[current]
  <2> HIDE DEF S
  <2>1. Settled(S, W)
    BY <1>2, WakeBlockedSettled, Zenon DEF Settled, WakeParent
  <2>2. QED BY <1>1, <1>2, <2>1, Zenon DEF WakeParent, WakeBlocked
<1>4. L \in Tables /\ Fates(W, L, c) /\ Calms(W, L)
  <2> HIDE DEF S, W
  <2>1. W \in Tables /\ W[current].state = "Running" /\ ~W[current].is_idle
        /\ W[current].exit_code = c
    BY <1>2, <1>3, Zenon DEF Settled
  <2>2. QED BY <1>1, <2>1, LeaveCpuFates, Zenon
<1>5. Settled(L, tasks')
  <2>1. SwitchFrom(L)
    BY Zenon DEF ExitIn
  <2> HIDE DEF L
  <2>2. QED BY <1>1, <1>4, <2>1, SwitchSettled, Zenon
<1> HIDE DEF S, W, L
<1>6. Fates(tasks, tasks', c)
  <2>1. Fates(T, S, c) /\ Fates(S, W, c) /\ Fates(L, tasks', c)
    BY <1>2, <1>3, <1>5, FatesCompose, Zenon
  <2>2. Fates(tasks, S, c)
    BY <2>1, FatesCompose, Zenon
  <2>3. Fates(tasks, W, c)
    BY <2>1, <2>2, FatesCompose, Zenon
  <2>4. Fates(tasks, L, c)
    BY <1>4, <2>3, FatesCompose, Zenon
  <2>5. QED BY <2>1, <2>4, FatesCompose, Zenon
<1>7. Calms(tasks, tasks')
  <2>1. Calms(T, S) /\ Calms(S, W) /\ Calms(L, tasks')
    BY <1>2, <1>3, <1>5, Zenon DEF Settled
  <2>2. QED BY <1>4, <2>1, Zenon DEF Calms, Calm
<1>8. QED BY <1>6, <1>7, CalmStep, Zenon

\* exit_current.
LEMMA ExitCurrentSound ==
  ASSUME IInv, NEW c \in ExitCodes \cup {NONE}, ExitCurrent(c)
  PROVE  Sound
<1>1. /\ current # NONE /\ ~tasks[current].is_idle /\ UNCHANGED next_id
      /\ ExitIn(tasks, c)
  BY Zenon DEF ExitCurrent, TaskRuns
<1>2. tasks \in Tables
  BY <1>1, CurrentRuns, Zenon
<1>3. Settled(tasks, tasks)
  BY <1>2, SettledRefl, Zenon
<1>4. Fates(tasks, tasks, c) /\ Calms(tasks, tasks)
  BY <1>3, FatesCompose, Zenon DEF Settled
<1>5. QED BY <1>1, <1>2, <1>4, ExitSound, Zenon

\* Ctrl-C: the siblings are killed, then the current task exits.
LEMMA ExitCurrentGroupSound ==
  ASSUME IInv, NEW c \in ExitCodes, ExitCurrentGroup(c)
  PROVE  Sound
<1> DEFINE G == Siblings(tasks, current)
           T == Kill(tasks, G, c)
<1>1. /\ current # NONE /\ ~tasks[current].is_idle /\ UNCHANGED next_id
      /\ ExitIn(T, c)
  BY Zenon DEF ExitCurrentGroup, UserTaskRuns, TaskRuns
<1>2. current \in Slots /\ tasks \in Tables
  BY <1>1, CurrentRuns, Zenon
<1>3. \A i \in G : ~tasks[i].is_idle
  BY Zenon DEF Siblings, IInv, TableInv, IdleTable
<1>4. T \in Tables /\ Fates(tasks, T, c) /\ Calms(tasks, T)
  <2> HIDE DEF G
  <2>1. QED BY <1>2, <1>3, KillFates, Zenon
<1>5. T[current] = tasks[current]
  BY <1>2, Zenon DEF Kill, Siblings
<1>6. QED
  <2> HIDE DEF T
  <2>1. QED BY <1>1, <1>4, <1>5, ExitSound, Zenon

\* wait_for_child: a child is reaped, or the caller blocks, or nothing.
LEMMA WaitForChildSound ==
  ASSUME IInv, NEW child, WaitForChild(child)
  PROVE  Sound
<1> DEFINE dead == TerminatedChildren(tasks, CurrentId, child)
<1>1. current # NONE /\ UNCHANGED next_id
  BY Zenon DEF WaitForChild
<1>2. CASE UNCHANGED tasks
  <2>1. tasks \in Tables
    BY <1>1, CurrentRuns, Zenon
  <2>2. QED BY <1>1, <1>2, <2>1, SettledRefl, SettledStep, Zenon
<1>3. CASE dead # {} /\ tasks' = RemoveTask(tasks, Least(dead))
  <2>1. dead \in SUBSET Slots /\ \A i \in dead : tasks[i].state = "Terminated"
    BY Zenon DEF TerminatedChildren, Children
  <2> HIDE DEF dead
  <2>2. Least(dead) \in dead
    BY <1>3, <2>1, LeastIsMember, Zenon
  <2>3. QED BY <1>1, <1>3, <2>1, <2>2, LeaveStep, Zenon
<1>4. CASE SwitchFrom(LeaveCpu(tasks, current, "Blocked"))
  BY <1>1, <1>4, LeaveStepSound, Zenon
<1>5. QED BY <1>2, <1>3, <1>4, Zenon DEF WaitForChild

\* wake_task and wake_all_blocked_tasks.
LEMMA WakeSound ==
  ASSUME IInv, UNCHANGED next_id, NEW S, tasks' = WakeBlocked(tasks, S)
  PROVE  Sound
<1>1. tasks \in Tables
  BY Zenon DEF IInv, TypeOK, Tables
<1>2. QED BY <1>1, WakeBlockedSettled, SettledStep, Zenon

\* terminate_task: the victim dies and its parent is woken.
LEMMA TerminateTaskSound ==
  ASSUME IInv, NEW id, NEW c \in ExitCodes, TerminateTask(id, c)
  PROVE  Sound
<1>1. UNCHANGED next_id /\ tasks \in Tables
  BY Zenon DEF TerminateTask, IInv, TypeOK, Tables
<1>2. PICK i \in SlotsOf(tasks, id) \ {current} :
        ~tasks[i].is_idle /\ tasks' = WakeParent(Kill(tasks, {i}, c), i)
  BY Zenon DEF TerminateTask
<1> DEFINE K == Kill(tasks, {i}, c)
<1>3. K \in Tables /\ Fates(tasks, K, c) /\ Calms(tasks, K)
  BY <1>1, <1>2, KillFates, Zenon
<1>4. Settled(K, tasks')
  <2>1. tasks' = WakeBlocked(K, SlotsOf(K, K[i].parent))
    BY <1>2, Zenon DEF WakeParent
  <2> HIDE DEF K
  <2>2. QED BY <1>3, <2>1, WakeBlockedSettled, Zenon
<1> HIDE DEF K
<1>5. Fates(K, tasks', c) /\ Calms(K, tasks')
  BY <1>4, FatesCompose, Zenon DEF Settled
<1>6. Fates(tasks, tasks', c) /\ Calms(tasks, tasks')
  BY <1>3, <1>5, FatesCompose, Zenon
<1>7. QED BY <1>1, <1>6, CalmStep, Zenon

\* reap_terminated.
LEMMA ReapTerminatedSound ==
  ASSUME IInv, NEW id, ReapTerminated(id)
  PROVE  Sound
<1>1. PICK i \in SlotsOf(tasks, id) :
        tasks[i].state = "Terminated" /\ tasks' = RemoveTask(tasks, i)
  BY Zenon DEF ReapTerminated
<1>2. UNCHANGED next_id /\ i \in Slots
  BY Zenon DEF ReapTerminated, SlotsOf
<1>3. QED BY <1>1, <1>2, LeaveStep, Zenon

\* Every step of the scheduler is sound.
LEMMA NextSound ==
  ASSUME IInv, [Next]_vars
  PROVE  Sound
<1>1. ASSUME Spawn \/ SpawnUser PROVE Sound
  BY <1>1, SpawnTaskSound, Zenon DEF Spawn, SpawnUser
<1>2. ASSUME IdleYield \/ YieldNow PROVE Sound
  BY <1>2, LeaveStepSound, Zenon DEF IdleYield, IdleRuns, YieldNow, TaskRuns
<1>3. ASSUME BlockNow PROVE Sound
  BY <1>3, LeaveStepSound, Zenon DEF BlockNow, TaskRuns
<1>4. ASSUME NEW id \in TaskIds, WakeTask(id) PROVE Sound
  BY <1>4, WakeSound, Zenon DEF WakeTask
<1>5. ASSUME WakeAllBlockedTasks PROVE Sound
  BY <1>5, WakeSound, Zenon DEF WakeAllBlockedTasks, WakeAllBlocked
<1>6. ASSUME UNCHANGED vars PROVE Sound
  <2>1. UNCHANGED next_id /\ UNCHANGED tasks /\ tasks \in Tables
    BY <1>6, Zenon DEF vars, sched, IInv, TypeOK, Tables
  <2>2. QED BY <2>1, SettledRefl, SettledStep, Zenon
<1>7. QED
  BY <1>1, <1>2, <1>3, <1>4, <1>5, <1>6, RunTasksSound, BootstrapReturnSound,
     IdleCheckSound, TimerTickSound, SleepTicksSound, ExitCurrentSound,
     ExitCurrentGroupSound, WaitForChildSound, TerminateTaskSound,
     ReapTerminatedSound, Zenon DEF Next

-----------------------------------------------------------------------------
(***************************************************************************)
(* The results.                                                            *)
(***************************************************************************)
\* A sleeper leaves its sleep in the tick it asked for, across the wrap of
\* timer::TICKS and whatever else happens, unless it is killed:
\* wake_expired_sleepers wakes nobody early.
THEOREM SleepEndsOnTime == Spec => SleepersWakeOnTime
<1>1. IInv /\ [Next]_vars => OnTime
  BY NextSound, Zenon DEF Sound
<1>2. QED BY <1>1, TaskingInvariant, PTL DEF Spec, SleepersWakeOnTime, OnTime

\* The abstract state, of the present and of the next table.
LEMMA AbstractState ==
  ASSUME NEW id
  PROVE  /\ LifeOf(id) = LifeIn(tasks, next_id, id)
         /\ CodeOf(id) = CodeIn(tasks, id)
         /\ LifeOf(id)' = LifeIn(tasks', next_id', id)
         /\ CodeOf(id)' = CodeIn(tasks', id)
BY Zenon DEF LifeOf, CodeOf, LifeIn, CodeIn

lifeNow == [id \in TaskIds |-> LifeOf(id)]
codeNow == [id \in TaskIds |-> CodeOf(id)]

\* Every step of the scheduler is a step of TaskLifecycle.
LEMMA StepRefines ==
  ASSUME IInv, IInv', Shape
  PROVE  Lifecycle!LifecycleNext
<1>1. /\ tasks \in Tables /\ next_id \in TaskIds /\ IdTable(tasks, next_id)
      /\ tasks' \in Tables /\ next_id' \in TaskIds /\ IdTable(tasks', next_id')
  BY Zenon DEF IInv, TypeOK, TableInv, Tables
<1>2. Lifecycle!Ids = TaskIds /\ Lifecycle!NoCode = NONE
  BY Zenon DEF Lifecycle!Ids, Lifecycle!NoCode, TaskIds, NONE
<1>3. /\ \A id \in TaskIds : lifeNow[id] = LifeIn(tasks, next_id, id)
                             /\ codeNow[id] = CodeIn(tasks, id)
      /\ \A id \in TaskIds : lifeNow'[id] = LifeIn(tasks', next_id', id)
                             /\ codeNow'[id] = CodeIn(tasks', id)
  BY AbstractState, Zenon DEF lifeNow, codeNow
<1>4. /\ lifeNow = [id \in TaskIds |-> LifeOf(id)]
      /\ codeNow = [id \in TaskIds |-> CodeOf(id)]
      /\ lifeNow' = [id \in TaskIds |-> LifeOf(id)']
      /\ codeNow' = [id \in TaskIds |-> CodeOf(id)']
  BY Zenon DEF lifeNow, codeNow
<1>5. ASSUME UNCHANGED next_id, NEW c \in ExitCodes \cup {NONE}, Fates(tasks, tasks', c)
      PROVE  Lifecycle!Terminate(c)
  <2>1. lifeNow' \in [TaskIds -> Lifecycle!Lives]
    BY <1>1, <1>3, <1>4, LifeTypes DEF Lifecycle!Lives
  <2>2. codeNow' \in [TaskIds -> ExitCodes \cup {NONE}]
    BY <1>1, <1>3, <1>4, LifeTypes
  <2>3. ASSUME NEW id \in TaskIds
        PROVE  \/ lifeNow'[id] = lifeNow[id] /\ codeNow'[id] = codeNow[id]
               \/ /\ lifeNow[id] = "live" /\ lifeNow'[id] = "zombie"
                  /\ codeNow'[id] = c
    <3>1. next_id' = next_id
      BY <1>5, Zenon
    <3>2. \/ LifeIn(tasks', next_id, id) = LifeIn(tasks, next_id, id)
             /\ CodeIn(tasks', id) = CodeIn(tasks, id)
          \/ /\ LifeIn(tasks, next_id, id) = "live"
             /\ LifeIn(tasks', next_id, id) = "zombie"
             /\ CodeIn(tasks', id) = c
      BY <1>1, <1>5, <3>1, FatesTerminate
    <3>3. /\ lifeNow[id] = LifeIn(tasks, next_id, id) /\ codeNow[id] = CodeIn(tasks, id)
          /\ lifeNow'[id] = LifeIn(tasks', next_id, id) /\ codeNow'[id] = CodeIn(tasks', id)
      BY <1>3, <3>1, Zenon
    <3>4. QED BY <3>2, <3>3, Zenon
  <2>4. QED BY <1>2, <2>1, <2>2, <2>3, Zenon DEF Lifecycle!Terminate, lifeNow, codeNow
<1>6. ASSUME next_id' = next_id + 1, NEW slot \in Slots,
             Joined(tasks, tasks', next_id, slot),
             tasks'[slot].is_idle => idle_index = NONE
      PROVE  Lifecycle!Issue(IF tasks'[slot].is_idle THEN "idle" ELSE "live")
  <2> DEFINE kind == IF tasks'[slot].is_idle THEN "idle" ELSE "live"
  <2>1. \A id \in TaskIds :
          /\ lifeNow'[id] = IF id = next_id THEN kind ELSE lifeNow[id]
          /\ codeNow'[id] = codeNow[id]
    <3>1. ASSUME NEW id \in TaskIds
          PROVE  /\ LifeIn(tasks', next_id + 1, id) =
                      IF id = next_id THEN kind ELSE LifeIn(tasks, next_id, id)
                 /\ CodeIn(tasks', id) = CodeIn(tasks, id)
      BY <1>1, <1>6, JoinedLife
    <3>2. ASSUME NEW id \in TaskIds
          PROVE  /\ lifeNow[id] = LifeIn(tasks, next_id, id) /\ codeNow[id] = CodeIn(tasks, id)
                 /\ lifeNow'[id] = LifeIn(tasks', next_id + 1, id) /\ codeNow'[id] = CodeIn(tasks', id)
      BY <1>3, <1>6, Zenon
    <3> HIDE DEF kind
    <3>3. QED BY <3>1, <3>2, Zenon
  <2>2. lifeNow' = [lifeNow EXCEPT ![next_id] = kind]
    BY <1>1, <1>4, <2>1, Zenon
  <2>3. codeNow' = codeNow
    BY <1>4, <2>1, Zenon
  <2>4. lifeNow[next_id] = "unborn"
    BY <1>1, <1>3, UnbornIds DEF TaskIds
  <2>5. \A older \in 1..(next_id - 1) : lifeNow[older] # "unborn"
    <3>1. ASSUME NEW older \in 1..(next_id - 1)
          PROVE  older \in TaskIds /\ ~(next_id <= older)
      BY <1>1, SchedulerAssumption DEF TaskIds
    <3>2. QED BY <1>1, <1>3, <3>1, UnbornIds, Zenon
  <2>6. kind = "idle" => \A other \in TaskIds : lifeNow[other] # "idle"
    <3>1. ASSUME kind = "idle", NEW other \in TaskIds PROVE lifeNow[other] # "idle"
      <4>1. \A i \in Slots : ~tasks[i].is_idle
        <5>1. idle_index = NONE /\ NONE \notin Slots
          BY <1>6, <3>1, SchedulerAssumption DEF Slots, NONE
        <5>2. QED BY <5>1, Zenon DEF IInv, TableInv, IdleTable
      <4>2. CASE \A i \in Slots : tasks[i].id # other
        <5>1. LifeIn(tasks, next_id, other) \in {"unborn", "gone"}
          BY <4>2, LifeNowhere, Zenon
        <5>2. QED BY <1>3, <5>1, Zenon
      <4>3. ASSUME NEW i \in Slots, tasks[i].id = other PROVE lifeNow[other] # "idle"
        <5>1. LifeIn(tasks, next_id, other) =
                IF tasks[i].is_idle THEN "idle"
                ELSE IF tasks[i].state = "Terminated" THEN "zombie" ELSE "live"
          BY <1>1, <4>3, LifeAt, Zenon
        <5>2. QED BY <1>3, <4>1, <5>1, Zenon
      <4>4. QED BY <4>2, <4>3, Zenon
    <3>2. QED BY <3>1, Zenon
  <2> HIDE DEF kind
  <2>7. Lifecycle!Issue(kind)
    BY <1>1, <1>2, <2>2, <2>3, <2>4, <2>5, <2>6, Zenon DEF Lifecycle!Issue, lifeNow, codeNow
  <2>8. QED BY <2>7, Zenon DEF kind
<1>7. ASSUME UNCHANGED next_id, NEW i \in Slots, Left(tasks, tasks', i)
      PROVE  tasks[i].id \in TaskIds /\ Lifecycle!Collect(tasks[i].id)
  <2> DEFINE k == tasks[i].id
  <2>1. k \in TaskIds
    BY <1>1, <1>7, LeftLife, Zenon
  <2>2. LifeIn(tasks, next_id, k) \in {"zombie", "idle"}
    BY <1>1, <1>7, LeftLife, Zenon
  <2>3. \A id \in TaskIds :
          /\ lifeNow'[id] = IF id = k THEN "gone" ELSE lifeNow[id]
          /\ codeNow'[id] = IF id = k THEN NONE ELSE codeNow[id]
    <3>1. ASSUME NEW id \in TaskIds
          PROVE  /\ LifeIn(tasks', next_id, id) =
                      IF id = k THEN "gone" ELSE LifeIn(tasks, next_id, id)
                 /\ CodeIn(tasks', id) = IF id = k THEN NONE ELSE CodeIn(tasks, id)
      BY <1>1, <1>7, LeftLife
    <3>2. ASSUME NEW id \in TaskIds
          PROVE  /\ lifeNow[id] = LifeIn(tasks, next_id, id) /\ codeNow[id] = CodeIn(tasks, id)
                 /\ lifeNow'[id] = LifeIn(tasks', next_id, id) /\ codeNow'[id] = CodeIn(tasks', id)
      BY <1>3, <1>7, Zenon
    <3>3. QED BY <3>1, <3>2
  <2> HIDE DEF k
  <2>4. lifeNow' = [lifeNow EXCEPT ![k] = "gone"] /\ codeNow' = [codeNow EXCEPT ![k] = NONE]
    BY <1>4, <2>3, Zenon
  <2>5. lifeNow[k] \in {"zombie", "idle"}
    BY <1>3, <2>1, <2>2, Zenon
  <2>6. Lifecycle!Collect(k)
    BY <1>2, <2>4, <2>5, Zenon DEF Lifecycle!Collect, lifeNow, codeNow
  <2>7. QED BY <2>1, <2>6, Zenon DEF k
<1>8. CASE UNCHANGED next_id /\ \E c \in ExitCodes \cup {NONE} : Fates(tasks, tasks', c)
  BY <1>2, <1>5, <1>8, Zenon DEF Lifecycle!LifecycleNext
<1>9. CASE /\ next_id' = next_id + 1
           /\ \E slot \in Slots : /\ Joined(tasks, tasks', next_id, slot)
                                  /\ tasks'[slot].is_idle => idle_index = NONE
  <2>1. \E kind \in {"live", "idle"} : Lifecycle!Issue(kind)
    BY <1>6, <1>9, Zenon
  <2>2. QED BY <2>1, Zenon DEF Lifecycle!LifecycleNext
<1>10. CASE UNCHANGED next_id /\ \E i \in Slots : Left(tasks, tasks', i)
  BY <1>2, <1>7, <1>10, Zenon DEF Lifecycle!LifecycleNext
<1>11. QED BY <1>8, <1>9, <1>10, Zenon DEF Shape

\* Before the first spawn every id is unborn.
LEMMA InitRefines == Init => Lifecycle!LifecycleInit
<1> SUFFICES ASSUME Init PROVE Lifecycle!LifecycleInit
  BY Zenon
<1>1. \A i \in Slots : tasks[i].id = 0
  BY Zenon DEF Init, EmptySlot
<1>2. \A id \in TaskIds : id \in Nat /\ id # 0 /\ next_id <= id
  BY SchedulerAssumption DEF Init, TaskIds
<1>3. \A id \in TaskIds : LifeOf(id) = "unborn" /\ CodeOf(id) = NONE
  BY <1>1, <1>2, LifeNowhere, AbstractState
<1>4. QED BY <1>3, Zenon DEF Lifecycle!LifecycleInit, Lifecycle!Ids, Lifecycle!NoCode, TaskIds, NONE

\* The scheduler implements TaskLifecycle for every table: ids are issued in
\* order and never again, a task terminates once and keeps its exit code
\* through later kills and group exits until it is collected, once.
THEOREM SchedulerImplementsLifecycle == Spec => ImplementsLifecycle
<1>1. Init => Lifecycle!LifecycleInit
  BY InitRefines, Zenon
<1>2. IInv /\ [Next]_vars => Lifecycle!LifecycleNext
  BY NextSound, NextInv, StepRefines, Zenon DEF Sound
<1>3. QED
  BY <1>1, <1>2, TaskingInvariant, PTL
     DEF Spec, ImplementsLifecycle, Lifecycle!LifecycleSpec

=============================================================================
