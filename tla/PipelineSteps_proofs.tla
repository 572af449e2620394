------------------------ MODULE PipelineSteps_proofs ------------------------
(***************************************************************************)
(* The steps of Pipelines, for any number of tasks, descriptors and pipes. *)
(*                                                                         *)
(* Evolves says what the scheduler may do to the tasks.  PipesOK says that *)
(* the counts kept beside the pipes are exact and that blocked readers and *)
(* writers have a cause; ShellInv says where the shell is in its launch    *)
(* and which descriptors it has still to close.  Every step preserves both *)
(* provided the operations of Scheduler and FileDescriptors do what they   *)
(* promise (Contract) and the running task is the current one (Scheduled). *)
(* Pipelines_proofs discharges the two.                                    *)
(***************************************************************************)
EXTENDS Pipelines, TLAPS

\* A search finds a slot when there is one, and select_next picks a ready task.
SearchContract ==
  /\ \A S \in SUBSET Nat : S # {} => Least(S) \in S
  /\ \A T \in [Slots -> Task], start \in Slots :
       SelectNext(T, start) # NONE => T[SelectNext(T, start)].state = "Ready"

Contract == SearchContract /\ DescriptorContract(Slots)

Scheduled == TypeOK /\ RunningIsCurrent

\* A search for a slot finds one when there is one.
LEMMA SlotFound ==
  ASSUME Contract, NEW S \in SUBSET Slots, S # {}
  PROVE  Least(S) \in S
BY SchedulerAssumption DEF Contract, SearchContract, Slots

-----------------------------------------------------------------------------
(***************************************************************************)
(* What a step of the scheduler does to the tasks in the table, besides    *)
(* adding one or removing one: only the tasks in B may get blocked, only   *)
(* the ones in K may be terminated.                                        *)
(***************************************************************************)
TaskTables == [Slots -> Task]

Evolves(T, U, B, K) ==
  /\ U \in TaskTables
  /\ \A i \in Slots :
       /\ U[i].user = T[i].user /\ U[i].parent = T[i].parent
       /\ U[i].state = "Empty" <=> T[i].state = "Empty"
       /\ U[i].state = "Blocked" => T[i].state = "Blocked" \/ i \in B
       /\ U[i].state = "Terminated" => T[i].state = "Terminated" \/ i \in K

\* Two changes, one after the other.
LEMMA EvolvesOn ==
  ASSUME NEW T, NEW U, NEW V, NEW B, NEW K, NEW C, NEW L,
         Evolves(T, U, B, K), Evolves(U, V, C, L)
  PROVE  Evolves(T, V, B \cup C, K \cup L)
BY Zenon DEF Evolves

\* A table evolves into itself.
LEMMA EvolvesNot ==
  ASSUME NEW T \in TaskTables
  PROVE  Evolves(T, T, {}, {})
BY Zenon DEF Evolves

\* u is the task t in a new state, without a deadline.
Undated(t, state, u) == u = [t EXCEPT !.state = state, !.wake_at = NONE]

\* u is the task t in a new state, with an exit code.
Coded(t, state, code, u) == u = [t EXCEPT !.state = state, !.exit_code = code]

\* A task record whose state changes and whose deadline goes.
LEMMA NewDeadline ==
  ASSUME NEW t \in Task, NEW state \in TaskState,
         NEW u, Undated(t, state, u)
  PROVE  u \in Task /\ u.user = t.user /\ u.parent = t.parent /\ u.state = state
<1>1. u.user = t.user /\ u.parent = t.parent /\ u.state = state
  BY Zenon DEF Task, Undated
<1>2. t \in Task /\ state \in TaskState \cup {"Empty"}
  BY Zenon
<1>3. u \in Task
  BY <1>2, Zenon DEF Task, Undated
<1>4. QED BY <1>1, <1>3, Zenon

\* A task record whose state changes, with an exit code.
LEMMA NewCode ==
  ASSUME NEW t \in Task, NEW state \in TaskState, NEW code \in ExitCodes,
         NEW u, Coded(t, state, code, u)
  PROVE  u \in Task /\ u.user = t.user /\ u.parent = t.parent /\ u.state = state
<1>1. u.user = t.user /\ u.parent = t.parent /\ u.state = state
  BY Zenon DEF Task, Coded
<1>2. t \in Task /\ state \in TaskState \cup {"Empty"}
  BY Zenon
<1>3. u \in Task
  BY <1>2, Zenon DEF Task, Coded
<1>4. QED BY <1>1, <1>3, Zenon

\* Waking the blocked tasks among S changes nothing else.
LEMMA WakeBlockedEvolves ==
  ASSUME NEW T \in TaskTables, NEW S
  PROVE  /\ Evolves(T, WakeBlocked(T, S), {}, {})
         /\ S = Slots => \A i \in Slots : WakeBlocked(T, S)[i].state # "Blocked"
<1> DEFINE U == WakeBlocked(T, S)
<1>1. ASSUME NEW i \in Slots
      PROVE  /\ U[i] \in Task /\ U[i].user = T[i].user /\ U[i].parent = T[i].parent
             /\ U[i].state = IF i \in S /\ T[i].state = "Blocked" THEN "Ready" ELSE T[i].state
  <2>1. T[i] \in Task
    BY Zenon DEF TaskTables
  <2>2. U[i] = IF i \in S /\ T[i].state = "Blocked" THEN [T[i] EXCEPT !.state = "Ready"] ELSE T[i]
    BY Zenon DEF WakeBlocked
  <2> HIDE DEF U
  <2>3. CASE i \in S /\ T[i].state = "Blocked"
    <3>1. U[i] = [T[i] EXCEPT !.state = "Ready"]
      BY <2>2, <2>3, Zenon
    <3>2. QED BY <2>1, <2>3, <3>1, Zenon DEF Task, TaskState
  <2>4. CASE ~(i \in S /\ T[i].state = "Blocked")
    BY <2>1, <2>2, <2>4, Zenon
  <2>5. QED BY <2>3, <2>4, Zenon
<1>2. U \in TaskTables
  BY <1>1, Zenon DEF WakeBlocked, TaskTables
<1> HIDE DEF U
<1>3. Evolves(T, U, {}, {})
  BY <1>1, <1>2, Zenon DEF Evolves
<1>4. S = Slots => \A i \in Slots : U[i].state # "Blocked"
  BY <1>1, Zenon
<1>5. QED BY <1>3, <1>4, Zenon DEF U

\* wake_expired_sleepers: tasks whose sleep is over get ready.
LEMMA WakeExpiredEvolves ==
  ASSUME NEW T \in TaskTables, NEW now
  PROVE  Evolves(T, WakeExpiredSleepers(T, now), {}, {})
<1> DEFINE U == WakeExpiredSleepers(T, now)
           Due(i) == T[i].wake_at # NONE /\ Expired(now, T[i].wake_at)
<1>1. ASSUME NEW i \in Slots
      PROVE  /\ U[i] \in Task /\ U[i].user = T[i].user /\ U[i].parent = T[i].parent
             /\ \/ U[i].state = T[i].state
                \/ U[i].state = "Ready" /\ T[i].state = "Sleeping"
  <2>1. T[i] \in Task
    BY Zenon DEF TaskTables
  <2>2. U[i] = IF T[i].state = "Sleeping" /\ Due(i)
               THEN [T[i] EXCEPT !.state = "Ready", !.wake_at = NONE] ELSE T[i]
    BY Zenon DEF WakeExpiredSleepers
  <2> HIDE DEF U, Due
  <2>3. CASE T[i].state = "Sleeping" /\ Due(i)
    <3>1. Undated(T[i], "Ready", U[i])
      BY <2>2, <2>3, Zenon DEF Undated
    <3>2. "Ready" \in TaskState
      BY Zenon DEF TaskState
    <3>3. /\ U[i] \in Task /\ U[i].user = T[i].user /\ U[i].parent = T[i].parent
          /\ U[i].state = "Ready"
      BY <2>1, <3>1, <3>2, NewDeadline, Zenon
    <3>4. QED BY <2>3, <3>3, Zenon
  <2>4. CASE ~(T[i].state = "Sleeping" /\ Due(i))
    BY <2>1, <2>2, <2>4, Zenon
  <2>5. QED BY <2>3, <2>4, Zenon
<1>2. U \in TaskTables
  <2>1. U = [i \in Slots |-> U[i]]
    BY Zenon DEF WakeExpiredSleepers
  <2> HIDE DEF U
  <2>2. QED BY <1>1, <2>1, Zenon DEF TaskTables
<1> HIDE DEF U
<1>3. Evolves(T, U, {}, {})
  BY <1>1, <1>2, Zenon DEF Evolves
<1>4. QED BY <1>3, Zenon DEF U

\* The running task leaves the CPU for the state given.
LEMMA LeaveCpuEvolves ==
  ASSUME NEW T \in TaskTables, NEW i \in Slots, T[i].state # "Empty",
         NEW state \in {"Ready", "Blocked", "Terminated"}, NEW B, NEW K,
         state = "Blocked" => i \in B, state = "Terminated" => i \in K
  PROVE  Evolves(T, LeaveCpu(T, i, state), B, K)
<1> DEFINE U == LeaveCpu(T, i, state)
           u == [T[i] EXCEPT !.state = state, !.wake_at = NONE]
<1>1. T[i] \in Task /\ state \in TaskState /\ state # "Empty"
  BY Zenon DEF TaskTables, TaskState
<1>2. U = [T EXCEPT ![i] = u]
  BY Zenon DEF LeaveCpu
<1>3. Undated(T[i], state, u)
  BY Zenon DEF Undated
<1> HIDE DEF u
<1>7. u \in Task /\ u.user = T[i].user /\ u.parent = T[i].parent /\ u.state = state
  BY <1>1, <1>3, NewDeadline
<1>4. U \in TaskTables /\ U[i] = u /\ \A j \in Slots \ {i} : U[j] = T[j]
  BY <1>2, <1>7, Zenon DEF TaskTables
<1> HIDE DEF U
<1>5. Evolves(T, U, B, K)
  BY <1>1, <1>7, <1>4, Zenon DEF Evolves
<1>6. QED BY <1>5, Zenon DEF U

\* An exit code is stored in a task.
LEMMA StoreCodeEvolves ==
  ASSUME NEW T \in TaskTables, NEW i \in Slots, NEW code \in ExitCodes \cup {NONE}
  PROVE  Evolves(T, [T EXCEPT ![i].exit_code = code], {}, {})
<1> DEFINE U == [T EXCEPT ![i].exit_code = code]
<1>1. T[i] \in Task
  BY Zenon DEF TaskTables
<1>2. /\ [T[i] EXCEPT !.exit_code = code] \in Task
      /\ [T[i] EXCEPT !.exit_code = code].user = T[i].user
      /\ [T[i] EXCEPT !.exit_code = code].parent = T[i].parent
      /\ [T[i] EXCEPT !.exit_code = code].state = T[i].state
  BY <1>1, Zenon DEF Task
<1>3. /\ U \in TaskTables /\ \A j \in Slots \ {i} : U[j] = T[j]
      /\ U[i].user = T[i].user /\ U[i].parent = T[i].parent /\ U[i].state = T[i].state
  BY <1>2, Zenon DEF TaskTables
<1> HIDE DEF U
<1>4. Evolves(T, U, {}, {})
  BY <1>3, Zenon DEF Evolves
<1>5. QED BY <1>4, Zenon DEF U

\* The tasks killed, and only they, are terminated.
LEMMA KillEvolves ==
  ASSUME NEW T \in TaskTables, NEW S, \A i \in S : T[i].state # "Empty", NEW code \in ExitCodes
  PROVE  Evolves(T, Kill(T, S, code), {}, S)
<1> DEFINE U == Kill(T, S, code)
<1>1. ASSUME NEW i \in Slots
      PROVE  /\ U[i] \in Task /\ U[i].user = T[i].user /\ U[i].parent = T[i].parent
             /\ \/ U[i].state = T[i].state
                \/ i \in S /\ U[i].state = "Terminated"
  <2>1. T[i] \in Task
    BY Zenon DEF TaskTables
  <2>2. U[i] = IF i \in S /\ T[i].state # "Terminated"
               THEN [T[i] EXCEPT !.state = "Terminated", !.exit_code = code] ELSE T[i]
    BY Zenon DEF Kill
  <2> HIDE DEF U
  <2>3. CASE i \in S /\ T[i].state # "Terminated"
    <3>1. Coded(T[i], "Terminated", code, U[i])
      BY <2>2, <2>3, Zenon DEF Coded
    <3>2. "Terminated" \in TaskState
      BY Zenon DEF TaskState
    <3>3. /\ U[i] \in Task /\ U[i].user = T[i].user /\ U[i].parent = T[i].parent
          /\ U[i].state = "Terminated"
      BY <2>1, <3>1, <3>2, NewCode, Zenon
    <3>4. QED BY <2>3, <3>3, Zenon
  <2>4. CASE ~(i \in S /\ T[i].state # "Terminated")
    BY <2>1, <2>2, <2>4, Zenon
  <2>5. QED BY <2>3, <2>4, Zenon
<1>2. U \in TaskTables
  <2>1. U = [i \in Slots |-> U[i]]
    BY Zenon DEF Kill
  <2> HIDE DEF U
  <2>2. QED BY <1>1, <2>1, Zenon DEF TaskTables
<1> HIDE DEF U
<1>3. Evolves(T, U, {}, S)
  BY <1>1, <1>2, Zenon DEF Evolves
<1>4. QED BY <1>3, Zenon DEF U

\* The CPU is given to a ready task.
LEMMA SwitchEvolves ==
  ASSUME Contract, NEW T \in TaskTables, current \in Slots, SwitchFrom(T)
  PROVE  Evolves(T, tasks', {}, {})
<1> DEFINE next == SelectNext(T, NextSlot(current))
<1>1. tasks' = Dispatch(T, next)
  BY Zenon DEF SwitchFrom
<1>2. next \in Slots => T[next].state = "Ready"
  <2>1. NONE \notin Slots
    BY SchedulerAssumption DEF NONE, Slots
  <2>2. NextSlot(current) \in Slots
    BY SchedulerAssumption DEF Slots, NextSlot
  <2>3. next # NONE => T[next].state = "Ready"
    BY <2>2, Zenon DEF Contract, SearchContract, TaskTables
  <2>4. QED BY <2>1, <2>3, Zenon
<1> HIDE DEF next
<1>3. ASSUME NEW i \in Slots
      PROVE  /\ tasks'[i] \in Task /\ tasks'[i].user = T[i].user /\ tasks'[i].parent = T[i].parent
             /\ \/ tasks'[i].state = T[i].state
                \/ T[i].state = "Ready" /\ tasks'[i].state = "Running"
  <2>1. T[i] \in Task
    BY Zenon DEF TaskTables
  <2>2. tasks'[i] = IF i = next THEN [T[i] EXCEPT !.state = "Running"] ELSE T[i]
    BY <1>1, Zenon DEF Dispatch
  <2>3. CASE i = next
    <3>1. tasks'[i] = [T[i] EXCEPT !.state = "Running"] /\ T[i].state = "Ready"
      BY <1>2, <2>2, <2>3, Zenon
    <3>2. QED BY <2>1, <3>1, Zenon DEF Task, TaskState
  <2>4. CASE i # next
    BY <2>1, <2>2, <2>4, Zenon
  <2>5. QED BY <2>3, <2>4, Zenon
<1>4. tasks' \in TaskTables
  BY <1>1, <1>3, Zenon DEF Dispatch, TaskTables
<1>5. QED BY <1>3, <1>4, Zenon DEF Evolves

\* The running task is in the table.
LEMMA Runner ==
  ASSUME Scheduled, current # NONE
  PROVE  /\ current \in Slots /\ tasks \in TaskTables /\ tasks[current].state = "Running"
         /\ \A i \in Slots : tasks[i].state = "Running" => i = current
BY Zenon DEF Scheduled, TypeOK, RunningIsCurrent, TaskTables

\* The running task leaves the CPU and the next one is switched to.
LEMMA LeaveEvolves ==
  ASSUME Contract, Scheduled, current # NONE, NEW state \in {"Ready", "Blocked"}, NEW B,
         state = "Blocked" => current \in B, SwitchFrom(LeaveCpu(tasks, current, state))
  PROVE  Evolves(tasks, tasks', B, {})
<1> DEFINE T == LeaveCpu(tasks, current, state)
<1>1. current \in Slots /\ tasks \in TaskTables /\ tasks[current].state = "Running"
  BY Runner, Zenon
<1>2. Evolves(tasks, T, B, {})
  BY <1>1, LeaveCpuEvolves, Zenon
<1>3. T \in TaskTables
  BY <1>2, Zenon DEF Evolves
<1>4. Evolves(T, tasks', {}, {})
  BY <1>1, <1>3, SwitchEvolves, Zenon
<1> HIDE DEF T
<1>5. Evolves(tasks, tasks', B \cup {}, {} \cup {})
  BY <1>2, <1>4, EvolvesOn, Zenon
<1>6. B \cup {} = B /\ {} \cup {} = {}
  BY Zenon
<1>7. QED BY <1>5, <1>6, Zenon

\* yield_now blocks nobody and terminates nobody.
LEMMA YieldEvolves ==
  ASSUME Contract, Scheduled, YieldNow
  PROVE  Evolves(tasks, tasks', {}, {})
BY LeaveEvolves, Zenon DEF YieldNow, TaskRuns

\* Blocking the running task blocks nobody else.
LEMMA BlockEvolves ==
  ASSUME Contract, Scheduled, current # NONE, SwitchFrom(LeaveCpu(tasks, current, "Blocked"))
  PROVE  Evolves(tasks, tasks', {current}, {})
BY LeaveEvolves, Zenon

\* The timer interrupt blocks nobody and terminates nobody.
LEMMA TickEvolves ==
  ASSUME Contract, Scheduled, TimerTick
  PROVE  Evolves(tasks, tasks', {}, {})
<1>1. CASE current = NONE
  <2>1. tasks' = tasks /\ tasks \in TaskTables
    BY <1>1, Zenon DEF TimerTick, Scheduled, TypeOK, TaskTables
  <2>2. QED BY <2>1, EvolvesNot, Zenon
<1>2. CASE current # NONE
  <2> DEFINE T == WakeExpiredSleepers(tasks, ticks')
             U == LeaveCpu(T, current, "Ready")
  <2>1. current \in Slots /\ tasks \in TaskTables /\ tasks[current].state = "Running"
    BY <1>2, Runner, Zenon
  <2>2. SwitchFrom(U)
    BY <1>2, Zenon DEF TimerTick
  <2>3. Evolves(tasks, T, {}, {})
    BY <2>1, WakeExpiredEvolves, Zenon
  <2> HIDE DEF T
  <2>4. T \in TaskTables /\ T[current].state # "Empty"
    BY <2>1, <2>3, Zenon DEF Evolves
  <2>5. Evolves(T, U, {}, {})
    BY <2>1, <2>4, LeaveCpuEvolves, Zenon
  <2> HIDE DEF U
  <2>7. Evolves(U, tasks', {}, {})
    <3>1. U \in TaskTables
      BY <2>5, Zenon DEF Evolves
    <3>2. QED BY <2>1, <2>2, <3>1, SwitchEvolves, Zenon
  <2>8. Evolves(T, tasks', {} \cup {}, {} \cup {})
    BY <2>5, <2>7, EvolvesOn, Zenon
  <2>9. Evolves(tasks, tasks', {} \cup ({} \cup {}), {} \cup ({} \cup {}))
    BY <2>3, <2>8, EvolvesOn, Zenon
  <2>10. {} \cup ({} \cup {}) = {}
    BY Zenon
  <2>11. QED BY <2>9, <2>10, Zenon
<1>3. QED BY <1>1, <1>2, Zenon

\* An exit that follows from table T.
LEMMA ExitInEvolves ==
  ASSUME Contract, Scheduled, current # NONE, NEW code \in ExitCodes \cup {NONE},
         NEW K, NEW T, Evolves(tasks, T, {}, K), ExitIn(T, code)
  PROVE  Evolves(tasks, tasks', {}, K \cup {current})
<1> DEFINE S == [T EXCEPT ![current].exit_code = code]
           W == WakeParent(S, current)
           U == LeaveCpu(W, current, "Terminated")
<1>1. current \in Slots /\ tasks[current].state = "Running"
  BY Runner, Zenon
<1>2. SwitchFrom(U)
  BY Zenon DEF ExitIn
<1>3. T \in TaskTables /\ T[current].state # "Empty"
  BY <1>1, Zenon DEF Evolves
<1>4. Evolves(T, S, {}, {})
  BY <1>1, <1>3, StoreCodeEvolves, Zenon
<1> HIDE DEF S
<1>5. Evolves(S, W, {}, {})
  <2>1. S \in TaskTables
    BY <1>4, Zenon DEF Evolves
  <2>2. QED BY <2>1, WakeBlockedEvolves, Zenon DEF WakeParent
<1> HIDE DEF W
<1>6. W \in TaskTables /\ W[current].state # "Empty"
  BY <1>1, <1>3, <1>4, <1>5, Zenon DEF Evolves
<1>7. Evolves(W, U, {}, {current})
  BY <1>1, <1>6, LeaveCpuEvolves, Zenon
<1> HIDE DEF U
<1>9. Evolves(U, tasks', {}, {})
  <2>1. U \in TaskTables
    BY <1>7, Zenon DEF Evolves
  <2>2. QED BY <1>1, <1>2, <2>1, SwitchEvolves, Zenon
<1>10. tasks' \in TaskTables
  BY <1>9, Zenon DEF Evolves
<1>11. ASSUME NEW i \in Slots
       PROVE  /\ tasks'[i].user = tasks[i].user /\ tasks'[i].parent = tasks[i].parent
              /\ tasks'[i].state = "Empty" <=> tasks[i].state = "Empty"
              /\ tasks'[i].state = "Blocked" => tasks[i].state = "Blocked"
              /\ tasks'[i].state = "Terminated" =>
                   tasks[i].state = "Terminated" \/ i \in K \cup {current}
  BY <1>4, <1>5, <1>7, <1>9 DEF Evolves
<1>12. QED BY <1>10, <1>11, Zenon DEF Evolves

\* An exit terminates the running task and nobody else.
LEMMA ExitEvolves ==
  ASSUME Contract, Scheduled, NEW code \in ExitCodes, ExitCurrent(code)
  PROVE  Evolves(tasks, tasks', {}, {current})
<1>1. current # NONE /\ ExitIn(tasks, code)
  BY Zenon DEF ExitCurrent, TaskRuns
<1>2. Evolves(tasks, tasks, {}, {})
  BY <1>1, Runner, EvolvesNot, Zenon
<1>3. Evolves(tasks, tasks', {}, {} \cup {current})
  BY <1>1, <1>2, ExitInEvolves, Zenon
<1>4. {} \cup {current} = {current}
  BY Zenon
<1>5. QED BY <1>3, <1>4, Zenon

\* exit_current_group terminates the running task and its siblings.
LEMMA ExitGroupEvolves ==
  ASSUME Contract, Scheduled, NEW code \in ExitCodes, ExitCurrentGroup(code)
  PROVE  Evolves(tasks, tasks', {}, Siblings(tasks, current) \cup {current})
<1>1. current # NONE /\ ExitIn(Kill(tasks, Siblings(tasks, current), code), code)
  BY Zenon DEF ExitCurrentGroup, UserTaskRuns, TaskRuns
<1>2. \A i \in Siblings(tasks, current) : tasks[i].state # "Empty"
  BY Zenon DEF Siblings
<1>3. Evolves(tasks, Kill(tasks, Siblings(tasks, current), code), {}, Siblings(tasks, current))
  BY <1>1, <1>2, Runner, KillEvolves, Zenon
<1>4. QED BY <1>1, <1>3, ExitInEvolves, Zenon

\* wake_all_blocked_tasks as a step.
LEMMA WakeAllEvolves ==
  ASSUME Scheduled, WakeAllBlockedTasks
  PROVE  Evolves(tasks, tasks', {}, {}) /\ \A i \in Slots : tasks'[i].state # "Blocked"
<1>1. current # NONE /\ tasks' = WakeBlocked(tasks, Slots)
  BY Zenon DEF WakeAllBlockedTasks, TaskRuns, WakeAllBlocked
<1>2. QED BY <1>1, Runner, WakeBlockedEvolves, Zenon

\* terminate_task terminates one task, never the running one.
LEMMA TerminateEvolves ==
  ASSUME Scheduled, NEW id, NEW code \in ExitCodes, TerminateTask(id, code)
  PROVE  \E i \in Slots \ {current} : Evolves(tasks, tasks', {}, {i})
<1>1. PICK i \in SlotsOf(tasks, id) \ {current} :
        /\ ~tasks[i].is_idle
        /\ tasks[i].state # "Terminated"
        /\ tasks' = WakeParent(Kill(tasks, {i}, code), i)
  BY Zenon DEF TerminateTask
<1>2. i \in Slots \ {current} /\ tasks[i].state # "Empty" /\ tasks \in TaskTables
  BY <1>1, Zenon DEF SlotsOf, Scheduled, TypeOK, TaskTables
<1> DEFINE U == Kill(tasks, {i}, code)
<1>3. Evolves(tasks, U, {}, {i})
  BY <1>2, KillEvolves, Zenon
<1> HIDE DEF U
<1>4. Evolves(U, tasks', {}, {})
  <2>1. U \in TaskTables
    BY <1>3, Zenon DEF Evolves
  <2>2. tasks' = WakeBlocked(U, SlotsOf(U, U[i].parent))
    BY <1>1, Zenon DEF WakeParent, U
  <2>3. QED BY <2>1, <2>2, WakeBlockedEvolves, Zenon
<1>5. Evolves(tasks, tasks', {} \cup {}, {i} \cup {})
  BY <1>3, <1>4, EvolvesOn, Zenon
<1>6. {} \cup {} = {} /\ {i} \cup {} = {i}
  BY Zenon
<1>7. QED BY <1>2, <1>5, <1>6, Zenon

\* A wait returns, with the child it removed or without, or blocks.
LEMMA WaitEvolves ==
  ASSUME Contract, Scheduled, NEW child, WaitForChild(child)
  PROVE  \/ \E i \in Slots : tasks[i].state = "Terminated" /\ tasks' = RemoveTask(tasks, i)
         \/ Evolves(tasks, tasks', {current}, {})
<1>1. current # NONE /\ tasks \in TaskTables /\ current \in Slots
  BY Runner, Zenon DEF WaitForChild
<1> DEFINE dead == TerminatedChildren(tasks, CurrentId, child)
<1>2. CASE dead # {} /\ tasks' = RemoveTask(tasks, Least(dead))
  <2>1. dead \subseteq Slots /\ \A i \in dead : tasks[i].state = "Terminated"
    BY Zenon DEF TerminatedChildren, Children
  <2>2. Least(dead) \in dead
    BY <1>2, <2>1, SlotFound, Zenon
  <2>3. QED BY <1>2, <2>1, <2>2, Zenon
<1>3. CASE UNCHANGED tasks
  <2>1. Evolves(tasks, tasks', {}, {})
    BY <1>1, <1>3, EvolvesNot, Zenon
  <2>2. QED BY <2>1, Zenon DEF Evolves
<1>4. CASE SwitchFrom(LeaveCpu(tasks, current, "Blocked"))
  BY <1>1, <1>4, BlockEvolves, Zenon
<1>5. QED BY <1>2, <1>3, <1>4, Zenon DEF WaitForChild

\* Removing a task empties its slot and leaves the others.
LEMMA RemovedTask ==
  ASSUME NEW T \in TaskTables, NEW i \in Slots
  PROVE  /\ RemoveTask(T, i)[i].state = "Empty"
         /\ \A j \in Slots \ {i} : RemoveTask(T, i)[j] = T[j]
BY Zenon DEF RemoveTask, TaskTables, EmptySlot

-----------------------------------------------------------------------------
(***************************************************************************)
(* The inductive invariant.  An empty slot holds no descriptor; the counts *)
(* are exact; a blocked reader or writer waits for a cause, a writer on    *)
(* the write end of a pipe.                                                *)
(***************************************************************************)
DescriptorsOK ==
  /\ fds \in [Slots -> FdTable]
  /\ pipes \in PipeStates
  /\ \A i \in Slots : tasks[i].state = "Empty" => fds[i] = EmptyTable

\* A task in this state, inside call c, with descriptors t and pipes P.
WaitOK(state, c, t, P) ==
  state = "Blocked" =>
    /\ c.op = "read" /\ t[c.fd].kind = "PipeRead" => P[t[c.fd].pipe].length = 0
    /\ c.op = "write" => /\ t[c.fd].kind = "PipeWrite"
                         /\ P[t[c.fd].pipe].length = PIPE_CAPACITY

WaitsOK ==
  /\ call \in [Slots -> Calls \cup {NoCall}]
  /\ \A i \in Slots : WaitOK(tasks[i].state, call[i], fds[i], pipes)

PipesOK == DescriptorsOK /\ CountsExact /\ WaitsOK

\* What the invariant says of the next state, with the primes where they go.
LEMMA CountsNext ==
  ASSUME \A p \in Pipes : /\ pipes'[p].readers = HoldersOf(fds', ReadEnd(p))
                          /\ pipes'[p].writers = HoldersOf(fds', WriteEnd(p))
  PROVE  CountsExact'
BY Zenon DEF CountsExact

\* What everybody but the task in slot i holds.
Others(i) ==
  [p \in Pipes |-> [length |-> pipes[p].length,
                    readers |-> pipes[p].readers - Count(fds[i], ReadEnd(p)),
                    writers |-> pipes[p].writers - Count(fds[i], WriteEnd(p))]]

\* Descriptor d is an end of pipe p.
EndOf(d, p) == d \in {ReadEnd(p), WriteEnd(p)}

Held(p, B) == B[p].readers # 0 \/ B[p].writers # 0

\* Whoever holds an end of a pipe counts among its holders.
LEMMA OthersPipe ==
  ASSUME Contract, DescriptorsOK, CountsExact, NEW i \in Slots, NEW p \in Pipes
  PROVE  /\ Others(i)[p] \in Pipe
         /\ Others(i)[p].readers \in Nat /\ Others(i)[p].writers \in Nat
         /\ pipes[p].readers = Others(i)[p].readers + Count(fds[i], ReadEnd(p))
         /\ pipes[p].writers = Others(i)[p].writers + Count(fds[i], WriteEnd(p))
         /\ Others(i)[p].length = pipes[p].length
         /\ \A j \in Slots \ {i}, f \in Fds : EndOf(fds[j][f], p) => Held(p, Others(i))
<1>1. fds[i] \in FdTable /\ fds \in [Slots -> FdTable] /\ pipes \in PipeStates
  BY Zenon DEF DescriptorsOK
<1>2. pipes[p].length \in 0..PIPE_CAPACITY /\ pipes[p].readers \in Nat /\ pipes[p].writers \in Nat
  BY <1>1, Zenon DEF PipeStates, Pipe
<1>3. /\ pipes[p].readers = HoldersOf(fds, ReadEnd(p))
      /\ pipes[p].writers = HoldersOf(fds, WriteEnd(p))
  BY Zenon DEF CountsExact
<1>4. /\ pipes[p].readers >= Count(fds[i], ReadEnd(p))
      /\ pipes[p].writers >= Count(fds[i], WriteEnd(p))
      /\ \A j \in Slots \ {i}, f \in Fds :
           /\ fds[j][f] = ReadEnd(p) => pipes[p].readers >= Count(fds[i], ReadEnd(p)) + 1
           /\ fds[j][f] = WriteEnd(p) => pipes[p].writers >= Count(fds[i], WriteEnd(p)) + 1
  BY <1>1, <1>3 DEF Contract, DescriptorContract, HoldersAddUp
<1>5. Count(fds[i], ReadEnd(p)) \in Nat /\ Count(fds[i], WriteEnd(p)) \in Nat
  BY Zenon DEF Contract, DescriptorContract, CountsAreNumbers
<1>6. /\ Others(i)[p] = [length |-> pipes[p].length,
                         readers |-> pipes[p].readers - Count(fds[i], ReadEnd(p)),
                         writers |-> pipes[p].writers - Count(fds[i], WriteEnd(p))]
      /\ Others(i)[p].length = pipes[p].length
      /\ Others(i)[p].readers = pipes[p].readers - Count(fds[i], ReadEnd(p))
      /\ Others(i)[p].writers = pipes[p].writers - Count(fds[i], WriteEnd(p))
  BY Zenon DEF Others
<1>7. /\ pipes[p].readers - Count(fds[i], ReadEnd(p)) \in Nat
      /\ pipes[p].writers - Count(fds[i], WriteEnd(p)) \in Nat
  BY <1>2, <1>4, <1>5
<1>8. Others(i)[p] \in Pipe
  BY <1>2, <1>6, <1>7, Zenon DEF Pipe
<1>9. ASSUME NEW j \in Slots \ {i}, NEW f \in Fds, EndOf(fds[j][f], p)
      PROVE  Held(p, Others(i))
  <2>1. fds[j][f] = ReadEnd(p) \/ fds[j][f] = WriteEnd(p)
    BY <1>9, Zenon DEF EndOf
  <2>2. QED BY <1>2, <1>4, <1>5, <1>6, <2>1 DEF Held
<1>10. QED BY <1>2, <1>5, <1>6, <1>7, <1>8, <1>9

\* With exact counts, the pipes account for one table and for all the others.
LEMMA OthersAccount ==
  ASSUME Contract, DescriptorsOK, CountsExact, NEW i \in Slots
  PROVE  Others(i) \in PipeStates /\ Accounts([table |-> fds[i], pipes |-> pipes], Others(i))
<1>1. Others(i) \in PipeStates
  BY OthersPipe, Zenon DEF PipeStates, Others
<1>2. [table |-> fds[i], pipes |-> pipes] \in FdStates
  BY Zenon DEF DescriptorsOK, FdStates
<1>3. QED BY <1>1, <1>2, OthersPipe, Zenon DEF Accounts

\* The pipes are the same to everybody who holds an end of them.
SameToOthers(i) ==
  \A p \in Pipes, j \in Slots \ {i}, f \in Fds :
    EndOf(fds[j][f], p) => pipes'[p].length = pipes[p].length

\* The task in slot i gets another table, with the pipes counted for it.
Gives(i, s) == fds' = [fds EXCEPT ![i] = s.table] /\ pipes' = s.pipes

\* The tables after a step that replaces one.
LEMMA GivesTables ==
  ASSUME DescriptorsOK, NEW i \in Slots, NEW s, NEW B, Accounts(s, B), Gives(i, s)
  PROVE  /\ fds' \in [Slots -> FdTable] /\ pipes' \in PipeStates /\ pipes' = s.pipes
         /\ fds'[i] = s.table /\ \A j \in Slots \ {i} : fds'[j] = fds[j]
<1>1. fds \in [Slots -> FdTable]
  BY Zenon DEF DescriptorsOK
<1>2. s.table \in FdTable /\ s.pipes \in PipeStates
  BY Zenon DEF Accounts, FdStates
<1>3. QED BY <1>1, <1>2, Zenon DEF Gives

\* The counts after a step that replaces one table stay exact.
LEMMA GivesCounts ==
  ASSUME Contract, DescriptorsOK, CountsExact, NEW i \in Slots, NEW s, Accounts(s, Others(i)),
         Gives(i, s),
         NEW p \in Pipes
  PROVE  /\ pipes'[p].readers = HoldersOf(fds', ReadEnd(p))
         /\ pipes'[p].writers = HoldersOf(fds', WriteEnd(p))
<1>1. fds \in [Slots -> FdTable]
  BY Zenon DEF DescriptorsOK
<1>2. /\ fds' \in [Slots -> FdTable] /\ pipes' = s.pipes
      /\ fds'[i] = s.table /\ \A j \in Slots \ {i} : fds'[j] = fds[j]
  BY GivesTables, Zenon
<1>3. /\ pipes'[p].readers = Others(i)[p].readers + Count(s.table, ReadEnd(p))
      /\ pipes'[p].writers = Others(i)[p].writers + Count(s.table, WriteEnd(p))
  BY <1>2, Zenon DEF Accounts
<1>4. /\ pipes[p].readers = Others(i)[p].readers + Count(fds[i], ReadEnd(p))
      /\ pipes[p].writers = Others(i)[p].writers + Count(fds[i], WriteEnd(p))
      /\ Others(i)[p].readers \in Nat /\ Others(i)[p].writers \in Nat
  BY OthersPipe, Zenon
<1>5. /\ pipes[p].readers = HoldersOf(fds, ReadEnd(p))
      /\ pipes[p].writers = HoldersOf(fds, WriteEnd(p))
  BY Zenon DEF CountsExact
<1>6. /\ HoldersOf(fds', ReadEnd(p)) =
           HoldersOf(fds, ReadEnd(p)) - Count(fds[i], ReadEnd(p)) + Count(fds'[i], ReadEnd(p))
      /\ HoldersOf(fds', WriteEnd(p)) =
           HoldersOf(fds, WriteEnd(p)) - Count(fds[i], WriteEnd(p)) + Count(fds'[i], WriteEnd(p))
  BY <1>1, <1>2 DEF Contract, DescriptorContract, HoldersAddUp
<1>7. /\ Count(fds[i], ReadEnd(p)) \in Nat /\ Count(fds[i], WriteEnd(p)) \in Nat
      /\ Count(s.table, ReadEnd(p)) \in Nat /\ Count(s.table, WriteEnd(p)) \in Nat
  BY Zenon DEF Contract, DescriptorContract, CountsAreNumbers
<1>8. QED BY <1>2, <1>3, <1>4, <1>5, <1>6, <1>7

\* A step that replaces one table keeps the counts exact, and the bytes of every
\* pipe that another task holds.
LEMMA Replaced ==
  ASSUME Contract, DescriptorsOK, CountsExact, NEW i \in Slots, NEW s, Accounts(s, Others(i)),
         Gives(i, s)
  PROVE  CountsExact' /\ SameToOthers(i)
<1>1. CountsExact'
  BY GivesCounts, CountsNext, Zenon
<1>2. ASSUME NEW p \in Pipes, NEW j \in Slots \ {i}, NEW f \in Fds, EndOf(fds[j][f], p)
      PROVE  pipes'[p].length = pipes[p].length
  <2>1. Held(p, Others(i)) /\ Others(i)[p].length = pipes[p].length
    BY <1>2, OthersPipe, Zenon
  <2>2. pipes' = s.pipes
    BY Zenon DEF Gives
  <2>3. pipes'[p].length = Others(i)[p].length
    BY <2>1, <2>2, Zenon DEF Accounts, Held
  <2>4. QED BY <2>1, <2>3, Zenon
<1>3. QED BY <1>1, <1>2, Zenon DEF SameToOthers

\* A call that is not there blocks nobody.
LEMMA CallTypes ==
  ASSUME NEW c \in Calls \cup {NoCall}
  PROVE  /\ c.fd \in Fds
         /\ c.op \in {"read", "write"} <=> c # NoCall
         /\ NoCall.op = "none"
<1>1. 0 \in Fds
  BY FileDescriptorsAssumption DEF Fds
<1>2. QED BY <1>1 DEF Calls, NoCall

\* The end of a pipe names its pipe.
LEMMA PipeKinds ==
  ASSUME NEW d \in FileDescriptor, d.kind \in {"PipeRead", "PipeWrite"}
  PROVE  d.pipe \in Pipes /\ EndOf(d, d.pipe)
BY DEF EndOf, FileDescriptor, ReadEnd, WriteEnd, Closed, Stdin, Console, FileRead, FileWrite

\* A blocked task sees the same bytes in the pipe it waits on.
LEMMA WaitKept ==
  ASSUME NEW t \in FdTable, NEW c \in Calls \cup {NoCall}, NEW P, NEW Q, NEW state,
         WaitOK(state, c, t, P),
         \A p \in Pipes, f \in Fds : EndOf(t[f], p) => Q[p].length = P[p].length
  PROVE  WaitOK(state, c, t, Q)
<1> DEFINE d == t[c.fd]
<1>1. d \in FileDescriptor /\ c.fd \in Fds
  BY CallTypes, Zenon DEF FdTable
<1>2. d.kind \in {"PipeRead", "PipeWrite"} => Q[d.pipe].length = P[d.pipe].length
  BY <1>1, PipeKinds, Zenon
<1>3. QED BY <1>2, Zenon DEF WaitOK

\* Everybody blocked in a call was so before, and nothing it sees changed.
LEMMA WaitsKept ==
  ASSUME DescriptorsOK, WaitsOK, call' \in [Slots -> Calls \cup {NoCall}],
         \A j \in Slots : tasks'[j].state = "Blocked" /\ call'[j] # NoCall =>
           /\ tasks[j].state = "Blocked" /\ call'[j] = call[j] /\ fds'[j] = fds[j]
           /\ \A p \in Pipes, f \in Fds : EndOf(fds[j][f], p) => pipes'[p].length = pipes[p].length
  PROVE  WaitsOK'
<1>1. ASSUME NEW j \in Slots
      PROVE  WaitOK(tasks'[j].state, call'[j], fds'[j], pipes')
  <2>1. CASE tasks'[j].state = "Blocked" /\ call'[j] # NoCall
    <3>1. /\ tasks[j].state = "Blocked" /\ call'[j] = call[j] /\ fds'[j] = fds[j]
          /\ \A p \in Pipes, f \in Fds : EndOf(fds[j][f], p) => pipes'[p].length = pipes[p].length
      BY <2>1, Zenon
    <3>2. fds[j] \in FdTable /\ call[j] \in Calls \cup {NoCall}
      BY Zenon DEF DescriptorsOK, WaitsOK
    <3>3. WaitOK(tasks[j].state, call[j], fds[j], pipes)
      BY Zenon DEF WaitsOK
    <3>4. WaitOK(tasks[j].state, call[j], fds[j], pipes')
      BY <3>1, <3>2, <3>3, WaitKept
    <3>5. QED BY <2>1, <3>1, <3>4, Zenon
  <2>2. CASE tasks'[j].state # "Blocked"
    BY <2>2, Zenon DEF WaitOK
  <2>3. CASE call'[j] = NoCall
    BY <2>3 DEF WaitOK, NoCall
  <2>4. QED BY <2>1, <2>2, <2>3, Zenon
<1>2. QED BY <1>1, Zenon DEF WaitsOK

\* A step that replaces the table of the task in slot i.
LEMMA ReplaceStep ==
  ASSUME Contract, PipesOK, NEW i \in Slots, NEW s, Accounts(s, Others(i)), Gives(i, s),
         call' \in [Slots -> Calls \cup {NoCall}],
         \A j \in Slots : tasks'[j].state = "Blocked" /\ call'[j] # NoCall =>
           j # i /\ tasks[j].state = "Blocked" /\ call'[j] = call[j],
         \A j \in Slots : tasks'[j].state = "Empty" =>
           IF j = i THEN s.table = EmptyTable ELSE tasks[j].state = "Empty"
  PROVE  PipesOK'
<1>1. DescriptorsOK /\ CountsExact /\ WaitsOK
  BY Zenon DEF PipesOK
<1>2. CountsExact' /\ SameToOthers(i)
  BY <1>1, Replaced, Zenon
<1>2a. /\ fds' \in [Slots -> FdTable] /\ pipes' \in PipeStates
       /\ fds'[i] = s.table /\ \A j \in Slots \ {i} : fds'[j] = fds[j]
  BY <1>1, GivesTables, Zenon
<1>3. \A j \in Slots : tasks'[j].state = "Empty" => fds'[j] = EmptyTable
  BY <1>1, <1>2a, Zenon DEF DescriptorsOK
<1>4. \A j \in Slots : tasks'[j].state = "Blocked" /\ call'[j] # NoCall =>
        /\ tasks[j].state = "Blocked" /\ call'[j] = call[j] /\ fds'[j] = fds[j]
        /\ \A p \in Pipes, f \in Fds : EndOf(fds[j][f], p) => pipes'[p].length = pipes[p].length
  BY <1>2, <1>2a, Zenon DEF SameToOthers
<1>5. WaitsOK'
  BY <1>1, <1>4, WaitsKept, Zenon
<1>6. DescriptorsOK'
  BY <1>2a, <1>3, Zenon DEF DescriptorsOK
<1>7. QED BY <1>2, <1>5, <1>6, Zenon DEF PipesOK

\* A step that leaves descriptors and pipes alone.
LEMMA SteadyStep ==
  ASSUME PipesOK, UNCHANGED <<fds, pipes>>,
         call' \in [Slots -> Calls \cup {NoCall}],
         \A j \in Slots : tasks'[j].state = "Blocked" /\ call'[j] # NoCall =>
           tasks[j].state = "Blocked" /\ call'[j] = call[j],
         \A j \in Slots : tasks'[j].state = "Empty" => tasks[j].state = "Empty"
  PROVE  PipesOK'
<1>1. DescriptorsOK /\ CountsExact /\ WaitsOK
  BY Zenon DEF PipesOK
<1>2. DescriptorsOK' /\ CountsExact'
  BY <1>1, Zenon DEF DescriptorsOK, CountsExact
<1>3. WaitsOK'
  BY <1>1, WaitsKept, Zenon
<1>4. QED BY <1>2, <1>3, Zenon DEF PipesOK

\* And one that in addition blocks at most the running task, outside calls.
LEMMA EvolvingStep ==
  ASSUME PipesOK, UNCHANGED <<fds, pipes, call>>, NEW B, NEW K, Evolves(tasks, tasks', B, K),
         \A j \in B : call[j] = NoCall
  PROVE  PipesOK'
<1>1. call' \in [Slots -> Calls \cup {NoCall}] /\ call' = call
  BY Zenon DEF PipesOK, WaitsOK
<1>2. \A j \in Slots : tasks'[j].state = "Blocked" /\ call'[j] # NoCall =>
        tasks[j].state = "Blocked" /\ call'[j] = call[j]
  BY <1>1, Zenon DEF Evolves
<1>3. \A j \in Slots : tasks'[j].state = "Empty" => tasks[j].state = "Empty"
  BY Zenon DEF Evolves
<1>4. QED BY <1>1, <1>2, <1>3, SteadyStep, Zenon


-----------------------------------------------------------------------------
(***************************************************************************)
(* The operations on the running task's table and on pipes.                *)
(***************************************************************************)
\* What the running task holds, and what the others hold.
LEMMA Mine ==
  ASSUME Contract, Scheduled, PipesOK, current # NONE
  PROVE  /\ current \in Slots /\ MyTable \in FdTable /\ pipes \in PipeStates
         /\ call \in [Slots -> Calls \cup {NoCall}]
         /\ Others(current) \in PipeStates
         /\ Accounts([table |-> MyTable, pipes |-> pipes], Others(current))
<1>1. current \in Slots
  BY Runner, Zenon
<1>2. DescriptorsOK /\ CountsExact /\ WaitsOK
  BY Zenon DEF PipesOK
<1>3. MyTable \in FdTable /\ pipes \in PipeStates /\ call \in [Slots -> Calls \cup {NoCall}]
  BY <1>1, <1>2, Zenon DEF DescriptorsOK, WaitsOK, MyTable
<1>4. Others(current) \in PipeStates /\ Accounts([table |-> fds[current], pipes |-> pipes], Others(current))
  BY <1>1, <1>2, OthersAccount, Zenon
<1>5. QED BY <1>1, <1>3, <1>4, Zenon DEF MyTable

\* The least free descriptor is free, and so is the next one when there are two.
LEMMA FreshFd ==
  ASSUME Contract, NEW t, FreeFds(t) # {}
  PROVE  Least(FreeFds(t)) \in Fds /\ t[Least(FreeFds(t))] = Closed
<1>1. FreeFds(t) \in SUBSET Nat /\ FreeFds(t) \in SUBSET Fds
  BY FileDescriptorsAssumption DEF FreeFds, Fds
<1>2. Least(FreeFds(t)) \in FreeFds(t)
  BY <1>1, Zenon DEF Contract, SearchContract
<1>3. QED BY <1>2, Zenon DEF FreeFds, OpenFds

\* Two free descriptors for the ends of a pipe.
LEMMA FreshFds ==
  ASSUME Contract, NEW t, Cardinality(FreeFds(t)) >= 2
  PROVE  LET r == Least(FreeFds(t))
             w == Least(FreeFds(t) \ {r})
         IN  /\ r \in Fds /\ w \in Fds /\ r # w
             /\ t[r] = Closed /\ t[w] = Closed
<1> DEFINE F == FreeFds(t)
           r == Least(F)
           G == F \ {r}
<1>1. F \in SUBSET Fds
  BY Zenon DEF FreeFds
<1>2. F # {} /\ G # {}
  <2> HIDE DEF F
  <2>1. QED BY <1>1, Zenon DEF Contract, DescriptorContract, CountsAreNumbers, F
<1>4. r \in Fds /\ t[r] = Closed
  BY <1>2, FreshFd, Zenon
<1>5. G \in SUBSET Nat /\ \A g \in G : g \in Fds /\ g # r /\ t[g] = Closed
  BY FileDescriptorsAssumption DEF FreeFds, OpenFds, Fds
<1>6. Least(G) \in G
  <2> HIDE DEF G
  <2>1. QED BY <1>2, <1>5, Zenon DEF Contract, SearchContract
<1>7. QED BY <1>4, <1>5, <1>6, Zenon

\* A pipe nobody holds.
LEMMA FreshPipe ==
  ASSUME Contract, NEW P, FreePipes(P) # {}
  PROVE  LET q == Least(FreePipes(P))
         IN  q \in Pipes /\ P[q].readers = 0 /\ P[q].writers = 0
<1>1. FreePipes(P) \in SUBSET Nat
  BY FileDescriptorsAssumption DEF FreePipes, Pipes
<1>2. Least(FreePipes(P)) \in FreePipes(P)
  BY <1>1, Zenon DEF Contract, SearchContract
<1>3. QED BY <1>2, Zenon DEF FreePipes

\* A step that gives the running task another table and blocks nobody.
LEMMA MyStep ==
  ASSUME Contract, Scheduled, PipesOK, current # NONE, NEW s, Accounts(s, Others(current)),
         SetMyTable(s),
         Evolves(tasks, tasks', {}, {}), call' = call
  PROVE  PipesOK'
<1>1. current \in Slots /\ tasks[current].state = "Running"
  BY Runner, Zenon
<1>2. Gives(current, s)
  BY Zenon DEF SetMyTable, Gives
<1>3. call' \in [Slots -> Calls \cup {NoCall}]
  BY Mine, Zenon
<1>4. \A j \in Slots : tasks'[j].state = "Blocked" /\ call'[j] # NoCall =>
        j # current /\ tasks[j].state = "Blocked" /\ call'[j] = call[j]
  BY <1>1, Zenon DEF Evolves
<1>5. \A j \in Slots : tasks'[j].state = "Empty" =>
        IF j = current THEN s.table = EmptyTable ELSE tasks[j].state = "Empty"
  BY <1>1, Zenon DEF Evolves
<1>6. QED BY <1>1, <1>2, <1>3, <1>4, <1>5, ReplaceStep, Zenon

\* The pipes P and Q have the same holders.
SameCounts(P, Q) ==
  \A p \in Pipes : Q[p].readers = P[p].readers /\ Q[p].writers = P[p].writers

\* A call that moves bytes, or none, wakes everybody and returns.
LEMMA MovingStep ==
  ASSUME Contract, Scheduled, PipesOK, WakeAllBlockedTasks, Return, fds' = fds,
         pipes' \in PipeStates, SameCounts(pipes, pipes')
  PROVE  PipesOK'
<1>1. current \in Slots /\ call \in [Slots -> Calls \cup {NoCall}]
  BY Mine, Zenon DEF WakeAllBlockedTasks, TaskRuns
<1>2. Evolves(tasks, tasks', {}, {}) /\ \A i \in Slots : tasks'[i].state # "Blocked"
  BY WakeAllEvolves, Zenon
<1>3. call' \in [Slots -> Calls \cup {NoCall}]
  BY <1>1, Zenon DEF Return
<1>4. WaitsOK'
  BY <1>2, <1>3, Zenon DEF WaitsOK, WaitOK
<1>5. DescriptorsOK'
  BY <1>2, Zenon DEF PipesOK, DescriptorsOK, Evolves
<1>6. CountsExact'
  BY Zenon DEF PipesOK, CountsExact, SameCounts
<1>7. QED BY <1>4, <1>5, <1>6, Zenon DEF PipesOK

\* A call that blocks, for a cause.
LEMMA BlockingStep ==
  ASSUME Contract, Scheduled, PipesOK, NEW c \in Calls, BlockIn(c), fds' = fds,
         WaitOK("Blocked", c, MyTable, pipes)
  PROVE  PipesOK'
<1>1. current # NONE /\ SwitchFrom(LeaveCpu(tasks, current, "Blocked"))
  BY Zenon DEF BlockIn, BlockNow, TaskRuns
<1>2. current \in Slots /\ call \in [Slots -> Calls \cup {NoCall}]
  BY <1>1, Mine, Zenon
<1>3. Evolves(tasks, tasks', {current}, {})
  BY <1>1, BlockEvolves, Zenon
<1>4. call' = [call EXCEPT ![current] = c] /\ pipes' = pipes
  BY Zenon DEF BlockIn
<1>5. /\ call' \in [Slots -> Calls \cup {NoCall}] /\ call'[current] = c
      /\ \A j \in Slots \ {current} : call'[j] = call[j]
  BY <1>2, <1>4, Zenon
<1>6. DescriptorsOK' /\ CountsExact'
  BY <1>3, <1>4, Zenon DEF PipesOK, DescriptorsOK, CountsExact, Evolves
<1>7. ASSUME NEW j \in Slots PROVE WaitOK(tasks'[j].state, call'[j], fds'[j], pipes')
  <2>1. CASE j = current
    BY <1>4, <1>5, <2>1, Zenon DEF WaitOK, MyTable
  <2>2. CASE j # current
    <3>1. WaitOK(tasks[j].state, call[j], fds[j], pipes)
      BY Zenon DEF PipesOK, WaitsOK
    <3>2. tasks'[j].state = "Blocked" => tasks[j].state = "Blocked"
      BY <1>3, <2>2, Zenon DEF Evolves
    <3>3. call'[j] = call[j]
      BY <1>5, <2>2, Zenon
    <3>4. QED BY <1>4, <3>1, <3>2, <3>3, Zenon DEF WaitOK
  <2>3. QED BY <2>1, <2>2, Zenon
<1>8. WaitsOK'
  BY <1>5, <1>7, Zenon DEF WaitsOK
<1>9. QED BY <1>6, <1>8, Zenon DEF PipesOK

\* Reading and writing change the number of bytes in a pipe and nothing else.
LEMMA MovedBytes ==
  ASSUME NEW P \in PipeStates, NEW p \in Pipes, NEW n \in Nat
  PROVE  /\ PipeRead(P, p, n) \in PipeStates /\ SameCounts(P, PipeRead(P, p, n))
         /\ PipeWrite(P, p, n) \in PipeStates /\ SameCounts(P, PipeWrite(P, p, n))
<1>1. P[p] \in Pipe /\ P[p].length \in 0..PIPE_CAPACITY
  BY Zenon DEF PipeStates, Pipe
<1>2. PIPE_CAPACITY \in Nat
  BY FileDescriptorsAssumption, Zenon
<1>3. ASSUME NEW m \in 0..PIPE_CAPACITY, NEW Q, Q = [P EXCEPT ![p] = [P[p] EXCEPT !.length = m]]
      PROVE  Q \in PipeStates /\ SameCounts(P, Q)
  <2>1. [P[p] EXCEPT !.length = m] \in Pipe
    BY <1>1, Zenon DEF Pipe
  <2>2. /\ [P[p] EXCEPT !.length = m].readers = P[p].readers
        /\ [P[p] EXCEPT !.length = m].writers = P[p].writers
    BY <1>1, Zenon DEF Pipe
  <2>3. /\ Q \in PipeStates /\ Q[p] = [P[p] EXCEPT !.length = m]
        /\ \A q \in Pipes \ {p} : Q[q] = P[q]
    BY <1>3, <2>1, Zenon DEF PipeStates
  <2>4. QED BY <2>2, <2>3, Zenon DEF SameCounts
<1>4. P[p].length - Lesser(n, P[p].length) \in 0..PIPE_CAPACITY
  BY <1>1, <1>2 DEF Lesser
<1>5. P[p].length + Lesser(n, PIPE_CAPACITY - P[p].length) \in 0..PIPE_CAPACITY
  BY <1>1, <1>2 DEF Lesser
<1>6. PipeRead(P, p, n) = [P EXCEPT ![p] = [P[p] EXCEPT !.length = P[p].length - Lesser(n, P[p].length)]]
  BY Zenon DEF PipeRead
<1>7. PipeWrite(P, p, n) =
        [P EXCEPT ![p] = [P[p] EXCEPT !.length = P[p].length + Lesser(n, PIPE_CAPACITY - P[p].length)]]
  BY Zenon DEF PipeWrite
<1>8. PipeRead(P, p, n) \in PipeStates /\ SameCounts(P, PipeRead(P, p, n))
  BY <1>3, <1>4, <1>6, Zenon
<1>9. PipeWrite(P, p, n) \in PipeStates /\ SameCounts(P, PipeWrite(P, p, n))
  BY <1>3, <1>5, <1>7, Zenon
<1>10. QED BY <1>8, <1>9, Zenon

\* The calls a program may be inside.
LEMMA TheCall ==
  ASSUME Contract, Scheduled, PipesOK, NEW fd \in Named, NEW count \in Counts,
         NEW op \in {"read", "write"},
         NEW c, c = [op |-> op, fd |-> fd, count |-> count], Inside(c)
  PROVE  /\ c \in Calls /\ c.op = op /\ c.fd = fd /\ count \in Nat
         /\ current # NONE /\ current \in Slots /\ MyTable \in FdTable /\ pipes \in PipeStates
         /\ MyTable[fd] \in FileDescriptor
<1>1. fd \in Fds /\ count \in Nat
  BY PipelinesAssumption, Zenon
<1>2. c \in Calls /\ c.op = op /\ c.fd = fd
  BY <1>1, Zenon DEF Calls
<1>3. current # NONE
  BY Zenon DEF Inside, UserTaskRuns, TaskRuns
<1>4. current \in Slots /\ MyTable \in FdTable /\ pipes \in PipeStates
  BY <1>3, Mine, Zenon
<1>5. QED BY <1>1, <1>2, <1>3, <1>4, Zenon DEF FdTable

\* fd_read.
LEMMA FdReadStep ==
  ASSUME Contract, Scheduled, PipesOK, NEW fd \in Named, NEW count \in Counts, FdRead(fd, count)
  PROVE  PipesOK'
<1> DEFINE d == MyTable[fd]
           c == [op |-> "read", fd |-> fd, count |-> count]
<1>1. Inside(c) /\ fds' = fds
  BY Zenon DEF FdRead
<1>2. /\ c \in Calls /\ c.op = "read" /\ c.fd = fd /\ count \in Nat
      /\ pipes \in PipeStates /\ d \in FileDescriptor
  BY <1>1, TheCall
<1>3. \/ d.kind = "PipeRead" /\ pipes' = PipeRead(pipes, d.pipe, count) /\ WakeAllBlockedTasks /\ Return
      \/ d.kind = "PipeRead" /\ pipes[d.pipe].length = 0 /\ BlockIn(c)
      \/ d.kind = "Stdin" /\ BlockIn(c)
      \/ WakeAllBlockedTasks /\ Return /\ pipes' = pipes
  BY Zenon DEF FdRead, ReadWouldBlock
<1> HIDE DEF c
<1>4. CASE d.kind = "PipeRead" /\ pipes' = PipeRead(pipes, d.pipe, count) /\ WakeAllBlockedTasks /\ Return
  <2>1. d.pipe \in Pipes
    BY <1>2, <1>4, PipeKinds, Zenon
  <2>2. pipes' \in PipeStates /\ SameCounts(pipes, pipes')
    BY <1>2, <1>4, <2>1, MovedBytes, Zenon
  <2>3. QED BY <1>1, <1>4, <2>2, MovingStep, Zenon
<1>5. CASE d.kind = "PipeRead" /\ pipes[d.pipe].length = 0 /\ BlockIn(c)
  <2>1. WaitOK("Blocked", c, MyTable, pipes)
    BY <1>2, <1>5, Zenon DEF WaitOK
  <2>2. QED BY <1>1, <1>2, <1>5, <2>1, BlockingStep, Zenon
<1>6. CASE d.kind = "Stdin" /\ BlockIn(c)
  <2>1. WaitOK("Blocked", c, MyTable, pipes)
    BY <1>2, <1>6, Zenon DEF WaitOK
  <2>2. QED BY <1>1, <1>2, <1>6, <2>1, BlockingStep, Zenon
<1>7. CASE WakeAllBlockedTasks /\ Return /\ pipes' = pipes
  <2>1. SameCounts(pipes, pipes')
    BY <1>7, Zenon DEF SameCounts
  <2>2. QED BY <1>1, <1>2, <1>7, <2>1, MovingStep, Zenon
<1>8. QED BY <1>3, <1>4, <1>5, <1>6, <1>7, Zenon

\* A call that returns without having done anything.
LEMMA ReturningStep ==
  ASSUME Contract, Scheduled, PipesOK, current # NONE, Return, UNCHANGED <<vars, fds, pipes>>
  PROVE  PipesOK'
<1>1. current \in Slots /\ call \in [Slots -> Calls \cup {NoCall}] /\ tasks[current].state = "Running"
  BY Mine, Runner, Zenon
<1>2. tasks' = tasks
  BY Zenon DEF vars, sched
<1>3. /\ call' \in [Slots -> Calls \cup {NoCall}]
      /\ \A j \in Slots \ {current} : call'[j] = call[j]
  BY <1>1, Zenon DEF Return
<1>4. \A j \in Slots : tasks'[j].state = "Blocked" /\ call'[j] # NoCall =>
        tasks[j].state = "Blocked" /\ call'[j] = call[j]
  BY <1>1, <1>2, <1>3, Zenon
<1>5. \A j \in Slots : tasks'[j].state = "Empty" => tasks[j].state = "Empty"
  BY <1>2, Zenon
<1>6. QED BY <1>3, <1>4, <1>5, SteadyStep, Zenon

\* fd_write.
LEMMA FdWriteStep ==
  ASSUME Contract, Scheduled, PipesOK, NEW fd \in Named, NEW count \in Counts, FdWrite(fd, count)
  PROVE  PipesOK'
<1> DEFINE d == MyTable[fd]
           c == [op |-> "write", fd |-> fd, count |-> count]
<1>1. Inside(c) /\ fds' = fds
  BY Zenon DEF FdWrite
<1>2. /\ c \in Calls /\ c.op = "write" /\ c.fd = fd /\ count \in Nat /\ current # NONE
      /\ pipes \in PipeStates /\ d \in FileDescriptor
  BY <1>1, TheCall
<1>3. \/ d.kind = "PipeWrite" /\ pipes' = PipeWrite(pipes, d.pipe, count) /\ WakeAllBlockedTasks /\ Return
      \/ d.kind = "PipeWrite" /\ pipes[d.pipe].length = PIPE_CAPACITY /\ BlockIn(c)
      \/ Return /\ UNCHANGED <<vars, fds, pipes>>
      \/ WakeAllBlockedTasks /\ Return /\ pipes' = pipes
  BY Zenon DEF FdWrite, WriteWouldBlock
<1> HIDE DEF c
<1>4. CASE d.kind = "PipeWrite" /\ pipes' = PipeWrite(pipes, d.pipe, count) /\ WakeAllBlockedTasks /\ Return
  <2>1. d.pipe \in Pipes
    BY <1>2, <1>4, PipeKinds, Zenon
  <2>2. pipes' \in PipeStates /\ SameCounts(pipes, pipes')
    BY <1>2, <1>4, <2>1, MovedBytes, Zenon
  <2>3. QED BY <1>1, <1>4, <2>2, MovingStep, Zenon
<1>5. CASE d.kind = "PipeWrite" /\ pipes[d.pipe].length = PIPE_CAPACITY /\ BlockIn(c)
  <2>1. WaitOK("Blocked", c, MyTable, pipes)
    BY <1>2, <1>5, Zenon DEF WaitOK
  <2>2. QED BY <1>1, <1>2, <1>5, <2>1, BlockingStep, Zenon
<1>6. CASE Return /\ UNCHANGED <<vars, fds, pipes>>
  BY <1>2, <1>6, ReturningStep, Zenon
<1>7. CASE WakeAllBlockedTasks /\ Return /\ pipes' = pipes
  <2>1. SameCounts(pipes, pipes')
    BY <1>7, Zenon DEF SameCounts
  <2>2. QED BY <1>1, <1>2, <1>7, <2>1, MovingStep, Zenon
<1>8. QED BY <1>3, <1>4, <1>5, <1>6, <1>7, Zenon

\* The descriptor contract, one operation at a time: closing a descriptor,
LEMMA CloseCounted ==
  ASSUME Contract, NEW B \in PipeStates, NEW s, Accounts(s, B), NEW f \in Fds
  PROVE  Accounts(TakeFd(s, f), B)
<1>1. OperationsAccount /\ s \in FdStates
  BY Zenon DEF Contract, DescriptorContract, Accounts
<1>2. QED BY <1>1, Zenon DEF OperationsAccount

\* dup2,
LEMMA DupCounted ==
  ASSUME Contract, NEW B \in PipeStates, NEW s, Accounts(s, B), NEW f \in Fds, NEW g \in Fds
  PROVE  Accounts(DupInto(s, f, g), B)
<1>1. OperationsAccount /\ s \in FdStates
  BY Zenon DEF Contract, DescriptorContract, Accounts
<1>2. QED BY <1>1, Zenon DEF OperationsAccount

\* opening a file,
LEMMA FileCounted ==
  ASSUME Contract, NEW B \in PipeStates, NEW s, Accounts(s, B),
         NEW f \in Fds, NEW d \in {FileRead, FileWrite}, s.table[f] = Closed
  PROVE  Accounts([table |-> [s.table EXCEPT ![f] = d], pipes |-> s.pipes], B)
<1>1. OperationsAccount /\ s \in FdStates
  BY Zenon DEF Contract, DescriptorContract, Accounts
<1>2. QED BY <1>1, Zenon DEF OperationsAccount

\* creating a pipe,
LEMMA PipeCounted ==
  ASSUME Contract, NEW B \in PipeStates, NEW s, Accounts(s, B),
         NEW r \in Fds, NEW w \in Fds, NEW q \in Pipes,
         r # w, s.table[r] = Closed, s.table[w] = Closed,
         s.pipes[q].readers = 0, s.pipes[q].writers = 0
  PROVE  Accounts([table |-> [s.table EXCEPT ![r] = ReadEnd(q), ![w] = WriteEnd(q)],
                   pipes |-> [s.pipes EXCEPT
                                ![q] = [length |-> 0, readers |-> 1, writers |-> 1]]], B)
<1>1. OperationsAccount /\ s \in FdStates
  BY Zenon DEF Contract, DescriptorContract, Accounts
<1>2. QED BY <1>1, Zenon DEF OperationsAccount

\* and the cleanup of a task that is gone.
LEMMA CleanupCounted ==
  ASSUME Contract, NEW B \in PipeStates, NEW s, Accounts(s, B)
  PROVE  Accounts([table |-> EmptyTable, pipes |-> DropTable(s.pipes, s.table)], B)
<1>1. OperationsAccount /\ s \in FdStates
  BY Zenon DEF Contract, DescriptorContract, Accounts
<1>2. QED BY <1>1, Zenon DEF OperationsAccount

\* The new pipe of create_pipe_for_current.
LEMMA CreatePipeStep ==
  ASSUME Contract, Scheduled, PipesOK, current # NONE, CreatePipe, UNCHANGED <<vars, call>>
  PROVE  PipesOK'
<1> DEFINE r == Least(FreeFds(MyTable))
           w == Least(FreeFds(MyTable) \ {r})
           t == [MyTable EXCEPT ![r] = ReadEnd(NewPipe), ![w] = WriteEnd(NewPipe)]
           P == [pipes EXCEPT ![NewPipe] = [length |-> 0, readers |-> 1, writers |-> 1]]
           s == [table |-> MyTable, pipes |-> pipes]
           u == [table |-> t, pipes |-> P]
<1>1. /\ Cardinality(FreeFds(MyTable)) >= 2 /\ FreePipes(pipes) # {}
      /\ SetMyTable(u)
  BY Zenon DEF CreatePipe
<1>2. r \in Fds /\ w \in Fds /\ r # w /\ MyTable[r] = Closed /\ MyTable[w] = Closed
  BY <1>1, FreshFds, Zenon
<1>3. NewPipe \in Pipes /\ pipes[NewPipe].readers = 0 /\ pipes[NewPipe].writers = 0
  BY <1>1, FreshPipe, Zenon DEF NewPipe
<1>4. current \in Slots /\ Others(current) \in PipeStates /\ Accounts(s, Others(current))
  BY Mine, Zenon
<1>5. s.table = MyTable /\ s.pipes = pipes
  BY Zenon
<1> HIDE DEF r, w, s
<1>6. Accounts([table |-> [s.table EXCEPT ![r] = ReadEnd(NewPipe), ![w] = WriteEnd(NewPipe)],
                pipes |-> [s.pipes EXCEPT ![NewPipe] = [length |-> 0, readers |-> 1, writers |-> 1]]],
               Others(current))
  BY <1>2, <1>3, <1>4, <1>5, PipeCounted, Zenon
<1>7. Accounts(u, Others(current))
  BY <1>5, <1>6, Zenon
<1> HIDE DEF u
<1>8. Evolves(tasks, tasks', {}, {})
  BY Runner, EvolvesNot, Zenon DEF vars, sched
<1>9. QED BY <1>1, <1>7, <1>8, MyStep, Zenon

\* close_current_fd.
LEMMA CloseStep ==
  ASSUME Contract, Scheduled, PipesOK, NEW fd, CloseCurrentFd(fd), call' = call
  PROVE  PipesOK'
<1> DEFINE s == [table |-> MyTable, pipes |-> pipes]
<1>1. current # NONE
  BY Zenon DEF CloseCurrentFd, WakeAllBlockedTasks, TaskRuns
<1>2. fd \in Fds
  BY Zenon DEF CloseCurrentFd, OpenFds
<1>3. Others(current) \in PipeStates /\ Accounts(s, Others(current))
  BY <1>1, Mine, Zenon
<1>4. SetMyTable(TakeFd(s, fd))
  BY Zenon DEF CloseCurrentFd
<1> HIDE DEF s
<1>5. Accounts(TakeFd(s, fd), Others(current))
  BY <1>2, <1>3, CloseCounted, Zenon
<1>6. Evolves(tasks, tasks', {}, {})
  BY WakeAllEvolves, Zenon DEF CloseCurrentFd
<1>7. QED BY <1>1, <1>4, <1>5, <1>6, MyStep, Zenon

\* dup2.
LEMMA DupStep ==
  ASSUME Contract, Scheduled, PipesOK, NEW d \in Dups, SysDup2(d[1], d[2])
  PROVE  PipesOK'
<1> DEFINE s == [table |-> MyTable, pipes |-> pipes]
<1>1. current # NONE
  BY Zenon DEF SysDup2, ProgramRuns, UserTaskRuns, TaskRuns
<1>2. d[1] \in Fds /\ d[2] \in Fds
  BY PipelinesAssumption, Zenon
<1>3. Others(current) \in PipeStates /\ Accounts(s, Others(current))
  BY <1>1, Mine, Zenon
<1>4. SetMyTable(DupInto(s, d[1], d[2])) /\ UNCHANGED <<vars, call>>
  BY Zenon DEF SysDup2
<1> HIDE DEF s
<1>5. Accounts(DupInto(s, d[1], d[2]), Others(current))
  BY <1>2, <1>3, DupCounted, Zenon
<1>6. Evolves(tasks, tasks', {}, {})
  BY <1>1, <1>4, Runner, EvolvesNot, Zenon DEF vars, sched
<1>7. QED BY <1>1, <1>4, <1>5, <1>6, MyStep, Zenon

\* create_file_read_for_current and create_file_write_for_current.
LEMMA CreateFileStep ==
  ASSUME Contract, Scheduled, PipesOK, current # NONE, NEW d \in {FileRead, FileWrite},
         CreateFile(d),
         UNCHANGED <<vars, pipes, call>>
  PROVE  PipesOK'
<1> DEFINE s == [table |-> MyTable, pipes |-> pipes]
           f == Least(FreeFds(MyTable))
           u == [table |-> [s.table EXCEPT ![f] = d], pipes |-> s.pipes]
<1>1. FreeFds(MyTable) # {} /\ fds' = [fds EXCEPT ![current] = [MyTable EXCEPT ![f] = d]]
  BY Zenon DEF CreateFile, MyTable
<1>2. f \in Fds /\ MyTable[f] = Closed
  BY <1>1, FreshFd, Zenon
<1>3. Others(current) \in PipeStates /\ Accounts(s, Others(current))
  BY Mine, Zenon
<1>4. SetMyTable(u)
  BY <1>1, Zenon DEF SetMyTable
<1>5. s.table = MyTable
  BY Zenon
<1> HIDE DEF s, f
<1>6. Accounts(u, Others(current))
  BY <1>2, <1>3, <1>5, FileCounted, Zenon
<1> HIDE DEF u
<1>7. Evolves(tasks, tasks', {}, {})
  BY Runner, EvolvesNot, Zenon DEF vars, sched
<1>8. QED BY <1>4, <1>6, <1>7, MyStep, Zenon

\* Nobody else holds less than everybody when the slot holds nothing.
LEMMA OthersAll ==
  ASSUME Contract, DescriptorsOK, CountsExact, NEW i \in Slots, fds[i] = EmptyTable, NEW s,
         Accounts(s, pipes)
  PROVE  Accounts(s, Others(i))
<1>1. ASSUME NEW p \in Pipes
      PROVE  /\ Others(i)[p].readers = pipes[p].readers /\ Others(i)[p].writers = pipes[p].writers
             /\ Others(i)[p].length = pipes[p].length
  <2>1. Count(fds[i], ReadEnd(p)) = 0 /\ Count(fds[i], WriteEnd(p)) = 0
    BY DEF Contract, DescriptorContract, CountsAreNumbers, EndsDiffer, EmptyTable
  <2>2. /\ Others(i)[p].readers \in Nat /\ Others(i)[p].writers \in Nat
        /\ pipes[p].readers = Others(i)[p].readers + Count(fds[i], ReadEnd(p))
        /\ pipes[p].writers = Others(i)[p].writers + Count(fds[i], WriteEnd(p))
        /\ Others(i)[p].length = pipes[p].length
    BY OthersPipe, Zenon
  <2>3. QED BY <2>1, <2>2
<1>2. QED BY <1>1, Zenon DEF Accounts

\* A child is spawned: everybody else's slot stays as it is.
LEMMA SpawnedTask ==
  ASSUME Contract, Scheduled, SpawnUser
  PROVE  LET slot == Least(EmptySlots(tasks))
         IN  /\ slot \in Slots /\ tasks[slot].state = "Empty" /\ tasks'[slot].state = "Ready"
             /\ \A j \in Slots \ {slot} : tasks'[j] = tasks[j]
<1> DEFINE slot == Least(EmptySlots(tasks))
<1>1. /\ EmptySlots(tasks) # {}
      /\ tasks' = [tasks EXCEPT ![slot] = NewTask(next_id, CurrentId, FALSE, TRUE)]
  BY Zenon DEF SpawnUser, SpawnTask, InsertTask
<1>2. EmptySlots(tasks) \in SUBSET Slots
  BY Zenon DEF EmptySlots
<1>3. slot \in EmptySlots(tasks)
  BY <1>1, <1>2, SlotFound, Zenon
<1>4. slot \in Slots /\ tasks[slot].state = "Empty"
  BY <1>3, Zenon DEF EmptySlots
<1> HIDE DEF slot
<1>5. tasks \in TaskTables
  BY Zenon DEF Scheduled, TypeOK, TaskTables
<1>6. tasks'[slot].state = "Ready" /\ \A j \in Slots \ {slot} : tasks'[j] = tasks[j]
  BY <1>1, <1>4, <1>5, Zenon DEF NewTask, TaskTables
<1>7. QED BY <1>4, <1>6, Zenon DEF slot

\* create_user_task.
LEMMA SpawnStep ==
  ASSUME Contract, Scheduled, PipesOK, current # NONE, NEW mappings \in Mappings,
         NEW closes \in Seq(Fds),
         SpawnWith(mappings, closes)
  PROVE  PipesOK'
<1> DEFINE slot == Least(EmptySlots(tasks))
           child == ChildTable(pipes, MyTable, mappings, closes)
<1>1. /\ SpawnUser /\ Gives(slot, child)
      /\ call' = [call EXCEPT ![slot] = NoCall]
  BY Zenon DEF SpawnWith, Gives
<1>2. /\ slot \in Slots /\ tasks[slot].state = "Empty" /\ tasks'[slot].state = "Ready"
      /\ \A j \in Slots \ {slot} : tasks'[j] = tasks[j]
  BY <1>1, SpawnedTask, Zenon
<1>3. /\ MyTable \in FdTable /\ pipes \in PipeStates /\ call \in [Slots -> Calls \cup {NoCall}]
  BY Mine, Zenon
<1>4. Accounts(child, pipes)
  BY <1>3, Zenon DEF Contract, DescriptorContract, ChildrenAccount
<1> HIDE DEF child, slot
<1>5. fds[slot] = EmptyTable /\ DescriptorsOK /\ CountsExact
  BY <1>2, Zenon DEF PipesOK, DescriptorsOK
<1>6. Accounts(child, Others(slot))
  BY <1>2, <1>4, <1>5, OthersAll, Zenon
<1>7. /\ call' \in [Slots -> Calls \cup {NoCall}] /\ call'[slot] = NoCall
      /\ \A j \in Slots \ {slot} : call'[j] = call[j]
  BY <1>1, <1>2, <1>3, Zenon
<1>8. \A j \in Slots : tasks'[j].state = "Blocked" /\ call'[j] # NoCall =>
        j # slot /\ tasks[j].state = "Blocked" /\ call'[j] = call[j]
  BY <1>2, <1>7, Zenon
<1>9. \A j \in Slots : tasks'[j].state = "Empty" =>
        IF j = slot THEN child.table = EmptyTable ELSE tasks[j].state = "Empty"
  BY <1>2, Zenon
<1>10. QED BY <1>1, <1>2, <1>6, <1>7, <1>8, <1>9, ReplaceStep, Zenon

\* Reaping: exactly the removed task's descriptors go.
LEMMA ReapStep ==
  ASSUME Contract, Scheduled, PipesOK, NEW i \in Slots, tasks[i].state = "Terminated",
         tasks' = RemoveTask(tasks, i), DropReaped, call' = call
  PROVE  /\ PipesOK'
         /\ \A j \in Slots \ {i} : fds'[j] = fds[j] /\ tasks'[j] = tasks[j]
<1> DEFINE reaped == {j \in Slots : tasks[j].state # "Empty" /\ tasks'[j].state = "Empty"}
           u == [table |-> EmptyTable, pipes |-> DropTable(pipes, fds[i])]
           s == [table |-> fds[i], pipes |-> pipes]
<1>1. tasks \in TaskTables
  BY Zenon DEF Scheduled, TypeOK, TaskTables
<1>2. tasks'[i].state = "Empty" /\ \A j \in Slots \ {i} : tasks'[j] = tasks[j]
  BY <1>1, RemovedTask, Zenon
<1>3. reaped = {i}
  BY <1>2, Zenon
<1>4. \E j \in reaped : fds' = [fds EXCEPT ![j] = EmptyTable] /\ pipes' = DropTable(pipes, fds[j])
  BY <1>3, Zenon DEF DropReaped
<1>5. fds' = [fds EXCEPT ![i] = EmptyTable] /\ pipes' = DropTable(pipes, fds[i])
  BY <1>3, <1>4, Zenon
<1>6. Gives(i, u) /\ u.table = EmptyTable
  BY <1>5, Zenon DEF Gives
<1>7. DescriptorsOK /\ CountsExact /\ WaitsOK
  BY Zenon DEF PipesOK
<1>8. Others(i) \in PipeStates /\ Accounts(s, Others(i))
  BY <1>7, OthersAccount, Zenon
<1>9. s.table = fds[i] /\ s.pipes = pipes
  BY Zenon
<1> HIDE DEF s
<1>10. Accounts([table |-> EmptyTable, pipes |-> DropTable(s.pipes, s.table)], Others(i))
  BY <1>8, CleanupCounted, Zenon
<1>11. Accounts(u, Others(i))
  BY <1>9, <1>10, Zenon
<1> HIDE DEF u, reaped
<1>12. \A j \in Slots \ {i} : fds'[j] = fds[j]
  BY <1>6, <1>7, <1>11, GivesTables, Zenon
<1>13. call' \in [Slots -> Calls \cup {NoCall}]
  BY <1>7, Zenon DEF WaitsOK
<1>14. \A j \in Slots : tasks'[j].state = "Blocked" /\ call'[j] # NoCall =>
         j # i /\ tasks[j].state = "Blocked" /\ call'[j] = call[j]
  BY <1>2, Zenon
<1>15. \A j \in Slots : tasks'[j].state = "Empty" =>
         IF j = i THEN u.table = EmptyTable ELSE tasks[j].state = "Empty"
  BY <1>2, <1>6, Zenon
<1>16. PipesOK'
  BY <1>6, <1>11, <1>13, <1>14, <1>15, ReplaceStep, Zenon
<1>17. QED BY <1>2, <1>12, <1>16, Zenon

\* Nothing is dropped when nobody is removed.
LEMMA NothingReaped ==
  ASSUME NEW B, NEW K, Evolves(tasks, tasks', B, K), DropReaped
  PROVE  UNCHANGED <<fds, pipes>>
<1>1. {j \in Slots : tasks[j].state # "Empty" /\ tasks'[j].state = "Empty"} = {}
  BY Zenon DEF Evolves
<1>2. QED BY <1>1, Zenon DEF DropReaped

-----------------------------------------------------------------------------
(***************************************************************************)
(* The shell.  It is alive, its standard descriptors stay what they were,  *)
(* and its local variables name the descriptors it has to close.           *)
(***************************************************************************)
ShellStates ==
  [pc : {"prompt", "input", "output", "left", "right", "close"},
   job : {"app", "pipeline"}, redirects : SUBSET {"<", ">"},
   read : Fds \cup {NONE}, write : Fds \cup {NONE},
   input : Fds \cup {NONE}, output : Fds \cup {NONE},
   left : TaskIds \cup {NONE}, right : TaskIds \cup {NONE}, closing : Seq(Fds)]

ShellAlive ==
  /\ tasks[SHELL].state \notin {"Empty", "Terminated"}
  /\ ~tasks[SHELL].user
  /\ tasks[SHELL].parent = NONE

Standard(t) == t[STDIN].kind = "Stdin" /\ t[STDOUT].kind = "Console"

\* A file of a redirection, if there is one, has a descriptor of its own.
FileFd(f, t) == f # NONE => f \notin PipeFds(t) \cup {STDIN, STDOUT}

\* The ends of the pipe of a launch under way.
LaunchEnds(s, t) ==
  /\ s.job = "app" => s.read = NONE /\ s.write = NONE /\ PipeFds(t) = {} /\ s.pc # "right"
  /\ s.job = "pipeline" =>
       /\ s.read \in Fds /\ s.write \in Fds
       /\ t[s.read].kind = "PipeRead" /\ t[s.write].kind = "PipeWrite"
       /\ PipeFds(t) = {s.read, s.write}

\* What is left to close includes every end of a pipe, and no standard descriptor.
ToClose(closing, t) ==
  /\ \A f \in PipeFds(t) : Lists(closing, f)
  /\ ~Lists(closing, STDIN) /\ ~Lists(closing, STDOUT)

ShellOK(s, t) ==
  /\ s \in ShellStates
  /\ Standard(t)
  /\ s.pc = "prompt" => PipeFds(t) = {}
  /\ s.pc \in {"input", "output", "left", "right"} =>
       FileFd(s.input, t) /\ FileFd(s.output, t) /\ LaunchEnds(s, t)
  /\ s.pc = "close" => s.closing # <<>> /\ ToClose(s.closing, t)

ShellInv == ShellAlive /\ ShellOK(shell, fds[SHELL])

\* The shell's slot, and the value that is no slot and no descriptor.
LEMMA ShellSlot == SHELL \in Slots /\ SHELL # NONE /\ NONE \notin Slots /\ NONE \notin Fds
BY SchedulerAssumption, FileDescriptorsAssumption DEF SHELL, Slots, NONE, Fds

\* A program is not the shell.
LEMMA NotTheShell ==
  ASSUME ShellInv, UserTaskRuns
  PROVE  current # SHELL /\ current # NONE
BY Zenon DEF ShellInv, ShellAlive, UserTaskRuns, TaskRuns

\* The shell goes on living.
LEMMA ShellLives ==
  ASSUME ShellAlive, NEW B, NEW K, Evolves(tasks, tasks', B, K), SHELL \notin K
  PROVE  ShellAlive'
<1>1. SHELL \in Slots
  BY ShellSlot, Zenon
<1>2. QED BY <1>1, Zenon DEF ShellAlive, Evolves

\* A step that is not the shell's.
LEMMA ShellWaits ==
  ASSUME ShellInv, NEW B, NEW K, Evolves(tasks, tasks', B, K), SHELL \notin K,
         shell' = shell, fds'[SHELL] = fds[SHELL]
  PROVE  ShellInv'
<1>1. ShellAlive'
  BY ShellLives, Zenon DEF ShellInv
<1>2. ShellOK(shell, fds[SHELL])' <=> ShellOK(shell', fds'[SHELL])
  BY Zenon DEF SHELL
<1>3. QED BY <1>1, <1>2, Zenon DEF ShellInv

\* A step that is not the shell's and leaves its slot alone.
LEMMA ShellUntouched ==
  ASSUME ShellInv, tasks'[SHELL] = tasks[SHELL], shell' = shell, fds'[SHELL] = fds[SHELL]
  PROVE  ShellInv'
BY DEF ShellInv, ShellAlive, ShellOK, Standard, FileFd, LaunchEnds, ToClose, PipeFds, Lists

\* What an opened descriptor adds to a list of descriptors to close.
LEMMA ListsOpened ==
  ASSUME NEW fd \in Fds \cup {NONE}
  PROVE  /\ Opened(fd) \in Seq(Fds)
         /\ \A f : Lists(Opened(fd), f) <=> fd # NONE /\ f = fd
<1>1. CASE fd = NONE
  BY <1>1 DEF Opened, Lists
<1>2. CASE fd # NONE
  <2>1. fd \in Fds /\ Opened(fd) = <<fd>>
    BY <1>2, Zenon DEF Opened
  <2>2. QED BY <1>2, <2>1 DEF Lists
<1>3. QED BY <1>1, <1>2, Zenon

\* A list of two lists names what either names.
LEMMA ListsBoth ==
  ASSUME NEW a \in Seq(Fds), NEW b \in Seq(Fds)
  PROVE  /\ a \o b \in Seq(Fds)
         /\ \A f : Lists(a \o b, f) <=> Lists(a, f) \/ Lists(b, f)
<1> DEFINE c == a \o b
<1>1. /\ c \in Seq(Fds) /\ Len(c) = Len(a) + Len(b) /\ Len(a) \in Nat /\ Len(b) \in Nat
      /\ \A n \in 1..Len(a) : c[n] = a[n]
      /\ \A n \in 1..Len(b) : c[Len(a) + n] = b[n]
  OBVIOUS
<1> HIDE DEF c
<1>2. ASSUME NEW f, Lists(c, f) PROVE Lists(a, f) \/ Lists(b, f)
  <2>1. PICK n \in 1..Len(c) : c[n] = f
    BY <1>2, Zenon DEF Lists
  <2>2. CASE n <= Len(a)
    BY <1>1, <2>1, <2>2 DEF Lists
  <2>3. CASE n > Len(a)
    <3>1. n - Len(a) \in 1..Len(b) /\ Len(a) + (n - Len(a)) = n
      BY <1>1, <2>3
    <3>2. b[n - Len(a)] = f
      BY <1>1, <2>1, <3>1, Zenon
    <3>3. QED BY <3>1, <3>2, Zenon DEF Lists
  <2>4. QED BY <1>1, <2>2, <2>3
<1>3. ASSUME NEW f, Lists(a, f) PROVE Lists(c, f)
  <2>1. PICK n \in 1..Len(a) : a[n] = f
    BY <1>3, Zenon DEF Lists
  <2>2. n \in 1..Len(c) /\ c[n] = f
    BY <1>1, <2>1
  <2>3. QED BY <2>2, Zenon DEF Lists
<1>4. ASSUME NEW f, Lists(b, f) PROVE Lists(c, f)
  <2>1. PICK n \in 1..Len(b) : b[n] = f
    BY <1>4, Zenon DEF Lists
  <2>2. Len(a) + n \in 1..Len(c) /\ c[Len(a) + n] = f
    BY <1>1, <2>1
  <2>3. QED BY <2>2, Zenon DEF Lists
<1>5. QED BY <1>1, <1>2, <1>3, <1>4, Zenon DEF c

\* A list names its head and what its tail names.
LEMMA ListsTail ==
  ASSUME NEW a \in Seq(Fds), a # <<>>
  PROVE  /\ Head(a) \in Fds /\ Tail(a) \in Seq(Fds)
         /\ \A f : Lists(a, f) <=> f = Head(a) \/ Lists(Tail(a), f)
<1> DEFINE b == Tail(a)
<1>1. /\ b \in Seq(Fds) /\ Len(a) \in Nat /\ Len(a) >= 1 /\ Len(b) = Len(a) - 1
      /\ Head(a) = a[1] /\ Head(a) \in Fds /\ \A n \in 1..Len(b) : b[n] = a[n + 1]
  OBVIOUS
<1> HIDE DEF b
<1>2. ASSUME NEW f, Lists(a, f), f # Head(a) PROVE Lists(b, f)
  <2>1. PICK n \in 1..Len(a) : a[n] = f
    BY <1>2, Zenon DEF Lists
  <2>2. n - 1 \in 1..Len(b) /\ n = (n - 1) + 1
    BY <1>1, <1>2, <2>1
  <2>3. b[n - 1] = f
    BY <1>1, <2>1, <2>2, Zenon
  <2>4. QED BY <2>2, <2>3, Zenon DEF Lists
<1>3. ASSUME NEW f, Lists(b, f) PROVE Lists(a, f)
  <2>1. PICK n \in 1..Len(b) : b[n] = f
    BY <1>3, Zenon DEF Lists
  <2>2. n + 1 \in 1..Len(a) /\ a[n + 1] = f
    BY <1>1, <2>1
  <2>3. QED BY <2>2, Zenon DEF Lists
<1>4. Lists(a, Head(a))
  BY <1>1 DEF Lists
<1>5. QED BY <1>1, <1>2, <1>3, <1>4, Zenon DEF b

\* u is the table t with descriptor f overwritten.
Stored(t, f, d, u) == u = [t EXCEPT ![f] = d]

\* The ends of pipes in such a table.
LEMMA PipeFdsStore ==
  ASSUME NEW t \in FdTable, NEW f \in Fds, NEW d \in FileDescriptor, NEW u, Stored(t, f, d, u)
  PROVE  /\ u \in FdTable /\ u[f] = d /\ \A g \in Fds \ {f} : u[g] = t[g]
         /\ d.kind \in {"PipeRead", "PipeWrite"} => PipeFds(u) = PipeFds(t) \cup {f}
         /\ d.kind \notin {"PipeRead", "PipeWrite"} => PipeFds(u) = PipeFds(t) \ {f}
<1>1. u \in FdTable /\ u[f] = d /\ \A g \in Fds \ {f} : u[g] = t[g]
  BY Zenon DEF FdTable, Stored
<1>2. \A g : g \in PipeFds(u) <=> g \in Fds /\ u[g].kind \in {"PipeRead", "PipeWrite"}
  BY Zenon DEF PipeFds
<1>3. \A g : g \in PipeFds(t) <=> g \in Fds /\ t[g].kind \in {"PipeRead", "PipeWrite"}
  BY Zenon DEF PipeFds
<1>4. QED BY <1>1, <1>2, <1>3, Zenon

\* A closed descriptor is no end of a pipe and no standard one.
LEMMA ClosedFd ==
  ASSUME Contract, NEW t, Standard(t), NEW f \in Fds, t[f] = Closed
  PROVE  f \notin PipeFds(t) /\ f # STDIN /\ f # STDOUT
BY Zenon DEF Contract, DescriptorContract, EndsDiffer, Standard, PipeFds

-----------------------------------------------------------------------------
(***************************************************************************)
(* The shell's steps, on its local variables s and its table t.            *)
(***************************************************************************)
\* The shell at its prompt is a state of the shell.
LEMMA PromptType == AtPrompt \in ShellStates
<1>1. <<>> \in Seq(Fds)
  OBVIOUS
<1>2. QED BY <1>1, Zenon DEF AtPrompt, ShellStates

\* Back to the prompt, or on to close the listed descriptors.
LEMMA ClosingOK ==
  ASSUME NEW s \in ShellStates, NEW t, Standard(t), NEW closing \in Seq(Fds), ToClose(closing, t),
         NEW v, v = IF closing = <<>> THEN AtPrompt ELSE [s EXCEPT !.pc = "close", !.closing = closing]
  PROVE  ShellOK(v, t)
<1>1. CASE closing = <<>>
  <2>1. v \in ShellStates /\ v.pc = "prompt"
    BY <1>1, PromptType, Zenon DEF AtPrompt
  <2>2. PipeFds(t) = {}
    BY <1>1 DEF ToClose, Lists
  <2>3. QED BY <2>1, <2>2, Zenon DEF ShellOK
<1>2. CASE closing # <<>>
  <2>1. v = [s EXCEPT !.pc = "close", !.closing = closing]
    BY <1>2, Zenon
  <2>2. v \in ShellStates
    BY <2>1, Zenon DEF ShellStates
  <2>3. v.pc = "close" /\ v.closing = closing
    BY <2>1, Zenon DEF ShellStates
  <2>4. QED BY <1>2, <2>2, <2>3, Zenon DEF ShellOK
<1>3. QED BY <1>1, <1>2, Zenon

\* A launch goes on with the same descriptors.
LEMMA LaunchOK ==
  ASSUME NEW s, NEW t, ShellOK(s, t), s.pc \in {"input", "output", "left"},
         NEW v \in ShellStates, v.pc \in {"output", "left", "right"},
         v.pc = "right" => s.job = "pipeline",
         v.job = s.job, v.read = s.read, v.write = s.write,
         v.input = s.input, v.output = s.output
  PROVE  ShellOK(v, t)
<1>1. FileFd(s.input, t) /\ FileFd(s.output, t) /\ LaunchEnds(s, t) /\ Standard(t)
  BY Zenon DEF ShellOK
<1>2. LaunchEnds(v, t)
  BY <1>1, Zenon DEF LaunchEnds
<1>3. QED BY <1>1, <1>2, Zenon DEF ShellOK

\* A launch goes on with a file opened.
LEMMA OpenedOK ==
  ASSUME Contract, NEW s, NEW t \in FdTable, ShellOK(s, t), s.pc \in {"input", "output"},
         NEW f \in Fds, t[f] = Closed, NEW d \in {FileRead, FileWrite}, NEW u, Stored(t, f, d, u),
         NEW v \in ShellStates, v.pc \in {"output", "left"},
         v.job = s.job, v.read = s.read, v.write = s.write,
         v.input \in {s.input, f}, v.output \in {s.output, f}
  PROVE  ShellOK(v, u)
<1>1. FileFd(s.input, t) /\ FileFd(s.output, t) /\ LaunchEnds(s, t) /\ Standard(t)
  BY Zenon DEF ShellOK
<1>2. d \in FileDescriptor /\ d.kind \notin {"PipeRead", "PipeWrite"}
  BY DEF FileDescriptor, FileRead, FileWrite
<1>3. f \notin PipeFds(t) /\ f # STDIN /\ f # STDOUT
  BY <1>1, ClosedFd, Zenon
<1>4. \A g \in Fds \ {f} : u[g] = t[g]
  BY <1>2, PipeFdsStore
<1>5. PipeFds(u) = PipeFds(t)
  <2>1. PipeFds(u) = PipeFds(t) \ {f}
    BY <1>2, PipeFdsStore
  <2>2. QED BY <1>3, <2>1, Zenon
<1>6. STDIN \in Fds /\ STDOUT \in Fds
  BY FileDescriptorsAssumption DEF STDIN, STDOUT, Fds
<1>7. Standard(u)
  BY <1>1, <1>3, <1>4, <1>6, Zenon DEF Standard
<1>8. FileFd(v.input, u) /\ FileFd(v.output, u)
  BY <1>1, <1>3, <1>5, Zenon DEF FileFd
<1>9. LaunchEnds(v, u)
  <2>1. CASE s.job = "app"
    BY <1>1, <1>5, <2>1, Zenon DEF LaunchEnds
  <2>2. CASE s.job = "pipeline"
    <3>1. /\ s.read \in Fds /\ s.write \in Fds /\ PipeFds(t) = {s.read, s.write}
          /\ t[s.read].kind = "PipeRead" /\ t[s.write].kind = "PipeWrite"
      BY <1>1, <2>2, Zenon DEF LaunchEnds
    <3>2. s.read # f /\ s.write # f
      BY <1>3, <3>1, Zenon
    <3>3. u[s.read].kind = "PipeRead" /\ u[s.write].kind = "PipeWrite"
      BY <1>4, <3>1, <3>2, Zenon
    <3>4. QED BY <1>5, <2>2, <3>1, <3>3, Zenon DEF LaunchEnds
  <2>3. QED BY <2>1, <2>2, Zenon DEF LaunchEnds
<1>10. QED BY <1>7, <1>8, <1>9, Zenon DEF ShellOK

\* The shell at work: its table is the running task's.
LEMMA ShellAtWork ==
  ASSUME PipesOK, ShellInv, ShellRuns
  PROVE  /\ current = SHELL /\ current # NONE /\ fds[SHELL] = MyTable
         /\ MyTable \in FdTable /\ ShellOK(shell, MyTable) /\ ShellAlive
         /\ shell \in ShellStates /\ Standard(MyTable)
<1>1. current = SHELL /\ current # NONE /\ fds[SHELL] = MyTable
  BY ShellSlot, Zenon DEF ShellRuns, MyTable
<1>2. MyTable \in FdTable
  BY <1>1, ShellSlot, Zenon DEF PipesOK, DescriptorsOK, MyTable
<1>3. ShellOK(shell, MyTable) /\ ShellAlive
  BY <1>1, Zenon DEF ShellInv
<1>4. QED BY <1>1, <1>2, <1>3, Zenon DEF ShellOK

\* The primes go where the invariant has the state.
LEMMA ShellNext ==
  ASSUME ShellAlive', NEW t, fds'[SHELL] = t, ShellOK(shell', t)
  PROVE  ShellInv'
<1>1. ShellOK(shell, fds[SHELL])' <=> ShellOK(shell', fds'[SHELL])
  BY Zenon DEF SHELL
<1>2. QED BY <1>1, Zenon DEF ShellInv

\* Nothing happens to the shell's task.
LEMMA AliveUnchanged ==
  ASSUME ShellAlive, tasks'[SHELL] = tasks[SHELL]
  PROVE  ShellAlive'
BY Zenon DEF ShellAlive

\* launch_app.
LEMMA LaunchAppStep ==
  ASSUME PipesOK, ShellInv, NEW redirects \in Redirects, LaunchApp(redirects)
  PROVE  ShellInv'
<1> DEFINE v == [AtPrompt EXCEPT !.pc = FirstStep(redirects), !.redirects = redirects]
<1>1. /\ ShellRuns /\ shell.pc = "prompt" /\ shell' = v /\ fds' = fds /\ tasks' = tasks
  BY Zenon DEF LaunchApp, vars, sched
<1>2. /\ fds[SHELL] = MyTable /\ ShellOK(shell, MyTable) /\ ShellAlive /\ Standard(MyTable)
  BY <1>1, ShellAtWork, Zenon
<1>3. redirects \in SUBSET {"<", ">"} /\ FirstStep(redirects) \in {"input", "output", "left"}
  BY PipelinesAssumption, Zenon DEF FirstStep
<1>4. v \in ShellStates
  BY <1>3, PromptType, Zenon DEF ShellStates
<1>5. /\ v.pc = FirstStep(redirects) /\ v.job = "app" /\ v.read = NONE /\ v.write = NONE
      /\ v.input = NONE /\ v.output = NONE
  BY Zenon DEF AtPrompt
<1> HIDE DEF v
<1>6. PipeFds(MyTable) = {}
  BY <1>1, <1>2, Zenon DEF ShellOK
<1>7. ShellOK(v, MyTable)
  BY <1>2, <1>3, <1>4, <1>5, <1>6, Zenon DEF ShellOK, FileFd, LaunchEnds
<1>8. ShellAlive'
  BY <1>1, <1>2, AliveUnchanged, Zenon
<1>9. QED BY <1>1, <1>2, <1>7, <1>8, ShellNext, Zenon

\* launch_pipeline.
LEMMA LaunchPipelineStep ==
  ASSUME Contract, PipesOK, ShellInv, NEW redirects \in Redirects, LaunchPipeline(redirects)
  PROVE  ShellInv'
<1> DEFINE r == Least(FreeFds(MyTable))
           w == Least(FreeFds(MyTable) \ {r})
           v == [AtPrompt EXCEPT !.pc = FirstStep(redirects), !.job = "pipeline",
                                 !.redirects = redirects, !.read = r, !.write = w]
           t1 == [MyTable EXCEPT ![r] = ReadEnd(NewPipe)]
           t == [t1 EXCEPT ![w] = WriteEnd(NewPipe)]
<1>1. /\ ShellRuns /\ shell.pc = "prompt" /\ shell' = v /\ tasks' = tasks
      /\ Cardinality(FreeFds(MyTable)) >= 2 /\ FreePipes(pipes) # {}
      /\ fds' = [fds EXCEPT ![current] = t]
  BY Zenon DEF LaunchPipeline, CreatePipe, SetMyTable, vars, sched
<1>2. /\ current = SHELL /\ fds[SHELL] = MyTable /\ MyTable \in FdTable
      /\ ShellOK(shell, MyTable) /\ ShellAlive /\ Standard(MyTable)
  BY <1>1, ShellAtWork, Zenon
<1>3. r \in Fds /\ w \in Fds /\ r # w /\ MyTable[r] = Closed /\ MyTable[w] = Closed
  BY <1>1, FreshFds, Zenon
<1>4. NewPipe \in Pipes
  BY <1>1, FreshPipe, Zenon DEF NewPipe
<1>5. redirects \in SUBSET {"<", ">"} /\ FirstStep(redirects) \in {"input", "output", "left"}
  BY PipelinesAssumption, Zenon DEF FirstStep
<1> HIDE DEF r, w
<1>6. v \in ShellStates
  BY <1>3, <1>5, PromptType, Zenon DEF ShellStates
<1>7. /\ v.pc = FirstStep(redirects) /\ v.job = "pipeline" /\ v.read = r /\ v.write = w
      /\ v.input = NONE /\ v.output = NONE
  BY Zenon DEF AtPrompt
<1> HIDE DEF v
<1>8. PipeFds(MyTable) = {}
  BY <1>1, <1>2, Zenon DEF ShellOK
<1>9. /\ ReadEnd(NewPipe) \in FileDescriptor /\ WriteEnd(NewPipe) \in FileDescriptor
      /\ ReadEnd(NewPipe).kind = "PipeRead" /\ WriteEnd(NewPipe).kind = "PipeWrite"
  BY <1>4, Zenon DEF Contract, DescriptorContract, EndsDiffer
<1>9a. Stored(MyTable, r, ReadEnd(NewPipe), t1) /\ Stored(t1, w, WriteEnd(NewPipe), t)
  BY Zenon DEF Stored
<1> HIDE DEF t1, t
<1>10. /\ t1 \in FdTable /\ t1[r] = ReadEnd(NewPipe) /\ \A g \in Fds \ {r} : t1[g] = MyTable[g]
       /\ PipeFds(t1) = PipeFds(MyTable) \cup {r}
  BY <1>2, <1>3, <1>9, <1>9a, PipeFdsStore
<1>11. /\ t \in FdTable /\ t[w] = WriteEnd(NewPipe) /\ \A g \in Fds \ {w} : t[g] = t1[g]
       /\ PipeFds(t) = PipeFds(t1) \cup {w}
  BY <1>3, <1>9, <1>9a, <1>10, PipeFdsStore
<1>12. PipeFds(t) = {r, w} /\ t[r].kind = "PipeRead" /\ t[w].kind = "PipeWrite"
  BY <1>3, <1>8, <1>9, <1>10, <1>11, Zenon
<1>13. Standard(t)
  <2>1. r # STDIN /\ r # STDOUT /\ w # STDIN /\ w # STDOUT
    BY <1>2, <1>3, ClosedFd, Zenon
  <2>2. STDIN \in Fds /\ STDOUT \in Fds
    BY FileDescriptorsAssumption DEF STDIN, STDOUT, Fds
  <2>3. t[STDIN] = MyTable[STDIN] /\ t[STDOUT] = MyTable[STDOUT]
    BY <1>10, <1>11, <2>1, <2>2, Zenon
  <2>4. QED BY <1>2, <2>3, Zenon DEF Standard
<1>14. ShellOK(v, t)
  <2>1. FileFd(v.input, t) /\ FileFd(v.output, t)
    BY <1>7, Zenon DEF FileFd
  <2>2. LaunchEnds(v, t)
    BY <1>3, <1>7, <1>12, Zenon DEF LaunchEnds
  <2>3. QED BY <1>5, <1>6, <1>7, <1>13, <2>1, <2>2, Zenon DEF ShellOK
<1>15. fds'[SHELL] = t
  BY <1>1, <1>2, ShellSlot, Zenon DEF PipesOK, DescriptorsOK
<1>16. ShellAlive'
  BY <1>1, <1>2, AliveUnchanged, Zenon
<1>17. QED BY <1>1, <1>14, <1>15, <1>16, ShellNext, Zenon

\* The descriptors of a launch, and the ends of its pipe to close.
LEMMA LaunchFds ==
  ASSUME NEW s, NEW t, ShellOK(s, t), s.pc \in {"input", "output", "left", "right"}
  PROVE  /\ s \in ShellStates /\ s.job \in {"app", "pipeline"}
         /\ s.read \in Fds \cup {NONE} /\ s.write \in Fds \cup {NONE}
         /\ s.input \in Fds \cup {NONE} /\ s.output \in Fds \cup {NONE}
         /\ \A f \in {s.read, s.write, s.input, s.output} : f # STDIN /\ f # STDOUT
         /\ \A f \in PipeFds(t) : f # NONE /\ f \in {s.read, s.write}
         /\ s.job = "app" => PipeFds(t) = {}
<1>1. FileFd(s.input, t) /\ FileFd(s.output, t) /\ LaunchEnds(s, t) /\ Standard(t) /\ s \in ShellStates
  BY Zenon DEF ShellOK
<1>2. /\ s.read \in Fds \cup {NONE} /\ s.write \in Fds \cup {NONE}
      /\ s.input \in Fds \cup {NONE} /\ s.output \in Fds \cup {NONE}
      /\ s.job \in {"app", "pipeline"}
  BY <1>1, Zenon DEF ShellStates
<1>3. NONE \notin Fds /\ NONE # STDIN /\ NONE # STDOUT
  BY ShellSlot DEF NONE, STDIN, STDOUT
<1>4. s.input # STDIN /\ s.input # STDOUT /\ s.output # STDIN /\ s.output # STDOUT
  BY <1>1, <1>3, Zenon DEF FileFd
<1>5. s.read # STDIN /\ s.read # STDOUT /\ s.write # STDIN /\ s.write # STDOUT
  <2>1. CASE s.job = "app"
    BY <1>1, <1>3, <2>1, Zenon DEF LaunchEnds
  <2>2. CASE s.job = "pipeline"
    BY <1>1, <2>2, Zenon DEF LaunchEnds, Standard
  <2>3. QED BY <1>2, <2>1, <2>2, Zenon
<1>6. \A f \in PipeFds(t) : f # NONE /\ f \in {s.read, s.write}
  <2>1. \A f \in PipeFds(t) : f \in Fds
    BY Zenon DEF PipeFds
  <2>2. PipeFds(t) \subseteq {s.read, s.write}
    BY <1>1, <1>2, Zenon DEF LaunchEnds
  <2>3. QED BY <1>3, <2>1, <2>2, Zenon
<1>7. s.job = "app" => PipeFds(t) = {}
  BY <1>1, Zenon DEF LaunchEnds
<1>8. QED BY <1>1, <1>2, <1>4, <1>5, <1>6, <1>7, Zenon

\* The lists of descriptors the shell closes.
LEMMA ClosingLists ==
  ASSUME NEW t, ShellOK(shell, t), shell.pc \in {"input", "output", "left", "right"}
  PROVE  LET files == Opened(shell.input) \o Opened(shell.output)
             all == PipeEnds \o Opened(shell.output) \o Opened(shell.input)
         IN  /\ PipeEnds \in Seq(Fds) /\ ToClose(PipeEnds, t)
             /\ all \in Seq(Fds) /\ ToClose(all, t)
             /\ files \in Seq(Fds) /\ (shell.job = "app" => ToClose(files, t))
             /\ Opened(shell.input) \in Seq(Fds)
             /\ (shell.job = "app" => ToClose(Opened(shell.input), t))
<1> DEFINE r == Opened(shell.read)
           w == Opened(shell.write)
           i == Opened(shell.input)
           o == Opened(shell.output)
<1>1. /\ shell.read \in Fds \cup {NONE} /\ shell.write \in Fds \cup {NONE}
      /\ shell.input \in Fds \cup {NONE} /\ shell.output \in Fds \cup {NONE}
      /\ \A f \in {shell.read, shell.write, shell.input, shell.output} : f # STDIN /\ f # STDOUT
      /\ \A f \in PipeFds(t) : f # NONE /\ f \in {shell.read, shell.write}
      /\ shell.job = "app" => PipeFds(t) = {}
  BY LaunchFds, Zenon
<1>2. /\ r \in Seq(Fds) /\ \A f : Lists(r, f) <=> shell.read # NONE /\ f = shell.read
      /\ w \in Seq(Fds) /\ \A f : Lists(w, f) <=> shell.write # NONE /\ f = shell.write
      /\ i \in Seq(Fds) /\ \A f : Lists(i, f) <=> shell.input # NONE /\ f = shell.input
      /\ o \in Seq(Fds) /\ \A f : Lists(o, f) <=> shell.output # NONE /\ f = shell.output
  BY <1>1, ListsOpened, Zenon
<1> HIDE DEF r, w, i, o
<1>3. r \o w \in Seq(Fds) /\ \A f : Lists(r \o w, f) <=> Lists(r, f) \/ Lists(w, f)
  BY <1>2, ListsBoth, Zenon
<1>4. i \o o \in Seq(Fds) /\ \A f : Lists(i \o o, f) <=> Lists(i, f) \/ Lists(o, f)
  BY <1>2, ListsBoth, Zenon
<1> DEFINE ends == r \o w
<1>5. PipeEnds = ends
  BY Zenon DEF PipeEnds, r, w
<1> HIDE DEF ends
<1>6. ends \in Seq(Fds) /\ \A f : Lists(ends, f) <=> Lists(r, f) \/ Lists(w, f)
  BY <1>3, Zenon DEF ends
<1>7. ends \o o \in Seq(Fds) /\ \A f : Lists(ends \o o, f) <=> Lists(ends, f) \/ Lists(o, f)
  BY <1>2, <1>6, ListsBoth, Zenon
<1> DEFINE more == ends \o o
<1> HIDE DEF more
<1>8. more \in Seq(Fds) /\ \A f : Lists(more, f) <=> Lists(ends, f) \/ Lists(o, f)
  BY <1>7, Zenon DEF more
<1>9. more \o i \in Seq(Fds) /\ \A f : Lists(more \o i, f) <=> Lists(more, f) \/ Lists(i, f)
  BY <1>2, <1>8, ListsBoth, Zenon
<1>10. ToClose(ends, t)
  BY <1>1, <1>2, <1>6, Zenon DEF ToClose
<1>11. ToClose(more \o i, t)
  BY <1>1, <1>2, <1>6, <1>8, <1>9, Zenon DEF ToClose
<1>12. shell.job = "app" => ToClose(i \o o, t) /\ ToClose(i, t)
  BY <1>1, <1>2, <1>4, Zenon DEF ToClose
<1>13. QED BY <1>2, <1>4, <1>5, <1>6, <1>9, <1>10, <1>11, <1>12, Zenon DEF r, w, i, o, more

\* A step that changes neither tasks nor descriptors.
LEMMA QuietStep ==
  ASSUME Scheduled, PipesOK, UNCHANGED <<vars, fds, pipes, call>>
  PROVE  PipesOK'
<1>1. tasks \in TaskTables /\ tasks' = tasks
  BY Zenon DEF Scheduled, TypeOK, TaskTables, vars, sched
<1>2. Evolves(tasks, tasks', {}, {})
  BY <1>1, EvolvesNot, Zenon
<1>3. QED BY <1>2, EvolvingStep

\* The shell goes on to close descriptors, or back to its prompt.
LEMMA ThenCloseStep ==
  ASSUME NEW s \in ShellStates, NEW t, fds'[SHELL] = t, Standard(t), ShellAlive',
         NEW closing \in Seq(Fds), ToClose(closing, t), ThenClose(s, closing)
  PROVE  ShellInv'
<1>1. shell' = IF closing = <<>> THEN AtPrompt ELSE [s EXCEPT !.pc = "close", !.closing = closing]
  BY Zenon DEF ThenClose
<1>2. ShellOK(shell', t)
  BY <1>1, ClosingOK, Zenon
<1>3. QED BY <1>2, ShellNext, Zenon

\* An open file: the shell's variables v, and its table.
LEMMA FileOpened ==
  ASSUME Contract, Scheduled, PipesOK, ShellInv, ShellRuns, shell.pc \in {"input", "output"},
         NEW d \in {FileRead, FileWrite}, CreateFile(d), UNCHANGED vars,
         shell' \in ShellStates, shell'.pc \in {"output", "left"},
         shell'.job = shell.job, shell'.read = shell.read, shell'.write = shell.write,
         shell'.input \in {shell.input, Least(FreeFds(MyTable))},
         shell'.output \in {shell.output, Least(FreeFds(MyTable))}
  PROVE  ShellInv'
<1> DEFINE f == Least(FreeFds(MyTable))
           u == [MyTable EXCEPT ![f] = d]
<1>1. /\ current = SHELL /\ fds[SHELL] = MyTable /\ MyTable \in FdTable
      /\ ShellOK(shell, MyTable) /\ ShellAlive
  BY ShellAtWork, Zenon
<1>2. FreeFds(MyTable) # {} /\ fds' = [fds EXCEPT ![current] = u]
  BY Zenon DEF CreateFile, MyTable
<1>3. f \in Fds /\ MyTable[f] = Closed
  BY <1>2, FreshFd, Zenon
<1>4. Stored(MyTable, f, d, u)
  BY Zenon DEF Stored
<1>5. fds'[SHELL] = u
  BY <1>1, <1>2, ShellSlot, Zenon DEF PipesOK, DescriptorsOK
<1> HIDE DEF f, u
<1>6. shell'.input \in {shell.input, f} /\ shell'.output \in {shell.output, f}
  BY Zenon DEF f
<1>7. ShellOK(shell', u)
  BY <1>1, <1>3, <1>4, <1>6, OpenedOK
<1>8. ShellAlive'
  BY <1>1, AliveUnchanged, Zenon DEF vars, sched
<1>9. QED BY <1>5, <1>7, <1>8, ShellNext, Zenon

\* The shell's variables, with the id of a side that started.
LEMMA ShellSet ==
  ASSUME NEW s \in ShellStates, NEW id \in TaskIds
  PROVE  /\ [s EXCEPT !.left = id] \in ShellStates /\ [s EXCEPT !.right = id] \in ShellStates
         /\ [s EXCEPT !.pc = "right", !.left = id] \in ShellStates
         /\ [s EXCEPT !.pc = "right"] \in ShellStates
<1>1. id \in TaskIds \cup {NONE}
  BY Zenon
<1>2. [s EXCEPT !.left = id] \in ShellStates /\ [s EXCEPT !.right = id] \in ShellStates
  BY <1>1, Zenon DEF ShellStates
<1>3. [s EXCEPT !.pc = "right", !.left = id] \in ShellStates
  BY <1>1, Zenon DEF ShellStates
<1>4. [s EXCEPT !.pc = "right"] \in ShellStates
  BY Zenon DEF ShellStates
<1>5. QED BY <1>2, <1>3, <1>4, Zenon

\* The input of a command line is opened, or cannot be.
LEMMA OpenInputStep ==
  ASSUME Contract, Scheduled, PipesOK, ShellInv, OpenInput
  PROVE  PipesOK' /\ ShellInv'
<1> DEFINE f == Least(FreeFds(MyTable))
           pc == SecondStep(shell.redirects)
           v == [shell EXCEPT !.pc = pc, !.input = f]
<1>1. ShellRuns /\ shell.pc = "input" /\ UNCHANGED <<vars, pipes, call>>
  BY Zenon DEF OpenInput
<1>2. /\ current # NONE /\ fds[SHELL] = MyTable /\ ShellOK(shell, MyTable) /\ ShellAlive
      /\ shell \in ShellStates /\ Standard(MyTable)
  BY <1>1, ShellAtWork, Zenon
<1>3. \/ CreateFile(FileRead) /\ shell' = v
      \/ ThenClose(shell, PipeEnds) /\ fds' = fds
  BY Zenon DEF OpenInput
<1>4. CASE CreateFile(FileRead) /\ shell' = v
  <2>1. f \in Fds
    BY <1>4, FreshFd, Zenon DEF CreateFile
  <2>2. pc \in {"output", "left"}
    BY Zenon DEF SecondStep
  <2> HIDE DEF f, pc
  <2>3. v \in ShellStates
    BY <1>2, <2>1, <2>2, Zenon DEF ShellStates
  <2>4. /\ v.pc = pc /\ v.job = shell.job /\ v.read = shell.read /\ v.write = shell.write
        /\ v.input = f /\ v.output = shell.output
    BY <1>2, Zenon DEF ShellStates
  <2> HIDE DEF v
  <2>5. ShellInv'
    BY <1>1, <1>4, <2>2, <2>3, <2>4, FileOpened, Zenon DEF f
  <2>6. PipesOK'
    BY <1>1, <1>2, <1>4, CreateFileStep, Zenon
  <2>7. QED BY <2>5, <2>6, Zenon
<1>5. CASE ThenClose(shell, PipeEnds) /\ fds' = fds
  <2>1. PipeEnds \in Seq(Fds) /\ ToClose(PipeEnds, MyTable)
    BY <1>1, <1>2, ClosingLists, Zenon
  <2>2. ShellAlive'
    BY <1>1, <1>2, AliveUnchanged, Zenon DEF vars, sched
  <2>3. ShellInv'
    BY <1>2, <1>5, <2>1, <2>2, ThenCloseStep, Zenon
  <2>4. PipesOK'
    BY <1>1, <1>5, QuietStep, Zenon
  <2>5. QED BY <2>3, <2>4, Zenon
<1>6. QED BY <1>3, <1>4, <1>5, Zenon

\* The output of a command line is opened, or cannot be.
LEMMA OpenOutputStep ==
  ASSUME Contract, Scheduled, PipesOK, ShellInv, OpenOutput
  PROVE  PipesOK' /\ ShellInv'
<1> DEFINE f == Least(FreeFds(MyTable))
           v == [shell EXCEPT !.pc = "left", !.output = f]
           closing == IF shell.job = "app" THEN Opened(shell.input) ELSE PipeEnds
<1>1. ShellRuns /\ shell.pc = "output" /\ UNCHANGED <<vars, pipes, call>>
  BY Zenon DEF OpenOutput
<1>2. /\ current # NONE /\ fds[SHELL] = MyTable /\ ShellOK(shell, MyTable) /\ ShellAlive
      /\ shell \in ShellStates /\ Standard(MyTable)
  BY <1>1, ShellAtWork, Zenon
<1>3. \/ CreateFile(FileWrite) /\ shell' = v
      \/ ThenClose(shell, closing) /\ fds' = fds
  BY Zenon DEF OpenOutput
<1>4. CASE CreateFile(FileWrite) /\ shell' = v
  <2>1. f \in Fds
    BY <1>4, FreshFd, Zenon DEF CreateFile
  <2> HIDE DEF f
  <2>3. v \in ShellStates
    BY <1>2, <2>1, Zenon DEF ShellStates
  <2>4. /\ v.pc = "left" /\ v.job = shell.job /\ v.read = shell.read /\ v.write = shell.write
        /\ v.input = shell.input /\ v.output = f
    BY <1>2, Zenon DEF ShellStates
  <2> HIDE DEF v
  <2>5. ShellInv'
    BY <1>1, <1>4, <2>3, <2>4, FileOpened, Zenon DEF f
  <2>6. PipesOK'
    BY <1>1, <1>2, <1>4, CreateFileStep, Zenon
  <2>7. QED BY <2>5, <2>6, Zenon
<1>5. CASE ThenClose(shell, closing) /\ fds' = fds
  <2>1. closing \in Seq(Fds) /\ ToClose(closing, MyTable)
    BY <1>1, <1>2, ClosingLists, Zenon
  <2> HIDE DEF closing
  <2>2. ShellAlive'
    BY <1>1, <1>2, AliveUnchanged, Zenon DEF vars, sched
  <2>3. ShellInv'
    BY <1>2, <1>5, <2>1, <2>2, ThenCloseStep, Zenon
  <2>4. PipesOK'
    BY <1>1, <1>5, QuietStep, Zenon
  <2>5. QED BY <2>3, <2>4, Zenon
<1>6. QED BY <1>3, <1>4, <1>5, Zenon

\* The mappings of a side are descriptors of the shell's.
LEMMA MappingType ==
  ASSUME NEW a \in Fds \cup {NONE}, NEW b \in Fds \cup {NONE}
  PROVE  Mapping(a, STDIN) \o Mapping(b, STDOUT) \in Mappings
<1>1. STDIN \in Fds /\ STDOUT \in Fds
  BY FileDescriptorsAssumption DEF STDIN, STDOUT, Fds
<1>2. ASSUME NEW c \in Fds \cup {NONE}, NEW d \in Fds
      PROVE  Mapping(c, d) \in Seq(FdMapping)
  <2>1. CASE c = NONE
    BY <2>1 DEF Mapping
  <2>2. CASE c # NONE
    <3>1. [source |-> c, target |-> d] \in FdMapping
      BY <2>2, Zenon DEF FdMapping
    <3>2. Mapping(c, d) = <<[source |-> c, target |-> d]>>
      BY <2>2, Zenon DEF Mapping
    <3>3. QED BY <3>1, <3>2
  <2>3. QED BY <2>1, <2>2, Zenon
<1>3. Mapping(a, STDIN) \in Seq(FdMapping) /\ Mapping(b, STDOUT) \in Seq(FdMapping)
  BY <1>1, <1>2, Zenon
<1>4. \A x, y \in Seq(FdMapping) : x \o y \in Seq(FdMapping)
  OBVIOUS
<1>5. QED BY <1>3, <1>4, Zenon DEF Mappings

\* A spawn leaves the shell's slot alone.
LEMMA SpawnBesides ==
  ASSUME Contract, Scheduled, ShellAlive, DescriptorsOK, NEW mappings, NEW closes,
         SpawnWith(mappings, closes)
  PROVE  tasks'[SHELL] = tasks[SHELL] /\ fds'[SHELL] = fds[SHELL] /\ ShellAlive'
<1> DEFINE slot == Least(EmptySlots(tasks))
           child == ChildTable(pipes, MyTable, mappings, closes)
<1>1. SpawnUser /\ fds' = [fds EXCEPT ![slot] = child.table]
  BY Zenon DEF SpawnWith
<1>2. /\ slot \in Slots /\ tasks[slot].state = "Empty"
      /\ \A j \in Slots \ {slot} : tasks'[j] = tasks[j]
  BY <1>1, SpawnedTask, Zenon
<1> HIDE DEF slot, child
<1>3. SHELL \in Slots /\ SHELL # slot
  BY <1>2, ShellSlot, Zenon DEF ShellAlive
<1>4. tasks'[SHELL] = tasks[SHELL] /\ fds'[SHELL] = fds[SHELL]
  BY <1>1, <1>2, <1>3, Zenon DEF DescriptorsOK
<1>5. QED BY <1>4, AliveUnchanged, Zenon

\* The shell spawns a program, or does not, and goes on as it likes.
LEMMA StartStep ==
  ASSUME Contract, Scheduled, PipesOK, ShellInv, ShellRuns, NEW mappings \in Mappings,
         NEW closes \in Seq(Fds),
         SpawnWith(mappings, closes) \/ UNCHANGED <<vars, fds, pipes, call>>
  PROVE  PipesOK' /\ ShellAlive' /\ fds'[SHELL] = MyTable
<1>1. current # NONE /\ fds[SHELL] = MyTable /\ ShellAlive
  BY ShellAtWork, Zenon
<1>2. CASE SpawnWith(mappings, closes)
  BY <1>1, <1>2, SpawnStep, SpawnBesides, Zenon DEF PipesOK
<1>3. CASE UNCHANGED <<vars, fds, pipes, call>>
  BY <1>1, <1>3, QuietStep, AliveUnchanged, Zenon DEF vars, sched
<1>4. QED BY <1>2, <1>3, Zenon

\* An app is started.
LEMMA SpawnAppStep ==
  ASSUME Contract, Scheduled, PipesOK, ShellInv, SpawnApp
  PROVE  PipesOK' /\ ShellInv'
<1> DEFINE files == Opened(shell.input) \o Opened(shell.output)
           maps == Mapping(shell.input, STDIN) \o Mapping(shell.output, STDOUT)
           v == [shell EXCEPT !.left = next_id]
<1>1. /\ ShellRuns /\ shell.job = "app" /\ shell.pc = "left"
      /\ \/ SpawnWith(maps, files) /\ ThenClose(v, files)
         \/ UNCHANGED <<vars, fds, pipes, call>> /\ ThenClose(shell, files)
  BY Zenon DEF SpawnApp, Start
<1>2. ShellOK(shell, MyTable) /\ shell \in ShellStates /\ Standard(MyTable)
  BY <1>1, ShellAtWork, Zenon
<1>3. files \in Seq(Fds) /\ ToClose(files, MyTable)
  BY <1>1, <1>2, ClosingLists, Zenon
<1>4. maps \in Mappings
  BY <1>1, <1>2, LaunchFds, MappingType, Zenon
<1>5. v \in ShellStates
  BY <1>2, ShellSet, Zenon DEF Scheduled, TypeOK
<1> HIDE DEF files, maps, v
<1>6. PipesOK' /\ ShellAlive' /\ fds'[SHELL] = MyTable
  BY <1>1, <1>3, <1>4, StartStep, Zenon
<1>7. ShellInv'
  BY <1>1, <1>2, <1>3, <1>5, <1>6, ThenCloseStep, Zenon
<1>8. QED BY <1>6, <1>7, Zenon

\* The left side of a pipeline is started.
LEMMA SpawnLeftStep ==
  ASSUME Contract, Scheduled, PipesOK, ShellInv, SpawnLeft
  PROVE  PipesOK' /\ ShellInv'
<1> DEFINE maps == Mapping(shell.input, STDIN) \o Mapping(shell.write, STDOUT)
           closes == <<shell.read, IF shell.input = NONE THEN shell.write ELSE shell.input>>
           v == [shell EXCEPT !.pc = "right", !.left = next_id]
           u == [shell EXCEPT !.pc = "right"]
<1>1. /\ ShellRuns /\ shell.job = "pipeline" /\ shell.pc = "left"
      /\ SpawnWith(maps, closes) \/ UNCHANGED <<vars, fds, pipes, call>>
      /\ shell' = v \/ shell' = u
  BY Zenon DEF SpawnLeft, Start
<1>2. ShellOK(shell, MyTable) /\ shell \in ShellStates
  BY <1>1, ShellAtWork, Zenon
<1>3. maps \in Mappings
  BY <1>1, <1>2, LaunchFds, MappingType, Zenon
<1>4. closes \in Seq(Fds)
  <2>1. shell.read \in Fds /\ shell.write \in Fds
    BY <1>1, <1>2, Zenon DEF ShellOK, LaunchEnds
  <2>2. shell.input # NONE => shell.input \in Fds
    BY <1>1, <1>2, LaunchFds, Zenon
  <2>3. QED BY <2>1, <2>2
<1>5. v \in ShellStates /\ u \in ShellStates
  BY <1>2, ShellSet, Zenon DEF Scheduled, TypeOK
<1>6. ASSUME NEW x \in {v, u}
      PROVE  /\ x.pc = "right" /\ x.job = shell.job /\ x.read = shell.read /\ x.write = shell.write
             /\ x.input = shell.input /\ x.output = shell.output
  BY <1>2, Zenon DEF ShellStates
<1> HIDE DEF maps, closes, v, u
<1>7. PipesOK' /\ ShellAlive' /\ fds'[SHELL] = MyTable
  BY <1>1, <1>3, <1>4, StartStep, Zenon
<1>8. ShellOK(shell', MyTable)
  BY <1>1, <1>2, <1>5, <1>6, LaunchOK, Zenon
<1>9. QED BY <1>7, <1>8, ShellNext, Zenon

\* The right side of a pipeline is started.
LEMMA SpawnRightStep ==
  ASSUME Contract, Scheduled, PipesOK, ShellInv, SpawnRight
  PROVE  PipesOK' /\ ShellInv'
<1> DEFINE closing == PipeEnds \o Opened(shell.output) \o Opened(shell.input)
           maps == Mapping(shell.read, STDIN) \o Mapping(shell.output, STDOUT)
           closes == <<shell.write>> \o Opened(shell.output)
           v == [shell EXCEPT !.right = next_id]
<1>1. /\ ShellRuns /\ shell.pc = "right"
      /\ \/ SpawnWith(maps, closes) /\ ThenClose(v, closing)
         \/ UNCHANGED <<vars, fds, pipes, call>> /\ ThenClose(shell, closing)
  BY Zenon DEF SpawnRight, Start
<1>2. ShellOK(shell, MyTable) /\ shell \in ShellStates /\ Standard(MyTable)
  BY <1>1, ShellAtWork, Zenon
<1>3. closing \in Seq(Fds) /\ ToClose(closing, MyTable)
  BY <1>1, <1>2, ClosingLists, Zenon
<1>4. maps \in Mappings
  BY <1>1, <1>2, LaunchFds, MappingType, Zenon
<1>5. closes \in Seq(Fds)
  <2>1. shell.write \in Fds
    <3>1. shell.job \in {"app", "pipeline"}
      BY <1>1, <1>2, LaunchFds, Zenon
    <3>2. QED BY <1>1, <1>2, <3>1, Zenon DEF ShellOK, LaunchEnds
  <2>2. Opened(shell.output) \in Seq(Fds)
    BY <1>1, <1>2, LaunchFds, ListsOpened, Zenon
  <2>3. <<shell.write>> \in Seq(Fds)
    BY <2>1
  <2>4. QED BY <2>2, <2>3, ListsBoth, Zenon
<1>6. v \in ShellStates
  BY <1>2, ShellSet, Zenon DEF Scheduled, TypeOK
<1> HIDE DEF closing, maps, closes, v
<1>7. PipesOK' /\ ShellAlive' /\ fds'[SHELL] = MyTable
  BY <1>1, <1>4, <1>5, StartStep, Zenon
<1>8. ShellInv'
  BY <1>1, <1>2, <1>3, <1>6, <1>7, ThenCloseStep, Zenon
<1>9. QED BY <1>7, <1>8, Zenon

\* The shell closes the next of its descriptors.
LEMMA CloseNextStep ==
  ASSUME Contract, Scheduled, PipesOK, ShellInv, CloseNext
  PROVE  PipesOK' /\ ShellInv'
<1> DEFINE f == Head(shell.closing)
           rest == Tail(shell.closing)
           u == [MyTable EXCEPT ![f] = Closed]
<1>1. /\ ShellRuns /\ shell.pc = "close" /\ CloseCurrentFd(f) /\ ThenClose(shell, rest) /\ call' = call
  BY Zenon DEF CloseNext
<1>2. /\ current = SHELL /\ fds[SHELL] = MyTable /\ MyTable \in FdTable
      /\ ShellOK(shell, MyTable) /\ ShellAlive /\ shell \in ShellStates /\ Standard(MyTable)
  BY <1>1, ShellAtWork, Zenon
<1>3. shell.closing \in Seq(Fds) /\ shell.closing # <<>> /\ ToClose(shell.closing, MyTable)
  BY <1>1, <1>2, Zenon DEF ShellOK, ShellStates
<1>4. /\ f \in Fds /\ rest \in Seq(Fds)
      /\ \A g : Lists(shell.closing, g) <=> g = f \/ Lists(rest, g)
  BY <1>3, ListsTail, Zenon
<1>5. fds' = [fds EXCEPT ![current] = u] /\ WakeAllBlockedTasks
  BY <1>1, Zenon DEF CloseCurrentFd, SetMyTable, TakeFd
<1>6. fds'[SHELL] = u
  BY <1>2, <1>5, ShellSlot, Zenon DEF PipesOK, DescriptorsOK
<1>7. Stored(MyTable, f, Closed, u)
  BY Zenon DEF Stored
<1> HIDE DEF f, rest, u
<1>8. Closed \in FileDescriptor /\ Closed.kind \notin {"PipeRead", "PipeWrite"}
  BY Zenon DEF Contract, DescriptorContract, EndsDiffer
<1>9. PipeFds(u) = PipeFds(MyTable) \ {f} /\ \A g \in Fds \ {f} : u[g] = MyTable[g]
  BY <1>2, <1>4, <1>7, <1>8, PipeFdsStore
<1>10. ToClose(rest, u)
  BY <1>3, <1>4, <1>9, Zenon DEF ToClose
<1>11. f # STDIN /\ f # STDOUT
  BY <1>3, <1>4, Zenon DEF ToClose
<1>12. STDIN \in Fds /\ STDOUT \in Fds
  BY FileDescriptorsAssumption DEF STDIN, STDOUT, Fds
<1>13. Standard(u)
  BY <1>2, <1>9, <1>11, <1>12, Zenon DEF Standard
<1>14. ShellAlive'
  BY <1>2, <1>5, WakeAllEvolves, ShellLives, Zenon
<1>15. ShellInv'
  BY <1>1, <1>2, <1>4, <1>6, <1>10, <1>13, <1>14, ThenCloseStep, Zenon
<1>16. PipesOK'
  BY <1>1, CloseStep, Zenon
<1>17. QED BY <1>15, <1>16, Zenon

\* A task is reaped, which is not the shell.
LEMMA ReapedBesides ==
  ASSUME Contract, Scheduled, PipesOK, ShellInv, NEW i \in Slots, tasks[i].state = "Terminated",
         tasks' = RemoveTask(tasks, i), DropReaped, call' = call, shell' = shell
  PROVE  PipesOK' /\ ShellInv'
<1>1. PipesOK' /\ \A j \in Slots \ {i} : fds'[j] = fds[j] /\ tasks'[j] = tasks[j]
  BY ReapStep, Zenon
<1>2. SHELL \in Slots \ {i}
  BY ShellSlot, Zenon DEF ShellInv, ShellAlive
<1>3. QED BY <1>1, <1>2, ShellUntouched, Zenon

\* report_finished_apps.
LEMMA ReportStep ==
  ASSUME Contract, Scheduled, PipesOK, ShellInv, NEW id, ReportFinished(id)
  PROVE  PipesOK' /\ ShellInv'
<1>1. call' = call /\ shell' = shell
  BY Zenon DEF ReportFinished
<1>2. \/ ReapTerminated(id) /\ DropReaped
      \/ UNCHANGED <<vars, fds, pipes>>
  BY Zenon DEF ReportFinished
<1>3. CASE ReapTerminated(id) /\ DropReaped
  <2>1. PICK i \in SlotsOf(tasks, id) : tasks[i].state = "Terminated" /\ tasks' = RemoveTask(tasks, i)
    BY <1>3, Zenon DEF ReapTerminated
  <2>2. i \in Slots
    BY Zenon DEF SlotsOf
  <2>3. QED BY <1>1, <1>3, <2>1, <2>2, ReapedBesides, Zenon
<1>4. CASE UNCHANGED <<vars, fds, pipes>>
  <2>1. PipesOK'
    BY <1>1, <1>4, QuietStep, Zenon
  <2>2. ShellInv'
    BY <1>1, <1>4, ShellUntouched, Zenon DEF vars, sched
  <2>3. QED BY <2>1, <2>2, Zenon
<1>5. QED BY <1>2, <1>3, <1>4, Zenon

\* kill.
LEMMA KillAppStep ==
  ASSUME Scheduled, PipesOK, ShellInv, NEW id, NEW code \in ExitCodes, KillApp(id, code)
  PROVE  PipesOK' /\ ShellInv'
<1>1. ShellRuns /\ TerminateTask(id, code) /\ UNCHANGED <<fds, pipes, call, shell>>
  BY Zenon DEF KillApp
<1>2. PICK i \in Slots \ {current} : Evolves(tasks, tasks', {}, {i})
  BY <1>1, TerminateEvolves, Zenon
<1>3. SHELL \notin {i}
  BY <1>1, <1>2, Zenon DEF ShellRuns
<1>4. QED BY <1>1, <1>2, <1>3, EvolvingStep, ShellWaits

-----------------------------------------------------------------------------
(***************************************************************************)
(* Every step.                                                             *)
(***************************************************************************)
PipesInv == Scheduled /\ PipesOK /\ ShellInv

\* What a program does to its own table leaves the shell's alone.
LEMMA MineNotShells ==
  ASSUME PipesOK, ShellInv, UserTaskRuns, NEW s, SetMyTable(s),
         NEW B, NEW K, Evolves(tasks, tasks', B, K), SHELL \notin K, shell' = shell
  PROVE  ShellInv'
<1>1. current # SHELL /\ SHELL \in Slots
  BY NotTheShell, ShellSlot, Zenon
<1>2. fds'[SHELL] = fds[SHELL]
  BY <1>1, Zenon DEF SetMyTable, PipesOK, DescriptorsOK
<1>3. QED BY <1>2, ShellWaits, Zenon

\* Reads and writes.
LEMMA TransferStep ==
  ASSUME Contract, PipesInv, NEW fd \in Named, NEW count \in Counts,
         FdRead(fd, count) \/ FdWrite(fd, count)
  PROVE  PipesOK' /\ ShellInv'
<1>1. Scheduled /\ PipesOK /\ ShellInv
  BY Zenon DEF PipesInv
<1>2. PipesOK'
  BY <1>1, FdReadStep, FdWriteStep, Zenon
<1>3. shell' = shell /\ fds' = fds /\ current # NONE
  BY Zenon DEF FdRead, FdWrite, Inside, UserTaskRuns, TaskRuns
<1>4. \/ WakeAllBlockedTasks
      \/ BlockNow
      \/ UNCHANGED vars
  BY Zenon DEF FdRead, FdWrite, BlockIn
<1>5. CASE WakeAllBlockedTasks
  BY <1>1, <1>2, <1>3, <1>5, WakeAllEvolves, ShellWaits, Zenon
<1>6. CASE BlockNow
  <2>1. Evolves(tasks, tasks', {current}, {})
    BY <1>1, <1>3, <1>6, BlockEvolves, Zenon DEF BlockNow
  <2>2. QED BY <1>1, <1>2, <1>3, <2>1, ShellWaits, Zenon
<1>7. CASE UNCHANGED vars
  BY <1>1, <1>2, <1>3, <1>7, ShellUntouched, Zenon DEF vars, sched
<1>8. QED BY <1>4, <1>5, <1>6, <1>7, Zenon

\* pipe, close and dup2.
LEMMA DescriptorStep ==
  ASSUME Contract, PipesInv,
         \/ SysPipe
         \/ \E fd \in Named : SysClose(fd)
         \/ \E d \in Dups : SysDup2(d[1], d[2])
  PROVE  PipesOK' /\ ShellInv'
<1>1. Scheduled /\ PipesOK /\ ShellInv
  BY Zenon DEF PipesInv
<1>2. UserTaskRuns /\ current # NONE /\ shell' = shell /\ call' = call
  BY Zenon DEF SysPipe, SysClose, SysDup2, ProgramRuns, UserTaskRuns, TaskRuns
<1>3. \E s : SetMyTable(s)
  BY Zenon DEF SysPipe, SysClose, SysDup2, CreatePipe, CloseCurrentFd
<1>4. WakeAllBlockedTasks \/ UNCHANGED vars
  BY Zenon DEF SysPipe, SysClose, SysDup2, CloseCurrentFd
<1>5. Evolves(tasks, tasks', {}, {})
  <2>1. CASE WakeAllBlockedTasks
    BY <1>1, <2>1, WakeAllEvolves, Zenon
  <2>2. CASE UNCHANGED vars
    BY <1>1, <1>2, <2>2, Runner, EvolvesNot, Zenon DEF vars, sched
  <2>3. QED BY <1>4, <2>1, <2>2, Zenon
<1>6. ShellInv'
  BY <1>1, <1>2, <1>3, <1>5, MineNotShells, Zenon
<1>7. CASE SysPipe
  <2>1. PipesOK'
    BY <1>1, <1>2, <1>7, CreatePipeStep, Zenon DEF SysPipe
  <2>2. QED BY <1>6, <2>1, Zenon
<1>8. CASE \E fd \in Named : SysClose(fd)
  <2>1. PipesOK'
    BY <1>1, <1>8, CloseStep, Zenon DEF SysClose
  <2>2. QED BY <1>6, <2>1, Zenon
<1>9. CASE \E d \in Dups : SysDup2(d[1], d[2])
  <2>1. PipesOK'
    BY <1>1, <1>9, DupStep, Zenon
  <2>2. QED BY <1>6, <2>1, Zenon
<1>10. QED BY <1>7, <1>8, <1>9, Zenon

\* The spawn call.
LEMMA SysSpawnStep ==
  ASSUME Contract, PipesInv, SysSpawn
  PROVE  PipesOK' /\ ShellInv'
<1>1. Scheduled /\ PipesOK /\ ShellInv
  BY Zenon DEF PipesInv
<1>2. current # NONE /\ SpawnWith(<<>>, <<>>) /\ shell' = shell
  BY Zenon DEF SysSpawn, ProgramRuns, UserTaskRuns, TaskRuns
<1>3. <<>> \in Mappings /\ <<>> \in Seq(Fds)
  BY DEF Mappings
<1>4. PipesOK'
  BY <1>1, <1>2, <1>3, SpawnStep, Zenon
<1>5. tasks'[SHELL] = tasks[SHELL] /\ fds'[SHELL] = fds[SHELL]
  BY <1>1, <1>2, SpawnBesides, Zenon DEF PipesOK, ShellInv
<1>6. QED BY <1>1, <1>2, <1>4, <1>5, ShellUntouched, Zenon

\* Exits, keys, ticks and yields.
LEMMA SchedulingStep ==
  ASSUME Contract, PipesInv,
         \/ \E code \in ExitCodes : SysExit(code) \/ Interrupt(code)
         \/ SysYield \/ Key \/ Tick
  PROVE  PipesOK' /\ ShellInv'
<1>1. Scheduled /\ PipesOK /\ ShellInv
  BY Zenon DEF PipesInv
<1>2. UNCHANGED <<fds, pipes, call, shell>>
  BY Zenon DEF SysExit, Interrupt, SysYield, Key, Tick
<1>3. ASSUME NEW K, Evolves(tasks, tasks', {}, K), SHELL \notin K
      PROVE  PipesOK' /\ ShellInv'
  BY <1>1, <1>2, <1>3, EvolvingStep, ShellWaits
<1>4. ASSUME NEW code \in ExitCodes, SysExit(code) PROVE PipesOK' /\ ShellInv'
  <2>1. ExitCurrent(code) /\ UserTaskRuns
    BY <1>4, Zenon DEF SysExit, ProgramRuns
  <2>2. Evolves(tasks, tasks', {}, {current})
    BY <1>1, <2>1, ExitEvolves, Zenon
  <2>3. SHELL \notin {current}
    BY <1>1, <2>1, NotTheShell, Zenon
  <2>4. QED BY <1>3, <2>2, <2>3, Zenon
<1>5. ASSUME NEW code \in ExitCodes, Interrupt(code) PROVE PipesOK' /\ ShellInv'
  <2>1. ExitCurrentGroup(code) /\ UserTaskRuns
    BY <1>5, Zenon DEF Interrupt, ProgramRuns
  <2>2. Evolves(tasks, tasks', {}, Siblings(tasks, current) \cup {current})
    BY <1>1, <2>1, ExitGroupEvolves, Zenon
  <2>3. SHELL \notin {current}
    BY <1>1, <2>1, NotTheShell, Zenon
  <2>4. SHELL \notin Siblings(tasks, current)
    BY <1>1, Zenon DEF Siblings, ShellInv, ShellAlive
  <2>5. SHELL \notin Siblings(tasks, current) \cup {current}
    BY <2>3, <2>4, Zenon
  <2>6. QED BY <1>3, <2>2, <2>5, Zenon
<1>6. ASSUME SysYield PROVE PipesOK' /\ ShellInv'
  BY <1>1, <1>3, <1>6, YieldEvolves, Zenon DEF SysYield
<1>7. ASSUME Key PROVE PipesOK' /\ ShellInv'
  BY <1>1, <1>3, <1>7, WakeAllEvolves, Zenon DEF Key
<1>8. ASSUME Tick PROVE PipesOK' /\ ShellInv'
  BY <1>1, <1>3, <1>8, TickEvolves, Zenon DEF Tick
<1>9. QED BY <1>4, <1>5, <1>6, <1>7, <1>8, Zenon

\* The wait call.
LEMMA SysWaitStep ==
  ASSUME Contract, PipesInv, NEW child \in TaskIds \cup {ANY}, SysWait(child)
  PROVE  PipesOK' /\ ShellInv'
<1>1. Scheduled /\ PipesOK /\ ShellInv
  BY Zenon DEF PipesInv
<1>2. WaitForChild(child) /\ DropReaped /\ call' = call /\ shell' = shell /\ call[current] = NoCall
  BY Zenon DEF SysWait
<1>3. \/ \E i \in Slots : tasks[i].state = "Terminated" /\ tasks' = RemoveTask(tasks, i)
      \/ Evolves(tasks, tasks', {current}, {})
  BY <1>1, <1>2, WaitEvolves, Zenon
<1>4. CASE \E i \in Slots : tasks[i].state = "Terminated" /\ tasks' = RemoveTask(tasks, i)
  BY <1>1, <1>2, <1>4, ReapedBesides, Zenon
<1>5. CASE Evolves(tasks, tasks', {current}, {})
  <2>1. UNCHANGED <<fds, pipes, call>>
    BY <1>2, <1>5, NothingReaped, Zenon
  <2>2. PipesOK'
    BY <1>1, <1>2, <1>5, <2>1, EvolvingStep
  <2>3. ShellInv'
    BY <1>1, <1>2, <1>5, <2>1, ShellWaits, Zenon
  <2>4. QED BY <2>2, <2>3, Zenon
<1>6. QED BY <1>3, <1>4, <1>5, Zenon

\* The launch of an app or a pipeline.
LEMMA LaunchStep ==
  ASSUME Contract, PipesInv, NEW redirects \in Redirects,
         LaunchApp(redirects) \/ LaunchPipeline(redirects)
  PROVE  PipesOK' /\ ShellInv'
<1>1. Scheduled /\ PipesOK /\ ShellInv
  BY Zenon DEF PipesInv
<1>2. CASE LaunchApp(redirects)
  BY <1>1, <1>2, LaunchAppStep, QuietStep, Zenon DEF LaunchApp
<1>3. CASE LaunchPipeline(redirects)
  <2>1. ShellRuns /\ CreatePipe /\ UNCHANGED <<vars, call>>
    BY <1>3, Zenon DEF LaunchPipeline
  <2>2. current # NONE
    BY <1>1, <2>1, ShellAtWork, Zenon
  <2>3. QED BY <1>1, <1>3, <2>1, <2>2, LaunchPipelineStep, CreatePipeStep, Zenon
<1>4. QED BY <1>2, <1>3, Zenon

\* Every step of Pipelines is a step of Tasking.
LEMMA IsTaskingStep ==
  ASSUME [PipesNext]_pvars
  PROVE  [Next]_vars
<1>1. ASSUME NEW fd \in Named, NEW count \in Counts, FdRead(fd, count) \/ FdWrite(fd, count)
      PROVE  [Next]_vars
  BY <1>1, Zenon DEF FdRead, FdWrite, BlockIn, Next
<1>2. ASSUME SysPipe \/ (\E fd \in Named : SysClose(fd)) \/ (\E d \in Dups : SysDup2(d[1], d[2]))
      PROVE  [Next]_vars
  BY <1>2, Zenon DEF SysPipe, SysClose, SysDup2, CloseCurrentFd, Next
<1>3. ASSUME NEW mappings, NEW closes, SpawnWith(mappings, closes) PROVE [Next]_vars
  BY <1>3, Zenon DEF SpawnWith, Next
<1>4. ASSUME SysSpawn \/ SpawnApp \/ SpawnLeft \/ SpawnRight PROVE [Next]_vars
  BY <1>3, <1>4, Zenon DEF SysSpawn, SpawnApp, SpawnLeft, SpawnRight, Start
<1>5. ASSUME NEW code \in ExitCodes, SysExit(code) \/ Interrupt(code) PROVE [Next]_vars
  BY <1>5, Zenon DEF SysExit, Interrupt, Next
<1>6. ASSUME NEW child \in TaskIds \cup {ANY}, SysWait(child) PROVE [Next]_vars
  BY <1>6, Zenon DEF SysWait, Next
<1>7. ASSUME SysYield \/ Key \/ Tick PROVE [Next]_vars
  BY <1>7, Zenon DEF SysYield, Key, Tick, Next
<1>8. ASSUME NEW redirects, LaunchApp(redirects) \/ LaunchPipeline(redirects) PROVE [Next]_vars
  BY <1>8, Zenon DEF LaunchApp, LaunchPipeline
<1>9. ASSUME OpenInput \/ OpenOutput PROVE [Next]_vars
  BY <1>9, Zenon DEF OpenInput, OpenOutput
<1>10. ASSUME CloseNext PROVE [Next]_vars
  BY <1>10, Zenon DEF CloseNext, CloseCurrentFd, Next
<1>11. ASSUME NEW id \in TaskIds, ReportFinished(id) PROVE [Next]_vars
  BY <1>11, Zenon DEF ReportFinished, Next
<1>12. ASSUME NEW id \in TaskIds, NEW code \in ExitCodes, KillApp(id, code) PROVE [Next]_vars
  BY <1>12, Zenon DEF KillApp, Next
<1>13. ASSUME UNCHANGED pvars PROVE [Next]_vars
  BY <1>13, Zenon DEF pvars
<1>14. QED
  BY <1>1, <1>2, <1>4, <1>5, <1>6, <1>7, <1>8, <1>9, <1>10, <1>11, <1>12, <1>13, Zenon DEF PipesNext

\* Every step preserves what the pipes and the shell rely on.
LEMMA PipesStep ==
  ASSUME Contract, PipesInv, [PipesNext]_pvars
  PROVE  PipesOK' /\ ShellInv'
<1>1. Scheduled /\ PipesOK /\ ShellInv
  BY Zenon DEF PipesInv
<1>2. ASSUME UNCHANGED pvars PROVE PipesOK' /\ ShellInv'
  <2>1. UNCHANGED <<vars, fds, pipes, call>> /\ tasks' = tasks /\ shell' = shell
    BY <1>2, Zenon DEF pvars, vars, sched
  <2>2. QED BY <1>1, <2>1, QuietStep, ShellUntouched, Zenon
<1>3. ASSUME \E fd \in Named, count \in Counts : FdRead(fd, count) \/ FdWrite(fd, count)
      PROVE  PipesOK' /\ ShellInv'
  BY <1>3, TransferStep, Zenon
<1>4. ASSUME \/ SysPipe
             \/ \E fd \in Named : SysClose(fd)
             \/ \E d \in Dups : SysDup2(d[1], d[2])
      PROVE  PipesOK' /\ ShellInv'
  BY <1>4, DescriptorStep, Zenon
<1>5. ASSUME \/ \E code \in ExitCodes : SysExit(code) \/ Interrupt(code)
             \/ SysYield \/ Key \/ Tick
      PROVE  PipesOK' /\ ShellInv'
  BY <1>5, SchedulingStep, Zenon
<1>6. ASSUME SysSpawn PROVE PipesOK' /\ ShellInv'
  BY <1>6, SysSpawnStep, Zenon
<1>7. ASSUME \E child \in TaskIds \cup {ANY} : SysWait(child) PROVE PipesOK' /\ ShellInv'
  BY <1>7, SysWaitStep, Zenon
<1>8. ASSUME \E redirects \in Redirects : LaunchApp(redirects) \/ LaunchPipeline(redirects)
      PROVE  PipesOK' /\ ShellInv'
  BY <1>8, LaunchStep, Zenon
<1>9. ASSUME OpenInput \/ OpenOutput PROVE PipesOK' /\ ShellInv'
  BY <1>1, <1>9, OpenInputStep, OpenOutputStep, Zenon
<1>10. ASSUME SpawnApp \/ SpawnLeft \/ SpawnRight PROVE PipesOK' /\ ShellInv'
  BY <1>1, <1>10, SpawnAppStep, SpawnLeftStep, SpawnRightStep, Zenon
<1>11. ASSUME CloseNext PROVE PipesOK' /\ ShellInv'
  BY <1>1, <1>11, CloseNextStep, Zenon
<1>12. ASSUME \E id \in TaskIds : ReportFinished(id) PROVE PipesOK' /\ ShellInv'
  BY <1>1, <1>12, ReportStep, Zenon
<1>13. ASSUME \E id \in TaskIds, code \in ExitCodes : KillApp(id, code) PROVE PipesOK' /\ ShellInv'
  BY <1>1, <1>13, KillAppStep, Zenon
<1>14. PipesNext \/ UNCHANGED pvars
  OBVIOUS
<1>15. QED
  BY <1>2, <1>3, <1>4, <1>5, <1>6, <1>7, <1>8, <1>9, <1>10, <1>11, <1>12, <1>13, <1>14, Zenon
     DEF PipesNext

-----------------------------------------------------------------------------
(***************************************************************************)
(* The first state.                                                        *)
(***************************************************************************)
\* The first tasks: the shell runs, the idle task is ready.
LEMMA FirstTasks ==
  ASSUME PipesInit
  PROVE  /\ SHELL \in Slots /\ IDLE \in Slots /\ SHELL # IDLE /\ NONE \notin Slots
         /\ TypeOK /\ RunningIsCurrent
         /\ \A i \in Slots :
              /\ i = SHELL => /\ tasks[i].id = 1 /\ tasks[i].parent = NONE /\ tasks[i].state = "Running"
                             /\ ~tasks[i].is_idle /\ ~tasks[i].user
              /\ i = IDLE => tasks[i].id = 2 /\ tasks[i].parent = NONE /\ tasks[i].state = "Ready" /\ tasks[i].is_idle
              /\ i \notin {SHELL, IDLE} => tasks[i].id = 0 /\ tasks[i].state = "Empty" /\ ~tasks[i].is_idle
<1> DEFINE sh == [NewTask(1, NONE, FALSE, FALSE) EXCEPT !.state = "Running"]
           id == NewTask(2, NONE, TRUE, FALSE)
<1>1. /\ SHELL \in Slots /\ IDLE \in Slots /\ SHELL # IDLE /\ NONE \notin Slots
      /\ 1 \in TaskIds /\ 2 \in TaskIds /\ 3 \in TaskIds
  BY SchedulerAssumption, PipelinesAssumption DEF SHELL, IDLE, Slots, NONE, TaskIds
<1>2. /\ NewTask(1, NONE, FALSE, FALSE) \in Task /\ id \in Task /\ EmptySlot \in Task
      /\ "Running" \in TaskState \cup {"Empty"}
  BY <1>1, Zenon DEF NewTask, Task, TaskState, EmptySlot
<1>3. sh \in Task /\ id \in Task /\ EmptySlot \in Task
  <2>1. \A t \in Task : [t EXCEPT !.state = "Running"] \in Task
    BY <1>2, Zenon DEF Task
  <2>2. QED BY <1>2, <2>1, Zenon
<1>4. /\ tasks \in [Slots -> Task]
      /\ tasks[SHELL] = sh /\ tasks[IDLE] = id
      /\ \A i \in Slots \ {SHELL, IDLE} : tasks[i] = EmptySlot
  <2>1. tasks = [i \in Slots |-> CASE i = SHELL -> sh [] i = IDLE -> id [] OTHER -> EmptySlot]
    BY Zenon DEF PipesInit
  <2> HIDE DEF sh, id
  <2>2. \A i \in Slots : tasks[i] = CASE i = SHELL -> sh [] i = IDLE -> id [] OTHER -> EmptySlot
    BY <2>1, Zenon
  <2>3. tasks[SHELL] = sh /\ tasks[IDLE] = id
    BY <1>1, <2>2, Zenon
  <2>4. ASSUME NEW i \in Slots \ {SHELL, IDLE} PROVE tasks[i] = EmptySlot
    BY <2>2, Zenon
  <2>5. \A i \in Slots : tasks[i] \in Task
    BY <1>3, <2>3, <2>4, Zenon
  <2>6. QED BY <2>1, <2>3, <2>4, <2>5, Zenon
<1>5. /\ sh.id = 1 /\ sh.parent = NONE /\ sh.state = "Running" /\ ~sh.is_idle /\ ~sh.user
      /\ id.id = 2 /\ id.parent = NONE /\ id.state = "Ready" /\ id.is_idle
      /\ EmptySlot.id = 0 /\ EmptySlot.state = "Empty" /\ ~EmptySlot.is_idle
  BY Zenon DEF NewTask, EmptySlot
<1> HIDE DEF sh, id
<1>6. /\ current = SHELL /\ next_id = 3 /\ idle_index = IDLE /\ ticks = 0
      /\ waiting = [i \in Slots |-> NONE] /\ idle_pc = "check" /\ boot = "switched"
  BY Zenon DEF PipesInit
<1>7. ticks \in Ticks
  BY <1>6, SchedulerAssumption DEF Ticks, TICKS
<1>8. TypeOK
  BY <1>1, <1>4, <1>6, <1>7, Zenon DEF TypeOK
<1>9. RunningIsCurrent
  BY <1>1, <1>4, <1>5, <1>6, Zenon DEF RunningIsCurrent
<1>10. QED BY <1>1, <1>4, <1>5, <1>8, <1>9, Zenon

\* The first state: nobody holds a pipe and nobody is blocked.
LEMMA PipesStart ==
  ASSUME Contract, PipesInit
  PROVE  PipesOK /\ ShellInv
<1>1. /\ SHELL \in Slots
      /\ \A i \in Slots :
           /\ i = SHELL => tasks[i].parent = NONE /\ tasks[i].state = "Running" /\ ~tasks[i].user
           /\ i \in {SHELL, IDLE} => tasks[i].state # "Empty"
           /\ i \notin {SHELL, IDLE} => tasks[i].state = "Empty"
  BY FirstTasks, Zenon
<1>2. /\ fds = [i \in Slots |-> IF i \in {SHELL, IDLE} THEN InitialTable ELSE EmptyTable]
       /\ pipes = [p \in Pipes |-> NoPipe] /\ call = [i \in Slots |-> NoCall]
       /\ shell = AtPrompt
  BY Zenon DEF PipesInit
<1>3. /\ InitialTable \in FdTable /\ EmptyTable \in FdTable /\ Standard(InitialTable)
       /\ \A f \in Fds : /\ InitialTable[f].kind \notin {"PipeRead", "PipeWrite"}
                         /\ EmptyTable[f].kind \notin {"PipeRead", "PipeWrite"}
  <2>1. STDIN \in Fds /\ STDOUT \in Fds /\ STDERR \in Fds
    BY FileDescriptorsAssumption DEF STDIN, STDOUT, STDERR, Fds
  <2>2. /\ Closed \in FileDescriptor /\ Stdin \in FileDescriptor /\ Console \in FileDescriptor
    BY Zenon DEF FileDescriptor
  <2>3. Closed.kind = "Closed" /\ Stdin.kind = "Stdin" /\ Console.kind = "Console"
    BY Zenon DEF Closed, Stdin, Console
  <2>4. EmptyTable \in FdTable /\ \A f \in Fds : EmptyTable[f] = Closed
    BY <2>2, Zenon DEF EmptyTable, FdTable
  <2>5. /\ InitialTable \in FdTable
        /\ InitialTable[STDIN] = Stdin /\ InitialTable[STDOUT] = Console
        /\ \A f \in Fds : InitialTable[f] \in {Closed, Stdin, Console}
    BY <2>1, <2>2, <2>4 DEF InitialTable, FdTable, STDIN, STDOUT, STDERR
  <2>6. QED BY <2>3, <2>4, <2>5, Zenon DEF Standard
<1>4. /\ fds \in [Slots -> FdTable]
       /\ \A i \in Slots, f \in Fds : fds[i][f].kind \notin {"PipeRead", "PipeWrite"}
  BY <1>2, <1>3, Zenon
<1>5. DescriptorsOK
  <2>1. NoPipe \in Pipe
    BY FileDescriptorsAssumption DEF NoPipe, Pipe
  <2>2. pipes \in PipeStates
    BY <1>2, <2>1, Zenon DEF PipeStates
  <2>3. \A i \in Slots : tasks[i].state = "Empty" => fds[i] = EmptyTable
    BY <1>1, <1>2, Zenon
  <2>4. QED BY <1>4, <2>2, <2>3, Zenon DEF DescriptorsOK
<1>6. CountsExact
  <2>1. ASSUME NEW p \in Pipes
        PROVE  HoldersOf(fds, ReadEnd(p)) = 0 /\ HoldersOf(fds, WriteEnd(p)) = 0
    <3>1. DOMAIN fds = Slots
      BY <1>4, Zenon
    <3>2. /\ {h \in (DOMAIN fds) \X Fds : fds[h[1]][h[2]] = ReadEnd(p)} = {}
          /\ {h \in (DOMAIN fds) \X Fds : fds[h[1]][h[2]] = WriteEnd(p)} = {}
      BY <1>4, <3>1 DEF Contract, DescriptorContract, EndsDiffer
    <3>3. Cardinality({}) = 0
      BY Zenon DEF Contract, DescriptorContract, CountsAreNumbers
    <3>4. QED BY <3>2, <3>3, Zenon DEF HoldersOf
  <2>2. \A p \in Pipes : pipes[p].readers = 0 /\ pipes[p].writers = 0
    BY <1>2, Zenon DEF NoPipe
  <2>3. QED BY <2>1, <2>2, Zenon DEF CountsExact
<1>7. WaitsOK
  <2>1. \A i \in Slots : call[i] = NoCall /\ NoCall.op = "none"
    BY <1>2, Zenon DEF NoCall
  <2>2. QED BY <1>2, <2>1, Zenon DEF WaitsOK, WaitOK
<1>8. ShellInv
  <2>1. ShellAlive
    BY <1>1, Zenon DEF ShellAlive
  <2>2. fds[SHELL] = InitialTable
    BY <1>1, <1>2, Zenon
  <2>3. PipeFds(InitialTable) = {}
    BY <1>3, Zenon DEF PipeFds
  <2>4. AtPrompt.pc = "prompt"
    BY Zenon DEF AtPrompt
  <2>5. ShellOK(AtPrompt, InitialTable)
    BY <1>3, <2>3, <2>4, PromptType, Zenon DEF ShellOK
  <2>6. QED BY <1>2, <2>1, <2>2, <2>5, Zenon DEF ShellInv
<1>9. QED BY <1>5, <1>6, <1>7, <1>8, Zenon DEF PipesOK

-----------------------------------------------------------------------------
(***************************************************************************)
(* The two sides of a pipeline.                                            *)
(***************************************************************************)
SidesMapped(maps, a, b) ==
  /\ Apart(maps)
  /\ \A g \in Fds : IsSource(maps, g) <=> g \in {a, b}
  /\ \A g \in Fds : IsTarget(maps, g) => g \in {STDIN, STDOUT}
  /\ IsTarget(maps, STDIN) <=> a # NONE
  /\ IsTarget(maps, STDOUT) <=> b # NONE
  /\ \A k \in 1..Len(maps) : /\ maps[k].target = STDIN => maps[k].source = a
                             /\ maps[k].target = STDOUT => maps[k].source = b

\* Redirections to the standard descriptors, from others.
LEMMA SideMappings ==
  ASSUME NEW a \in (Fds \cup {NONE}) \ {STDIN, STDOUT},
         NEW b \in (Fds \cup {NONE}) \ {STDIN, STDOUT}
  PROVE  SidesMapped(Mapping(a, STDIN) \o Mapping(b, STDOUT), a, b)
<1> DEFINE x == [source |-> a, target |-> STDIN]
           y == [source |-> b, target |-> STDOUT]
           maps == Mapping(a, STDIN) \o Mapping(b, STDOUT)
<1> SUFFICES SidesMapped(maps, a, b)
  BY Zenon
<1>1. /\ x.source = a /\ x.target = STDIN /\ y.source = b /\ y.target = STDOUT
      /\ STDIN # STDOUT /\ NONE \notin Fds
  BY ShellSlot DEF STDIN, STDOUT
<1> HIDE DEF x, y
<1>2. CASE a = NONE /\ b = NONE
  <2>1. maps = <<>>
    BY <1>2 DEF Mapping
  <2>2. Len(maps) = 0
    BY <2>1
  <2> HIDE DEF maps
  <2>3. QED BY <1>1, <1>2, <2>2 DEF SidesMapped, Apart, IsSource, IsTarget
<1>3. CASE a # NONE /\ b = NONE
  <2>1. maps = <<x>> \o <<>>
    BY <1>3, Zenon DEF Mapping, x
  <2>2. Len(maps) = 1 /\ maps[1] = x
    BY <2>1
  <2> HIDE DEF maps
  <2>3. QED BY <1>1, <1>3, <2>2 DEF SidesMapped, Apart, IsSource, IsTarget
<1>4. CASE a = NONE /\ b # NONE
  <2>1. maps = <<>> \o <<y>>
    BY <1>4, Zenon DEF Mapping, y
  <2>2. Len(maps) = 1 /\ maps[1] = y
    BY <2>1
  <2> HIDE DEF maps
  <2>3. QED BY <1>1, <1>4, <2>2 DEF SidesMapped, Apart, IsSource, IsTarget
<1>5. CASE a # NONE /\ b # NONE
  <2>1. maps = <<x>> \o <<y>>
    BY <1>5, Zenon DEF Mapping, x, y
  <2>2. Len(maps) = 2 /\ maps[1] = x /\ maps[2] = y
    BY <2>1
  <2> HIDE DEF maps
  <2>3. QED BY <1>1, <1>5, <2>2 DEF SidesMapped, Apart, IsSource, IsTarget
<1>6. QED BY <1>2, <1>3, <1>4, <1>5, Zenon

\* What a side of a pipeline starts with.
LEMMA SideTable ==
  ASSUME Contract, NEW P \in PipeStates, NEW t \in FdTable, NEW closes \in Seq(Fds),
         NEW a \in (Fds \cup {NONE}) \ {STDIN, STDOUT}, NEW b \in (Fds \cup {NONE}) \ {STDIN, STDOUT},
         ~Lists(closes, STDIN), ~Lists(closes, STDOUT)
  PROVE  LET c == ChildTable(P, t, Mapping(a, STDIN) \o Mapping(b, STDOUT), closes).table
         IN  /\ c[STDIN] = IF a = NONE THEN t[STDIN] ELSE t[a]
             /\ c[STDOUT] = IF b = NONE THEN t[STDOUT] ELSE t[b]
             /\ \A g \in Fds \ {STDIN, STDOUT} :
                  c[g] = IF Lists(closes, g) \/ g \in {a, b} THEN Closed ELSE t[g]
<1> DEFINE maps == Mapping(a, STDIN) \o Mapping(b, STDOUT)
           c == ChildTable(P, t, maps, closes).table
<1>1. maps \in Mappings
  BY MappingType, Zenon
<1>1m. SidesMapped(maps, a, b)
  BY SideMappings, Zenon
<1> HIDE DEF maps
<1>2. /\ Apart(maps)
      /\ \A g \in Fds : IsSource(maps, g) <=> g \in {a, b}
      /\ \A g \in Fds : IsTarget(maps, g) => g \in {STDIN, STDOUT}
      /\ IsTarget(maps, STDIN) <=> a # NONE
      /\ IsTarget(maps, STDOUT) <=> b # NONE
      /\ \A k \in 1..Len(maps) : /\ maps[k].target = STDIN => maps[k].source = a
                                 /\ maps[k].target = STDOUT => maps[k].source = b
  BY <1>1m, Zenon DEF SidesMapped
<1>3. /\ \A g \in Fds : Lists(closes, g) \/ IsSource(maps, g) => c[g] = Closed
      /\ \A k \in 1..Len(maps) : ~Lists(closes, maps[k].target) => c[maps[k].target] = t[maps[k].source]
      /\ \A g \in Fds : /\ ~Lists(closes, g)
                        /\ ~IsSource(maps, g)
                        /\ ~IsTarget(maps, g)
                        => c[g] = t[g]
  BY <1>1, <1>2 DEF Contract, DescriptorContract, ChildrenAccount, MappedChild
<1> HIDE DEF c
<1>4. STDIN \in Fds /\ STDOUT \in Fds
  BY FileDescriptorsAssumption DEF STDIN, STDOUT, Fds
<1>5. c[STDIN] = IF a = NONE THEN t[STDIN] ELSE t[a]
  <2>1. CASE a = NONE
    BY <1>2, <1>3, <1>4, <2>1, Zenon
  <2>2. CASE a # NONE
    <3>1. PICK k \in 1..Len(maps) : maps[k].target = STDIN
      BY <1>2, <2>2, Zenon DEF IsTarget
    <3>2. QED BY <1>2, <1>3, <2>2, <3>1, Zenon
  <2>3. QED BY <2>1, <2>2, Zenon
<1>6. c[STDOUT] = IF b = NONE THEN t[STDOUT] ELSE t[b]
  <2>1. CASE b = NONE
    BY <1>2, <1>3, <1>4, <2>1, Zenon
  <2>2. CASE b # NONE
    <3>1. PICK k \in 1..Len(maps) : maps[k].target = STDOUT
      BY <1>2, <2>2, Zenon DEF IsTarget
    <3>2. QED BY <1>2, <1>3, <2>2, <3>1, Zenon
  <2>3. QED BY <2>1, <2>2, Zenon
<1>7. \A g \in Fds \ {STDIN, STDOUT} :
        c[g] = IF Lists(closes, g) \/ g \in {a, b} THEN Closed ELSE t[g]
  BY <1>2, <1>3, Zenon
<1>8. QED BY <1>5, <1>6, <1>7, Zenon DEF c, maps

\* The table the left side gets, and the one the right side gets.
LeftTable ==
  ChildTable(pipes, MyTable, Mapping(shell.input, STDIN) \o Mapping(shell.write, STDOUT),
             <<shell.read, IF shell.input = NONE THEN shell.write ELSE shell.input>>).table
RightTable ==
  ChildTable(pipes, MyTable, Mapping(shell.read, STDIN) \o Mapping(shell.output, STDOUT),
             <<shell.write>> \o Opened(shell.output)).table

\* The descriptors of a pipeline's launch.
LEMMA PipelineFds ==
  ASSUME PipesInv, ShellRuns, shell.job = "pipeline", shell.pc \in {"left", "right"}
  PROVE  /\ MyTable \in FdTable /\ pipes \in PipeStates
         /\ shell.read \in Fds \ {STDIN, STDOUT} /\ shell.write \in Fds \ {STDIN, STDOUT}
         /\ MyTable[shell.read].kind = "PipeRead" /\ MyTable[shell.write].kind = "PipeWrite"
         /\ PipeFds(MyTable) = {shell.read, shell.write}
         /\ shell.input \in (Fds \cup {NONE}) \ {STDIN, STDOUT}
         /\ shell.output \in (Fds \cup {NONE}) \ {STDIN, STDOUT}
         /\ shell.input # NONE => shell.input \notin PipeFds(MyTable)
         /\ shell.output # NONE => shell.output \notin PipeFds(MyTable)
         /\ STDIN \in Fds \ PipeFds(MyTable) /\ STDOUT \in Fds \ PipeFds(MyTable)
<1>1. /\ MyTable \in FdTable /\ ShellOK(shell, MyTable) /\ shell \in ShellStates /\ Standard(MyTable)
      /\ pipes \in PipeStates
  BY ShellAtWork, Zenon DEF PipesInv, PipesOK, DescriptorsOK
<1>2. LaunchEnds(shell, MyTable) /\ FileFd(shell.input, MyTable) /\ FileFd(shell.output, MyTable)
  BY <1>1, Zenon DEF ShellOK
<1>3. /\ shell.read \in Fds /\ shell.write \in Fds
      /\ MyTable[shell.read].kind = "PipeRead" /\ MyTable[shell.write].kind = "PipeWrite"
      /\ PipeFds(MyTable) = {shell.read, shell.write}
  BY <1>2, Zenon DEF LaunchEnds
<1>4. shell.input \in Fds \cup {NONE} /\ shell.output \in Fds \cup {NONE}
  BY <1>1, Zenon DEF ShellStates
<1>5. STDIN \in Fds /\ STDOUT \in Fds /\ STDIN # NONE /\ STDOUT # NONE
  BY FileDescriptorsAssumption, ShellSlot DEF STDIN, STDOUT, Fds
<1>6. STDIN \notin PipeFds(MyTable) /\ STDOUT \notin PipeFds(MyTable)
  BY <1>1, Zenon DEF Standard, PipeFds
<1>7. shell.input \notin {STDIN, STDOUT} /\ shell.output \notin {STDIN, STDOUT}
  BY <1>2, <1>5, Zenon DEF FileFd
<1>8. /\ shell.input # NONE => shell.input \notin PipeFds(MyTable)
      /\ shell.output # NONE => shell.output \notin PipeFds(MyTable)
  BY <1>2, Zenon DEF FileFd
<1>9. QED BY <1>1, <1>3, <1>4, <1>5, <1>6, <1>7, <1>8, Zenon

\* The left side has the write end as its standard output, and no other end.
LEMMA LeftEnds ==
  ASSUME Contract, PipesInv, ShellRuns, shell.job = "pipeline", shell.pc = "left"
  PROVE  PipeFds(LeftTable) = {STDOUT} /\ LeftTable[STDOUT].kind = "PipeWrite"
<1> DEFINE closes == <<shell.read, IF shell.input = NONE THEN shell.write ELSE shell.input>>
<1>1. /\ MyTable \in FdTable /\ pipes \in PipeStates
      /\ shell.read \in Fds \ {STDIN, STDOUT} /\ shell.write \in Fds \ {STDIN, STDOUT}
      /\ MyTable[shell.read].kind = "PipeRead" /\ MyTable[shell.write].kind = "PipeWrite"
      /\ PipeFds(MyTable) = {shell.read, shell.write}
      /\ shell.input \in (Fds \cup {NONE}) \ {STDIN, STDOUT}
      /\ shell.input # NONE => shell.input \notin PipeFds(MyTable)
      /\ STDIN \in Fds \ PipeFds(MyTable) /\ STDOUT \in Fds
  BY PipelineFds, Zenon
<1>2. Len(closes) = 2 /\ closes[1] = shell.read /\ closes \in Seq(Fds)
      /\ closes[2] \in {shell.write, shell.input} \ {NONE}
  BY <1>1, ShellSlot
<1>3. /\ ~Lists(closes, STDIN) /\ ~Lists(closes, STDOUT) /\ Lists(closes, shell.read)
  <2> HIDE DEF closes
  <2>1. QED BY <1>1, <1>2 DEF Lists
<1> HIDE DEF closes
<1>4. /\ LeftTable[STDIN] = IF shell.input = NONE THEN MyTable[STDIN] ELSE MyTable[shell.input]
      /\ LeftTable[STDOUT] = IF shell.write = NONE THEN MyTable[STDOUT] ELSE MyTable[shell.write]
      /\ \A g \in Fds \ {STDIN, STDOUT} :
           LeftTable[g] = IF Lists(closes, g) \/ g \in {shell.input, shell.write} THEN Closed ELSE MyTable[g]
  <2>1. shell.write \in (Fds \cup {NONE}) \ {STDIN, STDOUT}
    BY <1>1, Zenon
  <2>2. LeftTable = ChildTable(pipes, MyTable,
                               Mapping(shell.input, STDIN) \o Mapping(shell.write, STDOUT), closes).table
    BY Zenon DEF LeftTable, closes
  <2>3. QED BY <1>1, <1>2, <1>3, <2>1, <2>2, SideTable
<1>5. LeftTable[STDOUT].kind = "PipeWrite"
  BY <1>1, <1>4, ShellSlot, Zenon
<1>6. \A g \in Fds : g \in PipeFds(MyTable) <=> MyTable[g].kind \in {"PipeRead", "PipeWrite"}
  BY Zenon DEF PipeFds
<1>7. LeftTable[STDIN].kind \notin {"PipeRead", "PipeWrite"}
  BY <1>1, <1>4, <1>6, Zenon
<1>8. ASSUME NEW g \in Fds \ {STDIN, STDOUT} PROVE LeftTable[g].kind \notin {"PipeRead", "PipeWrite"}
  <2>1. Closed.kind \notin {"PipeRead", "PipeWrite"}
    BY Zenon DEF Closed
  <2>2. CASE g \in PipeFds(MyTable)
    <3>1. LeftTable[g] = Closed
      BY <1>1, <1>3, <1>4, <2>2, Zenon
    <3>2. QED BY <2>1, <3>1, Zenon
  <2>3. CASE g \notin PipeFds(MyTable)
    BY <1>4, <1>6, <2>1, <2>3, Zenon
  <2>4. QED BY <2>2, <2>3, Zenon
<1>9. PipeFds(LeftTable) = {STDOUT}
  BY <1>1, <1>5, <1>7, <1>8, Zenon DEF PipeFds
<1>10. QED BY <1>5, <1>9, Zenon

\* The right side has the read end as its standard input, and no other end.
LEMMA RightEnds ==
  ASSUME Contract, PipesInv, ShellRuns, shell.job = "pipeline", shell.pc = "right"
  PROVE  PipeFds(RightTable) = {STDIN} /\ RightTable[STDIN].kind = "PipeRead"
<1> DEFINE closes == <<shell.write>> \o Opened(shell.output)
<1>1. /\ MyTable \in FdTable /\ pipes \in PipeStates
      /\ shell.read \in Fds \ {STDIN, STDOUT} /\ shell.write \in Fds \ {STDIN, STDOUT}
      /\ MyTable[shell.read].kind = "PipeRead" /\ MyTable[shell.write].kind = "PipeWrite"
      /\ PipeFds(MyTable) = {shell.read, shell.write}
      /\ shell.output \in (Fds \cup {NONE}) \ {STDIN, STDOUT}
      /\ shell.output # NONE => shell.output \notin PipeFds(MyTable)
      /\ STDOUT \in Fds \ PipeFds(MyTable) /\ STDIN \in Fds
  BY PipelineFds, Zenon
<1>2. closes \in Seq(Fds) /\ \A g \in Fds : Lists(closes, g) <=> g = shell.write \/ g = shell.output
  <2> DEFINE one == <<shell.write>>
  <2>1. one \in Seq(Fds) /\ \A g \in Fds : Lists(one, g) <=> g = shell.write
    BY <1>1 DEF Lists
  <2>2. /\ Opened(shell.output) \in Seq(Fds)
        /\ \A g \in Fds : Lists(Opened(shell.output), g) <=> g = shell.output
    BY <1>1, ListsOpened, ShellSlot
  <2> HIDE DEF one
  <2>3. one \o Opened(shell.output) \in Seq(Fds)
    BY <2>1, <2>2
  <2>4. \A g \in Fds : Lists(one \o Opened(shell.output), g) <=> Lists(one, g) \/ Lists(Opened(shell.output), g)
    BY <2>1, <2>2, ListsBoth, Zenon
  <2>5. QED BY <2>1, <2>2, <2>3, <2>4, Zenon DEF one
<1>3. /\ ~Lists(closes, STDIN) /\ ~Lists(closes, STDOUT) /\ Lists(closes, shell.write)
  BY <1>1, <1>2, Zenon
<1> HIDE DEF closes
<1>4. /\ RightTable[STDIN] = IF shell.read = NONE THEN MyTable[STDIN] ELSE MyTable[shell.read]
      /\ RightTable[STDOUT] = IF shell.output = NONE THEN MyTable[STDOUT] ELSE MyTable[shell.output]
      /\ \A g \in Fds \ {STDIN, STDOUT} :
           RightTable[g] = IF Lists(closes, g) \/ g \in {shell.read, shell.output} THEN Closed ELSE MyTable[g]
  <2>1. shell.read \in (Fds \cup {NONE}) \ {STDIN, STDOUT}
    BY <1>1, Zenon
  <2>2. RightTable = ChildTable(pipes, MyTable,
                                Mapping(shell.read, STDIN) \o Mapping(shell.output, STDOUT), closes).table
    BY Zenon DEF RightTable, closes
  <2>3. QED BY <1>1, <1>2, <1>3, <2>1, <2>2, SideTable
<1>5. RightTable[STDIN].kind = "PipeRead"
  BY <1>1, <1>4, ShellSlot, Zenon
<1>6. \A g \in Fds : g \in PipeFds(MyTable) <=> MyTable[g].kind \in {"PipeRead", "PipeWrite"}
  BY Zenon DEF PipeFds
<1>7. RightTable[STDOUT].kind \notin {"PipeRead", "PipeWrite"}
  BY <1>1, <1>4, <1>6, Zenon
<1>8. ASSUME NEW g \in Fds \ {STDIN, STDOUT} PROVE RightTable[g].kind \notin {"PipeRead", "PipeWrite"}
  <2>1. Closed.kind \notin {"PipeRead", "PipeWrite"}
    BY Zenon DEF Closed
  <2>2. CASE g \in PipeFds(MyTable)
    <3>1. RightTable[g] = Closed
      BY <1>1, <1>3, <1>4, <2>2, Zenon
    <3>2. QED BY <2>1, <3>1, Zenon
  <2>3. CASE g \notin PipeFds(MyTable)
    BY <1>4, <1>6, <2>1, <2>3, Zenon
  <2>4. QED BY <2>2, <2>3, Zenon
<1>9. PipeFds(RightTable) = {STDIN}
  BY <1>1, <1>5, <1>7, <1>8, Zenon DEF PipeFds
<1>10. QED BY <1>5, <1>9, Zenon

\* While the shell starts a side, a slot is filled only by its spawn.
LEMMA SideStarted ==
  ASSUME Contract, PipesInv, [PipesNext]_pvars, ShellRuns, shell.job = "pipeline",
         shell.pc \in {"left", "right"},
         NEW i \in Slots, tasks[i].state = "Empty", tasks'[i].state = "Ready"
  PROVE  /\ shell.pc = "left" => fds'[i] = LeftTable
         /\ shell.pc = "right" => fds'[i] = RightTable
<1>1. Scheduled /\ PipesOK /\ ShellInv /\ current # NONE /\ fds \in [Slots -> FdTable]
  BY ShellAtWork, Zenon DEF PipesInv, PipesOK, DescriptorsOK
<1>2. ~UserTaskRuns
  BY <1>1, NotTheShell, Zenon DEF ShellRuns
<1>3. ASSUME NEW mappings, NEW closes, SpawnWith(mappings, closes)
      PROVE  fds'[i] = ChildTable(pipes, MyTable, mappings, closes).table
  <2> DEFINE slot == Least(EmptySlots(tasks))
             child == ChildTable(pipes, MyTable, mappings, closes)
  <2>1. SpawnUser /\ fds' = [fds EXCEPT ![slot] = child.table]
    BY <1>3, Zenon DEF SpawnWith
  <2>2. slot \in Slots /\ \A j \in Slots \ {slot} : tasks'[j] = tasks[j]
    BY <1>1, <2>1, SpawnedTask, Zenon
  <2> HIDE DEF slot, child
  <2>3. i = slot
    BY <2>2, Zenon
  <2>4. fds'[i] = child.table
    BY <1>1, <2>1, <2>3, Zenon
  <2>5. QED BY <2>4, Zenon DEF child
<1>4. ~UNCHANGED vars
  BY Zenon DEF vars, sched
<1>5. \A B, K : ~Evolves(tasks, tasks', B, K)
  BY Zenon DEF Evolves
<1>6. ASSUME NEW j \in Slots, tasks[j].state = "Terminated", tasks' = RemoveTask(tasks, j) PROVE FALSE
  <2>1. tasks \in TaskTables
    BY <1>1, Runner, Zenon
  <2>2. tasks'[j].state = "Empty" /\ \A k \in Slots \ {j} : tasks'[k] = tasks[k]
    BY <1>6, <2>1, RemovedTask, Zenon
  <2>3. QED BY <2>2, Zenon
<1>7. CASE UNCHANGED pvars
  BY <1>4, <1>7, Zenon DEF pvars
<1>8. ASSUME NEW fd, NEW count, FdRead(fd, count) \/ FdWrite(fd, count) PROVE FALSE
  BY <1>2, <1>8, Zenon DEF FdRead, FdWrite, Inside
<1>9. ASSUME ProgramRuns PROVE FALSE
  BY <1>2, <1>9, Zenon DEF ProgramRuns
<1>10. ASSUME NEW child, SysWait(child) PROVE FALSE
  <2>1. WaitForChild(child)
    BY <1>10, Zenon DEF SysWait
  <2>2. \/ \E j \in Slots : tasks[j].state = "Terminated" /\ tasks' = RemoveTask(tasks, j)
        \/ Evolves(tasks, tasks', {current}, {})
    BY <1>1, <2>1, WaitEvolves, Zenon
  <2>3. QED BY <1>5, <1>6, <2>2, Zenon
<1>11. ASSUME Tick PROVE FALSE
  BY <1>1, <1>5, <1>11, TickEvolves, Zenon DEF Tick
<1>12. ASSUME NEW redirects, LaunchApp(redirects) \/ LaunchPipeline(redirects) PROVE FALSE
  BY <1>12, Zenon DEF LaunchApp, LaunchPipeline
<1>13. ASSUME OpenInput \/ OpenOutput \/ SpawnApp \/ CloseNext PROVE FALSE
  BY <1>13, Zenon DEF OpenInput, OpenOutput, SpawnApp, CloseNext
<1>14. ASSUME NEW id, ReportFinished(id) \/ \E code \in ExitCodes : KillApp(id, code) PROVE FALSE
  BY <1>14, Zenon DEF ReportFinished, KillApp
<1>15. ASSUME SpawnLeft PROVE shell.pc = "left" /\ fds'[i] = LeftTable
  <2>1. shell.pc = "left"
    BY <1>15, Zenon DEF SpawnLeft
  <2>2. \/ SpawnWith(Mapping(shell.input, STDIN) \o Mapping(shell.write, STDOUT),
                     <<shell.read, IF shell.input = NONE THEN shell.write ELSE shell.input>>)
        \/ UNCHANGED vars
    BY <1>15, Zenon DEF SpawnLeft, Start
  <2>3. QED BY <1>3, <1>4, <2>1, <2>2, Zenon DEF LeftTable
<1>16. ASSUME SpawnRight PROVE shell.pc = "right" /\ fds'[i] = RightTable
  <2>1. shell.pc = "right"
    BY <1>16, Zenon DEF SpawnRight
  <2>2. \/ SpawnWith(Mapping(shell.read, STDIN) \o Mapping(shell.output, STDOUT),
                     <<shell.write>> \o Opened(shell.output))
        \/ UNCHANGED vars
    BY <1>16, Zenon DEF SpawnRight, Start
  <2>3. QED BY <1>3, <1>4, <2>1, <2>2, Zenon DEF RightTable
<1>17. SpawnLeft \/ SpawnRight
  <2>1. PipesNext
    BY <1>7, <1>4, Zenon DEF pvars
  <2>2. ASSUME \/ SysPipe \/ (\E fd \in Named : SysClose(fd)) \/ (\E d \in Dups : SysDup2(d[1], d[2]))
               \/ SysSpawn \/ (\E code \in ExitCodes : SysExit(code) \/ Interrupt(code))
               \/ SysYield \/ Key
        PROVE  FALSE
    BY <1>9, <2>2, Zenon DEF SysPipe, SysClose, SysDup2, SysSpawn, SysExit, Interrupt, SysYield, Key
  <2>3. QED
    BY <1>8, <1>10, <1>11, <1>12, <1>13, <1>14, <2>1, <2>2, Zenon DEF PipesNext
<1>18. QED BY <1>15, <1>16, <1>17, Zenon

\* A side that is started has its end of the pipe, and no other.
LEMMA SidesStep ==
  ASSUME Contract, PipesInv, [PipesNext]_pvars
  PROVE  \A i \in Slots :
           /\ SideStarts(i, "left") => /\ PipeFds(fds'[i]) = {STDOUT}
                                       /\ fds'[i][STDOUT].kind = "PipeWrite"
           /\ SideStarts(i, "right") => /\ PipeFds(fds'[i]) = {STDIN}
                                        /\ fds'[i][STDIN].kind = "PipeRead"
<1>1. ASSUME NEW i \in Slots, SideStarts(i, "left")
      PROVE  PipeFds(fds'[i]) = {STDOUT} /\ fds'[i][STDOUT].kind = "PipeWrite"
  <2>1. fds'[i] = LeftTable
    BY <1>1, SideStarted, Zenon DEF SideStarts
  <2>2. PipeFds(LeftTable) = {STDOUT} /\ LeftTable[STDOUT].kind = "PipeWrite"
    BY <1>1, LeftEnds, Zenon DEF SideStarts
  <2>3. QED BY <2>1, <2>2, Zenon
<1>2. ASSUME NEW i \in Slots, SideStarts(i, "right")
      PROVE  PipeFds(fds'[i]) = {STDIN} /\ fds'[i][STDIN].kind = "PipeRead"
  <2>1. fds'[i] = RightTable
    BY <1>2, SideStarted, Zenon DEF SideStarts
  <2>2. PipeFds(RightTable) = {STDIN} /\ RightTable[STDIN].kind = "PipeRead"
    BY <1>2, RightEnds, Zenon DEF SideStarts
  <2>3. QED BY <2>1, <2>2, Zenon
<1>3. QED BY <1>1, <1>2, Zenon

=============================================================================
