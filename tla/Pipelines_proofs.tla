-------------------------- MODULE Pipelines_proofs --------------------------
(***************************************************************************)
(* Safety of Pipelines for any number of tasks, descriptors and pipes: the *)
(* counts kept beside a pipe are exact, no wakeup for data or for room is  *)
(* lost, and the shell and the sides of a pipeline hold the ends they      *)
(* should.  The invariant is the one of Tasking_proofs with the ones of    *)
(* PipelineSteps_proofs.                                                   *)
(***************************************************************************)
EXTENDS PipelineSteps_proofs, Tasking_proofs, FileDescriptors_proofs

PipesIInv == IInv /\ PipesOK /\ ShellInv

\* Scheduler and FileDescriptors do what the steps need of them.
LEMMA ContractKept == Contract
<1>1. ASSUME NEW S \in SUBSET Nat, S # {} PROVE Least(S) \in S
  BY <1>1, LeastNatural, Zenon DEF Least
<1>2. SearchContract
  BY <1>1, SelectNextCorrect, Zenon DEF SearchContract
<1>3. IsFiniteSet(Slots)
  BY FS_Interval, SchedulerAssumption DEF Slots
<1>4. DescriptorContract(Slots)
  BY <1>3, DescriptorContractKept, Zenon
<1>5. QED BY <1>2, <1>4, Zenon DEF Contract

\* The scheduler's invariant says that the current task runs.
LEMMA PipesIInvSteps ==
  ASSUME PipesIInv
  PROVE  PipesInv
BY Zenon DEF PipesIInv, PipesInv, IInv, Scheduled

\* The invariant is inductive.
LEMMA PipesNextInv ==
  ASSUME PipesIInv, [PipesNext]_pvars
  PROVE  PipesIInv'
<1>1. IInv'
  BY IsTaskingStep, NextInv, Zenon DEF PipesIInv
<1>2. PipesOK' /\ ShellInv'
  BY ContractKept, PipesIInvSteps, PipesStep, Zenon
<1>3. QED BY <1>1, <1>2, Zenon DEF PipesIInv

\* The invariant holds at first.
LEMMA PipesInitInv ==
  ASSUME PipesInit
  PROVE  PipesIInv
<1>1. /\ SHELL \in Slots /\ IDLE \in Slots /\ SHELL # IDLE /\ NONE \notin Slots
      /\ TypeOK /\ RunningIsCurrent
      /\ \A i \in Slots :
           /\ i = SHELL => tasks[i].id = 1 /\ tasks[i].parent = NONE /\ tasks[i].state = "Running" /\ ~tasks[i].is_idle
           /\ i = IDLE => tasks[i].id = 2 /\ tasks[i].parent = NONE /\ tasks[i].state = "Ready" /\ tasks[i].is_idle
           /\ i \notin {SHELL, IDLE} => tasks[i].id = 0 /\ tasks[i].state = "Empty" /\ ~tasks[i].is_idle
  BY FirstTasks, Zenon
<1>2. /\ current = SHELL /\ next_id = 3 /\ idle_index = IDLE /\ ticks = 0
      /\ waiting = [i \in Slots |-> NONE] /\ idle_pc = "check" /\ boot = "switched"
  BY Zenon DEF PipesInit
<1>3. TableInv(tasks, idle_index, next_id, ticks, waiting)
  <2>1. Types(tasks, idle_index, next_id, ticks, waiting)
    BY <1>1, Zenon DEF Types, TypeOK
  <2>2. IdleTable(tasks, idle_index)
    BY <1>1, <1>2, Zenon DEF IdleTable
  <2>3. IdTable(tasks, next_id)
    BY <1>1, <1>2 DEF IdTable, NONE
  <2>4. WaiterTable(tasks, waiting) /\ SleeperTable(tasks, ticks)
    BY <1>1, <1>2, Zenon DEF WaiterTable, SleeperTable
  <2>5. QED BY <2>1, <2>2, <2>3, <2>4, Zenon DEF TableInv
<1>4. IInv
  BY <1>1, <1>2, <1>3, Zenon DEF IInv, IdleSlotKept, NobodyLeftBehind
<1>5. QED BY <1>4, ContractKept, PipesStart, Zenon DEF PipesIInv

-----------------------------------------------------------------------------
(***************************************************************************)
(* The theorems.                                                           *)
(***************************************************************************)
\* The inductive invariant holds of every behaviour: whatever programs and
\* shell do with descriptors, the scheduler's own invariant included.
THEOREM PipelinesInvariant == PipesSpec => []PipesIInv
<1>1. PipesInit => PipesIInv
  BY PipesInitInv, Zenon
<1>2. PipesIInv /\ [PipesNext]_pvars => PipesIInv'
  BY PipesNextInv, Zenon
<1>3. QED BY <1>1, <1>2, PTL DEF PipesSpec

\* What the invariant says.
LEMMA PipesIInvImplies == PipesIInv => CountsExact /\ BlockedForCause /\ ShellKeepsNoEnds
<1> SUFFICES ASSUME PipesIInv PROVE CountsExact /\ BlockedForCause /\ ShellKeepsNoEnds
  BY Zenon
<1>1. CountsExact /\ WaitsOK /\ ShellOK(shell, fds[SHELL])
  BY Zenon DEF PipesIInv, PipesOK, ShellInv
<1>2. BlockedForCause
  BY <1>1, Zenon DEF WaitsOK, WaitOK, BlockedForCause, BlockedIn
<1>3. ShellKeepsNoEnds
  BY <1>1, Zenon DEF ShellOK, ShellKeepsNoEnds
<1>4. QED BY <1>1, <1>2, <1>3, Zenon

\* The reader and writer counts kept by Clone and Drop are exact, for any
\* number of tasks, descriptors and pipes: end of file and broken pipe are
\* reported neither early nor never.
THEOREM CountsAlwaysExact == PipesSpec => []CountsExact
BY PipelinesInvariant, PipesIInvImplies, PTL

\* fd_read and fd_write lose no wakeup: whoever is blocked in one waits on an
\* empty pipe to read from, or on a full one to write to.
THEOREM NoLostPipeWakeup == PipesSpec => []BlockedForCause
BY PipelinesInvariant, PipesIInvImplies, PTL

\* The shell is back at its prompt only when it has closed every end of the
\* pipes it made, whatever could not be opened, loaded or spawned.
THEOREM ShellHoldsNoEnds == PipesSpec => []ShellKeepsNoEnds
BY PipelinesInvariant, PipesIInvImplies, PTL

\* Each side of a pipeline that launch_pipeline starts has exactly one end of
\* the pipe, in its standard place, for every size of the tables and whatever
\* descriptors, redirections and tasks there are.
THEOREM SidesAlwaysGetOneEnd == PipesSpec => SidesGetOneEnd
<1> DEFINE Sides ==
      \A i \in Slots :
        /\ SideStarts(i, "left") => /\ PipeFds(fds'[i]) = {STDOUT}
                                    /\ fds'[i][STDOUT].kind = "PipeWrite"
        /\ SideStarts(i, "right") => /\ PipeFds(fds'[i]) = {STDIN}
                                     /\ fds'[i][STDIN].kind = "PipeRead"
<1>1. ASSUME PipesIInv, [PipesNext]_pvars PROVE [Sides]_pvars
  BY <1>1, ContractKept, PipesIInvSteps, SidesStep, Zenon
<1>2. QED BY <1>1, PipelinesInvariant, PTL DEF PipesSpec, SidesGetOneEnd

=============================================================================
