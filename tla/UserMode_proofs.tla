--------------------------- MODULE UserMode_proofs ---------------------------
(***************************************************************************)
(* Proofs about UserMode: the CPU-local words that all tasks share serve   *)
(* each of them as if it were alone, for any number of tasks and stacks.   *)
(***************************************************************************)
EXTENDS UserMode, TLAPS

\* A user task on the CPU has its own kernel stack behind it, and exactly one
\* of the two GS bases is the kernel's; which of them is known in a system call.
CpuIsCurrents ==
  current \in UserTasks =>
    /\ kernel_rsp = current
    /\ gs # kernel_gs
    /\ pc[current] = "syscall" => gs = "cpu" /\ user_rsp = <<current, stack[current]>>

\* A live task that was switched away from in a system call has its stack
\* pointer saved: in user_rsp it may be overwritten.
SavedWhileAway ==
  \A t \in UserTasks :
    t # current /\ state[t] # "Dead" /\ pc[t] = "syscall" => saved_rsp[t] = <<t, stack[t]>>

IInv == TypeOK /\ CpuIsCurrents /\ SavedWhileAway

-----------------------------------------------------------------------------
\* activate_task_address_space leaves the CPU to the task it switches to, if
\* that task's stack pointer was saved when it lost the CPU in a system call.
LEMMA SwitchGivesCpu ==
  ASSUME TypeOK, pc' = pc, stack' = stack, saved_rsp' \in [UserTasks -> Rsps],
         NEW next \in Tasks, NEW fromUser \in BOOLEAN, SwitchTo(next, fromUser),
         next \in UserTasks /\ pc[next] = "syscall" => saved_rsp'[next] = <<next, stack[next]>>
  PROVE  /\ current' \in Tasks
         /\ gs' \in {"cpu", "zero"} /\ kernel_gs' \in {"cpu", "zero"}
         /\ user_rsp' \in Rsps /\ kernel_rsp' \in UserTasks \cup {Nobody}
         /\ CpuIsCurrents'
<1>1. CASE next \in UserTasks
  BY <1>1 DEF SwitchTo, Activate, TypeOK, CpuIsCurrents
<1>2. CASE next \notin UserTasks
  BY <1>2 DEF SwitchTo, Activate, Swapped, SwapGs, TypeOK, CpuIsCurrents
<1> QED BY <1>1, <1>2

LEMMA InitIInv == Init => IInv
BY UserModeAssumption DEF Init, IInv, TypeOK, CpuIsCurrents, SavedWhileAway, Tasks, Rsps

\* A step that takes the CPU away from a task in a system call saves its stack
\* pointer, and a task in a system call loses the CPU in no other way.
LEMMA NextIInv == IInv /\ [Next]_vars => IInv'
<1> SUFFICES ASSUME IInv, [Next]_vars PROVE IInv'
  OBVIOUS
<1> USE DEF IInv
<1>1. ASSUME NEW t \in UserTasks, SpawnUser(t) PROVE IInv'
  BY <1>1, UserModeAssumption DEF SpawnUser, InKernelTask, cpu, TypeOK, CpuIsCurrents,
     SavedWhileAway, Tasks, Rsps
<1>2. CASE EnterSwapGs
  BY <1>2 DEF EnterSwapGs, At, UserCurrent, SwapGs, TypeOK, CpuIsCurrents, SavedWhileAway
<1>3. CASE EnterIret
  BY <1>3 DEF EnterIret, At, UserCurrent, cpu, TypeOK, CpuIsCurrents, SavedWhileAway
<1>4. ASSUME NEW rsp \in Stacks, SyscallEntry(rsp) PROVE IInv'
  <2>1. CASE kernel_gs = "cpu"
    BY <1>4, <2>1 DEF SyscallEntry, At, UserCurrent, SwapGs, TypeOK, CpuIsCurrents,
       SavedWhileAway, Rsps
  <2>2. CASE kernel_gs # "cpu"
    BY <1>4, <2>2 DEF SyscallEntry, At, UserCurrent, SwapGs, TypeOK, CpuIsCurrents,
       SavedWhileAway
  <2> QED BY <2>1, <2>2
<1>5. CASE SyscallReturn
  BY <1>5 DEF SyscallReturn, At, UserCurrent, SwapGs, TypeOK, CpuIsCurrents, SavedWhileAway
<1>6. ASSUME NEW next \in Tasks, SyscallBlock(next) PROVE IInv'
  <2>1. saved_rsp' \in [UserTasks -> Rsps] /\ state' \in [Tasks -> {"Ready", "Blocked", "Dead"}]
    BY <1>6 DEF SyscallBlock, TypeOK
  <2>2. next \in UserTasks /\ pc[next] = "syscall" => saved_rsp'[next] = <<next, stack[next]>>
    BY <1>6 DEF SyscallBlock, Others, TypeOK, SavedWhileAway
  <2>3. TypeOK' /\ CpuIsCurrents'
    BY <1>6, <2>1, <2>2, SwitchGivesCpu DEF SyscallBlock, TypeOK
  <2>4. SavedWhileAway'
    BY <1>6 DEF SyscallBlock, SwitchTo, At, UserCurrent, Others, Tasks, TypeOK, CpuIsCurrents,
       SavedWhileAway
  <2> QED BY <2>3, <2>4
<1>7. ASSUME NEW next \in Tasks, SyscallYield(next) PROVE IInv'
  <2>1. saved_rsp' \in [UserTasks -> Rsps]
    BY <1>7 DEF SyscallYield, TypeOK
  <2>2. next \in UserTasks /\ pc[next] = "syscall" => saved_rsp'[next] = <<next, stack[next]>>
    BY <1>7 DEF SyscallYield, Others, At, UserCurrent, TypeOK, CpuIsCurrents, SavedWhileAway
  <2>3. TypeOK' /\ CpuIsCurrents'
    BY <1>7, <2>1, <2>2, SwitchGivesCpu DEF SyscallYield, TypeOK
  <2>4. SavedWhileAway'
    BY <1>7 DEF SyscallYield, SwitchTo, At, UserCurrent, TypeOK, CpuIsCurrents, SavedWhileAway
  <2> QED BY <2>3, <2>4
<1>8. ASSUME NEW next \in Tasks, UserExit(next) PROVE IInv'
  <2>1. saved_rsp' \in [UserTasks -> Rsps] /\ state' \in [Tasks -> {"Ready", "Blocked", "Dead"}]
    BY <1>8 DEF UserExit, TypeOK
  <2>2. next \in UserTasks /\ pc[next] = "syscall" => saved_rsp'[next] = <<next, stack[next]>>
    BY <1>8 DEF UserExit, Others, TypeOK, SavedWhileAway
  <2>3. TypeOK' /\ CpuIsCurrents'
    BY <1>8, <2>1, <2>2, SwitchGivesCpu DEF UserExit, TypeOK, At, UserCurrent
  <2>4. SavedWhileAway'
    BY <1>8 DEF UserExit, SwitchTo, At, UserCurrent, Others, Tasks, TypeOK, CpuIsCurrents,
       SavedWhileAway
  <2> QED BY <2>3, <2>4
<1>9. ASSUME NEW next \in Tasks, TimerInterrupt(next) PROVE IInv'
  <2>1. CASE next = current
    BY <1>9, <2>1 DEF TimerInterrupt, cpu, TypeOK, CpuIsCurrents, SavedWhileAway
  <2>2. CASE next # current
    <3>1. next \in UserTasks /\ pc[next] = "syscall" => saved_rsp'[next] = <<next, stack[next]>>
      BY <1>9, <2>2 DEF TimerInterrupt, Others, TypeOK, SavedWhileAway
    <3>2. TypeOK' /\ CpuIsCurrents'
      BY <1>9, <2>2, <3>1, SwitchGivesCpu DEF TimerInterrupt, TypeOK, At, UserCurrent
    <3>3. SavedWhileAway'
      BY <1>9, <2>2 DEF TimerInterrupt, InterruptsEnabled, SwitchTo, SavedWhileAway
    <3> QED BY <3>2, <3>3
  <2> QED BY <2>1, <2>2
<1>10. CASE KeyInterrupt
  BY <1>10 DEF KeyInterrupt, WakeAllBlocked, cpu, Tasks, TypeOK, CpuIsCurrents, SavedWhileAway
<1>11. ASSUME NEW group \in SUBSET UserTasks, NEW next \in Tasks, CtrlCInterrupt(group, next)
       PROVE  IInv'
  <2>1. saved_rsp' \in [UserTasks -> Rsps] /\ state' \in [Tasks -> {"Ready", "Blocked", "Dead"}]
    BY <1>11 DEF CtrlCInterrupt, TypeOK
  <2>2. next \in UserTasks /\ pc[next] = "syscall" => saved_rsp'[next] = <<next, stack[next]>>
    BY <1>11 DEF CtrlCInterrupt, Others, TypeOK, SavedWhileAway
  <2>3. TypeOK' /\ CpuIsCurrents'
    BY <1>11, <2>1, <2>2, SwitchGivesCpu DEF CtrlCInterrupt, TypeOK
  <2>4. SavedWhileAway'
    BY <1>11 DEF CtrlCInterrupt, SwitchTo, UserCurrent, Others, Tasks, TypeOK, SavedWhileAway
  <2> QED BY <2>3, <2>4
<1>12. CASE KernelWake
  BY <1>12 DEF KernelWake, WakeAllBlocked, cpu, Tasks, TypeOK, CpuIsCurrents, SavedWhileAway
<1>13. CASE UNCHANGED vars
  BY <1>13 DEF vars, cpu, TypeOK, CpuIsCurrents, SavedWhileAway
<1> QED
  BY <1>1, <1>2, <1>3, <1>4, <1>5, <1>6, <1>7, <1>8, <1>9, <1>10, <1>11, <1>12, <1>13 DEF Next

-----------------------------------------------------------------------------
\* What UserMode keeps at every step: the CPU-local words are those of the
\* task on the CPU, and the others' stack pointers are saved.
THEOREM UserModeInvariant == Spec => []IInv
BY InitIInv, NextIInv, PTL DEF Spec

\* Every variable keeps its type.
THEOREM UserModeTypes == Spec => []TypeOK
<1>1. IInv => TypeOK
  BY DEF IInv
<1> QED BY <1>1, UserModeInvariant, PTL

\* A system call returns to the stack it was made from: user_rsp has the pointer
\* its entry stored, whatever other tasks stored there meanwhile.
THEOREM ReturnsToOwnStack == Spec => []OwnUserStack
<1>1. IInv => OwnUserStack
  BY DEF IInv, CpuIsCurrents, OwnUserStack, At, UserCurrent
<1> QED BY <1>1, UserModeInvariant, PTL

\* A system call or an interrupt of a program enters the kernel on the stack of
\* that program: LEAFOS_CPU_LOCAL and the TSS have it.
THEOREM EntersOnOwnStack == Spec => []OwnKernelStack
<1>1. IInv => OwnKernelStack
  BY DEF IInv, CpuIsCurrents, OwnKernelStack, At, UserCurrent
<1> QED BY <1>1, UserModeInvariant, PTL

\* A system call that is entered finds the kernel's GS base active, and its
\* return swaps it for the user's.
THEOREM GsInSyscalls == Spec => []SyscallGs
<1>1. IInv => SyscallGs
  BY DEF IInv, TypeOK, CpuIsCurrents, SyscallGs, At, UserCurrent
<1> QED BY <1>1, UserModeInvariant, PTL
=============================================================================
