------------------------------- MODULE UserMode -------------------------------
(***************************************************************************)
(* Crossing between user mode and the kernel on the one CPU: the swapgs    *)
(* pairs of the system call entry, the timer interrupt and `enter`; the    *)
(* CPU-local user and kernel stack pointers that the tasks share; and the  *)
(* keyboard interrupt with its lock.                                       *)
(*                                                                         *)
(* Which task runs next is left open (Tasking models the choice).  A step  *)
(* is a stretch of code no interrupt can split: interrupts are masked in   *)
(* handlers and system calls.  The kernel does not touch GS outside the    *)
(* system call entry and return.                                           *)
(***************************************************************************)
EXTENDS Integers

CONSTANTS
  UserTasks,    \* slots of user tasks
  KernelTasks,  \* slots of kernel tasks (the shell, the idle task)
  Stacks        \* user stack pointers at a system call

ASSUME UserModeAssumption ==
  /\ KernelTasks # {}
  /\ UserTasks \cap KernelTasks = {}
  /\ Stacks # {}

Tasks == UserTasks \cup KernelTasks

VARIABLES
  current,     \* the task on the CPU
  state,       \* per task: Ready (or on the CPU), Blocked or Dead
  pc,          \* per user task, where it is, or goes on when switched to:
               \*   "trampoline" in the kernel, before the swapgs of `enter`
               \*   "swapped"    between that swapgs and the iretq
               \*   "user"       user mode
               \*   "syscall"    in a system call
  gs,          \* the active GS base: "cpu" is &LEAFOS_CPU_LOCAL, "zero" is 0
  kernel_gs,   \* IA32_KERNEL_GSBASE
  user_rsp,    \* LEAFOS_CPU_LOCAL.user_rsp: <<task, stack pointer>>
  kernel_rsp,  \* whose kernel stack is in LEAFOS_CPU_LOCAL and in the TSS
  saved_rsp,   \* per user task: UserTask::syscall_user_rsp
  stack,       \* per user task: its stack pointer when it made the call
  keyboard,    \* the KEYBOARD lock: "free" or "held"
  halted       \* the machine is lost: it spins or halts for ever with
               \* interrupts masked, or the kernel runs on an arbitrary stack

cpu == <<gs, kernel_gs, user_rsp, kernel_rsp>>
vars == <<current, state, pc, cpu, saved_rsp, stack, keyboard, halted>>

Nobody == <<>>
Rsps == (UserTasks \X Stacks) \cup {Nobody}

TypeOK ==
  /\ current \in Tasks
  /\ state \in [Tasks -> {"Ready", "Blocked", "Dead"}]
  /\ pc \in [UserTasks -> {"trampoline", "swapped", "user", "syscall"}]
  /\ gs \in {"cpu", "zero"}
  /\ kernel_gs \in {"cpu", "zero"}
  /\ user_rsp \in Rsps
  /\ kernel_rsp \in UserTasks \cup {Nobody}
  /\ saved_rsp \in [UserTasks -> Rsps]
  /\ stack \in [UserTasks -> Stacks]
  /\ keyboard \in {"free", "held"}
  /\ halted \in BOOLEAN

\* The kernel's tasks run; no user task has been started.
Init ==
  /\ current \in KernelTasks
  /\ state = [t \in Tasks |-> IF t \in UserTasks THEN "Dead" ELSE "Ready"]
  /\ pc = [t \in UserTasks |-> "trampoline"]
  /\ gs = "zero" /\ kernel_gs = "zero"
  /\ user_rsp = Nobody
  /\ kernel_rsp = Nobody
  /\ saved_rsp = [t \in UserTasks |-> Nobody]
  /\ stack \in [UserTasks -> Stacks]
  /\ keyboard = "free"
  /\ halted = FALSE

-----------------------------------------------------------------------------
UserCurrent == current \in UserTasks /\ ~halted
At(place) == UserCurrent /\ pc[current] = place
InKernelTask == current \in KernelTasks /\ ~halted

\* System calls run with IF clear (IA32_FMASK); everything else that is not a
\* handler runs with IF set.
InterruptsEnabled == ~halted /\ (current \in UserTasks => pc[current] # "syscall")

SwapGs == gs' = kernel_gs /\ kernel_gs' = gs
Others == {t \in Tasks : state[t] = "Ready"} \ {current}

\* The GS bases once a switch out of a handler or a system call is done: a
\* handler that came from user mode has swapped them.
Swapped(fromUser) == IF fromUser THEN SwapGs ELSE UNCHANGED <<gs, kernel_gs>>

\* Mutant: only the GS base in use is set, the other one keeps what it had.
ActivateOneBase(next, fromUser) ==
  IF next \in UserTasks
  THEN /\ user_rsp' = saved_rsp'[next]
       /\ gs' = IF pc'[next] = "user" THEN kernel_gs ELSE "cpu"
       /\ kernel_gs' = IF pc'[next] = "user" THEN "cpu" ELSE kernel_gs
       /\ kernel_rsp' = next
  ELSE Swapped(fromUser) /\ UNCHANGED <<user_rsp, kernel_rsp>>

\* activate_task_address_space: for a user task, syscall::initialize sets both
\* GS bases for the kernel side and the kernel stack, and set_user_rsp puts
\* the task's saved stack pointer back.  A task that was interrupted in user
\* mode goes on in the timer handler, whose last swapgs is included.
Activate(next, fromUser) ==
  IF next \in UserTasks
  THEN /\ user_rsp' = saved_rsp'[next]
       /\ gs' = IF pc'[next] = "user" THEN "zero" ELSE "cpu"
       /\ kernel_gs' = IF pc'[next] = "user" THEN "cpu" ELSE "zero"
       /\ kernel_rsp' = next
  ELSE Swapped(fromUser) /\ UNCHANGED <<user_rsp, kernel_rsp>>

SwitchTo(next, fromUser) == current' = next /\ Activate(next, fromUser)

(***************************************************************************)
(* Starting a user task: task_trampoline and enter.                        *)
(***************************************************************************)
SpawnUser(t) ==
  /\ InKernelTask
  /\ state[t] = "Dead"
  /\ state' = [state EXCEPT ![t] = "Ready"]
  /\ pc' = [pc EXCEPT ![t] = "trampoline"]
  /\ saved_rsp' = [saved_rsp EXCEPT ![t] = Nobody]
  /\ UNCHANGED <<current, cpu, stack, keyboard, halted>>

EnterSwapGs ==
  /\ At("trampoline")
  /\ pc' = [pc EXCEPT ![current] = "swapped"]
  /\ SwapGs
  /\ UNCHANGED <<current, state, user_rsp, kernel_rsp, saved_rsp, stack, keyboard, halted>>

EnterIret ==
  /\ At("swapped")
  /\ pc' = [pc EXCEPT ![current] = "user"]
  /\ UNCHANGED <<current, state, cpu, saved_rsp, stack, keyboard, halted>>

(***************************************************************************)
(* System calls.  The entry stores the user stack pointer and loads the    *)
(* kernel's through GS; with the wrong base it uses the words at address 0 *)
(* and 8, which faults in the kernel or gives an arbitrary stack.          *)
(***************************************************************************)
SyscallEntry(rsp) ==
  /\ At("user")
  /\ SwapGs
  /\ IF kernel_gs = "cpu"
     THEN /\ pc' = [pc EXCEPT ![current] = "syscall"]
          /\ user_rsp' = <<current, rsp>>
          /\ stack' = [stack EXCEPT ![current] = rsp]
          /\ UNCHANGED halted
     ELSE /\ halted' = TRUE
          /\ UNCHANGED <<pc, user_rsp, stack>>
  /\ UNCHANGED <<current, state, kernel_rsp, saved_rsp, keyboard>>

SyscallReturn ==
  /\ At("syscall")
  /\ SwapGs
  /\ pc' = [pc EXCEPT ![current] = "user"]
  /\ UNCHANGED <<current, state, user_rsp, kernel_rsp, saved_rsp, stack, keyboard, halted>>

\* Mutant: the stack pointer is not saved before the switch.
SyscallBlockUnsaved(next) ==
  /\ At("syscall")
  /\ next \in Others
  /\ state' = [state EXCEPT ![current] = "Blocked"]
  /\ UNCHANGED <<pc, saved_rsp, stack, keyboard, halted>>
  /\ SwitchTo(next, FALSE)

\* block_now, sleep_ticks and the blocking branch of wait_for_child.
SyscallBlock(next) ==
  /\ At("syscall")
  /\ next \in Others
  /\ state' = [state EXCEPT ![current] = "Blocked"]
  /\ saved_rsp' = [saved_rsp EXCEPT ![current] = user_rsp]
  /\ UNCHANGED <<pc, stack, keyboard, halted>>
  /\ SwitchTo(next, FALSE)

\* yield_now may pick the caller again.
SyscallYield(next) ==
  /\ At("syscall")
  /\ next \in Others \cup {current}
  /\ saved_rsp' = [saved_rsp EXCEPT ![current] = user_rsp]
  /\ UNCHANGED <<state, pc, stack, keyboard, halted>>
  /\ SwitchTo(next, FALSE)

\* sys_exit; a fault in user mode exits too, after its own swapgs.
UserExit(next) ==
  /\ At("syscall") \/ At("user")
  /\ next \in Others
  /\ state' = [state EXCEPT ![current] = "Dead"]
  /\ saved_rsp' = [saved_rsp EXCEPT ![current] = user_rsp]
  /\ UNCHANGED <<pc, stack, keyboard, halted>>
  /\ SwitchTo(next, At("user"))

(***************************************************************************)
(* Interrupts.                                                             *)
(***************************************************************************)
\* The timer handler swaps GS when it came from user mode, on entry and, when
\* its task goes on, at the end.  preempt_from_timer returns early when the
\* same task is picked again, and saves no user stack pointer.
TimerInterrupt(next) ==
  /\ InterruptsEnabled
  /\ next \in Others \cup {current}
  /\ UNCHANGED <<state, pc, saved_rsp, stack, keyboard, halted>>
  /\ IF next = current
     THEN UNCHANGED <<current, cpu>>
     ELSE SwitchTo(next, At("user"))

WakeAllBlocked == [t \in Tasks |-> IF state[t] = "Blocked" THEN "Ready" ELSE state[t]]

\* A key other than Ctrl-C: for a program it goes to the input queue, and a
\* character (not a special key) wakes whoever is blocked; else it goes to
\* the shell.  The handler takes the KEYBOARD lock and drops it at its end;
\* taking a lock that is held already spins for ever.
KeyInterrupt ==
  /\ InterruptsEnabled
  /\ IF keyboard = "held"
     THEN halted' = TRUE /\ UNCHANGED state
     ELSE /\ UNCHANGED halted
          /\ \/ UserCurrent /\ state' = WakeAllBlocked
             \/ UNCHANGED state
  /\ UNCHANGED <<current, pc, cpu, saved_rsp, stack, keyboard>>

\* Ctrl-C while a user task is current: its group exits from inside the
\* handler, which does not swap GS and whose lock guard is never dropped.
CtrlCInterrupt(group, next) ==
  /\ InterruptsEnabled
  /\ UserCurrent
  /\ keyboard = "free"
  /\ keyboard' = "held"
  /\ next \in Others \ group
  /\ state' = [t \in Tasks |-> IF t = current \/ t \in group THEN "Dead" ELSE state[t]]
  /\ saved_rsp' = [saved_rsp EXCEPT ![current] = user_rsp]
  /\ UNCHANGED <<pc, stack, halted>>
  /\ SwitchTo(next, FALSE)

\* A kernel task, such as the shell closing a descriptor, wakes the blocked.
KernelWake ==
  /\ InKernelTask
  /\ state' = WakeAllBlocked
  /\ UNCHANGED <<current, pc, cpu, saved_rsp, stack, keyboard, halted>>

-----------------------------------------------------------------------------
Next ==
  \/ \E t \in UserTasks : SpawnUser(t)
  \/ EnterSwapGs
  \/ EnterIret
  \/ \E rsp \in Stacks : SyscallEntry(rsp)
  \/ SyscallReturn
  \/ \E next \in Tasks : \/ SyscallBlock(next)
                         \/ SyscallYield(next)
                         \/ UserExit(next)
                         \/ TimerInterrupt(next)
  \/ KeyInterrupt
  \/ \E group \in SUBSET UserTasks, next \in Tasks : CtrlCInterrupt(group, next)
  \/ KernelWake

Spec == Init /\ [][Next]_vars

-----------------------------------------------------------------------------
\* A system call returns to the stack it was made from: whenever a task is in
\* a system call on the CPU, the shared user_rsp slot holds the pointer it
\* stored at entry, however many tasks made calls while it was blocked.
OwnUserStack == At("syscall") => user_rsp = <<current, stack[current]>>

\* A system call or an interrupt from user mode enters the kernel on the
\* stack of the task it interrupts, never on another's.
OwnKernelStack == At("user") \/ At("syscall") => kernel_rsp = current

\* In a system call the kernel's GS base is active and the user's is behind
\* it, so that the return's swapgs leaves them the right way round, although
\* other tasks may have entered and left the kernel any number of times.
SyscallGs == At("syscall") => gs = "cpu" /\ kernel_gs = "zero"

\* "Disabled interrupts during the transition", the contract of `enter`, is
\* what keeps its swapgs and iretq together: in user mode the user's GS base
\* is active and the kernel's is in IA32_KERNEL_GSBASE.
UserGs == At("user") => gs = "zero" /\ kernel_gs = "cpu"

\* "A spin mutex that prevents local interrupt preemption while it is held":
\* no code runs with interrupts enabled while the KEYBOARD lock is held.
HeldMeansMasked == keyboard = "held" => ~InterruptsEnabled

=============================================================================
