------------------------------ MODULE KeyInput ------------------------------
(***************************************************************************)
(* From a decoded key to its reader.  The keyboard interrupt puts a key    *)
(* into one of two rings, by the task it interrupts: programs read INPUT   *)
(* (drivers/input.rs) with system calls, the shell polls its own lock-free *)
(* queue (shell/mod.rs) and halts the processor between polls.             *)
(*                                                                         *)
(* There is one processor.  System calls run with interrupts masked, so    *)
(* each is one step; the shell runs with interrupts enabled and can be     *)
(* interrupted between any two accesses to its queue.  The shell task is   *)
(* always ready (its sleep command is left out): the idle task never runs. *)
(***************************************************************************)
EXTENDS Integers, Sequences, SequencesExt, FiniteSets

CONSTANTS
  Programs,         \* the user tasks, in the order of their slots
  OrdinaryKeys,     \* bytes of characters
  SpecialKeys,      \* bytes of arrow keys and their like
  INPUT_CAPACITY,
  QUEUE_CAPACITY,
  READ_SIZES        \* lengths of the buffers programs read into

CtrlC == 3
Users == ToSet(Programs)

ASSUME KeyInputAssumption ==
  /\ Programs \in Seq(Users) /\ "shell" \notin Users
  /\ INPUT_CAPACITY \in Nat \ {0} /\ QUEUE_CAPACITY \in Nat \ {0, 1}
  /\ READ_SIZES \subseteq Nat \ {0}
  /\ OrdinaryKeys \cup SpecialKeys \subseteq Nat \ {CtrlC}
  /\ OrdinaryKeys \cap SpecialKeys = {}

VARIABLES
  current,   \* the running task: "shell" or a user task
  state,     \* of each user task: "ready", "blocked" in fd_read, or "none"
  INPUT,     \* the InputBuffer: bytes, head, length
  QUEUE,     \* the shell's queue: slots, head, tail
  pc,        \* of the shell: see dequeue_key
  byte,      \* the shell's register between the load and the store of the tail
  KEYBOARD,  \* the lock of the keyboard interrupt handler: "free" or "held"
  hung,      \* the handler spins on its own lock
  read,      \* what the last read of a program returned
  key        \* what the last dequeue_key returned

vars == <<current, state, INPUT, QUEUE, pc, byte, KEYBOARD, hung, read, key>>

Tasks == {"shell"} \cup Users
Keys == OrdinaryKeys \cup SpecialKeys \cup {CtrlC}

KeysTypeOK ==
  /\ current \in Tasks
  /\ state \in [Users -> {"ready", "blocked", "none"}]
  /\ current \in Users => state[current] = "ready"
  /\ INPUT.head \in 0 .. INPUT_CAPACITY - 1 /\ INPUT.length \in 0 .. INPUT_CAPACITY
  /\ QUEUE.head \in 0 .. QUEUE_CAPACITY - 1 /\ QUEUE.tail \in 0 .. QUEUE_CAPACITY - 1
  /\ pc \in {"poll", "load", "store", "empty", "halt"}
  /\ KEYBOARD \in {"free", "held"} /\ hung \in BOOLEAN

(* ------------------------------ the rings ------------------------------ *)

NewInput == [bytes |-> [i \in 0 .. INPUT_CAPACITY - 1 |-> 0], head |-> 0, length |-> 0]

\* Mutant: a full ring overwrites its oldest byte instead of dropping the new one.
PushOver(b) ==
  LET tail == (INPUT.head + INPUT.length) % INPUT_CAPACITY
  IN  INPUT' = [INPUT EXCEPT !.bytes[tail] = b,
                             !.length = IF @ = INPUT_CAPACITY THEN @ ELSE @ + 1]

push(b) ==
  IF INPUT.length = INPUT_CAPACITY THEN UNCHANGED INPUT
  ELSE LET tail == (INPUT.head + INPUT.length) % INPUT_CAPACITY
       IN  INPUT' = [INPUT EXCEPT !.bytes[tail] = b, !.length = @ + 1]

\* InputBuffer::read into a buffer of the given size.
read_available(size) ==
  LET count == IF size < INPUT.length THEN size ELSE INPUT.length
  IN  /\ read' = [i \in 1 .. count |-> INPUT.bytes[(INPUT.head + i - 1) % INPUT_CAPACITY]]
      /\ INPUT' = [INPUT EXCEPT !.head = (@ + count) % INPUT_CAPACITY, !.length = @ - count]

NewQueue == [slots |-> [i \in 0 .. QUEUE_CAPACITY - 1 |-> 0], head |-> 0, tail |-> 0]

\* Mutant: the queue is taken to be full when its last free slot is gone, not before.
EnqueueToTheBrim(b) ==
  LET next == (QUEUE.head + 1) % QUEUE_CAPACITY
  IN  QUEUE' = [QUEUE EXCEPT !.slots[QUEUE.head] = b, !.head = next]

\* QUEUE_CAPACITY is a power of two in the code, which masks instead of dividing.
enqueue_key(b) ==
  LET next == (QUEUE.head + 1) % QUEUE_CAPACITY
  IN  IF next = QUEUE.tail THEN UNCHANGED QUEUE
      ELSE QUEUE' = [QUEUE EXCEPT !.slots[QUEUE.head] = b, !.head = next]

(* ------------------------------- the tasks ----------------------------- *)

Init ==
  /\ current = "shell"
  /\ state = [u \in Users |-> "none"]
  /\ INPUT = NewInput
  /\ QUEUE = NewQueue
  /\ pc = "poll"
  /\ byte = 0
  /\ KEYBOARD = "free" /\ hung = FALSE
  /\ read = <<>> /\ key = <<>>

\* The scheduler's choice, when the tasks that can run are those of `ready':
\* round robin over the slots, the shell's the first.
Order == <<"shell">> \o Programs
Slot(task) == CHOOSE i \in DOMAIN Order : Order[i] = task

NextTask(ready) ==
  LET can(i) == Order[i] \in {"shell"} \cup ready
      later == {i \in DOMAIN Order : i > Slot(current) /\ can(i)}
      first(set) == CHOOSE i \in set : \A j \in set : i <= j
  IN  IF later # {} THEN Order[first(later)] ELSE Order[first({i \in DOMAIN Order : can(i)})]

Ready(st) == {u \in Users : st[u] = "ready"}

\* Mutant: a wake-up is given to no one.
WakeNone(st) == st

\* wake_all_blocked_tasks.
WakeAllBlocked(st) == [u \in Users |-> IF st[u] = "blocked" THEN "ready" ELSE st[u]]

(* --------------------------- keyboard and timer ------------------------ *)

\* An interrupt ends the hlt of the task it interrupts.
Resumed == IF current = "shell" /\ pc = "halt" THEN "poll" ELSE pc

\* A key while a program is running.  An arrow key and its like wakes nobody.
KeyForProgram(b) ==
  /\ current \in Users
  /\ b # CtrlC
  /\ KEYBOARD = "free"
  /\ push(b)
  /\ state' = IF b \in OrdinaryKeys THEN WakeAllBlocked(state) ELSE state
  /\ UNCHANGED <<current, QUEUE, pc, byte, KEYBOARD, hung, read, key>>

\* Ctrl-C while a program is running: its group exits, and the handler's
\* frame, with the guard of its lock, is never returned to.
InterruptGroup(group) ==
  /\ current \in group
  /\ KEYBOARD = "free"
  /\ KEYBOARD' = "held"
  /\ state' = [u \in Users |-> IF u \in group THEN "none" ELSE state[u]]
  /\ current' = NextTask(Ready(state'))
  /\ UNCHANGED <<INPUT, QUEUE, pc, byte, hung, read, key>>

\* A key while the shell is running, wherever in its loop it is.
KeyForShell(b) ==
  /\ current = "shell"
  /\ KEYBOARD = "free"
  /\ enqueue_key(b)
  /\ pc' = Resumed
  /\ UNCHANGED <<current, state, INPUT, byte, KEYBOARD, hung, read, key>>

KeyboardSpins ==
  /\ KEYBOARD = "held"
  /\ hung' = TRUE
  /\ UNCHANGED <<current, state, INPUT, QUEUE, pc, byte, KEYBOARD, read, key>>

\* Mutant: after the interrupt the processor goes back to its hlt.
TimerKeepsHalt ==
  /\ current' = NextTask(Ready(state))
  /\ UNCHANGED <<state, INPUT, QUEUE, pc, byte, KEYBOARD, hung, read, key>>

TimerInterrupt ==
  /\ pc' = Resumed
  /\ current' = NextTask(Ready(state))
  /\ UNCHANGED <<state, INPUT, QUEUE, byte, KEYBOARD, hung, read, key>>

(* ------------------------------ the shell ------------------------------ *)

\* dequeue_key up to its test: only the shell moves the tail, so that loading
\* the tail and the head is one step.
DequeueTest ==
  /\ current = "shell" /\ pc = "poll"
  /\ pc' = IF QUEUE.tail = QUEUE.head THEN "empty" ELSE "load"
  /\ UNCHANGED <<current, state, INPUT, QUEUE, byte, KEYBOARD, hung, read, key>>

DequeueLoad ==
  /\ current = "shell" /\ pc = "load"
  /\ byte' = QUEUE.slots[QUEUE.tail]
  /\ pc' = "store"
  /\ UNCHANGED <<current, state, INPUT, QUEUE, KEYBOARD, hung, read, key>>

DequeueStore ==
  /\ current = "shell" /\ pc = "store"
  /\ QUEUE' = [QUEUE EXCEPT !.tail = (@ + 1) % QUEUE_CAPACITY]
  /\ key' = <<byte>>
  /\ pc' = "poll"
  /\ UNCHANGED <<current, state, INPUT, byte, KEYBOARD, hung, read>>

\* enable_and_hlt, after a dequeue_key that returned nothing.  A key that has
\* come since is in the queue while the processor halts.
Halt ==
  /\ current = "shell" /\ pc = "empty"
  /\ pc' = "halt"
  /\ UNCHANGED <<current, state, INPUT, QUEUE, byte, KEYBOARD, hung, read, key>>

\* The shell starts a program while it executes a command.
Launch(u) ==
  /\ current = "shell" /\ pc = "poll"
  /\ state[u] = "none"
  /\ state' = [state EXCEPT ![u] = "ready"]
  /\ UNCHANGED <<current, INPUT, QUEUE, pc, byte, KEYBOARD, hung, read, key>>

(* ------------------------------ programs ------------------------------- *)

\* fd_read on a copy of standard input: blocks while there is no byte, and
\* reads again when woken.  (On descriptor 0 itself it returns EAGAIN.)
FdRead(u, size) ==
  /\ current = u
  /\ IF INPUT.length = 0
     THEN /\ state' = [state EXCEPT ![u] = "blocked"]
          /\ current' = NextTask(Ready(state'))
          /\ UNCHANGED <<INPUT, read>>
     ELSE /\ read_available(size)
          /\ state' = WakeAllBlocked(state)
          /\ UNCHANGED current
  /\ UNCHANGED <<QUEUE, pc, byte, KEYBOARD, hung, key>>

\* sys_read: takes what there is, and returns 0 when there is nothing.
SysRead(u, size) ==
  /\ current = u
  /\ INPUT.length > 0
  /\ read_available(size)
  /\ UNCHANGED <<current, state, QUEUE, pc, byte, KEYBOARD, hung, key>>

\* A program exits; bytes it has not read stay for the next one.
Exit(u) ==
  /\ current = u
  /\ state' = [state EXCEPT ![u] = "none"]
  /\ current' = NextTask(Ready(state'))
  /\ UNCHANGED <<INPUT, QUEUE, pc, byte, KEYBOARD, hung, read, key>>

ShellStep == ~hung /\ (DequeueTest \/ DequeueLoad \/ DequeueStore \/ Halt)
Tick == ~hung /\ TimerInterrupt

Next ==
  \/ ShellStep
  \/ Tick
  \/ /\ ~hung
     /\ \/ \E b \in Keys : KeyForProgram(b) \/ KeyForShell(b)
        \/ \E group \in SUBSET Users : InterruptGroup(group)
        \/ KeyboardSpins
        \/ \E u \in Users : Launch(u) \/ Exit(u)
        \/ \E u \in Users, size \in READ_SIZES : FdRead(u, size) \/ SysRead(u, size)

\* The timer keeps ticking, and a task that is given the processor again and
\* again gets somewhere: a tick leaves time for more than one step.
Spec == Init /\ [][Next]_vars /\ WF_vars(Tick) /\ SF_vars(ShellStep)

(* ------------------------------ properties ----------------------------- *)

Input == INSTANCE BoundedQueue WITH
  CAPACITY <- INPUT_CAPACITY,
  items <- [i \in 1 .. INPUT.length |-> INPUT.bytes[(INPUT.head + i - 1) % INPUT_CAPACITY]],
  taken <- read

\* The ring of drivers/input.rs is a queue of INPUT_CAPACITY bytes: programs
\* read the keys in the order they were typed, however push and read
\* interleave and wrap, and a full ring loses the new key and no other.
InputIsQueue == Input!Spec

QueueLength == (QUEUE.head + QUEUE_CAPACITY - QUEUE.tail) % QUEUE_CAPACITY
Queue == INSTANCE BoundedQueue WITH
  CAPACITY <- QUEUE_CAPACITY - 1,
  items <- [i \in 1 .. QueueLength |-> QUEUE.slots[(QUEUE.tail + i - 1) % QUEUE_CAPACITY]],
  taken <- key

\* The shell's ring without a lock is a queue of QUEUE_CAPACITY - 1 keys, with
\* the interrupt handler's enqueue_key falling between any two accesses of
\* dequeue_key: the byte the shell loaded is the one it then removes.
QueueIsQueue == Queue!Spec

\* A program that is blocked in fd_read has missed no character: the keyboard
\* handler wakes it with every one, and every read that leaves bytes behind
\* wakes the other readers.  Only arrow keys and their like can be waiting.
CharactersWake ==
  (\E u \in Users : state[u] = "blocked") =>
    \A i \in 0 .. INPUT.length - 1 : INPUT.bytes[(INPUT.head + i) % INPUT_CAPACITY] \in SpecialKeys

\* A key in the shell's queue is taken out of it: neither a key that comes
\* between the failed dequeue_key and the hlt, nor programs that keep the
\* processor busy, delay the shell for ever.  (Unless the keyboard handler
\* hangs on its lock, which no key survives.)
ShellTakesKeys ==
  \A t \in 0 .. QUEUE_CAPACITY - 1 :
    (QUEUE.tail = t /\ QUEUE.head # t) ~> (QUEUE.tail # t \/ hung)
=============================================================================
