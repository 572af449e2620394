------------------------------ MODULE Pipelines ------------------------------
(***************************************************************************)
(* Descriptors and pipes at work: the scheduler of Tasking, the descriptor *)
(* system calls of arch/syscall.rs, and the shell that starts pipelines    *)
(* and collects the programs that have finished.  Every action conjoins    *)
(* the Tasking action its code performs with what it does to descriptors.  *)
(*                                                                         *)
(* A system call runs with interrupts masked.  One that blocks (FdRead,    *)
(* FdWrite, Wait) runs its loop again when its task is switched back to.   *)
(* Calls that fail without changing anything are stuttering steps: EAGAIN  *)
(* on fd 0, EINVAL, EIO, EPIPE on the first attempt.  Sleeping, which      *)
(* touches no descriptor, is left to Tasking, and so is the idle task: the *)
(* shell halts within its own slices and never leaves the run queue.       *)
(***************************************************************************)
EXTENDS Tasking, FileDescriptors

CONSTANTS
  Named,     \* the descriptor numbers programs pass to system calls
  Counts,    \* byte counts of reads and writes
  Dups,      \* the <<source, target>> pairs programs pass to dup2
  Jobs,      \* what the shell is asked to launch: "app", "pipeline"
  Redirects  \* the redirections of a command line: sets of "<" and ">"

ASSUME PipelinesAssumption ==
  /\ MAX_ID >= 3   \* the shell and the idle task take two ids
  /\ Named \subseteq Fds
  /\ Counts \subseteq Nat \ {0}
  /\ Dups \subseteq Fds \X Fds
  /\ Jobs \subseteq {"app", "pipeline"}
  /\ Redirects \subseteq SUBSET {"<", ">"}

VARIABLES
  fds,     \* per slot: Task::fds, EmptyTable for an empty slot
  pipes,   \* the pipes' shared state
  call,    \* per slot: the fd_read or fd_write call the task is inside
  shell,   \* where launch_app or launch_pipeline is, and its local variables
  apps     \* ids in the shell's running_apps

pvars == <<vars, fds, pipes, call, shell, apps>>

NoCall == [op |-> "none", fd |-> 0, count |-> 0]
Calls == [op : {"read", "write"}, fd : Fds, count : Counts]

\* pc is the next step: open a redirection, spawn a side, close a descriptor.
AtPrompt == [pc |-> "prompt", job |-> "app", redirects |-> {},
             read |-> NONE, write |-> NONE, input |-> NONE, output |-> NONE,
             left |-> NONE, right |-> NONE, closing |-> <<>>]

ShellType(s) ==
  /\ s.pc \in {"prompt", "input", "output", "left", "right", "close"}
  /\ {s.read, s.write, s.input, s.output} \subseteq Fds \cup {NONE}
  /\ {s.left, s.right} \subseteq TaskIds \cup {NONE}
  /\ \A n \in DOMAIN s.closing : s.closing[n] \in Fds

SHELL == 0   \* main.rs spawns the shell first and then calls run_tasks
IDLE == 1

PipesInit ==
  /\ tasks = [i \in Slots |->
                CASE i = SHELL -> [NewTask(1, NONE, FALSE, FALSE) EXCEPT !.state = "Running"]
                  [] i = IDLE  -> NewTask(2, NONE, TRUE, FALSE)
                  [] OTHER -> EmptySlot]
  /\ current = SHELL
  /\ next_id = 3
  /\ idle_index = IDLE
  /\ ticks = 0
  /\ waiting = [i \in Slots |-> NONE]
  /\ idle_pc = "check"
  /\ boot = "switched"
  /\ fds = [i \in Slots |-> IF i \in {SHELL, IDLE} THEN InitialTable ELSE EmptyTable]
  /\ pipes = [p \in Pipes |-> NoPipe]
  /\ call = [i \in Slots |-> NoCall]
  /\ shell = AtPrompt
  /\ apps = {}

-----------------------------------------------------------------------------
ProgramRuns == UserTaskRuns /\ call[current] = NoCall
ShellRuns == current = SHELL

MyTable == fds[current]
SetMyTable(s) ==
  /\ fds' = [fds EXCEPT ![current] = s.table]
  /\ pipes' = s.pipes

(***************************************************************************)
(* fd_read and fd_write.                                                   *)
(***************************************************************************)
Inside(c) == UserTaskRuns /\ call[current] \in {NoCall, c}
Return == call' = [call EXCEPT ![current] = NoCall]
BlockIn(c) ==
  /\ BlockNow
  /\ call' = [call EXCEPT ![current] = c]
  /\ UNCHANGED pipes

\* Mutant: bytes taken out of a pipe wake nobody.
FdReadQuiet(fd, count) ==
  LET d == MyTable[fd]
      c == [op |-> "read", fd |-> fd, count |-> count]
  IN  /\ Inside(c)
      /\ \/ /\ d.kind = "PipeRead"
            /\ ~ReadWouldBlock(pipes, d)
            /\ pipes' = PipeRead(pipes, d.pipe, count)
            /\ Return
            /\ UNCHANGED vars
         \/ /\ ReadWouldBlock(pipes, d)
            /\ fd # STDIN
            /\ BlockIn(c)
         \/ /\ d.kind = "Stdin"
            /\ \/ WakeAllBlockedTasks /\ Return /\ UNCHANGED pipes
               \/ fd # STDIN /\ BlockIn(c)
         \/ /\ d.kind = "FileRead"
            /\ WakeAllBlockedTasks /\ Return /\ UNCHANGED pipes
      /\ UNCHANGED <<fds, shell, apps>>

FdRead(fd, count) ==
  LET d == MyTable[fd]
      c == [op |-> "read", fd |-> fd, count |-> count]
  IN  /\ Inside(c)
      /\ \/ /\ d.kind = "PipeRead"
            /\ ~ReadWouldBlock(pipes, d)
            /\ pipes' = PipeRead(pipes, d.pipe, count)
            /\ WakeAllBlockedTasks
            /\ Return
         \/ /\ ReadWouldBlock(pipes, d)
            /\ fd # STDIN
            /\ BlockIn(c)
         \/ /\ d.kind = "Stdin"   \* keyboard input is there, or not
            /\ \/ WakeAllBlockedTasks /\ Return /\ UNCHANGED pipes
               \/ fd # STDIN /\ BlockIn(c)
         \/ /\ d.kind = "FileRead"
            /\ WakeAllBlockedTasks /\ Return /\ UNCHANGED pipes
      /\ UNCHANGED <<fds, shell, apps>>

FdWrite(fd, count) ==
  LET d == MyTable[fd]
      c == [op |-> "write", fd |-> fd, count |-> count]
  IN  /\ Inside(c)
      /\ \/ /\ d.kind \in {"Console", "FileWrite"}
            /\ WakeAllBlockedTasks
            /\ Return
            /\ UNCHANGED pipes
         \/ /\ BrokenPipe(pipes, d)
            /\ call[current] = c
            /\ Return
            /\ UNCHANGED <<vars, pipes>>
         \/ /\ WriteWouldBlock(pipes, d)
            /\ BlockIn(c)
         \/ /\ d.kind = "PipeWrite"
            /\ ~BrokenPipe(pipes, d)
            /\ ~WriteWouldBlock(pipes, d)
            /\ pipes' = PipeWrite(pipes, d.pipe, count)
            /\ WakeAllBlockedTasks
            /\ Return
      /\ UNCHANGED <<fds, shell, apps>>

(***************************************************************************)
(* pipe, close and dup2.                                                   *)
(***************************************************************************)
NewPipe == Least(FreePipes(pipes))

\* create_pipe_for_current: both ends go to the lowest free descriptors.
CreatePipe ==
  LET r == Least(FreeFds(MyTable))
      w == Least(FreeFds(MyTable) \ {r})
  IN  /\ Cardinality(FreeFds(MyTable)) >= 2
      /\ FreePipes(pipes) # {}
      /\ SetMyTable([table |-> [MyTable EXCEPT ![r] = ReadEnd(NewPipe), ![w] = WriteEnd(NewPipe)],
                     pipes |-> [pipes EXCEPT ![NewPipe] =
                                  [length |-> 0, readers |-> 1, writers |-> 1]]])

SysPipe ==
  /\ ProgramRuns
  /\ CreatePipe
  /\ UNCHANGED <<vars, call, shell, apps>>

\* close_current_fd drops the descriptor and wakes everybody who is blocked.
CloseCurrentFd(fd) ==
  /\ fd \in OpenFds(MyTable)
  /\ SetMyTable(TakeFd([table |-> MyTable, pipes |-> pipes], fd))
  /\ WakeAllBlockedTasks

SysClose(fd) ==
  /\ ProgramRuns
  /\ CloseCurrentFd(fd)
  /\ UNCHANGED <<call, shell, apps>>

SysDup2(source, target) ==
  /\ ProgramRuns
  /\ source # target
  /\ source \in OpenFds(MyTable)
  /\ SetMyTable(DupInto([table |-> MyTable, pipes |-> pipes], source, target))
  /\ UNCHANGED <<vars, call, shell, apps>>

(***************************************************************************)
(* Tasks come and go.  A terminated task keeps its descriptors until it is *)
(* reaped.                                                                 *)
(***************************************************************************)
\* create_user_task with the descriptors its caller asks for.
SpawnWith(mappings, closes) ==
  LET slot == Least(EmptySlots(tasks))
      child == ChildTable(pipes, MyTable, mappings, closes)
  IN  /\ SpawnUser
      /\ fds' = [fds EXCEPT ![slot] = child.table]
      /\ pipes' = child.pipes
      /\ call' = [call EXCEPT ![slot] = NoCall]

SysSpawn ==
  /\ ProgramRuns
  /\ SpawnWith(<<>>, <<>>)
  /\ UNCHANGED <<shell, apps>>

SysExit(code) ==
  /\ ProgramRuns
  /\ ExitCurrent(code)
  /\ UNCHANGED <<fds, pipes, call, shell, apps>>

\* Ctrl-C while a program runs.
Interrupt(code) ==
  /\ ProgramRuns
  /\ ExitCurrentGroup(code)
  /\ UNCHANGED <<fds, pipes, call, shell, apps>>

\* Any other key while a program runs goes to its input queue and wakes
\* whoever is blocked.
Key ==
  /\ ProgramRuns
  /\ WakeAllBlockedTasks
  /\ UNCHANGED <<fds, pipes, call, shell, apps>>

\* Setting a table slot to None drops the task's descriptors.
DropReaped ==
  LET reaped == {i \in Slots : tasks[i].state # "Empty" /\ tasks'[i].state = "Empty"}
  IN  \/ /\ reaped = {}
         /\ UNCHANGED <<fds, pipes>>
      \/ \E i \in reaped :
           /\ fds' = [fds EXCEPT ![i] = EmptyTable]
           /\ pipes' = DropTable(pipes, fds[i])

SysWait(child) ==
  /\ UserTaskRuns \/ (current # NONE /\ waiting[current] # NONE)
  /\ call[current] = NoCall
  /\ WaitForChild(child)
  /\ DropReaped
  /\ UNCHANGED <<call, shell, apps>>

SysYield ==
  /\ ProgramRuns
  /\ YieldNow
  /\ UNCHANGED <<fds, pipes, call, shell, apps>>

\* The timer interrupt, outside system calls.
Tick ==
  /\ call[current] = NoCall
  /\ TimerTick
  /\ UNCHANGED <<fds, pipes, call, shell, apps>>

-----------------------------------------------------------------------------
(***************************************************************************)
(* The shell.  launch_app and launch_pipeline open what the command line   *)
(* asks for, spawn the programs, close the shell's own descriptors and     *)
(* only then record the tasks.  Each step is a critical section of the     *)
(* scheduler; the timer may preempt between them.  Opening a file fails    *)
(* when the file system or the table cannot serve it, and a program that   *)
(* cannot be loaded or spawned is passed over.                             *)
(***************************************************************************)
Opened(fd) == IF fd = NONE THEN <<>> ELSE <<fd>>
Mapping(source, target) ==
  IF source = NONE THEN <<>> ELSE <<[source |-> source, target |-> target]>>

\* The first step of a command, and the one after its input is open.
FirstStep(redirects) ==
  IF "<" \in redirects THEN "input" ELSE IF ">" \in redirects THEN "output" ELSE "left"
SecondStep(redirects) == IF ">" \in redirects THEN "output" ELSE "left"

\* The tasks recorded in running_apps: of a pipeline both or none.
Recorded(s) ==
  IF s.job = "pipeline" /\ NONE \in {s.left, s.right} THEN {} ELSE {s.left, s.right} \ {NONE}

\* Go on to close the given descriptors, or finish when there are none.
ThenClose(s, closing) ==
  /\ shell' = IF closing = <<>> THEN AtPrompt ELSE [s EXCEPT !.pc = "close", !.closing = closing]
  /\ apps' = IF closing = <<>> THEN apps \cup Recorded(s) ELSE apps

LaunchApp(redirects) ==
  /\ ShellRuns
  /\ shell.pc = "prompt"
  /\ Cardinality(apps) + 1 <= MAX_TASKS
  /\ shell' = [AtPrompt EXCEPT !.pc = FirstStep(redirects), !.redirects = redirects]
  /\ UNCHANGED <<vars, fds, pipes, call, apps>>

LaunchPipeline(redirects) ==
  LET r == Least(FreeFds(MyTable))
      w == Least(FreeFds(MyTable) \ {r})
  IN  /\ ShellRuns
      /\ shell.pc = "prompt"
      /\ Cardinality(apps) + 2 <= MAX_TASKS
      /\ CreatePipe
      /\ shell' = [AtPrompt EXCEPT !.pc = FirstStep(redirects), !.job = "pipeline",
                                   !.redirects = redirects, !.read = r, !.write = w]
      /\ UNCHANGED <<vars, call, apps>>

\* create_file_read_for_current and create_file_write_for_current.
CreateFile(descriptor) ==
  /\ FreeFds(MyTable) # {}
  /\ fds' = [fds EXCEPT ![current] = [@ EXCEPT ![Least(FreeFds(MyTable))] = descriptor]]

PipeEnds == Opened(shell.read) \o Opened(shell.write)

OpenInput ==
  /\ ShellRuns
  /\ shell.pc = "input"
  /\ \/ /\ CreateFile(FileRead)
        /\ shell' = [shell EXCEPT !.pc = SecondStep(shell.redirects),
                                  !.input = Least(FreeFds(MyTable))]
        /\ UNCHANGED apps
     \/ ThenClose(shell, PipeEnds) /\ UNCHANGED fds
  /\ UNCHANGED <<vars, pipes, call>>

\* A pipeline whose output cannot be opened closes its ends but not its input.
OpenOutput ==
  /\ ShellRuns
  /\ shell.pc = "output"
  /\ \/ /\ CreateFile(FileWrite)
        /\ shell' = [shell EXCEPT !.pc = "left", !.output = Least(FreeFds(MyTable))]
        /\ UNCHANGED apps
     \/ /\ ThenClose(shell, IF shell.job = "app" THEN Opened(shell.input) ELSE PipeEnds)
        /\ UNCHANGED fds
  /\ UNCHANGED <<vars, pipes, call>>

\* Spawn with these mappings and closes, or not at all, and go on from s.
Start(mappings, closes, started, notStarted) ==
  \/ SpawnWith(mappings, closes) /\ started
  \/ UNCHANGED <<vars, fds, pipes, call>> /\ notStarted

SpawnApp ==
  LET files == Opened(shell.input) \o Opened(shell.output)
  IN  /\ ShellRuns
      /\ shell.job = "app" /\ shell.pc = "left"
      /\ Start(Mapping(shell.input, STDIN) \o Mapping(shell.output, STDOUT), files,
               ThenClose([shell EXCEPT !.left = next_id], files),
               ThenClose(shell, files))

\* Mutant: a program that cannot be loaded ends the launch there and then.
SpawnLeftOrGiveUp ==
  /\ ShellRuns
  /\ shell.job = "pipeline" /\ shell.pc = "left"
  /\ Start(Mapping(shell.input, STDIN) \o Mapping(shell.write, STDOUT),
           <<shell.read, IF shell.input = NONE THEN shell.write ELSE shell.input>>,
           shell' = [shell EXCEPT !.pc = "right", !.left = next_id],
           shell' = AtPrompt)
  /\ UNCHANGED apps

SpawnLeft ==
  /\ ShellRuns
  /\ shell.job = "pipeline" /\ shell.pc = "left"
  /\ Start(Mapping(shell.input, STDIN) \o Mapping(shell.write, STDOUT),
           <<shell.read, IF shell.input = NONE THEN shell.write ELSE shell.input>>,
           shell' = [shell EXCEPT !.pc = "right", !.left = next_id],
           shell' = [shell EXCEPT !.pc = "right"])
  /\ UNCHANGED apps

\* Mutant: the right side keeps its copy of the write end.
SpawnRightLeaky ==
  LET closing == PipeEnds \o Opened(shell.output) \o Opened(shell.input)
  IN  /\ ShellRuns
      /\ shell.pc = "right"
      /\ Start(Mapping(shell.read, STDIN) \o Mapping(shell.output, STDOUT),
               Opened(shell.output),
               ThenClose([shell EXCEPT !.right = next_id], closing),
               ThenClose(shell, closing))

SpawnRight ==
  LET closing == PipeEnds \o Opened(shell.output) \o Opened(shell.input)
  IN  /\ ShellRuns
      /\ shell.pc = "right"
      /\ Start(Mapping(shell.read, STDIN) \o Mapping(shell.output, STDOUT),
               <<shell.write>> \o Opened(shell.output),
               ThenClose([shell EXCEPT !.right = next_id], closing),
               ThenClose(shell, closing))

CloseNext ==
  /\ ShellRuns
  /\ shell.pc = "close"
  /\ CloseCurrentFd(Head(shell.closing))
  /\ ThenClose(shell, Tail(shell.closing))
  /\ UNCHANGED call

\* report_finished_apps: the app is forgotten even when its reap fails.
ReportFinished(id) ==
  /\ ShellRuns
  /\ shell.pc = "prompt"
  /\ id \in apps
  /\ \/ ReapTerminated(id) /\ DropReaped
     \/ /\ \E i \in SlotsOf(tasks, id) : tasks[i].state = "Terminated"
        /\ UNCHANGED <<vars, fds, pipes>>
     \/ /\ SlotsOf(tasks, id) = {}
        /\ UNCHANGED <<vars, fds, pipes>>
  /\ apps' = apps \ {id}
  /\ UNCHANGED <<call, shell>>

\* The kill command, and one step of interrupt_running_apps.
KillApp(id, code) ==
  /\ ShellRuns
  /\ shell.pc = "prompt"
  /\ TerminateTask(id, code)
  /\ UNCHANGED <<fds, pipes, call, shell, apps>>

-----------------------------------------------------------------------------
PipesNext ==
  \/ \E fd \in Named, count \in Counts : FdRead(fd, count) \/ FdWrite(fd, count)
  \/ SysPipe
  \/ \E fd \in Named : SysClose(fd)
  \/ \E d \in Dups : SysDup2(d[1], d[2])
  \/ SysSpawn
  \/ \E code \in ExitCodes : SysExit(code) \/ Interrupt(code)
  \/ \E child \in TaskIds \cup {ANY} : SysWait(child)
  \/ SysYield
  \/ Key
  \/ Tick
  \/ \E redirects \in Redirects :
       \/ "app" \in Jobs /\ LaunchApp(redirects)
       \/ "pipeline" \in Jobs /\ LaunchPipeline(redirects)
  \/ OpenInput
  \/ OpenOutput
  \/ SpawnApp
  \/ SpawnLeft
  \/ SpawnRight
  \/ CloseNext
  \/ \E id \in TaskIds : ReportFinished(id)
  \/ \E id \in TaskIds, code \in ExitCodes : KillApp(id, code)

PipesSpec == PipesInit /\ [][PipesNext]_pvars

-----------------------------------------------------------------------------
\* The reader and writer counts of a pipe are exactly the descriptors that
\* exist, whatever was cloned into children, mapped, duplicated over,
\* closed, or dropped with a reaped task: neither an early end of file or
\* broken pipe, nor a pipe that stays open for ever.
CountsExact ==
  \A p \in Pipes : /\ pipes[p].readers = HoldersOf(fds, ReadEnd(p))
                   /\ pipes[p].writers = HoldersOf(fds, WriteEnd(p))

BlockedIn(i, op) == tasks[i].state = "Blocked" /\ call[i].op = op

\* No wakeup for data or for room is lost: a task blocked in a read waits on
\* an empty pipe and one blocked in a write on a full pipe.
BlockedForCause ==
  \A i \in Slots :
    LET d == fds[i][call[i].fd]
    IN  /\ BlockedIn(i, "read") /\ d.kind = "PipeRead" => pipes[d.pipe].length = 0
        /\ BlockedIn(i, "write") => pipes[d.pipe].length = PIPE_CAPACITY

PipeFds(table) == {f \in Fds : table[f].kind \in {"PipeRead", "PipeWrite"}}

\* Once the shell is back at its prompt it holds no end of any pipe, whatever
\* could not be opened, loaded or spawned: else a reader of the pipeline would
\* never see its end.
ShellKeepsNoEnds == shell.pc = "prompt" => PipeFds(fds[SHELL]) = {}

SideStarts(i, side) ==
  /\ ShellRuns /\ shell.job = "pipeline" /\ shell.pc = side
  /\ tasks[i].state = "Empty" /\ tasks'[i].state = "Ready"

\* Each side of a pipeline starts with one end of the pipe in its standard
\* place and with no other end, so that it cannot keep the pipe it reads from
\* open for writing, or the one it writes to open for reading.
SidesGetOneEnd ==
  [][\A i \in Slots :
       /\ SideStarts(i, "left") => /\ PipeFds(fds'[i]) = {STDOUT}
                                   /\ fds'[i][STDOUT].kind = "PipeWrite"
       /\ SideStarts(i, "right") => /\ PipeFds(fds'[i]) = {STDIN}
                                    /\ fds'[i][STDIN].kind = "PipeRead"]_pvars

\* wake_all_blocked_tasks is there to "wake tasks waiting for descriptor
\* activity": nobody stays blocked in a read whose writers are all gone or in
\* a write whose readers are.
EndOfPipeWakes ==
  \A i \in Slots :
    LET d == fds[i][call[i].fd]
    IN  /\ BlockedIn(i, "read") /\ d.kind = "PipeRead" => pipes[d.pipe].writers # 0
        /\ BlockedIn(i, "write") => pipes[d.pipe].readers # 0

=============================================================================
