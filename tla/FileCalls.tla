----------------------------- MODULE FileCalls -----------------------------
(***************************************************************************)
(* Open files (tasking/fd.rs) and the system calls on files and directories*)
(* (arch/syscall.rs).  A file opened for writing is a buffer that every    *)
(* write extends and stores again as the whole file; a file opened for     *)
(* reading is a copy with one offset.  Descriptors made by dup2 and by the *)
(* mappings of a spawn share them.  All of it runs with interrupts masked, *)
(* so a call is one step.                                                  *)
(*                                                                         *)
(* The data disk is what FileStore promises: an operation happens whole or,*)
(* when it fails, not at all.  The paths are in the root directory.        *)
(***************************************************************************)
EXTENDS Integers, Sequences, SequencesExt

CONSTANTS Order,               \* the paths, in the order a directory lists them
          Handles,             \* entries of the tasks' descriptor tables
          Inputs,              \* what is written at a time
          RADIX,               \* 10 in the code
          MAX_FILE,            \* max_file_size of the data disk
          BLOCK_SIZE,          \* size of a directory
          MAX_READ,            \* 1024 * 1024 in create_file_read
          MAX_SYSCALL_BUFFER,
          MAX_CONTENTS,        \* bound: bytes handed to one open file
          OPEN_FILES           \* bound: files open at a time

\* What the constants must satisfy.
FileCallsAssumption ==
    /\ {MAX_FILE, BLOCK_SIZE, MAX_READ, MAX_SYSCALL_BUFFER, MAX_CONTENTS, OPEN_FILES} \subseteq Nat
    /\ RADIX \in Nat \ {0, 1} /\ \A i, j \in DOMAIN Order : Order[i] = Order[j] => i = j

VARIABLES files,   \* what each path names
          open,    \* the open files, shared by descriptors
          fds,     \* the open file behind each descriptor, 0 for none
          origin,  \* for each descriptor, the opening it goes back to
          log      \* for each opening, what its users were told

vars == <<files, open, fds, origin, log>>

Paths == ToSet(Order)
Opens == 1..OPEN_FILES

Absent == [is |-> "absent"]
Dir == [is |-> "dir"]
File(contents) == [is |-> "file", contents |-> contents]

None == [is |-> "none"]
FileWrite(path, contents) == [is |-> "write", path |-> path, contents |-> contents]
FileRead(contents, offset) == [is |-> "read", contents |-> contents, offset |-> offset]

\* An opening: bytes its users were told are written or were given, whether a
\* write failed, the copy it reads, and the path it was the last to store.
Opening(copy, stored) == [told |-> <<>>, failed |-> FALSE, copy |-> copy, stored |-> stored]

Init ==
    /\ files = [p \in Paths |-> Absent]
    /\ open = [s \in Opens |-> None]
    /\ fds = [h \in Handles |-> 0]
    /\ origin = [h \in Handles |-> 0]
    /\ log = [s \in Opens |-> Opening(<<>>, {})]

\* The file at a path is replaced or created; a directory is not.
write_file(path, contents) ==
    /\ Len(contents) <= MAX_FILE
    /\ files[path] # Dir
    /\ files' = [files EXCEPT ![path] = File(contents)]

\* Who stored the file at a path last: s, or nobody that has it open for 0.
StoredBy(l, path, s) ==
    [t \in Opens |-> [l[t] EXCEPT !.stored = IF t = s THEN {path} ELSE @ \ {path}]]

Bind(h, s) == fds' = [fds EXCEPT ![h] = s] /\ origin' = [origin EXCEPT ![h] = s]

create_file_write(h, s, path) ==
    /\ fds[h] = 0 /\ open[s] = None
    /\ write_file(path, <<>>)
    /\ open' = [open EXCEPT ![s] = FileWrite(path, <<>>)]
    /\ Bind(h, s)
    /\ log' = StoredBy([log EXCEPT ![s] = Opening(<<>>, {})], path, s)

create_file_read(h, s, path) ==
    /\ fds[h] = 0 /\ open[s] = None
    /\ files[path].is = "file"
    /\ Len(files[path].contents) <= MAX_READ
    /\ open' = [open EXCEPT ![s] = FileRead(files[path].contents, 0)]
    /\ Bind(h, s)
    /\ log' = [log EXCEPT ![s] = Opening(files[path].contents, {})]
    /\ UNCHANGED files

\* A descriptor goes; with the last one, the open file.
Drop(h, table, opened) ==
    [s \in Opens |-> IF s = fds[h] /\ \A other \in Handles : table[other] # s
                     THEN None ELSE opened[s]]

\* Mutant: a clone gets the open file itself, not a reference to it.
CloneDeep(from, to) ==
    \E s \in Opens :
        LET table == [fds EXCEPT ![to] = s]
        IN  /\ open[s] = None
            /\ fds' = table
            /\ open' = Drop(to, table, [open EXCEPT ![s] = open[fds[from]]])

Clone(from, to) ==
    LET table == [fds EXCEPT ![to] = fds[from]]
    IN  fds' = table /\ open' = Drop(to, table, open)

\* dup2, and the mapping of a descriptor into the table of a new task.
Duplicate(from, to) ==
    /\ from # to /\ fds[from] # 0
    /\ Clone(from, to)
    /\ origin' = [origin EXCEPT ![to] = origin[from]]
    /\ UNCHANGED <<files, log>>

\* close, and the end of a task.
Close(h) ==
    /\ fds[h] # 0
    /\ fds' = [fds EXCEPT ![h] = 0]
    /\ origin' = [origin EXCEPT ![h] = 0]
    /\ open' = Drop(h, [fds EXCEPT ![h] = 0], open)
    /\ UNCHANGED <<files, log>>

\* The buffer grows before the file is stored, and stays so when that fails.
Write(h, input) ==
    LET f == open[fds[h]]
        grown == f.contents \o input
        s == origin[h]
    IN  /\ fds[h] # 0 /\ f.is = "write"
        /\ Len(grown) <= MAX_CONTENTS
        /\ open' = [open EXCEPT ![fds[h]].contents = grown]
        /\ \/ /\ write_file(f.path, grown)
              /\ log' = StoredBy([log EXCEPT ![s].told = @ \o input], f.path, s)
           \/ /\ log' = [log EXCEPT ![s].failed = TRUE]
              /\ UNCHANGED files
        /\ UNCHANGED <<fds, origin>>

Read(h, capacity) ==
    LET f == open[fds[h]]
        until == IF f.offset + capacity < Len(f.contents) THEN f.offset + capacity
                 ELSE Len(f.contents)
    IN  /\ fds[h] # 0 /\ f.is = "read"
        /\ open' = [open EXCEPT ![fds[h]].offset = until]
        /\ log' = [log EXCEPT ![origin[h]].told = @ \o SubSeq(f.contents, f.offset + 1, until)]
        /\ UNCHANGED <<files, fds, origin>>

\* write_file as a system call, and as the shell's write and edit.
sys_write_file(path, contents) ==
    /\ write_file(path, contents)
    /\ log' = StoredBy(log, path, 0)
    /\ UNCHANGED <<open, fds, origin>>

\* mkdir, rm and rmdir of the shell; open files know nothing of them.
MakeDirectory(path) ==
    /\ files[path] = Absent
    /\ files' = [files EXCEPT ![path] = Dir]
    /\ UNCHANGED <<open, fds, origin, log>>

Delete(path) ==
    /\ files[path] # Absent
    /\ files' = [files EXCEPT ![path] = Absent]
    /\ log' = StoredBy(log, path, 0)
    /\ UNCHANGED <<open, fds, origin>>

Next ==
    \/ \E h \in Handles, s \in Opens, path \in Paths :
          create_file_write(h, s, path) \/ create_file_read(h, s, path)
    \/ \E from, to \in Handles : Duplicate(from, to)
    \/ \E h \in Handles : Close(h)
    \/ \E h \in Handles, input \in Inputs : Write(h, input)
    \/ \E h \in Handles, capacity \in 1..MAX_READ : Read(h, capacity)
    \/ \E path \in Paths, contents \in Inputs : sys_write_file(path, contents)
    \/ \E path \in Paths : MakeDirectory(path) \/ Delete(path)

Spec == Init /\ [][Next]_vars

(* ------------------------------- list_dir ------------------------------ *)

append_decimal ==
    LET digits[n \in 0..(MAX_FILE + BLOCK_SIZE)] ==
            IF n < RADIX THEN <<n>> ELSE Append(digits[n \div RADIX], n % RADIX)
    IN  digits

Size(path) == IF files[path] = Dir THEN BLOCK_SIZE ELSE Len(files[path].contents)

Slash(path) == IF files[path] = Dir THEN <<"/">> ELSE <<>>

\* One entry: size, blank, name, a slash for a directory, newline; what does
\* not fit is taken back.
Visit(output, path, capacity) ==
    LET digits == append_decimal[Size(path)]
        numbered == Len(output) + Len(digits)
        required == Len(path) + Len(Slash(path)) + 1
    IN  IF \/ Len(output) >= capacity
           \/ numbered > MAX_SYSCALL_BUFFER
           \/ numbered + 1 > capacity
           \/ numbered + 1 + required > capacity
        THEN output
        ELSE output \o digits \o <<" ">> \o path \o Slash(path) \o <<"\n">>

sys_list_dir(capacity) ==
    LET entries == SelectSeq(Order, LAMBDA p : files[p] # Absent)
    IN  FoldLeft(LAMBDA output, p : Visit(output, p, capacity), <<>>, entries)

(* ------------------------------ properties ----------------------------- *)

IsSubsequence(part, whole) ==
    FoldLeft(LAMBDA rest, b : IF rest # <<>> /\ b = rest[1] THEN Tail(rest) ELSE rest,
             part, whole) = <<>>

\* What the writers of one opening were told is written is in the file, in that
\* order, as long as nobody else stores the path: also when several tasks share
\* the opening, when calls in between failed, and when the file was removed
\* and came back with a later write.  Without a failure nothing else is in it;
\* the bytes of a call that failed are stored by the next one that succeeds.
FileHasWhatWasWritten ==
    \A s \in Opens : \A path \in log[s].stored :
        /\ IsSubsequence(log[s].told, files[path].contents)
        /\ ~log[s].failed => log[s].told = files[path].contents

\* The readers of one opening are given, together, a prefix of the file as it
\* was when it was opened: no byte twice, none skipped, none written later.
ReadersShareCopy ==
    \A s \in Opens : (\E h \in Handles : origin[h] = s /\ open[fds[h]].is = "read") =>
        IsPrefix(log[s].told, log[s].copy)

\* A listing has whole lines only and never more than the caller's buffer: each
\* entry that still fits, in order, for every capacity the call accepts.
ListingIsLines ==
    \A capacity \in 0..MAX_SYSCALL_BUFFER :
        LET line(p) == append_decimal[Size(p)] \o <<" ">> \o p \o Slash(p) \o <<"\n">>
            greedy(output, p) == IF Len(output \o line(p)) <= capacity
                                 THEN output \o line(p) ELSE output
        IN  sys_list_dir(capacity) =
                FoldLeft(greedy, <<>>, SelectSeq(Order, LAMBDA p : files[p] # Absent))
=============================================================================
