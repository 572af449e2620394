--------------------------- MODULE FileDescriptors ---------------------------
(***************************************************************************)
(* src/kernel/src/tasking/fd.rs: descriptors, descriptor tables and pipes. *)
(*                                                                         *)
(* A table is a function from descriptor numbers to descriptors.  A pipe   *)
(* is the shared object behind an Arc: its number of buffered bytes and    *)
(* the reader and writer counts the code keeps beside the Arc.  The        *)
(* counts change where the code changes them, in Clone and in Drop; they   *)
(* are never computed from the tables.  The buffered bytes themselves are  *)
(* abstracted to their number.  A file descriptor (FileRead, FileWrite)    *)
(* never blocks; the contents behind it are abstracted away.               *)
(***************************************************************************)
EXTENDS Integers, FiniteSets, Sequences

CONSTANTS
  MAX_FDS,        \* descriptors per task (16 in the code)
  PIPE_CAPACITY,  \* bytes a pipe buffers (4096 in the code)
  MAX_PIPES       \* pipes that exist at one time (bound of the model)

ASSUME FileDescriptorsAssumption ==
  /\ MAX_FDS \in Nat /\ MAX_FDS > 3
  /\ PIPE_CAPACITY \in Nat \ {0}
  /\ MAX_PIPES \in Nat \ {0}

STDIN == 0
STDOUT == 1
STDERR == 2

Fds == 0..(MAX_FDS - 1)
Pipes == 1..MAX_PIPES

Closed == [kind |-> "Closed", pipe |-> 0]
Stdin == [kind |-> "Stdin", pipe |-> 0]
Console == [kind |-> "Console", pipe |-> 0]
FileRead == [kind |-> "FileRead", pipe |-> 0]
FileWrite == [kind |-> "FileWrite", pipe |-> 0]
ReadEnd(p) == [kind |-> "PipeRead", pipe |-> p]
WriteEnd(p) == [kind |-> "PipeWrite", pipe |-> p]

FileDescriptor ==
  {Closed, Stdin, Console, FileRead, FileWrite}
    \cup {ReadEnd(p) : p \in Pipes} \cup {WriteEnd(p) : p \in Pipes}

Pipe == [length : 0..PIPE_CAPACITY, readers : Nat, writers : Nat]
NoPipe == [length |-> 0, readers |-> 0, writers |-> 0]

EmptyTable == [f \in Fds |-> Closed]
InitialTable == [EmptyTable EXCEPT ![STDIN] = Stdin, ![STDOUT] = Console, ![STDERR] = Console]

OpenFds(table) == {f \in Fds : table[f] # Closed}
FreeFds(table) == Fds \ OpenFds(table)

\* A pipe's memory goes with its last descriptor.
FreePipes(P) == {p \in Pipes : P[p].readers = 0 /\ P[p].writers = 0}

-----------------------------------------------------------------------------
(***************************************************************************)
(* Clone and Drop of a descriptor, in pipe state P.                        *)
(***************************************************************************)
\* Mutant: a copied write end is not counted.
CloneUncounted(P, d) ==
  IF d.kind = "PipeRead" THEN [P EXCEPT ![d.pipe].readers = @ + 1] ELSE P

Clone(P, d) ==
  CASE d.kind = "PipeRead"  -> [P EXCEPT ![d.pipe].readers = @ + 1]
    [] d.kind = "PipeWrite" -> [P EXCEPT ![d.pipe].writers = @ + 1]
    [] OTHER -> P

SaturatingDec(n) == IF n = 0 THEN 0 ELSE n - 1

\* The buffered bytes of a pipe nobody holds any more are gone.
Freed(pipe) == IF pipe.readers = 0 /\ pipe.writers = 0 THEN NoPipe ELSE pipe

DropReader(pipe) ==
  Freed([pipe EXCEPT !.readers = SaturatingDec(pipe.readers)])

DropWriter(pipe) ==
  Freed([pipe EXCEPT !.writers = SaturatingDec(pipe.writers)])

Drop(P, d) ==
  CASE d.kind = "PipeRead"  -> [P EXCEPT ![d.pipe] = DropReader(@)]
    [] d.kind = "PipeWrite" -> [P EXCEPT ![d.pipe] = DropWriter(@)]
    [] OTHER -> P

\* Copying and dropping all the descriptors of a table, in order.
CloneTable(P, table) ==
  LET cloned[n \in 0..MAX_FDS] ==
        IF n = 0 THEN P ELSE Clone(cloned[n - 1], table[n - 1])
  IN  cloned[MAX_FDS]

DropTable(P, table) ==
  LET dropped[n \in 0..MAX_FDS] ==
        IF n = 0 THEN P ELSE Drop(dropped[n - 1], table[n - 1])
  IN  dropped[MAX_FDS]

-----------------------------------------------------------------------------
(***************************************************************************)
(* Operations on a table and the pipes together: s is a record of both.    *)
(***************************************************************************)
\* dup2 and one entry of fd_mappings: copy the source, close what the target
\* held, store the copy.
DupInto(s, source, target) ==
  LET d == s.table[source]
  IN  [table |-> [s.table EXCEPT ![target] = d],
       pipes |-> Drop(Clone(s.pipes, d), s.table[target])]

TakeFd(s, fd) ==
  [table |-> [s.table EXCEPT ![fd] = Closed], pipes |-> Drop(s.pipes, s.table[fd])]

\* The three loops of create_user_task: the mappings in order, then the
\* mappings' sources closed, then the listed descriptors closed.
MapAll(s, mappings) ==
  LET mapped[n \in 0..Len(mappings)] ==
        IF n = 0 THEN s ELSE DupInto(mapped[n - 1], mappings[n].source, mappings[n].target)
  IN  mapped[Len(mappings)]

TakeSource(s, m) == IF m.source # m.target THEN TakeFd(s, m.source) ELSE s

TakeSources(s, mappings) ==
  LET taken[n \in 0..Len(mappings)] ==
        IF n = 0 THEN s ELSE TakeSource(taken[n - 1], mappings[n])
  IN  taken[Len(mappings)]

TakeAll(s, closes) ==
  LET taken[n \in 0..Len(closes)] ==
        IF n = 0 THEN s ELSE TakeFd(taken[n - 1], closes[n])
  IN  taken[Len(closes)]

\* The descriptors create_user_task gives a child: a copy of its parent's,
\* changed by the three loops.
ChildTable(P, table, mappings, closes) ==
  LET copied == [table |-> table, pipes |-> CloneTable(P, table)]
  IN  TakeAll(TakeSources(MapAll(copied, mappings), mappings), closes)

(***************************************************************************)
(* Reading and writing n bytes.                                            *)
(***************************************************************************)
Lesser(m, n) == IF m < n THEN m ELSE n

ReadWouldBlock(P, d) == d.kind = "PipeRead" /\ P[d.pipe].length = 0 /\ P[d.pipe].writers # 0
PipeRead(P, p, n) == [P EXCEPT ![p].length = @ - Lesser(n, @)]

BrokenPipe(P, d) == d.kind = "PipeWrite" /\ P[d.pipe].readers = 0
WriteWouldBlock(P, d) ==
  d.kind = "PipeWrite" /\ P[d.pipe].readers # 0 /\ P[d.pipe].length = PIPE_CAPACITY

PipeWrite(P, p, n) == [P EXCEPT ![p].length = @ + Lesser(n, PIPE_CAPACITY - @)]

(***************************************************************************)
(* How many descriptors of the given tables are d.                         *)
(***************************************************************************)
HoldersOf(tables, d) ==
  Cardinality({h \in (DOMAIN tables) \X Fds : tables[h[1]][h[2]] = d})

-----------------------------------------------------------------------------
(***************************************************************************)
(* What the operations promise to those who use them, for all tables and   *)
(* pipes.  In Accounts(s, B) the table of s is one holder of descriptors   *)
(* and B counts what everybody else holds.                                 *)
(***************************************************************************)
FdTable == [Fds -> FileDescriptor]
PipeStates == [Pipes -> Pipe]
FdStates == [table : FdTable, pipes : PipeStates]
FdMapping == [source : Fds, target : Fds]
Mappings == Seq(FdMapping)

Unit(d, e) == IF d = e THEN 1 ELSE 0
Count(t, d) == Cardinality({f \in Fds : t[f] = d})

Accounts(s, B) ==
  /\ s \in FdStates
  /\ \A p \in Pipes :
       /\ s.pipes[p].readers = B[p].readers + Count(s.table, ReadEnd(p))
       /\ s.pipes[p].writers = B[p].writers + Count(s.table, WriteEnd(p))
       /\ B[p].readers # 0 \/ B[p].writers # 0 => s.pipes[p].length = B[p].length

\* The list names f.
Lists(list, f) == \E n \in 1..Len(list) : list[n] = f

\* Some mapping has this source, or this target.
IsSource(mappings, g) == \E k \in 1..Len(mappings) : mappings[k].source = g
IsTarget(mappings, g) == \E k \in 1..Len(mappings) : mappings[k].target = g

\* The mappings do not interfere with each other.
Apart(mappings) ==
  \A m, n \in 1..Len(mappings) :
    /\ mappings[m].source # mappings[n].target
    /\ m # n => mappings[m].target # mappings[n].target

\* The ends of pipes are told apart, from each other and from the rest.
EndsDiffer ==
  /\ \A p, q : ReadEnd(p) # WriteEnd(q)
  /\ \A p, q : ReadEnd(p) = ReadEnd(q) <=> p = q
  /\ \A p, q : WriteEnd(p) = WriteEnd(q) <=> p = q
  /\ \A p : ReadEnd(p) # Closed /\ WriteEnd(p) # Closed
  /\ \A p \in Pipes : ReadEnd(p) \in FileDescriptor /\ WriteEnd(p) \in FileDescriptor
  /\ \A p : /\ ReadEnd(p).kind = "PipeRead" /\ ReadEnd(p).pipe = p
            /\ WriteEnd(p).kind = "PipeWrite" /\ WriteEnd(p).pipe = p
  /\ Closed \in FileDescriptor /\ Closed.kind = "Closed"

\* Counts are numbers, and two free descriptors are two.
CountsAreNumbers ==
  /\ \A t, d : /\ Count(t, d) \in Nat
               /\ Count(t, d) = 0 <=> \A f \in Fds : t[f] # d
  /\ Cardinality({}) = 0
  /\ \A F \in SUBSET Fds : Cardinality(F) >= 2 => F # {} /\ \A f : F \ {f} # {}

\* The holders among the tables of the users D, when one of the tables changes.
HoldersAddUp(D) ==
  \A F, G \in [D -> FdTable], i \in D : (\A j \in D \ {i} : G[j] = F[j]) =>
    \A d :
      /\ HoldersOf(G, d) = HoldersOf(F, d) - Count(F[i], d) + Count(G[i], d)
      /\ HoldersOf(F, d) \in Nat
      /\ HoldersOf(F, d) >= Count(F[i], d)
      /\ \A j \in D \ {i}, f \in Fds :
           F[j][f] = d => HoldersOf(F, d) >= Count(F[i], d) + 1

\* close, dup2, open, pipe and the end of a task keep the counts of the pipes
\* what the tables hold, and the bytes of the pipes that others hold.
OperationsAccount ==
  \A B \in PipeStates, s \in FdStates : Accounts(s, B) =>
    /\ \A f \in Fds : Accounts(TakeFd(s, f), B)
    /\ \A f, g \in Fds : Accounts(DupInto(s, f, g), B)
    /\ \A f \in Fds, d \in {FileRead, FileWrite} :
         s.table[f] = Closed =>
           Accounts([table |-> [s.table EXCEPT ![f] = d], pipes |-> s.pipes], B)
    /\ \A r, w \in Fds, q \in Pipes :
         /\ r # w /\ s.table[r] = Closed /\ s.table[w] = Closed
         /\ s.pipes[q].readers = 0 /\ s.pipes[q].writers = 0
         => Accounts([table |-> [s.table EXCEPT ![r] = ReadEnd(q), ![w] = WriteEnd(q)],
                      pipes |-> [s.pipes EXCEPT
                                   ![q] = [length |-> 0, readers |-> 1, writers |-> 1]]], B)
    /\ Accounts([table |-> EmptyTable, pipes |-> DropTable(s.pipes, s.table)], B)

\* A child's table is counted, whatever is mapped and closed.  When the mappings
\* do not interfere the child gets what they say and what they do not mention.
MappedChild(c, t, mappings, closes) ==
  /\ \A g \in Fds : Lists(closes, g) \/ IsSource(mappings, g) => c[g] = Closed
  /\ \A k \in 1..Len(mappings) :
       ~Lists(closes, mappings[k].target) => c[mappings[k].target] = t[mappings[k].source]
  /\ \A g \in Fds : ~Lists(closes, g) /\ ~IsSource(mappings, g) /\ ~IsTarget(mappings, g) =>
       c[g] = t[g]

ChildrenAccount ==
  \A P \in PipeStates, t \in FdTable, mappings \in Mappings, closes \in Seq(Fds) :
    /\ Accounts(ChildTable(P, t, mappings, closes), P)
    /\ Apart(mappings) => MappedChild(ChildTable(P, t, mappings, closes).table, t, mappings, closes)

DescriptorContract(D) ==
  EndsDiffer /\ CountsAreNumbers /\ HoldersAddUp(D) /\ OperationsAccount /\ ChildrenAccount

=============================================================================
