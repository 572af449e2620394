------------------------------ MODULE MCFiles --------------------------------
(***************************************************************************)
(* Files: the ext2 data disk, the records of its directories, and the      *)
(* system calls on files.  They share no state, so that an interleaving of *)
(* them would reach nothing new: a behaviour is one of the component that  *)
(* part names, and the others keep their initial states.  Ext2 is followed *)
(* in four instances, over the same variables.                             *)
(***************************************************************************)
EXTENDS Integers, Sequences

CONSTANTS Names, NameLen, BLOCK_SIZE, NINODES, DIRECT_BLOCKS, Values,   \* of Ext2
          Handles                                                       \* of FileCalls

VARIABLES part,
          disk, phase, op, steps, undo, cleanup, failed, faults, crashes, before,
          dirty, broken, reader,           \* Ext2, Ext2Reader
          block, contents,                 \* Directory
          files, open, fds, origin, log    \* FileCalls

(* -------------------------------- the data disk ------------------------- *)

NameLenDef == [n \in Names |-> 3]
NestedPaths == {<<"a">>, <<"a", "b">>}

\* Two failing writes, also while the first is rolled back.
Failing == INSTANCE Ext2 WITH
    Paths <- NestedPaths, NBLOCKS <- 8, POINTERS <- 1, MAX_SIZE <- 1,
    MAX_FAULTS <- 2, MAX_CRASHES <- 0

\* The power goes once, at any point.
Crashing == INSTANCE Ext2 WITH
    Paths <- NestedPaths, NBLOCKS <- 9, POINTERS <- 1, MAX_SIZE <- 1,
    MAX_FAULTS <- 0, MAX_CRASHES <- 1

\* Files up to doubly indirect blocks.
Large == INSTANCE Ext2 WITH
    Paths <- {<<"a">>}, NBLOCKS <- 13, POINTERS <- 2, MAX_SIZE <- 4,
    MAX_FAULTS <- 0, MAX_CRASHES <- 0

\* A reader without the lock.
Reading == INSTANCE Ext2Reader WITH
    Paths <- NestedPaths, NBLOCKS <- 9, POINTERS <- 1, MAX_SIZE <- 2,
    MAX_FAULTS <- 0, MAX_CRASHES <- 0, MAX_DURING <- 1

(* ------------------------------- directories ---------------------------- *)

\* Short names, a name of middle length and a long one.
Lengths == [n \in {"a", "b", "c", "medium", "long"} |->
              CASE n = "long" -> 17 [] n = "medium" -> 9 [] OTHER -> 3]

Records == INSTANCE Directory WITH
    Names <- DOMAIN Lengths, NameLen <- Lengths, BLOCK_SIZE <- 92

\* One directory, and the map from names to inodes that it stands for.
RecordsInit ==
    /\ block = Records!NewDirectory(3, 2)
    /\ contents = [n \in DOMAIN Lengths |-> 0]

Link(name, inode) ==
    /\ contents[name] = 0 /\ Records!EntryFits(block, name)
    /\ block' = Records!AddEntry(block, name, inode)
    /\ contents' = [contents EXCEPT ![name] = inode]

Unlink(name) ==
    /\ Records!Naming(block, name) # {}
    /\ block' = Records!RemoveEntry(block, name)
    /\ contents' = [contents EXCEPT ![name] = 0]

RecordsNext ==
    \E name \in DOMAIN Lengths : Unlink(name) \/ \E inode \in 4..5 : Link(name, inode)

(* -------------------------------- system calls -------------------------- *)

\* A short and a long name, two bytes to tell apart, and sizes that take one or
\* two digits in base two.
Calls == INSTANCE FileCalls WITH
    Order <- <<<<"a">>, <<"b", "b">>>>, Inputs <- {<<1>>, <<1, 2>>}, RADIX <- 2,
    MAX_FILE <- 2, BLOCK_SIZE <- 4, MAX_READ <- 2, MAX_SYSCALL_BUFFER <- 14,
    MAX_CONTENTS <- 3, OPEN_FILES <- 2

ASSUME /\ Failing!Ext2Assumption /\ Crashing!Ext2Assumption
       /\ Large!Ext2Assumption /\ Reading!Ext2Assumption
       /\ Failing!DirectoryAssumption /\ Records!DirectoryAssumption
       /\ Calls!FileCallsAssumption

(* ------------------------------- one of them ---------------------------- *)

diskVars   == <<disk, phase, op, steps, undo, cleanup, failed, faults, crashes, before,
                dirty, broken, reader>>
recordVars == <<block, contents>>
callVars   == <<files, open, fds, origin, log>>
vars == <<part, diskVars, recordVars, callVars>>

Init ==
    /\ \/ part = "failing" /\ Failing!Init
       \/ part = "crashing" /\ Crashing!Init
       \/ part = "large" /\ Large!Init
       \/ part \in {"reading", "directory", "calls"} /\ Reading!Init
    /\ reader = Reading!Idle
    /\ RecordsInit
    /\ Calls!Init

Next ==
    \/ /\ \/ part = "failing" /\ Failing!Next /\ UNCHANGED reader
          \/ part = "crashing" /\ Crashing!Next /\ UNCHANGED reader
          \/ part = "large" /\ Large!Next /\ UNCHANGED reader
          \/ part = "reading" /\ Reading!ReadNext
       /\ UNCHANGED <<part, recordVars, callVars>>
    \/ /\ part = "directory" /\ RecordsNext
       /\ UNCHANGED <<part, diskVars, callVars>>
    \/ /\ part = "calls" /\ Calls!Next
       /\ UNCHANGED <<part, diskVars, recordVars>>

Spec == Init /\ [][Next]_vars

\* An opening without descriptors that stored nothing is as good as a new one.
Live == <<part, diskVars, recordVars, files, open, fds, origin,
          [s \in DOMAIN log |-> IF log[s].stored = {} /\ \A h \in Handles : origin[h] # s
                               THEN 0 ELSE log[s]]>>

(* ------------------------------- properties ----------------------------- *)

\* Ext2: between operations exactly what is reachable is allocated, after
\* failures that were rolled back and with files of every layout.
NothingLeaks ==
    /\ part = "failing" => Failing!NothingLeaks
    /\ part = "large" => Large!NothingLeaks

\* Ext2: no block and no inode has two owners, at whatever point the power goes.
DiskIsSound == part = "crashing" => Crashing!DiskIsSound

\* Ext2: each operation takes effect whole or not at all, on its own path only;
\* a write_file that is rolled back leaves every file as it was.
ImplementsFileStore ==
    /\ part = "failing" => Failing!Store!Init
    /\ part = "crashing" => Crashing!Store!Init
    /\ part = "large" => Large!Store!Init
    /\ [][/\ part = "failing" => Failing!Store!Step
          /\ part = "crashing" => Crashing!Store!Step
          /\ part = "large" => Large!Store!Step]_vars

\* Ext2Reader: a read during which one operation writes returns the file as it
\* was before or after that operation.
ReadIsSnapshot == part = "reading" => Reading!ReadIsSnapshot

\* Directory: looking a name up gives what was stored for it last, and an
\* addition or a removal of one name, with its cutting and joining of records,
\* never loses, revives or redirects another.  Removals give back all the room
\* that additions took: a directory that has become empty is as good as new.
DirectoryIsMap ==
    part = "directory" =>
        /\ \A n \in DOMAIN Lengths : Records!Child(block, n) = contents[n]
        /\ (\A n \in DOMAIN Lengths : contents[n] = 0) => block = Records!NewDirectory(3, 2)

\* FileCalls: a file has what its last writer was told is written, descriptors
\* that go back to one opening share its copy and offset, and a listing is cut
\* at a whole line.
CallsAgreeWithFiles ==
    part = "calls" =>
        Calls!FileHasWhatWasWritten /\ Calls!ReadersShareCopy /\ Calls!ListingIsLines
=============================================================================
