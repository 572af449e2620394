------------------------------- MODULE Ext2 --------------------------------
(***************************************************************************)
(* The writing half of fs/ext2.rs, one block write at a time.  write_file  *)
(* puts the new contents into free blocks, then changes the metadata in a  *)
(* BlockTransaction that remembers the old blocks, then frees the old      *)
(* contents in a second one; a failure is rolled back block by block.      *)
(* create_directory and the removals write their blocks without undo.  All *)
(* of them hold EXT2_WRITE_LOCK, which masks interrupts, so one operation  *)
(* is under way at a time.  A block write may fail, before or after the    *)
(* device has stored the block, and the power may go at any point.         *)
(*                                                                         *)
(* The disk is a function from block numbers to contents.  A file's        *)
(* contents are a version in Values, cut into blocks that tell their place *)
(* in it; a directory is one block of records (module Directory).          *)
(***************************************************************************)
EXTENDS Directory

CONSTANTS Paths,           \* sequences of names
          NBLOCKS,         \* blocks_count - first_data_block
          NINODES,         \* inodes_count
          DIRECT_BLOCKS,   \* direct pointers of an inode
          POINTERS,        \* pointers in an indirect block
          MAX_SIZE,        \* bound: blocks of a file
          Values,          \* versions of a file: its k-th block holds <<v, k>>
          MAX_FAULTS,      \* bound: failing block writes
          MAX_CRASHES      \* bound: losses of power

\* What the constants must satisfy.
Ext2Assumption ==
    /\ \A p \in Paths : p # <<>> /\ p \in Seq(Names)
    /\ {NBLOCKS, NINODES, DIRECT_BLOCKS, POINTERS} \subseteq Nat \ {0}
    /\ {MAX_SIZE, MAX_FAULTS, MAX_CRASHES} \subseteq Nat
    /\ MAX_SIZE <= DIRECT_BLOCKS + POINTERS + POINTERS * POINTERS
    /\ NBLOCKS >= 6 /\ NINODES >= 2

SUPERBLOCK   == 1
DESCRIPTOR   == 2
BLOCK_BITMAP == 3
INODE_BITMAP == 4
INODE_TABLE  == 5
ROOT_BLOCK   == 6
Metadata     == 1..5
Blocks       == 1..NBLOCKS
Inodes       == 1..NINODES
ROOT_INODE   == 2

VARIABLES
    disk,       \* [Blocks -> contents]
    phase,      \* what the holder of EXT2_WRITE_LOCK is doing
    op,         \* its local variables
    steps,      \* the block writes it has still to do in this phase
    undo,       \* transaction.undo: pairs of a block and its old contents
    cleanup,    \* cleanup_transaction.undo
    failed,     \* a write of the rollback has failed
    faults,     \* failing writes so far
    crashes,    \* losses of power so far
    before,     \* the files when the operation began
    dirty,      \* an operation without undo was cut short
    broken      \* some operation returned RecoveryFailed

vars == <<disk, phase, op, steps, undo, cleanup, failed, faults, crashes,
          before, dirty, broken>>

-----------------------------------------------------------------------------
(* Reading the disk d.                                                      *)

NoInode == [mode |-> "none", links |-> 0, size |-> 0,
            blocks |-> [k \in 1..DIRECT_BLOCKS |-> 0], single |-> 0, double |-> 0]
NoOp == [kind |-> "none"]

Free(d)      == Blocks \ d[BLOCK_BITMAP]
FreeInode(d) == Inodes \ d[INODE_BITMAP]
At(s, k)     == IF k \in DOMAIN s THEN s[k] ELSE 0

SingleCapacity == DIRECT_BLOCKS + POINTERS

\* inode_data_block: the block of the k-th piece of a file, 0 for a hole.
InodeDataBlock(d, inode, k) ==
    IF k <= DIRECT_BLOCKS THEN inode.blocks[k]
    ELSE IF k <= SingleCapacity
    THEN IF inode.single = 0 THEN 0
         ELSE d[inode.single].pointers[k - DIRECT_BLOCKS]
    ELSE LET index == k - SingleCapacity - 1
             leaf  == IF inode.double = 0 THEN 0
                      ELSE d[inode.double].pointers[(index \div POINTERS) + 1]
         IN IF leaf = 0 THEN 0 ELSE d[leaf].pointers[(index % POINTERS) + 1]

\* find_child
FindChild(d, inode, name) ==
    IF inode.mode # "dir" THEN 0 ELSE Child(d[inode.blocks[1]].records, name)

\* lookup and find_inode_number: from the root, one component at a time.
FindInodeNumber(d, path) ==
    FoldLeft(LAMBDA i, name :
                 IF i = 0 THEN 0 ELSE FindChild(d, d[INODE_TABLE][i], name),
             ROOT_INODE, path)

NonZero(s) == {s[k] : k \in DOMAIN s} \ {0}

\* collect_file_allocations: the blocks of the contents and of the pointers.
CollectFileAllocations(d, inode) ==
    LET pointers(b) == IF b = 0 THEN {} ELSE NonZero(d[b].pointers)
        leaves      == pointers(inode.double)
    IN NonZero(inode.blocks) \cup pointers(inode.single) \cup leaves
         \cup UNION {pointers(b) : b \in leaves}
         \cup ({inode.single, inode.double} \ {0})

FileContents(d, inode) ==
    [k \in 1..inode.size |-> d[InodeDataBlock(d, inode, k)].data]

\* What each path names.
Absent       == [is |-> "absent"]
Dir          == [is |-> "dir"]
File(c)      == [is |-> "file", contents |-> c]
ViewOf(d, i) ==
    CASE i = 0 -> Absent
      [] i # 0 /\ d[INODE_TABLE][i].mode = "dir"  -> Dir
      [] i # 0 /\ d[INODE_TABLE][i].mode = "file" ->
            File(FileContents(d, d[INODE_TABLE][i]))
      [] OTHER -> [is |-> "damaged"]
View(d) == [p \in Paths |-> ViewOf(d, FindInodeNumber(d, p))]

-----------------------------------------------------------------------------
(* What an operation writes, block by block.                                *)

\* The metadata writes of a change in the free counts: none when nothing
\* changes (update_free_counters).
CounterSteps(delta) ==
    IF delta = [blocks |-> 0, inodes |-> 0] THEN <<>> ELSE << <<"descriptor">>, <<"super">> >>

When(condition, step) == IF condition THEN <<step>> ELSE <<>>

\* Mutant: the last, partial block is not written.
PrepareAllButLast(o) ==
    [k \in 1..(Len(o.data) - 1) |-> <<"data", k>>]
      \o When(o.single # 0, <<"single">>)
      \o [j \in 1..Len(o.leaves) |-> <<"leaf", j>>]
      \o When(o.double # 0, <<"double">>)

\* Contents first, then the blocks that point to them.
PrepareSteps(o) ==
    [k \in 1..Len(o.data) |-> <<"data", k>>]
      \o When(o.single # 0, <<"single">>)
      \o [j \in 1..Len(o.leaves) |-> <<"leaf", j>>]
      \o When(o.double # 0, <<"double">>)

CommitSteps(o) ==
    When(o.delta.blocks # 0, <<"bitmap">>) \o When(o.new, <<"imap">>)
      \o CounterSteps(o.delta) \o << <<"inode">> >> \o When(o.new, <<"entry">>)

CleanupSteps == << <<"bitmap">>, <<"descriptor">>, <<"super">> >>

\* Mutant: the entry is published before the allocations are recorded.
MakeEntryFirst == << <<"directory">>, <<"inode">>, <<"link">>, <<"entry">>,
                     <<"bitmap">>, <<"imap">>, <<"descriptor">>, <<"super">> >>

MakeSteps == << <<"directory">>, <<"inode">>, <<"bitmap">>, <<"imap">>,
                <<"descriptor">>, <<"super">>, <<"link">>, <<"entry">> >>

RemoveSteps(isDir) ==
    << <<"unlink entry">>, <<"bitmap">>, <<"imap">>, <<"descriptor">>, <<"super">>,
       <<"inode">> >> \o When(isDir, <<"unlink">>)

Adjusted(count, delta) ==
    [blocks |-> count.blocks + delta.blocks, inodes |-> count.inodes + delta.inodes]

InodeWith(i, inode) == [disk[INODE_TABLE] EXCEPT ![i] = inode]

\* The block a step writes and what it writes there.  The bitmaps and the
\* descriptor come from what the operation read at its start, the superblock,
\* the inode table and the directory from the disk.
Target(step) ==
    CASE step[1] = "data"       -> op.data[step[2]]
      [] step[1] = "directory"  -> op.data[1]
      [] step[1] = "single"     -> op.single
      [] step[1] = "leaf"       -> op.leaves[step[2]]
      [] step[1] = "double"     -> op.double
      [] step[1] = "bitmap"     -> BLOCK_BITMAP
      [] step[1] = "imap"       -> INODE_BITMAP
      [] step[1] = "descriptor" -> DESCRIPTOR
      [] step[1] = "super"      -> SUPERBLOCK
      [] step[1] \in {"inode", "link", "unlink"}    -> INODE_TABLE
      [] step[1] \in {"entry", "unlink entry"}      -> op.directory

\* The block of pointers to the blocks of a list after the first `from`.
PointerBlock(list, from) ==
    [pointers |-> [k \in 1..POINTERS |-> At(list, from + k)]]

Contents(step) ==
    CASE step[1] = "data"       -> [data |-> op.contents[step[2]]]
      [] step[1] = "directory"  -> [records |-> NewDirectory(op.number, op.parent)]
      [] step[1] = "single"     -> PointerBlock(op.data, DIRECT_BLOCKS)
      [] step[1] = "leaf"       ->
            PointerBlock(op.data, SingleCapacity + (step[2] - 1) * POINTERS)
      [] step[1] = "double"     -> PointerBlock(op.leaves, 0)
      [] step[1] = "bitmap"     -> op.bitmap
      [] step[1] = "imap"       -> op.imap
      [] step[1] = "descriptor" -> Adjusted(op.descriptor, op.delta)
      [] step[1] = "super"      -> Adjusted(disk[SUPERBLOCK], op.delta)
      [] step[1] = "inode"      -> InodeWith(op.number, op.inode)
      [] step[1] = "link"       ->
            [disk[INODE_TABLE] EXCEPT ![op.parent].links = @ + 1]
      [] step[1] = "unlink"     ->
            [disk[INODE_TABLE] EXCEPT ![op.parent].links = @ - 1]
      [] step[1] = "entry"      ->
            [records |-> AddEntry(disk[op.directory].records, op.name, op.number)]
      [] step[1] = "unlink entry" ->
            [records |-> RemoveEntry(disk[op.directory].records, op.name)]

Written(step) == [disk EXCEPT ![Target(step)] = Contents(step)]

-----------------------------------------------------------------------------
(* The operations.  A call that finds an error before its first write       *)
(* returns it with nothing changed: a stuttering step.                      *)

FreshDisk ==
    LET used == Metadata \cup {ROOT_BLOCK}
        free == [blocks |-> NBLOCKS - 6, inodes |-> NINODES - 2]
    IN [b \in Blocks |->
         CASE b \in {SUPERBLOCK, DESCRIPTOR} -> free
           [] b = BLOCK_BITMAP -> used
           [] b = INODE_BITMAP -> 1..ROOT_INODE
           [] b = INODE_TABLE  ->
                [i \in Inodes |->
                   IF i = ROOT_INODE
                   THEN [NoInode EXCEPT !.mode = "dir", !.links = 2, !.size = 1,
                                        !.blocks[1] = ROOT_BLOCK]
                   ELSE NoInode]
           [] b = ROOT_BLOCK   -> [records |-> NewDirectory(ROOT_INODE, ROOT_INODE)]
           [] OTHER            -> [data |-> <<>>]]

Init ==
    /\ disk = FreshDisk
    /\ phase = "idle" /\ op = NoOp /\ steps = <<>>
    /\ undo = <<>> /\ cleanup = <<>> /\ failed = FALSE
    /\ faults = 0 /\ crashes = 0
    /\ before = View(FreshDisk)
    /\ dirty = FALSE /\ broken = FALSE

\* resolve_parent: the directory that holds, or is to hold, the last name.
Parent(path) == FindInodeNumber(disk, Front(path))
ParentIsDirectory(path) ==
    Parent(path) # 0 /\ disk[INODE_TABLE][Parent(path)].mode = "dir"
DirectoryBlock(path) == disk[INODE_TABLE][Parent(path)].blocks[1]
Named(path) == FindChild(disk, disk[INODE_TABLE][Parent(path)], Last(path))

\* The lock is free.  After a RecoveryFailed pointers may lead anywhere, and what
\* the operations make of such a disk is left out.
Ready == phase = "idle" /\ ~broken

Begin(kind, path, locals, first) ==
    /\ op' = locals @@ [kind |-> kind, parent |-> Parent(path),
                        directory |-> DirectoryBlock(path), name |-> Last(path),
                        descriptor |-> disk[DESCRIPTOR]]
    /\ phase' = first
    /\ before' = View(disk)
    /\ UNCHANGED <<disk, undo, cleanup, failed, faults, crashes, dirty, broken>>

\* write_file.  The blocks are taken first-fit: the single and the double
\* indirect block, the leaves of the double one, then the contents.
RequiredLeaves(n) ==
    IF n <= SingleCapacity THEN 0 ELSE (n - SingleCapacity + POINTERS - 1) \div POINTERS

FirstFree(n) ==
    [k \in 1..n |->
        CHOOSE b \in Free(disk) : Cardinality({c \in Free(disk) : c < b}) = k - 1]

WriteFile(path, contents) ==
    LET n       == Len(contents)
        single  == IF n > DIRECT_BLOCKS THEN 1 ELSE 0
        leaves  == RequiredLeaves(n)
        double  == IF leaves # 0 THEN 1 ELSE 0
        needed  == n + single + double + leaves
        taken   == FirstFree(needed)
        data    == SubSeq(taken, single + double + leaves + 1, needed)
        exists  == Named(path)
        number  == IF exists = 0 THEN Min(FreeInode(disk)) ELSE exists
        locals  ==
          [contents |-> contents, new |-> exists = 0, number |-> number,
           data     |-> data,
           single   |-> IF single = 1 THEN taken[1] ELSE 0,
           double   |-> IF double = 1 THEN taken[single + 1] ELSE 0,
           leaves   |-> SubSeq(taken, single + double + 1, single + double + leaves),
           bitmap   |-> disk[BLOCK_BITMAP] \cup ToSet(taken),
           imap     |-> disk[INODE_BITMAP] \cup {number},
           delta    |-> [blocks |-> -needed, inodes |-> IF exists = 0 THEN -1 ELSE 0],
           inode    |-> [mode |-> "file", links |-> 1, size |-> n,
                         blocks |-> [k \in 1..DIRECT_BLOCKS |-> At(data, k)],
                         single |-> IF single = 1 THEN taken[1] ELSE 0,
                         double |-> IF double = 1 THEN taken[single + 1] ELSE 0],
           old      |-> IF exists = 0 THEN {}
                        ELSE CollectFileAllocations(disk, disk[INODE_TABLE][exists])]
    IN /\ Ready /\ ParentIsDirectory(path)
       /\ exists # 0 => disk[INODE_TABLE][exists].mode = "file"
       /\ exists = 0 => /\ EntryFits(disk[DirectoryBlock(path)].records, Last(path))
                        /\ FreeInode(disk) # {}
       /\ Cardinality(Free(disk)) >= needed
       /\ Begin("write", path, locals, "prepare")
       /\ steps' = PrepareSteps(locals)

\* create_directory and create_directory_in.
CreateDirectory(path) ==
    LET number == Min(FreeInode(disk))
        block  == Min(Free(disk))
        locals ==
          [number |-> number, data |-> <<block>>,
           bitmap |-> disk[BLOCK_BITMAP] \cup {block},
           imap   |-> disk[INODE_BITMAP] \cup {number},
           delta  |-> [blocks |-> -1, inodes |-> -1],
           inode  |-> [NoInode EXCEPT !.mode = "dir", !.links = 2, !.size = 1,
                                      !.blocks[1] = block]]
    IN /\ Ready /\ ParentIsDirectory(path)
       /\ Named(path) = 0
       /\ EntryFits(disk[DirectoryBlock(path)].records, Last(path))
       /\ FreeInode(disk) # {} /\ Free(disk) # {}
       /\ Begin("mkdir", path, locals, "plain")
       /\ steps' = MakeSteps

\* remove_file, remove_empty_directory and remove_root_entry_allocations.
RemovePath(path, mode) ==
    LET number == Named(path)
        inode  == disk[INODE_TABLE][number]
        freed  == IF mode = "dir" THEN {inode.blocks[1]}
                  ELSE CollectFileAllocations(disk, inode)
        locals ==
          [number |-> number,
           bitmap |-> disk[BLOCK_BITMAP] \ freed,
           imap   |-> disk[INODE_BITMAP] \ {number},
           delta  |-> [blocks |-> Cardinality(freed), inodes |-> 1],
           inode  |-> NoInode]
    IN /\ Ready /\ ParentIsDirectory(path)
       /\ number # 0
       /\ inode.mode = mode
       /\ mode = "dir" => Visited(disk[inode.blocks[1]].records) = {}
       /\ inode.links = IF mode = "dir" THEN 2 ELSE 1
       /\ number \in disk[INODE_BITMAP] /\ freed \subseteq disk[BLOCK_BITMAP]
       /\ Begin("remove", path, locals, "plain")
       /\ steps' = RemoveSteps(mode = "dir")

-----------------------------------------------------------------------------
(* Block writes, failures and rollback.                                     *)

\* The operation returns: its guard and its local variables are gone.
Return ==
    /\ phase' = "idle" /\ op' = NoOp /\ steps' = <<>>
    /\ undo' = <<>> /\ cleanup' = <<>> /\ failed' = FALSE

\* BlockTransaction::write keeps the old contents of a block once.
Saved(log, block) ==
    IF \E i \in DOMAIN log : log[i][1] = block THEN log
    ELSE Append(log, <<block, disk[block]>>)

Save(block) ==
    /\ undo'    = IF phase = "commit"  THEN Saved(undo, block)    ELSE undo
    /\ cleanup' = IF phase = "cleanup" THEN Saved(cleanup, block) ELSE cleanup

\* The checks of update_free_counters, which come before its two writes.
CountersAllow ==
    Head(steps) = <<"descriptor">> =>
        \A count \in {Adjusted(op.descriptor, op.delta), Adjusted(disk[SUPERBLOCK], op.delta)} :
            count.blocks >= 0 /\ count.inodes >= 0

\* write_block
WriteBlock ==
    /\ phase \in {"prepare", "commit", "cleanup", "plain"}
    /\ steps # <<>> /\ CountersAllow
    /\ disk' = Written(Head(steps))
    /\ steps' = Tail(steps)
    /\ Save(Target(Head(steps)))
    /\ UNCHANGED <<phase, op, failed, faults, crashes, before, dirty, broken>>

\* What follows an error: a return where nothing is to be undone or nothing
\* can be, else the rollback.
Abandon ==
    \/ /\ phase \in {"prepare", "plain"}
       /\ Return
       /\ dirty' = (dirty \/ phase = "plain")
    \/ /\ phase \in {"commit", "cleanup"}
       /\ phase' = "rollback" /\ steps' = <<>>
       /\ Save(Target(Head(steps)))
       /\ UNCHANGED <<op, failed, dirty>>

\* The device reports an error, with the block stored or not.
FailWrite ==
    /\ phase \in {"prepare", "commit", "cleanup", "plain"}
    /\ steps # <<>> /\ CountersAllow
    /\ faults < MAX_FAULTS
    /\ faults' = faults + 1
    /\ disk' \in {disk, Written(Head(steps))}
    /\ Abandon
    /\ UNCHANGED <<crashes, before, broken>>

\* update_free_counters finds a count that would become negative.
RefuseCounters ==
    /\ phase \in {"commit", "cleanup", "plain"}
    /\ steps # <<>> /\ ~CountersAllow
    /\ Abandon
    /\ UNCHANGED <<disk, faults, crashes, before, broken>>

\* The new contents are on the disk: change the metadata.
StartCommit ==
    /\ phase = "prepare" /\ steps = <<>>
    /\ phase' = "commit" /\ steps' = CommitSteps(op)
    /\ UNCHANGED <<disk, op, undo, cleanup, failed, faults, crashes, before, dirty, broken>>

\* free_data_blocks reads the tables anew.
StartCleanup ==
    /\ phase = "commit" /\ steps = <<>> /\ op.old # {}
    /\ phase' = "cleanup" /\ steps' = CleanupSteps
    /\ op' = [op EXCEPT !.bitmap = disk[BLOCK_BITMAP] \ op.old,
                        !.descriptor = disk[DESCRIPTOR],
                        !.delta = [blocks |-> Cardinality(op.old), inodes |-> 0]]
    /\ UNCHANGED <<disk, undo, cleanup, failed, faults, crashes, before, dirty, broken>>

Succeed ==
    /\ steps = <<>>
    /\ phase \in {"cleanup", "plain"} \/ (phase = "commit" /\ op.old = {})
    /\ Return
    /\ UNCHANGED <<disk, faults, crashes, before, dirty, broken>>

\* Mutant: the cleanup is undone after the commit.
RollbackCommitFirst ==
    LET log      == IF undo # <<>> THEN undo ELSE cleanup
        restored == [disk EXCEPT ![Last(log)[1]] = Last(log)[2]]
    IN /\ phase = "rollback" /\ log # <<>>
       /\ IF undo = <<>> THEN cleanup' = Front(cleanup) /\ undo' = undo
                         ELSE undo' = Front(undo) /\ cleanup' = cleanup
       /\ disk' = restored
       /\ UNCHANGED <<failed, faults, phase, op, steps, crashes, before, dirty, broken>>

\* BlockTransaction::rollback: newest first, the cleanup before the commit, and
\* on to the next block when one cannot be restored.
Rollback ==
    LET log      == IF cleanup # <<>> THEN cleanup ELSE undo
        restored == [disk EXCEPT ![Last(log)[1]] = Last(log)[2]]
    IN /\ phase = "rollback" /\ log # <<>>
       /\ IF cleanup # <<>> THEN cleanup' = Front(cleanup) /\ undo' = undo
                            ELSE undo' = Front(undo) /\ cleanup' = cleanup
       /\ \/ disk' = restored /\ UNCHANGED <<failed, faults>>
          \/ /\ faults < MAX_FAULTS /\ faults' = faults + 1
             /\ disk' \in {disk, restored}
             /\ failed' = TRUE
       /\ UNCHANGED <<phase, op, steps, crashes, before, dirty, broken>>

\* The rollback is over: the error is returned, or RecoveryFailed.
RolledBack ==
    /\ phase = "rollback" /\ undo = <<>> /\ cleanup = <<>>
    /\ broken' = failed
    /\ Return
    /\ UNCHANGED <<disk, faults, crashes, before, dirty>>

\* The power goes: the disk stays as it is, the memory is lost.
Crash ==
    /\ phase # "idle" /\ crashes < MAX_CRASHES
    /\ crashes' = crashes + 1
    /\ dirty' = TRUE
    /\ broken' = failed
    /\ Return
    /\ UNCHANGED <<disk, faults, before>>

Sizes == 0..MAX_SIZE

Next ==
    \/ \E path \in Paths :
        \/ \E n \in Sizes, v \in Values : WriteFile(path, [k \in 1..n |-> <<v, k>>])
        \/ CreateDirectory(path)
        \/ RemovePath(path, "file")
        \/ RemovePath(path, "dir")
    \/ WriteBlock \/ FailWrite \/ RefuseCounters
    \/ StartCommit \/ StartCleanup \/ Succeed
    \/ Rollback \/ RolledBack
    \/ Crash

Spec == Init /\ [][Next]_vars

-----------------------------------------------------------------------------
(* Correctness.                                                             *)

\* The inodes an entry leads to from the root, with the root.
Listed(d, i) ==
    LET inode == d[INODE_TABLE][i]
    IN IF inode.mode # "dir" THEN {}
       ELSE LET r == d[inode.blocks[1]].records
            IN {<<i, r[k].name, r[k].inode>> : k \in Visited(r)}

Depth == Max({Len(p) : p \in Paths})
Reachable(d) ==
    LET reach[k \in 0..Depth] ==
          IF k = 0 THEN {ROOT_INODE}
          ELSE reach[k-1] \cup {e[3] : e \in UNION {Listed(d, i) : i \in reach[k-1]}}
    IN reach[Depth]

Entries(d) == UNION {Listed(d, i) : i \in Reachable(d)}

BlocksOf(d, i) ==
    LET inode == d[INODE_TABLE][i]
    IN IF inode.mode = "dir" THEN {inode.blocks[1]}
       ELSE CollectFileAllocations(d, inode)

Subdirectories(d, i) == {e \in Listed(d, i) : d[INODE_TABLE][e[3]].mode = "dir"}

Phases == {"idle", "prepare", "commit", "cleanup", "plain", "rollback"}

\* Whatever fails and whenever the power goes, at every moment each entry leads
\* to an allocated inode in use, each inode to allocated blocks, no block
\* belongs to two owners, no inode has two names, and a directory's link count
\* is at least what its subdirectories account for.  Otherwise a later
\* allocation would hand the same block or inode to a second file.  Only a
\* failing rollback, which the caller is told about, is excepted.
DiskIsSound ==
    (~failed /\ ~broken) =>
        LET reachable == Reachable(disk)
        IN /\ \A i \in reachable :
                /\ i \in disk[INODE_BITMAP]
                /\ disk[INODE_TABLE][i].mode # "none"
                /\ BlocksOf(disk, i) \subseteq disk[BLOCK_BITMAP] \ Metadata
                /\ disk[INODE_TABLE][i].mode = "dir" =>
                      /\ WellFormed(disk[disk[INODE_TABLE][i].blocks[1]].records)
                      /\ disk[INODE_TABLE][i].links >= 2 + Cardinality(Subdirectories(disk, i))
           /\ \A i, j \in reachable :
                i # j => BlocksOf(disk, i) \cap BlocksOf(disk, j) = {}
           /\ \A e, f \in Entries(disk) : e[3] = f[3] => e = f

\* A failed write_file that rolls back leaves no trace, and nothing leaks when
\* nothing fails: between operations exactly the reachable inodes and blocks are
\* allocated, and the descriptor, the superblock and the link counts agree with
\* them.  A create_directory or removal cut short, or a crash, is what can leak.
NothingLeaks ==
    (Ready /\ ~dirty) =>
        LET reachable == Reachable(disk)
            free == [blocks |-> Cardinality(Free(disk)), inodes |-> Cardinality(FreeInode(disk))]
        IN /\ disk[INODE_BITMAP] = {1} \cup reachable
           /\ disk[BLOCK_BITMAP] = Metadata \cup UNION {BlocksOf(disk, i) : i \in reachable}
           /\ disk[DESCRIPTOR] = free /\ disk[SUPERBLOCK] = free
           /\ \A i \in reachable :
                disk[INODE_TABLE][i].mode = "dir" =>
                    disk[INODE_TABLE][i].links = 2 + Cardinality(Subdirectories(disk, i))

\* The files as their users know them: during an operation, as before it.
Files == IF Ready THEN View(disk) ELSE before

Store == INSTANCE FileStore WITH files <- Files, intact <- ~broken

\* Each operation takes effect whole or not at all, and on its own path only,
\* also when a write fails or the power goes in the middle of it.
ImplementsFileStore == Store!Spec
=============================================================================
