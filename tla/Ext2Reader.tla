----------------------------- MODULE Ext2Reader -----------------------------
(***************************************************************************)
(* read_file of fs/ext2.rs beside the writers of Ext2.  A reader takes no  *)
(* lock: the shell, a kernel task with interrupts enabled, may be          *)
(* preempted between any two block reads, and a program then writes.  The  *)
(* writers mask interrupts, so the reader sees the disk only between whole *)
(* operations.                                                             *)
(***************************************************************************)
EXTENDS Ext2

CONSTANT MAX_DURING     \* bound: operations begun during one read

VARIABLE reader         \* the local variables of read_file

Idle == [at |-> "idle"]

ReadInit == Init /\ reader = Idle

\* The states of the file named during the read are kept in seen.
StartRead(path) ==
    /\ Ready /\ reader = Idle
    /\ reader' = [at |-> "inode", path |-> path, rest |-> path, number |-> ROOT_INODE,
                  inode |-> NoInode, cache |-> <<>>, got |-> <<>>,
                  seen |-> {View(disk)[path]}, during |-> 0, found |-> "reading"]

Done(found) == reader' = [reader EXCEPT !.at = "done", !.found = found]

\* read_inode, and what lookup and read_file make of it.
ReadInode ==
    LET inode == disk[INODE_TABLE][reader.number]
    IN /\ Ready /\ reader.at = "inode"
       /\ IF reader.rest = <<>>
          THEN IF inode.mode # "file" THEN Done("nothing")
               ELSE reader' = [reader EXCEPT !.inode = inode, !.at = "contents"]
          ELSE IF inode.mode # "dir" THEN Done("nothing")
               ELSE reader' = [reader EXCEPT !.inode = inode, !.at = "directory"]

\* find_child: the block may have become something else meanwhile.
ReadDirectory ==
    LET block == disk[reader.inode.blocks[1]]
        child == Child(block.records, Head(reader.rest))
    IN /\ Ready /\ reader.at = "directory"
       /\ IF "records" \notin DOMAIN block THEN Done("error")
          ELSE IF child = 0 THEN Done("nothing")
          ELSE reader' = [reader EXCEPT !.number = child, !.rest = Tail(@), !.at = "inode"]

\* The indirect block that inode_data_block has to read before it knows where
\* the k-th block of the file is; 0 when it knows.
MissingPointers(inode, k, cache) ==
    LET first == IF k <= SingleCapacity THEN inode.single ELSE inode.double
        leaf  == cache[first].pointers[((k - SingleCapacity - 1) \div POINTERS) + 1]
    IN IF k <= DIRECT_BLOCKS \/ first = 0 THEN 0
       ELSE IF first \notin DOMAIN cache THEN first
       ELSE IF k <= SingleCapacity \/ leaf \in DOMAIN cache THEN 0
       ELSE leaf

\* Mutant: the inode is read anew for every block.
ReadContentsAfresh ==
    LET k     == Len(reader.got) + 1
        now   == disk[INODE_TABLE][reader.number]
        block == disk[InodeDataBlock(disk, now, k)]
    IN /\ Ready /\ reader.at = "contents"
       /\ IF k > reader.inode.size THEN Done("file")
          ELSE IF k > now.size THEN Done("error")
          ELSE reader' = [reader EXCEPT !.got = Append(@, block.data)]

\* read_inode_contents: one indirect block or one block of the file.
ReadContents ==
    LET k       == Len(reader.got) + 1
        missing == MissingPointers(reader.inode, k, reader.cache)
        block   == disk[InodeDataBlock(reader.cache, reader.inode, k)]
    IN /\ Ready /\ reader.at = "contents"
       /\ IF k > reader.inode.size THEN Done("file")
          ELSE IF missing # 0
          THEN IF "pointers" \notin DOMAIN disk[missing] THEN Done("error")
               ELSE reader' = [reader EXCEPT !.cache = (missing :> disk[missing]) @@ @]
          ELSE IF "data" \notin DOMAIN block THEN Done("error")
          ELSE reader' = [reader EXCEPT !.got = Append(@, block.data)]

ReadReturns == reader.at = "done" /\ reader' = Idle

\* A writer's step, noted in the reader's history.
Observe ==
    IF reader.at \in {"idle", "done"} THEN reader' = reader
    ELSE /\ phase = "idle" => reader.during < MAX_DURING
         /\ reader' = [reader EXCEPT !.during = IF phase = "idle" THEN @ + 1 ELSE @,
                                     !.seen = @ \cup {Files'[reader.path]}]

ReadNext ==
    \/ Next /\ Observe
    \/ /\ \/ \E path \in Paths : StartRead(path)
          \/ ReadInode \/ ReadDirectory \/ ReadContents \/ ReadReturns
       /\ UNCHANGED vars

ReadSpec == ReadInit /\ [][ReadNext]_<<vars, reader>>

\* A read during which at most one operation writes returns the file as it was
\* before or after that operation, whole: write_file puts new contents into free
\* blocks and the removals leave the blocks they free as they are.  A second
\* operation may reuse the blocks the first one freed, and then all is possible.
ReadIsSnapshot ==
    (reader.at = "done" /\ reader.during <= 1 /\ ~broken) =>
        \/ reader.found = "file" /\ File(reader.got) \in reader.seen
        \/ /\ reader.found = "nothing"
           /\ \E f \in reader.seen : f.is # "file"
=============================================================================
