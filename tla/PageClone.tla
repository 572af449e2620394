----------------------------- MODULE PageClone -----------------------------
(***************************************************************************)
(* The loader's copy of the active page tables (CloneActivePageTables and  *)
(* ClonePageTableLevel in boot_main.c), on which the kernel is entered.    *)
(* Addresses count pages; tables is what the pages that are tables hold.   *)
(***************************************************************************)
EXTENDS Integers, SequencesExt

CONSTANTS LEVELS,       \* 4: the root is a table of that level
          ENTRIES,      \* PAGE_TABLE_ENTRY_COUNT
          Firmware,     \* the tables that may be active, each with its root
          Tables,       \* the pages of the firmware's tables
          Free          \* bound: the pages AllocatePages may hand out

\* What the constants must satisfy.
PageCloneAssumption ==
    /\ LEVELS >= 2 /\ ENTRIES >= 1
    /\ Tables \cap Free = {}

VARIABLES tables,                   \* the entries of every table
          gOriginalPageTableRoot,
          gKernelPageTableRoot,
          left,                     \* pages that can still be allocated
          status                    \* "before", "cloned" or "failed"

vars == <<tables, gOriginalPageTableRoot, gKernelPageTableRoot, left, status>>

Indices == 0..(ENTRIES - 1)
Absent == [present |-> FALSE, huge |-> FALSE, address |-> 0]
Entry(address) == [present |-> TRUE, huge |-> FALSE, address |-> address]
Huge(address) == [present |-> TRUE, huge |-> TRUE, address |-> address]

\* Memory that is allocated holds anything.
Junk == [i \in Indices |-> Huge(0)]

AllocatePage(s) == CHOOSE p \in s.left : \A q \in s.left : p <= q
Allocated(s) == [s EXCEPT !.left = @ \ {AllocatePage(s)}]
Store(s, table, index, entry) == [s EXCEPT !.tables[table][index] = entry]

Link(s, source, destination, index, child) ==
    Store(s, destination, index, [s.tables[source][index] EXCEPT !.address = child])

RECURSIVE ClonePageTableLevel(_, _, _, _)

\* One entry: absent entries and pages are copied, an entry that leads back to
\* the root leads to the new root, and a table is cloned into a new page.
CloneEntry(s, source, destination, level, index) ==
    LET entry == s.tables[source][index]
        copied == Store(s, destination, index, entry)
        child == AllocatePage(s)
        cloned == ClonePageTableLevel(Allocated(copied), entry.address, child, level - 1)
    IN  IF ~entry.present \/ level = 1 THEN copied
        ELSE IF entry.address = s.original
        THEN Link(copied, source, destination, index, s.kernel)
        ELSE IF entry.huge THEN copied
        ELSE IF s.left = {} THEN [copied EXCEPT !.ok = FALSE]
        ELSE IF ~cloned.ok THEN cloned
        ELSE Link(cloned, source, destination, index, child)

\* Mutant: the last entry of a table is not copied.
CloneLevelShort(s, source, destination, level) ==
    FoldLeft(LAMBDA v, k : IF v.ok THEN CloneEntry(v, source, destination, level, k - 1) ELSE v,
             s, [k \in 1..(ENTRIES - 1) |-> k])

ClonePageTableLevel(s, source, destination, level) ==
    FoldLeft(LAMBDA v, k : IF v.ok THEN CloneEntry(v, source, destination, level, k - 1) ELSE v,
             s, [k \in 1..ENTRIES |-> k])

Init ==
    /\ \E f \in Firmware :
          /\ tables = [p \in Tables \cup Free |-> IF p \in Tables THEN f.tables[p] ELSE Junk]
          /\ gOriginalPageTableRoot = f.root
    /\ gKernelPageTableRoot = 0
    /\ \E n \in Free \cup {0} : left = {p \in Free : p <= n}
    /\ status = "before"

CloneActivePageTables ==
    LET s == [tables |-> tables, left |-> left, ok |-> TRUE, original |-> gOriginalPageTableRoot,
              kernel |-> 0]
        root == AllocatePage(s)
        done == ClonePageTableLevel([Allocated(s) EXCEPT !.kernel = root],
                                    gOriginalPageTableRoot, root, LEVELS)
    IN  /\ status = "before"
        /\ \/ /\ left = {}
              /\ status' = "failed"
              /\ UNCHANGED <<tables, gKernelPageTableRoot, left>>
           \/ /\ left # {}
              /\ gKernelPageTableRoot' = root
              /\ tables' = done.tables
              /\ left' = done.left
              /\ status' = IF done.ok THEN "cloned" ELSE "failed"
        /\ UNCHANGED gOriginalPageTableRoot

Next == CloneActivePageTables

Spec == Init /\ [][Next]_vars

(* ----------------------- what the processor does ------------------------ *)

RECURSIVE Walk(_, _, _, _)

\* The page that is at a virtual page under a root, none, or that the way leads
\* back to the root.
Walk(root, table, level, at) ==
    LET entry == tables[table][(at \div ENTRIES ^ (level - 1)) % ENTRIES]
    IN  IF ~entry.present THEN <<"none">>
        ELSE IF level = 1 \/ entry.huge
        THEN <<"page", entry.address + (at % (ENTRIES ^ (level - 1)))>>
        ELSE IF entry.address = root THEN <<"root">>
        ELSE Walk(root, entry.address, level - 1, at)

VirtualPages == 0..(ENTRIES ^ LEVELS - 1)

RECURSIVE Reached(_, _)

Reached(table, level) ==
    {table} \cup
    (IF level = 1 THEN {}
     ELSE UNION {Reached(tables[table][i].address, level - 1) :
                    i \in {j \in Indices : /\ tables[table][j].present /\ ~tables[table][j].huge
                                           /\ tables[table][j].address # gKernelPageTableRoot}})

(* ------------------------------ properties ----------------------------- *)

\* ClonePageTableLevel makes a clone: every virtual page is where it was under
\* the active tables, huge pages of both sizes and a root that refers to itself
\* included.
CloneTranslates ==
    status = "cloned" =>
        \A at \in VirtualPages :
            Walk(gKernelPageTableRoot, gKernelPageTableRoot, LEVELS, at)
                = Walk(gOriginalPageTableRoot, gOriginalPageTableRoot, LEVELS, at)

\* No table of the firmware is reached from the clone, so that what the kernel
\* changes in it is not the firmware's, and no table is used twice.
TablesApart ==
    status = "cloned" =>
        /\ Reached(gKernelPageTableRoot, LEVELS) \cap Tables = {}
        /\ Reached(gKernelPageTableRoot, LEVELS) \cap left = {}

=============================================================================
