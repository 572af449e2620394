----------------------------- MODULE DirectMap -----------------------------
(***************************************************************************)
(* The loader's direct mapping of RAM (BuildPhysicalMemoryMapping and the  *)
(* functions it uses in boot_main.c): the ranges of the memory map are     *)
(* mapped one after the other below an unused entry of the upper half of   *)
(* the root, with huge pages where a range covers them.  Addresses count   *)
(* pages; a huge page is what one table of the last level would map.       *)
(***************************************************************************)
EXTENDS Integers, FiniteSets, SequencesExt

CONSTANTS ENTRIES,        \* of a table below the root
          ROOT_ENTRIES,   \* of the root; the upper half may be used
          ADDRESS_PAGES,  \* ~0ULL in pages
          Starts, Counts, \* of the ranges in the memory map
          MAX_LEFT        \* bound: pages that can be allocated

\* What the constants must satisfy.
DirectMapAssumption == ENTRIES >= 1 /\ ROOT_ENTRIES >= 2

VARIABLES used,        \* entries of the root that are present
          root,        \* gPhysicalMemoryPml4Index, or 0 before it is chosen
          level3,      \* the tables below that entry, down to the entries of the last
          left,        \* pages AllocatePages still has
          ram,         \* the pages of the ranges mapped so far
          refused,     \* the range that could not be mapped
          status       \* "choose", "map", "done" or "failed"

vars == <<used, root, level3, left, ram, refused, status>>

Indices == 0..(ENTRIES - 1)
HUGE_PAGE_SIZE == ENTRIES
PHYSICAL_MAP_WINDOW_SIZE == ENTRIES ^ 3

\* An entry is absent, a table of the next level, or a page.
Absent == <<>>
Page(address) == <<"page", address>>
TableOf(entries) == <<"table", entries>>
Empty == TableOf([i \in Indices |-> Absent])
IsPage(entry) == entry # Absent /\ entry[1] = "page"

Index3(address) == (address \div (ENTRIES * ENTRIES)) % ENTRIES
Index2(address) == (address \div ENTRIES) % ENTRIES
Index1(address) == address % ENTRIES

\* A step in mapping: the level 3 table, the pages left and whether all went well.
Mapping == [table |-> level3, left |-> left, ok |-> TRUE]
Denied(s) == [s EXCEPT !.ok = FALSE]

AllocateZeroedPage(s) == [s EXCEPT !.left = @ - 1]

EnsurePhysicalPageDirectory(s, address) ==
    LET i == Index3(address)
        root4 == IF s.table = Absent
                 THEN IF s.left = 0 THEN Denied(s) ELSE [AllocateZeroedPage(s) EXCEPT !.table = Empty]
                 ELSE s
    IN  IF ~root4.ok \/ root4.table[2][i] # Absent THEN root4
        ELSE IF root4.left = 0 THEN Denied(root4)
        ELSE [AllocateZeroedPage(root4) EXCEPT !.table[2][i] = Empty]

Level2(s, address) == s.table[2][Index3(address)][2][Index2(address)]
SetLevel2(s, address, entry) == [s EXCEPT !.table[2][Index3(address)][2][Index2(address)] = entry]
Level1(s, address) == Level2(s, address)[2][Index1(address)]
SetLevel1(s, address) ==
    [s EXCEPT !.table[2][Index3(address)][2][Index2(address)][2][Index1(address)] = Page(address)]

EnsurePhysicalPageTable(s, address) ==
    LET d == EnsurePhysicalPageDirectory(s, address)
    IN  IF ~d.ok THEN d
        ELSE IF IsPage(Level2(d, address)) THEN Denied(d)
        ELSE IF Level2(d, address) # Absent THEN d
        ELSE IF d.left = 0 THEN Denied(d)
        ELSE SetLevel2(AllocateZeroedPage(d), address, Empty)

MapPhysicalPage4KiB(s, address) ==
    LET t == EnsurePhysicalPageTable(s, address)
    IN  IF ~t.ok THEN t
        ELSE IF Level1(t, address) # Absent THEN Denied(t)
        ELSE SetLevel1(t, address)

\* A huge page, or the pages that are missing in a table that is there.
MapPhysicalPage2MiB(s, address) ==
    LET d == EnsurePhysicalPageDirectory(s, address)
        fill(v, k) == IF Level1(v, address + k - 1) = Absent THEN SetLevel1(v, address + k - 1) ELSE v
    IN  IF ~d.ok THEN d
        ELSE IF Level2(d, address) = Absent THEN SetLevel2(d, address, Page(address))
        ELSE IF IsPage(Level2(d, address)) THEN Denied(d)
        ELSE FoldLeft(fill, d, [k \in 1..ENTRIES |-> k])

RangeFits(start, count) ==
    /\ count <= ADDRESS_PAGES
    /\ start <= ADDRESS_PAGES - count
    /\ start + count <= PHYSICAL_MAP_WINDOW_SIZE

\* Mutant: a huge page is used wherever one begins.
HugeFitsBegin(address, end) == address % HUGE_PAGE_SIZE = 0

HugeFits(address, end) == address % HUGE_PAGE_SIZE = 0 /\ end - address >= HUGE_PAGE_SIZE

\* The loop over a range: whether a page begins a huge page depends on where the
\* page before it ended, so that one page at a time decides the same.
MapPhysicalMemoryRange(s, start, count) ==
    LET end == start + count
        covered(address) ==
            /\ address - Index1(address) >= start
            /\ HugeFits(address - Index1(address), end)
        one(v, k) ==
            LET address == start + k - 1
            IN  IF ~v.ok THEN v
                ELSE IF ~covered(address) THEN MapPhysicalPage4KiB(v, address)
                ELSE IF Index1(address) = 0 THEN MapPhysicalPage2MiB(v, address)
                ELSE v
    IN  IF RangeFits(start, count) THEN FoldLeft(one, s, [k \in 1..count |-> k]) ELSE Denied(s)

Covers(start, count) == start..(start + count - 1)
None == [start |-> 0, count |-> 0]

Init ==
    /\ \E upper \in SUBSET ((ROOT_ENTRIES \div 2)..(ROOT_ENTRIES - 1)) : used = {0} \cup upper
    /\ left \in 0..MAX_LEFT
    /\ root = 0
    /\ level3 = Absent
    /\ ram = {}
    /\ refused = None
    /\ status = "choose"

\* The first entry of the upper half that is not present.
ChooseRoot ==
    LET free == ((ROOT_ENTRIES \div 2)..(ROOT_ENTRIES - 1)) \ used
    IN  /\ status = "choose"
        /\ IF free = {} THEN root' = ROOT_ENTRIES /\ status' = "failed"
           ELSE /\ root' = CHOOSE i \in free : \A j \in free : i <= j
                /\ status' = "map"
        /\ UNCHANGED <<used, level3, left, ram, refused>>

\* A descriptor of RAM; the others are skipped.
MapRange(start, count) ==
    LET mapped == MapPhysicalMemoryRange(Mapping, start, count)
    IN  /\ status = "map"
        /\ level3' = mapped.table
        /\ left' = mapped.left
        /\ IF mapped.ok THEN ram' = ram \cup Covers(start, count) /\ UNCHANGED <<refused, status>>
           ELSE /\ refused' = [start |-> start, count |-> count]
                /\ status' = "failed"
                /\ UNCHANGED ram
        /\ UNCHANGED <<used, root>>

Finish ==
    /\ status = "map"
    /\ status' = "done"
    /\ UNCHANGED <<used, root, level3, left, ram, refused>>

Next ==
    \/ ChooseRoot
    \/ \E start \in Starts, count \in Counts : MapRange(start, count)
    \/ Finish

Spec == Init /\ [][Next]_vars

(* ------------------------------ properties ----------------------------- *)

\* The page at an offset in the window, as the processor finds it.
Translate(address) ==
    LET s == Mapping
        at2 == Level2(s, address)
    IN  IF level3 = Absent \/ level3[2][Index3(address)] = Absent \/ at2 = Absent THEN Absent
        ELSE IF IsPage(at2) THEN Page(at2[2] + Index1(address))
        ELSE Level1(s, address)

\* The direct map maps every page of RAM at the physical-memory offset, to
\* itself, and nothing else: no page of a device or of a hole, whatever the
\* order, the lengths and the alignment of the ranges.  No range that ends
\* beyond the window or wraps around the end of the address space is taken for
\* RAM.
MapsExactlyRam ==
    status = "done" =>
        /\ ram \subseteq 0..(PHYSICAL_MAP_WINDOW_SIZE - 1)
        /\ \A p \in 0..(PHYSICAL_MAP_WINDOW_SIZE - 1) :
                Translate(p) = IF p \in ram THEN Page(p) ELSE Absent

\* The loader gives up only for a range beyond the window or the address space,
\* for ranges that overlap, or when there is no page or no entry of the root
\* left: an orderly memory map is always mapped.
RefusesOnlyDisorder ==
    status = "failed" =>
        \/ root = ROOT_ENTRIES
        \/ left = 0
        \/ refused.start + refused.count > PHYSICAL_MAP_WINDOW_SIZE
        \/ Covers(refused.start, refused.count) \cap ram # {}

=============================================================================
