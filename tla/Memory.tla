------------------------------- MODULE Memory -------------------------------
(***************************************************************************)
(* memory/mod.rs and memory/heap.rs: who owns each physical frame.  The    *)
(* allocator hands out the frames of a bounded cache of returned ones      *)
(* first, the last returned one first, and then the frames its cursor has  *)
(* not visited (module FrameMap has the cursor in detail).  A mapped page  *)
(* takes a frame and up to three page tables; an unmapped one gives back   *)
(* its frame and the tables it leaves empty.  Programs are loaded and      *)
(* destroyed page by page, and the kernel heap grows by chunks of pages    *)
(* that are mapped all or not at all.                                      *)
(*                                                                         *)
(* Each call of with_manager masks interrupts and is one step.  A task     *)
(* switch may come between two such calls of the shell; a program that     *)
(* starts another one does so with interrupts masked, which is one of the  *)
(* interleavings here.                                                     *)
(***************************************************************************)
EXTENDS Integers, Sequences, FiniteSets, SequencesExt, Functions

CONSTANTS Spaces,            \* address spaces
          NFRAMES,           \* frames of conventional memory
          CAPACITY,          \* RECLAIMED_FRAME_CAPACITY
          PROGRAM_PAGES,     \* pages of a program: they share one page table
          PAGES_PER_TABLE,
          PAGES_PER_DIRECTORY,
          SLOT_PAGES,        \* pages of the heap's top-level slot
          GROWTH_PAGES,      \* HEAP_GROWTH_PAGES
          PAGE_SIZE, MIN_HOLE_SIZE,
          Layouts,           \* requests to the heap: records of a size and an alignment
          PREFLIGHT          \* FALSE: the count of free frames is not looked at

MAX_FRAMES_RECLAIMED_PER_UNMAP == 4

\* What the constants must satisfy.
MemoryAssumption ==
    /\ {NFRAMES, PROGRAM_PAGES, PAGES_PER_TABLE, SLOT_PAGES, GROWTH_PAGES}
          \subseteq Nat \ {0}
    /\ CAPACITY \in Nat /\ CAPACITY >= GROWTH_PAGES + MAX_FRAMES_RECLAIMED_PER_UNMAP
    /\ PROGRAM_PAGES <= PAGES_PER_TABLE
    /\ PAGES_PER_DIRECTORY % PAGES_PER_TABLE = 0
    /\ PREFLIGHT \in BOOLEAN
    /\ "kernel" \notin Spaces

Frames  == 1..NFRAMES
Upto(n) == [i \in 1..n |-> i]

VARIABLES
    mem,      \* cursor, cache and the entries of all page tables
    space,    \* [Spaces -> record]: root, user_pages and what is done with it
    heap,     \* mapped_pages and poisoned
    cr3       \* the active address space

vars == <<mem, space, heap, cr3>>

-----------------------------------------------------------------------------
(* The frame allocator.                                                     *)

Available(m) == Len(m.cache) + NFRAMES - m.cursor

\* The first n frames next_usable_frame returns.
NextFrames(m, n) ==
    [i \in 1..n |-> IF i <= Len(m.cache) THEN m.cache[Len(m.cache) - i + 1]
                    ELSE m.cursor + i - Len(m.cache)]

Taken(m, n) ==
    IF n <= Len(m.cache)
    THEN [m EXCEPT !.cache = SubSeq(m.cache, 1, Len(m.cache) - n)]
    ELSE [m EXCEPT !.cache = <<>>, !.cursor = @ + n - Len(m.cache)]

\* reclaim_frame for some frames whose callers assert that there is room.
Reclaimed(m, frames) ==
    [m EXCEPT !.cache = @ \o frames,
              !.panicked = @ \/ Len(m.cache) + Len(frames) > CAPACITY]

-----------------------------------------------------------------------------
(* Page tables.  The entry <<s, level, i>> is, at level 0, the i-th page of *)
(* the space s and above, its i-th table of that level.                     *)

Span(level) == CASE level = 0 -> 1
                 [] level = 1 -> PAGES_PER_TABLE
                 [] level = 2 -> PAGES_PER_DIRECTORY
                 [] level = 3 -> SLOT_PAGES + PAGES_PER_DIRECTORY

Entry(s, level, page) == <<s, level, page \div Span(level)>>

\* map_to creates the missing tables from the top.
Missing(m, s, page) ==
    SelectSeq([i \in 1..3 |-> Entry(s, 4 - i, page)], LAMBDA e : e \notin DOMAIN m.table)

Mapped(m, s, page) == Entry(s, 0, page) \in DOMAIN m.table

\* Mutant: the frame of the page is not given back when its tables fail.
MapPageLeaky(m, s, page) ==
    LET entries == <<Entry(s, 0, page)>> \o Missing(m, s, page)
        needed  == Len(entries)
        frames  == NextFrames(m, needed)
    IN IF needed <= Available(m)
       THEN [ok |-> TRUE,
             mem |-> [Taken(m, needed) EXCEPT
                        !.table = [e \in ToSet(entries) |->
                                     frames[CHOOSE i \in 1..needed : entries[i] = e]] @@ @]]
       ELSE LET some == NextFrames(m, Available(m))
            IN [ok |-> FALSE,
                mem |-> Reclaimed(Taken(m, Available(m)),
                                  Reverse(IF some = <<>> THEN some ELSE Tail(some)))]

\* map_user_page and allocate_and_map: the frame of the page, then its tables.
\* When a frame is missing, the tables are given back from the bottom and the
\* page's frame last.
MapPage(m, s, page) ==
    LET entries == <<Entry(s, 0, page)>> \o Missing(m, s, page)
        needed  == Len(entries)
        frames  == NextFrames(m, needed)
    IN IF needed <= Available(m)
       THEN [ok |-> TRUE,
             mem |-> [Taken(m, needed) EXCEPT
                        !.table = [e \in ToSet(entries) |->
                                     frames[CHOOSE i \in 1..needed : entries[i] = e]] @@ @]]
       ELSE [ok |-> FALSE,
             mem |-> Reclaimed(Taken(m, Available(m)), Reverse(NextFrames(m, Available(m))))]

\* The tables that clean_up_addr_range finds empty once the page is gone.
Emptied(m, s, page) ==
    LET alone(level) ==
          \A e \in DOMAIN m.table :
              (e[1] = s /\ e[2] < level /\ e # Entry(s, e[2], page))
                  => (e[3] * Span(e[2])) \div Span(level) # page \div Span(level)
    IN SelectSeq(<<1, 2, 3>>, LAMBDA level : alone(level))

\* Room for the page's frame and three tables.
HasRoom(m) == Len(m.cache) <= CAPACITY - MAX_FRAMES_RECLAIMED_PER_UNMAP

\* unmap_page and unmap_and_deallocate.
UnmapPage(m, s, page) ==
    IF ~(HasRoom(m) /\ Mapped(m, s, page)) THEN [ok |-> FALSE, mem |-> m]
    ELSE LET levels  == <<0>> \o Emptied(m, s, page)
             entries == [i \in DOMAIN levels |-> Entry(s, levels[i], page)]
         IN [ok |-> TRUE,
             mem |-> [Reclaimed(m, [i \in DOMAIN entries |-> m.table[entries[i]]])
                        EXCEPT !.table = Restrict(@, DOMAIN m.table \ ToSet(entries))]]

-----------------------------------------------------------------------------
(* Address spaces of programs.                                              *)

NoSpace == [state |-> "none", root |-> 0, kernelHalf |-> 0, pages |-> 0]

\* The frame below the heap's top-level slot: every root points to it.
KernelHalf(m) ==
    LET e == Entry("kernel", 3, 0) IN IF e \in DOMAIN m.table THEN m.table[e] ELSE 0

\* create_address_space: one frame, and the kernel's top-level entries in it.
CreateAddressSpace(s) ==
    /\ space[s].state = "none"
    /\ Available(mem) > 0
    /\ mem' = Taken(mem, 1)
    /\ space' = [space EXCEPT ![s] =
                    [state |-> "loading", root |-> NextFrames(mem, 1)[1],
                     kernelHalf |-> KernelHalf(mem), pages |-> 0]]
    /\ UNCHANGED <<heap, cr3>>

\* load_segments maps the next page, or gives up and destroys the space.
MapUserPage(s) ==
    LET result == MapPage(mem, s, space[s].pages)
    IN /\ space[s].state = "loading" /\ space[s].pages < PROGRAM_PAGES
       /\ mem' = result.mem
       /\ space' = IF result.ok THEN [space EXCEPT ![s].pages = @ + 1]
                   ELSE [space EXCEPT ![s].state = "cleanup"]
       /\ UNCHANGED <<heap, cr3>>

\* The program is loaded; spawning it succeeds or, with no task slot or no
\* memory for its stack, destroys the space.
Spawn(s) ==
    /\ space[s].state = "loading" /\ space[s].pages = PROGRAM_PAGES
    /\ \E state \in {"live", "cleanup"} : space' = [space EXCEPT ![s].state = state]
    /\ UNCHANGED <<mem, heap, cr3>>

\* One round of destroy's loop, or its end, on the space sp.
DestroyStep(m, s, sp) ==
    IF sp.pages > 0
    THEN LET result == UnmapPage(m, s, sp.pages - 1)
         IN [ok |-> result.ok, mem |-> result.mem,
             space |-> IF result.ok THEN [sp EXCEPT !.pages = @ - 1] ELSE sp]
    ELSE IF Len(m.cache) < CAPACITY
    THEN [ok |-> TRUE, mem |-> Reclaimed(m, <<sp.root>>), space |-> NoSpace]
    ELSE [ok |-> FALSE, mem |-> m, space |-> sp]

\* Giving up a program that was not started.  When destroy fails, the space is
\* dropped as it is: AddressSpaceCleanup.
Cleanup(s) ==
    LET result == DestroyStep(mem, s, space[s])
    IN /\ space[s].state = "cleanup"
       /\ mem' = result.mem
       /\ space' = [space EXCEPT ![s] =
                      IF result.ok THEN result.space ELSE [@ EXCEPT !.state = "lost"]]
       /\ UNCHANGED <<heap, cr3>>

\* The scheduler runs a program or a kernel task.
Activate(s) ==
    /\ s # "kernel" => space[s].state = "live"
    /\ cr3' = s
    /\ UNCHANGED <<mem, space, heap>>

\* A program ends, by itself or by another task; the next task is activated.
Terminate(s) ==
    /\ space[s].state = "live"
    /\ space' = [space EXCEPT ![s].state = "terminated"]
    /\ IF cr3 = s THEN cr3' \in {"kernel"} \cup {t \in Spaces \ {s} : space[t].state = "live"}
                  ELSE cr3' = cr3
    /\ UNCHANGED <<mem, heap>>

\* reap_terminated calls destroy under the scheduler's lock, so in one step.
\* When destroy fails the task stays terminated, and can be reaped again.
Reap(s) ==
    LET result ==
          FoldLeft(LAMBDA last, k : IF ~last.ok THEN last ELSE DestroyStep(last.mem, s, last.space),
                   [ok |-> TRUE, mem |-> mem, space |-> space[s]], Upto(space[s].pages + 1))
    IN /\ space[s].state = "terminated" /\ cr3 # s
       /\ mem' = result.mem
       /\ space' = [space EXCEPT ![s] = result.space]
       /\ UNCHANGED <<heap, cr3>>

-----------------------------------------------------------------------------
(* The kernel heap.                                                         *)

CeilDiv(n, d) == (n + d - 1) \div d

\* added_table_pages
AddedTables(previous, growth, span) ==
    CeilDiv(previous + growth, span) - CeilDiv(previous, span)

\* required_frames_for_growth
RequiredFrames(previous, growth) ==
    growth + AddedTables(previous, growth, PAGES_PER_TABLE)
           + AddedTables(previous, growth, PAGES_PER_DIRECTORY)
           + IF previous = 0 THEN 1 ELSE 0

\* Mutant: a large request is mapped in one piece.
GrowthChunkWhole(target, mapped) ==
    LET desired == IF target > mapped THEN target - mapped ELSE GROWTH_PAGES
    IN Min({desired, SLOT_PAGES - mapped})

\* growth_chunk_pages, with what is left of the slot.
GrowthChunk(target, mapped) ==
    LET desired == IF target > mapped THEN target - mapped ELSE GROWTH_PAGES
    IN Min({desired, GROWTH_PAGES, SLOT_PAGES - mapped})

\* The pages from..(from + k - 1), mapped until one fails.
MapPages(m, from, n) ==
    FoldLeft(LAMBDA last, k :
                 LET result == MapPage(last.mem, "kernel", from + k - 1)
                 IN IF ~last.ok THEN last
                    ELSE [ok |-> result.ok, mem |-> result.mem,
                          done |-> IF result.ok THEN k ELSE k - 1],
             [ok |-> TRUE, mem |-> m, done |-> 0], Upto(n))

\* The rollback of grow: the last page first, and on when one is refused.
UnmapPages(m, from, n) ==
    FoldLeft(LAMBDA last, k :
                 LET result == UnmapPage(last.mem, "kernel", from + n - k)
                 IN [ok |-> last.ok /\ result.ok, mem |-> result.mem],
             [ok |-> TRUE, mem |-> m], Upto(n))

\* grow
Grow(h, m, target) ==
    LET pages    == GrowthChunk(target, h.pages)
        mapping  == MapPages(m, h.pages, pages)
        rollback == UnmapPages(mapping.mem, h.pages, mapping.done)
    IN IF \/ h.poisoned \/ pages = 0
          \/ PREFLIGHT /\ Available(m) < RequiredFrames(h.pages, pages)
       THEN [ok |-> FALSE, heap |-> h, mem |-> m]
       ELSE IF mapping.ok
       THEN [ok |-> TRUE, heap |-> [h EXCEPT !.pages = @ + pages], mem |-> mapping.mem]
       ELSE [ok |-> FALSE, heap |-> [h EXCEPT !.poisoned = ~rollback.ok], mem |-> rollback.mem]

\* growth_pages_for_layout
MinimumPages(layout) == CeilDiv(Max({layout.size, MIN_HOLE_SIZE}), PAGE_SIZE)
TargetPages(layout) ==
    CeilDiv(Max({layout.size, MIN_HOLE_SIZE}) + layout.align - 1, PAGE_SIZE)

\* KernelAllocator::alloc of a layout that finds no room.  It grows the heap
\* until there is room, which only the free list knows, or it gives up.
HeapAlloc(layout) ==
    LET target  == TargetPages(layout)
        missing == MinimumPages(layout) - heap.pages
        grown(k) == FoldLeft(LAMBDA last, j :
                                 IF ~last.ok THEN last ELSE Grow(last.heap, last.mem, target),
                             [ok |-> TRUE, heap |-> heap, mem |-> mem], Upto(k))
        reached(result) == target > heap.pages /\ result.heap.pages >= target
    IN /\ ~heap.poisoned
       /\ target <= SLOT_PAGES
       /\ (PREFLIGHT /\ missing > 0) => Available(mem) >= RequiredFrames(heap.pages, missing)
       /\ \E k \in 1..SLOT_PAGES :
            LET result == grown(k)
            IN /\ \A j \in 1..(k - 1) : grown(j).ok /\ ~reached(grown(j))
               /\ heap' = result.heap
               /\ mem'  = result.mem
       /\ UNCHANGED <<space, cr3>>

-----------------------------------------------------------------------------

\* The heap is initialized before the first task.
Init ==
    LET fresh == [cursor |-> 0, cache |-> <<>>, table |-> <<>>, panicked |-> FALSE]
        grown == Grow([pages |-> 0, poisoned |-> FALSE], fresh, GROWTH_PAGES)
    IN /\ grown.ok
       /\ mem = grown.mem /\ heap = grown.heap
       /\ space = [s \in Spaces |-> NoSpace]
       /\ cr3 = "kernel"

Next ==
    \/ \E s \in Spaces :
        \/ CreateAddressSpace(s) \/ MapUserPage(s) \/ Spawn(s)
        \/ Cleanup(s) \/ Terminate(s) \/ Reap(s)
    \/ \E s \in Spaces \cup {"kernel"} : Activate(s)
    \/ \E layout \in Layouts : HeapAlloc(layout)

Spec == Init /\ [][Next]_vars

-----------------------------------------------------------------------------
(* Correctness.                                                             *)

States == {"none", "loading", "cleanup", "live", "terminated", "lost"}

Roots == {s \in Spaces : space[s].root # 0}

\* Every frame has exactly one owner: it is unvisited, or cached once, or the
\* root of one space, or in one page-table entry.  So the allocator never hands
\* out a frame in use, and no failed mapping, failed load or partial destroy
\* loses one.
FramesHaveOneOwner ==
    LET unvisited == (mem.cursor + 1)..NFRAMES
        cached    == ToSet(mem.cache)
        roots     == {space[s].root : s \in Roots}
        entries   == Range(mem.table)
    IN /\ UNION {unvisited, cached, roots, entries} = Frames
       /\ Cardinality(unvisited) + Len(mem.cache) + Cardinality(Roots)
            + Cardinality(DOMAIN mem.table) = NFRAMES

\* The mapped pages are those the spaces and the heap know of, and there are
\* page tables for these and for no others: none is missing, none is empty.
TablesFollowPages ==
    LET pages == {<<"kernel", i>> : i \in 0..(heap.pages - 1)}
                   \cup UNION {{<<s, i>> : i \in 0..(space[s].pages - 1)} : s \in Spaces}
    IN DOMAIN mem.table = {Entry(p[1], level, p[2]) : p \in pages, level \in 0..3}

\* Every address space shares the kernel's half as it is now: the table that its
\* root points to has not been given back or replaced since it was created.
KernelHalfShared ==
    \A s \in Roots : space[s].kernelHalf = KernelHalf(mem)

\* required_frames_for_growth is exactly what mapping the pages takes, so the
\* preflight refuses no growth that would succeed, and a growth it admits never
\* runs out of frames half way.
PreflightExact ==
    \A n \in 1..(SLOT_PAGES - heap.pages) :
        LET mapping == MapPages(mem, heap.pages, n)
        IN mapping.ok <=> RequiredFrames(heap.pages, n) <= Available(mem)

\* Mapping in chunks of HEAP_GROWTH_PAGES keeps each rollback within the cache:
\* even without the preflight no growth leaves pages behind and poisons the heap.
RollbackFits == ~heap.poisoned
=============================================================================
