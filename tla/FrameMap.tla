------------------------------ MODULE FrameMap ------------------------------
(***************************************************************************)
(* BootInfoFrameAllocator of memory/mod.rs: the firmware's memory map is   *)
(* validated, the pages of the boot objects are computed, and a cursor     *)
(* over the descriptors hands out the conventional frames one by one,      *)
(* after those that were given back.  Addresses are bytes; PAGE_SIZE is    *)
(* scaled down, and all of them stay below the physical limit, so the      *)
(* checked additions of the code do not overflow.                          *)
(***************************************************************************)
EXTENDS Integers, Sequences, FiniteSets, SequencesExt

CONSTANTS PAGE_SIZE,
          LIMIT,           \* physical_limit: the end of physical memory
          CAPACITY,        \* RECLAIMED_FRAME_CAPACITY
          Maps,            \* memory maps: sequences of records [kind, start, pages]
          Objects          \* sets of boot objects: pairs of an address and a size

\* What the constants must satisfy.
FrameMapAssumption ==
    /\ {PAGE_SIZE, CAPACITY} \subseteq Nat \ {0}
    /\ LIMIT \in Nat /\ LIMIT > PAGE_SIZE

VARIABLES
    map,         \* memory_map
    objects,     \* the boot objects in the reserved ranges
    index,       \* descriptor_index, from 1
    page,        \* page_index
    cache,       \* reclaimed_frames
    held         \* the frames handed out

vars == <<map, objects, index, page, cache, held>>

End(d) == d.start + d.pages * PAGE_SIZE

Overlaps(a, b) == a.start < b.end /\ b.start < a.end
RangeOf(d)     == [start |-> d.start, end |-> End(d)]

\* validate_memory_map: each descriptor is aligned, not empty, within the limit
\* and apart from the ones before it.
ValidateMemoryMap(m) ==
    /\ m # <<>>
    /\ \A i \in DOMAIN m :
          /\ m[i].pages # 0 /\ m[i].start % PAGE_SIZE = 0
          /\ m[i].start < LIMIT /\ End(m[i]) <= LIMIT
          /\ \A j \in 1..(i - 1) : ~Overlaps(RangeOf(m[i]), RangeOf(m[j]))

\* page_covering_range: the pages that an object touches.
PageCoveringRange(object) ==
    IF object[2] = 0 THEN [start |-> 0, end |-> 0]
    ELSE [start |-> (object[1] \div PAGE_SIZE) * PAGE_SIZE,
          end   |-> ((object[1] + object[2] + PAGE_SIZE - 1) \div PAGE_SIZE) * PAGE_SIZE]

\* reserved_ranges
ReservedRanges(os) == {PageCoveringRange(o) : o \in os}
RangesFit(os) == \A r \in ReservedRanges(os) : r.end <= LIMIT

InRange(r, address) == r.start <= address /\ address < r.end
Reserved(address)    == \E r \in ReservedRanges(objects) : InRange(r, address)

\* BootInfoFrameAllocator::new.  It also refuses a map whose conventional memory
\* overlaps a reserved range; the allocator does not rely on it, and the
\* repository's tests build allocators without it, so here it is left out.
Accepted(m, os) == ValidateMemoryMap(m) /\ RangesFit(os)

Init ==
    /\ map \in Maps /\ objects \in Objects
    /\ Accepted(map, objects)
    /\ index = 1 /\ page = 0 /\ cache = <<>> /\ held = {}

\* Mutant: the page is not reset for the next descriptor.
PositionsUnreset ==
    {p \in (index..Len(map)) \X (0..(LIMIT \div PAGE_SIZE)) :
        /\ p[2] >= page
        /\ map[p[1]].kind = "conventional" /\ p[2] < map[p[1]].pages
        /\ LET address == map[p[1]].start + p[2] * PAGE_SIZE
           IN address < LIMIT /\ ~Reserved(address)}

\* The cursor positions that next_usable_frame stops at, from the current one on.
Positions ==
    {p \in (index..Len(map)) \X (0..(LIMIT \div PAGE_SIZE)) :
        /\ p[1] = index => p[2] >= page
        /\ map[p[1]].kind = "conventional" /\ p[2] < map[p[1]].pages
        /\ LET address == map[p[1]].start + p[2] * PAGE_SIZE
           IN address < LIMIT /\ ~Reserved(address)}

Before(p, q) == p[1] < q[1] \/ (p[1] = q[1] /\ p[2] < q[2])

\* next_usable_frame: a cached frame, else the next one under the cursor, which
\* ends behind the map when there is none.
NextUsableFrame ==
    \/ /\ cache # <<>>
       /\ held' = held \cup {Last(cache)}
       /\ cache' = Front(cache)
       /\ UNCHANGED <<map, objects, index, page>>
    \/ /\ cache = <<>> /\ Positions # {}
       /\ \E p \in Positions :
            /\ \A q \in Positions \ {p} : Before(p, q)
            /\ held' = held \cup {map[p[1]].start + p[2] * PAGE_SIZE}
            /\ index' = p[1] /\ page' = p[2] + 1
       /\ UNCHANGED <<map, objects, cache>>
    \/ /\ cache = <<>> /\ Positions = {}
       /\ index' = Len(map) + 1 /\ page' = 0
       /\ UNCHANGED <<map, objects, cache, held>>

\* is_allocatable_frame
IsAllocatableFrame(frame) ==
    /\ frame < LIMIT /\ ~Reserved(frame)
    /\ \E i \in DOMAIN map : map[i].kind = "conventional" /\ InRange(RangeOf(map[i]), frame)

\* deallocate_frame by the holder of a frame.
DeallocateFrame(frame) ==
    /\ frame \in held
    /\ IsAllocatableFrame(frame) /\ Len(cache) < CAPACITY
    /\ cache' = Append(cache, frame)
    /\ held' = held \ {frame}
    /\ UNCHANGED <<map, objects, index, page>>

Next == NextUsableFrame \/ \E frame \in held : DeallocateFrame(frame)

Spec == Init /\ [][Next]_vars

-----------------------------------------------------------------------------
(* The count of frames left.                                                *)

\* The pages of a range outside the reserved ones, which are taken by their
\* start; the part of one that an earlier one covers is not taken off again.
UnreservedPages(range) ==
    LET sorted == SetToSortSeq(ReservedRanges(objects), LAMBDA a, b : a.start < b.start)
        step(acc, r) ==
          LET from == Max({range.start, r.start})
              to   == Min({range.end, r.end})
              new  == Max({from, acc.cursor})
          IN IF from >= to THEN acc
             ELSE [pages  |-> IF new < to THEN Max({0, acc.pages - (to - new) \div PAGE_SIZE})
                              ELSE acc.pages,
                   cursor |-> Max({acc.cursor, to})]
    IN FoldLeft(step, [pages  |-> (range.end - range.start) \div PAGE_SIZE,
                       cursor |-> range.start], sorted).pages

\* available_frame_count
AvailableFrameCount ==
    LET left(i) ==
          LET first == IF i = index THEN page ELSE 0
          IN IF map[i].kind # "conventional" \/ first >= map[i].pages THEN 0
             ELSE UnreservedPages([start |-> map[i].start + first * PAGE_SIZE,
                                   end   |-> End(map[i])])
    IN Len(cache) + FoldLeft(LAMBDA n, i : n + left(i), 0,
                             [k \in 1..(Len(map) - index + 1) |-> index + k - 1])

-----------------------------------------------------------------------------
(* Correctness.                                                             *)

\* The frames whose every byte is conventional memory and belongs to no boot
\* object.
Usable ==
    {f \in {PAGE_SIZE * k : k \in 0..((LIMIT \div PAGE_SIZE) - 1)} :
        /\ \A b \in f..(f + PAGE_SIZE - 1) :
              /\ \E i \in DOMAIN map :
                    map[i].kind = "conventional" /\ map[i].start <= b /\ b < End(map[i])
              /\ \A o \in objects : b \notin o[1]..(o[1] + o[2] - 1)}

Pool == INSTANCE FramePool WITH usable <- Usable, count <- AvailableFrameCount

\* The cursor with its cache is a pool of the usable frames: none is handed out
\* while it is held, none is passed over, no byte of a boot object is ever part
\* of one, and available_frame_count says at every moment how many are left.
ImplementsFramePool == Pool!Spec
=============================================================================
