------------------------------ MODULE MCMemory ------------------------------
(***************************************************************************)
(* Memory from the loader to the programs: BootLoader, the page tables it  *)
(* builds (PageClone, DirectMap), the kernel's frames, address spaces and  *)
(* heap (FrameMap, Memory) and the loading of programs (ProgramImage).     *)
(* They share no state, so that an interleaving of them would reach        *)
(* nothing new: a behaviour is one of the component that part names, and   *)
(* the others keep their initial states.                                   *)
(***************************************************************************)
EXTENDS BootLoader, Sequences, TLC

VARIABLES part,
          tables, gOriginalPageTableRoot, gKernelPageTableRoot, left, cloning,   \* PageClone
          used, root, level3, available, ram, refused, mapping,                  \* DirectMap
          map, objects, index, page, cache, frames,                              \* FrameMap
          mem, space, heap, cr3,                                                 \* Memory
          phase, image, command, access, bytes                                   \* ProgramImage

(* ------------------------- the loader's page tables --------------------- *)

\* The firmware maps the first eight pages to themselves, with huge pages of
\* four or two pages, with small ones, or not at all, in every combination, and
\* its root may refer to itself: one table of level 3, two of level 2, four of
\* level 1 below it.
ROOT == 5
TablePages == {ROOT} \cup 8..14
Absent == [present |-> FALSE, huge |-> FALSE, address |-> 0]
Entry(p) == [present |-> TRUE, huge |-> FALSE, address |-> p]
Huge(p) == [present |-> TRUE, huge |-> TRUE, address |-> p]
Level2(i) == 9 + i
Level1(i, j) == 11 + 2 * i + j
Small(i, j) == [k \in 0..1 |-> IF j = 1 /\ k = 1 THEN Absent ELSE Entry(4 * i + 2 * j + k)]
Choices2(i, j) == {Absent, Huge(4 * i + 2 * j), Entry(Level1(i, j))}
Choices3(i) == {Absent, Huge(4 * i), Entry(Level2(i))}

Firmware ==
    {[root |-> ROOT,
      tables |-> [p \in TablePages |->
          IF p = ROOT THEN (0 :> Entry(8) @@ 1 :> self)
          ELSE IF p = 8 THEN (0 :> a @@ 1 :> b)
          ELSE IF p = 9 THEN (0 :> c @@ 1 :> d)
          ELSE IF p = 10 THEN (0 :> e @@ 1 :> Huge(6))
          ELSE Small((p - 11) \div 2, (p - 11) % 2)]] :
        self \in {Absent, Entry(ROOT)}, a \in Choices3(0), b \in Choices3(1),
        c \in Choices2(0, 0), d \in Choices2(0, 1), e \in Choices2(1, 0)}

Clone == INSTANCE PageClone WITH
    status <- cloning, LEVELS <- 4, ENTRIES <- 2, Tables <- TablePages, Free <- 16..23

\* A window of eight pages with huge pages of two.  Ranges begin anywhere in the
\* window and a little beyond, and at the end of the address space.
Window == INSTANCE DirectMap WITH
    left <- available, status <- mapping, ENTRIES <- 2, ROOT_ENTRIES <- 4,
    ADDRESS_PAGES <- 15, Starts <- (0..8) \cup {15}, Counts <- (0..4) \cup {15, 16},
    MAX_LEFT <- 5

(* ----------------------------- frames and spaces ------------------------ *)

\* Maps of up to two descriptors over five pages of two bytes, valid or not,
\* with one or two boot objects.
DescriptorsDef == [kind : {"conventional", "reserved"}, start : {0, 1, 4, 6}, pages : 0..3]

Allocator == INSTANCE FrameMap WITH
    held <- frames, PAGE_SIZE <- 2, LIMIT <- 10, CAPACITY <- 2,
    Maps <- UNION {[1..n -> DescriptorsDef] : n \in 1..2},
    Objects <- {os \in SUBSET ({3, 6} \X {0, 1, 3}) : Cardinality(os) \in 1..2}

\* Two programs, and requests that take the heap from a chunk to its whole slot.
Layouts == [size : {1, 20, 32}, align : {1}] \cup {[size |-> 24, align |-> 16]}

Kernel == INSTANCE Memory WITH
    Spaces <- {"p", "q"}, NFRAMES <- 22, CAPACITY <- 7, PROGRAM_PAGES <- 2,
    PAGES_PER_TABLE <- 4, PAGES_PER_DIRECTORY <- 8, SLOT_PAGES <- 10, GROWTH_PAGES <- 3,
    PAGE_SIZE <- 4, MIN_HOLE_SIZE <- 2, PREFLIGHT <- TRUE

\* The same, with a growth that finds out half way that frames are missing.
Unchecked == INSTANCE Memory WITH
    Spaces <- {"p", "q"}, NFRAMES <- 22, CAPACITY <- 7, PROGRAM_PAGES <- 2,
    PAGES_PER_TABLE <- 4, PAGES_PER_DIRECTORY <- 8, SLOT_PAGES <- 10, GROWTH_PAGES <- 3,
    PAGE_SIZE <- 4, MIN_HOLE_SIZE <- 2, PREFLIGHT <- FALSE

(* --------------------------------- programs ----------------------------- *)

\* Lengths around the page size and the limits, and one so long that sums
\* overflow; files one byte too short and too long.
Lengths == {0, 1, 4, 5, 31}

Image(app, header, entry, code, data, bss, length) ==
    [app |-> app, header |-> header, entry |-> entry,
     code |-> code, data |-> data, bss |-> bss, length |-> length]

Images ==
    {Image(TRUE, header, entry, code, data, bss, 3 + code + data + extra) :
        header \in BOOLEAN, entry \in {0, 4}, code \in Lengths, data \in Lengths,
        bss \in Lengths, extra \in {-1, 0, 1}}
      \cup {Image(TRUE, TRUE, 0, 0, 0, 0, 2)}
      \cup {Image(FALSE, FALSE, 0, 0, 0, 0, length) : length \in 0..9}

\* Names that end within a pointer and at its end.
Commands ==
    {[path |-> <<1>>, arguments |-> a] :
        a \in {<<>>, <<<<>>>>, <<<<2, 3>>>>, <<<<2>>, <<3>>>>, <<<<>>, <<>>, <<>>>>,
               <<<<2, 3>>, <<4>>>>}}

Programs == INSTANCE ProgramImage WITH
    memory <- bytes, PAGE_SIZE <- 4, USER_SPACE_START <- 4, USER_SPACE_END <- 44,
    USER_STACK_TOP <- 40, USER_STACK_SIZE <- 20, USER_STACK_ARGUMENT_RESERVE <- 2,
    POINTER_SIZE <- 2, RAW_PROGRAM_MAX_SIZE <- 8, APP_MAX_MEMORY_SIZE <- 8,
    APP_HEADER_SIZE <- 3, MAX_PROGRAM_ARGUMENTS <- 2, MAX_PROGRAM_ARGUMENT_BYTES <- 6,
    USIZE_MAX <- 31

ASSUME /\ Clone!PageCloneAssumption /\ Window!DirectMapAssumption
       /\ Allocator!FrameMapAssumption /\ Kernel!MemoryAssumption
       /\ Unchecked!MemoryAssumption /\ Programs!ProgramImageAssumption

(* ------------------------------- one of them ---------------------------- *)

bootVars    == <<types, held, open, file, status, room, tries, fresh, info, use, direct, pc>>
cloneVars   == <<tables, gOriginalPageTableRoot, gKernelPageTableRoot, left, cloning>>
windowVars  == <<used, root, level3, available, ram, refused, mapping>>
frameVars   == <<map, objects, index, page, cache, frames>>
kernelVars  == <<mem, space, heap, cr3>>
programVars == <<phase, image, command, access, bytes>>
partsVars   == <<part, bootVars, cloneVars, windowVars, frameVars, kernelVars, programVars>>

Parts == {"boot", "clone", "window", "frames", "kernel", "unchecked", "program"}

\* Components whose initial states are many are absent from the behaviours of others.
Off(v) == v = 0

PartsInit ==
    /\ part \in Parts
    /\ Init
    /\ IF part = "clone" THEN Clone!Init
       ELSE /\ Off(tables) /\ Off(gOriginalPageTableRoot) /\ Off(gKernelPageTableRoot)
            /\ Off(left) /\ Off(cloning)
    /\ IF part = "window" THEN Window!Init
       ELSE /\ Off(used) /\ Off(root) /\ Off(level3) /\ Off(available) /\ Off(ram)
            /\ Off(refused) /\ Off(mapping)
    /\ IF part = "frames" THEN Allocator!Init
       ELSE Off(map) /\ Off(objects) /\ Off(index) /\ Off(page) /\ Off(cache) /\ Off(frames)
    /\ IF part = "unchecked" THEN Unchecked!Init ELSE Kernel!Init
    /\ Programs!Init

Boot ==
    /\ part = "boot"
    /\ UNCHANGED <<part, cloneVars, windowVars, frameVars, kernelVars, programVars>>

PartsNext ==
    \/ Boot /\ Next
    \/ /\ part = "clone" /\ Clone!Next
       /\ UNCHANGED <<part, bootVars, windowVars, frameVars, kernelVars, programVars>>
    \/ /\ part = "window" /\ Window!Next
       /\ UNCHANGED <<part, bootVars, cloneVars, frameVars, kernelVars, programVars>>
    \/ /\ part = "frames" /\ Allocator!Next
       /\ UNCHANGED <<part, bootVars, cloneVars, windowVars, kernelVars, programVars>>
    \/ /\ \/ part = "kernel" /\ Kernel!Next
          \/ part = "unchecked" /\ Unchecked!Next
       /\ UNCHANGED <<part, bootVars, cloneVars, windowVars, frameVars, programVars>>
    \/ /\ part = "program" /\ Programs!Next
       /\ UNCHANGED <<part, bootVars, cloneVars, windowVars, frameVars, kernelVars>>

PartsSpec == PartsInit /\ [][PartsNext]_partsVars /\ WF_partsVars(Boot /\ Loader)

\* States of the kernel's memory that differ only in which visited frame is
\* where count as one: no step and no property looks at a frame's number as
\* long as each has one owner.
Shape ==
    IF part \in {"kernel", "unchecked"}
    THEN <<part, mem.cursor, Len(mem.cache), mem.panicked, DOMAIN mem.table,
           [s \in {"p", "q"} |-> <<space[s].state, space[s].pages>>],
           heap, cr3, Kernel!FramesHaveOneOwner, Kernel!KernelHalfShared>>
    ELSE partsVars

(* ------------------------------- properties ----------------------------- *)

\* BootLoader: the loader enters the kernel or returns.
LoaderEnds == (part = "boot") => BootEnds

\* PageClone: the clone translates every address as the firmware's tables did,
\* and shares no table with them.
CloneIsFaithful == part = "clone" => Clone!CloneTranslates /\ Clone!TablesApart

\* DirectMap: the direct map has every page of RAM and no other, and the loader
\* gives up only for what is out of order.
DirectMapIsRam == part = "window" => Window!MapsExactlyRam /\ Window!RefusesOnlyDisorder

\* FrameMap: the allocator is a pool of the usable frames.
ImplementsFramePool ==
    /\ part = "frames" => Allocator!Pool!Init
    /\ [][part = "frames" => Allocator!Pool!Step]_partsVars

\* Memory: every frame has exactly one owner, there are page tables for the
\* mapped pages and for no others, and every address space shares the kernel's
\* half as it is now.
SpacesOwnFrames ==
    part \in {"kernel", "unchecked"} =>
        Kernel!FramesHaveOneOwner /\ Kernel!TablesFollowPages /\ Kernel!KernelHalfShared

\* Memory: required_frames_for_growth is exactly what mapping the pages takes,
\* and even without it no growth poisons the heap.
GrowthFits ==
    /\ part \in {"kernel", "unchecked"} => Kernel!PreflightExact
    /\ part = "unchecked" => Unchecked!RollbackFits

\* ProgramImage: an image is refused for a reason a reader of the format
\* accepts, a program finds its code, data and arguments where it expects them,
\* and a buffer of it is accepted exactly when each of its bytes is.
ImagesLoadAsMeant ==
    part = "program" =>
        Programs!RefusesWhatIsImproper /\ Programs!LoadedAsMeant /\ Programs!BuffersByByte
=============================================================================
