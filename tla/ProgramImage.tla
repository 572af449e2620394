---------------------------- MODULE ProgramImage ----------------------------
(***************************************************************************)
(* Loading a program (user_program.rs) and the kernel's access to its      *)
(* memory afterwards (AddressSpace in memory/mod.rs): what an image must   *)
(* look like, where code, data, stack and arguments go, and which buffers  *)
(* a system call may touch.  Frames and their release are module Memory's. *)
(*                                                                         *)
(* Memory is a function from the mapped addresses to bytes.  A byte tells  *)
(* what it is: a byte of the file at an offset, a byte of a pointer, a     *)
(* character, or zero.                                                     *)
(***************************************************************************)
EXTENDS Integers, Sequences, SequencesExt, FiniteSets

CONSTANTS PAGE_SIZE, USER_SPACE_START, USER_SPACE_END,
          USER_STACK_TOP, USER_STACK_SIZE, USER_STACK_ARGUMENT_RESERVE,
          POINTER_SIZE,                 \* 8 in the code
          RAW_PROGRAM_MAX_SIZE, APP_MAX_MEMORY_SIZE, APP_HEADER_SIZE,
          MAX_PROGRAM_ARGUMENTS, MAX_PROGRAM_ARGUMENT_BYTES,
          USIZE_MAX,                    \* largest usize
          Images,                       \* files: see Image
          Commands                      \* paths with their arguments

\* A file: whether it is an .app, whether magic, version, header size and the
\* reserved field are right, the four lengths of its header, and its length.
Image(app, header, entry, code, data, bss, length) ==
    [app |-> app, header |-> header, entry |-> entry,
     code |-> code, data |-> data, bss |-> bss, length |-> length]

\* The arguments always fit below the reserve.
ProgramImageAssumption ==
    /\ {USER_SPACE_START, USER_SPACE_END, USER_STACK_TOP, USER_STACK_SIZE} \subseteq
           {n \in Nat : n % PAGE_SIZE = 0}
    /\ (MAX_PROGRAM_ARGUMENTS + 2) * POINTER_SIZE + MAX_PROGRAM_ARGUMENT_BYTES
           + POINTER_SIZE - 1 + USER_STACK_ARGUMENT_RESERVE <= USER_STACK_SIZE

VARIABLES phase,     \* "idle", "refused", "mapping", "failed", "loaded", "broken"
          image, command,
          access,    \* page address -> access, for the pages of the space
          memory     \* address -> byte, for the bytes of those pages

vars == <<phase, image, command, access, memory>>

NoImage == Image(FALSE, FALSE, 0, 0, 0, 0, 0)
NoCommand == [path |-> <<>>, arguments |-> <<>>]
Empty == <<>>

DivCeil(n, d) == (n + d - 1) \div d
RoundUp(n, d) == DivCeil(n, d) * d
PageOf(address) == address - (address % PAGE_SIZE)

Zero == <<"zero", 0, 0>>
FileByte(offset) == <<"file", offset, 0>>
Character(c) == <<"character", c, 0>>
Bytes(from, count) == [k \in 1..count |-> FileByte(from + k - 1)]

RAW_PROGRAM_BASE == USER_SPACE_START + PAGE_SIZE
STACK_START == USER_STACK_TOP - USER_STACK_SIZE

(* ------------------------------ the image ------------------------------ *)

\* checked_add twice; a sum that overflows is larger than any limit.
MemorySize(i) ==
    IF i.code + i.data > USIZE_MAX \/ i.code + i.data + i.bss > USIZE_MAX
    THEN USIZE_MAX + 1
    ELSE i.code + i.data + i.bss

parse_app_image(i) ==
    /\ i.length >= APP_HEADER_SIZE
    /\ i.header
    /\ i.code # 0
    /\ i.entry < i.code
    /\ MemorySize(i) <= APP_MAX_MEMORY_SIZE
    /\ APP_HEADER_SIZE + i.code + i.data = i.length

load_raw_image(i) == i.length # 0 /\ i.length <= RAW_PROGRAM_MAX_SIZE

\* What load_segments is given.
Segments(i) ==
    IF i.app
    THEN [code |-> Bytes(APP_HEADER_SIZE, i.code),
          data |-> Bytes(APP_HEADER_SIZE + i.code, i.data), bss |-> i.bss, entry |-> i.entry]
    ELSE [code |-> Bytes(0, i.length), data |-> <<>>, bss |-> 0, entry |-> 0]

(* ---------------------------- the arguments ---------------------------- *)

Strings(c) == <<c.path>> \o c.arguments

StringsBytes(c) == FoldLeft(LAMBDA n, s : n + Len(s) + 1, 0, Strings(c))

PointerBytes(c) == (Len(Strings(c)) + 1) * POINTER_SIZE

ArgumentsFit(c) ==
    /\ Len(c.arguments) <= MAX_PROGRAM_ARGUMENTS
    /\ StringsBytes(c) <= MAX_PROGRAM_ARGUMENT_BYTES
    /\ RoundUp(PointerBytes(c) + StringsBytes(c), POINTER_SIZE) <= USER_STACK_SIZE

ArgumentSize(c) == RoundUp(PointerBytes(c) + StringsBytes(c), POINTER_SIZE)

ArgumentVector(c) == USER_STACK_TOP - USER_STACK_ARGUMENT_RESERVE - ArgumentSize(c)

Pointer(address) == [k \in 1..POINTER_SIZE |-> <<"pointer", address, k>>]
Zeros(count) == [k \in 1..count |-> Zero]
Characters(s) == [k \in DOMAIN s |-> Character(s[k])]

\* Mutant: a string starts where the one before it ends, on its NUL.
BuildArgumentVectorTight(c) ==
    LET add(out, s) ==
            [pointers |-> out.pointers \o
                          Pointer(ArgumentVector(c) + PointerBytes(c) + Len(out.strings)),
             strings |-> out.strings \o Characters(s)]
        all == FoldLeft(add, [pointers |-> <<>>, strings |-> <<>>], Strings(c))
        used == PointerBytes(c) + Len(all.strings)
    IN  all.pointers \o Zeros(POINTER_SIZE) \o all.strings \o Zeros(ArgumentSize(c) - used)

\* argv with its NULL, then the strings with their NULs, then padding.
build_argument_vector(c) ==
    LET add(out, s) ==
            [pointers |-> out.pointers \o
                          Pointer(ArgumentVector(c) + PointerBytes(c) + Len(out.strings)),
             strings |-> out.strings \o Characters(s) \o <<Zero>>]
        all == FoldLeft(add, [pointers |-> <<>>, strings |-> <<>>], Strings(c))
    IN  all.pointers \o Zeros(POINTER_SIZE) \o all.strings
            \o Zeros(ArgumentSize(c) - PointerBytes(c) - StringsBytes(c))

(* ------------------------------- loading ------------------------------- *)

Run(start, count, how) ==
    [k \in 1..count |-> [page |-> start + (k - 1) * PAGE_SIZE, access |-> how]]

CodePages(s) == Run(RAW_PROGRAM_BASE, DivCeil(Len(s.code), PAGE_SIZE), "ReadExecute")

DataStart(s) == RAW_PROGRAM_BASE + DivCeil(Len(s.code), PAGE_SIZE) * PAGE_SIZE

DataPages(s) == Run(DataStart(s), DivCeil(Len(s.data) + s.bss, PAGE_SIZE), "ReadWrite")

StackPages == Run(STACK_START, USER_STACK_SIZE \div PAGE_SIZE, "ReadWrite")

DataEnd(s) == DataStart(s) + RoundUp(Len(s.data) + s.bss, PAGE_SIZE)

AcceptsSegments(s, c) ==
    /\ Len(s.code) # 0
    /\ Len(s.code) + Len(s.data) + s.bss <= APP_MAX_MEMORY_SIZE
    /\ s.entry < Len(s.code)
    /\ DataEnd(s) <= STACK_START - PAGE_SIZE
    /\ ArgumentsFit(c)

\* The bytes go to the pages one page at a time, from destination on.  The
\* result is not ok when a page is missing, or bytes are left over, which is
\* the assertion at the end.
copy_to_pages(bytes, pages, destination, mem) ==
    LET copy(out, p) ==
            LET end == p.page + PAGE_SIZE
                left == Len(bytes) - out.copied
                room == end - out.at
                chunk == IF left < room THEN left ELSE room
            IN  IF ~out.ok \/ left = 0 \/ out.at >= end THEN out
                ELSE IF out.at < p.page THEN [out EXCEPT !.ok = FALSE]
                ELSE [ok |-> TRUE, copied |-> out.copied + chunk, at |-> out.at + chunk,
                      mem |-> [a \in DOMAIN out.mem |->
                                  IF a \in out.at..(out.at + chunk - 1)
                                  THEN bytes[out.copied + 1 + a - out.at] ELSE out.mem[a]]]
        done == FoldLeft(copy, [ok |-> TRUE, copied |-> 0, at |-> destination, mem |-> mem], pages)
    IN  [ok |-> done.ok /\ done.copied = Len(bytes), mem |-> done.mem]

AllPages(s) == CodePages(s) \o DataPages(s) \o StackPages

Init ==
    /\ phase = "idle" /\ image = NoImage /\ command = NoCommand
    /\ access = Empty /\ memory = Empty

\* The checks, before an address space exists.
Load(i, c) ==
    /\ phase = "idle"
    /\ image' = i /\ command' = c
    /\ phase' = IF (IF i.app THEN parse_app_image(i) ELSE load_raw_image(i))
                   /\ AcceptsSegments(Segments(i), c)
                THEN "mapping" ELSE "refused"
    /\ UNCHANGED <<access, memory>>

\* map_user_page for the next page; a fresh frame is zeroed.
MapUserPage ==
    LET pages == AllPages(Segments(image))
        n == Cardinality(DOMAIN access)
        next == pages[n + 1]
    IN  /\ phase = "mapping" /\ n < Len(pages)
        /\ next.page \notin DOMAIN access
        /\ access' = [p \in DOMAIN access \cup {next.page} |->
                         IF p = next.page THEN next.access ELSE access[p]]
        /\ memory' = [a \in DOMAIN memory \cup next.page..(next.page + PAGE_SIZE - 1) |->
                         IF a < next.page \/ a >= next.page + PAGE_SIZE THEN memory[a] ELSE Zero]
        /\ UNCHANGED <<phase, image, command>>

\* No frame, or a page that is mapped already: the space is destroyed.
MapUserPageFails ==
    /\ phase = "mapping" /\ Cardinality(DOMAIN access) < Len(AllPages(Segments(image)))
    /\ phase' = "failed" /\ access' = Empty /\ memory' = Empty
    /\ UNCHANGED <<image, command>>

CopySegments ==
    LET s == Segments(image)
        code == copy_to_pages(s.code, CodePages(s), RAW_PROGRAM_BASE, memory)
        data == copy_to_pages(s.data, DataPages(s), DataStart(s), code.mem)
        args == copy_to_pages(build_argument_vector(command), StackPages,
                              ArgumentVector(command), data.mem)
    IN  /\ phase = "mapping"
        /\ Cardinality(DOMAIN access) = Len(AllPages(s))
        /\ phase' = IF code.ok /\ data.ok /\ args.ok THEN "loaded" ELSE "broken"
        /\ memory' = args.mem
        /\ UNCHANGED <<image, command, access>>

\* The program is gone, or the caller has its error; the next one is loaded.
Finish ==
    /\ phase \in {"refused", "failed", "loaded"}
    /\ phase' = "idle" /\ image' = NoImage /\ command' = NoCommand
    /\ access' = Empty /\ memory' = Empty

Next ==
    \/ \E i \in Images, c \in Commands : Load(i, c)
    \/ MapUserPage
    \/ MapUserPageFails
    \/ CopySegments
    \/ Finish

Spec == Init /\ [][Next]_vars

(* ---------------------------- user buffers ----------------------------- *)

\* The pages from the one a buffer starts in to the one before its end.
validate_user_range(address, length, writable) ==
    LET end == address + length
    IN  \/ length = 0
        \/ /\ address >= USER_SPACE_START /\ end <= USER_SPACE_END
           /\ \A k \in 0..length :
                 LET page == PageOf(address) + k * PAGE_SIZE
                 IN  page < end => /\ page \in DOMAIN access
                                   /\ writable => access[page] = "ReadWrite"

(* ------------------------------ properties ----------------------------- *)

\* A proper image and command, in plain arithmetic.
Proper(i, c) ==
    LET code == IF i.app THEN i.code ELSE i.length
        data == IF i.app THEN i.data + i.bss ELSE 0
    IN  /\ i.app => i.header /\ i.length = APP_HEADER_SIZE + i.code + i.data /\ i.entry < i.code
        /\ ~i.app => i.length <= RAW_PROGRAM_MAX_SIZE
        /\ code > 0 /\ code + data <= APP_MAX_MEMORY_SIZE
        /\ RAW_PROGRAM_BASE + RoundUp(code, PAGE_SIZE) + RoundUp(data, PAGE_SIZE) + PAGE_SIZE
               <= STACK_START
        /\ Len(c.arguments) <= MAX_PROGRAM_ARGUMENTS
        /\ StringsBytes(c) <= MAX_PROGRAM_ARGUMENT_BYTES

\* An image is refused for a reason a reader of the format would accept:
\* lengths that do not add up to the file, an entry outside
\* the code, more memory than is allowed or than leaves a page free below the
\* stack, or arguments that are too many or too long.
RefusesWhatIsImproper ==
    /\ phase = "refused" => ~Proper(image, command)
    /\ phase \in {"mapping", "failed", "loaded", "broken"} => Proper(image, command)

At(address) == IF address \in DOMAIN memory THEN memory[address] ELSE <<"unmapped", 0, 0>>

HoldsString(address, s) ==
    /\ \A k \in 1..Len(s) : At(address + k - 1) = Character(s[k])
    /\ At(address + Len(s)) = Zero

\* What a program finds when it starts: its code and nothing else in
\* executable pages that it cannot write, its data behind them and zeros where
\* the file has none, an unmapped page below the stack, and an argv on the
\* stack, clear of the reserve at its top, that ends in NULL and leads to the
\* path and the arguments, each with its NUL.  Once the pages are there the
\* copies never fall short of them.
LoadedAsMeant ==
    /\ phase # "broken"
    /\ phase = "loaded" =>
        LET code == IF image.app THEN image.code ELSE image.length
            skip == IF image.app THEN APP_HEADER_SIZE ELSE 0
            data == IF image.app THEN image.data ELSE 0
            bss == IF image.app THEN image.bss ELSE 0
            start == RAW_PROGRAM_BASE + RoundUp(code, PAGE_SIZE)
            argv == ArgumentVector(command)
            count == Len(Strings(command))
        IN  /\ \A k \in 0..(code - 1) : At(RAW_PROGRAM_BASE + k) = FileByte(skip + k)
            /\ \A k \in 0..(data - 1) : At(start + k) = FileByte(skip + code + k)
            /\ \A k \in 0..(bss - 1) : At(start + data + k) = Zero
            /\ \A p \in DOMAIN access :
                  access[p] = (IF p < start THEN "ReadExecute" ELSE "ReadWrite")
            /\ STACK_START - PAGE_SIZE \notin DOMAIN access
            /\ \A a \in (USER_STACK_TOP - USER_STACK_ARGUMENT_RESERVE)..(USER_STACK_TOP - 1) :
                  At(a) = Zero
            /\ argv % POINTER_SIZE = 0
            /\ \A k \in 1..POINTER_SIZE : At(argv + count * POINTER_SIZE + k - 1) = Zero
            /\ \A n \in 1..count :
                  LET slot == argv + (n - 1) * POINTER_SIZE
                      address == At(slot)[2]
                  IN  /\ \A k \in 1..POINTER_SIZE : At(slot + k - 1) = <<"pointer", address, k>>
                      /\ HoldsString(address, Strings(command)[n])

\* A buffer is accepted exactly when each of its bytes is in a page of the
\* program, and in a writable one where the kernel is to write: over every
\* start and length, page boundaries and the gaps between segments included.
BuffersByByte ==
    phase = "loaded" =>
        \A address \in 0..USER_SPACE_END, length \in 0..(2 * PAGE_SIZE + 1), writable \in BOOLEAN :
            validate_user_range(address, length, writable) <=>
                \A a \in address..(address + length - 1) :
                    /\ PageOf(a) \in DOMAIN access
                    /\ writable => access[PageOf(a)] = "ReadWrite"
=============================================================================
