----------------------------- MODULE BootLoader -----------------------------
(***************************************************************************)
(* The UEFI loader (efi_main in boot_main.c): it loads the kernel and the  *)
(* initrd, clones the page tables, maps RAM, takes the final memory map    *)
(* and leaves the boot services, unless one of the firmware's services     *)
(* fails.  A step is one call of a boot service; between two of them the   *)
(* firmware's own event handlers may allocate and free memory.  How tables *)
(* are cloned and RAM is mapped is in PageClone and DirectMap.             *)
(***************************************************************************)
EXTENDS Integers, FiniteSets

CONSTANTS PAGES,        \* of physical memory
          KernelPages,  \* those the kernel is linked for
          SLACK,        \* descriptors added to the size of a memory map (32)
          MAX_TRIES     \* attempts at a memory map (8)

ASSUME BootLoaderAssumption ==
    /\ KernelPages \subseteq 0..(PAGES - 1) /\ KernelPages # {}
    /\ SLACK \in Nat /\ MAX_TRIES \in Nat \ {0}

VARIABLES types,    \* the firmware's memory map: the type of every page
          held,     \* the pages of what the loader has allocated
          open,     \* its open files
          file,     \* the file it is loading
          status,   \* of the last call
          room,     \* descriptors for which its memory map has room: MapSize
          tries,
          fresh,    \* the memory map has not changed since MapKey was obtained
          info,     \* the memory map in BootInfo
          use,      \* what a memory map is wanted for
          direct,   \* pages in the direct map
          pc

vars == <<types, held, open, file, status, room, tries, fresh, info, use, direct, pc>>

Pages == 0..(PAGES - 1)
Types == {"Conventional", "BootServicesData", "LoaderCode", "LoaderData", "Reserved"}
Things == {"FileInfo", "kernel", "BootInfo", "initrd", "PageTables", "Map"}

\* IsDirectMappedRamType: every type but the reserved ones.
Ram(map) == {p \in Pages : map[p] # "Reserved"}
Descriptors(map) == Cardinality({p \in Pages : p = 0 \/ map[p] # map[p - 1]})

(* -------------------------- the boot services --------------------------- *)

Take(thing, pages, type) ==
    /\ \A p \in pages : types[p] = "Conventional"
    /\ types' = [p \in Pages |-> IF p \in pages THEN type ELSE types[p]]
    /\ held' = [held EXCEPT ![thing] = @ \cup pages]
    /\ fresh' = FALSE

AllocatePool(thing, type) == \E p \in Pages : Take(thing, {p}, type)

Release(things) ==
    LET pages == UNION {held[t] : t \in things}
    IN  /\ types' = [p \in Pages |-> IF p \in pages THEN "Conventional" ELSE types[p]]
        /\ held' = [t \in Things |-> IF t \in things THEN {} ELSE held[t]]
        /\ fresh' = (fresh /\ pages = {})

memory == <<types, held, fresh>>

\* An event handler of the firmware.
FirmwareEvent ==
    /\ pc \notin {"kernel", "returned"}
    /\ \E p \in Pages :
          \/ /\ types[p] = "Conventional"
             /\ \E t \in {"BootServicesData", "Reserved"} : types' = [types EXCEPT ![p] = t]
          \/ /\ types[p] = "BootServicesData" /\ \A t \in Things : p \notin held[t]
             /\ types' = [types EXCEPT ![p] = "Conventional"]
    /\ fresh' = FALSE
    /\ UNCHANGED <<held, open, file, status, room, tries, info, use, direct, pc>>

Init ==
    /\ types = [p \in Pages |-> IF p = 0 THEN "BootServicesData"
                                ELSE IF p = PAGES - 1 THEN "Reserved" ELSE "Conventional"]
    /\ held = [t \in Things |-> {}]
    /\ open = {}
    /\ file = "kernel"
    /\ status = "ok"
    /\ room = 0 /\ tries = 0
    /\ fresh = FALSE
    /\ info = [p \in Pages |-> "Reserved"]
    /\ use = "direct"
    /\ direct = {}
    /\ pc = "volume"

Go(next) == pc' = next

(* ------------------------------ the files ------------------------------- *)

loading == <<file, room, tries, info, use, direct>>

\* FindBootFileSystem and OpenVolume: nothing to clean up if they fail.
OpenVolume ==
    /\ pc = "volume"
    /\ \/ Go("open") /\ open' = open \cup {"Root"} /\ UNCHANGED status
       \/ Go("returned") /\ status' = "error" /\ UNCHANGED open
    /\ UNCHANGED <<memory, loading>>

\* A call that fails makes for the cleanup.
Fail == Go("cleanup") /\ status' = "error"

OpenFile ==
    /\ pc = "open"
    /\ \/ Go("allocate info") /\ open' = open \cup {"File"} /\ UNCHANGED status
       \/ Fail /\ UNCHANGED open
    /\ UNCHANGED <<memory, loading>>

\* GetInfo for the size, and memory for it.
AllocateInfo ==
    /\ pc = "allocate info"
    /\ \/ AllocatePool("FileInfo", "BootServicesData") /\ Go("get info") /\ UNCHANGED status
       \/ Fail /\ UNCHANGED memory
    /\ UNCHANGED <<open, loading>>

\* GetInfo; an empty file or one that is too large is refused.
GetInfo ==
    /\ pc = "get info"
    /\ \/ Go("reserve") /\ UNCHANGED status
       \/ Fail
    /\ UNCHANGED <<memory, open, loading>>

\* The kernel goes where it is linked for, the initrd anywhere.
Reserve ==
    /\ pc = "reserve"
    /\ \/ /\ \/ file = "kernel" /\ Take("kernel", KernelPages, "LoaderCode")
             \/ file = "initrd" /\ AllocatePool("initrd", "LoaderData")
          /\ Go("read") /\ UNCHANGED status
       \/ Fail /\ UNCHANGED memory
    /\ UNCHANGED <<open, loading>>

\* A read that fails or is short frees the initrd at once.
Read ==
    /\ pc = "read"
    /\ \/ Go("cleanup") /\ UNCHANGED <<status, memory>>
       \/ Fail /\ Release({"initrd"} \cap {file})
    /\ UNCHANGED <<open, loading>>

\* Mutant: the cleanup keeps the kernel's pages after an error.
CleanupKeepKernel ==
    /\ pc = "cleanup"
    /\ Release({"FileInfo"})
    /\ open' = {}
    /\ Go(IF status = "error" THEN "returned" ELSE IF file = "kernel" THEN "boot info" ELSE "clone")
    /\ UNCHANGED <<status, loading>>

\* Cleanup of LoadKernelAt2M and LoadInitrd, and the return to efi_main.
Cleanup ==
    /\ pc = "cleanup"
    /\ Release({"FileInfo"} \cup (IF status = "error" /\ file = "kernel" THEN {"kernel"} ELSE {}))
    /\ open' = {}
    /\ Go(IF status = "error" THEN "returned" ELSE IF file = "kernel" THEN "boot info" ELSE "clone")
    /\ UNCHANGED <<status, loading>>

AllocateBootInfo ==
    /\ pc = "boot info"
    /\ \/ /\ AllocatePool("BootInfo", "LoaderData")
          /\ file' = "initrd"
          /\ Go("volume")
          /\ UNCHANGED status
       \/ /\ Release({"kernel"})
          /\ Go("returned")
          /\ status' = "error"
          /\ UNCHANGED file
    /\ UNCHANGED <<open, room, tries, info, use, direct>>

(* ---------------------------- memory maps ------------------------------- *)

rest == <<open, file>>

\* CloneActivePageTables up to the direct map; on failure everything is kept.
ClonePageTables ==
    /\ pc = "clone"
    /\ \/ AllocatePool("PageTables", "LoaderData") /\ Go("map size") /\ UNCHANGED status
       \/ Go("returned") /\ status' = "error" /\ UNCHANGED memory
    /\ UNCHANGED <<rest, room, tries, info, use, direct>>

\* What efi_main does when one of its last two calls fails.
GiveUp(things) ==
    /\ Release(things \cup (IF use = "exit" THEN {"kernel", "BootInfo"} ELSE {}))
    /\ Go("returned")
    /\ status' = "error"

GetMapSize ==
    /\ pc = "map size"
    /\ \/ /\ room' = Descriptors(types) + SLACK
          /\ tries' = 0
          /\ Go("attempt")
          /\ UNCHANGED <<memory, status>>
       \/ GiveUp({}) /\ UNCHANGED <<room, tries>>
    /\ UNCHANGED <<rest, info, use, direct>>

\* Mutant: only attempts that need new memory for the map are counted.
AttemptUncounted ==
    /\ pc = "attempt"
    /\ \/ tries = MAX_TRIES /\ GiveUp({"Map"}) /\ UNCHANGED tries
       \/ /\ tries < MAX_TRIES
          /\ tries' = IF held["Map"] = {} THEN tries + 1 ELSE tries
          /\ \/ held["Map"] # {} /\ Go("get map") /\ UNCHANGED <<memory, status>>
             \/ held["Map"] = {} /\ AllocatePool("Map", "LoaderData") /\ Go("get map") /\ UNCHANGED status
             \/ held["Map"] = {} /\ GiveUp({})
    /\ UNCHANGED <<rest, room, info, use, direct>>

\* The head of both loops, and the memory for the map unless it is there.
Attempt ==
    /\ pc = "attempt"
    /\ \/ tries = MAX_TRIES /\ GiveUp({"Map"}) /\ UNCHANGED tries
       \/ /\ tries < MAX_TRIES
          /\ tries' = tries + 1
          /\ \/ held["Map"] # {} /\ Go("get map") /\ UNCHANGED <<memory, status>>
             \/ held["Map"] = {} /\ AllocatePool("Map", "LoaderData") /\ Go("get map") /\ UNCHANGED status
             \/ held["Map"] = {} /\ GiveUp({})
    /\ UNCHANGED <<rest, room, info, use, direct>>

GetMemoryMap ==
    /\ pc = "get map"
    /\ \/ /\ Descriptors(types) > room
          /\ Release({"Map"})
          /\ room' = Descriptors(types) + SLACK
          /\ Go("attempt")
          /\ UNCHANGED <<info, status>>
       \/ /\ Descriptors(types) <= room
          /\ info' = types
          /\ fresh' = TRUE
          /\ Go(use)
          /\ UNCHANGED <<types, held, room, status>>
       \/ GiveUp({"Map"}) /\ UNCHANGED <<room, info>>
    /\ UNCHANGED <<rest, tries, use, direct>>

\* A table for the direct map: the memory map the loader reads does not know.
AllocateTable ==
    /\ pc = "direct"
    /\ Cardinality(held["PageTables"]) < 2
    /\ AllocatePool("PageTables", "LoaderData")
    /\ UNCHANGED <<rest, status, room, tries, info, use, direct, pc>>

\* The ranges of the map, each mapped or refused; then the final memory map.
BuildPhysicalMemoryMapping ==
    /\ pc = "direct"
    /\ \/ /\ direct' = Ram(info)
          /\ Release({"Map"})
          /\ use' = "exit"
          /\ Go("map size")
          /\ UNCHANGED status
       \/ GiveUp({"Map"}) /\ UNCHANGED <<direct, use>>
    /\ UNCHANGED <<rest, room, tries, info>>

\* Mutant: after a failure boot services are left with the key there is.
ExitBootServicesStale ==
    /\ pc = "exit"
    /\ \/ Go("kernel")
       \/ Go("attempt")
    /\ UNCHANGED <<memory, rest, status, room, tries, info, use, direct>>

\* ExitBootServices refuses a key that is not that of the memory map as it is,
\* and may refuse another.
ExitBootServices ==
    /\ pc = "exit"
    /\ \/ fresh /\ Go("kernel")
       \/ Go("attempt")
    /\ UNCHANGED <<memory, rest, status, room, tries, info, use, direct>>

Loader ==
    \/ OpenVolume \/ OpenFile \/ AllocateInfo \/ GetInfo \/ Reserve \/ Read \/ Cleanup
    \/ AllocateBootInfo \/ ClonePageTables \/ GetMapSize \/ Attempt \/ GetMemoryMap
    \/ AllocateTable \/ BuildPhysicalMemoryMapping \/ ExitBootServices

Next == Loader \/ FirmwareEvent

Spec == Init /\ [][Next]_vars /\ WF_vars(Loader)

(* ------------------------------ properties ----------------------------- *)

\* What the loader holds is its own: no page serves two purposes, and none is
\* free or the firmware's.
TypeOK ==
    /\ types \in [Pages -> Types]
    /\ \A s, t \in Things : s # t => held[s] \cap held[t] = {}
    /\ \A t \in Things : \A p \in held[t] : types[p] \notin {"Conventional", "Reserved"}

\* The kernel is entered as its memory manager requires (memory/mod.rs, create):
\* the memory map in BootInfo is memory as it is, it counts nothing the loader
\* hands over as conventional, and the direct map has every RAM frame, the
\* tables included that were allocated after the map it was built from.
HandoverHolds ==
    pc = "kernel" =>
        /\ info = types
        /\ \A t \in {"kernel", "BootInfo", "initrd", "PageTables", "Map"} :
              held[t] # {} /\ \A p \in held[t] : info[p] # "Conventional"
        /\ Ram(info) \subseteq direct
        /\ Descriptors(info) <= room

\* A loader that returns to the firmware has closed its files and freed the
\* buffers it worked with, and the kernel's pages unless BootInfo is kept too.
ReturnsTidy ==
    pc = "returned" =>
        /\ open = {}
        /\ held["FileInfo"] = {} /\ held["Map"] = {}
        /\ held["BootInfo"] = {} => held["kernel"] = {}

\* The loader enters the kernel or returns, even if the memory map changes
\* before every single attempt: the attempts are counted.
BootEnds == <>(pc \in {"kernel", "returned"})
=============================================================================
