-------------------------- MODULE BootLoader_proofs --------------------------
(***************************************************************************)
(* Proofs about BootLoader, for memories of any size, any kernel, any      *)
(* number of attempts, and a firmware that allocates and frees as it likes *)
(* between any two calls.                                                  *)
(*                                                                         *)
(* The argument for the handover: Reserved memory never becomes RAM, so    *)
(* the direct map, built from an earlier memory map, has all of today's    *)
(* RAM; and a memory map that is still fresh is memory as it is.  That the *)
(* kernel and the rest are there at all, and that nothing else is when the *)
(* loader returns, follows the places of efi_main.                         *)
(***************************************************************************)
EXTENDS BootLoader, TLAPS

MapPlaces  == {"attempt", "get map", "direct", "exit", "kernel"}
LatePlaces == {"map size"} \cup MapPlaces
FilePlaces == {"open", "allocate info", "get info", "reserve", "read", "cleanup"}
Places     == FilePlaces \cup LatePlaces \cup {"volume", "boot info", "clone", "returned"}

Typed ==
    /\ held \in [Things -> SUBSET Pages]
    /\ TypeOK
    /\ file \in {"kernel", "initrd"} /\ use \in {"direct", "exit"}
    /\ status \in {"ok", "error"} /\ fresh \in BOOLEAN /\ pc \in Places

\* Where the loader holds a buffer or an open file, and where it cannot.
Tidy ==
    /\ pc \notin FilePlaces => open = {}
    /\ pc \notin {"get info", "reserve", "read", "cleanup"} => held["FileInfo"] = {}
    /\ pc \notin MapPlaces => held["Map"] = {}
    /\ file = "kernel" /\ pc \in {"volume", "open", "allocate info", "get info", "reserve", "returned"} =>
          held["kernel"] = {}

\* What has been loaded by the time the loader gets there.
Loaded ==
    /\ pc \notin {"cleanup", "returned"} => status = "ok"
    /\ pc \in {"boot info"} => file = "kernel"
    /\ pc \in {"clone"} \cup LatePlaces => file = "initrd"
    /\ file = "initrd" \/ pc = "boot info" \/ (pc \in {"read", "cleanup"} /\ status = "ok") =>
          pc = "returned" \/ held["kernel"] # {}
    /\ file = "initrd" => \/ held["BootInfo"] # {}
                          \/ pc = "returned" /\ held["kernel"] = {}
    /\ file = "initrd" /\ (pc \in {"read", "clone"} \cup LatePlaces \/ (pc = "cleanup" /\ status = "ok")) =>
          held["initrd"] # {}
    /\ pc \in LatePlaces => held["PageTables"] # {}
    /\ pc \in {"get map", "direct", "exit", "kernel"} => held["Map"] # {}

\* What the memory map in BootInfo and the direct map say about memory.
Mapped ==
    /\ fresh => info = types
    /\ pc \in {"direct", "exit", "kernel"} => Descriptors(info) <= room
    /\ pc = "direct" => use = "direct" /\ Ram(types) \subseteq Ram(info)
    /\ pc \in {"exit", "kernel"} => use = "exit"
    /\ pc = "kernel" => fresh
    /\ use = "exit" => Ram(types) \subseteq direct

IInv == Typed /\ Tidy /\ Loaded /\ Mapped

-----------------------------------------------------------------------------

\* Memory that is allocated was nobody's, so it becomes the loader's alone; it
\* is RAM before and after.
LEMMA TakeKeeps ==
  ASSUME Typed, NEW thing \in Things, NEW pages \in SUBSET Pages,
         NEW type \in Types \ {"Conventional", "Reserved"}, Take(thing, pages, type)
  PROVE  /\ held' = [t \in Things |-> IF t = thing THEN held[t] \cup pages ELSE held[t]]
         /\ held' \in [Things -> SUBSET Pages]
         /\ TypeOK'
         /\ Ram(types') = Ram(types)
         /\ fresh' = FALSE
<1>1. /\ held' = [t \in Things |-> IF t = thing THEN held[t] \cup pages ELSE held[t]]
      /\ fresh' = FALSE
  BY DEF Take, Typed
<1>2. held' \in [Things -> SUBSET Pages]
  BY <1>1 DEF Typed
<1>3. types' \in [Pages -> Types]
  BY DEF Take, Typed, TypeOK, Types
<1>4. \A p \in pages : \A t \in Things : p \notin held[t]
  BY DEF Take, Typed, TypeOK
<1>5. ASSUME NEW s \in Things, NEW t \in Things, s # t PROVE held'[s] \cap held'[t] = {}
  BY <1>1, <1>4, <1>5 DEF Typed, TypeOK
<1>6. ASSUME NEW t \in Things, NEW p \in held'[t] PROVE types'[p] \notin {"Conventional", "Reserved"}
  <2>1. p \in Pages
    BY <1>2, <1>6
  <2>2. CASE p \in pages
    BY <2>1, <2>2 DEF Take
  <2>3. CASE p \notin pages
    BY <1>1, <1>6, <2>1, <2>3 DEF Take, Typed, TypeOK
  <2> QED BY <2>2, <2>3
<1>7. Ram(types') = Ram(types)
  <2>1. ASSUME NEW p \in Pages PROVE types'[p] # "Reserved" <=> types[p] # "Reserved"
    BY DEF Take
  <2> QED BY <2>1 DEF Ram
<1> QED BY <1>1, <1>2, <1>3, <1>5, <1>6, <1>7 DEF TypeOK

\* The same for one page of any place.
LEMMA PoolKeeps ==
  ASSUME Typed, NEW thing \in Things,
         NEW type \in Types \ {"Conventional", "Reserved"}, AllocatePool(thing, type)
  PROVE  /\ \A t \in Things \ {thing} : held'[t] = held[t]
         /\ held'[thing] # {}
         /\ held' \in [Things -> SUBSET Pages]
         /\ TypeOK'
         /\ Ram(types') = Ram(types)
         /\ fresh' = FALSE
<1>1. PICK p \in Pages : Take(thing, {p}, type)
  BY DEF AllocatePool
<1>2. {p} \in SUBSET Pages
  OBVIOUS
<1>3. /\ held' = [t \in Things |-> IF t = thing THEN held[t] \cup {p} ELSE held[t]]
      /\ held' \in [Things -> SUBSET Pages]
      /\ TypeOK'
      /\ Ram(types') = Ram(types)
      /\ fresh' = FALSE
  BY <1>1, <1>2, TakeKeeps
<1>4. p \in held'[thing] /\ \A t \in Things \ {thing} : held'[t] = held[t]
  BY <1>3
<1> QED BY <1>3, <1>4

\* What is released was the loader's, so nobody else loses it and RAM stays
\* RAM; the memory map stays what it was only if there was nothing to release.
LEMMA ReleaseKeeps ==
  ASSUME Typed, NEW things \in SUBSET Things, Release(things)
  PROVE  /\ held' = [t \in Things |-> IF t \in things THEN {} ELSE held[t]]
         /\ held' \in [Things -> SUBSET Pages]
         /\ TypeOK'
         /\ Ram(types') = Ram(types)
         /\ fresh' \in BOOLEAN
         /\ fresh' => fresh /\ types' = types
<1> DEFINE pages == UNION {held[t] : t \in things}
<1>1. /\ held' = [t \in Things |-> IF t \in things THEN {} ELSE held[t]]
      /\ types' = [p \in Pages |-> IF p \in pages THEN "Conventional" ELSE types[p]]
      /\ fresh' = (fresh /\ pages = {})
  BY DEF Release
<1>2. held' \in [Things -> SUBSET Pages]
  BY <1>1 DEF Typed
<1>3. types' \in [Pages -> Types]
  BY <1>1 DEF Typed, TypeOK, Types
<1>4. ASSUME NEW s \in Things, NEW t \in Things, s # t PROVE held'[s] \cap held'[t] = {}
  BY <1>1, <1>4 DEF Typed, TypeOK
<1>5. ASSUME NEW t \in Things, NEW p \in held'[t] PROVE types'[p] \notin {"Conventional", "Reserved"}
  <2>1. p \in Pages /\ t \notin things /\ p \in held[t]
    BY <1>1, <1>2, <1>5
  <2>2. p \notin pages
    BY <2>1 DEF Typed, TypeOK
  <2> QED BY <1>1, <2>1, <2>2 DEF Typed, TypeOK
<1>6. \A p \in pages : p \in Pages /\ types[p] # "Reserved"
  BY DEF Typed, TypeOK
<1>7. Ram(types') = Ram(types)
  <2>1. ASSUME NEW p \in Pages PROVE types'[p] # "Reserved" <=> types[p] # "Reserved"
    BY <1>1, <1>6
  <2> QED BY <2>1 DEF Ram
<1>8. fresh' \in BOOLEAN /\ (fresh' => fresh /\ pages = {})
  BY <1>1
<1>9. pages = {} => types' = types
  BY <1>1 DEF Typed, TypeOK
<1> QED BY <1>1, <1>2, <1>3, <1>4, <1>5, <1>7, <1>8, <1>9 DEF TypeOK

-----------------------------------------------------------------------------

\* The loader has nothing when it starts.
LEMMA InitIInv == Init => IInv
<1> SUFFICES ASSUME Init PROVE IInv
  OBVIOUS
<1>1. Typed
  BY DEF Init, Typed, TypeOK, Types, Things, Places, FilePlaces
<1>2. Tidy
  BY DEF Init, Tidy, Things
<1>3. Loaded
  BY DEF Init, Loaded, LatePlaces, MapPlaces
<1>4. Mapped
  BY DEF Init, Mapped
<1> QED BY <1>1, <1>2, <1>3, <1>4 DEF IInv

\* efi_main gives up: what it releases then leaves nothing behind but what the
\* invariant allows.
LEMMA GiveUpKeeps ==
  ASSUME IInv, NEW things \in SUBSET {"Map"}, GiveUp(things),
         pc \in LatePlaces \ {"kernel"}, things = {} => held["Map"] = {},
         UNCHANGED <<open, file, info, use, direct>>
  PROVE  IInv'
<1>0. Typed /\ Tidy /\ Loaded /\ Mapped
  BY DEF IInv
<1> DEFINE released == things \cup (IF use = "exit" THEN {"kernel", "BootInfo"} ELSE {})
<1>1. released \in SUBSET Things /\ Release(released) /\ pc' = "returned" /\ status' = "error"
  BY DEF GiveUp, Go, Things
<1> HIDE DEF released
<1>2. /\ held' = [t \in Things |-> IF t \in released THEN {} ELSE held[t]]
      /\ held' \in [Things -> SUBSET Pages] /\ TypeOK'
      /\ Ram(types') = Ram(types)
      /\ fresh' \in BOOLEAN /\ (fresh' => fresh /\ types' = types)
  BY <1>0, <1>1, ReleaseKeeps
<1>3. /\ file = "initrd" /\ held'["Map"] = {} /\ held'["FileInfo"] = held["FileInfo"]
      /\ use = "exit" => held'["kernel"] = {} /\ held'["BootInfo"] = {}
      /\ use # "exit" => held'["kernel"] = held["kernel"] /\ held'["BootInfo"] = held["BootInfo"]
  BY <1>0, <1>2 DEF released, Things, Loaded
<1>4. Typed'
  BY <1>0, <1>1, <1>2, <1>3 DEF Typed, Places, FilePlaces, LatePlaces, MapPlaces
<1>5. Tidy'
  BY <1>0, <1>1, <1>2, <1>3 DEF Tidy, FilePlaces, MapPlaces, LatePlaces
<1>6. Loaded'
  BY <1>0, <1>1, <1>2, <1>3 DEF Loaded, LatePlaces, MapPlaces
<1>7. Mapped'
  BY <1>0, <1>1, <1>2, <1>3 DEF Mapped
<1> QED BY <1>4, <1>5, <1>6, <1>7 DEF IInv

\* One step of the loader or of the firmware keeps the invariant.
LEMMA NextIInv == IInv /\ [Next]_vars => IInv'
<1> SUFFICES ASSUME IInv, [Next]_vars PROVE IInv'
  OBVIOUS
<1> USE DEF Go, Fail, memory, loading, rest
<1>0. Typed /\ Tidy /\ Loaded /\ Mapped
  BY DEF IInv
<1>a. {"FileInfo", "kernel", "BootInfo", "initrd", "PageTables", "Map"} = Things
  BY DEF Things
<1>b. {"BootServicesData", "LoaderCode", "LoaderData"} \subseteq Types \ {"Conventional", "Reserved"}
  BY DEF Types
<1>1. CASE OpenVolume
  <2>1. Typed'
    BY <1>0, <1>1 DEF OpenVolume, Typed, TypeOK, Places, FilePlaces
  <2>2. Tidy'
    BY <1>0, <1>1 DEF OpenVolume, Tidy, FilePlaces, MapPlaces
  <2>3. Loaded'
    BY <1>0, <1>1 DEF OpenVolume, Loaded, LatePlaces, MapPlaces
  <2>4. Mapped'
    BY <1>0, <1>1 DEF OpenVolume, Mapped
  <2> QED BY <2>1, <2>2, <2>3, <2>4 DEF IInv
<1>2. CASE OpenFile
  <2>1. Typed'
    BY <1>0, <1>2 DEF OpenFile, Typed, TypeOK, Places, FilePlaces
  <2>2. Tidy'
    BY <1>0, <1>2 DEF OpenFile, Tidy, FilePlaces, MapPlaces
  <2>3. Loaded'
    BY <1>0, <1>2 DEF OpenFile, Loaded, LatePlaces, MapPlaces
  <2>4. Mapped'
    BY <1>0, <1>2 DEF OpenFile, Mapped
  <2> QED BY <2>1, <2>2, <2>3, <2>4 DEF IInv
<1>3. CASE AllocateInfo
  <2>1. CASE AllocatePool("FileInfo", "BootServicesData") /\ Go("get info") /\ UNCHANGED status
    <3>0. /\ held'["FileInfo"] # {} /\ \A t \in Things \ {"FileInfo"} : held'[t] = held[t]
          /\ held' \in [Things -> SUBSET Pages] /\ TypeOK'
          /\ Ram(types') = Ram(types)
          /\ fresh' = FALSE
      BY <1>0, <1>a, <1>b, <2>1, PoolKeeps
    <3>1. Typed'
      BY <1>0, <1>3, <2>1, <1>a, <3>0 DEF AllocateInfo, Typed, Places, FilePlaces, LatePlaces, MapPlaces
    <3>2. Tidy'
      BY <1>0, <1>3, <2>1, <1>a, <3>0 DEF AllocateInfo, Tidy, FilePlaces, MapPlaces
    <3>3. Loaded'
      BY <1>0, <1>3, <2>1, <1>a, <3>0 DEF AllocateInfo, Loaded, LatePlaces, MapPlaces
    <3>4. Mapped'
      BY <1>0, <1>3, <2>1, <1>a, <3>0 DEF AllocateInfo, Mapped
    <3> QED BY <3>1, <3>2, <3>3, <3>4 DEF IInv
  <2>2. CASE Fail /\ UNCHANGED memory
    <3>1. Typed'
      BY <1>0, <1>3, <2>2 DEF AllocateInfo, Typed, Places, FilePlaces, LatePlaces, MapPlaces, TypeOK
    <3>2. Tidy'
      BY <1>0, <1>3, <2>2 DEF AllocateInfo, Tidy, FilePlaces, MapPlaces
    <3>3. Loaded'
      BY <1>0, <1>3, <2>2 DEF AllocateInfo, Loaded, LatePlaces, MapPlaces
    <3>4. Mapped'
      BY <1>0, <1>3, <2>2 DEF AllocateInfo, Mapped
    <3> QED BY <3>1, <3>2, <3>3, <3>4 DEF IInv
  <2> QED BY <1>3, <2>1, <2>2 DEF AllocateInfo
<1>4. CASE GetInfo
  <2>1. Typed'
    BY <1>0, <1>4 DEF GetInfo, Typed, Places, FilePlaces, LatePlaces, MapPlaces, TypeOK
  <2>2. Tidy'
    BY <1>0, <1>4 DEF GetInfo, Tidy, FilePlaces, MapPlaces
  <2>3. Loaded'
    BY <1>0, <1>4 DEF GetInfo, Loaded, LatePlaces, MapPlaces
  <2>4. Mapped'
    BY <1>0, <1>4 DEF GetInfo, Mapped
  <2> QED BY <2>1, <2>2, <2>3, <2>4 DEF IInv
<1>5. CASE Reserve
  <2>1. CASE file = "kernel" /\ Take("kernel", KernelPages, "LoaderCode") /\ Go("read") /\ UNCHANGED status
    <3>a. KernelPages \in SUBSET Pages /\ KernelPages # {}
      BY BootLoaderAssumption DEF Pages
    <3>0. /\ held' = [t \in Things |-> IF t = "kernel" THEN held[t] \cup KernelPages ELSE held[t]]
          /\ held' \in [Things -> SUBSET Pages] /\ TypeOK'
          /\ Ram(types') = Ram(types)
          /\ fresh' = FALSE
      BY <1>0, <1>a, <1>b, <2>1, <3>a, TakeKeeps
    <3>b. held'["kernel"] # {} /\ \A t \in Things \ {"kernel"} : held'[t] = held[t]
      BY <1>a, <3>a, <3>0
    <3>1. Typed'
      BY <1>0, <1>5, <2>1, <1>a, <3>0, <3>b DEF Reserve, Typed, Places, FilePlaces, LatePlaces, MapPlaces
    <3>2. Tidy'
      BY <1>0, <1>5, <2>1, <1>a, <3>0, <3>b DEF Reserve, Tidy, FilePlaces, MapPlaces
    <3>3. Loaded'
      BY <1>0, <1>5, <2>1, <1>a, <3>0, <3>b DEF Reserve, Loaded, LatePlaces, MapPlaces
    <3>4. Mapped'
      BY <1>0, <1>5, <2>1, <1>a, <3>0, <3>b DEF Reserve, Mapped
    <3> QED BY <3>1, <3>2, <3>3, <3>4 DEF IInv
  <2>2. CASE file = "initrd" /\ AllocatePool("initrd", "LoaderData") /\ Go("read") /\ UNCHANGED status
    <3>0. /\ held'["initrd"] # {} /\ \A t \in Things \ {"initrd"} : held'[t] = held[t]
          /\ held' \in [Things -> SUBSET Pages] /\ TypeOK'
          /\ Ram(types') = Ram(types)
          /\ fresh' = FALSE
      BY <1>0, <1>a, <1>b, <2>2, PoolKeeps
    <3>1. Typed'
      BY <1>0, <1>5, <2>2, <1>a, <3>0 DEF Reserve, Typed, Places, FilePlaces, LatePlaces, MapPlaces
    <3>2. Tidy'
      BY <1>0, <1>5, <2>2, <1>a, <3>0 DEF Reserve, Tidy, FilePlaces, MapPlaces
    <3>3. Loaded'
      BY <1>0, <1>5, <2>2, <1>a, <3>0 DEF Reserve, Loaded, LatePlaces, MapPlaces
    <3>4. Mapped'
      BY <1>0, <1>5, <2>2, <1>a, <3>0 DEF Reserve, Mapped
    <3> QED BY <3>1, <3>2, <3>3, <3>4 DEF IInv
  <2>3. CASE Fail /\ UNCHANGED memory
    <3>1. Typed'
      BY <1>0, <1>5, <2>3 DEF Reserve, Typed, Places, FilePlaces, LatePlaces, MapPlaces, TypeOK
    <3>2. Tidy'
      BY <1>0, <1>5, <2>3 DEF Reserve, Tidy, FilePlaces, MapPlaces
    <3>3. Loaded'
      BY <1>0, <1>5, <2>3 DEF Reserve, Loaded, LatePlaces, MapPlaces
    <3>4. Mapped'
      BY <1>0, <1>5, <2>3 DEF Reserve, Mapped
    <3> QED BY <3>1, <3>2, <3>3, <3>4 DEF IInv
  <2> QED BY <1>5, <2>1, <2>2, <2>3 DEF Reserve
<1>6. CASE Read
  <2>1. CASE Go("cleanup") /\ UNCHANGED <<status, memory>>
    <3>1. Typed'
      BY <1>0, <1>6, <2>1 DEF Read, Typed, Places, FilePlaces, LatePlaces, MapPlaces, TypeOK
    <3>2. Tidy'
      BY <1>0, <1>6, <2>1 DEF Read, Tidy, FilePlaces, MapPlaces
    <3>3. Loaded'
      BY <1>0, <1>6, <2>1 DEF Read, Loaded, LatePlaces, MapPlaces
    <3>4. Mapped'
      BY <1>0, <1>6, <2>1 DEF Read, Mapped
    <3> QED BY <3>1, <3>2, <3>3, <3>4 DEF IInv
  <2>2. CASE Fail /\ Release({"initrd"} \cap {file})
    <3>0. /\ held' = [t \in Things |-> IF t \in ({"initrd"} \cap {file}) THEN {} ELSE held[t]]
          /\ held' \in [Things -> SUBSET Pages] /\ TypeOK'
          /\ Ram(types') = Ram(types)
          /\ fresh' \in BOOLEAN /\ (fresh' => fresh /\ types' = types)
      BY <1>0, <1>a, <1>b, <2>2, ReleaseKeeps
    <3>1. Typed'
      BY <1>0, <1>6, <2>2, <1>a, <3>0 DEF Read, Typed, Places, FilePlaces, LatePlaces, MapPlaces
    <3>2. Tidy'
      BY <1>0, <1>6, <2>2, <1>a, <3>0 DEF Read, Tidy, FilePlaces, MapPlaces
    <3>3. Loaded'
      BY <1>0, <1>6, <2>2, <1>a, <3>0 DEF Read, Loaded, LatePlaces, MapPlaces
    <3>4. Mapped'
      BY <1>0, <1>6, <2>2, <1>a, <3>0 DEF Read, Mapped
    <3> QED BY <3>1, <3>2, <3>3, <3>4 DEF IInv
  <2> QED BY <1>6, <2>1, <2>2 DEF Read
<1>7. CASE Cleanup
  <2> DEFINE freed == {"FileInfo"} \cup (IF status = "error" /\ file = "kernel" THEN {"kernel"} ELSE {})
  <2>a. freed \in SUBSET Things /\ Release(freed)
    BY <1>7, <1>a DEF Cleanup
  <2> HIDE DEF freed
  <2>0. /\ held' = [t \in Things |-> IF t \in freed THEN {} ELSE held[t]]
        /\ held' \in [Things -> SUBSET Pages] /\ TypeOK'
        /\ Ram(types') = Ram(types)
        /\ fresh' \in BOOLEAN /\ (fresh' => fresh /\ types' = types)
    BY <1>0, <1>a, <1>b, <2>a, ReleaseKeeps
  <2>b. status \in {"ok", "error"} /\ file \in {"kernel", "initrd"}
    BY <1>0 DEF Typed
  <2>1. Typed'
    BY <1>0, <1>7, <1>a, <2>b, <2>0 DEF Cleanup, freed, Typed, Places, FilePlaces, LatePlaces, MapPlaces
  <2>2. Tidy'
    BY <1>0, <1>7, <1>a, <2>b, <2>0 DEF Cleanup, freed, Tidy, FilePlaces, MapPlaces
  <2>3. Loaded'
    BY <1>0, <1>7, <1>a, <2>b, <2>0 DEF Cleanup, freed, Loaded, LatePlaces, MapPlaces
  <2>4. Mapped'
    BY <1>0, <1>7, <1>a, <2>b, <2>0 DEF Cleanup, freed, Mapped
  <2> QED BY <2>1, <2>2, <2>3, <2>4 DEF IInv
<1>8. CASE AllocateBootInfo
  <2>1. CASE AllocatePool("BootInfo", "LoaderData") /\ file' = "initrd" /\ Go("volume") /\ UNCHANGED status
    <3>0. /\ held'["BootInfo"] # {} /\ \A t \in Things \ {"BootInfo"} : held'[t] = held[t]
          /\ held' \in [Things -> SUBSET Pages] /\ TypeOK'
          /\ Ram(types') = Ram(types)
          /\ fresh' = FALSE
      BY <1>0, <1>a, <1>b, <2>1, PoolKeeps
    <3>1. Typed'
      BY <1>0, <1>8, <2>1, <1>a, <3>0 DEF AllocateBootInfo, Typed, Places, FilePlaces, LatePlaces, MapPlaces
    <3>2. Tidy'
      BY <1>0, <1>8, <2>1, <1>a, <3>0 DEF AllocateBootInfo, Tidy, FilePlaces, MapPlaces
    <3>3. Loaded'
      BY <1>0, <1>8, <2>1, <1>a, <3>0 DEF AllocateBootInfo, Loaded, LatePlaces, MapPlaces
    <3>4. Mapped'
      BY <1>0, <1>8, <2>1, <1>a, <3>0 DEF AllocateBootInfo, Mapped
    <3> QED BY <3>1, <3>2, <3>3, <3>4 DEF IInv
  <2>2. CASE Release({"kernel"}) /\ Go("returned") /\ status' = "error" /\ UNCHANGED file
    <3>0. /\ held' = [t \in Things |-> IF t \in {"kernel"} THEN {} ELSE held[t]]
          /\ held' \in [Things -> SUBSET Pages] /\ TypeOK'
          /\ Ram(types') = Ram(types)
          /\ fresh' \in BOOLEAN /\ (fresh' => fresh /\ types' = types)
      BY <1>0, <1>a, <1>b, <2>2, ReleaseKeeps
    <3>1. Typed'
      BY <1>0, <1>8, <2>2, <1>a, <3>0 DEF AllocateBootInfo, Typed, Places, FilePlaces, LatePlaces, MapPlaces
    <3>2. Tidy'
      BY <1>0, <1>8, <2>2, <1>a, <3>0 DEF AllocateBootInfo, Tidy, FilePlaces, MapPlaces
    <3>3. Loaded'
      BY <1>0, <1>8, <2>2, <1>a, <3>0 DEF AllocateBootInfo, Loaded, LatePlaces, MapPlaces
    <3>4. Mapped'
      BY <1>0, <1>8, <2>2, <1>a, <3>0 DEF AllocateBootInfo, Mapped
    <3> QED BY <3>1, <3>2, <3>3, <3>4 DEF IInv
  <2> QED BY <1>8, <2>1, <2>2 DEF AllocateBootInfo
<1>9. CASE ClonePageTables
  <2>a. file = "initrd"
    BY <1>0, <1>9 DEF ClonePageTables, Loaded
  <2>1. CASE AllocatePool("PageTables", "LoaderData") /\ Go("map size") /\ UNCHANGED status
    <3>0. /\ held'["PageTables"] # {} /\ \A t \in Things \ {"PageTables"} : held'[t] = held[t]
          /\ held' \in [Things -> SUBSET Pages] /\ TypeOK'
          /\ Ram(types') = Ram(types)
          /\ fresh' = FALSE
      BY <1>0, <1>a, <1>b, <2>1, PoolKeeps
    <3>1. Typed'
      BY <1>0, <1>9, <2>1, <1>a, <3>0 DEF ClonePageTables, Typed, Places, FilePlaces, LatePlaces, MapPlaces
    <3>2. Tidy'
      BY <1>0, <1>9, <2>1, <1>a, <3>0 DEF ClonePageTables, Tidy, FilePlaces, MapPlaces
    <3>3. Loaded'
      BY <1>0, <1>9, <2>1, <1>a, <3>0 DEF ClonePageTables, Loaded, LatePlaces, MapPlaces
    <3>4. Mapped'
      BY <1>0, <1>9, <2>1, <1>a, <3>0 DEF ClonePageTables, Mapped
    <3> QED BY <3>1, <3>2, <3>3, <3>4 DEF IInv
  <2>2. CASE Go("returned") /\ status' = "error" /\ UNCHANGED memory
    <3>1. Typed'
      BY <1>0, <1>9, <2>2, <2>a DEF ClonePageTables, Typed, Places, FilePlaces, LatePlaces, MapPlaces, TypeOK
    <3>2. Tidy'
      BY <1>0, <1>9, <2>2, <2>a DEF ClonePageTables, Tidy, FilePlaces, MapPlaces
    <3>3. Loaded'
      BY <1>0, <1>9, <2>2, <2>a DEF ClonePageTables, Loaded, LatePlaces, MapPlaces
    <3>4. Mapped'
      BY <1>0, <1>9, <2>2, <2>a DEF ClonePageTables, Mapped
    <3> QED BY <3>1, <3>2, <3>3, <3>4 DEF IInv
  <2> QED BY <1>9, <2>1, <2>2 DEF ClonePageTables
<1>10. CASE GetMapSize
  <2>1. CASE room' = Descriptors(types) + SLACK /\ Go("attempt") /\ UNCHANGED <<memory, status>>
    <3>1. Typed'
      BY <1>0, <1>10, <2>1 DEF GetMapSize, Typed, Places, FilePlaces, LatePlaces, MapPlaces, TypeOK
    <3>2. Tidy'
      BY <1>0, <1>10, <2>1 DEF GetMapSize, Tidy, FilePlaces, MapPlaces
    <3>3. Loaded'
      BY <1>0, <1>10, <2>1 DEF GetMapSize, Loaded, LatePlaces, MapPlaces
    <3>4. Mapped'
      BY <1>0, <1>10, <2>1 DEF GetMapSize, Mapped
    <3> QED BY <3>1, <3>2, <3>3, <3>4 DEF IInv
  <2>2. CASE GiveUp({})
    BY <1>0, <1>10, <2>2, GiveUpKeeps DEF GetMapSize, Tidy, LatePlaces, MapPlaces
  <2> QED BY <1>10, <2>1, <2>2 DEF GetMapSize
<1>11. CASE Attempt
  <2>1. CASE GiveUp({"Map"})
    BY <1>0, <1>11, <2>1, GiveUpKeeps DEF Attempt, Tidy, LatePlaces, MapPlaces
  <2>2. CASE held["Map"] # {} /\ Go("get map") /\ UNCHANGED <<memory, status>>
    <3>1. Typed'
      BY <1>0, <1>11, <2>2 DEF Attempt, Typed, Places, FilePlaces, LatePlaces, MapPlaces, TypeOK
    <3>2. Tidy'
      BY <1>0, <1>11, <2>2 DEF Attempt, Tidy, FilePlaces, MapPlaces
    <3>3. Loaded'
      BY <1>0, <1>11, <2>2 DEF Attempt, Loaded, LatePlaces, MapPlaces
    <3>4. Mapped'
      BY <1>0, <1>11, <2>2 DEF Attempt, Mapped
    <3> QED BY <3>1, <3>2, <3>3, <3>4 DEF IInv
  <2>3. CASE held["Map"] = {} /\ AllocatePool("Map", "LoaderData") /\ Go("get map") /\ UNCHANGED status
    <3>0. /\ held'["Map"] # {} /\ \A t \in Things \ {"Map"} : held'[t] = held[t]
          /\ held' \in [Things -> SUBSET Pages] /\ TypeOK'
          /\ Ram(types') = Ram(types)
          /\ fresh' = FALSE
      BY <1>0, <1>a, <1>b, <2>3, PoolKeeps
    <3>1. Typed'
      BY <1>0, <1>11, <2>3, <1>a, <3>0 DEF Attempt, Typed, Places, FilePlaces, LatePlaces, MapPlaces
    <3>2. Tidy'
      BY <1>0, <1>11, <2>3, <1>a, <3>0 DEF Attempt, Tidy, FilePlaces, MapPlaces
    <3>3. Loaded'
      BY <1>0, <1>11, <2>3, <1>a, <3>0 DEF Attempt, Loaded, LatePlaces, MapPlaces
    <3>4. Mapped'
      BY <1>0, <1>11, <2>3, <1>a, <3>0 DEF Attempt, Mapped
    <3> QED BY <3>1, <3>2, <3>3, <3>4 DEF IInv
  <2>4. CASE held["Map"] = {} /\ GiveUp({})
    BY <1>0, <1>11, <2>4, GiveUpKeeps DEF Attempt, Tidy, LatePlaces, MapPlaces
  <2> QED BY <1>11, <2>1, <2>2, <2>3, <2>4 DEF Attempt
<1>12. CASE GetMemoryMap
  <2>1. CASE Release({"Map"}) /\ Go("attempt") /\ UNCHANGED <<info, status>>
    <3>0. /\ held' = [t \in Things |-> IF t \in {"Map"} THEN {} ELSE held[t]]
          /\ held' \in [Things -> SUBSET Pages] /\ TypeOK'
          /\ Ram(types') = Ram(types)
          /\ fresh' \in BOOLEAN /\ (fresh' => fresh /\ types' = types)
      BY <1>0, <1>a, <1>b, <2>1, ReleaseKeeps
    <3>1. Typed'
      BY <1>0, <1>12, <2>1, <1>a, <3>0 DEF GetMemoryMap, Typed, Places, FilePlaces, LatePlaces, MapPlaces
    <3>2. Tidy'
      BY <1>0, <1>12, <2>1, <1>a, <3>0 DEF GetMemoryMap, Tidy, FilePlaces, MapPlaces
    <3>3. Loaded'
      BY <1>0, <1>12, <2>1, <1>a, <3>0 DEF GetMemoryMap, Loaded, LatePlaces, MapPlaces
    <3>4. Mapped'
      BY <1>0, <1>12, <2>1, <1>a, <3>0 DEF GetMemoryMap, Mapped
    <3> QED BY <3>1, <3>2, <3>3, <3>4 DEF IInv
  <2>2. CASE Descriptors(types) <= room /\ info' = types /\ fresh' = TRUE /\ Go(use) /\ UNCHANGED <<types, held, room, status>>
    <3>a. use \in {"direct", "exit"} /\ pc' = use /\ use' = use
      BY <1>0, <1>12, <2>2 DEF GetMemoryMap, Typed
    <3>1. Typed'
      BY <1>0, <1>12, <2>2, <3>a DEF GetMemoryMap, Typed, Places, FilePlaces, LatePlaces, MapPlaces, TypeOK
    <3>2. Tidy'
      BY <1>0, <1>12, <2>2, <3>a DEF GetMemoryMap, Tidy, FilePlaces, MapPlaces
    <3>3. Loaded'
      BY <1>0, <1>12, <2>2, <3>a DEF GetMemoryMap, Loaded, LatePlaces, MapPlaces
    <3>4. Mapped'
      BY <1>0, <1>12, <2>2, <3>a DEF GetMemoryMap, Mapped
    <3> QED BY <3>1, <3>2, <3>3, <3>4 DEF IInv
  <2>3. CASE GiveUp({"Map"}) /\ UNCHANGED <<room, info>>
    BY <1>0, <1>12, <2>3, GiveUpKeeps DEF GetMemoryMap, Tidy, LatePlaces, MapPlaces
  <2> QED BY <1>12, <2>1, <2>2, <2>3 DEF GetMemoryMap
<1>13. CASE AllocateTable
  <2>a. AllocatePool("PageTables", "LoaderData")
    BY <1>13 DEF AllocateTable
  <2>0. /\ held'["PageTables"] # {} /\ \A t \in Things \ {"PageTables"} : held'[t] = held[t]
        /\ held' \in [Things -> SUBSET Pages] /\ TypeOK'
        /\ Ram(types') = Ram(types)
        /\ fresh' = FALSE
    BY <1>0, <1>a, <1>b, <2>a, PoolKeeps
  <2>1. Typed'
    BY <1>0, <1>13, <1>a, <2>0 DEF AllocateTable, Typed, Places, FilePlaces, LatePlaces, MapPlaces
  <2>2. Tidy'
    BY <1>0, <1>13, <1>a, <2>0 DEF AllocateTable, Tidy, FilePlaces, MapPlaces
  <2>3. Loaded'
    BY <1>0, <1>13, <1>a, <2>0 DEF AllocateTable, Loaded, LatePlaces, MapPlaces
  <2>4. Mapped'
    BY <1>0, <1>13, <1>a, <2>0 DEF AllocateTable, Mapped
  <2> QED BY <2>1, <2>2, <2>3, <2>4 DEF IInv
<1>14. CASE BuildPhysicalMemoryMapping
  <2>1. CASE direct' = Ram(info) /\ Release({"Map"}) /\ use' = "exit" /\ Go("map size") /\ UNCHANGED status
    <3>0. /\ held' = [t \in Things |-> IF t \in {"Map"} THEN {} ELSE held[t]]
          /\ held' \in [Things -> SUBSET Pages] /\ TypeOK'
          /\ Ram(types') = Ram(types)
          /\ fresh' \in BOOLEAN /\ (fresh' => fresh /\ types' = types)
      BY <1>0, <1>a, <1>b, <2>1, ReleaseKeeps
    <3>1. Typed'
      BY <1>0, <1>14, <2>1, <1>a, <3>0 DEF BuildPhysicalMemoryMapping, Typed, Places, FilePlaces, LatePlaces, MapPlaces
    <3>2. Tidy'
      BY <1>0, <1>14, <2>1, <1>a, <3>0 DEF BuildPhysicalMemoryMapping, Tidy, FilePlaces, MapPlaces
    <3>3. Loaded'
      BY <1>0, <1>14, <2>1, <1>a, <3>0 DEF BuildPhysicalMemoryMapping, Loaded, LatePlaces, MapPlaces
    <3>4. Mapped'
      BY <1>0, <1>14, <2>1, <1>a, <3>0 DEF BuildPhysicalMemoryMapping, Mapped
    <3> QED BY <3>1, <3>2, <3>3, <3>4 DEF IInv
  <2>2. CASE GiveUp({"Map"}) /\ UNCHANGED <<direct, use>>
    BY <1>0, <1>14, <2>2, GiveUpKeeps DEF BuildPhysicalMemoryMapping, Tidy, LatePlaces, MapPlaces
  <2> QED BY <1>14, <2>1, <2>2 DEF BuildPhysicalMemoryMapping
<1>15. CASE ExitBootServices
  <2>1. Typed'
    BY <1>0, <1>15 DEF ExitBootServices, Typed, Places, FilePlaces, LatePlaces, MapPlaces, TypeOK
  <2>2. Tidy'
    BY <1>0, <1>15 DEF ExitBootServices, Tidy, FilePlaces, MapPlaces
  <2>3. Loaded'
    BY <1>0, <1>15 DEF ExitBootServices, Loaded, LatePlaces, MapPlaces
  <2>4. Mapped'
    BY <1>0, <1>15 DEF ExitBootServices, Mapped
  <2> QED BY <2>1, <2>2, <2>3, <2>4 DEF IInv
<1>16. CASE FirmwareEvent
  <2>1. PICK p \in Pages :
          \/ /\ types[p] = "Conventional"
             /\ \E t \in {"BootServicesData", "Reserved"} : types' = [types EXCEPT ![p] = t]
          \/ /\ types[p] = "BootServicesData" /\ \A t \in Things : p \notin held[t]
             /\ types' = [types EXCEPT ![p] = "Conventional"]
    BY <1>16 DEF FirmwareEvent
  <2>2. types' \in [Pages -> Types] /\ \A q \in Pages \ {p} : types'[q] = types[q]
    BY <1>0, <2>1 DEF Typed, TypeOK, Types
  <2>3. \A t \in Things : p \notin held[t]
    BY <1>0, <2>1 DEF Typed, TypeOK
  <2>4. TypeOK'
    <3>1. ASSUME NEW t \in Things, NEW q \in held[t] PROVE types'[q] \notin {"Conventional", "Reserved"}
      BY <1>0, <2>2, <2>3, <3>1 DEF Typed, TypeOK
    <3> QED BY <1>0, <1>16, <2>2, <3>1 DEF FirmwareEvent, Typed, TypeOK
  <2>5. types[p] # "Reserved"
    BY <2>1
  <2>6. Ram(types') \subseteq Ram(types)
    BY <2>2, <2>5 DEF Ram
  <2>7. Typed'
    BY <1>0, <1>16, <2>4 DEF FirmwareEvent, Typed
  <2>8. Tidy'
    BY <1>0, <1>16 DEF FirmwareEvent, Tidy
  <2>9. Loaded'
    BY <1>0, <1>16 DEF FirmwareEvent, Loaded
  <2>10. Mapped'
    BY <1>0, <1>16, <2>6 DEF FirmwareEvent, Mapped
  <2> QED BY <2>7, <2>8, <2>9, <2>10 DEF IInv
<1>17. CASE UNCHANGED vars
  <2>1. Typed'
    BY <1>0, <1>17 DEF vars, Typed, TypeOK
  <2>2. Tidy' /\ Loaded'
    BY <1>0, <1>17 DEF vars, Tidy, Loaded
  <2>3. Mapped'
    BY <1>0, <1>17 DEF vars, Mapped
  <2> QED BY <2>1, <2>2, <2>3 DEF IInv
<1> QED
  BY <1>1, <1>2, <1>3, <1>4, <1>5, <1>6, <1>7, <1>8, <1>9, <1>10, <1>11, <1>12, <1>13, <1>14,
     <1>15, <1>16, <1>17 DEF Next, Loader

-----------------------------------------------------------------------------

\* The loader and the firmware keep the invariant for ever.
THEOREM LoaderInvariant == Spec => []IInv
  BY InitIInv, NextIInv, PTL DEF Spec

\* What AllocatePages and AllocatePool returned stays the loader's own until it
\* frees it: no page of it serves two purposes or is free or the firmware's.
THEOREM LoaderOwnsItsPages == Spec => []TypeOK
<1>1. IInv => TypeOK
  BY DEF IInv, Typed
<1> QED BY <1>1, LoaderInvariant, PTL

\* efi_main jumps to the kernel only with everything loaded, with a memory map
\* that is memory as it is, and with all RAM in the direct map.
THEOREM KernelIsEnteredReady == Spec => []HandoverHolds
<1>1. IInv => HandoverHolds
  <2> SUFFICES ASSUME IInv, pc = "kernel" PROVE HandoverHolds
    BY DEF HandoverHolds
  <2>1. pc \in LatePlaces /\ info = types /\ use = "exit" /\ file = "initrd"
    BY DEF IInv, Mapped, Loaded, LatePlaces, MapPlaces
  <2>2. Ram(info) \subseteq direct /\ Descriptors(info) <= room
    BY <2>1 DEF IInv, Mapped
  <2>3. \A t \in {"kernel", "BootInfo", "initrd", "PageTables", "Map"} : held[t] # {}
    BY <2>1 DEF IInv, Loaded
  <2>4. \A t \in Things : \A p \in held[t] : info[p] # "Conventional"
    BY <2>1 DEF IInv, Typed, TypeOK
  <2> QED BY <2>1, <2>2, <2>3, <2>4 DEF HandoverHolds, Things
<1> QED BY <1>1, LoaderInvariant, PTL

\* efi_main returns to the firmware without open files and without its buffers,
\* whichever call failed.
THEOREM LoaderReturnsTidy == Spec => []ReturnsTidy
<1>1. IInv => ReturnsTidy
  BY DEF IInv, Typed, Tidy, Loaded, ReturnsTidy, FilePlaces, MapPlaces
<1> QED BY <1>1, LoaderInvariant, PTL
=============================================================================
