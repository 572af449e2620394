------------------------------- MODULE Initrd -------------------------------
(***************************************************************************)
(* The read-only archive of fs/mod.rs: the loader leaves a USTAR file in   *)
(* memory, initialize validates it once, and directory_exists,             *)
(* for_each_entry and read_file then walk its headers on every call.       *)
(* There is no index: directories exist because a header names them or     *)
(* because something is inside them, and headers come in any order.        *)
(*                                                                         *)
(* The archive is a sequence of blocks.  A block is all zero, a header     *)
(* with its checksum and magic in order, or anything else ("data"); the    *)
(* contents of a file may look like any of them.  Names and the digits of  *)
(* the size are sequences of characters, offsets are counted in blocks.    *)
(***************************************************************************)
EXTENDS Integers, FiniteSets, Sequences, SequencesExt, FiniteSetsExt

CONSTANTS
  Headers,          \* headers an archive may have
  Letters,          \* characters of names besides the dot
  BLOCK_SIZE,
  MAX_BLOCKS,       \* MAX_ARCHIVE_SIZE in blocks
  MAX_FILES,
  MAX_PATH_LEN,
  MAX_COMPONENT_LEN,
  Queries           \* paths the kernel is asked for

\* What the constants must satisfy.
InitrdAssumption ==
  /\ {BLOCK_SIZE, MAX_BLOCKS, MAX_FILES} \subseteq Nat \ {0}
  /\ {MAX_PATH_LEN, MAX_COMPONENT_LEN} \subseteq Nat

VARIABLES
  archive,   \* the blocks the loader read
  rest,      \* what the file has after them: nothing, part of a block, or more
             \* than MAX_ARCHIVE_SIZE allows
  mounted    \* the result in ARCHIVE

vars == <<archive, rest, mounted>>

Blocks == {[is |-> "zero"], [is |-> "data"]} \cup Headers

(* ------------------------------- one entry ------------------------------ *)

Digits == [c \in {"0", "1", "2", "3", "7"} |->
             CASE c = "0" -> 0 [] c = "1" -> 1 [] c = "2" -> 2 [] c = "3" -> 3 [] c = "7" -> 7]

\* The digits after leading blanks, up to the next blank; -1 for None.
octal(field) ==
  LET step(v, c) ==
        CASE v.done \/ v.value = -1 -> v
          [] c \in DOMAIN Digits /\ ~v.done /\ v.value # -1 ->
               [value |-> 8 * v.value + Digits[c], started |-> TRUE, done |-> FALSE]
          [] c = " " /\ ~v.done /\ v.value # -1 -> [v EXCEPT !.done = v.started]
          [] OTHER -> [v EXCEPT !.value = -1]
  IN  FoldLeft(step, [value |-> 0, started |-> FALSE, done |-> FALSE], field).value

Components(path) ==
  FoldLeft(LAMBDA names, c : IF c = "/" THEN Append(names, <<>>)
                             ELSE Append(Front(names), Append(Last(names), c)),
           << <<>> >>, path)

safe_path(path, allow_empty) ==
  IF path = <<>> THEN allow_empty
  ELSE \A name \in ToSet(Components(path)) :
         /\ name # <<>> /\ Len(name) <= MAX_COMPONENT_LEN
         /\ name \notin {<<".">>, <<".", ".">>}
         /\ ToSet(name) \subseteq Letters \cup {"."}

Bad == [is |-> "bad"]
End == [is |-> "end"]

\* The block after the last of a file of this size, in the header at offset.
NextOffset(offset, size) == offset + 1 + (size + BLOCK_SIZE - 1) \div BLOCK_SIZE

\* entry_at: the header in the block at this offset.
entry_at(blocks, offset) ==
  IF offset >= Len(blocks) THEN Bad
  ELSE IF blocks[offset + 1].is # "header"
  THEN IF blocks[offset + 1].is = "zero" THEN End ELSE Bad
  ELSE LET header   == blocks[offset + 1]
           is_dir   == header.type = "5"
           raw      == IF header.prefix = <<>> THEN header.name
                       ELSE header.prefix \o <<"/">> \o header.name
           trailing == raw # <<>> /\ Last(raw) = "/"
           name     == IF trailing THEN Front(raw) ELSE raw
           size     == octal(header.size)
           next     == NextOffset(offset, size)
       IN  IF \/ header.type \notin {"0", "5"}
              \/ header.name = <<>> \/ Len(raw) > MAX_PATH_LEN
              \/ (trailing /\ ~is_dir)
              \/ ~safe_path(name, FALSE)
              \/ size = -1 \/ (is_dir /\ size # 0)
              \/ next > Len(blocks)
           THEN Bad
           ELSE [is |-> "entry", name |-> name, is_dir |-> is_dir, size |-> size,
                 data |-> SubSeq(blocks, offset + 2, next), next_offset |-> next]

(* -------------------------------- validate ------------------------------ *)

\* The bytes of the path, then a slash.
Inside(name, directory) == IsPrefix(directory \o <<"/">>, name)

Conflict(previous, entry) ==
  \/ previous.name = entry.name
  \/ Inside(entry.name, previous.name) /\ ~previous.is_dir
  \/ Inside(previous.name, entry.name) /\ ~entry.is_dir

RECURSIVE Scan(_, _, _)
\* The loop of validate: the entries before offset are compared with each new
\* one, and the first zero block must begin the zero rest of the archive.
Scan(blocks, offset, found) ==
  LET entry == entry_at(blocks, offset)
  IN  CASE entry = Bad -> "InvalidArchive"
        [] entry = End ->
             IF \A i \in (offset + 1)..Len(blocks) : blocks[i].is = "zero"
             THEN "Ok" ELSE "InvalidArchive"
        [] OTHER ->
             IF Len(found) = MAX_FILES THEN "TooManyFiles"
             ELSE IF \E i \in DOMAIN found : Conflict(found[i], entry) THEN "InvalidArchive"
             ELSE Scan(blocks, entry.next_offset, Append(found, entry))

validate(blocks) ==
  IF blocks = <<>> \/ rest # "nothing" THEN "InvalidArchive"
  ELSE Scan(blocks, 0, <<>>)

(* --------------------------------- lookups ------------------------------ *)

RECURSIVE EntriesFrom(_)
\* What "while let Some(entry) = entry_at(archive, offset)?" goes through.
EntriesFrom(offset) ==
  LET entry == entry_at(archive, offset)
  IN  IF entry.is # "entry" THEN <<>> ELSE <<entry>> \o EntriesFrom(entry.next_offset)

\* Mutant: a directory's bytes are compared without the slash after them.
NamesByBytes(entries, path) ==
  LET hits == {i \in DOMAIN entries : IsPrefix(path, entries[i].name)}
  IN  hits # {} /\ LET first == entries[Min(hits)] IN first.name = path => first.is_dir

\* The first entry that is the path or inside it decides.
NamesDirectory(entries, path) ==
  LET hits == {i \in DOMAIN entries : entries[i].name = path \/ Inside(entries[i].name, path)}
  IN  hits # {} /\ LET first == entries[Min(hits)] IN first.name = path => first.is_dir

directory_exists(path) ==
  safe_path(path, TRUE) /\ (path # <<>> => NamesDirectory(EntriesFrom(0), path))

NoChild == [name |-> <<>>, is_dir |-> FALSE, size |-> 0]

\* The first component below the directory; it is a directory when more follows.
child_entry(entry, directory) ==
  IF directory # <<>> /\ ~(Inside(entry.name, directory) /\ Len(entry.name) > Len(directory) + 1)
  THEN NoChild
  ELSE LET relative == IF directory = <<>> THEN entry.name
                       ELSE SubSeq(entry.name, Len(directory) + 2, Len(entry.name))
           name     == Head(Components(relative))
           is_dir   == Len(name) < Len(relative) \/ entry.is_dir
       IN  [name |-> name, is_dir |-> is_dir, size |-> IF is_dir THEN 0 ELSE entry.size]

\* Every child at its first entry.
FirstVisits(child) ==
  LET visited(i) == /\ child[i] # NoChild
                    /\ \A j \in 1..(i - 1) : child[j].name # child[i].name
      visits == SelectSeq([i \in DOMAIN child |-> i], visited)
  IN  [k \in DOMAIN visits |-> child[visits[k]]]

ChildrenAmong(entries, directory) ==
  [i \in DOMAIN entries |-> child_entry(entries[i], directory)]

for_each_entry(directory) ==
  IF ~directory_exists(directory) THEN <<>>
  ELSE FirstVisits(ChildrenAmong(EntriesFrom(0), directory))

Nothing == [size |-> -1, data |-> <<>>]

FileNamed(entries, name) ==
  LET hits == {i \in DOMAIN entries : ~entries[i].is_dir /\ entries[i].name = name}
  IN  IF hits = {} THEN Nothing
      ELSE [size |-> entries[Min(hits)].size, data |-> entries[Min(hits)].data]

read_file(name) ==
  IF safe_path(name, FALSE) THEN FileNamed(EntriesFrom(0), name) ELSE Nothing

(* -------------------------------- behaviour ----------------------------- *)

Init == archive = <<>> /\ rest = "nothing" /\ mounted = "NotInitialized"

\* The boot volume's file, block by block.
LoadBlock(block) ==
  /\ mounted = "NotInitialized" /\ rest = "nothing" /\ Len(archive) < MAX_BLOCKS
  /\ archive' = Append(archive, block)
  /\ UNCHANGED <<rest, mounted>>

LoadRest ==
  /\ mounted = "NotInitialized" /\ rest = "nothing"
  /\ rest' \in {"part"} \cup (IF Len(archive) = MAX_BLOCKS THEN {"beyond"} ELSE {})
  /\ UNCHANGED <<archive, mounted>>

\* ARCHIVE.call_once: a later call has the result of the first.
initialize ==
  LET missing == rest = "beyond" \/ (archive = <<>> /\ rest = "nothing")
  IN  /\ mounted' = CASE mounted # "NotInitialized" -> mounted
                      [] mounted = "NotInitialized" /\ missing -> "MissingArchive"
                      [] OTHER -> validate(archive)
      /\ UNCHANGED <<archive, rest>>

Next == (\E block \in Blocks : LoadBlock(block)) \/ LoadRest \/ initialize

Spec == Init /\ [][Next]_vars

(* ------------------------------- properties ----------------------------- *)

\* The archive as a tree: where its headers are, and what they name.
Starts(cut) == {i \in cut : archive[i].is = "header"}
Named(i)    == entry_at(archive, i - 1)
ProperBelow(inner, outer) == inner # outer /\ IsPrefix(outer, inner)
PathOf(i)   == Components(Named(i).name)

\* Its blocks are headers followed by their files' blocks, then zeros; no two
\* headers name the same path, and nothing is below a file.
IsTree(cut) ==
  LET end == Min({Len(archive) + 1} \cup {i \in cut : archive[i].is = "zero"})
  IN  /\ 1 \in cut /\ end \in cut /\ end <= Len(archive)
      /\ \A i \in end..Len(archive) : archive[i].is = "zero" /\ (i > end => i \notin cut)
      /\ Starts(cut) = cut \ {end}
      /\ \A i \in Starts(cut) :
           /\ Named(i) # Bad
           /\ cut \cap ((i + 1)..end) # {}
           /\ Min(cut \cap ((i + 1)..end)) = NextOffset(i - 1, Named(i).size) + 1
      /\ Cardinality(Starts(cut)) <= MAX_FILES
      /\ \A i, j \in Starts(cut) :
           i # j => PathOf(i) # PathOf(j)
                    /\ (ProperBelow(PathOf(i), PathOf(j)) => Named(j).is_dir)

Trees == {cut \in SUBSET DOMAIN archive : IsTree(cut)}

\* initialize accepts exactly the archives that are a tree of files and
\* directories cut into whole blocks, in whatever order the headers come.
MountsTrees ==
  mounted # "NotInitialized" =>
    (mounted = "Ok" <=> rest = "nothing" /\ Trees # {})

Nodes == Starts(CHOOSE cut \in Trees : TRUE)

IsDirectory(path) ==
  path = <<>> \/ \E i \in Nodes : \/ PathOf(i) = path /\ Named(i).is_dir
                                  \/ ProperBelow(PathOf(i), path)

NamesOf(path) == IF path = <<>> THEN <<>> ELSE Components(path)

\* In a mounted archive directory_exists and read_file find what the tree has,
\* by whole names: "a" does not lead to "ab", nor a file's name to a directory.
LookupsFollowTree ==
  mounted = "Ok" => \A path \in Queries :
    /\ directory_exists(path) <=> IsDirectory(NamesOf(path))
    /\ LET file == {i \in Nodes : PathOf(i) = NamesOf(path) /\ ~Named(i).is_dir}
       IN  IF file = {} THEN read_file(path) = Nothing
           ELSE \E i \in file : read_file(path) = [size |-> Named(i).size, data |-> Named(i).data]

\* The visits are the children of the directory, each once and as what it is.
VisitsChildren(visits, directory) ==
  LET depth == Len(directory) + 1
      below == {i \in Nodes : ProperBelow(PathOf(i), directory)}
  IN  /\ {visits[k].name : k \in DOMAIN visits} = {PathOf(i)[depth] : i \in below}
      /\ \A k, l \in DOMAIN visits : visits[k].name = visits[l].name => k = l
      /\ \A k \in DOMAIN visits :
           LET child == Append(directory, visits[k].name)
           IN  IF IsDirectory(child) THEN visits[k].is_dir /\ visits[k].size = 0
               ELSE \E i \in Nodes : PathOf(i) = child /\ ~visits[k].is_dir
                                       /\ visits[k].size = Named(i).size

\* for_each_entry visits every child of a directory once, as what it is,
\* though any number of headers, in any order, make it exist.
ListsEachChildOnce ==
  mounted = "Ok" =>
    \A path \in Queries : VisitsChildren(for_each_entry(path), NamesOf(path))
=============================================================================
