----------------------------- MODULE Directory -----------------------------
(***************************************************************************)
(* The block of an ext2 directory (fs/ext2.rs): a chain of records, each   *)
(* naming an inode and saying how far it reaches.  A record may be longer  *)
(* than its name needs; the slack is where new entries go.  A block is a   *)
(* sequence of records, and the offset of a record is the sum of the       *)
(* lengths before it.  Names are opaque: only NameLen, the length in       *)
(* bytes, matters to the layout.                                           *)
(***************************************************************************)
EXTENDS Integers, Sequences, SequencesExt, FiniteSetsExt

CONSTANTS Names,        \* the names entries can have, without "." and ".."
          NameLen,      \* [Names -> 1..255]
          BLOCK_SIZE    \* metadata.block_size

\* What the constants must satisfy.
DirectoryAssumption ==
    /\ {".", ".."} \cap Names = {}
    /\ NameLen \in [Names -> 1..255]
    /\ BLOCK_SIZE \in Nat /\ BLOCK_SIZE % 4 = 0 /\ BLOCK_SIZE >= 24

\* The name of a record that was blanked: no bytes at all.
NoName == ""

Length(name) ==
    CASE name = NoName -> 0
      [] name = "."    -> 1
      [] name = ".."   -> 2
      [] OTHER         -> NameLen[name]

\* The bytes a record for a name needs: its header of 8 and the name, in words.
Required(name) == ((8 + Length(name) + 3) \div 4) * 4

Entry(inode, name, len) == [inode |-> inode, name |-> name, record_len |-> len]

\* What a record can give away: all of it when it names no inode.
Slack(r) ==
    IF r.inode = 0 THEN r.record_len ELSE r.record_len - Required(r.name)

\* The records of a new directory, as create_directory_in lays them out.
NewDirectory(inode, parent) ==
    << Entry(inode, ".", 12), Entry(parent, "..", BLOCK_SIZE - 12) >>

\* The records with room for a name; the code takes the first.
Roomy(block, name) == {i \in DOMAIN block : Slack(block[i]) >= Required(name)}

\* ensure_directory_entry_space
EntryFits(block, name) == Roomy(block, name) # {}

\* add_directory_entry: a blank record is taken whole, a used one is cut behind
\* its name.  The caller knows that EntryFits.
AddEntry(block, name, inode) ==
    LET i    == Min(Roomy(block, name))
        r    == block[i]
        used == Required(r.name)
    IN IF r.inode = 0
       THEN [block EXCEPT ![i] = Entry(inode, name, r.record_len)]
       ELSE InsertAt([block EXCEPT ![i].record_len = used], i + 1,
                     Entry(inode, name, r.record_len - used))

\* The records that name an inode by this name.
Naming(block, name) ==
    {i \in DOMAIN block : block[i].inode # 0 /\ block[i].name = name}

\* find_child within the block: 0 when nothing has the name.
Child(block, name) ==
    IF Naming(block, name) = {} THEN 0 ELSE block[Min(Naming(block, name))].inode

\* Mutant: the record before is swallowed instead.
RemoveNeighbour(block, name) ==
    LET i == Min(Naming(block, name)) - 1
    IN RemoveAt([block EXCEPT ![i+1].record_len = @ + block[i].record_len], i)

\* remove_directory_entry: the record before takes the bytes over; the first
\* record has none before it and is blanked.
RemoveEntry(block, name) ==
    LET i == Min(Naming(block, name))
    IN IF i > 1
       THEN RemoveAt([block EXCEPT ![i-1].record_len = @ + block[i].record_len], i)
       ELSE [block EXCEPT ![i] = Entry(0, NoName, block[i].record_len)]

\* What for_each_child visits: every entry but "." and "..".
Visited(block) ==
    {i \in DOMAIN block : block[i].inode # 0 /\ block[i].name \notin {".", ".."}}

\* The records cover the block without gap or overlap, each is long enough for
\* its own name and starts on a word: what every loop over a directory checks
\* before it believes a record.
WellFormed(block) ==
    /\ FoldLeft(LAMBDA sum, r : sum + r.record_len, 0, block) = BLOCK_SIZE
    /\ \A i \in DOMAIN block :
        /\ block[i].record_len >= Required(block[i].name)
        /\ block[i].record_len % 4 = 0
=============================================================================
