----------------------------- MODULE MCDevices ------------------------------
(***************************************************************************)
(* What comes from outside: the disk drive behind drivers/ata.rs, the      *)
(* keyboard behind its decoder, the superblock of the data disk and the    *)
(* archive of the loader.  They share no state, so that an interleaving of *)
(* them would reach nothing new: a behaviour is one of the component that  *)
(* part names, and the others keep their initial states.                   *)
(***************************************************************************)
EXTENDS AtaDisk

VARIABLES part,
          kb, wire, held, caps, meant,     \* Keyboard
          superblock, mounted, read,       \* Ext2Mount
          archive, rest, initialized       \* Initrd

(* -------------------------------- the keyboard -------------------------- *)

\* Every kind of key the decoder tells apart, two of them down at a time.
AllKeys == {"c", "w", "7", "enter", "lshift", "rshift", "lctrl", "rctrl", "lalt", "altgr",
            "caps", "left", "kp_enter", "pause"}
Decoder == INSTANCE Keyboard WITH Keys <- AllKeys, MAX_HELD <- 2, WIRE <- 2

(* --------------------------------- mounting ----------------------------- *)

\* All small geometries, and a good one with what else can be wrong.
Geometries ==
    [readable : {TRUE}, magic : {TRUE}, known_features : {TRUE}, revision : {0, 1},
     log_block_size : 0..1, log_fragment_size : 0..1,
     blocks_count : {0, 1, 2, 5, 9, 20, 21, 63}, inodes_count : {1, 2, 3, 5, 62},
     first_data_block : 0..1, blocks_per_group : {0, 1, 4, 9}, inodes_per_group : 0..3,
     inode_size : {0, 1, 2, 3, 4}]

Good == [readable |-> TRUE, magic |-> TRUE, known_features |-> TRUE, revision |-> 1,
         log_block_size |-> 0, log_fragment_size |-> 0, blocks_count |-> 5,
         inodes_count |-> 3, first_data_block |-> 1, blocks_per_group |-> 4,
         inodes_per_group |-> 2, inode_size |-> 1]

Superblocks ==
    {sb \in Geometries : sb.log_fragment_size = sb.log_block_size
                           /\ (sb.revision = 0 => sb.inode_size = 0)}
      \cup {Good, [Good EXCEPT !.readable = FALSE], [Good EXCEPT !.magic = FALSE],
            [Good EXCEPT !.known_features = FALSE], [Good EXCEPT !.log_block_size = 3],
            [Good EXCEPT !.log_fragment_size = 1], [Good EXCEPT !.revision = 2]}

Mount == INSTANCE Ext2Mount WITH
    WORD <- 64, MAX_SECTORS <- 40, MAX_GROUPS <- 5, BITS <- 2, MIN_INODE <- 1,
    DESCRIPTOR <- 1, Tables <- {0, 1, 19, 20, 63}

(* -------------------------------- the archive --------------------------- *)

Header(type, prefix, name, size) ==
    [is |-> "header", type |-> type, prefix |-> prefix, name |-> name, size |-> size]

\* Names that are prefixes of one another by bytes or by components.
Headers == {
    Header("0", <<>>, <<"a">>, <<" ", "0">>),
    Header("0", <<>>, <<"a">>, <<"1", " ", "7">>),
    Header("5", <<>>, <<"a", "/">>, <<" ">>),
    Header("0", <<>>, <<"a", "b">>, <<"0", "3">>),
    Header("0", <<"a">>, <<"b">>, <<"0">>),
    Header("5", <<>>, <<"a", "/", "b">>, <<"0">>),
    Header("0", <<>>, <<"b", "/", "b">>, <<"0", "2">>),
    Header("5", <<>>, <<"b">>, <<"1">>),
    Header("0", <<>>, <<"b", "/">>, <<"0">>),
    Header("0", <<>>, <<"b">>, <<"x">>),
    Header("2", <<>>, <<"b">>, <<"0">>),
    Header("0", <<"a">>, <<".", ".">>, <<"0">>)}

Archive == INSTANCE Initrd WITH
    mounted <- initialized, Letters <- {"a", "b"}, BLOCK_SIZE <- 2, MAX_BLOCKS <- 4,
    MAX_FILES <- 3, MAX_PATH_LEN <- 4, MAX_COMPONENT_LEN <- 2,
    Queries <- {<<>>, <<"a">>, <<"b">>, <<"a", "b">>, <<"a", "/", "b">>, <<"b", "/", "b">>,
                <<"a", "/">>, <<".">>}

ASSUME /\ Decoder!KeyboardBounds /\ Mount!Ext2MountAssumption /\ Archive!InitrdAssumption

(* ------------------------------- one of them ---------------------------- *)

ataVars     == <<present, medium, cache, drive, registers, request, phase, polls, result,
                 possible, abandoned>>
keyVars     == <<kb, wire, held, caps, meant>>
mountVars   == <<superblock, mounted, read>>
archiveVars == <<archive, rest, initialized>>
partsVars   == <<part, ataVars, keyVars, mountVars, archiveVars>>

PartsInit ==
    /\ part \in {"drive", "keyboard", "mount", "archive"}
    /\ Init
    /\ part # "drive" => present /\ \A s \in Sectors : medium[s] = CHOOSE v \in Values : TRUE
    /\ Decoder!Init
    /\ Mount!Init /\ (part # "mount" => superblock = Good)
    /\ Archive!Init

Drive == part = "drive" /\ UNCHANGED <<part, keyVars, mountVars, archiveVars>>

PartsNext ==
    \/ Drive /\ Next
    \/ /\ part = "keyboard" /\ Decoder!Next
       /\ UNCHANGED <<part, ataVars, mountVars, archiveVars>>
    \/ /\ part = "mount" /\ Mount!Next
       /\ UNCHANGED <<part, ataVars, keyVars, archiveVars>>
    \/ /\ part = "archive" /\ Archive!Next
       /\ UNCHANGED <<part, ataVars, keyVars, mountVars>>

PartsSpec == PartsInit /\ [][PartsNext]_partsVars /\ WF_partsVars(Drive /\ Poll)

\* No step depends on the last result, nor on what the registers held before the
\* request that sets them.
Relevant ==
    IF part = "drive"
    THEN <<present, medium, cache, drive, request, phase, polls, possible, abandoned>>
    ELSE <<part, keyVars, mountVars, archiveVars>>

(* ------------------------------- properties ----------------------------- *)

\* Keyboard: the bytes on the way decode to the keys the user meant, in their
\* order, and leave the decoder with the modifiers that are down.
DecoderFollowsKeys ==
    part = "keyboard" => Decoder!KeysDecodeAsMeant /\ Decoder!FlagsFollowKeys

\* Ext2Mount: every inode a mounted file system counts has a group and a
\* descriptor, and the blocks read_inode reads are on the disk and within LBA28.
InodesAreReadable == part = "mount" => Mount!CountedInodesFound /\ Mount!InodesOnDisk

\* Initrd: initialize accepts exactly the archives that are a tree, and
\* directory_exists, read_file and for_each_entry show that tree by whole names.
ArchiveIsTree ==
    part = "archive" =>
        Archive!MountsTrees /\ Archive!LookupsFollowTree /\ Archive!ListsEachChildOnce
=============================================================================
