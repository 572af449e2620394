------------------------------ MODULE Ext2Mount -----------------------------
(***************************************************************************)
(* How fs/ext2.rs finds an inode: mount accepts or refuses the geometry a  *)
(* superblock claims, once, and read_inode computes from it which block of *)
(* the descriptor table and of an inode table to read.  The numbers come   *)
(* from the disk and are 32 bits wide; a checked operation that overflows  *)
(* is an error.  Sizes are counted in sectors, of which a block of the     *)
(* smallest size has two, and a group descriptor takes DESCRIPTOR of them. *)
(***************************************************************************)
EXTENDS Integers, FiniteSets, FiniteSetsExt

CONSTANTS
  Superblocks,    \* what the disk may claim
  WORD,           \* 2^32
  MAX_SECTORS,    \* sectors LBA28 can address
  MAX_GROUPS,
  BITS,           \* bits in a sector
  MIN_INODE,      \* 128 bytes
  DESCRIPTOR,     \* 32 bytes
  Tables          \* bg_inode_table as a descriptor may have it

\* What the constants must satisfy.
Ext2MountAssumption ==
  /\ {WORD, MAX_SECTORS, MAX_GROUPS, BITS, MIN_INODE, DESCRIPTOR} \subseteq Nat \ {0}
  /\ Tables \subseteq 0..(WORD - 1)

ROOT_INODE == 2

VARIABLES
  superblock,
  mounted,   \* the result in EXT2
  read       \* the last read_inode

vars == <<superblock, mounted, read>>

Error(e) == [is |-> e]
DivUp(a, b) == (a + b - 1) \div b
NotRead == [number |-> 0, outcome |-> "none", blocks |-> <<>>, offset |-> 0]

(* ---------------------------------- mount ------------------------------- *)

block_size(sb) == 2 * 2^sb.log_block_size
inode_size(sb) == IF sb.revision = 0 THEN MIN_INODE ELSE sb.inode_size

InvalidGeometry(sb) ==
  \/ sb.blocks_count = 0 \/ sb.inodes_count < ROOT_INODE
  \/ sb.blocks_per_group = 0 \/ sb.inodes_per_group = 0
  \/ sb.first_data_block >= sb.blocks_count
  \/ sb.blocks_per_group > block_size(sb) * BITS
  \/ sb.inodes_per_group > block_size(sb) * BITS
  \/ inode_size(sb) \notin MIN_INODE..block_size(sb)
  \/ block_size(sb) % inode_size(sb) # 0
  \/ sb.revision > 1
  \/ sb.first_data_block # (IF block_size(sb) = 2 THEN 1 ELSE 0)

Overflows(sb) ==
  \/ sb.blocks_count - sb.first_data_block + sb.blocks_per_group - 1 >= WORD
  \/ sb.inodes_count + sb.inodes_per_group - 1 >= WORD

group_count(sb) ==
  Max({DivUp(sb.blocks_count - sb.first_data_block, sb.blocks_per_group),
       DivUp(sb.inodes_count, sb.inodes_per_group)})

DescriptorsFit(sb) ==
  sb.first_data_block + 1 + DivUp(group_count(sb) * DESCRIPTOR, block_size(sb))
    <= sb.blocks_count

SectorCount(sb) == sb.blocks_count * block_size(sb)

\* Mutant: any disk whose sectors have a 32-bit number is taken.
AddressableWord(sb) == SectorCount(sb) < WORD

Addressable(sb) == SectorCount(sb) <= MAX_SECTORS

mount(sb) ==
  CASE ~sb.readable -> Error("Disk")
    [] sb.readable /\ ~sb.magic -> Error("InvalidFilesystem")
    [] sb.readable /\ sb.magic /\
       (sb.log_block_size > 2 \/ sb.log_fragment_size # sb.log_block_size) ->
         Error("UnsupportedFeature")
    [] OTHER ->
         IF InvalidGeometry(sb) THEN Error("InvalidFilesystem")
         ELSE IF sb.revision # 0 /\ ~sb.known_features THEN Error("UnsupportedFeature")
         ELSE IF Overflows(sb) THEN Error("InvalidFilesystem")
         ELSE IF group_count(sb) > MAX_GROUPS THEN Error("UnsupportedFeature")
         ELSE IF ~DescriptorsFit(sb) \/ SectorCount(sb) >= WORD
         THEN Error("InvalidFilesystem")
         ELSE IF ~Addressable(sb) THEN Error("UnsupportedFeature")
         ELSE [is |-> "Ok", group_count |-> group_count(sb), block_size |-> block_size(sb),
               inode_size |-> inode_size(sb), blocks_count |-> sb.blocks_count,
               inodes_count |-> sb.inodes_count, first_data_block |-> sb.first_data_block,
               inodes_per_group |-> sb.inodes_per_group]

(* -------------------------------- read_inode ---------------------------- *)

DescriptorBlock(md, group) ==
  md.first_data_block + 1 + (group * DESCRIPTOR) \div md.block_size

TableBlocks(md) == DivUp(md.inodes_per_group * md.inode_size, md.block_size)

\* The inode's number, and the table its group's descriptor names.
read_inode(md, number, table) ==
  LET index      == number - 1
      group      == index \div md.inodes_per_group
      offset     == (index % md.inodes_per_group) * md.inode_size
      descriptor == DescriptorBlock(md, group)
      block      == table + offset \div md.block_size
      got(outcome, blocks) == [number |-> number, outcome |-> outcome, blocks |-> blocks,
                               offset |-> offset % md.block_size]
  IN  IF number = 0 \/ number > md.inodes_count THEN got("NoInode", <<>>)
      ELSE IF group >= md.group_count THEN got("NoGroup", <<>>)
      ELSE IF descriptor >= md.blocks_count THEN got("NoDescriptor", <<>>)
      ELSE IF table >= md.blocks_count \/ table + TableBlocks(md) > md.blocks_count
      THEN got("BadTable", <<descriptor>>)
      ELSE IF block >= md.blocks_count THEN got("NoBlock", <<descriptor>>)
      ELSE IF (offset % md.block_size) + md.inode_size > md.block_size
      THEN got("Straddles", <<descriptor, block>>)
      ELSE got("Ok", <<descriptor, block>>)

(* -------------------------------- behaviour ----------------------------- *)

Init ==
  /\ superblock \in Superblocks
  /\ mounted = Error("NotInitialized")
  /\ read = NotRead

\* EXT2.call_once
initialize ==
  /\ mounted = Error("NotInitialized")
  /\ mounted' = mount(superblock)
  /\ UNCHANGED <<superblock, read>>

ReadInode(number, table) ==
  /\ read' = IF mounted.is # "Ok" THEN NotRead ELSE read_inode(mounted, number, table)
  /\ UNCHANGED <<superblock, mounted>>

Next == initialize \/ \E number \in 0..(superblock.inodes_count + 1), table \in Tables :
                         ReadInode(number, table)

Spec == Init /\ [][Next]_vars

(* ------------------------------- properties ----------------------------- *)

\* Every inode a mounted file system counts has a group, and the group a
\* descriptor on the disk: read_inode fails on it only for a table that does
\* not fit, and an inode never straddles two blocks of a table that does.
CountedInodesFound ==
  (mounted.is = "Ok" /\ read.number \in 1..mounted.inodes_count) =>
     read.outcome \in {"Ok", "BadTable"}

\* Each block read_inode reads is on the disk and within what LBA28 addresses,
\* so that validate_request of drivers/ata.rs accepts it.
InodesOnDisk ==
  mounted.is = "Ok" => \A k \in DOMAIN read.blocks :
     /\ read.blocks[k] < mounted.blocks_count
     /\ (read.blocks[k] + 1) * mounted.block_size <= MAX_SECTORS
=============================================================================
