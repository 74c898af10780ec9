----------------------------- MODULE Ext4Format -----------------------------
(***************************************************************************)
(* format_ext4 (partition.c) with the bytes it works on: the sector buffer *)
(* it allocates, the superblock and the group descriptors it lays over     *)
(* that buffer, and the heap the buffer comes from, which is module        *)
(* MemoryAllocator itself.  DiskTool takes the sectors as named and the    *)
(* heap as something that may refuse; here a sector is its fields.         *)
(*                                                                         *)
(* The superblock structure is longer than a sector.  init_superblock      *)
(* clears all of it, and so the header of the heap block behind the        *)
(* buffer.                                                                 *)
(***************************************************************************)
EXTENDS FormatPlan

CONSTANTS
  MEMORY_POOL_SIZE,  \* bytes of the heap
  HeaderSize,        \* sizeof(MemoryBlock)
  PartitionSizes     \* sectors of the partitions to be formatted

VARIABLES
  blocks, size, is_free, next,            \* the heap: its list of blocks,
  current, request, walk, granted,        \*   the call in it, and what is held
  medium,       \* on disk: sector -> contents, of the sectors written
  disk_buffer,  \* the address of the buffer, or NULL
  buffer,       \* the contents of its 512 bytes
  total_sectors,
  group,        \* the block group being written
  pc,           \* the transfer or heap call format_ext4 waits for
  result        \* what it returns, or has returned

heap == <<blocks, size, is_free, next, current, request, walk, granted>>
vars == <<heap, medium, disk_buffer, buffer, total_sectors, group, pc, result>>

SECTOR_SIZE == 512

sizeof_Ext4Superblock == 730

(* The largest partition of whole megabytes below 2^32 bytes.              *)
MAX_SECTORS == 8386560

(* The disk tool formats partitions of whole megabytes.                    *)
ASSUME FormatAssumption ==
  /\ MEMORY_POOL_SIZE \in Nat /\ HeaderSize \in Nat \ {0}
  /\ HeaderSize + SECTOR_SIZE <= MEMORY_POOL_SIZE
  /\ PartitionSizes \subseteq {total \in 0 .. MAX_SECTORS : total % 2048 = 0}

Heap == INSTANCE MemoryAllocator WITH pc <- walk, Sizes <- {SECTOR_SIZE}

NULL == Heap!NULL

(* A definition that begins with Bad is a plausible slip in the definition *)
(* it is named after; the specification uses none.                         *)

-----------------------------------------------------------------------------
(* Structures over the buffer.  A field is named by its offset; contents   *)
(* map the offsets that have been written since the buffer was cleared to  *)
(* their values, and the other bytes are zero.                             *)

s_inodes_count == 0
s_blocks_count_lo == 4
s_r_blocks_count_lo == 8
s_free_blocks_count_lo == 12
s_free_inodes_count == 16
s_log_block_size == 24
s_blocks_per_group == 32
s_inodes_per_group == 40
s_magic == 56
s_state == 58
s_errors == 60
s_rev_level == 76
s_first_ino == 84
s_inode_size == 88
s_feature_compat == 92
s_feature_incompat == 96
s_volume_name == 120

bg_block_bitmap_lo == 0
bg_inode_bitmap_lo == 4
bg_inode_table_lo == 8
bg_free_blocks_count_lo == 12
bg_free_inodes_count_lo == 14

Cleared == [offset \in {} |-> 0]

Field(contents, offset) ==
  IF offset \in DOMAIN contents THEN contents[offset] ELSE 0

InodesPerGroup == 8192

BlocksPerGroup == 32768

EXT4_MAGIC == 61267

(* What init_superblock leaves in the buffer; the fields it sets to zero   *)
(* are left out.                                                           *)
Superblock(total) ==
  LET inodes == InodesPerGroup * Groups(total)
      fields == {s_inodes_count, s_blocks_count_lo, s_r_blocks_count_lo,
                 s_free_blocks_count_lo, s_free_inodes_count, s_log_block_size,
                 s_blocks_per_group, s_inodes_per_group, s_magic, s_state,
                 s_errors, s_rev_level, s_first_ino, s_inode_size,
                 s_feature_compat, s_feature_incompat, s_volume_name}
  IN  [field \in fields |->
         CASE field = s_inodes_count         -> inodes
           [] field = s_blocks_count_lo      -> Blocks(total)
           [] field = s_r_blocks_count_lo    -> Blocks(total) \div 20
           [] field = s_free_blocks_count_lo -> Blocks(total) - 1
           [] field = s_free_inodes_count    -> inodes - 10
           [] field = s_log_block_size       -> 2
           [] field = s_blocks_per_group     -> BlocksPerGroup
           [] field = s_inodes_per_group     -> InodesPerGroup
           [] field = s_magic                -> EXT4_MAGIC
           [] field \in {s_state, s_errors, s_rev_level} -> 1
           [] field = s_first_ino            -> 11
           [] field = s_inode_size           -> 256
           [] field = s_feature_compat       -> 32
           [] field = s_feature_incompat     -> 192
           [] field = s_volume_name          -> "etyOS"]

(* How many groups the loop writes, computed from the superblock.          *)
num_block_groups == Groups(total_sectors)

(* s_first_data_block, to which this is added, is zero.                    *)
GroupFirstBlock(g) == g * BlocksPerGroup

BadBlockFields(g) ==
  [field \in {bg_block_bitmap_lo, bg_inode_bitmap_lo, bg_inode_table_lo,
              bg_free_blocks_count_lo} |->
     CASE field = bg_block_bitmap_lo      -> GroupFirstBlock(g)
       [] field = bg_inode_bitmap_lo      -> GroupFirstBlock(g) + 1
       [] field = bg_inode_table_lo       -> GroupFirstBlock(g) + 2
       [] field = bg_free_blocks_count_lo -> BlocksPerGroup - 4]

BlockFields(g) ==
  [field \in {bg_block_bitmap_lo, bg_inode_bitmap_lo, bg_inode_table_lo,
              bg_free_blocks_count_lo} |->
     CASE field = bg_block_bitmap_lo      -> GroupFirstBlock(g)
       [] field = bg_inode_bitmap_lo      -> GroupFirstBlock(g) + 1
       [] field = bg_inode_table_lo       -> GroupFirstBlock(g) + 2
       [] field = bg_free_blocks_count_lo ->
            (BlocksInGroup(total_sectors, g) - 4) % 65536]

(* The descriptor of group g.  The number of inodes is read through sb,    *)
(* which points to the buffer that has just been cleared and has the       *)
(* descriptor's fields so far.                                             *)
Descriptor(g) ==
  Put(BlockFields(g), bg_free_inodes_count_lo,
      Field(BlockFields(g), s_inodes_per_group))

(* The first four blocks are used.                                         *)
BlockBitmap == [offset \in {0} |-> 15]

bitmap_sector == BitmapLba(group)

-----------------------------------------------------------------------------
Init ==
  /\ Heap!Init
  /\ medium = [lba \in {} |-> Cleared]
  /\ disk_buffer = NULL /\ buffer = Cleared
  /\ total_sectors = 0 /\ group = 0
  /\ pc = "idle" /\ result = 0

TooSmall(total) ==
  /\ pc = "idle" /\ total < MIN_EXT4_SECTORS
  /\ total_sectors' = total /\ result' = -1
  /\ UNCHANGED <<heap, medium, disk_buffer, buffer, group, pc>>

FormatExt4(total) ==
  /\ pc = "idle" /\ total >= MIN_EXT4_SECTORS
  /\ total_sectors' = total /\ pc' = "allocate"
  /\ Heap!Allocate(SECTOR_SIZE)
  /\ UNCHANGED <<medium, disk_buffer, buffer, group, result>>

(* allocate finds the buffer, in the first block it looks at (invariant    *)
(* FirstBlockServes), and the buffer is cleared.                           *)
Allocated ==
  /\ pc = "allocate"
  /\ Heap!TakeSplit \/ Heap!TakeWhole
  /\ disk_buffer' = Heap!Payload(current) /\ buffer' = Cleared
  /\ pc' = "read_superblock"
  /\ UNCHANGED <<medium, total_sectors, group, result>>

BadRelease(status) ==
  /\ result' = status /\ pc' = "free" /\ group' = 0
  /\ disk_buffer' = NULL /\ buffer' = Cleared
  /\ walk' = "coalesce" /\ current' = Heap!free_list
  /\ UNCHANGED <<blocks, size, is_free, next, request, granted, total_sectors>>

(* Every way out frees the buffer first.                                   *)
Release(status) ==
  /\ result' = status /\ pc' = "free" /\ group' = 0
  /\ disk_buffer' = NULL /\ buffer' = Cleared
  /\ Heap!Free(disk_buffer)
  /\ UNCHANGED total_sectors

ReadSuperblockFails ==
  /\ pc = "read_superblock"
  /\ Release(-1)
  /\ UNCHANGED medium

(* A block header that init_superblock clears with the superblock.         *)
Overrun(b) ==
  /\ disk_buffer <= b
  /\ b + HeaderSize <= disk_buffer + sizeof_Ext4Superblock

(* The superblock is built over the sector read.  The checks of the number *)
(* of groups that follow always pass (lemma GroupsBound of DiskToolProofs).*)
InitSuperblock ==
  /\ pc = "read_superblock"
  /\ buffer' = Superblock(total_sectors)
  /\ size' = [b \in blocks |-> IF Overrun(b) THEN 0 ELSE size[b]]
  /\ is_free' = [b \in blocks |-> IF Overrun(b) THEN 0 ELSE is_free[b]]
  /\ next' = [b \in blocks |-> IF Overrun(b) THEN NULL ELSE next[b]]
  /\ pc' = "write_superblock"
  /\ UNCHANGED <<blocks, current, request, walk, granted,
                 medium, disk_buffer, total_sectors, group, result>>

-----------------------------------------------------------------------------
(* The sectors that are written, each followed by the contents of the next *)
(* one.                                                                    *)

lba ==
  CASE pc = "write_superblock"   -> SuperblockLba
    [] pc = "write_descriptor"   -> SuperblockLba + 1 + group
    [] pc = "write_block_bitmap" -> bitmap_sector
    [] pc = "write_inode_bitmap" -> bitmap_sector + 1

Writing == {"write_superblock", "write_descriptor", "write_block_bitmap",
            "write_inode_bitmap"}

(* The sector is written, and the buffer filled with other contents.       *)
Write(transfer, contents, then) ==
  /\ pc = transfer /\ pc' = then
  /\ medium' = Put(medium, lba, buffer) /\ buffer' = contents
  /\ UNCHANGED <<heap, disk_buffer, total_sectors, result>>

WriteSuperblock ==
  /\ Write("write_superblock", Descriptor(0), "write_descriptor")
  /\ group' = 0

WriteDescriptor ==
  /\ Write("write_descriptor", BlockBitmap, "write_block_bitmap")
  /\ UNCHANGED group

BadWriteBlockBitmap ==
  /\ Write("write_block_bitmap", buffer, "write_inode_bitmap")
  /\ UNCHANGED group

WriteBlockBitmap ==
  /\ Write("write_block_bitmap", Cleared, "write_inode_bitmap")
  /\ UNCHANGED group

BadWriteInodeBitmap ==
  /\ group < num_block_groups
  /\ Write("write_inode_bitmap", Descriptor(group + 1), "write_descriptor")
  /\ group' = group + 1

WriteInodeBitmap ==
  /\ group + 1 < num_block_groups
  /\ Write("write_inode_bitmap", Descriptor(group + 1), "write_descriptor")
  /\ group' = group + 1

WriteLastInodeBitmap ==
  /\ pc = "write_inode_bitmap" /\ group + 1 = num_block_groups
  /\ medium' = Put(medium, lba, buffer)
  /\ Release(0)

(* A write that fails may or may not have reached the disk.                *)
WriteFails ==
  /\ pc \in Writing
  /\ medium' \in {medium, Put(medium, lba, buffer)}
  /\ Release(-1)

FreeNext ==
  /\ pc = "free"
  /\ Heap!MergeNext \/ Heap!CoalesceNext
  /\ UNCHANGED <<medium, disk_buffer, buffer, total_sectors, group, pc, result>>

Freed ==
  /\ pc = "free" /\ Heap!FreeReturns
  /\ pc' = "idle"
  /\ UNCHANGED <<medium, disk_buffer, buffer, total_sectors, group, result>>

Run ==
  \/ Allocated \/ ReadSuperblockFails \/ InitSuperblock
  \/ WriteSuperblock \/ WriteDescriptor \/ WriteBlockBitmap
  \/ WriteInodeBitmap \/ WriteLastInodeBitmap \/ WriteFails
  \/ FreeNext \/ Freed

Next ==
  \/ \E total \in PartitionSizes : TooSmall(total) \/ FormatExt4(total)
  \/ Run

Spec == Init /\ [][Next]_vars

(* A format that has begun goes on; a drive answers every transfer.        *)
FairSpec == Spec /\ WF_vars(Run)

-----------------------------------------------------------------------------
TypeOK ==
  /\ blocks \subseteq Nat /\ Heap!free_list \in blocks
  /\ size \in [blocks -> Nat] /\ is_free \in [blocks -> {0, 1}]
  /\ next \in [blocks -> blocks \union {NULL}]
  /\ current \in blocks \union {NULL}
  /\ walk = CASE pc = "allocate" -> "search" [] pc = "free" -> "coalesce"
              [] OTHER -> "idle"
  /\ DOMAIN medium \subseteq Nat
  /\ disk_buffer \in Nat \union {NULL}
  /\ total_sectors \in {0} \union PartitionSizes
  /\ pc \in Writing => group \in 0 .. num_block_groups - 1
  /\ pc \in Writing \union {"idle", "allocate", "read_superblock", "free"}
  /\ result \in {0, -1}

(* The 16-bit count of free blocks does not wrap around, neither above in  *)
(* a whole group nor below zero in what is left for the last one.          *)
FreeCountExact ==
  pc = "write_descriptor" =>
    Field(buffer, bg_free_blocks_count_lo) + 4
      = BlocksInGroup(total_sectors, group)

(* Although a format damages the list, the first block always serves the   *)
(* next one: however many formats have failed or succeeded, allocate never *)
(* returns NULL, and returns the same buffer.                              *)
FirstBlockServes ==
  /\ pc = "allocate" => current = Heap!free_list /\ Heap!Fits(current)
  /\ disk_buffer \in {NULL, Heap!Payload(Heap!free_list)}

(* The buffer is held from allocate to free, and freed on every way out.   *)
BufferHeld ==
  DOMAIN granted = IF disk_buffer = NULL THEN {} ELSE {disk_buffer}

(* A buffer can always be had, and is given back.                          *)
BufferSound == FirstBlockServes /\ BufferHeld

(* How many sectors of its plan the format has written.                    *)
Written ==
  CASE pc = "write_descriptor"   -> 1 + 3 * group
    [] pc = "write_block_bitmap" -> 2 + 3 * group
    [] pc = "write_inode_bitmap" -> 3 + 3 * group
    [] pc \in {"free", "idle"} /\ result = 0 /\ total_sectors > 0
         -> PlanLength("ext4", total_sectors)
    [] OTHER -> 0

(* Contents are what the plan calls them.                                  *)
Is(contents, what) ==
  CASE what[1] = "superblock" ->
         /\ Field(contents, s_magic) = EXT4_MAGIC
         /\ Field(contents, s_blocks_count_lo) = Blocks(what[2])
    [] what[1] = "descriptor" ->
         /\ Field(contents, bg_block_bitmap_lo) = what[2] * BlocksPerGroup
         /\ Field(contents, bg_free_blocks_count_lo) = what[3]
         /\ Field(contents, s_magic) = 0
    [] what[1] = "block bitmap" -> contents = BlockBitmap
    [] what[1] = "inode bitmap" -> contents = Cleared

(* Every sector written so far lies where the plan of DiskTool puts it and *)
(* holds what that plan names, with nothing left of what the buffer held   *)
(* before, and no later sector has replaced it.                            *)
FollowsPlan ==
  \A k \in 1 .. Written :
    LET sector == PlanSector("ext4", total_sectors, k) IN
    /\ sector.lba \in DOMAIN medium
    /\ Is(medium[sector.lba], sector.what)

Complete == pc = "idle" /\ result = 0 /\ total_sectors > 0

DescriptorOnDisk(g) == medium[SuperblockLba + 1 + g]

(* The sum of a field over the descriptors on disk.                        *)
SumOverGroups(offset) ==
  LET sum[n \in 0 .. num_block_groups] ==
        IF n = 0 THEN 0
                 ELSE sum[n - 1] + Field(DescriptorOnDisk(n - 1), offset)
  IN  sum[num_block_groups]

(* On a formatted partition the groups account for every block: those the  *)
(* descriptors count as free and the four in use of each group's bitmap    *)
(* are the blocks of the superblock.                                       *)
BlocksAddUp ==
  Complete =>
    SumOverGroups(bg_free_blocks_count_lo) + 4 * num_block_groups
      = Field(medium[SuperblockLba], s_blocks_count_lo)

(* Every format ends: the walks of the heap end on the damaged list, too.  *)
FormatReturns == pc # "idle" ~> pc = "idle"

-----------------------------------------------------------------------------
(* What the program's own comments and messages say, and the code does not *)
(* keep.                                                                   *)

(* allocate returns memory usable "within the block": using it leaves the  *)
(* other blocks of the heap as they were, none marked used without owner.  *)
HeapUnharmed == Heap!UsedHasOwner

(* "EXT4 formatting completed successfully.": a descriptor tells where the *)
(* "empty inode bitmap" of its group has been written, and how many inodes *)
(* are free: "sb->s_inodes_per_group".                                     *)
DescriptorsTrue ==
  Complete =>
    /\ SumOverGroups(bg_free_inodes_count_lo)
         = Field(medium[SuperblockLba], s_inodes_count)
    /\ \A g \in 0 .. num_block_groups - 1 :
         START_LBA + 8 * Field(DescriptorOnDisk(g), bg_inode_bitmap_lo)
           \in {l \in DOMAIN medium : medium[l] = Cleared}

=============================================================================
