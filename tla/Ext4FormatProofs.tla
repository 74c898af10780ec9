-------------------------- MODULE Ext4FormatProofs --------------------------
(***************************************************************************)
(* Theorems about Ext4Format, for every heap that holds one buffer and all *)
(* partition sizes.                                                        *)
(***************************************************************************)
EXTENDS Ext4Format, Recursion, TLAPS

(* The only other block there ever is: what was cut off when the first     *)
(* block became the buffer.                                                *)
Rest == HeaderSize + SECTOR_SIZE

HeapInv ==
  /\ blocks \in {{0}, {0, Rest}}
  /\ size \in [blocks -> Nat] /\ is_free \in [blocks -> {0, 1}]
  /\ next \in [blocks -> {0, Rest, NULL}]
  /\ blocks = {0} => size[0] >= SECTOR_SIZE /\ next[0] = NULL
  /\ blocks = {0, Rest} =>
       size[0] = SECTOR_SIZE /\ next[0] = Rest /\ next[Rest] = NULL

CallInv ==
  /\ walk = CASE pc = "allocate" -> "search" [] pc = "free" -> "coalesce"
              [] OTHER -> "idle"
  /\ pc = "allocate" => current = 0 /\ request = SECTOR_SIZE
  /\ current \in blocks \union {NULL}
  /\ pc \in Writing \union {"idle", "allocate", "read_superblock", "free"}
  /\ disk_buffer =
       IF pc \in Writing \union {"read_superblock"} THEN HeaderSize ELSE NULL
  /\ is_free[0] = IF disk_buffer = NULL THEN 1 ELSE 0
  /\ DOMAIN granted = IF disk_buffer = NULL THEN {} ELSE {disk_buffer}

PlaceInv ==
  /\ total_sectors \in {0} \union PartitionSizes
  /\ pc \notin {"idle", "free"} => total_sectors >= MIN_EXT4_SECTORS
  /\ group \in Nat /\ num_block_groups \in Nat
  /\ pc \in Writing => group < num_block_groups
  /\ pc \notin Writing \ {"write_superblock"} => group = 0
  /\ DOMAIN medium \subseteq Nat
  /\ result \in {0, -1}

IInv == HeapInv /\ CallInv /\ PlaceInv /\ FreeCountExact

-----------------------------------------------------------------------------
LEMMA MaxSectorsIsNat == MAX_SECTORS \in Nat
BY SMT DEF MAX_SECTORS

GroupSizes == 256 .. 32768

(* A partition of whole megabytes has at least 256 blocks in every group,  *)
(* the last one included.                                                  *)
LEMMA GroupsOf ==
  ASSUME NEW total \in 0 .. MAX_SECTORS, total % 2048 = 0
  PROVE  /\ Groups(total) \in Nat
         /\ total >= MIN_EXT4_SECTORS => Groups(total) >= 1
         /\ \A g \in Nat : g < Groups(total) =>
              BlocksInGroup(total, g) \in GroupSizes
<1> DEFINE k == total \div 2048
           n == Groups(total)
<1>1. k \in Nat /\ total = 2048 * k
  <2>1. total \in Nat /\ total % 2048 = 0
    BY MaxSectorsIsNat, SMT
  <2>2. QED
    BY <2>1, SMT
<1>2. Blocks(total) = 256 * k
  BY <1>1, SMT DEF Blocks
<1>3. n = (256 * k + 32767) \div 32768
  BY <1>2 DEF Groups
<1> HIDE DEF k, n
<1>4. n \in Nat /\ n * 32768 >= 256 * k /\ n * 32768 < 256 * k + 32768
  BY <1>1, <1>3, SMT
<1>5. total >= MIN_EXT4_SECTORS => n >= 1
  BY <1>1, <1>4, SMT DEF MIN_EXT4_SECTORS
<1>6. ASSUME NEW g \in Nat, g < n
      PROVE  BlocksInGroup(total, g) \in GroupSizes
  <2>1. CASE g = n - 1
    <3>1. BlocksInGroup(total, g) = 256 * k - (n - 1) * 32768
      BY <1>2, <2>1, <1>4, SMT DEF BlocksInGroup, n
    <3>2. QED
      BY <2>1, <3>1, <1>1, <1>4, SMT DEF GroupSizes
  <2>2. CASE g # n - 1
    <3>1. BlocksInGroup(total, g) = 32768
      BY <2>2 DEF BlocksInGroup, n
    <3>2. QED
      BY <3>1, SMT DEF GroupSizes
  <2>3. QED
    BY <2>1, <2>2
<1>7. QED
  BY <1>4, <1>5, <1>6 DEF n

(* What the 16-bit field of a descriptor holds.                            *)
LEMMA DescriptorCount ==
  ASSUME NEW g \in Nat
  PROVE  Field(Descriptor(g), bg_free_blocks_count_lo)
           = (BlocksInGroup(total_sectors, g) - 4) % 65536
BY DEF Descriptor, BlockFields, Put, Field, bg_free_blocks_count_lo,
       bg_block_bitmap_lo, bg_inode_bitmap_lo, bg_inode_table_lo,
       bg_free_inodes_count_lo

(* The sizes of a partition that is being formatted.                       *)
LEMMA SizesOf ==
  ASSUME IInv
  PROVE  /\ num_block_groups \in Nat
         /\ total_sectors >= MIN_EXT4_SECTORS => num_block_groups >= 1
         /\ \A g \in Nat : g < num_block_groups =>
              BlocksInGroup(total_sectors, g) \in GroupSizes
<1>1. total_sectors \in 0 .. MAX_SECTORS /\ total_sectors % 2048 = 0
  <2>1. CASE total_sectors = 0
    BY <2>1, MaxSectorsIsNat, SMT
  <2>2. CASE total_sectors \in PartitionSizes
    BY <2>2, FormatAssumption
  <2>3. QED
    BY <2>1, <2>2 DEF IInv, PlaceInv
<1>2. QED
  BY <1>1, GroupsOf DEF num_block_groups

LEMMA Unwrapped ==
  ASSUME NEW n \in Nat, NEW m \in Nat \ {0}, n < m
  PROVE  n % m = n
<1>1. n % m \in Nat /\ n % m < m /\ n = m * (n \div m) + (n % m)
  BY SMT
<1>2. n \div m = 0
  BY SMT
<1>3. QED
  BY <1>1, <1>2, SMT

LEMMA CountOf ==
  ASSUME IInv, NEW g \in Nat, g < num_block_groups
  PROVE  Field(Descriptor(g), bg_free_blocks_count_lo) + 4
           = BlocksInGroup(total_sectors, g)
<1>1. BlocksInGroup(total_sectors, g) \in GroupSizes
  BY SizesOf
<1>2. Field(Descriptor(g), bg_free_blocks_count_lo)
        = (BlocksInGroup(total_sectors, g) - 4) % 65536
  BY DescriptorCount
<1>3. ASSUME NEW x \in GroupSizes
      PROVE  (x - 4) % 65536 = x - 4
  <2>1. x - 4 \in Nat /\ x - 4 < 65536
    BY SMT DEF GroupSizes
  <2>2. QED
    BY <2>1, Unwrapped
<1>4. \A x \in GroupSizes : (x - 4) + 4 = x
  BY SMT DEF GroupSizes
<1>5. QED
  BY <1>1, <1>2, <1>3, <1>4

-----------------------------------------------------------------------------
LEMMA LbaIsNat ==
  ASSUME group \in Nat, pc \in Writing
  PROVE  lba \in Nat
<1>1. bitmap_sector \in Nat
  BY SMT DEF bitmap_sector, BitmapLba, START_LBA
<1>2. SuperblockLba \in Nat
  BY SMT DEF SuperblockLba, START_LBA
<1>3. QED
  BY <1>1, <1>2, SMT DEF lba, Writing

USE DEF Heap!NULL, Heap!free_list, Heap!Payload, Heap!Header

LEMMA Constants ==
  /\ HeaderSize \in Nat \ {0} /\ SECTOR_SIZE = 512 /\ Rest = HeaderSize + 512
  /\ Rest # 0 /\ NULL \notin {0, Rest, HeaderSize} /\ NULL = -1
  /\ MEMORY_POOL_SIZE - HeaderSize \in Nat
  /\ MEMORY_POOL_SIZE - HeaderSize >= SECTOR_SIZE
BY FormatAssumption, SMT DEF SECTOR_SIZE, Rest, NULL

LEMMA InitHolds == Init => IInv
<1> SUFFICES ASSUME Init PROVE IInv
  OBVIOUS
<1>1. HeapInv
  BY Constants, SMT DEF Init, Heap!Init, HeapInv
<1>2. CallInv
  BY Constants DEF Init, Heap!Init, CallInv, Writing
<1>3. num_block_groups = 0
  BY SMT DEF Init, num_block_groups, Groups, Blocks
<1>4. PlaceInv
  BY <1>3 DEF Init, PlaceInv, Writing
<1>5. FreeCountExact
  BY DEF Init, FreeCountExact
<1>6. QED
  BY <1>1, <1>2, <1>4, <1>5 DEF IInv

(* The sizes agree with the groups also for the partition of a new call.   *)
LEMMA CallHolds ==
  ASSUME IInv, NEW total \in PartitionSizes,
         TooSmall(total) \/ FormatExt4(total)
  PROVE  IInv'
<1>1. total \in 0 .. MAX_SECTORS /\ total % 2048 = 0
  BY FormatAssumption
<1>2. num_block_groups' \in Nat
  BY <1>1, GroupsOf DEF TooSmall, FormatExt4, num_block_groups
<1>3. CASE TooSmall(total)
  <2>1. HeapInv'
    BY <1>3 DEF TooSmall, heap, IInv, HeapInv
  <2>2. CallInv'
    BY <1>3 DEF TooSmall, heap, IInv, CallInv
  <2>3. PlaceInv' /\ FreeCountExact'
    BY <1>2, <1>3 DEF TooSmall, IInv, PlaceInv, FreeCountExact, Writing
  <2>4. QED
    BY <2>1, <2>2, <2>3 DEF IInv
<1>4. CASE FormatExt4(total)
  <2>1. HeapInv'
    BY <1>4 DEF FormatExt4, Heap!Allocate, IInv, HeapInv
  <2>2. CallInv'
    BY <1>4 DEF FormatExt4, Heap!Allocate, IInv, CallInv, HeapInv, Writing
  <2>3. PlaceInv' /\ FreeCountExact'
    BY <1>2, <1>4 DEF FormatExt4, IInv, PlaceInv, FreeCountExact, Writing
  <2>4. QED
    BY <2>1, <2>2, <2>3 DEF IInv
<1>5. QED
  BY <1>3, <1>4

LEMMA AllocatedHolds == IInv /\ Allocated => IInv'
<1> SUFFICES ASSUME IInv, Allocated PROVE IInv'
  OBVIOUS
<1> USE Constants
<1>1. /\ pc = "allocate" /\ current = 0 /\ request = SECTOR_SIZE
      /\ 0 \in blocks
  BY DEF Allocated, IInv, CallInv, HeapInv
<1>2. HeapInv'
  <2>1. CASE Heap!TakeSplit
    <3>1. blocks = {0}
      BY <1>1, <2>1, SMT DEF Heap!TakeSplit, Heap!TooLarge, IInv, HeapInv
    <3>2. /\ blocks' = {0, Rest}
          /\ size' = [b \in blocks' |-> IF b = Rest
                        THEN size[0] - SECTOR_SIZE - HeaderSize ELSE SECTOR_SIZE]
          /\ is_free' = [b \in blocks' |-> IF b = Rest THEN 1 ELSE 0]
          /\ next' = [b \in blocks' |-> IF b = Rest THEN next[0] ELSE Rest]
      BY <1>1, <2>1, <3>1 DEF Heap!TakeSplit, Heap!ReturnBlock, Rest
    <3>3. size[0] - SECTOR_SIZE - HeaderSize \in Nat
      BY <1>1, <2>1, SMT DEF Heap!TakeSplit, Heap!TooLarge, IInv, HeapInv
    <3>4. next[0] = NULL
      BY <3>1 DEF IInv, HeapInv
    <3>5. QED
      BY <3>2, <3>3, <3>4 DEF HeapInv
  <2>2. CASE Heap!TakeWhole
    <3>1. /\ size' = [size EXCEPT ![0] = SECTOR_SIZE]
          /\ is_free' = [is_free EXCEPT ![0] = 0]
          /\ UNCHANGED <<blocks, next>>
      BY <1>1, <2>2 DEF Heap!TakeWhole, Heap!ReturnBlock
    <3>2. QED
      BY <3>1 DEF IInv, HeapInv
  <2>3. QED
    BY <2>1, <2>2 DEF Allocated
<1>3. /\ walk' = "idle" /\ current' = NULL
      /\ DOMAIN granted' = (DOMAIN granted) \union {HeaderSize}
  BY <1>1 DEF Allocated, Heap!TakeSplit, Heap!TakeWhole, Heap!ReturnBlock
<1>4. is_free'[0] = 0
  BY <1>1 DEF Allocated, Heap!TakeSplit, Heap!TakeWhole, Heap!ReturnBlock,
              IInv, HeapInv, Rest
<1>5. disk_buffer' = HeaderSize /\ pc' = "read_superblock"
  BY <1>1 DEF Allocated
<1>6. DOMAIN granted = {}
  BY <1>1 DEF IInv, CallInv, Writing
<1>7. CallInv'
  BY <1>3, <1>4, <1>5, <1>6 DEF CallInv, Writing
<1>8. PlaceInv' /\ FreeCountExact'
  BY <1>1, <1>5 DEF Allocated, IInv, PlaceInv, FreeCountExact,
                    num_block_groups, Writing
<1>9. QED
  BY <1>2, <1>7, <1>8 DEF IInv

(* Every way out, whatever has become of the disk.                         *)
LEMMA ReleaseHolds ==
  ASSUME IInv, NEW status \in {0, -1}, Release(status),
         pc \in Writing \union {"read_superblock"}, DOMAIN medium' \subseteq Nat
  PROVE  IInv'
<1> USE Constants
<1>1. disk_buffer = HeaderSize /\ 0 \in blocks
  BY DEF IInv, CallInv, HeapInv
<1>2. /\ is_free' = [is_free EXCEPT ![0] = 1]
      /\ DOMAIN granted' = (DOMAIN granted) \ {HeaderSize}
      /\ walk' = "coalesce" /\ current' = 0
      /\ UNCHANGED <<blocks, size, next>>
  BY <1>1, SMT DEF Release, Heap!Free
<1>3. HeapInv'
  BY <1>2 DEF IInv, HeapInv
<1>4. CallInv'
  <2>1. DOMAIN granted = {HeaderSize} /\ is_free'[0] = 1
    BY <1>1, <1>2 DEF IInv, CallInv, HeapInv
  <2>2. QED
    BY <1>1, <1>2, <2>1 DEF Release, CallInv, Writing
<1>5. PlaceInv' /\ FreeCountExact'
  BY DEF Release, IInv, PlaceInv, FreeCountExact, num_block_groups, Writing
<1>6. QED
  BY <1>3, <1>4, <1>5 DEF IInv

LEMMA InitSuperblockHolds == IInv /\ InitSuperblock => IInv'
<1> SUFFICES ASSUME IInv, InitSuperblock PROVE IInv'
  OBVIOUS
<1> USE Constants
<1>1. disk_buffer = HeaderSize /\ group = group' /\ pc = "read_superblock"
  BY DEF IInv, CallInv, InitSuperblock
<1>2. ~Overrun(0)
  BY <1>1, SMT DEF Overrun
<1>3. HeapInv'
  BY <1>2 DEF InitSuperblock, IInv, HeapInv
<1>4. is_free'[0] = is_free[0]
  BY <1>2 DEF InitSuperblock, IInv, HeapInv
<1>5. CallInv'
  BY <1>1, <1>4 DEF InitSuperblock, IInv, CallInv, Writing
<1>6. num_block_groups' = num_block_groups /\ num_block_groups >= 1
  BY <1>1, SizesOf DEF InitSuperblock, num_block_groups, IInv, PlaceInv
<1>7. PlaceInv' /\ FreeCountExact'
  <2>1. group < num_block_groups /\ group = 0
    BY <1>1, <1>6, SMT DEF IInv, PlaceInv, Writing
  <2>2. QED
    BY <1>1, <1>6 DEF InitSuperblock, IInv, PlaceInv, FreeCountExact, Writing
<1>8. QED
  BY <1>3, <1>5, <1>7 DEF IInv

(* A sector written while the format goes on.                              *)
LEMMA WriteHolds ==
  ASSUME IInv,
         NEW transfer \in Writing, NEW contents, NEW then \in Writing,
         Write(transfer, contents, then),
         group' \in Nat, group' < num_block_groups, then # "write_superblock",
         then = "write_descriptor" => contents = Descriptor(group')
  PROVE  IInv'
<1>1. pc \in Writing /\ pc' \in Writing /\ pc' = then
  BY DEF Write
<1>2. num_block_groups' = num_block_groups
  BY DEF Write, num_block_groups
<1>3. HeapInv' /\ CallInv'
  BY <1>1 DEF Write, heap, IInv, HeapInv, CallInv, Writing
<1>4. lba \in Nat
  <2>1. group \in Nat
    BY DEF IInv, PlaceInv
  <2>2. QED
    BY <2>1, <1>1, LbaIsNat
<1>5. PlaceInv'
  BY <1>1, <1>2, <1>4 DEF Write, Put, IInv, PlaceInv, Writing
<1>6. FreeCountExact'
  <2>1. CASE then = "write_descriptor"
    <3>1. buffer' = Descriptor(group') /\ UNCHANGED total_sectors
      BY <2>1 DEF Write
    <3>2. Field(Descriptor(group'), bg_free_blocks_count_lo) + 4
            = BlocksInGroup(total_sectors, group')
      BY CountOf
    <3>3. QED
      BY <3>1, <3>2 DEF FreeCountExact
  <2>2. CASE then # "write_descriptor"
    BY <1>1, <2>2 DEF FreeCountExact
  <2>3. QED
    BY <2>1, <2>2
<1>7. QED
  BY <1>3, <1>5, <1>6 DEF IInv

LEMMA WritesHold ==
  IInv /\ (WriteSuperblock \/ WriteDescriptor \/ WriteBlockBitmap \/ WriteInodeBitmap)
    => IInv'
<1> SUFFICES ASSUME IInv PROVE
      WriteSuperblock \/ WriteDescriptor \/ WriteBlockBitmap \/ WriteInodeBitmap
        => IInv'
  OBVIOUS
<1>1. group \in Nat /\ (pc \in Writing => group < num_block_groups)
  BY DEF IInv, PlaceInv
<1>2. /\ "write_superblock" \in Writing /\ "write_descriptor" \in Writing
      /\ "write_block_bitmap" \in Writing /\ "write_inode_bitmap" \in Writing
  BY DEF Writing
<1>3. ASSUME WriteSuperblock PROVE IInv'
  <2>1. pc = "write_superblock" /\ group = 0 /\ group' = 0
    BY <1>3 DEF WriteSuperblock, Write, IInv, PlaceInv, Writing
  <2>2. group' \in Nat /\ group' < num_block_groups
    BY <1>1, <1>2, <2>1
  <2>3. Write("write_superblock", Descriptor(group'), "write_descriptor")
    BY <1>3, <2>1 DEF WriteSuperblock
  <2>4. QED
    BY <1>2, <2>2, <2>3, WriteHolds
<1>4. ASSUME WriteDescriptor PROVE IInv'
  <2>1. Write("write_descriptor", BlockBitmap, "write_block_bitmap")
    BY <1>4 DEF WriteDescriptor
  <2>2. group' \in Nat /\ group' < num_block_groups
    BY <1>1, <1>2, <1>4 DEF WriteDescriptor, Write
  <2>3. QED
    BY <1>2, <2>1, <2>2, WriteHolds
<1>5. ASSUME WriteBlockBitmap PROVE IInv'
  <2>1. Write("write_block_bitmap", Cleared, "write_inode_bitmap")
    BY <1>5 DEF WriteBlockBitmap
  <2>2. group' \in Nat /\ group' < num_block_groups
    BY <1>1, <1>2, <1>5 DEF WriteBlockBitmap, Write
  <2>3. QED
    BY <1>2, <2>1, <2>2, WriteHolds
<1>6. ASSUME WriteInodeBitmap PROVE IInv'
  <2>1. /\ group' = group + 1
        /\ Write("write_inode_bitmap", Descriptor(group'), "write_descriptor")
    BY <1>6 DEF WriteInodeBitmap
  <2>2. group' \in Nat /\ group' < num_block_groups
    BY <1>1, <1>6, <2>1 DEF WriteInodeBitmap
  <2>3. QED
    BY <1>2, <2>1, <2>2, WriteHolds
<1>7. QED
  BY <1>3, <1>4, <1>5, <1>6

LEMMA EndsHold ==
  IInv /\ (ReadSuperblockFails \/ WriteLastInodeBitmap \/ WriteFails) => IInv'
<1> SUFFICES ASSUME IInv,
                    ReadSuperblockFails \/ WriteLastInodeBitmap \/ WriteFails
             PROVE  IInv'
  OBVIOUS
<1>1. group \in Nat /\ DOMAIN medium \subseteq Nat
  BY DEF IInv, PlaceInv
<1>2. CASE ReadSuperblockFails
  <2>1. DOMAIN medium' \subseteq Nat /\ pc = "read_superblock" /\ Release(-1)
    BY <1>1, <1>2 DEF ReadSuperblockFails
  <2>2. QED
    BY <2>1, ReleaseHolds
<1>3. CASE WriteLastInodeBitmap \/ WriteFails
  <2>1. pc \in Writing /\ medium' \in {medium, Put(medium, lba, buffer)}
    BY <1>3 DEF WriteLastInodeBitmap, WriteFails, Writing
  <2>2. lba \in Nat
    BY <1>1, <2>1, LbaIsNat
  <2>3. DOMAIN medium' \subseteq Nat
    BY <1>1, <2>1, <2>2 DEF Put
  <2>4. Release(0) \/ Release(-1)
    BY <1>3 DEF WriteLastInodeBitmap, WriteFails
  <2>5. QED
    BY <2>1, <2>3, <2>4, ReleaseHolds
<1>4. QED
  BY <1>2, <1>3

LEMMA FreeHolds == IInv /\ (FreeNext \/ Freed) => IInv'
<1> SUFFICES ASSUME IInv, FreeNext \/ Freed PROVE IInv'
  OBVIOUS
<1> USE Constants
<1>1. /\ pc = "free" /\ disk_buffer = NULL /\ is_free[0] = 1
      /\ walk = "coalesce" /\ DOMAIN granted = {} /\ 0 \in blocks
  BY DEF FreeNext, Freed, IInv, CallInv, HeapInv, Writing
<1>2. PlaceInv' /\ FreeCountExact'
  BY <1>1 DEF FreeNext, Freed, IInv, PlaceInv, FreeCountExact, num_block_groups,
              Writing
<1>3. CASE FreeNext /\ Heap!MergeNext
  <2>1. blocks = {0, Rest} /\ current = 0 /\ next[0] = Rest
    BY <1>3 DEF Heap!MergeNext, Heap!HasNext, IInv, HeapInv, CallInv
  <2>2. blocks' = {0} /\ size' = [b \in {0} |-> size[0] + HeaderSize + size[Rest]]
    BY <1>3, <2>1 DEF Heap!MergeNext
  <2>3. is_free' = [b \in {0} |-> 1] /\ next' = [b \in {0} |-> NULL]
    BY <1>1, <1>3, <2>1, <2>2 DEF Heap!MergeNext, IInv, HeapInv
  <2>4. size[0] = SECTOR_SIZE /\ size[Rest] \in Nat
    BY <2>1 DEF IInv, HeapInv
  <2>5. HeapInv'
    BY <2>2, <2>3, <2>4 DEF HeapInv
  <2>6. current' = NULL /\ UNCHANGED <<walk, granted, pc, disk_buffer>>
    BY <1>3, <2>1, <2>3 DEF FreeNext, Heap!MergeNext
  <2>7. CallInv'
    BY <1>1, <2>3, <2>6 DEF CallInv, Writing
  <2>8. QED
    BY <1>2, <2>5, <2>7 DEF IInv
<1>4. CASE FreeNext /\ Heap!CoalesceNext
  <2>1. HeapInv'
    BY <1>4 DEF Heap!CoalesceNext, IInv, HeapInv
  <2>2. current' \in blocks \union {NULL}
    BY <1>4 DEF Heap!CoalesceNext, Heap!HasNext, IInv, HeapInv, CallInv
  <2>3. CallInv'
    BY <1>1, <1>4, <2>2 DEF FreeNext, Heap!CoalesceNext, CallInv, Writing
  <2>4. QED
    BY <1>2, <2>1, <2>3 DEF IInv
<1>5. CASE Freed
  <2>1. HeapInv'
    BY <1>5 DEF Freed, Heap!FreeReturns, IInv, HeapInv
  <2>2. CallInv'
    BY <1>1, <1>5 DEF Freed, Heap!FreeReturns, CallInv, Writing
  <2>3. QED
    BY <1>2, <2>1, <2>2 DEF IInv
<1>6. QED
  BY <1>3, <1>4, <1>5 DEF FreeNext

LEMMA AlwaysIInv == Spec => []IInv
<1>1. IInv /\ [Next]_vars => IInv'
  <2> SUFFICES ASSUME IInv, [Next]_vars PROVE IInv'
    OBVIOUS
  <2>1. CASE UNCHANGED vars
    BY <2>1 DEF vars, heap, IInv, HeapInv, CallInv, PlaceInv, FreeCountExact,
                num_block_groups
  <2>2. ASSUME NEW total \in PartitionSizes, TooSmall(total) \/ FormatExt4(total)
        PROVE  IInv'
    BY <2>2, CallHolds
  <2>3. CASE Run
    BY <2>3, AllocatedHolds, InitSuperblockHolds, WritesHold, EndsHold, FreeHolds
    DEF Run
  <2>4. QED
    BY <2>1, <2>2, <2>3 DEF Next
<1>2. QED
  BY InitHolds, <1>1, PTL DEF Spec

-----------------------------------------------------------------------------
(* However many formats have run and failed, the first block of the heap   *)
(* serves the next: allocate never returns NULL to format_ext4, although   *)
(* the format clears the header of the block behind its buffer.            *)
THEOREM FirstBlockAlwaysServes == Spec => []FirstBlockServes
<1>1. IInv => FirstBlockServes
  <2> SUFFICES ASSUME IInv PROVE FirstBlockServes
    OBVIOUS
  <2> USE Constants
  <2>1. ASSUME pc = "allocate"
        PROVE  current = 0 /\ Heap!Fits(current)
    <3>1. current = 0 /\ request = SECTOR_SIZE /\ is_free[0] = 1
      BY <2>1 DEF IInv, CallInv, Writing
    <3>2. size[0] >= SECTOR_SIZE
      BY DEF IInv, HeapInv
    <3>3. QED
      BY <3>1, <3>2 DEF Heap!Fits
  <2>2. disk_buffer \in {NULL, HeaderSize}
    BY DEF IInv, CallInv
  <2>3. QED
    BY <2>1, <2>2 DEF FirstBlockServes
<1>2. QED
  BY AlwaysIInv, <1>1, PTL

(* The buffer is held exactly while the format transfers, whichever way it *)
(* is left.                                                                *)
THEOREM BufferAlwaysHeld == Spec => []BufferHeld
<1>1. IInv => BufferHeld
  BY DEF IInv, CallInv, BufferHeld
<1>2. QED
  BY AlwaysIInv, <1>1, PTL

(* However many formats have run, there is a buffer for the next.          *)
THEOREM BufferAlwaysSound == Spec => []BufferSound
<1>1. FirstBlockServes /\ BufferHeld => BufferSound
  BY DEF BufferSound
<1>2. QED
  BY <1>1, FirstBlockAlwaysServes, BufferAlwaysHeld, PTL

(* No count of free blocks wraps around in its 16 bits.                    *)
THEOREM FreeCountAlwaysExact == Spec => []FreeCountExact
<1>1. IInv => FreeCountExact
  BY DEF IInv
<1>2. QED
  BY AlwaysIInv, <1>1, PTL

(* The state keeps its types, and no group beyond the last is written.     *)
THEOREM TypeCorrect == Spec => []TypeOK
<1>1. IInv => TypeOK
  <2> SUFFICES ASSUME IInv PROVE TypeOK
    OBVIOUS
  <2> USE Constants
  <2>1. /\ blocks \subseteq Nat /\ 0 \in blocks
        /\ next \in [blocks -> blocks \union {NULL}]
    BY DEF IInv, HeapInv
  <2>2. pc \in Writing => group \in 0 .. num_block_groups - 1
    BY SMT DEF IInv, PlaceInv
  <2>3. disk_buffer \in Nat \union {NULL}
    BY DEF IInv, CallInv
  <2>4. QED
    BY <2>1, <2>2, <2>3 DEF TypeOK, IInv, HeapInv, CallInv, PlaceInv
<1>2. QED
  BY AlwaysIInv, <1>1, PTL

-----------------------------------------------------------------------------
(***************************************************************************)
(* That format_ext4 follows the plan of module FormatPlan, for a partition *)
(* of any size: what DiskTool takes for the k-th sector of an ext4 format  *)
(* is, field by field, what the code has written there.                    *)
(*                                                                         *)
(* A sector stays what it was when it was written because no two of the    *)
(* plan are in the same place (PlacesDiffer): a descriptor lies behind the *)
(* superblock, the bitmaps a group apart, and up to the largest partition  *)
(* the 32-bit product of a group's first block and 4096 does not reach the *)
(* same sector twice.                                                      *)
(***************************************************************************)

Plan(k) == PlanSector("ext4", total_sectors, k)

(* While it writes, the format is at the sector of its plan that follows   *)
(* those written, and has it in the buffer.                                *)
NextInPlan ==
  lba = Plan(Written + 1).lba /\ Is(buffer, Plan(Written + 1).what)

BufferInv ==
  /\ pc = "write_superblock" => buffer = Superblock(total_sectors)
  /\ pc = "write_descriptor" => buffer = Descriptor(group)
  /\ pc = "write_block_bitmap" => buffer = BlockBitmap
  /\ pc = "write_inode_bitmap" => buffer = Cleared

PlanInv == BufferInv /\ FollowsPlan

-----------------------------------------------------------------------------
(* The plan.                                                               *)

LEMMA FieldsOf ==
  ASSUME NEW a, NEW w, NEW sector, sector = [lba |-> a, what |-> w]
  PROVE  sector.lba = a /\ sector.what = w
OBVIOUS

LEMMA PlanOf ==
  ASSUME NEW n, NEW g, NEW k, k > 1, k # 1, (k - 2) \div 3 = g
  PROVE  /\ (k - 2) % 3 = 0 =>
              Ext4Sector(k, n)
                = [lba |-> SuperblockLba + 1 + g,
                   what |-> <<"descriptor", g, BlocksInGroup(n, g) - 4>>]
         /\ (k - 2) % 3 = 1 =>
              Ext4Sector(k, n)
                = [lba |-> BitmapLba(g), what |-> <<"block bitmap", 0, 0>>]
         /\ (k - 2) % 3 = 2 =>
              Ext4Sector(k, n)
                = [lba |-> BitmapLba(g) + 1, what |-> <<"inode bitmap", 0, 0>>]
<1>1. 0 # 1 /\ 0 # 2 /\ 1 # 0 /\ 1 # 2 /\ 2 # 0 /\ 2 # 1
  BY SMT
<1>2. CASE (k - 2) % 3 = 0
  <2>1. (k - 2) % 3 # 1 /\ (k - 2) % 3 # 2
    BY <1>1, <1>2
  <2> QED
    BY <1>2, <2>1, Zenon DEF Ext4Sector
<1>3. CASE (k - 2) % 3 = 1
  <2>1. (k - 2) % 3 # 0 /\ (k - 2) % 3 # 2
    BY <1>1, <1>3
  <2> QED
    BY <1>3, <2>1, Zenon DEF Ext4Sector
<1>4. CASE (k - 2) % 3 = 2
  <2>1. (k - 2) % 3 # 0 /\ (k - 2) % 3 # 1
    BY <1>1, <1>4
  <2> QED
    BY <1>4, <2>1, Zenon DEF Ext4Sector
<1> QED
  BY <1>2, <1>3, <1>4

LEMMA PlanFields ==
  ASSUME NEW n, NEW g \in Nat
  PROVE  /\ Ext4Sector(1, n).lba = SuperblockLba
         /\ Ext4Sector(1, n).what = <<"superblock", n, 0>>
         /\ Ext4Sector(2 + 3 * g, n).lba = SuperblockLba + 1 + g
         /\ Ext4Sector(2 + 3 * g, n).what
              = <<"descriptor", g, BlocksInGroup(n, g) - 4>>
         /\ Ext4Sector(3 + 3 * g, n).lba = BitmapLba(g)
         /\ Ext4Sector(3 + 3 * g, n).what = <<"block bitmap", 0, 0>>
         /\ Ext4Sector(4 + 3 * g, n).lba = BitmapLba(g) + 1
         /\ Ext4Sector(4 + 3 * g, n).what = <<"inode bitmap", 0, 0>>
<1>1. ~(1 > 1)
  BY SMT
<1>2. Ext4Sector(1, n) = [lba |-> SuperblockLba, what |-> <<"superblock", n, 0>>]
  BY <1>1, Zenon DEF Ext4Sector
<1>3. /\ Ext4Sector(1, n).lba = SuperblockLba
      /\ Ext4Sector(1, n).what = <<"superblock", n, 0>>
  BY <1>2, FieldsOf, Zenon
<1>4. /\ Ext4Sector(2 + 3 * g, n).lba = SuperblockLba + 1 + g
      /\ Ext4Sector(2 + 3 * g, n).what = <<"descriptor", g, BlocksInGroup(n, g) - 4>>
  <2> DEFINE k == 2 + 3 * g
  <2>1. k > 1 /\ k # 1 /\ (k - 2) \div 3 = g /\ (k - 2) % 3 = 0
    BY SMT
  <2> HIDE DEF k
  <2> DEFINE a == SuperblockLba + 1 + g
             w == <<"descriptor", g, BlocksInGroup(n, g) - 4>>
  <2>2. Ext4Sector(k, n) = [lba |-> a, what |-> w]
    BY <2>1, PlanOf, Zenon
  <2> HIDE DEF a, w
  <2>3. Ext4Sector(k, n).lba = a /\ Ext4Sector(k, n).what = w
    BY <2>2, FieldsOf, Zenon
  <2> QED
    BY <2>3 DEF k, a, w
<1>5. /\ Ext4Sector(3 + 3 * g, n).lba = BitmapLba(g)
      /\ Ext4Sector(3 + 3 * g, n).what = <<"block bitmap", 0, 0>>
  <2> DEFINE k == 3 + 3 * g
  <2>1. k > 1 /\ k # 1 /\ (k - 2) \div 3 = g /\ (k - 2) % 3 = 1
    BY SMT
  <2> HIDE DEF k
  <2>2. Ext4Sector(k, n) = [lba |-> BitmapLba(g), what |-> <<"block bitmap", 0, 0>>]
    BY <2>1, PlanOf, Zenon
  <2>3. Ext4Sector(k, n).lba = BitmapLba(g) /\ Ext4Sector(k, n).what = <<"block bitmap", 0, 0>>
    BY <2>2, FieldsOf, Zenon
  <2> QED
    BY <2>3 DEF k
<1>6. /\ Ext4Sector(4 + 3 * g, n).lba = BitmapLba(g) + 1
      /\ Ext4Sector(4 + 3 * g, n).what = <<"inode bitmap", 0, 0>>
  <2> DEFINE k == 4 + 3 * g
  <2>1. k > 1 /\ k # 1 /\ (k - 2) \div 3 = g /\ (k - 2) % 3 = 2
    BY SMT
  <2> HIDE DEF k
  <2>2. Ext4Sector(k, n) = [lba |-> BitmapLba(g) + 1, what |-> <<"inode bitmap", 0, 0>>]
    BY <2>1, PlanOf, Zenon
  <2>3. Ext4Sector(k, n).lba = BitmapLba(g) + 1 /\ Ext4Sector(k, n).what = <<"inode bitmap", 0, 0>>
    BY <2>2, FieldsOf, Zenon
  <2> QED
    BY <2>3 DEF k
<1> QED
  BY <1>3, <1>4, <1>5, <1>6, Zenon

(* Every sector of the plan is one of these.                               *)
LEMMA PlanIndex ==
  ASSUME NEW m \in Nat, NEW k \in 1 .. 1 + 3 * m, k # 1
  PROVE  \E g \in 0 .. m - 1 : k \in {2 + 3 * g, 3 + 3 * g, 4 + 3 * g}
<1> DEFINE g == (k - 2) \div 3
<1>1. g \in 0 .. m - 1 /\ (k = 2 + 3 * g \/ k = 3 + 3 * g \/ k = 4 + 3 * g)
  BY SMT
<1> HIDE DEF g
<1> QED
  BY <1>1

LEMMA GroupsAtMost ==
  ASSUME NEW total \in Nat, total <= MAX_SECTORS
  PROVE  Groups(total) \in 0 .. 32
<1> DEFINE b == total \div 8
<1>1. total \in Nat /\ total <= 8386560
  BY SMT DEF MAX_SECTORS
<1>2. b \in Nat /\ b <= 1048320
  BY <1>1, SMT
<1>3. Groups(total) = (b + 32767) \div 32768
  BY DEF Groups, Blocks
<1> HIDE DEF b
<1> QED
  BY <1>2, <1>3, SMT

(* No two sectors of the plan are in one place.                            *)
LEMMA PlacesDiffer ==
  ASSUME NEW total \in Nat, total <= MAX_SECTORS,
         NEW k \in 1 .. 1 + 3 * Groups(total), NEW l \in 1 .. 1 + 3 * Groups(total),
         Ext4Sector(k, total).lba = Ext4Sector(l, total).lba
  PROVE  k = l
<1> DEFINE m == Groups(total)
<1>1. m \in 0 .. 32
  BY GroupsAtMost
<1> DEFINE Place(j, a) ==
             \/ j = 1 /\ a = START_LBA + 2
             \/ \E g \in 0 .. 31 :
                  \/ j = 2 + 3 * g /\ a = START_LBA + 3 + g
                  \/ j = 3 + 3 * g /\ a = START_LBA + g * GROUP_SECTORS
                  \/ j = 4 + 3 * g /\ a = START_LBA + g * GROUP_SECTORS + 1
<1>2. START_LBA \in Nat /\ SuperblockLba = START_LBA + 2
  BY SMT DEF START_LBA, SuperblockLba
<1>3. ASSUME NEW g \in 0 .. 31
      PROVE  BitmapLba(g) = START_LBA + g * GROUP_SECTORS
  <2>1. (g * 32768) % 1048576 = g * 32768
    BY SMT
  <2> QED
    BY <1>2, <2>1, SMT DEF BitmapLba, GROUP_SECTORS
<1>4. ASSUME NEW j \in 1 .. 1 + 3 * m
      PROVE  Place(j, Ext4Sector(j, total).lba)
  <2>1. CASE j = 1
    <3>1. Ext4Sector(1, total).lba = SuperblockLba
      <4>1. 0 \in Nat
        OBVIOUS
      <4> QED
        BY <4>1, PlanFields, Zenon
    <3> QED
      BY <1>2, <2>1, <3>1
  <2>2. CASE j # 1
    <3>1. PICK g \in 0 .. m - 1 : j \in {2 + 3 * g, 3 + 3 * g, 4 + 3 * g}
      <4>1. m \in Nat
        BY <1>1
      <4> HIDE DEF m
      <4> QED
        BY <1>4, <2>2, <4>1, PlanIndex, Zenon
    <3>2. g \in Nat /\ g \in 0 .. 31
      BY <1>1, <3>1
    <3>3. /\ Ext4Sector(2 + 3 * g, total).lba = SuperblockLba + 1 + g
          /\ Ext4Sector(3 + 3 * g, total).lba = BitmapLba(g)
          /\ Ext4Sector(4 + 3 * g, total).lba = BitmapLba(g) + 1
      BY <3>2, PlanFields, Zenon
    <3>4. SuperblockLba + 1 + g = START_LBA + 3 + g
          /\ BitmapLba(g) = START_LBA + g * GROUP_SECTORS
      BY <1>2, <1>3, <3>2
    <3> QED
      BY <3>1, <3>2, <3>3, <3>4
  <2> QED
    BY <2>1, <2>2
<1>5. \A a : Place(k, a) /\ Place(l, a) => k = l
  BY <1>2, SMT DEF GROUP_SECTORS
<1> HIDE DEF Place
<1> QED
  BY <1>4, <1>5

-----------------------------------------------------------------------------
(* The contents.                                                           *)

LEMMA IsSuperblock ==
  ASSUME NEW n
  PROVE  Is(Superblock(n), <<"superblock", n, 0>>)
<1> DEFINE what == <<"superblock", n, 0>>
<1>1. what[1] = "superblock" /\ what[2] = n
  BY SMT
<1>2. /\ Field(Superblock(n), s_magic) = EXT4_MAGIC
      /\ Field(Superblock(n), s_blocks_count_lo) = Blocks(n)
  BY DEF Superblock, Field, s_inodes_count, s_blocks_count_lo,
         s_r_blocks_count_lo, s_free_blocks_count_lo, s_free_inodes_count,
         s_log_block_size, s_blocks_per_group, s_inodes_per_group, s_magic,
         s_state, s_errors, s_rev_level, s_first_ino, s_inode_size,
         s_feature_compat, s_feature_incompat, s_volume_name
<1> HIDE DEF what
<1>3. what[1] # "descriptor" /\ what[1] # "block bitmap"
      /\ what[1] # "inode bitmap"
  BY <1>1
<1>4. Is(Superblock(n), what)
  BY <1>1, <1>2, <1>3, Zenon DEF Is
<1> QED
  BY <1>4 DEF what

LEMMA IsDescriptor ==
  ASSUME IInv, NEW g \in Nat, g < num_block_groups
  PROVE  Is(Descriptor(g),
            <<"descriptor", g, BlocksInGroup(total_sectors, g) - 4>>)
<1> DEFINE c == BlocksInGroup(total_sectors, g) - 4
           what == <<"descriptor", g, c>>
<1>1. what[1] = "descriptor" /\ what[2] = g /\ what[3] = c
  BY SMT
<1>2. Field(Descriptor(g), bg_block_bitmap_lo) = g * BlocksPerGroup
      /\ Field(Descriptor(g), s_magic) = 0
  BY DEF Descriptor, BlockFields, Put, Field, GroupFirstBlock, s_magic,
         bg_free_blocks_count_lo, bg_block_bitmap_lo, bg_inode_bitmap_lo,
         bg_inode_table_lo, bg_free_inodes_count_lo
<1>3. Field(Descriptor(g), bg_free_blocks_count_lo) = c
  <2>1. BlocksInGroup(total_sectors, g) \in GroupSizes
    BY SizesOf
  <2>2. Field(Descriptor(g), bg_free_blocks_count_lo) = c % 65536
    BY DescriptorCount
  <2>3. c \in Nat /\ c < 65536
    <3>1. \A x \in GroupSizes : x - 4 \in Nat /\ x - 4 < 65536
      BY SMT DEF GroupSizes
    <3> QED
      BY <2>1, <3>1
  <2> HIDE DEF c
  <2> QED
    BY <2>2, <2>3, Unwrapped
<1> HIDE DEF what, c
<1>4. what[1] # "superblock" /\ what[1] # "block bitmap"
      /\ what[1] # "inode bitmap"
  BY <1>1
<1>5. Is(Descriptor(g), what)
  BY <1>1, <1>2, <1>3, <1>4, Zenon DEF Is
<1> QED
  BY <1>5 DEF what, c

LEMMA AreBitmaps ==
  Is(BlockBitmap, <<"block bitmap", 0, 0>>) /\ Is(Cleared, <<"inode bitmap", 0, 0>>)
<1>1. ASSUME NEW what, what[1] = "block bitmap"
      PROVE  Is(BlockBitmap, what)
  <2>1. what[1] # "superblock" /\ what[1] # "descriptor"
        /\ what[1] # "inode bitmap"
    BY <1>1
  <2> QED
    BY <1>1, <2>1, Zenon DEF Is
<1>2. ASSUME NEW what, what[1] = "inode bitmap"
      PROVE  Is(Cleared, what)
  <2>1. what[1] # "superblock" /\ what[1] # "descriptor"
        /\ what[1] # "block bitmap"
    BY <1>2
  <2> QED
    BY <1>2, <2>1, Zenon DEF Is
<1>3. /\ <<"block bitmap", 0, 0>>[1] = "block bitmap"
      /\ <<"inode bitmap", 0, 0>>[1] = "inode bitmap"
  BY SMT
<1> QED
  BY <1>1, <1>2, <1>3, Zenon

-----------------------------------------------------------------------------
(* Where the format is in its plan.                                        *)

(* A partition that is being formatted is in the range of the lemmas.      *)
LEMMA SizeInRange ==
  ASSUME IInv
  PROVE  total_sectors \in Nat /\ total_sectors <= MAX_SECTORS
<1>1. CASE total_sectors = 0
  BY <1>1, MaxSectorsIsNat
<1>2. CASE total_sectors \in PartitionSizes
  BY <1>2, MaxSectorsIsNat, FormatAssumption
<1> QED
  BY <1>1, <1>2 DEF IInv, PlaceInv

LEMMA Position ==
  ASSUME pc \in Writing, group \in Nat
  PROVE  /\ pc = "write_superblock" => Written = 0 /\ lba = SuperblockLba
         /\ pc = "write_descriptor" =>
              Written = 1 + 3 * group /\ lba = SuperblockLba + 1 + group
         /\ pc = "write_block_bitmap" =>
              Written = 2 + 3 * group /\ lba = BitmapLba(group)
         /\ pc = "write_inode_bitmap" =>
              Written = 3 + 3 * group /\ lba = BitmapLba(group) + 1
<1>1. CASE pc = "write_superblock"
  <2>1. /\ pc # "write_descriptor" /\ pc # "write_block_bitmap"
        /\ pc # "write_inode_bitmap" /\ pc \notin {"free", "idle"}
    BY <1>1
  <2> QED
    BY <1>1, <2>1, Zenon DEF Written, lba
<1>2. CASE pc = "write_descriptor"
  <2>1. /\ pc # "write_superblock" /\ pc # "write_block_bitmap"
        /\ pc # "write_inode_bitmap" /\ pc \notin {"free", "idle"}
    BY <1>2
  <2> QED
    BY <1>2, <2>1, Zenon DEF Written, lba
<1>3. CASE pc = "write_block_bitmap"
  <2>1. /\ pc # "write_superblock" /\ pc # "write_descriptor"
        /\ pc # "write_inode_bitmap" /\ pc \notin {"free", "idle"}
    BY <1>3
  <2> QED
    BY <1>3, <2>1, Zenon DEF Written, lba, bitmap_sector
<1>4. CASE pc = "write_inode_bitmap"
  <2>1. /\ pc # "write_superblock" /\ pc # "write_descriptor"
        /\ pc # "write_block_bitmap" /\ pc \notin {"free", "idle"}
    BY <1>4
  <2> QED
    BY <1>4, <2>1, Zenon DEF Written, lba, bitmap_sector
<1>5. \/ pc = "write_superblock" \/ pc = "write_descriptor"
      \/ pc = "write_block_bitmap" \/ pc = "write_inode_bitmap"
  BY DEF Writing
<1>6. /\ "write_superblock" # "write_descriptor"
      /\ "write_superblock" # "write_block_bitmap"
      /\ "write_superblock" # "write_inode_bitmap"
      /\ "write_descriptor" # "write_block_bitmap"
      /\ "write_descriptor" # "write_inode_bitmap"
      /\ "write_block_bitmap" # "write_inode_bitmap"
  OBVIOUS
<1> QED
  BY <1>1, <1>2, <1>3, <1>4, <1>5, <1>6, Zenon

LEMMA WritesNextInPlan ==
  ASSUME IInv, BufferInv, pc \in Writing
  PROVE  /\ NextInPlan
         /\ Written \in Nat /\ Written + 1 \in 1 .. 1 + 3 * num_block_groups
<1>1. group \in Nat /\ num_block_groups \in Nat /\ group < num_block_groups
  BY DEF IInv, PlaceInv
<1>2. \A k : Plan(k) = Ext4Sector(k, total_sectors)
  BY DEF Plan, PlanSector
<1> DEFINE n == total_sectors
<1>3. /\ Ext4Sector(1, n).lba = SuperblockLba
      /\ Ext4Sector(1, n).what = <<"superblock", n, 0>>
      /\ Ext4Sector(2 + 3 * group, n).lba = SuperblockLba + 1 + group
      /\ Ext4Sector(2 + 3 * group, n).what
           = <<"descriptor", group, BlocksInGroup(n, group) - 4>>
      /\ Ext4Sector(3 + 3 * group, n).lba = BitmapLba(group)
      /\ Ext4Sector(3 + 3 * group, n).what = <<"block bitmap", 0, 0>>
      /\ Ext4Sector(4 + 3 * group, n).lba = BitmapLba(group) + 1
      /\ Ext4Sector(4 + 3 * group, n).what = <<"inode bitmap", 0, 0>>
  BY <1>1, PlanFields, Zenon
<1>4. CASE pc = "write_superblock"
  <2>1. Written + 1 = 1 /\ Written \in Nat /\ lba = SuperblockLba
    BY <1>1, <1>4, Position
  <2>2. Is(buffer, <<"superblock", n, 0>>)
    BY <1>4, IsSuperblock, Zenon DEF BufferInv
  <2>3. NextInPlan
    BY <1>2, <1>3, <2>1, <2>2, Zenon DEF NextInPlan
  <2>4. Written + 1 \in 1 .. 1 + 3 * num_block_groups
    BY <1>1, <2>1
  <2> QED
    BY <2>1, <2>3, <2>4
<1>5. CASE pc = "write_descriptor"
  <2>1. Written + 1 = 2 + 3 * group /\ Written \in Nat
        /\ lba = SuperblockLba + 1 + group
    BY <1>1, <1>5, Position
  <2>2. Is(buffer, <<"descriptor", group, BlocksInGroup(n, group) - 4>>)
    BY <1>1, <1>5, IsDescriptor, Zenon DEF BufferInv
  <2>3. NextInPlan
    BY <1>2, <1>3, <2>1, <2>2, Zenon DEF NextInPlan
  <2>4. Written + 1 \in 1 .. 1 + 3 * num_block_groups
    BY <1>1, <2>1
  <2> QED
    BY <2>1, <2>3, <2>4
<1>6. CASE pc = "write_block_bitmap"
  <2>1. Written + 1 = 3 + 3 * group /\ Written \in Nat
        /\ lba = BitmapLba(group)
    BY <1>1, <1>6, Position
  <2>2. Is(buffer, <<"block bitmap", 0, 0>>)
    BY <1>6, AreBitmaps, Zenon DEF BufferInv
  <2>3. NextInPlan
    BY <1>2, <1>3, <2>1, <2>2, Zenon DEF NextInPlan
  <2>4. Written + 1 \in 1 .. 1 + 3 * num_block_groups
    BY <1>1, <2>1
  <2> QED
    BY <2>1, <2>3, <2>4
<1>7. CASE pc = "write_inode_bitmap"
  <2>1. Written + 1 = 4 + 3 * group /\ Written \in Nat
        /\ lba = BitmapLba(group) + 1
    BY <1>1, <1>7, Position
  <2>2. Is(buffer, <<"inode bitmap", 0, 0>>)
    BY <1>7, AreBitmaps, Zenon DEF BufferInv
  <2>3. NextInPlan
    BY <1>2, <1>3, <2>1, <2>2, Zenon DEF NextInPlan
  <2>4. Written + 1 \in 1 .. 1 + 3 * num_block_groups
    BY <1>1, <2>1
  <2> QED
    BY <2>1, <2>3, <2>4
<1> QED
  BY <1>4, <1>5, <1>6, <1>7 DEF Writing

-----------------------------------------------------------------------------
(* The format goes on.                                                     *)

LEMMA WrittenNext ==
  /\ pc' = "write_descriptor" => Written' = 1 + 3 * group'
  /\ pc' = "write_block_bitmap" => Written' = 2 + 3 * group'
  /\ pc' = "write_inode_bitmap" => Written' = 3 + 3 * group'
  /\ pc' \in {"free", "idle"} /\ result' = 0 /\ total_sectors' > 0 =>
       Written' = PlanLength("ext4", total_sectors')
<1>1. ASSUME pc' = "write_descriptor"
      PROVE  Written' = 1 + 3 * group'
  <2>1. /\ pc' # "write_block_bitmap" /\ pc' # "write_inode_bitmap"
        /\ pc' \notin {"free", "idle"}
    BY <1>1
  <2> QED
    BY <1>1, <2>1, Zenon DEF Written
<1>2. ASSUME pc' = "write_block_bitmap"
      PROVE  Written' = 2 + 3 * group'
  <2>1. /\ pc' # "write_descriptor" /\ pc' # "write_inode_bitmap"
        /\ pc' \notin {"free", "idle"}
    BY <1>2
  <2> QED
    BY <1>2, <2>1, Zenon DEF Written
<1>3. ASSUME pc' = "write_inode_bitmap"
      PROVE  Written' = 3 + 3 * group'
  <2>1. /\ pc' # "write_descriptor" /\ pc' # "write_block_bitmap"
        /\ pc' \notin {"free", "idle"}
    BY <1>3
  <2> QED
    BY <1>3, <2>1, Zenon DEF Written
<1>4. ASSUME pc' \in {"free", "idle"}, result' = 0, total_sectors' > 0
      PROVE  Written' = PlanLength("ext4", total_sectors')
  <2>1. /\ pc' # "write_descriptor" /\ pc' # "write_block_bitmap"
        /\ pc' # "write_inode_bitmap"
    BY <1>4
  <2> QED
    BY <1>4, <2>1, Zenon DEF Written
<1> QED
  BY <1>1, <1>2, <1>3, <1>4, Zenon

(* With nothing of the plan written there is nothing to show.              *)
LEMMA NothingWritten ==
  ASSUME pc' \notin Writing \ {"write_superblock"},
         pc' \in {"free", "idle"} => result' = -1 \/ total_sectors' = 0
  PROVE  FollowsPlan'
<1>1. /\ pc' # "write_descriptor" /\ pc' # "write_block_bitmap"
      /\ pc' # "write_inode_bitmap"
  BY DEF Writing
<1>2. ~(pc' \in {"free", "idle"} /\ result' = 0 /\ total_sectors' > 0)
  BY SMT
<1>3. Written' = 0
  BY <1>1, <1>2, Zenon DEF Written
<1>4. 1 .. Written' = {}
  BY <1>3
<1> QED
  BY <1>4 DEF FollowsPlan

LEMMA OneMoreWritten ==
  ASSUME IInv, PlanInv, pc \in Writing, medium' = Put(medium, lba, buffer),
         total_sectors' = total_sectors, Written' = Written + 1
  PROVE  FollowsPlan'
<1>1. /\ lba = Plan(Written + 1).lba /\ Is(buffer, Plan(Written + 1).what)
      /\ Written \in Nat /\ Written + 1 \in 1 .. 1 + 3 * num_block_groups
  BY WritesNextInPlan DEF PlanInv, NextInPlan
<1>2. total_sectors \in Nat /\ total_sectors <= MAX_SECTORS
  BY SizeInRange
<1>3. num_block_groups \in Nat
  BY DEF IInv, PlaceInv
<1>4. \A a \in (DOMAIN medium) \union {lba} :
        medium'[a] = IF a = lba THEN buffer ELSE medium[a]
  BY DEF Put
<1>5. DOMAIN medium' = (DOMAIN medium) \union {lba}
  BY DEF Put
<1>6. ASSUME NEW k \in 1 .. Written + 1
      PROVE  Plan(k).lba \in DOMAIN medium' /\ Is(medium'[Plan(k).lba], Plan(k).what)
  <2>1. CASE k = Written + 1
    <3>1. Plan(k).lba = lba /\ Is(buffer, Plan(k).what)
      BY <1>1, <2>1, Zenon
    <3>2. medium'[lba] = buffer /\ lba \in DOMAIN medium'
      BY <1>4, <1>5
    <3> QED
      BY <3>1, <3>2, Zenon
  <2>2. CASE k # Written + 1
    <3>1. k \in 1 .. Written /\ k \in 1 .. 1 + 3 * num_block_groups
      BY <1>1, <1>3, <2>2
    <3>2. Plan(k).lba \in DOMAIN medium /\ Is(medium[Plan(k).lba], Plan(k).what)
      BY <3>1 DEF PlanInv, FollowsPlan, Plan
    <3>3. Plan(k).lba # lba
      <4>1. ASSUME Plan(k).lba = Plan(Written + 1).lba
            PROVE  k = Written + 1
        <5>1. \A j : Plan(j) = Ext4Sector(j, total_sectors)
          BY DEF Plan, PlanSector
        <5>2. Ext4Sector(k, total_sectors).lba
                = Ext4Sector(Written + 1, total_sectors).lba
          BY <4>1, <5>1, Zenon
        <5> QED
          BY <1>1, <1>2, <3>1, <5>2, PlacesDiffer, Zenon DEF num_block_groups
      <4> QED
        BY <1>1, <2>2, <4>1, Zenon
    <3>4. medium'[Plan(k).lba] = medium[Plan(k).lba]
      BY <1>4, <3>2, <3>3
    <3> QED
      BY <1>5, <3>2, <3>4, Zenon
  <2> QED
    BY <2>1, <2>2
<1>7. \A k \in 1 .. Written' :
        /\ PlanSector("ext4", total_sectors', k).lba \in DOMAIN medium'
        /\ Is(medium'[PlanSector("ext4", total_sectors', k).lba],
              PlanSector("ext4", total_sectors', k).what)
  BY <1>6, Zenon DEF Plan
<1> QED
  BY <1>7, Zenon DEF FollowsPlan

-----------------------------------------------------------------------------
(* The invariant.                                                          *)

LEMMA BeforeWritingKeeps ==
  ASSUME IInv, PlanInv,
         \/ \E total \in PartitionSizes : TooSmall(total) \/ FormatExt4(total)
         \/ Allocated \/ ReadSuperblockFails \/ InitSuperblock \/ WriteFails
  PROVE  PlanInv'
<1>1. CASE InitSuperblock
  <2>1. pc' = "write_superblock" /\ buffer' = Superblock(total_sectors')
    BY <1>1 DEF InitSuperblock
  <2>2. FollowsPlan'
    BY <2>1, NothingWritten DEF Writing
  <2> QED
    BY <2>1, <2>2 DEF PlanInv, BufferInv
<1>2. CASE \/ \E total \in PartitionSizes : TooSmall(total) \/ FormatExt4(total)
           \/ Allocated \/ ReadSuperblockFails \/ WriteFails
  <2>1. /\ pc' \in {"idle", "allocate", "read_superblock", "free"}
        /\ pc' \in {"free", "idle"} => result' = -1
    BY <1>2 DEF TooSmall, FormatExt4, Allocated, ReadSuperblockFails,
                WriteFails, Release
  <2>2. FollowsPlan'
    BY <2>1, NothingWritten DEF Writing
  <2>3. BufferInv'
    BY <2>1 DEF BufferInv
  <2> QED
    BY <2>2, <2>3 DEF PlanInv
<1> QED
  BY <1>1, <1>2

(* The descriptor of a group of a partition of total sectors.              *)
FieldsFor(total, g) ==
  [field \in {bg_block_bitmap_lo, bg_inode_bitmap_lo, bg_inode_table_lo,
              bg_free_blocks_count_lo} |->
     CASE field = bg_block_bitmap_lo      -> GroupFirstBlock(g)
       [] field = bg_inode_bitmap_lo      -> GroupFirstBlock(g) + 1
       [] field = bg_inode_table_lo       -> GroupFirstBlock(g) + 2
       [] field = bg_free_blocks_count_lo ->
            (BlocksInGroup(total, g) - 4) % 65536]

DescriptorFor(total, g) ==
  Put(FieldsFor(total, g), bg_free_inodes_count_lo,
      Field(FieldsFor(total, g), s_inodes_per_group))

(* The descriptor the invariant speaks of depends on the partition's size  *)
(* and on the group only.                                                  *)
LEMMA DescriptorOf ==
  ASSUME NEW g
  PROVE  Descriptor(g) = DescriptorFor(total_sectors, g)
BY DEF Descriptor, BlockFields, DescriptorFor, FieldsFor

LEMMA DescriptorNext ==
  Descriptor(group)' = DescriptorFor(total_sectors', group')
BY DEF Descriptor, BlockFields, DescriptorFor, FieldsFor

(* Each of the writes keeps the plan.                                      *)
LEMMA WritingKeeps ==
  ASSUME IInv, PlanInv,
         \/ WriteSuperblock \/ WriteDescriptor \/ WriteBlockBitmap
         \/ WriteInodeBitmap \/ WriteLastInodeBitmap
  PROVE  PlanInv'
<1>1. group \in Nat /\ (pc \notin Writing \ {"write_superblock"} => group = 0)
      /\ num_block_groups \in Nat
  BY DEF IInv, PlaceInv
<1>2. CASE WriteSuperblock
  <2>1. /\ pc = "write_superblock" /\ pc' = "write_descriptor" /\ group' = 0
        /\ buffer' = Descriptor(0) /\ total_sectors' = total_sectors
        /\ medium' = Put(medium, lba, buffer) /\ pc \in Writing
    BY <1>2 DEF WriteSuperblock, Write, Writing
  <2>2. Written = 0 /\ Written' = 1 + 3 * group'
    BY <1>1, <2>1, Position, WrittenNext
  <2>3. FollowsPlan'
    BY <2>1, <2>2, OneMoreWritten
  <2>4. buffer' = Descriptor(group)'
    BY <2>1, DescriptorOf, DescriptorNext
  <2> QED
    BY <2>1, <2>3, <2>4 DEF PlanInv, BufferInv
<1>3. CASE WriteDescriptor
  <2>1. /\ pc = "write_descriptor" /\ pc' = "write_block_bitmap"
        /\ group' = group /\ buffer' = BlockBitmap
        /\ total_sectors' = total_sectors
        /\ medium' = Put(medium, lba, buffer) /\ pc \in Writing
    BY <1>3 DEF WriteDescriptor, Write, Writing
  <2>2. Written = 1 + 3 * group /\ Written' = 2 + 3 * group'
    BY <1>1, <2>1, Position, WrittenNext
  <2>3. FollowsPlan'
    BY <1>1, <2>1, <2>2, OneMoreWritten
  <2> QED
    BY <2>1, <2>3 DEF PlanInv, BufferInv
<1>4. CASE WriteBlockBitmap
  <2>1. /\ pc = "write_block_bitmap" /\ pc' = "write_inode_bitmap"
        /\ group' = group /\ buffer' = Cleared
        /\ total_sectors' = total_sectors
        /\ medium' = Put(medium, lba, buffer) /\ pc \in Writing
    BY <1>4 DEF WriteBlockBitmap, Write, Writing
  <2>2. Written = 2 + 3 * group /\ Written' = 3 + 3 * group'
    BY <1>1, <2>1, Position, WrittenNext
  <2>3. FollowsPlan'
    BY <1>1, <2>1, <2>2, OneMoreWritten
  <2> QED
    BY <2>1, <2>3 DEF PlanInv, BufferInv
<1>5. CASE WriteInodeBitmap
  <2>1. /\ pc = "write_inode_bitmap" /\ pc' = "write_descriptor"
        /\ group' = group + 1 /\ buffer' = Descriptor(group + 1)
        /\ total_sectors' = total_sectors
        /\ medium' = Put(medium, lba, buffer) /\ pc \in Writing
    BY <1>5 DEF WriteInodeBitmap, Write, Writing
  <2>2. Written = 3 + 3 * group /\ Written' = 1 + 3 * group'
    BY <1>1, <2>1, Position, WrittenNext
  <2>3. FollowsPlan'
    BY <1>1, <2>1, <2>2, OneMoreWritten
  <2>4. buffer' = Descriptor(group)'
    BY <2>1, DescriptorOf, DescriptorNext
  <2> QED
    BY <2>1, <2>3, <2>4 DEF PlanInv, BufferInv
<1>6. CASE WriteLastInodeBitmap
  <2>1. /\ pc = "write_inode_bitmap" /\ pc' = "free" /\ result' = 0
        /\ group + 1 = num_block_groups /\ total_sectors' = total_sectors
        /\ medium' = Put(medium, lba, buffer) /\ pc \in Writing
    BY <1>6 DEF WriteLastInodeBitmap, Release, Writing
  <2>2. total_sectors' > 0
    BY <2>1, SizeInRange DEF IInv, PlaceInv, Writing, MIN_EXT4_SECTORS
  <2>3. Written' = PlanLength("ext4", total_sectors')
    BY <2>1, <2>2, WrittenNext
  <2>4. PlanLength("ext4", total_sectors') = 1 + 3 * num_block_groups
    BY <2>1 DEF PlanLength, num_block_groups
  <2>5. Written = 3 + 3 * group
    BY <1>1, <2>1, Position
  <2>6. Written' = Written + 1
    BY <1>1, <2>1, <2>3, <2>4, <2>5
  <2>7. FollowsPlan'
    BY <2>1, <2>6, OneMoreWritten
  <2> QED
    BY <2>1, <2>7 DEF PlanInv, BufferInv
<1> QED
  BY <1>2, <1>3, <1>4, <1>5, <1>6

LEMMA FreeingKeeps ==
  ASSUME IInv, PlanInv, FreeNext \/ Freed
  PROVE  PlanInv'
<1>1. /\ pc = "free" /\ pc' \in {"free", "idle"}
      /\ UNCHANGED <<medium, total_sectors, result>>
  BY DEF FreeNext, Freed
<1>2. CASE result = 0 /\ total_sectors > 0
  <2>1. pc # "write_descriptor" /\ pc # "write_block_bitmap"
        /\ pc # "write_inode_bitmap" /\ pc \in {"free", "idle"}
    BY <1>1
  <2>2. Written = PlanLength("ext4", total_sectors)
    BY <1>2, <2>1, Zenon DEF Written
  <2>3. Written' = PlanLength("ext4", total_sectors')
    BY <1>1, <1>2, WrittenNext
  <2>4. Written' = Written
    BY <1>1, <2>2, <2>3
  <2>5. FollowsPlan'
    BY <1>1, <2>4 DEF PlanInv, FollowsPlan
  <2> QED
    BY <1>1, <2>5 DEF PlanInv, BufferInv
<1>3. CASE ~(result = 0 /\ total_sectors > 0)
  <2>1. total_sectors \in Nat /\ result \in {0, -1}
    BY SizeInRange DEF IInv, PlaceInv
  <2>2. result' = -1 \/ total_sectors' = 0
    BY <1>1, <1>3, <2>1
  <2>3. FollowsPlan'
    BY <1>1, <2>2, NothingWritten DEF Writing
  <2> QED
    BY <1>1, <2>3 DEF PlanInv, BufferInv
<1> QED
  BY <1>2, <1>3

LEMMA AlwaysPlanInv == Spec => []PlanInv
<1>1. Init => PlanInv
  <2> SUFFICES ASSUME Init PROVE PlanInv
    OBVIOUS
  <2>1. pc = "idle" /\ total_sectors = 0
    BY DEF Init
  <2>2. /\ pc # "write_descriptor" /\ pc # "write_block_bitmap"
        /\ pc # "write_inode_bitmap" /\ ~(total_sectors > 0)
    BY <2>1
  <2>3. Written = 0
    BY <2>2, Zenon DEF Written
  <2>4. 1 .. Written = {}
    BY <2>3
  <2> QED
    BY <2>1, <2>4 DEF PlanInv, BufferInv, FollowsPlan
<1>2. IInv /\ PlanInv /\ [Next]_vars => PlanInv'
  <2> SUFFICES ASSUME IInv, PlanInv, [Next]_vars PROVE PlanInv'
    OBVIOUS
  <2>1. CASE UNCHANGED vars
    BY <2>1 DEF vars, PlanInv, BufferInv, FollowsPlan, Written, Descriptor,
                BlockFields
  <2>2. CASE Next
    BY <2>2, BeforeWritingKeeps, WritingKeeps, FreeingKeeps DEF Next, Run
  <2> QED
    BY <2>1, <2>2
<1> QED
  BY <1>1, <1>2, AlwaysIInv, PTL DEF Spec

(* Every sector format_ext4 has written is where the plan of DiskTool puts *)
(* it, holds the fields that plan stands for and nothing of an earlier     *)
(* sector, and no later one has replaced it: on a partition of any size.   *)
THEOREM PlanAlwaysFollowed == Spec => []FollowsPlan
<1>1. PlanInv => FollowsPlan
  BY DEF PlanInv
<1> QED
  BY <1>1, AlwaysPlanInv, PTL

-----------------------------------------------------------------------------

(* The groups' blocks, less four of each, add up to those of the partition.*)
LEMMA GroupsAddUp ==
  ASSUME NEW total \in Nat, total <= MAX_SECTORS, Groups(total) >= 1,
         NEW f, f[0] = 0,
         \A k \in 1 .. Groups(total) :
           f[k] = f[k - 1] + (BlocksInGroup(total, k - 1) - 4)
  PROVE  f[Groups(total)] + 4 * Groups(total) = Blocks(total)
<1> DEFINE n == Groups(total)
<1>1. n \in Nat /\ n >= 1
  BY GroupsAtMost
<1>2. Blocks(total) \in Nat
  BY SMT DEF Blocks
<1> HIDE DEF n
<1>3. \A k \in 1 .. n : f[k] = f[k - 1] + (BlocksInGroup(total, k - 1) - 4)
  BY DEF n
<1> DEFINE T == {k \in Nat : k < n => f[k] = 32764 * k}
<1>4. 0 \in T
  OBVIOUS
<1>5. ASSUME NEW k \in Nat, k \in T
      PROVE  k + 1 \in T
  <2> SUFFICES ASSUME k + 1 < n PROVE f[k + 1] = 32764 * (k + 1)
    OBVIOUS
  <2>1. k + 1 \in 1 .. n /\ (k + 1) - 1 = k /\ f[k] = 32764 * k /\ k # n - 1
    BY <1>1, <1>5
  <2>2. f[k + 1] = f[k] + (BlocksInGroup(total, k) - 4)
    BY <1>3, <2>1
  <2>3. BlocksInGroup(total, k) = 32768
    BY <2>1 DEF BlocksInGroup, n
  <2> QED
    BY <2>1, <2>2, <2>3, SMT
<1> HIDE DEF T
<1>6. n - 1 \in Nat /\ n - 1 \in T
  BY <1>1, <1>4, <1>5, NatSetInduction
<1>7. f[n - 1] = 32764 * (n - 1)
  BY <1>1, <1>6 DEF T
<1>8. f[n] = f[n - 1] + (BlocksInGroup(total, n - 1) - 4)
  BY <1>1, <1>3
<1>9. BlocksInGroup(total, n - 1) = Blocks(total) - (n - 1) * 32768
  BY DEF BlocksInGroup, n
<1>10. f[n] + 4 * n = Blocks(total)
  BY <1>1, <1>2, <1>7, <1>8, <1>9, SMT
<1> QED
  BY <1>10 DEF n

(* SumOverGroups is what the recursion it is defined by comes to.          *)
LEMMA SumIsCourse ==
  ASSUME NEW offset, num_block_groups \in Nat,
         \A g \in 0 .. num_block_groups - 1 :
           Field(DescriptorOnDisk(g), offset) \in Nat
  PROVE  \E f : /\ f[0] = 0
                /\ \A k \in 1 .. num_block_groups :
                     f[k] = f[k - 1] + Field(DescriptorOnDisk(k - 1), offset)
                /\ SumOverGroups(offset) = f[num_block_groups]
<1> DEFINE n == num_block_groups
           c(g) == Field(DescriptorOnDisk(g), offset)
           step == [a \in (1 .. n) \X Nat |-> a[2] + c(a[1] - 1)]
           sum == CHOOSE f : f = [k \in 0 .. n |-> IF k = 0 THEN 0
                                                   ELSE f[k - 1] + c(k - 1)]
<1> HIDE DEF n, c
<1>1. n \in Nat /\ \A k \in 1 .. n : c(k - 1) \in Nat
  BY DEF n, c
<1>2. \A k \in 1 .. n, v \in Nat : step[<<k, v>>] = v + c(k - 1)
  OBVIOUS
<1> HIDE DEF step
<1>3. ASSUME NEW k \in 1 .. n, NEW v \in Nat
      PROVE  step[<<k, v>>] \in Nat
  <2>1. c(k - 1) \in Nat /\ step[<<k, v>>] = v + c(k - 1)
    BY <1>1, <1>2
  <2> QED
    BY <2>1
<1>4. PICK f \in [0 .. n -> Nat] : Course(f, n, 0, step)
  BY <1>1, <1>3, CourseExists
<1>5. f[0] = 0 /\ \A k \in 1 .. n : f[k] = f[k - 1] + c(k - 1)
  <2>1. \A k \in 1 .. n : f[k - 1] \in Nat /\ f[k] = step[<<k, f[k - 1]>>]
    BY <1>1, <1>4 DEF Course
  <2> QED
    BY <1>2, <1>4, <2>1 DEF Course
<1>6. f = [k \in 0 .. n |-> IF k = 0 THEN 0 ELSE f[k - 1] + c(k - 1)]
  BY <1>1, <1>4, <1>5
<1>7. sum = [k \in 0 .. n |-> IF k = 0 THEN 0 ELSE sum[k - 1] + c(k - 1)]
  BY <1>6
<1>8. SumOverGroups(offset) = sum[n]
  BY Zenon DEF SumOverGroups, n, c
<1> HIDE DEF sum
<1>9. sum[0] = 0 /\ \A k \in 1 .. n : sum[k] = sum[k - 1] + c(k - 1)
  BY <1>1, <1>7
<1> QED
  BY <1>8, <1>9 DEF n, c

(* What the names superblock and descriptor say of a sector's counts.      *)
LEMMA CountsOf ==
  ASSUME NEW contents, NEW n, NEW g, NEW c
  PROVE  /\ Is(contents, <<"superblock", n, 0>>)
              => Field(contents, s_blocks_count_lo) = Blocks(n)
         /\ Is(contents, <<"descriptor", g, c>>)
              => Field(contents, bg_free_blocks_count_lo) = c
<1>1. \A what : what[1] = "superblock" /\ Is(contents, what)
                 => Field(contents, s_blocks_count_lo) = Blocks(what[2])
  BY Zenon DEF Is
<1>2. ASSUME NEW what, what[1] = "descriptor", Is(contents, what)
      PROVE  Field(contents, bg_free_blocks_count_lo) = what[3]
  <2>1. what[1] # "superblock"
    BY <1>2
  <2> QED
    BY <1>2, <2>1, Zenon DEF Is
<1>3. /\ <<"superblock", n, 0>>[1] = "superblock" /\ <<"superblock", n, 0>>[2] = n
      /\ <<"descriptor", g, c>>[1] = "descriptor" /\ <<"descriptor", g, c>>[3] = c
  BY SMT
<1> QED
  BY <1>1, <1>2, <1>3, Zenon

LEMMA WrittenWhenDone ==
  ASSUME pc = "idle", result = 0, total_sectors > 0
  PROVE  Written = PlanLength("ext4", total_sectors)
<1>1. /\ pc # "write_descriptor" /\ pc # "write_block_bitmap"
      /\ pc # "write_inode_bitmap" /\ pc \in {"free", "idle"}
  OBVIOUS
<1> QED
  BY <1>1, Zenon DEF Written

LEMMA FreeOfGroup ==
  \A blocks_in_it \in GroupSizes : blocks_in_it - 4 \in Nat
BY SMT DEF GroupSizes

(* What a partition counts as free in its groups and the four blocks used  *)
(* of each are its blocks, however large it is and however many groups it  *)
(* has.                                                                    *)
THEOREM BlocksAlwaysAddUp == Spec => []BlocksAddUp
<1> SUFFICES ASSUME IInv, FollowsPlan, Complete
             PROVE  SumOverGroups(bg_free_blocks_count_lo) + 4 * num_block_groups
                      = Field(medium[SuperblockLba], s_blocks_count_lo)
  BY AlwaysIInv, PlanAlwaysFollowed, PTL DEF BlocksAddUp
<1> DEFINE total == total_sectors
           n == Groups(total)
           count(g) == Field(DescriptorOnDisk(g), bg_free_blocks_count_lo)
<1>1. /\ total \in 0 .. MAX_SECTORS /\ total % 2048 = 0
      /\ total \in Nat /\ total <= MAX_SECTORS /\ total > 0
  BY MaxSectorsIsNat, FormatAssumption DEF IInv, PlaceInv, Complete
<1>2. n \in Nat /\ n >= 1
  <2>1. Blocks(total) \in Nat /\ Blocks(total) >= 256
    BY <1>1, SMT DEF Blocks
  <2>2. n = (Blocks(total) + 32767) \div 32768
    BY DEF Groups
  <2> QED
    BY <2>1, <2>2, SMT
<1>3. /\ pc = "idle" /\ result = 0 /\ num_block_groups = n
      /\ PlanLength("ext4", total) = 1 + 3 * n
  BY DEF Complete, PlanLength, num_block_groups
<1>4. Written = 1 + 3 * n
  BY <1>1, <1>3, WrittenWhenDone
<1>5. \A k \in 1 .. 1 + 3 * n :
        Is(medium[Ext4Sector(k, total).lba], Ext4Sector(k, total).what)
  <2>1. \A k : PlanSector("ext4", total, k) = Ext4Sector(k, total)
    BY DEF PlanSector
  <2> QED
    BY <1>4, <2>1, Zenon DEF FollowsPlan
<1>6. Field(medium[SuperblockLba], s_blocks_count_lo) = Blocks(total)
  <2>1. 1 \in 1 .. 1 + 3 * n
    BY <1>2
  <2>2. Is(medium[SuperblockLba], <<"superblock", total, 0>>)
    BY <1>5, <2>1, PlanFields, Zenon
  <2> QED
    BY <2>2, CountsOf, Zenon
<1>7. ASSUME NEW g \in 0 .. n - 1
      PROVE  /\ count(g) = BlocksInGroup(total, g) - 4
             /\ count(g) \in Nat
  <2>1. g \in Nat /\ g < n /\ 2 + 3 * g \in 1 .. 1 + 3 * n
    BY <1>2
  <2>2. Is(medium[SuperblockLba + 1 + g],
           <<"descriptor", g, BlocksInGroup(total, g) - 4>>)
    BY <1>5, <2>1, PlanFields, Zenon
  <2>3. count(g) = BlocksInGroup(total, g) - 4
    BY <2>2, CountsOf, Zenon DEF DescriptorOnDisk
  <2>4. BlocksInGroup(total, g) \in GroupSizes
    BY <1>1, <2>1, GroupsOf
  <2>5. BlocksInGroup(total, g) - 4 \in Nat
    BY <2>4, FreeOfGroup
  <2> QED
    BY <2>3, <2>5, Zenon
<1> HIDE DEF n, count
<1>8. PICK f : /\ f[0] = 0
               /\ \A k \in 1 .. n : f[k] = f[k - 1] + count(k - 1)
               /\ SumOverGroups(bg_free_blocks_count_lo) = f[n]
  BY <1>2, <1>3, <1>7, SumIsCourse, Zenon DEF count
<1>9. ASSUME NEW k \in 1 .. n
      PROVE  f[k] = f[k - 1] + (BlocksInGroup(total, k - 1) - 4)
  <2>1. k - 1 \in 0 .. n - 1
    BY <1>2
  <2> QED
    BY <1>7, <1>8, <2>1, Zenon
<1>10. f[n] + 4 * n = Blocks(total)
  <2>1. Groups(total) = n
    BY DEF n
  <2>2. \A k \in 1 .. Groups(total) :
          f[k] = f[k - 1] + (BlocksInGroup(total, k - 1) - 4)
    BY <1>9, <2>1
  <2>3. Groups(total) >= 1 /\ f[0] = 0
    BY <1>2, <1>8, <2>1
  <2>4. f[Groups(total)] + 4 * Groups(total) = Blocks(total)
    BY <1>1, <2>2, <2>3, GroupsAddUp, SMT
  <2> QED
    BY <2>1, <2>4
<1> QED
  BY <1>3, <1>6, <1>8, <1>10

-----------------------------------------------------------------------------
(* Why every format ends.                                                  *)

(* How many steps at most are left at the given point of format_ext4, at   *)
(* group g of n, and with free at the block c.  free looks at two blocks   *)
(* at most, for the heap never has more.                                   *)
LeftAt(at, g, n, c) ==
  CASE at = "idle"               -> 0
    [] at = "free"               -> IF c = 0 THEN 2 ELSE 1
    [] at = "write_inode_bitmap" -> 3 * (n - g)
    [] at = "write_block_bitmap" -> 1 + 3 * (n - g)
    [] at = "write_descriptor"   -> 2 + 3 * (n - g)
    [] at = "write_superblock"   -> 3 + 3 * n
    [] at = "read_superblock"    -> 4 + 3 * n
    [] at = "allocate"           -> 5 + 3 * n

Left == LeftAt(pc, group, num_block_groups, current)

LEMMA LeftIs ==
  ASSUME NEW g, NEW n, NEW c
  PROVE  /\ LeftAt("idle", g, n, c) = 0
         /\ LeftAt("free", g, n, c) \in {1, 2}
         /\ c # 0 => LeftAt("free", g, n, c) = 1
         /\ c = 0 => LeftAt("free", g, n, c) = 2
         /\ LeftAt("write_inode_bitmap", g, n, c) = 3 * (n - g)
         /\ LeftAt("write_block_bitmap", g, n, c) = 1 + 3 * (n - g)
         /\ LeftAt("write_descriptor", g, n, c) = 2 + 3 * (n - g)
         /\ LeftAt("write_superblock", g, n, c) = 3 + 3 * n
         /\ LeftAt("read_superblock", g, n, c) = 4 + 3 * n
         /\ LeftAt("allocate", g, n, c) = 5 + 3 * n
BY DEF LeftAt

Places == Writing \union {"idle", "allocate", "read_superblock", "free"}

LEMMA GroupInRange ==
  ASSUME IInv
  PROVE  /\ group \in Nat /\ num_block_groups \in 0 .. 32 /\ pc \in Places
         /\ pc \notin {"idle", "free"} => num_block_groups >= 1
         /\ pc \in Writing => group < num_block_groups
         /\ pc = "write_superblock" => group = 0
<1>1. total_sectors \in Nat /\ total_sectors <= MAX_SECTORS
  <2>1. \A total \in 0 .. MAX_SECTORS : total \in Nat /\ total <= MAX_SECTORS
    BY MaxSectorsIsNat
  <2>2. 0 \in 0 .. MAX_SECTORS
    BY MaxSectorsIsNat
  <2> QED
    BY <2>1, <2>2, FormatAssumption DEF IInv, PlaceInv
<1>2. num_block_groups \in 0 .. 32
  BY <1>1, GroupsAtMost DEF num_block_groups
<1> QED
  BY <1>2, SizesOf DEF IInv, PlaceInv, CallInv, Writing, Places

LEMMA LeftBound ==
  ASSUME IInv
  PROVE  Left \in 0 .. 101
<1> USE GroupInRange, LeftIs
<1>1. CASE pc \in {"idle", "free"}
  BY <1>1 DEF Left
<1>2. CASE pc \in Writing
  <2> DEFINE n == num_block_groups
             g == group
  <2>1. g \in Nat /\ n \in 0 .. 32 /\ g < n
    BY <1>2
  <2> HIDE DEF n, g
  <2>2. Left \in {3 * (n - g), 1 + 3 * (n - g), 2 + 3 * (n - g), 3 + 3 * n}
    BY <1>2 DEF Left, Writing, n, g
  <2> QED
    BY <2>1, <2>2
<1>3. CASE pc \in {"allocate", "read_superblock"}
  BY <1>3 DEF Left
<1> QED
  BY <1>1, <1>2, <1>3 DEF Places

(* Whatever stops a format leaves it the walk of free.                     *)
LEMMA ReleaseAdvances ==
  ASSUME IInv, pc \in Writing \union {"read_superblock"}, NEW status, Release(status)
  PROVE  Left' < Left
<1>1. pc' = "free"
  BY DEF Release
<1>2. Left' \in {1, 2}
  BY <1>1, LeftIs DEF Left
<1>3. Left \in Nat /\ Left >= 3
  BY GroupInRange, LeftIs, LeftBound DEF Left, Writing
<1> QED
  BY <1>2, <1>3

LEMMA FreeAdvances ==
  ASSUME IInv, FreeNext \/ Freed
  PROVE  Left' < Left
<1> USE Constants
<1>1. pc = "free" /\ Left \in {1, 2}
  BY LeftIs DEF FreeNext, Freed, Left
<1>2. CASE Freed
  BY <1>1, <1>2, LeftIs DEF Freed, Left
<1>3. CASE FreeNext
  <2>1. /\ pc' = "free"
        /\ current # NULL /\ next[current] # NULL
        /\ \/ Heap!MergeNext
           \/ current' = next[current]
    BY <1>1, <1>3 DEF FreeNext, Heap!MergeNext, Heap!CoalesceNext, Heap!HasNext
  <2>2. blocks = {0, Rest} /\ current = 0 /\ next[0] = Rest /\ next[Rest] = NULL
    BY <2>1 DEF IInv, HeapInv, CallInv
  <2>3. current' # 0
    BY <2>1, <2>2 DEF Heap!MergeNext
  <2> QED
    BY <1>1, <2>1, <2>2, <2>3, LeftIs DEF Left
<1> QED
  BY <1>2, <1>3

(* A transfer that goes well leads to the next one.                        *)
LEMMA TransferAdvances ==
  ASSUME IInv,
         Allocated \/ InitSuperblock \/ WriteSuperblock \/ WriteDescriptor
           \/ WriteBlockBitmap \/ WriteInodeBitmap
  PROVE  Left' < Left
<1> DEFINE n == num_block_groups
           g == group
<1>1. /\ g \in Nat /\ n \in Nat
      /\ pc \in Writing => g < n
      /\ pc = "write_superblock" => g = 0
  BY GroupInRange
<1>2. n' = n
  BY DEF Allocated, InitSuperblock, WriteSuperblock, WriteDescriptor,
     WriteBlockBitmap, WriteInodeBitmap, Write, num_block_groups
<1> HIDE DEF n
<1>3. Left = LeftAt(pc, g, n, current) /\ Left' = LeftAt(pc', g', n, current')
  BY <1>2 DEF Left, n
<1>4. CASE Allocated \/ InitSuperblock
  <2>1. \/ pc = "allocate" /\ pc' = "read_superblock"
        \/ pc = "read_superblock" /\ pc' = "write_superblock"
    BY <1>4 DEF Allocated, InitSuperblock
  <2> QED
    BY <1>1, <1>3, <2>1, LeftIs
<1>5. CASE WriteSuperblock
  <2>1. pc = "write_superblock" /\ pc' = "write_descriptor" /\ g' = 0
    BY <1>5 DEF WriteSuperblock, Write
  <2> QED
    BY <1>1, <1>3, <2>1, LeftIs
<1>6. CASE WriteDescriptor \/ WriteBlockBitmap
  <2>1. /\ g' = g
        /\ \/ pc = "write_descriptor" /\ pc' = "write_block_bitmap"
           \/ pc = "write_block_bitmap" /\ pc' = "write_inode_bitmap"
    BY <1>6 DEF WriteDescriptor, WriteBlockBitmap, Write
  <2> QED
    BY <1>1, <1>3, <2>1, LeftIs
<1>7. CASE WriteInodeBitmap
  <2>1. pc = "write_inode_bitmap" /\ pc' = "write_descriptor" /\ g' = g + 1
    BY <1>7 DEF WriteInodeBitmap, Write
  <2> QED
    BY <1>1, <1>3, <2>1, LeftIs
<1> QED
  BY <1>4, <1>5, <1>6, <1>7

(* Every step brings the end of a format nearer, and it has never more     *)
(* than 101 of them before it, with 32 groups of three sectors: whichever  *)
(* transfer fails, and whatever the superblock has cleared of the heap     *)
(* that free walks afterwards.                                             *)
THEOREM FormatsAdvance ==
  Spec => [](Left \in 0 .. 101) /\ [][Run => Left' < Left]_vars
<1>1. ASSUME IInv, Run
      PROVE  Left' < Left
  <2>1. CASE ReadSuperblockFails \/ WriteLastInodeBitmap \/ WriteFails
    BY <1>1, <2>1, ReleaseAdvances
    DEF ReadSuperblockFails, WriteLastInodeBitmap, WriteFails, Writing
  <2>2. CASE FreeNext \/ Freed
    BY <1>1, <2>2, FreeAdvances
  <2> QED
    BY <1>1, <2>1, <2>2, TransferAdvances DEF Run
<1>2. IInv => Left \in 0 .. 101
  BY LeftBound
<1>3. IInv /\ [Next]_vars => [Run => Left' < Left]_vars
  BY <1>1
<1> QED
  BY <1>2, <1>3, AlwaysIInv, PTL DEF Spec

=============================================================================
