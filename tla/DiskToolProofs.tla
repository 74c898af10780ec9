--------------------------- MODULE DiskToolProofs ---------------------------
(***************************************************************************)
(* Proofs about module DiskTool, for every set of drives, their capacities *)
(* and the tables found on them, every size asked for and any number of    *)
(* commands and power losses.                                              *)
(***************************************************************************)
EXTENDS DiskTool, FiniteSets, FiniteSetTheorems, TLAPS

(* The attached positions that a scan has passed when it looks at p.       *)
Before(p) == {q \in attached : q < p}

(* Entry i of the disk list describes the i-th attached drive.             *)
Listed(i) ==
  LET p == available_disks[i].position IN
  /\ p \in attached
  /\ available_disks[i] = Identify(p)
  /\ Cardinality(Before(p)) = i

(* What keeps the selection sound: the used part of the list, and the      *)
(* selected entry even when it is not in the used part, list the drives in *)
(* the order of their positions, and so does a scan half way through.      *)
ListInv ==
  /\ \A i \in 0 .. num_disks - 1 : Listed(i)
  /\ current_disk # -1 => Listed(current_disk)
  /\ pc = "scan" => num_disks = Cardinality(Before(probe))
  /\ pc = "off" => num_disks = 0 /\ current_disk = -1 /\ probe = 0

CreateJob == job.cmd \in {"newpart", "format"} /\ job.fs \in {"ext4", "fat32"}

DeleteJob == job.cmd = "delpart" /\ job.fs = "none" /\ job.index \in Indices

(* The command in progress, from its checks up to its last transfer.       *)
JobInv ==
  /\ Working =>
       /\ current_disk # -1 /\ job.drive = Selected.position
       /\ said = {}
       /\ CreateJob \/ DeleteJob
       /\ job.cmd = "newpart" => /\ job.size <= SizeMb(job.drive)
                                 /\ job.sectors = MB_TO_SECTORS(job.size)
       /\ job.cmd = "format" => /\ job.size = SizeMb(job.drive)
                                /\ job.size >= 32
                                /\ job.sectors = MB_TO_SECTORS(job.size) - START_LBA
  /\ pc \in {"format_ext4", "read_superblock"} => job.fs = "ext4"
  /\ pc = "read_superblock" => job.sectors >= MIN_EXT4_SECTORS
  /\ pc = "write_meta" =>
       /\ job.fs = "ext4" => job.sectors >= MIN_EXT4_SECTORS
       /\ step \in 1 .. PlanLength(job.fs, job.sectors)

(* The table in memory is the one on the drive with one entry edited, and  *)
(* a format works on an entry that is on the drive already.                *)
TableInv ==
  /\ pc = "write_mbr" =>
       /\ job.index \in Indices
       /\ \/ /\ CreateJob
             /\ FirstEmpty(mbr[job.drive], job.index)
             /\ buf = [mbr[job.drive] EXCEPT ![job.index] = NewEntry]
          \/ /\ DeleteJob
             /\ ~IsEmpty(mbr[job.drive][job.index])
             /\ buf = [mbr[job.drive] EXCEPT ![job.index] = EmptyEntry]
  /\ Formatting => CreateJob /\ job.index \in Indices
  /\ FormatOnlyListed

IInv == TypeOK /\ ListInv /\ JobInv /\ TableInv /\ NoBufferLeak

-----------------------------------------------------------------------------
(* A 32-bit byte count is less than 4096 MB.                               *)
MaxSizeMb == 4095

(* Arithmetic.  Sizes stay below 4096 MB because the disk's own size does. *)
LEMMA SizeTyped ==
  ASSUME NEW p \in Drives
  PROVE  SizeMb(p) \in Nat
<1>1. Capacity[p] \in Nat
  BY DriveAssumption
<1>2. \A c \in Nat : (c % WRAP) \div SECTORS_PER_MB \in Nat
  BY SMT DEF WRAP, SECTORS_PER_MB
<1>3. QED
  BY <1>1, <1>2, Zenon DEF SizeMb

LEMMA SizeBound ==
  ASSUME NEW p \in Drives
  PROVE  SizeMb(p) <= MaxSizeMb /\ SizeMb(p) * SECTORS_PER_MB <= Capacity[p]
<1> DEFINE P(c) == /\ (c % WRAP) \div SECTORS_PER_MB <= MaxSizeMb
                   /\ ((c % WRAP) \div SECTORS_PER_MB) * SECTORS_PER_MB <= c
<1>1. Capacity[p] \in Nat
  BY DriveAssumption
<1>2. ASSUME NEW c \in Nat PROVE P(c)
  BY SMT DEF WRAP, SECTORS_PER_MB, MaxSizeMb
<1>3. P(Capacity[p])
  <2> HIDE DEF P
  <2>1. QED
    BY <1>1, <1>2
<1>4. QED
  BY <1>3, Zenon DEF SizeMb

LEMMA IdentifyTyped ==
  ASSUME NEW p \in Drives
  PROVE  Identify(p) \in Disks
BY SizeTyped DEF Identify, Disks

LEMMA NoWrap ==
  ASSUME NEW mb \in 0 .. MaxSizeMb
  PROVE  MB_TO_SECTORS(mb) = mb * SECTORS_PER_MB
  BY SMT DEF MB_TO_SECTORS, SECTORS_PER_MB, MaxSizeMb

(* The two checks of format_ext4 on the number of groups never fail.       *)
LEMMA GroupsBound ==
  ASSUME NEW n \in Nat, n <= MaxSizeMb * SECTORS_PER_MB
  PROVE  /\ Groups(n) \in 0 .. 32
         /\ n >= MIN_EXT4_SECTORS => Groups(n) \in 1 .. MAX_GROUPS
         /\ \A g \in 0 .. Groups(n) - 1 : g \in 0 .. 31 /\ g * GROUP_SECTORS + 8 <= n
<1> DEFINE b == n \div 8
<1>1. b \in Nat /\ b * 8 <= n /\ n < b * 8 + 8 /\ n <= 8386560
  BY SMT DEF SECTORS_PER_MB, MaxSizeMb
<1> HIDE DEF b
<1>2. Groups(n) = (b + 32767) \div 32768
  BY DEF Groups, Blocks, b
<1>3. Groups(n) \in 0 .. 32 /\ (n >= 8192 => Groups(n) >= 1)
  BY <1>1, <1>2, SMT
<1>4. \A g \in 0 .. Groups(n) - 1 : g \in 0 .. 31 /\ g * 32768 < b
  BY <1>1, <1>2, <1>3, SMT
<1>5. \A g \in 0 .. Groups(n) - 1 : g \in 0 .. 31 /\ g * GROUP_SECTORS + 8 <= n
  BY <1>1, <1>4, SMT DEF GROUP_SECTORS
<1>6. n >= MIN_EXT4_SECTORS => Groups(n) \in 1 .. MAX_GROUPS
  BY <1>3, SMT DEF MIN_EXT4_SECTORS, MAX_GROUPS
<1>7. QED
  BY <1>3, <1>5, <1>6, SMT

(* The place of every group is computed without wrapping around.           *)
LEMMA GroupPlace ==
  ASSUME NEW g \in 0 .. 31
  PROVE  BitmapLba(g) = START_LBA + g * GROUP_SECTORS
<1>1. (g * 32768) % 1048576 = g * 32768
  BY SMT
<1>2. QED
  BY <1>1, SMT DEF BitmapLba, START_LBA, GROUP_SECTORS

-----------------------------------------------------------------------------
(* Counting the attached positions.                                        *)
LEMMA BeforeFinite ==
  ASSUME attached \subseteq Drives, NEW p \in 0 .. 4
  PROVE  /\ IsFiniteSet(Before(p))
         /\ Cardinality(Before(p)) \in 0 .. p
<1>1. /\ IsFiniteSet(0 .. p - 1)
      /\ Cardinality(0 .. p - 1) = p
  BY FS_Interval
<1>2. \A q \in Before(p) : q \in 0 .. p - 1
  BY DriveAssumption, SMT DEF Before
<1>3. /\ IsFiniteSet(Before(p))
      /\ Cardinality(Before(p)) <= p
  BY <1>1, <1>2, FS_Subset
<1>4. QED
  BY <1>3, FS_CardinalityType

LEMMA BeforeNext ==
  ASSUME attached \subseteq Drives, NEW p \in 0 .. 3
  PROVE  /\ p \in attached =>
              Cardinality(Before(p + 1)) = Cardinality(Before(p)) + 1
         /\ p \notin attached => Before(p + 1) = Before(p)
<1>1. attached \subseteq 0 .. 3
  BY DriveAssumption
<1>2. \A x : Before(x) \subseteq 0 .. 3
  BY <1>1 DEF Before
<1>3. ASSUME p \in attached
      PROVE  Cardinality(Before(p + 1)) = Cardinality(Before(p)) + 1
  <2>1. /\ \A q \in 0 .. 3 : q \in Before(p + 1) <=> q \in Before(p) \/ q = p
        /\ p \notin Before(p)
    BY <1>1, <1>3, SMT DEF Before
  <2>2. IsFiniteSet(Before(p))
    BY BeforeFinite
  <2>3. Before(p + 1) = Before(p) \union {p}
    BY <1>1, <1>2, <2>1
  <2>4. QED
    BY <2>1, <2>2, <2>3, FS_AddElement
<1>4. ASSUME p \notin attached
      PROVE  Before(p + 1) = Before(p)
  <2>1. \A q \in 0 .. 3 : q \in Before(p + 1) <=> q \in Before(p)
    BY <1>1, <1>4, SMT DEF Before
  <2>2. QED
    BY <1>2, <2>1
<1>5. QED
  BY <1>3, <1>4

(* Two attached drives with equally many before them are the same drive.   *)
LEMMA BeforeUnique ==
  ASSUME attached \subseteq Drives,
         NEW p \in attached, NEW q \in attached,
         Cardinality(Before(p)) = Cardinality(Before(q))
  PROVE  p = q
<1>1. attached \subseteq 0 .. 3
  BY DriveAssumption
<1>2. ASSUME NEW a \in attached, NEW b \in attached, a < b
      PROVE  Cardinality(Before(a)) < Cardinality(Before(b))
  <2>1. /\ \A x \in Before(a) : x \in Before(b)
        /\ a \in Before(b) /\ a \notin Before(a)
    BY <1>1, <1>2, SMT DEF Before
  <2>2. a \in 0 .. 4 /\ b \in 0 .. 4
    BY <1>1, SMT
  <2>3. /\ IsFiniteSet(Before(b))
        /\ Cardinality(Before(a)) \in Nat /\ Cardinality(Before(b)) \in Nat
    BY <2>2, BeforeFinite
  <2>4. /\ Cardinality(Before(a)) <= Cardinality(Before(b))
        /\ Cardinality(Before(a)) # Cardinality(Before(b))
    BY <2>1, <2>3, FS_Subset
  <2>5. QED
    BY <2>3, <2>4
<1>3. Cardinality(Before(p)) \in Nat
  BY <1>1, BeforeFinite
<1>4. p \in Int /\ q \in Int
  BY <1>1
<1>5. ~(p < q)
  BY <1>2, <1>3
<1>6. ~(q < p)
  BY <1>2, <1>3
<1>7. QED
  BY <1>4, <1>5, <1>6

-----------------------------------------------------------------------------
(* The metadata sectors have addresses.                                    *)
LEMMA SectorTyped ==
  ASSUME JobInv, pc = "write_meta", job.sectors \in Nat, CreateJob
  PROVE  Sector.lba \in Nat
<1> DEFINE n == job.sectors
<1>1. n \in Nat /\ step \in 1 .. PlanLength(job.fs, n)
  BY DEF JobInv
<1>2. CASE job.fs = "fat32"
  <2>1. step \in 1 .. 3
    BY <1>1, <1>2 DEF PlanLength
  <2>2. SECTORS_PER_FAT(n) \in Nat
    BY <1>1, SMT DEF SECTORS_PER_FAT, RESERVED_SECTORS
  <2>3. QED
    BY <1>2, <2>1, <2>2, SMT DEF Sector, PlanSector, FatSector, START_LBA,
       RESERVED_SECTORS
<1>3. CASE job.fs = "ext4"
  <2>1. Groups(n) \in Nat
    BY <1>1, SMT DEF Groups, Blocks
  <2>2. step \in 1 .. 1 + 3 * Groups(n)
    BY <1>1, <1>3 DEF PlanLength
  <2>3. \A g \in Nat : BitmapLba(g) \in Nat
    BY SMT DEF BitmapLba, START_LBA
  <2>4. step = 1 \/ (step > 1 /\ (step - 2) % 3 \in 0 .. 2 /\ (step - 2) \div 3 \in Nat)
    BY <2>1, <2>2, SMT
  <2>5. QED
    BY <1>3, <2>3, <2>4, SMT DEF Sector, PlanSector, Ext4Sector, SuperblockLba,
       START_LBA
<1>4. QED
  BY <1>2, <1>3 DEF CreateJob

(* The types, one step at a time.                                          *)
LEMMA ScanTypes ==
  ASSUME TypeOK, ListInv,
         ProbePresent \/ ProbeAbsent \/ ScanDone
  PROVE  TypeOK'
<1>1. CASE ProbePresent
  <2>1. probe \in 0 .. 3 /\ probe \in Drives
    BY <1>1, DriveAssumption DEF TypeOK, ProbePresent
  <2>2. num_disks \in 0 .. probe
    BY <1>1, <2>1, BeforeFinite DEF TypeOK, ListInv, ProbePresent
  <2>3. Identify(probe) \in Disks
    BY <2>1, IdentifyTyped
  <2>4. QED
    BY <1>1, <2>1, <2>2, <2>3 DEF TypeOK, ProbePresent, MAX_DISKS, disk, bounds,
       Working
<1>2. CASE ProbeAbsent
  BY <1>2 DEF TypeOK, ProbeAbsent, disk, bounds, Working
<1>3. CASE ScanDone
  BY <1>3 DEF TypeOK, ScanDone, disk, bounds, Working
<1>4. QED
  BY <1>1, <1>2, <1>3

LEMMA PromptTypes ==
  ASSUME TypeOK, ListInv,
         Boot \/ Crash \/ Update \/ PartInfo \/ \E i \in -1 .. 4 : SelectDisk(i)
  PROVE  TypeOK'
<1>1. CASE Boot
  BY <1>1 DEF TypeOK, Boot, StartScan, disk, bounds, Working, MAX_DISKS
<1>2. CASE Crash
  <2>1. NoDisks \in [0 .. MAX_DISKS - 1 -> Disks]
    BY DEF NoDisks, NoDisk, Disks
  <2>2. crashes' \in 0 .. MaxCrashes
    BY <1>2, DriveAssumption DEF TypeOK, Crash
  <2>3. QED
    BY <1>2, <2>1, <2>2 DEF TypeOK, Crash, disk, Working, NoJob, MAX_DISKS
<1>3. CASE Update
  BY <1>3 DEF TypeOK, Update, Command, StartScan, disk, bounds, Working, NoJob,
              MAX_DISKS
<1>4. CASE PartInfo
  <2>1. EmptyTable \in Tables /\ FloatingTable \in Tables
    BY DEF EmptyTable, FloatingTable, Tables, Entries, EmptyEntry
  <2>2. \A t \in Displayed : t \in {NoTable} \union Tables
    BY <2>1 DEF TypeOK, Displayed
  <2>3. shown' \in {NoTable} \union Tables
    BY <1>4, <2>2 DEF PartInfo
  <2>4. QED
    BY <1>4, <2>3 DEF TypeOK, PartInfo, disk, list, bounds, Working, NoJob
<1>5. CASE \E i \in -1 .. 4 : SelectDisk(i)
  BY <1>5 DEF TypeOK, SelectDisk, Command, disk, bounds, Working, NoJob,
              MAX_DISKS
<1>6. QED
  BY <1>1, <1>2, <1>3, <1>4, <1>5

(* The selected drive, for a command that is about to use it.              *)
LEMMA SelectedListed ==
  ASSUME TypeOK, ListInv, current_disk # -1
  PROVE  /\ Selected.position \in attached /\ Selected.position \in Drives
         /\ Selected = Identify(Selected.position)
         /\ Selected.size_mb = SizeMb(Selected.position)
         /\ Selected.size_mb \in Nat
<1>1. /\ Selected.position \in attached
      /\ Selected = Identify(Selected.position)
  BY DEF ListInv, Listed, Selected
<1>2. Selected.position \in Drives
  BY <1>1 DEF TypeOK
<1>3. Selected.size_mb = SizeMb(Selected.position)
  BY <1>1 DEF Identify
<1>4. QED
  BY <1>1, <1>2, <1>3, SizeTyped

LEMMA SectorsTyped ==
  ASSUME NEW mb \in Nat
  PROVE  MB_TO_SECTORS(mb) \in Nat
  BY SMT DEF MB_TO_SECTORS, SECTORS_PER_MB

LEMMA FormatSectorsTyped ==
  ASSUME NEW mb \in Nat, mb >= 32, mb <= MaxSizeMb
  PROVE  (MB_TO_SECTORS(mb) - START_LBA) \in Nat
<1>1. mb % 4096 = mb
  BY SMT DEF MaxSizeMb
<1>2. QED
  BY <1>1, SMT DEF MB_TO_SECTORS, SECTORS_PER_MB, START_LBA, MaxSizeMb

LEMMA CommandTypes ==
  ASSUME TypeOK, ListInv,
         \/ \E mb \in SizeArgs, fs \in {"ext4", "fat32"} : CreatePartitionMb(mb, fs)
         \/ \E fs \in {"ext4", "fat32"} : FormatDisk(fs)
         \/ \E i \in -1 .. 4 : DeletePartition(i)
  PROVE  TypeOK'
<1> USE DEF StartCommand, Command, Counted, Accept, Refuse, Job
<1>1. ASSUME StartCommand,
             \/ Refuse
             \/ /\ pc' = "read_mbr" /\ job'.drive \in Drives
                /\ job' \in [cmd : {"newpart", "format", "delpart"},
                             drive : {-1} \union Drives,
                             fs : {"none", "ext4", "fat32"},
                             size : Nat, sectors : Nat,
                             index : {-1} \union Indices]
      PROVE  TypeOK'
  <2>1. commands' \in 0 .. MaxCommands
    BY <1>1, DriveAssumption DEF TypeOK
  <2>2. CASE Refuse
    BY <1>1, <2>1, <2>2 DEF TypeOK, disk, list, Working, NoJob
  <2>3. CASE ~Refuse
    BY <1>1, <2>1, <2>3 DEF TypeOK, disk, list, Working
  <2>4. QED
    BY <2>2, <2>3
<1>2. ASSUME NEW mb \in SizeArgs, NEW fs \in {"ext4", "fat32"},
             CreatePartitionMb(mb, fs)
      PROVE  TypeOK'
  <2>1. mb \in Nat /\ MB_TO_SECTORS(mb) \in Nat
    BY DriveAssumption, SectorsTyped
  <2>2. current_disk # -1 => Selected.position \in Drives
    BY SelectedListed
  <2>3. QED
    BY <1>1, <1>2, <2>1, <2>2 DEF CreatePartitionMb, Selected
<1>3. ASSUME NEW fs \in {"ext4", "fat32"}, FormatDisk(fs)
      PROVE  TypeOK'
  <2>1. CASE current_disk # -1 /\ Selected.size_mb >= 32
    <3>1. Selected.position \in Drives /\ Selected.size_mb \in Nat
      BY <2>1, SelectedListed
    <3>2. Selected.size_mb <= MaxSizeMb
      BY <2>1, <3>1, SelectedListed, SizeBound
    <3>3. (MB_TO_SECTORS(Selected.size_mb) - START_LBA) \in Nat
      BY <2>1, <3>1, <3>2, FormatSectorsTyped
    <3>4. QED
      BY <1>1, <1>3, <2>1, <3>1, <3>3 DEF FormatDisk, Selected
  <2>2. CASE ~(current_disk # -1 /\ Selected.size_mb >= 32)
    BY <1>1, <1>3, <2>2 DEF FormatDisk
  <2>3. QED
    BY <2>1, <2>2
<1>4. ASSUME NEW i \in -1 .. 4, DeletePartition(i)
      PROVE  TypeOK'
  <2>1. current_disk # -1 => Selected.position \in Drives
    BY SelectedListed
  <2>2. QED
    BY <1>1, <1>4, <2>1 DEF DeletePartition, Selected
<1>5. QED
  BY <1>2, <1>3, <1>4

-----------------------------------------------------------------------------
(* The steps that transfer sectors.                                        *)
LEMMA FailTypes ==
  ASSUME TypeOK, Fail,
         mbr' \in [Drives -> Tables],
         DOMAIN data' = Drives, \A d \in Drives : DOMAIN data'[d] \subseteq Nat,
         buffers' \in Nat
  PROVE  TypeOK'
<1>1. /\ pc' \in {"scan", "prompt"}
      /\ num_disks' \in 0 .. MAX_DISKS /\ probe' \in 0 .. 4
  BY DEF TypeOK, Fail, Leave, StartScan, MAX_DISKS
<1>2. QED
  BY <1>1 DEF TypeOK, Fail, Working, bounds

LEMMA WrittenTyped ==
  ASSUME TypeOK, JobInv, TableInv, pc = "write_meta"
  PROVE  /\ DOMAIN Written = Drives
         /\ \A d \in Drives : DOMAIN Written[d] \subseteq Nat
<1>1. Sector.lba \in Nat
  BY SectorTyped DEF TypeOK, TableInv, Formatting
<1>2. job.drive \in Drives
  BY DEF TypeOK, Working
<1>3. DOMAIN Written = Drives
  BY DEF TypeOK, Written
<1>4. ASSUME NEW d \in Drives
      PROVE  DOMAIN Written[d] \subseteq Nat
  <2>1. CASE d = job.drive
    <3>1. Written[d] = Put(data[d], Sector.lba, Sector.what)
      BY <1>2, <2>1 DEF Written, TypeOK
    <3>2. DOMAIN Written[d] = (DOMAIN data[d]) \union {Sector.lba}
      BY <3>1 DEF Put
    <3>3. QED
      BY <1>1, <3>2 DEF TypeOK
  <2>2. CASE d # job.drive
    BY <2>2 DEF Written, TypeOK
  <2>3. QED
    BY <2>1, <2>2
<1>5. QED
  BY <1>3, <1>4

(* A failing transfer, however far the write has got.                      *)
LEMMA FailingTypes ==
  ASSUME IInv,
         \/ ReadMbrFails \/ TableFull \/ NothingToDelete \/ WriteMbrFails
         \/ Ext4TooSmall \/ NoBuffer \/ SuperblockFails \/ WriteMetaFails
  PROVE  TypeOK'
<1>1. TypeOK
  BY DEF IInv
<1>2. CASE ReadMbrFails \/ TableFull \/ NothingToDelete \/ Ext4TooSmall \/ NoBuffer
  BY <1>1, <1>2, FailTypes DEF TypeOK, ReadMbrFails, TableFull, NothingToDelete,
     Ext4TooSmall, NoBuffer, disk
<1>3. CASE WriteMbrFails
  <2>1. job.drive \in Drives /\ buf \in Tables
    BY <1>1, <1>3 DEF TypeOK, Working, IInv, TableInv, WriteMbrFails, NoTable,
       Tables, CreateJob, DeleteJob, NewEntry, EmptyEntry, Entries
  <2>2. mbr' \in [Drives -> Tables]
    BY <1>1, <1>3, <2>1 DEF TypeOK, WriteMbrFails
  <2>3. QED
    BY <1>1, <1>3, <2>2, FailTypes DEF TypeOK, WriteMbrFails
<1>4. CASE SuperblockFails \/ WriteMetaFails
  <2>1. buffers' \in Nat
    BY <1>1, <1>4 DEF IInv, NoBufferLeak, SuperblockFails, WriteMetaFails, FreeBuffer
  <2>2. CASE SuperblockFails
    BY <1>1, <2>1, <2>2, FailTypes DEF TypeOK, SuperblockFails, disk
  <2>3. CASE WriteMetaFails
    <3>1. data' = data \/ data' = Written
      BY <2>3 DEF WriteMetaFails
    <3>2. QED
      BY <1>1, <2>1, <2>3, <3>1, WrittenTyped, FailTypes
         DEF TypeOK, WriteMetaFails, IInv
  <2>4. QED
    BY <1>4, <2>2, <2>3
<1>5. QED
  BY <1>2, <1>3, <1>4

LEMMA JobTyped ==
  ASSUME TypeOK, Working
  PROVE  /\ job.drive \in Drives /\ mbr[job.drive] \in Tables
         /\ \A i \in Indices, e \in Entries :
              [mbr[job.drive] EXCEPT ![i] = e] \in Tables
         /\ EmptyEntry \in Entries
         /\ job.fs \in {"ext4", "fat32"} => NewEntry \in Entries
<1>1. job.drive \in Drives /\ mbr[job.drive] \in Tables
  BY DEF TypeOK
<1>2. EmptyEntry \in Entries
  BY DEF EmptyEntry, Entries
<1>3. job.fs \in {"ext4", "fat32"} => NewEntry \in Entries
  BY DEF TypeOK, NewEntry, Entries, START_LBA
<1>4. QED
  BY <1>1, <1>2, <1>3 DEF Tables

LEMMA TableTypes ==
  ASSUME IInv, AddEntry \/ ClearEntry \/ WriteMbr
  PROVE  TypeOK'
<1>1. TypeOK /\ Working
  BY DEF IInv, AddEntry, ClearEntry, TableRead, WriteMbr, Working
<1>2. CASE AddEntry \/ ClearEntry
  <2>1. PICK i \in Indices, e \in Entries : pc = "read_mbr" /\ Edit(i, e)
    <3>1. CASE AddEntry
      <4>1. job.fs \in {"ext4", "fat32"}
        BY <3>1 DEF IInv, JobInv, AddEntry, TableRead, Working, CreateJob, DeleteJob
      <4>2. QED
        BY <1>1, <3>1, <4>1, JobTyped DEF AddEntry, TableRead
    <3>2. CASE ClearEntry
      <4>1. job.index \in Indices
        BY <3>2 DEF IInv, JobInv, ClearEntry, TableRead, Working, CreateJob, DeleteJob
      <4>2. QED
        BY <1>1, <3>2, <4>1, JobTyped DEF ClearEntry, TableRead
    <3>3. QED
      BY <1>2, <3>1, <3>2
  <2>2. buf' \in Tables
    BY <1>1, <2>1, JobTyped DEF Edit
  <2>3. /\ job' \in [cmd : {"none", "newpart", "format", "delpart"},
                     drive : {-1} \union Drives, fs : {"none", "ext4", "fat32"},
                     size : Nat, sectors : Nat, index : {-1} \union Indices]
        /\ job'.drive \in Drives
    BY <1>1, <2>1, JobTyped DEF Edit, TypeOK
  <2>4. QED
    BY <1>1, <2>1, <2>2, <2>3 DEF Edit, TypeOK, Working, disk, list, bounds
<1>3. CASE WriteMbr
  <2>1. buf \in Tables
    BY <1>1, <1>3, JobTyped DEF IInv, TableInv, WriteMbr, CreateJob, DeleteJob
  <2>2. mbr' \in [Drives -> Tables]
    BY <1>1, <1>3, <2>1 DEF WriteMbr, TypeOK
  <2>3. /\ pc' \in {"prompt", "format_ext4", "write_meta"}
        /\ step' \in Nat
        /\ said' \subseteq {"created", "formatted", "deleted"}
    BY <1>1, <1>3 DEF IInv, JobInv, CreateJob, DeleteJob, WriteMbr, TypeOK
  <2>4. QED
    BY <1>1, <1>3, <2>2, <2>3 DEF WriteMbr, TypeOK, Working, list, bounds
<1>4. QED
  BY <1>2, <1>3

LEMMA MetadataTypes ==
  ASSUME IInv, AllocateBuffer \/ ReadSuperblock \/ WriteMeta \/ WriteLastMeta
  PROVE  TypeOK'
<1>1. TypeOK
  BY DEF IInv
<1>2. CASE AllocateBuffer
  BY <1>1, <1>2 DEF AllocateBuffer, TypeOK, Working, disk, list, bounds
<1>3. CASE ReadSuperblock
  BY <1>1, <1>3 DEF ReadSuperblock, TypeOK, Working, disk, list, bounds
<1>4. CASE WriteMeta
  <2>1. DOMAIN data' = Drives /\ \A d \in Drives : DOMAIN data'[d] \subseteq Nat
    BY <1>4, WrittenTyped DEF IInv, WriteMeta
  <2>2. QED
    BY <1>1, <1>4, <2>1 DEF WriteMeta, TypeOK, Working, list, bounds
<1>5. CASE WriteLastMeta
  <2>1. DOMAIN data' = Drives /\ \A d \in Drives : DOMAIN data'[d] \subseteq Nat
    BY <1>5, WrittenTyped DEF IInv, WriteLastMeta
  <2>2. buffers' \in Nat
    BY <1>1, <1>5 DEF IInv, NoBufferLeak, WriteLastMeta, FreeBuffer
  <2>3. /\ pc' \in {"scan", "prompt"}
        /\ num_disks' \in 0 .. MAX_DISKS /\ probe' \in 0 .. 4
    BY <1>1, <1>5 DEF TypeOK, WriteLastMeta, Leave, StartScan, MAX_DISKS
  <2>4. QED
    BY <1>1, <1>5, <2>1, <2>2, <2>3 DEF WriteLastMeta, TypeOK, Working, bounds
<1>6. QED
  BY <1>2, <1>3, <1>4, <1>5

LEMMA NextTypes ==
  ASSUME IInv, [Next]_vars
  PROVE  TypeOK'
<1>1. TypeOK /\ ListInv
  BY DEF IInv
<1>2. CASE Next
  BY <1>1, <1>2, ScanTypes, PromptTypes, CommandTypes, FailingTypes, TableTypes,
     MetadataTypes DEF Next, Run
<1>3. CASE UNCHANGED vars
  BY <1>1, <1>3 DEF vars, disk, list, bounds, TypeOK, Working
<1>4. QED
  BY <1>2, <1>3

-----------------------------------------------------------------------------
(* The disk list.                                                          *)
LEMMA NoneBeforeZero ==
  ASSUME attached \subseteq Drives
  PROVE  Cardinality(Before(0)) = 0
  BY BeforeFinite

LEMMA ListKept ==
  ASSUME TypeOK, ListInv, UNCHANGED <<attached, available_disks, current_disk>>,
         pc' # "off",
         \/ num_disks' = 0 /\ probe' = 0
         \/ num_disks' = num_disks /\ (pc' = "scan" => pc = "scan" /\ probe' = probe)
  PROVE  ListInv'
<1>1. Cardinality(Before(0)) = 0
  BY NoneBeforeZero DEF TypeOK
<1>2. /\ \A p : Before(p)' = Before(p)
      /\ Before(probe') = Before(probe)'
  BY DEF Before
<1>3. \A i : Listed(i)' <=> Listed(i)
  BY <1>2 DEF Listed
<1>4. \A i \in 0 .. num_disks' - 1 : Listed(i)'
  BY <1>3 DEF ListInv
<1>5. current_disk' # -1 => Listed(current_disk)'
  BY <1>3 DEF ListInv, Listed, Before
<1>6. pc' = "scan" => num_disks' = Cardinality(Before(probe))'
  BY <1>1, <1>2 DEF ListInv
<1>7. QED
  BY <1>4, <1>5, <1>6 DEF ListInv

LEMMA ScanList ==
  ASSUME TypeOK, ListInv, ProbePresent \/ ProbeAbsent \/ ScanDone
  PROVE  ListInv'
<1>1. CASE ProbePresent
  <2>1. /\ probe \in 0 .. 3 /\ probe \in attached /\ num_disks \in 0 .. probe
        /\ num_disks = Cardinality(Before(probe))
    BY <1>1, BeforeFinite, DriveAssumption DEF TypeOK, ListInv, ProbePresent
  <2>2. /\ \A p : Before(p)' = Before(p)
        /\ Before(probe)' = Before(probe + 1)
    BY <1>1 DEF Before, ProbePresent
  <2>3. num_disks' = Cardinality(Before(probe))'
    BY <1>1, <2>1, <2>2, BeforeNext DEF TypeOK, ProbePresent
  <2>4. available_disks'[num_disks] = Identify(probe)
    BY <1>1, <2>1 DEF ProbePresent, TypeOK, MAX_DISKS
  <2>5. ASSUME NEW i \in 0 .. 3,
               i = num_disks \/ (Listed(i) /\ i # num_disks)
        PROVE  Listed(i)'
    <3>1. attached' = attached
      BY <1>1 DEF ProbePresent
    <3>2. CASE i = num_disks
      <4>1. available_disks'[i] = Identify(probe)
        BY <2>4, <3>2
      <4>2. available_disks'[i].position = probe
        BY <4>1 DEF Identify
      <4>3. Before(probe) = {q \in attached' : q < probe}
        BY <3>1 DEF Before
      <4>4. QED
        BY <2>1, <3>1, <3>2, <4>1, <4>2, <4>3 DEF Listed, Before, Identify, SizeMb
    <3>3. CASE i # num_disks
      <4>1. available_disks'[i] = available_disks[i]
        BY <1>1, <3>3 DEF ProbePresent, TypeOK, MAX_DISKS
      <4>2. QED
        BY <2>5, <3>1, <3>3, <4>1 DEF Listed, Before, Identify, SizeMb
    <3>4. QED
      BY <3>2, <3>3
  <2>6. \A i \in 0 .. num_disks' - 1 : Listed(i)'
    <3>1. \A i \in 0 .. num_disks : i \in 0 .. 3 /\ (i # num_disks => Listed(i))
      BY <2>1 DEF ListInv
    <3>2. num_disks' - 1 = num_disks
      BY <1>1, <2>1 DEF ProbePresent
    <3>3. QED
      BY <2>5, <3>1, <3>2
  <2>7. current_disk' # -1 => Listed(current_disk)'
    <3>1. current_disk' = current_disk
      BY <1>1 DEF ProbePresent
    <3>2. current_disk # -1 => current_disk \in 0 .. 3 /\ Listed(current_disk)
      BY DEF TypeOK, ListInv, MAX_DISKS
    <3>3. \A i : i = current_disk /\ i # -1 => Listed(i)'
      BY <2>5, <3>2
    <3>4. QED
      BY <3>1, <3>3 DEF Listed, Before
  <2>8. QED
    BY <1>1, <2>3, <2>6, <2>7 DEF ListInv, ProbePresent
<1>2. CASE ProbeAbsent
  <2>1. probe \in 0 .. 3 /\ probe \notin attached
    BY <1>2 DEF ProbeAbsent
  <2>2. Before(probe)' = Before(probe + 1)
    BY <1>2 DEF Before, ProbeAbsent
  <2>3. num_disks' = Cardinality(Before(probe))'
    BY <1>2, <2>1, <2>2, BeforeNext DEF TypeOK, ListInv, ProbeAbsent
  <2>4. \A i : Listed(i)' <=> Listed(i)
    BY <1>2 DEF Listed, ProbeAbsent, Before
  <2>5. QED
    BY <1>2, <2>3, <2>4 DEF ListInv, ProbeAbsent, Listed, Before
<1>3. CASE ScanDone
  BY <1>3, ListKept DEF ScanDone
<1>4. QED
  BY <1>1, <1>2, <1>3

LEMMA PromptList ==
  ASSUME TypeOK, ListInv, Boot \/ Crash \/ Update \/ PartInfo
                          \/ \E i \in -1 .. 4 : SelectDisk(i)
  PROVE  ListInv'
<1>1. CASE Boot
  <2>1. attached' \subseteq Drives
    BY <1>1 DEF Boot
  <2>2. attached' \subseteq 0 .. 3
    BY <2>1, DriveAssumption
  <2>3. Before(0)' = {}
    <3>1. \A x \in 0 .. 3 : ~(x < 0)
      BY SMT
    <3>2. QED
      BY <2>2, <3>1 DEF Before
  <2>4. Before(probe)' = Before(0)'
    BY <1>1 DEF Boot, StartScan, Before
  <2>5. Cardinality(Before(probe)') = 0
    BY <2>3, <2>4, FS_EmptySet
  <2>6. num_disks' = 0 /\ current_disk' = -1 /\ pc' = "scan"
    BY <1>1 DEF Boot, StartScan, ListInv
  <2>7. QED
    BY <2>5, <2>6 DEF ListInv
<1>2. CASE Crash
  BY <1>2 DEF Crash, ListInv
<1>3. CASE Update
  BY <1>3, ListKept DEF Update, Command, StartScan
<1>4. CASE PartInfo
  BY <1>4, ListKept DEF PartInfo, list
<1>5. ASSUME NEW i \in -1 .. 4, SelectDisk(i)
      PROVE  ListInv'
  <2>1. \A j : Listed(j)' <=> Listed(j)
    BY <1>5 DEF Listed, SelectDisk, Before
  <2>2. current_disk' # -1 => Listed(current_disk')
    BY <1>5 DEF ListInv, SelectDisk
  <2>3. \A j : j = current_disk' /\ Listed(j) => Listed(current_disk)'
    BY <1>5 DEF Listed, SelectDisk, Before
  <2>4. QED
    BY <1>5, <2>1, <2>2, <2>3 DEF ListInv, SelectDisk, Command
<1>6. QED
  BY <1>1, <1>2, <1>3, <1>4, <1>5

LEMMA CommandList ==
  ASSUME TypeOK, ListInv,
         \/ \E mb \in SizeArgs, fs \in {"ext4", "fat32"} : CreatePartitionMb(mb, fs)
         \/ \E fs \in {"ext4", "fat32"} : FormatDisk(fs)
         \/ \E i \in -1 .. 4 : DeletePartition(i)
  PROVE  ListInv'
<1>1. /\ UNCHANGED <<attached, list>>
      /\ pc' \in {"prompt", "read_mbr"}
  BY DEF CreatePartitionMb, FormatDisk, DeletePartition, StartCommand, Command,
         Accept, Refuse
<1>2. QED
  BY <1>1, ListKept DEF list

LEMMA LeaveList ==
  ASSUME TypeOK, ListInv, Working, Leave,
         UNCHANGED <<attached, available_disks, current_disk>>
  PROVE  ListInv'
  BY ListKept DEF Leave, StartScan

LEMMA TransferList ==
  ASSUME TypeOK, ListInv, JobInv,
         \/ ReadMbrFails \/ AddEntry \/ TableFull \/ ClearEntry \/ NothingToDelete
         \/ WriteMbrFails \/ WriteMbr \/ Ext4TooSmall \/ NoBuffer \/ AllocateBuffer
         \/ ReadSuperblock \/ SuperblockFails
         \/ WriteMeta \/ WriteLastMeta \/ WriteMetaFails
  PROVE  ListInv'
<1>1. CASE \/ ReadMbrFails \/ TableFull \/ NothingToDelete \/ WriteMbrFails
           \/ Ext4TooSmall \/ NoBuffer \/ SuperblockFails \/ WriteMetaFails
  BY <1>1, LeaveList DEF ReadMbrFails, TableFull, NothingToDelete, WriteMbrFails,
     Ext4TooSmall, NoBuffer, SuperblockFails, WriteMetaFails, Fail, TableRead,
     Working
<1>2. CASE WriteLastMeta
  BY <1>2, LeaveList DEF WriteLastMeta, Working
<1>3. CASE AddEntry \/ ClearEntry
  BY <1>3, ListKept DEF AddEntry, ClearEntry, Edit, list
<1>4. CASE WriteMbr
  <2>1. pc' \notin {"off", "scan"}
    BY <1>4 DEF WriteMbr, JobInv, Working, CreateJob, DeleteJob
  <2>2. QED
    BY <1>4, <2>1, ListKept DEF WriteMbr, list
<1>5. CASE AllocateBuffer \/ ReadSuperblock \/ WriteMeta
  BY <1>5, ListKept DEF AllocateBuffer, ReadSuperblock, WriteMeta, list
<1>6. QED
  BY <1>1, <1>2, <1>3, <1>4, <1>5

LEMMA NextList ==
  ASSUME TypeOK, ListInv, JobInv, [Next]_vars
  PROVE  ListInv'
<1>1. CASE Next
  BY <1>1, ScanList, PromptList, CommandList, TransferList DEF Next, Run
<1>2. CASE UNCHANGED vars
  BY <1>2 DEF vars, list, ListInv, Listed, Before
<1>3. QED
  BY <1>1, <1>2

-----------------------------------------------------------------------------
(* The command in progress, its copy of the table, its buffer.             *)

(* The three parts of IInv about a command, which say nothing outside one. *)
CommandInv == JobInv /\ TableInv /\ NoBufferLeak

LEMMA NoCommand ==
  ASSUME ~Working', buffers' = 0
  PROVE  CommandInv'
  BY DEF CommandInv, JobInv, TableInv, NoBufferLeak, FormatOnlyListed, Working,
         Formatting

LEMMA IdleCommand ==
  ASSUME IInv,
         \/ ProbePresent \/ ProbeAbsent \/ ScanDone \/ Boot \/ Crash \/ Update
         \/ PartInfo \/ \E i \in -1 .. 4 : SelectDisk(i)
  PROVE  CommandInv'
<1> USE DEF IInv, NoBufferLeak, Working
<1>1. CASE ProbePresent \/ ProbeAbsent \/ ScanDone
  BY <1>1, NoCommand DEF ProbePresent, ProbeAbsent, ScanDone
<1>2. CASE Boot \/ Crash \/ Update
  BY <1>2, NoCommand DEF Boot, Crash, Update, StartScan, Command
<1>3. CASE PartInfo \/ \E i \in -1 .. 4 : SelectDisk(i)
  BY <1>3, NoCommand DEF PartInfo, SelectDisk, Command
<1>4. QED
  BY <1>1, <1>2, <1>3

LEMMA LeaveCommand ==
  ASSUME IInv,
         \/ ReadMbrFails \/ TableFull \/ NothingToDelete \/ WriteMbrFails
         \/ Ext4TooSmall \/ NoBuffer \/ SuperblockFails \/ WriteMetaFails
         \/ WriteLastMeta
  PROVE  CommandInv'
<1>1. ~Working'
  BY DEF ReadMbrFails, TableFull, NothingToDelete, WriteMbrFails, Ext4TooSmall,
     NoBuffer, SuperblockFails, WriteMetaFails, WriteLastMeta, Fail, Leave,
     StartScan, Working
<1>2. CASE \/ ReadMbrFails \/ TableFull \/ NothingToDelete \/ WriteMbrFails
           \/ Ext4TooSmall \/ NoBuffer
  BY <1>1, <1>2, NoCommand DEF IInv, NoBufferLeak, ReadMbrFails, TableFull,
     NothingToDelete, WriteMbrFails, Ext4TooSmall, NoBuffer, TableRead
<1>3. CASE SuperblockFails \/ WriteMetaFails \/ WriteLastMeta
  <2>1. pc = "read_superblock" => job.fs = "ext4"
    BY DEF IInv, JobInv
  <2>2. buffers' = 0
    BY <1>3, <2>1 DEF IInv, NoBufferLeak, SuperblockFails, WriteMetaFails,
       WriteLastMeta, FreeBuffer
  <2>3. QED
    BY <1>1, <2>2, NoCommand
<1>4. QED
  BY <1>2, <1>3

LEMMA StartsCommand ==
  ASSUME IInv,
         \/ \E mb \in SizeArgs, fs \in {"ext4", "fat32"} : CreatePartitionMb(mb, fs)
         \/ \E fs \in {"ext4", "fat32"} : FormatDisk(fs)
         \/ \E i \in -1 .. 4 : DeletePartition(i)
  PROVE  CommandInv'
<1>1. /\ StartCommand /\ pc = "prompt" /\ buffers' = 0
      /\ UNCHANGED <<available_disks, current_disk>> /\ said' = {}
  BY DEF CreatePartitionMb, FormatDisk, DeletePartition, StartCommand, Command,
     IInv, NoBufferLeak, list
<1>2. CASE Refuse
  BY <1>1, <1>2, NoCommand DEF Refuse, Working
<1>3. ASSUME pc' = "read_mbr", current_disk # -1,
             job'.drive = Selected.position,
             CreateJob' \/ DeleteJob',
             job'.cmd = "newpart" => /\ job'.size <= SizeMb(job'.drive)
                                     /\ job'.sectors = MB_TO_SECTORS(job'.size),
             job'.cmd = "format" =>
               /\ job'.size = SizeMb(job'.drive) /\ job'.size >= 32
               /\ job'.sectors = MB_TO_SECTORS(job'.size) - START_LBA
      PROVE  CommandInv'
  BY <1>1, <1>3 DEF CommandInv, JobInv, TableInv, NoBufferLeak, FormatOnlyListed,
     Working, Formatting, Selected, SizeMb
<1>4. current_disk # -1 => Selected.size_mb = SizeMb(Selected.position)
  BY SelectedListed DEF IInv
<1>5. ASSUME NEW mb \in SizeArgs, NEW fs \in {"ext4", "fat32"},
             CreatePartitionMb(mb, fs), ~Refuse
      PROVE  CommandInv'
  BY <1>3, <1>4, <1>5 DEF CreatePartitionMb, Accept, Job, Selected, CreateJob
<1>6. ASSUME NEW fs \in {"ext4", "fat32"}, FormatDisk(fs), ~Refuse
      PROVE  CommandInv'
  BY <1>3, <1>4, <1>6 DEF FormatDisk, Accept, Job, Selected, CreateJob
<1>7. ASSUME NEW i \in -1 .. 4, DeletePartition(i), ~Refuse
      PROVE  CommandInv'
  BY <1>3, <1>7 DEF DeletePartition, Accept, Job, Selected, DeleteJob
<1>8. QED
  BY <1>2, <1>5, <1>6, <1>7

(* What stays the same while a command that has begun goes on.             *)
LEMMA JobKept ==
  ASSUME JobInv, Working,
         UNCHANGED <<available_disks, current_disk, said>>,
         job' = [job EXCEPT !.index = job'.index],
         job \in [cmd : {"none", "newpart", "format", "delpart"},
                  drive : {-1} \union Drives, fs : {"none", "ext4", "fat32"},
                  size : Nat, sectors : Nat, index : {-1} \union Indices]
  PROVE  /\ current_disk' # -1 /\ job'.drive = Selected'.position
         /\ said' = {}
         /\ UNCHANGED <<job.cmd, job.drive, job.fs, job.size, job.sectors>>
         /\ job'.cmd = "newpart" => /\ job'.size <= SizeMb(job'.drive)
                                    /\ job'.sectors = MB_TO_SECTORS(job'.size)
         /\ job'.cmd = "format" =>
              /\ job'.size = SizeMb(job'.drive) /\ job'.size >= 32
              /\ job'.sectors = MB_TO_SECTORS(job'.size) - START_LBA
<1>1. UNCHANGED <<job.cmd, job.drive, job.fs, job.size, job.sectors>>
  OBVIOUS
<1>2. /\ current_disk # -1 /\ job.drive = Selected.position
      /\ said = {}
      /\ job.cmd = "newpart" => /\ job.size <= SizeMb(job.drive)
                                /\ job.sectors = MB_TO_SECTORS(job.size)
      /\ job.cmd = "format" => /\ job.size = SizeMb(job.drive)
                               /\ job.size >= 32
                               /\ job.sectors = MB_TO_SECTORS(job.size) - START_LBA
  BY DEF JobInv
<1>3. QED
  BY <1>1, <1>2 DEF Selected

LEMMA EditCommand ==
  ASSUME IInv, AddEntry \/ ClearEntry
  PROVE  CommandInv'
<1>1. PICK i \in Indices, e \in {NewEntry, EmptyEntry} : Edit(i, e) /\ pc = "read_mbr" /\
        \/ job.cmd \in {"newpart", "format"} /\ FirstEmpty(mbr[job.drive], i)
           /\ e = NewEntry
        \/ job.cmd = "delpart" /\ ~IsEmpty(mbr[job.drive][i])
           /\ e = EmptyEntry
  <2>1. job.cmd = "delpart" /\ pc = "read_mbr" => job.index \in Indices
    BY DEF IInv, JobInv, CreateJob, DeleteJob, Working
  <2>2. QED
    BY <2>1 DEF AddEntry, ClearEntry, TableRead
<1>2. /\ TypeOK /\ JobInv /\ Working
      /\ job \in [cmd : {"none", "newpart", "format", "delpart"},
                  drive : {-1} \union Drives, fs : {"none", "ext4", "fat32"},
                  size : Nat, sectors : Nat, index : {-1} \union Indices]
  BY <1>1 DEF IInv, TypeOK, Working
<1>3. /\ job' = [job EXCEPT !.index = i] /\ job'.index = i
      /\ pc' = "write_mbr"
      /\ UNCHANGED <<available_disks, current_disk, said, buffers, mbr>>
      /\ buf' = [mbr[job.drive] EXCEPT ![i] = e]
  BY <1>1, <1>2 DEF Edit, list, disk
<1>4. /\ current_disk' # -1 /\ job'.drive = Selected'.position /\ said' = {}
      /\ UNCHANGED <<job.cmd, job.drive, job.fs, job.size, job.sectors>>
      /\ job'.cmd = "newpart" => /\ job'.size <= SizeMb(job'.drive)
                                 /\ job'.sectors = MB_TO_SECTORS(job'.size)
      /\ job'.cmd = "format" =>
           /\ job'.size = SizeMb(job'.drive) /\ job'.size >= 32
           /\ job'.sectors = MB_TO_SECTORS(job'.size) - START_LBA
  BY <1>2, <1>3, JobKept
<1>5. CreateJob' \/ DeleteJob'
  BY <1>1, <1>2, <1>3, <1>4 DEF JobInv, CreateJob, DeleteJob
<1>6. JobInv'
  BY <1>3, <1>4, <1>5 DEF JobInv, Selected, SizeMb
<1>7. /\ job.cmd \in {"newpart", "format"} => CreateJob'
      /\ job.cmd = "delpart" => DeleteJob'
      /\ NewEntry' = NewEntry
  BY <1>4, <1>5 DEF CreateJob, DeleteJob, NewEntry
<1>8. TableInv'
  BY <1>1, <1>3, <1>4, <1>7 DEF TableInv, FormatOnlyListed, Formatting, FirstEmpty
<1>9. NoBufferLeak'
  BY <1>1, <1>3 DEF IInv, NoBufferLeak
<1>10. QED
  BY <1>6, <1>8, <1>9 DEF CommandInv

(* The table is on the drive, and the format can begin.                    *)
LEMMA WriteMbrCommand ==
  ASSUME IInv, WriteMbr
  PROVE  CommandInv'
<1>1. /\ TypeOK /\ JobInv /\ TableInv /\ Working /\ pc = "write_mbr"
      /\ buffers = 0 /\ buffers' = 0 /\ job' = job
      /\ UNCHANGED <<available_disks, current_disk>>
  BY DEF IInv, Working, WriteMbr, NoBufferLeak, list
<1>2. CASE job.cmd = "delpart"
  <2>1. job.fs = "none"
    BY <1>1, <1>2 DEF JobInv, CreateJob, DeleteJob
  <2>2. pc' = "prompt"
    BY <1>2, <2>1 DEF WriteMbr
  <2>3. QED
    BY <1>1, <2>2, NoCommand DEF Working
<1>3. CASE job.cmd # "delpart"
  <2>1. CreateJob /\ job.index \in Indices
        /\ buf = [mbr[job.drive] EXCEPT ![job.index] = NewEntry]
    BY <1>1, <1>3 DEF TableInv, DeleteJob
  <2>2. /\ job.fs = "ext4" => pc' = "format_ext4"
        /\ job.fs = "fat32" => pc' = "write_meta" /\ step' = 1
        /\ said' = said
    BY <1>3, <2>1 DEF WriteMbr, CreateJob
  <2>3. mbr'[job.drive][job.index] = NewEntry
    <3>1. job.drive \in Drives /\ mbr[job.drive] \in Tables
      BY <1>1, JobTyped
    <3>2. mbr'[job.drive] = buf
      BY <1>1, <3>1 DEF WriteMbr, TypeOK
    <3>3. QED
      BY <2>1, <3>1, <3>2 DEF Tables
  <2>4. JobInv'
    BY <1>1, <2>1, <2>2 DEF JobInv, Working, CreateJob, DeleteJob, Selected,
       PlanLength, SizeMb
  <2>5. TableInv'
    BY <1>1, <2>1, <2>2, <2>3 DEF TableInv, FormatOnlyListed, CreateJob,
       Formatting, NewEntry
  <2>6. NoBufferLeak'
    BY <1>1, <2>1, <2>2 DEF NoBufferLeak, CreateJob
  <2>7. QED
    BY <2>4, <2>5, <2>6 DEF CommandInv
<1>4. QED
  BY <1>2, <1>3

LEMMA MetadataCommand ==
  ASSUME IInv, AllocateBuffer \/ ReadSuperblock \/ WriteMeta
  PROVE  CommandInv'
<1>1. /\ Formatting /\ Formatting' /\ Working /\ pc' # "write_mbr"
      /\ UNCHANGED <<job, mbr, available_disks, current_disk, said>>
  BY DEF AllocateBuffer, ReadSuperblock, WriteMeta, Formatting, Working, disk, list
<1>2. TableInv'
  BY <1>1 DEF IInv, TableInv, FormatOnlyListed, CreateJob, Formatting, NewEntry
<1>3. NoBufferLeak'
  BY <1>1 DEF IInv, NoBufferLeak, JobInv, AllocateBuffer, ReadSuperblock, WriteMeta
<1>4. JobInv'
  <2>1. /\ Working =>
             /\ current_disk' # -1 /\ job'.drive = Selected'.position
             /\ said' = {}
             /\ CreateJob' \/ DeleteJob'
             /\ job'.cmd = "newpart" => /\ job'.size <= SizeMb(job'.drive)
                                        /\ job'.sectors = MB_TO_SECTORS(job'.size)
             /\ job'.cmd = "format" =>
                  /\ job'.size = SizeMb(job'.drive) /\ job'.size >= 32
                  /\ job'.sectors = MB_TO_SECTORS(job'.size) - START_LBA
    BY <1>1 DEF IInv, JobInv, CreateJob, DeleteJob, Selected
  <2>2. CASE AllocateBuffer
    BY <1>1, <2>1, <2>2 DEF IInv, JobInv, AllocateBuffer, Selected, SizeMb, CreateJob, DeleteJob
  <2>3. CASE ReadSuperblock
    <3>1. step' = 1 /\ pc' = "write_meta" /\ job.fs = "ext4"
          /\ Groups(job.sectors) \in 1 .. MAX_GROUPS
          /\ job.sectors >= MIN_EXT4_SECTORS
      BY <2>3 DEF IInv, JobInv, ReadSuperblock
    <3>2. PlanLength(job.fs, job.sectors) = 1 + 3 * Groups(job.sectors)
      BY <3>1 DEF PlanLength
    <3>3. \A g \in 1 .. MAX_GROUPS : 1 \in 1 .. 1 + 3 * g
      BY SMT DEF MAX_GROUPS
    <3>4. step' \in 1 .. PlanLength(job.fs, job.sectors)
      BY <3>1, <3>2, <3>3
    <3>5. QED
      BY <1>1, <2>1, <3>1, <3>4 DEF JobInv, Selected, SizeMb, CreateJob, DeleteJob
  <2>4. CASE WriteMeta
    <3>1. pc = "write_meta" /\ pc' = pc
          /\ step' = step + 1 /\ step < PlanLength(job.fs, job.sectors)
          /\ step \in 1 .. PlanLength(job.fs, job.sectors)
      BY <2>4 DEF IInv, JobInv, WriteMeta
    <3>2. PlanLength(job.fs, job.sectors) \in Int
      BY <3>1 DEF PlanLength, Groups, Blocks, IInv, TypeOK
    <3>3. step' \in 1 .. PlanLength(job.fs, job.sectors)
      BY <3>1, <3>2
    <3>4. QED
      BY <1>1, <2>1, <3>1, <3>3 DEF IInv, JobInv, Selected, SizeMb, CreateJob, DeleteJob
  <2>5. QED
    BY <2>2, <2>3, <2>4
<1>5. QED
  BY <1>2, <1>3, <1>4 DEF CommandInv

-----------------------------------------------------------------------------
(* The inductive invariant.                                                *)
LEMMA InitIInv ==
  ASSUME Init
  PROVE  IInv
<1>1. NoDisks \in [0 .. MAX_DISKS - 1 -> Disks]
  BY DEF NoDisks, NoDisk, Disks
<1>2. DOMAIN data = Drives /\ \A d \in Drives : DOMAIN data[d] \subseteq Nat
  BY DEF Init
<1>3. TypeOK
  BY <1>1, <1>2, DriveAssumption DEF Init, TypeOK, NoJob, Working, MAX_DISKS
<1>4. ListInv
  BY DEF Init, ListInv
<1>5. JobInv /\ TableInv /\ NoBufferLeak
  BY DEF Init, JobInv, TableInv, NoBufferLeak, FormatOnlyListed, Working, Formatting
<1>6. QED
  BY <1>3, <1>4, <1>5 DEF IInv

LEMMA NextIInv ==
  ASSUME IInv, [Next]_vars
  PROVE  IInv'
<1>1. TypeOK'
  BY NextTypes
<1>2. ListInv'
  BY NextList DEF IInv
<1>3. CASE Next
  <2>1. CommandInv'
    BY <1>3, IdleCommand, LeaveCommand, StartsCommand, EditCommand,
       WriteMbrCommand, MetadataCommand DEF Next, Run
  <2>2. QED
    BY <1>1, <1>2, <2>1 DEF IInv, CommandInv
<1>4. CASE UNCHANGED vars
  <2>1. JobInv' /\ TableInv' /\ NoBufferLeak'
    BY <1>4 DEF vars, disk, list, bounds, IInv, JobInv, TableInv, NoBufferLeak,
       FormatOnlyListed, Working, Formatting, CreateJob, DeleteJob, NewEntry,
       FirstEmpty, Selected, SizeMb
  <2>2. QED
    BY <1>1, <1>2, <2>1 DEF IInv
<1>5. QED
  BY <1>3, <1>4

THEOREM AlwaysIInv == Spec => []IInv
<1>1. Init => IInv
  BY InitIInv
<1>2. IInv /\ [Next]_vars => IInv'
  BY NextIInv
<1>3. QED
  BY <1>1, <1>2, PTL DEF Spec

(* The variables keep their types: in particular the disk list never grows *)
(* past its four records and a selection is one of them.                   *)
THEOREM TypeCorrect == Spec => []TypeOK
<1>1. IInv => TypeOK
  BY DEF IInv
<1>2. QED
  BY <1>1, AlwaysIInv, PTL

(* select_disk, init_disktool and the commands agree: a selected index     *)
(* denotes an attached drive, as the scan found it, also during a rescan.  *)
THEOREM SelectionAlwaysSound == Spec => []SelectionSound
<1>1. IInv => SelectionSound
  BY SelectedListed DEF IInv, SelectionSound, JobInv
<1>2. QED
  BY <1>1, AlwaysIInv, PTL

(* A format writes metadata only for a partition the drive's table lists.  *)
THEOREM FormatsOnlyListed == Spec => []FormatOnlyListed
<1>1. IInv => FormatOnlyListed
  BY DEF IInv, TableInv
<1>2. QED
  BY <1>1, AlwaysIInv, PTL

(* Every way out of format_ext4 frees the buffer, once.                    *)
THEOREM BuffersFreed == Spec => []NoBufferLeak
<1>1. IInv => NoBufferLeak
  BY DEF IInv
<1>2. QED
  BY <1>1, AlwaysIInv, PTL

-----------------------------------------------------------------------------
(* What the bound on the disks' sizes does for the arithmetic.             *)
LEMMA JobSize ==
  ASSUME IInv, Working, job.cmd # "delpart"
  PROVE  /\ job.drive \in Drives /\ job.size \in Nat /\ job.sectors \in Nat
         /\ job.size <= SizeMb(job.drive) /\ job.size <= MaxSizeMb
         /\ MB_TO_SECTORS(job.size) = job.size * SECTORS_PER_MB
         /\ job.size * SECTORS_PER_MB <= Capacity[job.drive]
         /\ \/ job.cmd = "newpart" /\ job.sectors = job.size * SECTORS_PER_MB
            \/ job.cmd = "format" /\ job.size >= 32
               /\ job.sectors = job.size * SECTORS_PER_MB - START_LBA
<1>1. job.drive \in Drives /\ job.size \in Nat /\ job.sectors \in Nat
  BY DEF IInv, TypeOK
<1>2. SizeMb(job.drive) \in Nat /\ SizeMb(job.drive) <= MaxSizeMb
      /\ SizeMb(job.drive) * SECTORS_PER_MB <= Capacity[job.drive]
      /\ Capacity[job.drive] \in Nat
  <2>1. Capacity[job.drive] \in Nat
    BY <1>1, DriveAssumption
  <2>2. QED
    BY <1>1, <2>1, SizeTyped, SizeBound, Zenon
<1>3. job.size <= SizeMb(job.drive)
  BY <1>1, <1>2 DEF IInv, JobInv, CreateJob, DeleteJob
<1>4. job.size <= MaxSizeMb /\ job.size \in 0 .. MaxSizeMb
  <2>1. \A m \in Nat, n \in Nat :
           m <= n /\ n <= MaxSizeMb => m <= MaxSizeMb /\ m \in 0 .. MaxSizeMb
    BY SMT DEF MaxSizeMb
  <2>2. QED
    BY <1>1, <1>2, <1>3, <2>1, Zenon
<1>5. MB_TO_SECTORS(job.size) = job.size * SECTORS_PER_MB
  BY <1>4, NoWrap, Zenon
<1>6. job.size * SECTORS_PER_MB <= Capacity[job.drive]
  BY <1>1, <1>2, <1>3, SMT DEF SECTORS_PER_MB
<1>7. \/ job.cmd = "newpart" /\ job.sectors = job.size * SECTORS_PER_MB
      \/ job.cmd = "format" /\ job.size >= 32
         /\ job.sectors = job.size * SECTORS_PER_MB - START_LBA
  BY <1>5, Zenon DEF IInv, JobInv, CreateJob, DeleteJob
<1>8. QED
  BY <1>1, <1>3, <1>4, <1>5, <1>6, <1>7, Zenon

LEMMA JobSectors ==
  ASSUME IInv, Working, job.cmd # "delpart"
  PROVE  job.sectors \in Nat /\ job.sectors <= MaxSizeMb * SECTORS_PER_MB
<1>1. \A m \in Nat : m <= MaxSizeMb => m * SECTORS_PER_MB <= MaxSizeMb * SECTORS_PER_MB
  BY SMT DEF SECTORS_PER_MB, MaxSizeMb
<1>2. \A m \in Nat : m * SECTORS_PER_MB - START_LBA <= m * SECTORS_PER_MB
  BY SMT DEF START_LBA, SECTORS_PER_MB
<1>3. job.size * SECTORS_PER_MB <= MaxSizeMb * SECTORS_PER_MB
  BY <1>1, JobSize
<1>4. job.sectors <= job.size * SECTORS_PER_MB
  BY <1>2, JobSize, SMT DEF SECTORS_PER_MB
<1>5. QED
  BY <1>3, <1>4, JobSize, SMT DEF SECTORS_PER_MB, MaxSizeMb

(* The 32-bit products of partition.c and disktool.c never wrap around for *)
(* a partition that passes create_partition_mb or format_disk.             *)
THEOREM ArithmeticAlwaysExact == Spec => []ArithmeticExact
<1>1. ASSUME IInv
      PROVE  ArithmeticExact
  <2> SUFFICES ASSUME Working, job.cmd # "delpart"
               PROVE  /\ job.cmd = "newpart" => job.sectors = job.size * SECTORS_PER_MB
                      /\ \A g \in 0 .. Groups(job.sectors) - 1 :
                           BitmapLba(g) = START_LBA + g * GROUP_SECTORS
    BY DEF ArithmeticExact
  <2>1. job.cmd = "newpart" => job.sectors = job.size * SECTORS_PER_MB
    BY <1>1, JobSize
  <2>2. job.sectors \in Nat /\ job.sectors <= MaxSizeMb * SECTORS_PER_MB
    BY <1>1, JobSectors
  <2>3. \A g \in 0 .. Groups(job.sectors) - 1 : g \in 0 .. 31
    BY <2>2, GroupsBound
  <2>4. QED
    BY <2>1, <2>3, GroupPlace
<1>2. QED
  BY <1>1, AlwaysIInv, PTL

(* No partition is larger than its drive and the one format makes ends on  *)
(* it, for any capacity: the truncation of the size can only make the      *)
(* partition smaller.                                                      *)
THEOREM PartitionAlwaysFits == Spec => []PartitionFits
<1>1. ASSUME IInv
      PROVE  PartitionFits
  <2> SUFFICES ASSUME Working, job.cmd # "delpart"
               PROVE  /\ job.sectors <= Capacity[job.drive]
                      /\ job.cmd = "format" =>
                           START_LBA + job.sectors <= Capacity[job.drive]
    BY DEF PartitionFits
  <2>1. /\ job.size \in Nat /\ job.drive \in Drives
        /\ job.size * SECTORS_PER_MB <= Capacity[job.drive]
        /\ \/ job.cmd = "newpart" /\ job.sectors = job.size * SECTORS_PER_MB
           \/ job.cmd = "format"
              /\ job.sectors = job.size * SECTORS_PER_MB - START_LBA
    BY <1>1, JobSize
  <2>2. Capacity[job.drive] \in Nat
    BY <2>1, DriveAssumption
  <2>3. START_LBA \in Nat /\ SECTORS_PER_MB \in Nat
    BY SMT DEF START_LBA, SECTORS_PER_MB
  <2>4. QED
    BY <2>1, <2>2, <2>3, SMT
<1>2. QED
  BY <1>1, AlwaysIInv, PTL

(* The 32-bit byte count of init_disktool never makes a drive larger than  *)
(* it is, whatever its capacity.                                           *)
THEOREM DrivesNeverOverstated == Spec => []DrivesNotOverstated
<1>1. ASSUME IInv
      PROVE  DrivesNotOverstated
  <2> SUFFICES ASSUME NEW i \in 0 .. num_disks - 1
               PROVE  available_disks[i].size_mb * SECTORS_PER_MB
                        <= Capacity[available_disks[i].position]
    BY DEF DrivesNotOverstated
  <2> DEFINE p == available_disks[i].position
  <2>1. p \in Drives /\ available_disks[i] = Identify(p)
    BY <1>1 DEF IInv, ListInv, Listed, TypeOK
  <2>2. available_disks[i].size_mb = SizeMb(p)
    BY <2>1 DEF Identify
  <2>3. QED
    BY <2>1, <2>2, SizeBound
<1>2. QED
  BY <1>1, AlwaysIInv, PTL

(* Sizes, and the places computed from them, are right for all drives.     *)
THEOREM SizesAlwaysExact == Spec => []SizesExact
<1>1. DrivesNotOverstated /\ ArithmeticExact /\ PartitionFits => SizesExact
  BY DEF SizesExact
<1>2. QED
  BY <1>1, DrivesNeverOverstated, ArithmeticAlwaysExact, PartitionAlwaysFits, PTL

-----------------------------------------------------------------------------
(* What a step may never do.                                               *)

(* A rescan never makes the selected index denote another drive.           *)
THEOREM SelectionAlwaysStable == Spec => SelectionStable
<1>1. ASSUME IInv, IInv', [Next]_vars,
             current_disk # -1, current_disk' = current_disk
      PROVE  available_disks'[current_disk].position = Selected.position
  <2>1. attached' = attached
    <3>1. ~Boot /\ ~Crash
      BY <1>1 DEF Boot, Crash, IInv, ListInv
    <3>2. CASE Next
      BY <3>1, <3>2 DEF Next, Run, Update, PartInfo, SelectDisk, DeletePartition,
         FormatDisk, CreatePartitionMb, StartCommand, ProbePresent, ProbeAbsent,
         ScanDone, ReadMbrFails, AddEntry, TableFull, ClearEntry, NothingToDelete,
         WriteMbrFails, WriteMbr, Ext4TooSmall, NoBuffer, AllocateBuffer,
         ReadSuperblock, SuperblockFails, WriteMeta, WriteLastMeta,
         WriteMetaFails, Fail, Edit
    <3>3. QED
      BY <1>1, <3>2 DEF vars
  <2>2. attached \subseteq Drives
    BY <1>1 DEF IInv, TypeOK
  <2>3. /\ Selected.position \in attached
        /\ Cardinality(Before(Selected.position)) = current_disk
    BY <1>1 DEF IInv, ListInv, Listed, Selected
  <2>4. /\ available_disks'[current_disk].position \in attached
        /\ Cardinality(Before(available_disks'[current_disk].position)) = current_disk
    <3>1. \A p : Before(p)' = Before(p)
      BY <2>1 DEF Before
    <3>2. current_disk' # -1 /\ Listed(current_disk)'
      BY <1>1 DEF IInv, ListInv
    <3>3. QED
      BY <1>1, <2>1, <3>2 DEF Listed, Before
  <2>5. QED
    BY <2>2, <2>3, <2>4, BeforeUnique
<1>2. QED
  BY <1>1, AlwaysIInv, PTL DEF Spec, SelectionStable

LEMMA DiskWritten ==
  ASSUME IInv, [Next]_vars
  PROVE  \/ UNCHANGED disk
         \/ /\ Working
            /\ mbr' = mbr \/ (pc = "write_mbr" /\ mbr' = [mbr EXCEPT ![job.drive] = buf])
            /\ data' = data \/ (pc = "write_meta" /\ data' = Written)
<1>1. CASE Next
  BY <1>1 DEF Next, Run, Boot, Crash, Update, PartInfo, SelectDisk,
     DeletePartition, FormatDisk, CreatePartitionMb, StartCommand, ProbePresent,
     ProbeAbsent, ScanDone, ReadMbrFails, AddEntry, TableFull, ClearEntry,
     NothingToDelete, WriteMbrFails, WriteMbr, Ext4TooSmall, NoBuffer,
     AllocateBuffer, ReadSuperblock, SuperblockFails, WriteMeta, WriteLastMeta,
     WriteMetaFails, Edit, Working, disk
<1>2. CASE UNCHANGED vars
  BY <1>2 DEF vars
<1>3. QED
  BY <1>1, <1>2

(* A command never writes to a drive other than the selected one.          *)
THEOREM OnlySelectedEverWritten == Spec => OnlySelectedWritten
<1>1. IInv /\ [Next]_vars =>
        [\A d \in Drives :
           mbr'[d] # mbr[d] \/ data'[d] # data[d] =>
             current_disk # -1 /\ d = Selected.position]_vars
  <2> SUFFICES ASSUME IInv, [Next]_vars, NEW d \in Drives,
                      mbr'[d] # mbr[d] \/ data'[d] # data[d]
               PROVE  current_disk # -1 /\ d = Selected.position
    OBVIOUS
  <2>1. /\ Working
        /\ mbr' = mbr \/ mbr' = [mbr EXCEPT ![job.drive] = buf]
        /\ data' = data \/ data' = Written
    BY DiskWritten DEF disk
  <2>2. d = job.drive
    BY <2>1 DEF Written, IInv, TypeOK
  <2>3. QED
    BY <2>1, <2>2 DEF IInv, JobInv
<1>2. QED
  BY <1>1, AlwaysIInv, PTL DEF Spec, OnlySelectedWritten

-----------------------------------------------------------------------------
(* The tables of the drives change one entry at a time, whatever fails.    *)
LEMMA TableStep ==
  ASSUME IInv, [Next]_vars
  PROVE  [Table!Next]_mbr
<1>1. CASE mbr' = mbr
  BY <1>1
<1>2. CASE pc = "write_mbr" /\ mbr' = [mbr EXCEPT ![job.drive] = buf]
  <2> DEFINE d == job.drive
             i == job.index
  <2>1. /\ d \in Drives /\ mbr \in [Drives -> Tables] /\ mbr[d] \in Tables
        /\ i \in Indices
    BY <1>2 DEF IInv, TypeOK, TableInv, Working
  <2>2. /\ mbr'[d] = buf
        /\ mbr' = [mbr EXCEPT ![d] = buf]
    BY <1>2, <2>1
  <2>3. CASE CreateJob /\ FirstEmpty(mbr[d], i)
             /\ buf = [mbr[d] EXCEPT ![i] = NewEntry]
    <3>1. mbr'[d][i] = NewEntry
      BY <2>1, <2>2, <2>3 DEF Tables
    <3>2. ~Table!IsEmpty(NewEntry)
      BY <2>3 DEF CreateJob, NewEntry, Table!IsEmpty
    <3>3. mbr' = [mbr EXCEPT ![d][i] = NewEntry]
      BY <2>2, <2>3
    <3>4. Table!FirstEmpty(mbr[d], i)
      BY <2>3 DEF FirstEmpty, IsEmpty, Indices, Table!FirstEmpty, Table!IsEmpty,
         Table!Indices
    <3>5. Table!Add(d, i, mbr'[d][i])
      BY <3>1, <3>2, <3>3, <3>4 DEF Table!Add
    <3>6. QED
      BY <2>1, <3>5 DEF Table!Next, Indices, Table!Indices
  <2>4. CASE ~IsEmpty(mbr[d][i]) /\ buf = [mbr[d] EXCEPT ![i] = EmptyEntry]
    <3>1. Table!Remove(d, i)
      BY <2>2, <2>4 DEF Table!Remove, Table!IsEmpty, IsEmpty, EmptyEntry,
         Table!EmptyEntry
    <3>2. QED
      BY <2>1, <3>1 DEF Table!Next, Indices, Table!Indices
  <2>5. QED
    BY <1>2, <2>3, <2>4 DEF IInv, TableInv
<1>3. QED
  BY <1>1, <1>2, DiskWritten DEF disk

(* The disk tool implements what partitioning promises: a partition is     *)
(* added in the first empty entry or removed, and every other entry of     *)
(* every table stays what it was, through errors and power losses.         *)
THEOREM TableImplemented == Spec => ImplementsTable
<1>1. Init => Table!Init
  BY DEF Init, Table!Init
<1>2. IInv /\ [Next]_vars => [Table!Next]_mbr
  BY TableStep
<1>3. QED
  BY <1>1, <1>2, AlwaysIInv, PTL DEF Spec, ImplementsTable, Table!Spec

-----------------------------------------------------------------------------
(***************************************************************************)
(* Proofs about the metadata a format writes: every sector of it lies in   *)
(* the partition, no two of them collide, and when the format claims       *)
(* success all of them are on the drive.                                   *)
(***************************************************************************)

(* The sectors of the least partition that is not empty: one megabyte.     *)
LeastSectors == 2048

(* The k-th metadata sector of the format in progress is on the drive.     *)
Done(k) ==
  LET s == PlanSector(job.fs, job.sectors, k) IN
  s.lba \in DOMAIN data[job.drive] /\ data[job.drive][s.lba] = s.what

MetaInv ==
  /\ pc = "write_meta" => \A k \in 1 .. step - 1 : Done(k)
  /\ SuccessMeansDone

-----------------------------------------------------------------------------
(* Where the metadata sectors are.                                         *)

LEMMA Ext4Places ==
  ASSUME NEW n \in Nat, n <= MaxSizeMb * SECTORS_PER_MB,
         NEW k \in 1 .. 1 + 3 * Groups(n)
  PROVE  \/ k = 1 /\ Ext4Sector(k, n).lba = START_LBA + 2
         \/ \E g \in 0 .. Groups(n) - 1 :
              \/ k = 2 + 3 * g /\ Ext4Sector(k, n).lba = START_LBA + 3 + g
              \/ k = 3 + 3 * g /\ Ext4Sector(k, n).lba = START_LBA + g * GROUP_SECTORS
              \/ k = 4 + 3 * g /\ Ext4Sector(k, n).lba = START_LBA + g * GROUP_SECTORS + 1
<1>1. Groups(n) \in 0 .. 32
  BY GroupsBound
<1>2. START_LBA \in Nat
  BY SMT DEF START_LBA
<1>3. CASE k = 1
  BY <1>2, <1>3, SMT DEF Ext4Sector, SuperblockLba
<1>4. CASE k # 1
  <2> DEFINE g == (k - 2) \div 3
  <2>1. /\ g \in 0 .. Groups(n) - 1 /\ g \in 0 .. 31 /\ k > 1
        /\ \/ (k - 2) % 3 = 0 /\ k = 2 + 3 * g
           \/ (k - 2) % 3 = 1 /\ k = 3 + 3 * g
           \/ (k - 2) % 3 = 2 /\ k = 4 + 3 * g
    BY <1>1, <1>4, SMT
  <2>2. /\ BitmapLba(g) = START_LBA + g * GROUP_SECTORS
        /\ SuperblockLba + 1 + g = START_LBA + 3 + g
    BY <1>2, <2>1, GroupPlace, SMT DEF SuperblockLba, GROUP_SECTORS
  <2>3. /\ (k - 2) % 3 = 0 => Ext4Sector(k, n).lba = SuperblockLba + 1 + g
        /\ (k - 2) % 3 = 1 => Ext4Sector(k, n).lba = BitmapLba(g)
        /\ (k - 2) % 3 = 2 => Ext4Sector(k, n).lba = BitmapLba(g) + 1
    BY <2>1, SMT DEF Ext4Sector
  <2> HIDE DEF g
  <2>4. QED
    BY <2>1, <2>2, <2>3
<1>5. QED
  BY <1>3, <1>4

LEMMA FatPlaces ==
  ASSUME NEW n \in Nat, NEW k \in 1 .. 3
  PROVE  /\ FatSector(1, n).lba = START_LBA
         /\ FatSector(2, n).lba = START_LBA + 32
         /\ FatSector(3, n).lba = START_LBA + 32 + SECTORS_PER_FAT(n)
         /\ FatSector(2, n).what = FatSector(3, n).what
         /\ SECTORS_PER_FAT(n) \in Nat
         /\ n >= LeastSectors => SECTORS_PER_FAT(n) <= n - 33
<1>1. SECTORS_PER_FAT(n) \in Nat /\ (n >= LeastSectors => SECTORS_PER_FAT(n) <= n - 33)
  BY SMT DEF SECTORS_PER_FAT, RESERVED_SECTORS, LeastSectors
<1>2. QED
  BY <1>1, SMT DEF FatSector, RESERVED_SECTORS, START_LBA

(* No metadata sector overwrites another with something else.              *)
LEMMA PlacesAgree ==
  ASSUME NEW fs \in {"ext4", "fat32"},
         NEW n \in Nat, n <= MaxSizeMb * SECTORS_PER_MB,
         NEW k \in 1 .. PlanLength(fs, n), NEW l \in 1 .. PlanLength(fs, n),
         PlanSector(fs, n, k).lba = PlanSector(fs, n, l).lba
  PROVE  PlanSector(fs, n, k).what = PlanSector(fs, n, l).what
<1>1. START_LBA \in Nat
  BY SMT DEF START_LBA
<1>2. CASE fs = "fat32"
  <2>1. k \in 1 .. 3 /\ l \in 1 .. 3
    BY <1>2 DEF PlanLength
  <2>2. /\ FatSector(1, n).lba = START_LBA
        /\ FatSector(2, n).lba = START_LBA + 32
        /\ FatSector(3, n).lba = START_LBA + 32 + SECTORS_PER_FAT(n)
        /\ FatSector(2, n).what = FatSector(3, n).what
        /\ SECTORS_PER_FAT(n) \in Nat
    BY <2>1, FatPlaces
  <2>3. FatSector(k, n).lba = FatSector(l, n).lba
    BY <1>2 DEF PlanSector
  <2>4. k = l \/ (k \in 2 .. 3 /\ l \in 2 .. 3)
    BY <1>1, <2>1, <2>2, <2>3, SMT
  <2>5. FatSector(k, n).what = FatSector(l, n).what
    BY <2>2, <2>4
  <2>6. QED
    BY <1>2, <2>5 DEF PlanSector
<1>3. CASE fs = "ext4"
  <2>1. k \in 1 .. 1 + 3 * Groups(n) /\ l \in 1 .. 1 + 3 * Groups(n)
    BY <1>3 DEF PlanLength
  <2>2. Ext4Sector(k, n).lba = Ext4Sector(l, n).lba
    BY <1>3 DEF PlanSector
  <2>3. \A g \in 0 .. Groups(n) - 1 : g \in 0 .. 31
    BY GroupsBound
  <2> DEFINE Place(j, a) ==
               \/ j = 1 /\ a = START_LBA + 2
               \/ \E g \in 0 .. 31 :
                    \/ j = 2 + 3 * g /\ a = START_LBA + 3 + g
                    \/ j = 3 + 3 * g /\ a = START_LBA + g * GROUP_SECTORS
                    \/ j = 4 + 3 * g /\ a = START_LBA + g * GROUP_SECTORS + 1
  <2>4. Place(k, Ext4Sector(k, n).lba) /\ Place(l, Ext4Sector(l, n).lba)
    BY <2>1, <2>3, Ext4Places
  <2>5. \A a : Place(k, a) /\ Place(l, a) => k = l
    BY <1>1, SMT DEF GROUP_SECTORS
  <2> HIDE DEF Place
  <2>6. k = l
    BY <2>2, <2>4, <2>5
  <2>7. QED
    BY <2>6
<1>4. QED
  BY <1>2, <1>3

(* The partition being formatted.                                          *)
LEMMA FormatSize ==
  ASSUME IInv, pc = "write_meta"
  PROVE  /\ job.fs \in {"ext4", "fat32"} /\ job.drive \in Drives
         /\ job.sectors \in Nat /\ job.sectors <= MaxSizeMb * SECTORS_PER_MB
         /\ job.sectors > 0 => job.sectors >= LeastSectors
         /\ job.fs = "ext4" => job.sectors >= MIN_EXT4_SECTORS
         /\ step \in 1 .. PlanLength(job.fs, job.sectors)
<1>1. /\ Working /\ CreateJob /\ job.cmd # "delpart"
      /\ step \in 1 .. PlanLength(job.fs, job.sectors)
      /\ job.fs = "ext4" => job.sectors >= MIN_EXT4_SECTORS
  BY DEF IInv, Working, Formatting, TableInv, JobInv, CreateJob
<1>2. /\ job.drive \in Drives /\ job.size \in Nat
      /\ \/ job.sectors = job.size * SECTORS_PER_MB
         \/ /\ job.size >= 32
            /\ job.sectors = job.size * SECTORS_PER_MB - START_LBA
  BY <1>1, JobSize
<1>3. job.sectors \in Nat /\ job.sectors <= MaxSizeMb * SECTORS_PER_MB
  BY <1>1, JobSectors
<1>4. job.sectors > 0 => job.sectors >= LeastSectors
  BY <1>2, SMT DEF SECTORS_PER_MB, START_LBA, LeastSectors
<1>5. job.fs = "ext4" => job.sectors >= MIN_EXT4_SECTORS
  BY <1>1
<1>6. job.fs \in {"ext4", "fat32"}
  BY <1>1 DEF CreateJob
<1>7. QED
  BY <1>1, <1>2, <1>3, <1>4, <1>5, <1>6, Zenon

LEMMA MetaInside ==
  ASSUME IInv
  PROVE  MetadataInside
<1> SUFFICES ASSUME pc = "write_meta", job.sectors > 0
             PROVE  Sector.lba \in START_LBA .. START_LBA + job.sectors - 1
  BY DEF MetadataInside
<1> DEFINE n == job.sectors
<1>1. /\ job.fs \in {"ext4", "fat32"}
      /\ n \in Nat /\ n <= MaxSizeMb * SECTORS_PER_MB /\ n >= LeastSectors
      /\ job.fs = "ext4" => n >= MIN_EXT4_SECTORS
      /\ step \in 1 .. PlanLength(job.fs, n)
  BY FormatSize, Zenon
<1>2. START_LBA \in Nat
  BY SMT DEF START_LBA
<1>3. CASE job.fs = "fat32"
  <2>1. step \in 1 .. 3
    BY <1>1, <1>3 DEF PlanLength
  <2>2. /\ FatSector(1, n).lba = START_LBA
        /\ FatSector(2, n).lba = START_LBA + 32
        /\ FatSector(3, n).lba = START_LBA + 32 + SECTORS_PER_FAT(n)
        /\ SECTORS_PER_FAT(n) \in Nat /\ SECTORS_PER_FAT(n) <= n - 33
    BY <1>1, <2>1, FatPlaces, Zenon
  <2>3. FatSector(step, n).lba \in START_LBA .. START_LBA + n - 1
    BY <1>1, <1>2, <2>1, <2>2, SMT DEF LeastSectors
  <2>4. QED
    BY <1>3, <2>3 DEF Sector, PlanSector
<1>4. CASE job.fs = "ext4"
  <2>1. step \in 1 .. 1 + 3 * Groups(n)
    BY <1>1, <1>4 DEF PlanLength
  <2>2. \A g \in 0 .. Groups(n) - 1 : g \in 0 .. 31 /\ g * GROUP_SECTORS + 8 <= n
    BY <1>1, GroupsBound, Zenon
  <2>3. \/ step = 1 /\ Ext4Sector(step, n).lba = START_LBA + 2
        \/ \E g \in 0 .. Groups(n) - 1 :
             \/ Ext4Sector(step, n).lba = START_LBA + 3 + g
             \/ Ext4Sector(step, n).lba = START_LBA + g * GROUP_SECTORS
             \/ Ext4Sector(step, n).lba = START_LBA + g * GROUP_SECTORS + 1
    BY <1>1, <2>1, Ext4Places, Zenon
  <2>4. Ext4Sector(step, n).lba \in START_LBA .. START_LBA + n - 1
    <3>1. CASE Ext4Sector(step, n).lba = START_LBA + 2
      BY <1>1, <1>2, <3>1, SMT DEF LeastSectors
    <3>2. ASSUME NEW g \in 0 .. 31, g * GROUP_SECTORS + 8 <= n,
                 \/ Ext4Sector(step, n).lba = START_LBA + 3 + g
                 \/ Ext4Sector(step, n).lba = START_LBA + g * GROUP_SECTORS
                 \/ Ext4Sector(step, n).lba = START_LBA + g * GROUP_SECTORS + 1
          PROVE  Ext4Sector(step, n).lba \in START_LBA .. START_LBA + n - 1
      BY <1>1, <1>2, <3>2, SMT DEF LeastSectors, GROUP_SECTORS
    <3>3. QED
      BY <2>2, <2>3, <3>1, <3>2, Zenon
  <2>5. QED
    BY <1>4, <2>4 DEF Sector, PlanSector
<1>5. QED
  BY <1>1, <1>3, <1>4

(* The metadata of a partition with any sectors at all lies inside of it.  *)
THEOREM MetadataAlwaysInside == Spec => []MetadataInside
BY MetaInside, AlwaysIInv, PTL

LEMMA AddressesTyped == ADDRESSES \in Nat /\ ADDRESSES > 0
BY SMT DEF ADDRESSES

(* That of any partition is behind the table and within 28 bits.           *)
LEMMA MetaPlace ==
  ASSUME IInv, pc = "write_meta"
  PROVE  Sector.lba >= START_LBA /\ Sector.lba < ADDRESSES
<1>1. /\ job.fs \in {"ext4", "fat32"} /\ job.sectors \in Nat
      /\ job.sectors <= MaxSizeMb * SECTORS_PER_MB
      /\ job.fs = "ext4" => job.sectors >= MIN_EXT4_SECTORS
      /\ step \in 1 .. PlanLength(job.fs, job.sectors)
  BY FormatSize, Zenon
<1>2. CASE job.sectors > 0
  <2>1. Sector.lba \in START_LBA .. START_LBA + job.sectors - 1
    BY <1>2, MetaInside DEF MetadataInside
  <2>2. \A n \in Nat : n <= MaxSizeMb * SECTORS_PER_MB => START_LBA + n < ADDRESSES
    BY SMT DEF ADDRESSES, START_LBA, MaxSizeMb, SECTORS_PER_MB
  <2>3. START_LBA \in Nat
    BY SMT DEF START_LBA
  <2> QED
    BY <1>1, <2>1, <2>2, <2>3, AddressesTyped
<1>3. CASE job.sectors = 0
  <2>1. job.fs = "fat32"
    BY <1>1, <1>3, SMT DEF MIN_EXT4_SECTORS
  <2>2. step \in 1 .. 3
    BY <1>1, <2>1 DEF PlanLength
  <2>3. SECTORS_PER_FAT(0) = 8372254
    BY SMT DEF SECTORS_PER_FAT, RESERVED_SECTORS
  <2>4. /\ FatSector(1, 0).lba = START_LBA
        /\ FatSector(2, 0).lba = START_LBA + 32
        /\ FatSector(3, 0).lba = START_LBA + 32 + 8372254
    BY <2>3, FatPlaces
  <2>5. /\ FatSector(step, 0).lba >= START_LBA
        /\ FatSector(step, 0).lba < ADDRESSES
    <3>1. step = 1 \/ step = 2 \/ step = 3
      BY <2>2
    <3> QED
      BY <2>4, <3>1, SMT DEF ADDRESSES, START_LBA
  <2> QED
    BY <1>3, <2>1, <2>5 DEF Sector, PlanSector
<1> QED
  BY <1>1, <1>2, <1>3

(* No format ever writes where a partition table is, nor where the driver  *)
(* would drop a bit of the address.                                        *)
THEOREM MetadataAlwaysPlaced == Spec => []MetadataPlaced
<1>1. Init => MetadataPlaced
  BY DEF Init, MetadataPlaced
<1>2. ASSUME IInv, MetadataPlaced, [Next]_vars
      PROVE  MetadataPlaced'
  <2>1. CASE data' = data
    BY <1>2, <2>1 DEF MetadataPlaced
  <2>2. CASE pc = "write_meta" /\ data' = Written
    <3>1. Sector.lba >= START_LBA /\ Sector.lba < ADDRESSES
      BY <1>2, <2>2, MetaPlace
    <3>2. ASSUME NEW d \in Drives
          PROVE  DOMAIN data'[d] \subseteq DOMAIN data[d] \union {Sector.lba}
      BY <1>2, <2>2 DEF IInv, TypeOK, Written, Put
    <3> QED
      BY <1>2, <3>1, <3>2 DEF MetadataPlaced
  <2> QED
    BY <1>2, <2>1, <2>2, DiskWritten DEF disk
<1> QED
  BY <1>1, <1>2, AlwaysIInv, PTL DEF Spec

(* Each drive as its sectors: the table is sector 0, the metadata the rest. *)
Medium ==
  [d \in Drives |->
     [a \in Nat |-> IF a = 0 THEN mbr[d]
                    ELSE IF a \in DOMAIN data[d] THEN data[d][a] ELSE NoTable]]

(* The effect of SectorStore's Commit, for a request of this sector.       *)
OneSector(d, a) ==
  \E c : Medium' = [Medium EXCEPT ![d][a % ADDRESSES] = c]

LEMMA TableSector ==
  ASSUME NEW d \in Drives, mbr \in [Drives -> Tables], data' = data,
         NEW t, mbr' = [mbr EXCEPT ![d] = t]
  PROVE  OneSector(d, 0)
<1>1. 0 % ADDRESSES = 0
  BY SMT DEF ADDRESSES
<1>2. Medium' = [Medium EXCEPT ![d][0] = t]
  BY Zenon DEF Medium
<1> QED
  BY <1>1, <1>2 DEF OneSector

LEMMA MetadataSector ==
  ASSUME NEW d \in Drives, NEW lba \in Nat, lba > 0, lba < ADDRESSES, NEW c,
         DOMAIN data = Drives, mbr' = mbr,
         data' = [data EXCEPT ![d] = Put(@, lba, c)]
  PROVE  OneSector(d, lba)
<1>1. lba % ADDRESSES = lba
  BY SMT DEF ADDRESSES
<1>2. Medium' = [Medium EXCEPT ![d][lba] = c]
  <2>1. ASSUME NEW x \in Drives, NEW a \in Nat
        PROVE  Medium'[x][a] = IF x = d /\ a = lba THEN c ELSE Medium[x][a]
    <3>1. data'[x] = IF x = d THEN Put(data[d], lba, c) ELSE data[x]
      OBVIOUS
    <3>2. CASE x = d
      BY <3>1, <3>2 DEF Medium, Put
    <3>3. CASE x # d
      BY <3>1, <3>3 DEF Medium
    <3> QED
      BY <3>2, <3>3
  <2>2. /\ Medium' = [x \in Drives |-> [a \in Nat |-> Medium'[x][a]]]
        /\ Medium = [x \in Drives |-> [a \in Nat |-> Medium[x][a]]]
    BY DEF Medium
  <2>3. [Medium EXCEPT ![d][lba] = c]
          = [x \in Drives |-> [a \in Nat |-> IF x = d /\ a = lba THEN c
                                             ELSE Medium[x][a]]]
    BY <2>2
  <2>4. ASSUME NEW x \in Drives
        PROVE  [a \in Nat |-> Medium'[x][a]]
                 = [a \in Nat |-> IF x = d /\ a = lba THEN c ELSE Medium[x][a]]
    BY <2>1, Zenon
  <2>5. [x \in Drives |-> [a \in Nat |-> Medium'[x][a]]]
          = [x \in Drives |-> [a \in Nat |-> IF x = d /\ a = lba THEN c
                                             ELSE Medium[x][a]]]
    BY <2>4, Zenon
  <2> QED
    BY <2>2, <2>3, <2>5, Zenon
<1> QED
  BY <1>1, <1>2 DEF OneSector

(* A step of the disk tool, with or without an error or a power loss,      *)
(* changes the drives as one request to the sector functions does: one     *)
(* sector of an attached drive, at an address of 28 bits, or none.         *)
THEOREM OneSectorAStep ==
  Spec => [][Medium' = Medium
             \/ \E d \in attached, a \in 0 .. ADDRESSES - 1 : OneSector(d, a)]_vars
<1> DEFINE Step == Medium' = Medium
                   \/ \E d \in attached, a \in 0 .. ADDRESSES - 1 : OneSector(d, a)
<1>1. ASSUME IInv, [Next]_vars
      PROVE  Step
  <2>1. CASE UNCHANGED disk
    BY <2>1 DEF disk, Medium
  <2>2. CASE ~UNCHANGED disk
    <3>1. /\ Working
          /\ \/ /\ pc = "write_mbr" /\ data' = data
                /\ mbr' = [mbr EXCEPT ![job.drive] = buf]
             \/ /\ pc = "write_meta" /\ mbr' = mbr /\ data' = Written
      BY <1>1, <2>2, DiskWritten DEF disk
    <3>2. job.drive \in Drives /\ job.drive \in attached
      BY <1>1, <3>1, SelectedListed DEF IInv, JobInv
    <3>3. CASE pc = "write_mbr"
      <4>1. OneSector(job.drive, 0)
        BY <1>1, <3>1, <3>2, <3>3, TableSector DEF IInv, TypeOK
      <4>2. 0 \in 0 .. ADDRESSES - 1
        BY AddressesTyped, SMT
      <4> QED
        BY <3>2, <4>1, <4>2
    <3>4. CASE pc = "write_meta"
      <4>1. Sector.lba \in Nat /\ Sector.lba > 0 /\ Sector.lba < ADDRESSES
        <5>1. Sector.lba >= START_LBA /\ Sector.lba < ADDRESSES
          BY <1>1, <3>4, MetaPlace
        <5>2. job.sectors \in Nat /\ CreateJob /\ JobInv
          BY <1>1, <3>4 DEF IInv, TypeOK, TableInv, Formatting
        <5>3. Sector.lba \in Nat
          BY <3>4, <5>2, SectorTyped
        <5>4. START_LBA \in Nat /\ START_LBA > 0
          BY SMT DEF START_LBA
        <5> QED
          BY <5>1, <5>3, <5>4
      <4>2. data' = [data EXCEPT ![job.drive] = Put(@, Sector.lba, Sector.what)]
        BY <3>1, <3>4 DEF Written
      <4>3. OneSector(job.drive, Sector.lba)
        BY <1>1, <3>1, <3>2, <3>4, <4>1, <4>2, MetadataSector DEF IInv, TypeOK
      <4>4. Sector.lba \in 0 .. ADDRESSES - 1
        BY <4>1, AddressesTyped, SMT
      <4> QED
        BY <3>2, <4>3, <4>4
    <3> QED
      BY <3>1, <3>3, <3>4
  <2> QED
    BY <2>1, <2>2
<1> QED
  BY <1>1, AlwaysIInv, PTL DEF Spec

(* The arithmetic of the macro: one table sector for each of the 1026      *)
(* sectors that two clusters' worth of entries and the tables take.        *)
LEMMA FatIsLargeEnough ==
  ASSUME NEW mb \in Nat, mb >= 1
  PROVE  128 * SECTORS_PER_FAT(2048 * mb) >= Clusters(2048 * mb) + 2
<1> DEFINE n == 2048 * mb
           q == (n - 32) \div 1026
<1>1. n \in Nat /\ n >= 2048 /\ (mb = 1 \/ n >= 4096)
  BY SMT
<1>2. SECTORS_PER_FAT(n) = 2 * q
  BY <1>1, SMT DEF SECTORS_PER_FAT, RESERVED_SECTORS
<1>3. q \in Nat /\ 1026 * q <= n - 32 /\ n - 32 < 1026 * q + 1026
  BY <1>1, SMT
<1>4. Clusters(n) = (n - 32 - 4 * q) \div 8
  BY <1>1, <1>2, <1>3, SMT DEF Clusters, RESERVED_SECTORS
<1>5. CASE mb = 1
  <2>1. n = 2048 /\ q = 1
    BY <1>5, SMT
  <2>2. QED
    BY <1>2, <1>4, <2>1, SMT
<1>6. CASE n >= 4096
  <2>1. q >= 3
    BY <1>3, <1>6, SMT
  <2> HIDE DEF q, n
  <2>2. 256 * q >= ((n - 32 - 4 * q) \div 8) + 2
    BY <1>1, <1>3, <2>1, SMT
  <2>3. QED
    BY <1>2, <1>3, <1>4, <2>2, SMT DEF n
<1>7. QED
  BY <1>1, <1>5, <1>6

(* The tables of a FAT32 partition of any size reach its last cluster.     *)
THEOREM FatAlwaysCovers == Spec => []FatCoversClusters
<1>1. ASSUME IInv
      PROVE  FatCoversClusters
  <2> SUFFICES ASSUME pc = "write_meta", job.sectors > 0
               PROVE  128 * SECTORS_PER_FAT(job.sectors)
                        >= Clusters(job.sectors) + 2
    BY DEF FatCoversClusters
  <2>1. Working /\ CreateJob /\ job.cmd # "delpart"
    BY <1>1 DEF IInv, Working, Formatting, TableInv, JobInv, CreateJob
  <2>2. /\ job.size \in Nat
        /\ \/ job.sectors = job.size * SECTORS_PER_MB
           \/ /\ job.size >= 32
              /\ job.sectors = job.size * SECTORS_PER_MB - START_LBA
    BY <1>1, <2>1, JobSize
  <2>3. PICK mb \in Nat : mb >= 1 /\ job.sectors = 2048 * mb
    <3>1. CASE job.sectors = job.size * SECTORS_PER_MB
      BY <2>2, <3>1, SMT DEF SECTORS_PER_MB
    <3>2. CASE /\ job.size >= 32
               /\ job.sectors = job.size * SECTORS_PER_MB - START_LBA
      <4>1. job.size - 1 \in Nat /\ job.size - 1 >= 1
            /\ job.sectors = 2048 * (job.size - 1)
        BY <2>2, <3>2, SMT DEF SECTORS_PER_MB, START_LBA
      <4>2. QED
        BY <4>1
    <3>3. QED
      BY <2>2, <3>1, <3>2
  <2>4. QED
    BY <2>3, FatIsLargeEnough
<1>2. QED
  BY <1>1, AlwaysIInv, PTL

(* Metadata has its room, whatever the size of the partition.              *)
THEOREM MetadataAlwaysSound == Spec => []MetadataSound
<1>1. MetadataInside /\ FatCoversClusters /\ MetadataPlaced => MetadataSound
  BY DEF MetadataSound
<1>2. QED
  BY <1>1, MetadataAlwaysInside, FatAlwaysCovers, MetadataAlwaysPlaced, PTL

-----------------------------------------------------------------------------
(* What has been written stays written.                                    *)
LEMMA DoneGrows ==
  ASSUME IInv, pc = "write_meta", \A k \in 1 .. step - 1 : Done(k),
         data' = Written, job' = job
  PROVE  \A k \in 1 .. step : Done(k)'
<1> DEFINE Plan(k) == PlanSector(job.fs, job.sectors, k)
           d == job.drive
<1>1. /\ job.fs \in {"ext4", "fat32"} /\ d \in Drives
      /\ job.sectors \in Nat /\ job.sectors <= MaxSizeMb * SECTORS_PER_MB
      /\ step \in 1 .. PlanLength(job.fs, job.sectors)
  BY FormatSize, Zenon
<1>2. data'[d] = Put(data[d], Plan(step).lba, Plan(step).what)
  BY <1>1 DEF Written, Sector, IInv, TypeOK
<1>3. PlanLength(job.fs, job.sectors) \in Int
  BY <1>1, SMT DEF PlanLength, Groups, Blocks
<1> SUFFICES ASSUME NEW k \in 1 .. step
             PROVE  /\ Plan(k).lba \in DOMAIN data'[d]
                    /\ data'[d][Plan(k).lba] = Plan(k).what
  BY DEF Done
<1>4. CASE Plan(k).lba = Plan(step).lba
  <2>1. k \in 1 .. PlanLength(job.fs, job.sectors)
    BY <1>1, <1>3, SMT
  <2>2. Plan(k).what = Plan(step).what
    BY <1>1, <1>4, <2>1, PlacesAgree, Zenon
  <2>3. QED
    BY <1>2, <1>4, <2>2 DEF Put
<1>5. CASE Plan(k).lba # Plan(step).lba
  <2>1. k \in 1 .. step - 1
    BY <1>1, <1>3, <1>5
  <2>2. Plan(k).lba \in DOMAIN data[d] /\ data[d][Plan(k).lba] = Plan(k).what
    BY <2>1 DEF Done
  <2>3. QED
    BY <1>2, <1>5, <2>2 DEF Put
<1>6. QED
  BY <1>4, <1>5

-----------------------------------------------------------------------------
(* A claim of success stays true until it is withdrawn.                    *)
LEMMA ClaimKept ==
  ASSUME SuccessMeansDone, UNCHANGED <<disk, job>>,
         said' = {} \/ said' = said \/ said' = said \union {"created"}
  PROVE  SuccessMeansDone'
<1>1. /\ "formatted" \in said' => "formatted" \in said
      /\ "deleted" \in said' => "deleted" \in said
  OBVIOUS
<1>2. UNCHANGED <<mbr, data, job>>
  BY DEF disk
<1>3. QED
  BY <1>1, <1>2 DEF SuccessMeansDone, NewEntry

LEMMA NoClaim ==
  ASSUME said' = {}
  PROVE  SuccessMeansDone'
  BY DEF SuccessMeansDone

LEMMA SuccessNext ==
  ASSUME IInv, MetaInv, [Next]_vars
  PROVE  SuccessMeansDone'
<1>1. SuccessMeansDone /\ (Working => said = {})
  BY DEF MetaInv, IInv, JobInv
<1>2. CASE Crash \/ Update \/ PartInfo \/ \E i \in -1 .. 4 : SelectDisk(i)
  BY <1>2, NoClaim DEF Crash, Update, PartInfo, SelectDisk, Command
<1>3. CASE \/ \E mb \in SizeArgs, fs \in {"ext4", "fat32"} : CreatePartitionMb(mb, fs)
           \/ \E fs \in {"ext4", "fat32"} : FormatDisk(fs)
           \/ \E i \in -1 .. 4 : DeletePartition(i)
  BY <1>3, NoClaim DEF CreatePartitionMb, FormatDisk, DeletePartition,
     StartCommand, Command
<1>4. CASE Boot \/ ProbePresent \/ ProbeAbsent \/ ScanDone
  BY <1>1, <1>4, ClaimKept DEF Boot, ProbePresent, ProbeAbsent, ScanDone
<1>5. CASE \/ ReadMbrFails \/ AddEntry \/ TableFull \/ ClearEntry
           \/ NothingToDelete \/ WriteMbrFails \/ Ext4TooSmall \/ NoBuffer
           \/ AllocateBuffer \/ ReadSuperblock \/ SuperblockFails \/ WriteMeta
           \/ WriteMetaFails
  BY <1>1, <1>5, NoClaim DEF ReadMbrFails, AddEntry, TableFull, ClearEntry,
     NothingToDelete, WriteMbrFails, Ext4TooSmall, NoBuffer, AllocateBuffer,
     ReadSuperblock, SuperblockFails, WriteMeta, WriteMetaFails, Fail, Edit,
     TableRead, Working
<1>6. CASE WriteMbr
  <2>1. /\ TypeOK /\ Working /\ pc = "write_mbr" /\ job' = job /\ said = {}
    BY <1>1, <1>6 DEF WriteMbr, IInv, Working
  <2>2. CASE job.cmd # "delpart"
    BY <1>6, <2>1, <2>2, NoClaim DEF WriteMbr
  <2>3. CASE job.cmd = "delpart"
    <3>1. said' = {"deleted"}
      BY <1>6, <2>3 DEF WriteMbr
    <3>2. /\ job.index \in Indices
          /\ buf = [mbr[job.drive] EXCEPT ![job.index] = EmptyEntry]
      BY <2>1, <2>3 DEF IInv, TableInv, CreateJob
    <3>3. job.drive \in Drives /\ mbr[job.drive] \in Tables
      BY <2>1, JobTyped
    <3>4. mbr'[job.drive] = buf
      BY <1>6, <3>3 DEF WriteMbr, IInv, TypeOK
    <3>5. IsEmpty(mbr'[job.drive][job.index])
      BY <3>2, <3>3, <3>4 DEF Tables, IsEmpty, EmptyEntry
    <3>6. QED
      BY <2>1, <3>1, <3>5 DEF SuccessMeansDone
  <2>4. QED
    BY <2>2, <2>3
<1>7. CASE WriteLastMeta
  <2>1. /\ pc = "write_meta" /\ job' = job /\ mbr' = mbr /\ data' = Written
        /\ step = PlanLength(job.fs, job.sectors) /\ said' = {"formatted"}
    BY <1>1, <1>7 DEF WriteLastMeta, Working
  <2>2. mbr[job.drive][job.index] = NewEntry
    BY <2>1 DEF IInv, TableInv, FormatOnlyListed, Formatting
  <2>3. \A k \in 1 .. step : Done(k)'
    BY <2>1, DoneGrows DEF MetaInv
  <2>4. QED
    BY <2>1, <2>2, <2>3 DEF SuccessMeansDone, Done, NewEntry
<1>8. CASE UNCHANGED vars
  BY <1>1, <1>8, ClaimKept DEF vars
<1>9. QED
  BY <1>2, <1>3, <1>4, <1>5, <1>6, <1>7, <1>8 DEF Next, Run

LEMMA MetaNext ==
  ASSUME IInv, MetaInv, [Next]_vars
  PROVE  MetaInv'
<1>1. SuccessMeansDone'
  BY SuccessNext
<1>2. ASSUME pc' = "write_meta"
      PROVE  \A k \in 1 .. step' - 1 : Done(k)'
  <2>1. CASE WriteMeta
    <3>1. pc = "write_meta" /\ job' = job /\ data' = Written /\ step' = step + 1
      BY <2>1 DEF WriteMeta
    <3>2. \A k \in 1 .. step : Done(k)'
      BY <3>1, DoneGrows DEF MetaInv
    <3>3. step' - 1 = step
      BY <3>1 DEF IInv, TypeOK
    <3>4. QED
      BY <3>2, <3>3
  <2>2. CASE UNCHANGED vars
    BY <1>2, <2>2 DEF vars, disk, MetaInv, Done
  <2>3. CASE step' = 1
    BY <2>3
  <2>4. CASE ~WriteMeta /\ ~UNCHANGED vars
    <3>1. WriteMbr \/ ReadSuperblock
      BY <1>2, <2>4 DEF Next, Run, Boot, Crash, Update, PartInfo, SelectDisk,
         DeletePartition, FormatDisk, CreatePartitionMb, Command, Accept, Refuse,
         StartCommand, StartScan, ProbePresent, ProbeAbsent, ScanDone,
         ReadMbrFails, AddEntry, TableFull, ClearEntry, NothingToDelete,
         WriteMbrFails, Ext4TooSmall, NoBuffer, AllocateBuffer, SuperblockFails,
         WriteLastMeta, WriteMetaFails, Edit, Fail, Leave
    <3>2. CASE ReadSuperblock
      BY <2>3, <3>2 DEF ReadSuperblock
    <3>3. CASE WriteMbr
      <4>1. TypeOK /\ JobInv /\ Working
        BY <3>3 DEF IInv, WriteMbr, Working
      <4>2. CreateJob \/ DeleteJob
        BY <4>1 DEF JobInv
      <4>3. job.fs = "fat32"
        BY <1>2, <3>3, <4>2 DEF WriteMbr, CreateJob, DeleteJob
      <4>4. step' = 1
        BY <3>3, <4>3 DEF WriteMbr
      <4>5. QED
        BY <2>3, <4>4
    <3>4. QED
      BY <3>1, <3>2, <3>3
  <2>5. QED
    BY <2>1, <2>2, <2>4
<1>3. QED
  BY <1>1, <1>2 DEF MetaInv

(* When a command says a partition is formatted, the drive's table lists   *)
(* it and all its metadata is on the drive; when it says one is deleted,   *)
(* its entry is empty on the drive.                                        *)
THEOREM SuccessAlwaysDone == Spec => []SuccessMeansDone
<1>1. Init => MetaInv
  BY DEF Init, MetaInv, SuccessMeansDone
<1>2. IInv /\ MetaInv /\ [Next]_vars => MetaInv'
  BY MetaNext
<1>3. MetaInv => SuccessMeansDone
  BY DEF MetaInv
<1>4. QED
  BY <1>1, <1>2, <1>3, AlwaysIInv, PTL DEF Spec

-----------------------------------------------------------------------------
(* Why every command ends.                                                 *)

(* How many steps at most are left at the given point of the kernel, with  *)
(* probe p, a plan of n sectors and its sector k begun.                    *)
LeftAt(at, p, n, k) ==
  CASE at = "off"             -> 0
    [] at = "prompt"          -> 0
    [] at = "scan"            -> 5 - p
    [] at = "write_meta"      -> 6 + (n - k)
    [] at = "read_superblock" -> 6 + n
    [] at = "format_ext4"     -> 7 + n
    [] at = "write_mbr"       -> 8 + n
    [] at = "read_mbr"        -> 9 + n

Plan == IF job.cmd = "delpart" THEN 0 ELSE PlanLength(job.fs, job.sectors)

Left == LeftAt(pc, probe, Plan, step)

LEMMA LeftIs ==
  ASSUME NEW p, NEW n, NEW k
  PROVE  /\ LeftAt("off", p, n, k) = 0 /\ LeftAt("prompt", p, n, k) = 0
         /\ LeftAt("scan", p, n, k) = 5 - p
         /\ LeftAt("write_meta", p, n, k) = 6 + (n - k)
         /\ LeftAt("read_superblock", p, n, k) = 6 + n
         /\ LeftAt("format_ext4", p, n, k) = 7 + n
         /\ LeftAt("write_mbr", p, n, k) = 8 + n
         /\ LeftAt("read_mbr", p, n, k) = 9 + n
BY DEF LeftAt

LEMMA PlanIsNat ==
  ASSUME IInv
  PROVE  Plan \in Nat
<1>1. \A n \in Nat : Groups(n) \in Nat
  BY SMT DEF Groups, Blocks
<1>2. job.sectors \in Nat
  BY DEF IInv, TypeOK
<1>3. \A g \in Nat : 1 + 3 * g \in Nat
  BY SMT
<1> QED
  BY <1>1, <1>2, <1>3, SMT DEF Plan, PlanLength

(* No drive is so large that a plan has more than 97 sectors.              *)
LEMMA PlanIsShort ==
  ASSUME IInv, Working
  PROVE  Plan <= 97
<1>1. CASE job.cmd = "delpart"
  BY <1>1, SMT DEF Plan
<1>2. CASE job.cmd # "delpart"
  <2>1. Groups(job.sectors) \in 0 .. 32
    BY <1>2, JobSectors, GroupsBound
  <2> QED
    BY <1>2, <2>1, SMT DEF Plan, PlanLength
<1> QED
  BY <1>1, <1>2

LEMMA MetaPlan ==
  ASSUME IInv, pc = "write_meta"
  PROVE  Plan = PlanLength(job.fs, job.sectors) /\ step \in 1 .. Plan
<1>1. job.cmd # "delpart"
  BY DEF IInv, TableInv, CreateJob, Formatting
<1> QED
  BY <1>1 DEF IInv, JobInv, Plan

LEMMA LeftBound ==
  ASSUME IInv
  PROVE  Left \in 0 .. 106
<1>1. /\ pc \in {"off", "scan", "prompt"} \/ Working
      /\ probe \in 0 .. 4
  BY DEF IInv, TypeOK
<1>2. CASE pc = "off" \/ pc = "prompt"
  BY <1>2, LeftIs DEF Left
<1>3. CASE pc = "scan"
  BY <1>1, <1>3, LeftIs DEF Left
<1>4. CASE Working
  <2>1. Plan \in 0 .. 97
    BY <1>4, PlanIsNat, PlanIsShort
  <2>2. pc = "write_meta" => step \in 1 .. Plan
    BY MetaPlan
  <2> QED
    BY <1>4, <2>1, <2>2, LeftIs DEF Left, Working
<1> QED
  BY <1>1, <1>2, <1>3, <1>4

(* Whatever stops a command takes it to the prompt, or to a rescan.        *)
LEMMA FailAdvances ==
  ASSUME IInv, Working, Leave
  PROVE  Left' < Left
<1>1. Plan \in Nat
  BY PlanIsNat
<1>2. pc = "write_meta" => step \in 1 .. Plan
  BY MetaPlan
<1>3. Left >= 6
  BY <1>1, <1>2, LeftIs DEF Left, Working
<1>4. Left \in Nat
  BY LeftBound
<1>5. Left' \in 0 .. 5
  <2>1. CASE pc' = "scan" /\ probe' = 0
    BY <2>1, LeftIs DEF Left
  <2>2. CASE pc' = "prompt"
    BY <2>2, LeftIs DEF Left
  <2> QED
    BY <2>1, <2>2 DEF Leave, StartScan
<1> QED
  BY <1>3, <1>4, <1>5

(* A transfer that goes well leads to the next one of its command.         *)
LEMMA TransferAdvances ==
  ASSUME IInv,
         AddEntry \/ ClearEntry \/ WriteMbr \/ AllocateBuffer \/ ReadSuperblock
           \/ WriteMeta
  PROVE  Left' < Left
<1>1. Plan \in Nat
  BY PlanIsNat
<1>2. CASE AddEntry \/ ClearEntry
  <2>1. pc = "read_mbr" /\ pc' = "write_mbr"
    BY <1>2 DEF AddEntry, ClearEntry, TableRead, Edit
  <2>2. Plan' = Plan
    <3>1. PICK i : job' = [job EXCEPT !.index = i]
      BY <1>2 DEF AddEntry, ClearEntry, Edit
    <3>2. job'.cmd = job.cmd /\ job'.fs = job.fs /\ job'.sectors = job.sectors
      BY <3>1 DEF IInv, TypeOK
    <3> QED
      BY <3>2 DEF Plan
  <2> QED
    BY <1>1, <2>1, <2>2, LeftIs DEF Left
<1>3. CASE WriteMbr
  <2>1. job' = job /\ Plan' = Plan /\ pc = "write_mbr"
    BY <1>3 DEF WriteMbr, Plan
  <2>2. \/ pc' = "prompt" \/ pc' = "format_ext4"
        \/ pc' = "write_meta" /\ step' = 1
    <3>1. job.cmd = "delpart" \/ job.fs \in {"ext4", "fat32"}
      BY <2>1 DEF IInv, JobInv, CreateJob, DeleteJob, Working
    <3>2. CASE job.cmd = "delpart"
      BY <1>3, <3>2 DEF WriteMbr
    <3>3. CASE job.cmd # "delpart" /\ job.fs = "ext4"
      BY <1>3, <3>3 DEF WriteMbr
    <3>4. CASE job.cmd # "delpart" /\ job.fs = "fat32"
      BY <1>3, <3>4 DEF WriteMbr
    <3> QED
      BY <3>1, <3>2, <3>3, <3>4
  <2> QED
    BY <1>1, <2>1, <2>2, LeftIs DEF Left
<1>4. CASE AllocateBuffer \/ ReadSuperblock
  BY <1>1, <1>4, LeftIs DEF AllocateBuffer, ReadSuperblock, Left, Plan
<1>5. CASE WriteMeta
  <2>1. step \in 1 .. Plan /\ step < Plan
    BY <1>5, MetaPlan DEF WriteMeta
  <2> QED
    BY <1>1, <1>5, <2>1, LeftIs DEF WriteMeta, Left, Plan
<1> QED
  BY <1>2, <1>3, <1>4, <1>5

(* Every step a command or a scan takes by itself brings its end nearer,   *)
(* and there are never more than 106 of them left: four for the table and  *)
(* the checks, 97 for the metadata sectors of the largest partition and    *)
(* five for the rescan.  None of the loops of disktool.c and partition.c   *)
(* is left over for the drives to decide, whatever fails.                  *)
THEOREM CommandsAdvance ==
  Spec => [](Left \in 0 .. 106) /\ [][Run => Left' < Left]_vars
<1>1. ASSUME IInv, Run
      PROVE  Left' < Left
  <2>1. CASE ProbePresent \/ ProbeAbsent
    <3>1. probe \in 0 .. 4
      BY <1>1 DEF IInv, TypeOK
    <3> QED
      BY <2>1, <3>1, LeftIs DEF ProbePresent, ProbeAbsent, Left
  <2>2. CASE ScanDone
    BY <2>2, LeftIs DEF ScanDone, Left
  <2>3. CASE AddEntry \/ ClearEntry \/ WriteMbr \/ AllocateBuffer
             \/ ReadSuperblock \/ WriteMeta
    BY <1>1, <2>3, TransferAdvances
  <2>4. CASE ReadMbrFails \/ TableFull \/ NothingToDelete \/ WriteMbrFails
             \/ Ext4TooSmall \/ NoBuffer \/ SuperblockFails \/ WriteLastMeta
             \/ WriteMetaFails
    <3>1. Working /\ Leave
      BY <2>4 DEF ReadMbrFails, TableFull, TableRead, NothingToDelete,
         WriteMbrFails, Ext4TooSmall, NoBuffer, SuperblockFails,
         WriteLastMeta, WriteMetaFails, Fail, Working
    <3> QED
      BY <1>1, <3>1, FailAdvances
  <2> QED
    BY <1>1, <2>1, <2>2, <2>3, <2>4 DEF Run
<1>2. IInv => Left \in 0 .. 106
  BY LeftBound
<1>3. IInv /\ [Next]_vars => [Run => Left' < Left]_vars
  BY <1>1
<1> QED
  BY <1>2, <1>3, AlwaysIInv, PTL DEF Spec

=============================================================================
