------------------------------ MODULE DiskTool ------------------------------
(***************************************************************************)
(* The disk tool (disktool.c), the partition code it calls (partition.c)   *)
(* and its prompt (disktool_cmd.c), over ATA drives.                       *)
(*                                                                         *)
(* One command runs at a time, but a command is many sector transfers, and *)
(* every transfer is a step here: it may fail, the power may go between    *)
(* any two of them, and a failed write may or may not have reached the     *)
(* medium.  What is on the drives outlives a power cycle; the disk list,   *)
(* the selection, the buffers and the command in progress do not, and the  *)
(* drives found at the next start may be others.                           *)
(*                                                                         *)
(* A drive is named by its position 2 * controller + drive.  The model     *)
(* keeps the real sector arithmetic, in sectors and megabytes: a byte      *)
(* count taken modulo 2^32 is 512 times a sector count modulo 2^23.        *)
(* Printed text is left out, except for the three messages that claim      *)
(* success.                                                                *)
(***************************************************************************)
EXTENDS FormatPlan

CONSTANTS
  Drives,        \* positions a drive may occupy
  Capacity,      \* sectors of each drive; 0 for one that rejects transfers
  InitialTable,  \* the partition table first found on each drive
  SizeArgs,      \* megabytes newpart is asked for
  MaxCommands,   \* bound on the newpart, format and delpart commands
  MaxCrashes     \* bound on the power losses

VARIABLES
  mbr,              \* on disk: the partition table of each drive
  data,             \* on disk: sector -> contents, of the sectors written
  attached,         \* the positions that answer IDENTIFY since power-on
  available_disks,  \* the disk list: four records ...
  num_disks,        \* ... of which the first num_disks are in use
  current_disk,     \* index of the selected disk, or -1
  probe,            \* the position init_disktool looks at next
  pc,               \* where the kernel is
  job,              \* the arguments of the command
  buf,              \* the copy of the partition table the command edits
  step,             \* how many metadata sectors the format has begun
  buffers,          \* disk buffers allocated and not freed
  said,             \* the successes the command has claimed
  shown,            \* the table partinfo has displayed
  commands,         \* how many commands have been run ...
  crashes           \* ... and power losses suffered, for the bounds

disk == <<mbr, data>>
list == <<available_disks, num_disks, current_disk, probe>>
bounds == <<commands, crashes>>
vars == <<disk, attached, list, pc, job, buf, step, buffers, said, shown,
          bounds>>

(* A definition that begins with Bad, Hasty or Stuck is a plausible slip   *)
(* in the definition it is named after; the specification uses none.       *)

-----------------------------------------------------------------------------
(* Sizes and places on a drive.                                            *)

MAX_DISKS == 4

SECTORS_PER_MB == 2048

(* As many sectors as make 2^32 bytes, where 32-bit byte counts wrap.      *)
WRAP == 8388608

(* The driver sends 28 bits of a sector's number.                          *)
ADDRESSES == 268435456

(* The size init_disktool derives from IDENTIFY words 60 and 61: the byte  *)
(* count is a 32-bit product.                                              *)
SizeMb(p) == (Capacity[p] % WRAP) \div SECTORS_PER_MB

(* The macro MB_TO_SECTORS, whose byte count is a 32-bit product, too.     *)
MB_TO_SECTORS(mb) == (mb % 4096) * SECTORS_PER_MB

Indices == 0 .. 3

EmptyEntry == [type |-> "empty", lba_first |-> 0, sector_count |-> 0]

IsEmpty(entry) == entry.type = "empty"

BadFirstEmpty(t, i) == IsEmpty(t[i])

FirstEmpty(t, i) == IsEmpty(t[i]) /\ \A j \in Indices : j < i => ~IsEmpty(t[j])

Entries == [type : {"empty", "ext4", "fat32", "other"},
            lba_first : Nat, sector_count : Nat]

Tables == [Indices -> Entries]

EmptyTable == [i \in Indices |-> EmptyEntry]

(* What a read of a position without a drive may leave of a table.         *)
FloatingTable ==
  [i \in Indices |-> [type |-> "other", lba_first |-> 0, sector_count |-> 0]]

ASSUME DriveAssumption ==
  /\ Drives \subseteq 0 .. 3
  /\ Capacity \in [Drives -> Nat]
  /\ InitialTable \in [Drives -> Tables]
  /\ SizeArgs \subseteq Nat
  /\ MaxCommands \in Nat
  /\ MaxCrashes \in Nat

-----------------------------------------------------------------------------
(* The command in progress.                                                *)

NoJob == [cmd |-> "none", drive |-> -1, fs |-> "none",
          size |-> 0, sectors |-> 0, index |-> -1]

BadJob(cmd, fs, mb, sectors, index) ==
  [cmd |-> cmd, drive |-> 0, fs |-> fs,
   size |-> mb, sectors |-> sectors, index |-> index]

Job(cmd, fs, mb, sectors, index) ==
  [cmd |-> cmd, drive |-> available_disks[current_disk].position, fs |-> fs,
   size |-> mb, sectors |-> sectors, index |-> index]

(* The entry a newpart or format puts in the table.                        *)
NewEntry ==
  [type |-> job.fs, lba_first |-> START_LBA, sector_count |-> job.sectors]

NoTable == <<>>

NoDisk == [position |-> -1, size_mb |-> 0]

Identify(p) == [position |-> p, size_mb |-> SizeMb(p)]

NoDisks == [i \in 0 .. MAX_DISKS - 1 |-> NoDisk]

Init ==
  /\ mbr = InitialTable
  /\ data = [d \in Drives |-> [a \in {} |-> NoTable]]
  /\ attached = {} /\ available_disks = NoDisks
  /\ num_disks = 0 /\ current_disk = -1 /\ probe = 0
  /\ pc = "off" /\ job = NoJob /\ buf = NoTable /\ step = 0 /\ buffers = 0
  /\ said = {} /\ shown = NoTable
  /\ commands = 0 /\ crashes = 0

BadStartScan == pc' = "scan" /\ probe' = 0 /\ num_disks' = num_disks

StartScan == pc' = "scan" /\ num_disks' = 0 /\ probe' = 0

(* Power-on: kernel_main calls init_disktool.                              *)
Boot ==
  /\ pc = "off"
  /\ attached' \in SUBSET Drives
  /\ StartScan
  /\ UNCHANGED <<disk, available_disks, current_disk, job, buf, step, buffers,
                 said, shown, bounds>>

(* The power goes; what was on disk stays.                                 *)
Crash ==
  /\ pc # "off" /\ crashes < MaxCrashes
  /\ crashes' = crashes + 1
  /\ attached' = {} /\ available_disks' = NoDisks
  /\ num_disks' = 0 /\ current_disk' = -1 /\ probe' = 0
  /\ pc' = "off" /\ job' = NoJob /\ buf' = NoTable /\ step' = 0 /\ buffers' = 0
  /\ said' = {} /\ shown' = NoTable
  /\ UNCHANGED <<disk, commands>>

-----------------------------------------------------------------------------
(* init_disktool: the positions are probed in order.  A drive that answers *)
(* is polled and read within the step; module AtaDriver has the words.     *)

ProbePresent ==
  /\ pc = "scan" /\ probe \in attached
  /\ available_disks' = [available_disks EXCEPT ![num_disks] = Identify(probe)]
  /\ num_disks' = num_disks + 1
  /\ probe' = probe + 1
  /\ UNCHANGED <<disk, attached, current_disk, pc, job, buf, step, buffers,
                 said, shown, bounds>>

HastyProbeAbsent ==
  /\ pc = "scan" /\ probe \in 0 .. 3
  /\ probe' = probe + 1
  /\ UNCHANGED <<disk, attached, available_disks, num_disks, current_disk, pc,
                 job, buf, step, buffers, said, shown, bounds>>

StuckProbeAbsent ==
  /\ pc = "scan" /\ probe \in (0 .. 3) \ attached
  /\ UNCHANGED vars

ProbeAbsent ==
  /\ pc = "scan" /\ probe \in (0 .. 3) \ attached
  /\ probe' = probe + 1
  /\ UNCHANGED <<disk, attached, available_disks, num_disks, current_disk, pc,
                 job, buf, step, buffers, said, shown, bounds>>

(* init_disktool returns, to newpart if that is what called it.            *)
ScanDone ==
  /\ pc = "scan" /\ probe = 4
  /\ pc' = "prompt" /\ probe' = 0
  /\ said' = IF job.cmd = "newpart" THEN said \union {"created"} ELSE said
  /\ UNCHANGED <<disk, attached, available_disks, num_disks, current_disk, job,
                 buf, step, buffers, shown, bounds>>

-----------------------------------------------------------------------------
(* The commands that write nothing.                                        *)

(* A command is given; what the one before it printed is past.             *)
Command == pc = "prompt" /\ said' = {} /\ shown' = NoTable

Update ==
  /\ Command
  /\ job' = NoJob
  /\ StartScan
  /\ UNCHANGED <<disk, attached, available_disks, current_disk, buf, step,
                 buffers, bounds>>

BadSelectDisk(i) ==
  /\ Command
  /\ job' = NoJob
  /\ current_disk' = IF i \in 0 .. num_disks THEN i ELSE current_disk
  /\ UNCHANGED <<disk, attached, available_disks, num_disks, probe, pc, buf,
                 step, buffers, bounds>>

SelectDisk(i) ==
  /\ Command
  /\ job' = NoJob
  /\ current_disk' = IF i \in 0 .. num_disks - 1 THEN i ELSE current_disk
  /\ UNCHANGED <<disk, attached, available_disks, num_disks, probe, pc, buf,
                 step, buffers, bounds>>

(* The table display_partitions finds.  It always reads the primary        *)
(* master; a position with no drive reports no error either.               *)
Displayed ==
  IF 0 \in attached
    THEN {NoTable} \union {t \in {mbr[0]} : Capacity[0] > 0}
    ELSE {EmptyTable, FloatingTable}

PartInfo ==
  /\ pc = "prompt"
  /\ said' = {} /\ job' = NoJob
  /\ \/ current_disk = -1 /\ shown' = NoTable
     \/ current_disk # -1 /\ shown' \in Displayed
  /\ UNCHANGED <<disk, attached, list, pc, buf, step, buffers, bounds>>

-----------------------------------------------------------------------------
(* The commands that write: their checks, then the first transfer.         *)

Selected == available_disks[current_disk]

Counted == commands < MaxCommands /\ commands' = commands + 1

Accept(j) == job' = j /\ pc' = "read_mbr"

Refuse == job' = NoJob /\ pc' = pc

StartCommand ==
  /\ Command /\ Counted
  /\ UNCHANGED <<disk, attached, list, buf, step, buffers, crashes>>

BadCreatePartitionMb(mb, fs) ==
  /\ StartCommand
  /\ IF current_disk # -1
       THEN Accept(Job("newpart", fs, mb, MB_TO_SECTORS(mb), -1))
       ELSE Refuse

CreatePartitionMb(mb, fs) ==
  /\ StartCommand
  /\ IF current_disk # -1 /\ mb <= Selected.size_mb
       THEN Accept(Job("newpart", fs, mb, MB_TO_SECTORS(mb), -1))
       ELSE Refuse

FormatDisk(fs) ==
  /\ StartCommand
  /\ IF current_disk # -1 /\ Selected.size_mb >= 32
       THEN Accept(Job("format", fs, Selected.size_mb,
                       MB_TO_SECTORS(Selected.size_mb) - START_LBA, -1))
       ELSE Refuse

DeletePartition(i) ==
  /\ StartCommand
  /\ IF current_disk # -1 /\ i \in Indices
       THEN Accept(Job("delpart", "none", 0, 0, i))
       ELSE Refuse

-----------------------------------------------------------------------------
(* The transfers of a command.                                             *)

(* The command is over; newpart rescans the disks whatever happened.       *)
Leave ==
  IF job.cmd = "newpart"
    THEN StartScan
    ELSE pc' = "prompt" /\ UNCHANGED <<num_disks, probe>>

Fail ==
  /\ Leave
  /\ step' = 0 /\ buf' = NoTable
  /\ UNCHANGED <<attached, available_disks, current_disk, job, said, shown,
                 bounds>>

(* A read or write that reports an error needs no reason.                  *)
ReadMbrFails ==
  /\ pc = "read_mbr" /\ Fail
  /\ UNCHANGED <<disk, buffers>>

(* The edited table goes on to be written.                                 *)
Edit(index, entry) ==
  /\ job' = [job EXCEPT !.index = index]
  /\ buf' = [mbr[job.drive] EXCEPT ![index] = entry]
  /\ pc' = "write_mbr"
  /\ UNCHANGED <<disk, attached, list, step, buffers, said, shown, bounds>>

TableRead == pc = "read_mbr" /\ Capacity[job.drive] > 0

(* create_ext4_partition and create_fat32_partition take the first empty   *)
(* entry.                                                                  *)
AddEntry ==
  /\ TableRead /\ job.cmd \in {"newpart", "format"}
  /\ \E i \in Indices : FirstEmpty(mbr[job.drive], i) /\ Edit(i, NewEntry)

TableFull ==
  /\ TableRead /\ job.cmd \in {"newpart", "format"}
  /\ \A i \in Indices : ~IsEmpty(mbr[job.drive][i])
  /\ Fail
  /\ UNCHANGED <<disk, buffers>>

ClearEntry ==
  /\ TableRead /\ job.cmd = "delpart"
  /\ ~IsEmpty(mbr[job.drive][job.index])
  /\ Edit(job.index, EmptyEntry)

NothingToDelete ==
  /\ TableRead /\ job.cmd = "delpart"
  /\ IsEmpty(mbr[job.drive][job.index])
  /\ Fail
  /\ UNCHANGED <<disk, buffers>>

WriteMbrFails ==
  /\ pc = "write_mbr" /\ Fail
  /\ mbr' \in {mbr, [mbr EXCEPT ![job.drive] = buf]}
  /\ UNCHANGED <<data, buffers>>

BadWriteMbr ==
  /\ pc = "write_mbr"
  /\ mbr' \in {mbr, [mbr EXCEPT ![job.drive] = buf]}
  /\ buf' = NoTable
  /\ said' = IF job.cmd = "delpart" THEN {"deleted"} ELSE said
  /\ pc' = CASE job.cmd = "delpart" -> "prompt"
             [] job.fs = "ext4"     -> "format_ext4"
             [] job.fs = "fat32"    -> "write_meta"
  /\ step' = IF job.fs = "fat32" THEN 1 ELSE 0
  /\ UNCHANGED <<data, attached, list, job, buffers, shown, bounds>>

WriteMbr ==
  /\ pc = "write_mbr"
  /\ mbr' = [mbr EXCEPT ![job.drive] = buf]
  /\ buf' = NoTable
  /\ said' = IF job.cmd = "delpart" THEN {"deleted"} ELSE said
  /\ pc' = CASE job.cmd = "delpart" -> "prompt"
             [] job.fs = "ext4"     -> "format_ext4"
             [] job.fs = "fat32"    -> "write_meta"
  /\ step' = IF job.fs = "fat32" THEN 1 ELSE 0
  /\ UNCHANGED <<data, attached, list, job, buffers, shown, bounds>>

Ext4TooSmall ==
  /\ pc = "format_ext4" /\ job.sectors < MIN_EXT4_SECTORS
  /\ Fail
  /\ UNCHANGED <<disk, buffers>>

(* allocate may return NULL.                                               *)
NoBuffer ==
  /\ pc = "format_ext4" /\ job.sectors >= MIN_EXT4_SECTORS
  /\ Fail
  /\ UNCHANGED <<disk, buffers>>

AllocateBuffer ==
  /\ pc = "format_ext4" /\ job.sectors >= MIN_EXT4_SECTORS
  /\ buffers' = buffers + 1
  /\ pc' = "read_superblock"
  /\ UNCHANGED <<disk, attached, list, job, buf, step, said, shown, bounds>>

ReadSuperblock ==
  /\ pc = "read_superblock" /\ SuperblockLba < Capacity[job.drive]
  /\ Groups(job.sectors) \in 1 .. MAX_GROUPS
  /\ pc' = "write_meta" /\ step' = 1
  /\ UNCHANGED <<disk, attached, list, job, buf, buffers, said, shown, bounds>>

FreeBuffer == buffers' = IF job.fs = "ext4" THEN buffers - 1 ELSE buffers

(* The read fails, or one of the two checks that follow it.                *)
SuperblockFails ==
  /\ pc = "read_superblock"
  /\ FreeBuffer /\ Fail
  /\ UNCHANGED disk

Sector == PlanSector(job.fs, job.sectors, step)

Written == [data EXCEPT ![job.drive] = Put(@, Sector.lba, Sector.what)]

WriteMeta ==
  /\ pc = "write_meta" /\ Sector.lba < Capacity[job.drive]
  /\ step < PlanLength(job.fs, job.sectors)
  /\ data' = Written
  /\ step' = step + 1
  /\ UNCHANGED <<mbr, attached, list, pc, job, buf, buffers, said, shown,
                 bounds>>

WriteLastMeta ==
  /\ pc = "write_meta" /\ Sector.lba < Capacity[job.drive]
  /\ step = PlanLength(job.fs, job.sectors)
  /\ data' = Written
  /\ said' = said \union {"formatted"}
  /\ step' = 0
  /\ FreeBuffer /\ Leave
  /\ UNCHANGED <<mbr, attached, available_disks, current_disk, job, buf, shown,
                 bounds>>

WriteMetaFails ==
  /\ pc = "write_meta"
  /\ data' \in {data} \union {w \in {Written} : Sector.lba < Capacity[job.drive]}
  /\ FreeBuffer /\ Fail
  /\ UNCHANGED mbr

-----------------------------------------------------------------------------
(* The steps a command, or the start of the kernel, takes by itself.       *)
Run ==
  \/ ProbePresent \/ ProbeAbsent \/ ScanDone
  \/ ReadMbrFails \/ AddEntry \/ TableFull \/ ClearEntry \/ NothingToDelete
  \/ WriteMbrFails \/ WriteMbr
  \/ Ext4TooSmall \/ NoBuffer \/ AllocateBuffer
  \/ ReadSuperblock \/ SuperblockFails
  \/ WriteMeta \/ WriteLastMeta \/ WriteMetaFails

Next ==
  \/ Boot \/ Crash
  \/ Update \/ PartInfo
  \/ \E i \in -1 .. 4 : SelectDisk(i) \/ DeletePartition(i)
  \/ \E fs \in {"ext4", "fat32"} :
       \/ FormatDisk(fs)
       \/ \E mb \in SizeArgs : CreatePartitionMb(mb, fs)
  \/ Run

Spec == Init /\ [][Next]_vars

(* The user may stop typing and the power may stay off, but a drive that   *)
(* is asked for a sector answers.                                          *)
FairSpec == Spec /\ WF_vars(Run)

-----------------------------------------------------------------------------
Working == pc \in {"read_mbr", "write_mbr", "format_ext4", "read_superblock",
                   "write_meta"}

Formatting == pc \in {"format_ext4", "read_superblock", "write_meta"}

Disks == [position : {-1} \union Drives, size_mb : Nat]

TypeOK ==
  /\ mbr \in [Drives -> Tables]
  /\ DOMAIN data = Drives /\ \A d \in Drives : DOMAIN data[d] \subseteq Nat
  /\ attached \subseteq Drives
  /\ available_disks \in [0 .. MAX_DISKS - 1 -> Disks]
  /\ num_disks \in 0 .. MAX_DISKS
  /\ current_disk \in -1 .. MAX_DISKS - 1
  /\ probe \in 0 .. 4
  /\ pc \in {"off", "scan", "prompt"} \/ Working
  /\ job \in [cmd : {"none", "newpart", "format", "delpart"},
              drive : {-1} \union Drives, fs : {"none", "ext4", "fat32"},
              size : Nat, sectors : Nat, index : {-1} \union Indices]
  /\ Working => job.drive \in Drives
  /\ buf \in {NoTable} \union Tables
  /\ step \in Nat
  /\ buffers \in Nat
  /\ said \subseteq {"created", "formatted", "deleted"}
  /\ shown \in {NoTable} \union Tables
  /\ commands \in 0 .. MaxCommands
  /\ crashes \in 0 .. MaxCrashes

(* A selected index denotes an attached drive and the size the scan finds  *)
(* it to have, also while the list is being rebuilt; and a command that    *)
(* transfers sectors works on that drive (the globals of disktool.c agree  *)
(* with the arguments passed).                                             *)
SelectionSound ==
  current_disk # -1 =>
    /\ Selected.position \in attached
    /\ Selected = Identify(Selected.position)
    /\ Working => job.drive = Selected.position

(* Rebuilding the list never makes the selected index denote another       *)
(* drive: init_disktool leaves current_disk alone.                         *)
SelectionStable ==
  [][current_disk # -1 /\ current_disk' = current_disk =>
       available_disks'[current_disk].position = Selected.position]_vars

(* No step writes to a drive other than the one the user has selected.     *)
OnlySelectedWritten ==
  [][\A d \in Drives :
       mbr'[d] # mbr[d] \/ data'[d] # data[d] =>
         current_disk # -1 /\ d = Selected.position]_vars

(* Metadata is written only for a partition the table on disk lists, with  *)
(* this type and size: power loss or an error between the two leaves an    *)
(* unformatted partition, never a formatted area outside of any partition. *)
FormatOnlyListed ==
  Formatting => mbr[job.drive][job.index] = NewEntry

(* When a command claims that a partition is formatted, the table lists it *)
(* and every metadata sector is on the drive, none overwritten by another; *)
(* when it claims a partition is deleted, its entry is empty on the drive. *)
SuccessMeansDone ==
  /\ "formatted" \in said =>
       /\ mbr[job.drive][job.index] = NewEntry
       /\ \A k \in 1 .. PlanLength(job.fs, job.sectors) :
            LET s == PlanSector(job.fs, job.sectors, k) IN
            s.lba \in DOMAIN data[job.drive] /\ data[job.drive][s.lba] = s.what
  /\ "deleted" \in said => IsEmpty(mbr[job.drive][job.index])

(* format_ext4 holds its one disk buffer exactly while it transfers, and   *)
(* every way out of it frees the buffer.                                   *)
NoBufferLeak ==
  buffers = IF pc \in {"read_superblock", "write_meta"} /\ job.fs = "ext4"
              THEN 1 ELSE 0

(* Although sizes are computed in 32 bits, a newpart that passes the check *)
(* against the disk (itself of a truncated size) gets exactly the sectors  *)
(* it asked for, and no group's bitmap address wraps around.               *)
ArithmeticExact ==
  Working /\ job.cmd # "delpart" =>
    /\ job.cmd = "newpart" => job.sectors = job.size * SECTORS_PER_MB
    /\ \A g \in 0 .. Groups(job.sectors) - 1 :
         BitmapLba(g) = START_LBA + g * GROUP_SECTORS

(* A partition is never larger than its drive, although it may end behind  *)
(* it; the one format makes ends on the drive.                             *)
PartitionFits ==
  Working /\ job.cmd # "delpart" =>
    /\ job.sectors <= Capacity[job.drive]
    /\ job.cmd = "format" => START_LBA + job.sectors <= Capacity[job.drive]

(* The size of a drive in the list may be too small, since its byte count  *)
(* is taken modulo 2^32, but is never more than the drive has.             *)
DrivesNotOverstated ==
  \A i \in 0 .. num_disks - 1 :
    available_disks[i].size_mb * SECTORS_PER_MB
      <= Capacity[available_disks[i].position]

(* Whatever the sizes of drive and partition, 32 bits do for them: a drive *)
(* is not taken for a larger one, and a partition has the size asked for   *)
(* and is never larger than its drive.                                     *)
SizesExact == DrivesNotOverstated /\ ArithmeticExact /\ PartitionFits

(* The metadata of a partition that is not empty lies inside of it.        *)
MetadataInside ==
  pc = "write_meta" /\ job.sectors > 0 =>
    Sector.lba \in START_LBA .. START_LBA + job.sectors - 1

(* Each of the two FATs, of 128 entries a sector, has an entry for every   *)
(* cluster of the partition and for the two numbers no cluster has.        *)
FatCoversClusters ==
  pc = "write_meta" /\ job.fs = "fat32" /\ job.sectors > 0 =>
    128 * SECTORS_PER_FAT(job.sectors) >= Clusters(job.sectors) + 2

(* No metadata is on the partition table's sector, and all of it is within *)
(* the 28 bits of a sector's address, also that of an empty partition,     *)
(* whose tables are as large as 32 bits wrap around to.                    *)
MetadataPlaced ==
  \A d \in Drives : \A lba \in DOMAIN data[d] :
    lba >= START_LBA /\ lba < ADDRESSES

(* Metadata has the room it needs, and stays inside of it.                 *)
MetadataSound == MetadataInside /\ FatCoversClusters /\ MetadataPlaced

(* The tables change as module PartitionTable promises.                    *)
Table == INSTANCE PartitionTable
           WITH table <- mbr, InitialTables <- InitialTable

ImplementsTable == Table!Spec

(* Every command and every scan ends, in the prompt if the power stays on. *)
CommandsReturn == pc \notin {"off", "prompt"} ~> pc \in {"off", "prompt"}

-----------------------------------------------------------------------------
(* What the program's own messages and comments say, and the code does not *)
(* keep.                                                                   *)

(* "Partition created successfully." is printed for a partition that is in *)
(* the table.                                                              *)
CreatedMeansListed ==
  "created" \in said =>
    \E i \in Indices : mbr[job.drive][i] = NewEntry

(* partinfo shows the table of the disk it names.                          *)
PartInfoShowsSelection ==
  shown # NoTable => shown = mbr[Selected.position]

=============================================================================
