# A TLA+ model of etyOS2

etyOS2 is a small x86_64 kernel written in C: it boots through GRUB into
`kernel_main`, initialises a heap and a list of ATA disks, and serves a prompt
from which disks can be partitioned and formatted.  This directory holds TLA+
modules for the parts of it that carry state, TLC configurations that check
them on small instances, and proofs, checked by TLAPS, that hold for every
value of their constants.

## The system

There is one thread and no interrupt is enabled: keyboard and disks are polled.
What makes the code hard is therefore not concurrency in memory.  It is the
long sequences of calls that share a few globals; the drives, which go on by
themselves while the driver polls them; the transfers that can fail or be cut
off by a power loss half way through a command while the disk keeps what was
written; loops that write the data they walk over; and 32-bit arithmetic on
sizes.

| part | source (`src/source/...`) | state | operations | modules |
|---|---|---|---|---|
| Kernel heap | `implementation/x86_64/memory_allocator.c` | `memory_pool` with its block headers, `free_list` | `memory_allocator_init`, `allocate`, `free` | `MemoryAllocator`, `Heap` |
| Disk tool | `implementation/x86_64/disktool.c` | `available_disks`, `num_disks`, `current_disk` | `init_disktool`, `select_disk`, `create_partition_mb`, `format_disk`, `delete_partition`, `display_partition_info` | `DiskTool`, `PartitionTable` |
| Partitioning and formatting | `implementation/x86_64/partition.c` | sectors on the drives; a sector buffer while it works | `create_ext4_partition`, `create_fat32_partition`, `format_ext4`, `format_fat32`, `display_partitions` | `DiskTool`, `Ext4Format`, `FormatPlan` |
| ATA driver | `implementation/x86_64/filesystem.c` and the scan of `disktool.c` | none in memory; the registers of two controllers, and what each drive is doing | `ata_read_sector(_disk)`, `ata_write_sector(_disk)`, IDENTIFY | `AtaDriver`, `SectorStore` |
| Prompts | `implementation/kernel/main.c`, `implementation/kernel/commands/disktool_cmd.c` | the command line, the background colour of either prompt | take a line apart and call a function | `Shell` |
| String helpers | `implementation/x86_64/string.c` | none | `strcmp`, `strncmp`, `strchr`, `strtoul` | `Shell` |
| Screen and keyboard | `implementation/x86_64/print.c` | `row`, `col`, the text buffer; `shift_pressed`, `caps_lock_enabled` | `print_char`, `print_newline`, `print_clear`, `get_char`, `read_input`; `print_int`, `print_dec` | `Console`; `Shell` |
| Memory helpers | `implementation/x86_64/memory.c` | none | `memory_copy`, `memory_move`, `memory_set`, `memory_zero`, `memory_swap`, `memory_compare`, `memory_find`, `memory_is_zero` | `Memory` |
| Boot code | `implementation/x86_64/boot/*.asm` | page tables, processor mode | checks the processor, enters long mode, calls `kernel_main` | not modelled |

What makes each part correct:

* **Heap.** Areas handed out are disjoint and inside the pool; a freed area can
  be handed out again; `allocate` fails only when nothing fits; calls return.
* **Disk tool.** The selected index keeps denoting the same drive; a command
  writes only to that drive; an error or a power loss leaves at worst a listed
  but unformatted partition; success is claimed only for what is on the disk;
  sizes survive 32-bit arithmetic; every command ends.
* **Partition tables.** A command changes one entry of one table; a new
  partition takes the first empty entry.
* **A format.** Every metadata sector lies in the partition, where the format
  means it to be, with the fields it is meant to have, and no later one falls
  on it; its counts add up; its buffer is freed on every way out.
* **ATA driver.** A transfer moves one whole sector or reports an error, on the
  drive and at the place asked for, and ends; it disturbs no other drive.
* **Prompts.** A line of the form the help text describes makes the call it
  describes, with the number typed.
* **Screen and keyboard.** What stands on the line is what is in the buffer;
  the cursor stays on the screen; shift counts as held only while a shift key
  is, and always while both are.
* **Helpers.** `memory_move` is right for overlapping areas; nothing outside of
  the areas is touched; comparison, search and numbers agree with their
  definitions.

How the parts meet, and where the models do:

* `Shell` ends in a call with its arguments (`call`); these are the commands
  that `DiskTool` begins with, for any arguments at all.
* `DiskTool` takes a sector transfer as one step that succeeds or fails, and a
  failed write as one that may or may not have reached the drive.  That is what
  `SectorStore` says, and `AtaDriver` is shown to implement it.  The other side
  is theorem `OneSectorAStep`: whatever step `DiskTool` takes, what it does to
  the drives is the effect of one such request, on an attached drive and at an
  address of 28 bits.  It is also why `DiskTool` may keep the partition tables
  apart from the metadata: the two never share a sector.
* `DiskTool` takes the k-th metadata sector of a format from `FormatPlan`, as a
  place and a name.  `Ext4Format` extends the same module and shows that what
  `format_ext4` writes, field by field, is that plan.
* `Ext4Format` has the heap inside: it instantiates `MemoryAllocator`, and its
  steps call that module's actions.  `DiskTool` lets `allocate` return NULL
  whenever it likes.
* `Console` scrolls a row at a time; that the bytes of an overlapping move
  arrive is the theorem about `Memory`.

## The modules

| module | what it is |
|---|---|
| `Heap` | what a heap promises: grant a free area of the size asked for, release a granted one |
| `MemoryAllocator` | `memory_allocator.c`; implements `Heap` |
| `MemoryAllocatorProofs` | theorems about it |
| `FormatPlan` | where the two formats put their metadata, in which order; the sizes they compute |
| `PartitionTable` | what partitioning promises: one entry of one table changes at a time |
| `DiskTool` | `disktool.c` and the partition code it calls, a sector transfer a step; implements `PartitionTable` |
| `DiskToolProofs` | theorems about it |
| `Ext4Format` | `format_ext4` with the fields of its sectors, its buffer and the heap |
| `Ext4FormatProofs` | theorems about it |
| `SectorStore` | what the sector functions promise |
| `AtaDriver` | the sector functions, register by register and word by word, and the drives; implements `SectorStore` |
| `AtaDriverProofs` | theorems about it |
| `Shell` | the two prompts, the string functions they use, the numbers printed |
| `ShellProofs` | theorems about it |
| `Console` | `print.c`: screen, keyboard and line editor, and the prompt loop around them |
| `ConsoleProofs` | theorems about it |
| `Memory` | `memory.c` |
| `MemoryProofs` | theorems about it |
| `Recursion` | what the proofs need of recursive functions: induction over the numbers up to a bound, and that a definition by recursion defines |
| `MC...` | constants for TLC |

In every module, a definition whose name begins with `Bad`, `Stuck` or `Hasty`
is a plausible slip in the definition it is named after (a guard left out, an
index off by one).  The specifications use none of them; each is there to see
that the property it belongs to does notice it.

### MemoryAllocator

The state is the headers as they lie in the pool: the set `blocks` of their
addresses, and the fields `size`, `is_free` and `next` of each.  `allocate` and
`free` are loops that write the list as they walk it, so each turn of a loop is
a step (`SearchNext`, `TakeSplit`, `TakeWhole`, `ReturnNull`; `MergeNext`,
`CoalesceNext`, `FreeReturns`), and the invariants hold at every turn.  A
history variable keeps what callers have been granted and have not freed;
callers free what they were granted, once, as the only caller in `partition.c`
does.

### DiskTool

The state is the globals of `disktool.c`, the table and the written sectors of
every drive, and the locals of the command in progress (`job`, `buf`, `step`).
One step is one sector transfer with the computation up to the next one.

| action | code |
|---|---|
| `Boot`, `ProbePresent`, `ProbeAbsent`, `ScanDone`, `Update` | `init_disktool` at start, by `update` and at the end of `newpart` |
| `SelectDisk`, `PartInfo` | `select_disk`, `display_partition_info` |
| `CreatePartitionMb`, `FormatDisk`, `DeletePartition` | the checks the three commands begin with |
| `ReadMbrFails`, `AddEntry`, `TableFull`, `ClearEntry`, `NothingToDelete` | the read of the partition table and what follows from it |
| `WriteMbr`, `WriteMbrFails` | the write of the edited table |
| `Ext4TooSmall`, `NoBuffer`, `AllocateBuffer`, `ReadSuperblock`, `SuperblockFails` | `format_ext4` up to its first write |
| `WriteMeta`, `WriteLastMeta`, `WriteMetaFails` | one metadata sector of `format_ext4` or `format_fat32` |
| `Crash` | loss of power: disks keep their sectors, everything else starts afresh |

Abstractions, and why nothing that matters is lost:

* A transfer may fail at any time, and a failed write may or may not have
  reached the drive.  A drive of capacity 0 is a device that answers IDENTIFY
  and rejects every transfer.
* Both controllers are there: without one the scan does not end (see
  `AtaDriver`), and the kernel never gets to its prompt.
* IDENTIFY of one position, with the polling of `disktool.c:40` and the 256 words
  read, is one step, and a drive that is there answers it.  `AtaDriver` has the
  polling and the words, and the drive that refuses the command.
* 32-bit byte counts are sector counts modulo 2^23, since every one of them is a
  multiple of 512.
* Sector contents are named by what they are (`<<"descriptor", g, free>>`), with
  the numbers by which two of them differ; `Ext4Format` has the fields.
* The two checks on the number of block groups appear as a guard that, as lemma
  `GroupsBound` proves, always holds.
* Printed text is left out, except for the claims of success (`said`) and which
  table `partinfo` shows.  `listdisks` and `help` change nothing.
* `format_partition` and `select_partition` are called by nothing.

### Ext4Format

A sector is a function from the offsets of its non-zero fields to their values,
so that one structure laid over another (`sb` and `gd` over the same buffer)
reads what is really there: the free inode count of a descriptor is `Field` of
the cleared buffer at the offset of `s_inodes_per_group`.

| action | code of `format_ext4` |
|---|---|
| `TooSmall`, `FormatExt4` | the size check, and the call of `allocate` |
| `Allocated`, `ReadSuperblockFails` | the buffer granted and cleared; the read of the old superblock |
| `InitSuperblock` | `init_superblock`, with the `memory_zero` of 730 bytes that reaches into the header of the next heap block (`Overrun`) |
| `WriteSuperblock`, `WriteDescriptor`, `WriteBlockBitmap`, `WriteInodeBitmap`, `WriteLastInodeBitmap` | a write, and the preparation of the next sector in the same buffer |
| `WriteFails` | any of these writes fails |
| `FreeNext`, `Freed` | the turns of `free` on every way out |

What the damaged header means is modelled, not excluded: the block behind the
buffer becomes a used one of size 0, at the end of the list.  There is no
action for `allocate` returning NULL because it never does; `BufferSound`
states and the proof shows that.

### AtaDriver and SectorStore

The state is the task file registers of each controller, which its two drives
share, what each drive is doing (`dev`), and the locals of the function called.
Ports and drives are hardware and are modelled as the driver uses them: a drive
is busy from the moment the command register is written until it wants data or
reports an error, whichever it likes; after the last word of a write it is busy
again, until the sector is stored or an error reported.  The status of a
controller that is not there reads as busy, that of a drive that is not there
as 0, its data as `FLOATING`.

| action | code |
|---|---|
| `ata_read_sector_disk`, `ata_write_sector_disk`, and the same without `_disk` for the primary master | the writes to the registers, up to the command |
| `identify`, `Probe` | the two writes of a scan and its first look at the status |
| `Wait` | the polling loop and the look at ERR behind it |
| `MoveIn`, `MoveOut`, `MoveDone` | a turn of the loop over the words, and its end |
| `Finish` | the second polling loop of a write |
| `Ready`, `Fail`, `Store` | the drives |
| `PowerLoss` | the drives keep their sectors (one being stored may or may not be); the machine may have other drives when the power returns |

Left out: the moment between a command and the drive's busy bit (the driver
does not wait for it; the ports are slow enough in the machines there are), and
the status bits other than BSY and ERR, which the driver does not look at.

`SectorStore` is the specification its callers rely on: one request at a time,
a sector written whole or not at all, at the number asked for modulo 2^28,
never another; a failed or interrupted request has written its own sector or
nothing.  The refinement maps words to bytes in the order of the ports and a
call in progress to a request without answer.

### Shell

A line is a sequence of words and single characters; `Is` and `Begins` are the
`strcmp` and `strncmp` of the prompts.  Every branch of the two `if` chains is
an action (`KernelWord`, `Echo`, `StartDiskTool`, `SetColor`, `ToolWord`,
`Format`, `SelectDisk`, `NewPart`, `DelPart`, `Exit`, ...).  `strtoul`
(`TakeDigit`, `CallWithNumber`, `ColorSet`), `print_int` and `print_dec` are a
digit a step, because they stop at what they meet: a character that is no
digit, a buffer that is full.  Whatever is printed around the numbers is left
out; that `listdisks` and `update` print any number of them is all that is kept
of the list.

### Console

`buffer` is the screen memory by address, `line` the command line.  Printing
and reading are a character a step.  Which command a line names and what it
prints is left open: any text of `Outputs`, or the line itself as `echo` and
`Unknown command` do.  A text may leave its line open, as `display_partitions`
does when the table cannot be read.  The maps from scan codes to characters are
constants; a key without a character gives 0, and so does the model.  Such a key
in the middle of a line is a 0 in its buffer, where the line ends for the
commands: `EchoMatchesLine` is about the buffer.  Colours are left out.

`get_char` has one flag for two shift keys.  `ShiftWhileDown` says what holds of
it: it is set only while a key is down, and always while both are.  When one of
two keys goes up the flag is cleared although the other is still down; nothing in
the program says otherwise.

### Memory

Memory is a row of bytes, an area an address and a length; each turn of a loop
is a step, with its two pointers.  `memory_copy` and `memory_move` are the same
code.  An area may begin behind the last byte when it has length 0.

## What is model-checked

| run | question | instance | distinct states |
|---|---|---|---|
| `allocator` | is the list sound at every turn of both loops, does it implement `Heap`, does every call return | a pool of 13 units, headers of 2, requests of 0 to 12 units that leave a slack of 0, 1 and 2 or cut a block: up to six blocks, so that a block can have a neighbour of every kind on both sides | 291,498 |
| `disktool` | do selection, table, metadata and claims of success agree, whatever fails | two drives: one of 130 MB, large enough for two block groups, one of 4097 MB, whose 32-bit size wraps around, with one entry left in its table; three writing commands and one power loss | 597,871 |
| `ext4_format` | does every format follow the plan, do its counts add up, is its buffer granted and returned, does it end | the kernel's own heap: 100 MB, headers of 24 bytes; partitions of 3 MB (refused), 4 MB, 129 MB (a partial second group) and 384 MB (three whole ones); any number of formats | 2,463 |
| `ata` | does every call answer for the sector and drive it was given, is no other drive disturbed, does every call return | sectors of two words; two drives on one controller, or one alone on the other; three sector numbers, two that differ in their upper four bits only and one that is too large for a drive; no bound on calls, errors or power losses | 167,232 |
| `shell` | does a well-formed line make the call the help describes; are numbers read and printed right | numbers of 8 bits, printed with up to 3 digits and typed with up to 4, so that they wrap around; mistyped words, numbers and file systems, at both prompts | 22,490 |
| `console` | does the screen show the command line | 3 rows and 3 columns, prompt of 2, line of 4, five outputs; no bound on the number of keys or lines | 155,360 |
| `memory` | does each helper do what its name says, inside its areas | four bytes; areas of every length and place, apart, touching and overlapping both ways | 372,742 |

Why these bounds are enough.  Three commands make a create, a delete and a
second create on the same drive, with a change of the selection, a rescan or a
power loss between any two steps; commands share nothing but the selection and
what is on the drives, and with one power loss every prefix of a command is
followed by a restart.  In `Console` a line is just as long as fits above the
last row, so that it wraps twice and scrolls; a longer one would not be seen as
a whole, and the screen of the kernel (80 by 25, for 15 + 255 characters) is far
from that limit, which `ConsoleAssumption` states.  Two words make the first
and the last of a sector, and a failure or a power loss falls before, between
and behind them.  In the shell's instance the ratio of the wrap-around (256) to
three digits is that of 2^32 to ten.

Where a theorem states the same property (see below), the bound no longer
matters.

Fairness is assumed of the steps the kernel takes by itself (`Run` in
`DiskTool`, `Ext4Format` and `AtaDriver`, `Walk` in `MemoryAllocator`): one
thread executes them and nothing can disable one for ever.  `AtaDriver` also
assumes it of `Device`: a drive that is busy is so for a time only.  It is not
assumed of the user, nor that the power returns.  `CallsReturn` in `AtaDriver`
is about controllers that are there; `DiskTool` and `Ext4Format` take from it
that a transfer ends, one way or the other.

### What the program says of itself and does not keep

Five runs violate a property that states a comment or a message of the program.

| run | the program says | TLC shows |
|---|---|---|
| `allocator_coalescing` | `free` coalesces adjacent free blocks | after a merge the walk moves on past the merged block, so of three free neighbours two stay apart |
| `newpart_success_message` | "Partition created successfully." | also printed after a full table or a failed transfer |
| `partinfo_other_disk` | partition information of the selected disk | the table is that of the primary master |
| `ext4_heap` | `allocate` hands out memory "within the block" | clearing the 730 bytes of a superblock in a buffer of 512 wipes the header behind it: the rest of the pool is lost |
| `ext4_descriptors` | the descriptors of a completed format name its "empty inode bitmap" and its inodes | they count no free inode, and the bitmap is written one sector behind the block bitmap instead of one block |

Read from the code while modelling it, and without a run of their own:

* the minimum of an ext4 partition is 4 MB, where the message says 32
  (`partition.c:82`);
* a drive of 4 GB or more is listed with its size modulo 4 GB (`disktool.c:55`);
  `SizesExact` shows that the size listed is never more than the drive has, and
  that no partition suffers from the wrap-around;
* `newpart` checks the size but not the 2048 sectors before the partition, which
  may end behind the disk (`disktool.c:113`); `SizesExact` shows that this is
  the worst;
* `format` adds an entry beside those there are, over the same sectors
  (`disktool.c:141` says "a single partition");
* `format` without a type makes an ext4, as the help says; the comment at
  `disktool_cmd.c:70` says FAT32.  `ext4` followed by a space means FAT32;
* `newpart` with two spaces before the number has size 0; `delpart x` deletes
  entry 0; numbers wrap around at 2^32 (`string.c:50`);
* `setcolor` keeps the number it has just called invalid (`main.c:102`);
* the scans do not look at ERR after IDENTIFY, so a drive that refuses the
  command is listed with floating data (`disktool.c:43`), and a read of a drive
  that is missing beside another succeeds with such data;
* on a machine without a secondary controller the scan at boot polls for ever
  (`disktool.c:40`);
* `checkfs` goes on after a failed read, with a buffer that was never written,
  and looks behind its end for an ISO 9660 signature (`filesystem.c:273`, `286`).

## What is proved

The proofs hold for every value of the constants: any pool, header and request
sizes; any drives at the four positions, of any capacity and with any tables;
any sizes asked for, any number of commands, errors and power losses; any
screen, prompt, keyboard and output; any line typed and any width of the
numbers; any memory.  They rest on the ASSUMEs of
the modules only (`PoolAssumption`, `DriveAssumption`, `FormatAssumption`,
`AtaAssumption`, `ConsoleAssumption`, `ShellAssumption`, `MemoryAssumption`),
which TLC evaluates in the runs.  Beyond types these say that the pool holds a
header (and, in `Ext4Format`, a sector), that a partition is of whole megabytes
below 4 GB, that a drive needs a controller, that a full line leaves the last
row free, and that the buffers of the two print functions have room for the
digits of the largest number and the colours are small numbers (both are so for
32 bits and ten digits).

**MemoryAllocator.** `TypeCorrect`, `ListStaysInOrder`, `UsedExactlyGranted`,
`NullOnlyWhenUnfit`, `FreeIsReusable`, `HeapImplemented`.  The inductive
invariant adds to the checked ones where the two walks are and that
consecutive blocks meet; without it a merge could swallow a gap.

**DiskTool.** The inductive invariant `IInv` has four parts beside the types:

* `ListInv`: every used entry of the disk list *and the selected one*, used or
  not, describes an attached drive, and its index is the number of attached
  drives before it.  This is why a rescan, which empties the list and fills it
  again from the start, cannot renumber the selection: lemma `BeforeUnique` says
  two drives with the same number before them are one.
* `JobInv`: the command's arguments agree with the selection and with the size
  of the drive.  The size is less than 4096 MB however large the drive, which
  is what keeps all later products below 2^32 (`NoWrap`, `GroupsBound`,
  `GroupPlace`).
* `TableInv`: the table in memory is the one on the drive with one entry edited;
  the metadata phase works on an entry that is on the drive.
* `NoBufferLeak`.

From it follow `TypeCorrect`, `SelectionAlwaysSound`, `SelectionAlwaysStable`,
`OnlySelectedEverWritten`, `FormatsOnlyListed`, `SizesAlwaysExact` (of
`DrivesNeverOverstated`, `ArithmeticAlwaysExact` and `PartitionAlwaysFits`) and
the refinement `TableImplemented`, which is about entries of the table and not
about the sectors they name: partitions made one after the other share those.
The second part of `DiskToolProofs` adds where
the metadata sectors lie: inside the partition, with FATs that reach its last
cluster, and, of an empty partition too, never on a table or beyond 28 bits
(`MetadataAlwaysSound`, whence `OneSectorAStep`); and no two in the same place
with different contents (`PlacesAgree`), so that what has been written stays
written (`MetaInv`) and a claim of success is true (`SuccessAlwaysDone`).

**Ext4Format.** `TypeCorrect`, `BufferAlwaysSound`, `FreeCountAlwaysExact`,
`PlanAlwaysFollowed`, `BlocksAlwaysAddUp`.  That a buffer can always be had,
although the first format destroys the list, is `HeapInv`: there are never more
than two blocks, the first is always large enough, and `free` cannot merge the
second one once its header says it is used.  No 16-bit count wraps because a
partition of whole megabytes leaves at least 256 blocks for its last group
(`GroupsOf`).  For the plan, the invariant adds what the buffer holds before
each write (`BufferInv`); what has been written stays because no two sectors of
the plan are in the same place (`PlacesDiffer`), which is arithmetic up to the
largest partition, where 32-bit products begin to wrap around.  That the free
blocks of all descriptors add up to the superblock's is an induction over the
groups written, with the rest of the last one at its end.

**AtaDriver.** `TypeCorrect`, `OthersAlwaysQuiet`, `StoreImplemented`.  The
invariant relates the driver's place in its code to what the drive is doing:
before the words are moved the drive has moved none (`WaitInv`), during the
loop both are at the same word (`MoveInv`), and the words moved are the bytes
of the caller's buffer or of the sector on the medium (`WriteInv`, `ReadInv`).
The registers give back the sector number by arithmetic on a nibble and three
bytes (`LbaOf` of `TaskFile`), and bytes and words convert both ways.  All this
holds for a drive that may fail at any time: a drive in the middle of a command
is always the one asked for, which is `OthersQuiet`.

**Console.** `TypeCorrect`, `EchoAlwaysMatches`, `NeverBehindCursor`,
`ShiftAlwaysHeld`, `OutputAlwaysKept`.  The argument is by addresses: a
character moves the cursor by one or, when the screen scrolls, everything by a
row.  The invariant adds, while a prompt is being printed, that what is missing
of it is the end of `out` (`PromptToCome`) and that what is printed stands
before the cursor (`PromptStands`).

**Shell.** `AlwaysTypeOK`, `AlwaysNumbersExact`, `AlwaysTypedMeansDone`.  The
inductive invariant has a part for each phase of a line: while a number is read
(`ParseInv`), what has been read is the value of the digits passed, modulo the
range, and the word before it is the one that asked for a number; at the branch
taken and after the call (`DispatchInv`, `DoneInv`), the line began as that
branch compares it; while a number is printed (`ShowInv`), the digits in the
buffer and the number left make up the one asked for.  That reading may drop
what wraps around at every digit, and not only at the end, is lemma `ModStep`;
that the digits found are *the* numeral of a number is that of two numerals
without a zero in front, of equal value, each digit is the same; and that the
buffers are large enough, the unguarded one of `print_dec` included, is that
what is left to print is always below the power of ten for the room that is left
(`Fitting`).

**Memory.** `TypeCorrect`, `MoveRight`, `WritesRight`, `SearchRight`,
`AlwaysInBounds`.  The invariant says for each loop where its pointers are after
so many turns, and that memory is what the call found with that many bytes done:
from the front going forward, from the back going backward.  That a byte still
to be copied has not been overwritten follows from the direction.

**Induction.**  The sum over the groups, the value of a row of digits and the
powers of ten are recursive functions.  The induction theorems of the library
take an operator, which no prover here can instantiate; `Recursion` derives from
the well-foundedness of the natural numbers, applied to the *set* of
counterexamples, that a set with 0 and with every successor holds all numbers up
to a bound, and that a recursive function has the values it is defined by.

**Every loop ends.**  Liveness itself, which is about fairness and ENABLED, is
out of the prover's reach, but what makes it true is not.  For each component
that has loops a state function `Left` is a natural number, bounded, and every
step the component takes by itself lowers it: `WalksGoUp` (the heap; the walk
goes up the addresses whatever it splits and merges), `CommandsAdvance` (at most
106 steps, of which 97 are the metadata sectors of the largest partition),
`FormatsAdvance` (101), `CallsAdvance` of `AtaDriverProofs` (driver and drives
together, five and two for each word) and of `MemoryProofs`.  None of these
depends on errors coming or staying away.  All that the liveness properties add
is that such a step is possible until the call has returned, which TLC checks.

Only model-checked are:

* liveness: `CallsReturn` (of the allocator and of the driver),
  `CommandsReturn`, `FormatReturns`, of which the measures above are proved;
* that the composition is sound as described under "How the parts meet", as far
  as `OneSectorAStep`, `StoreImplemented`, `PlanAlwaysFollowed` and the heap
  inside of `Ext4Format` leave it open: that `Shell`'s calls are the commands of
  `DiskTool`, and that a failed transfer there is a failed answer of the driver,
  is by reading.

## Not modelled

* The boot code: assembly that runs once, in order, before the first line of C.
  Build and link files: no behaviour of the running kernel.
* `check_filesystem`, which prints what a buffer it may never have filled holds,
  and the texts of `display_available_disks` and of the partition table: they
  change no state beyond the screen, and no document says what they ought to
  print.
* Colours on the screen, and the wording of every message.
* `strcpy`, `print_hex`, `select_partition` and `format_partition`, which nothing
  calls; `strlen`, called once, on a constant.

## What could be added

* `SectorStore` under `DiskTool` by INSTANCE instead of by agreement.  It makes
  every command a composition of two machines and multiplies the states of the
  `disktool` run by those of a request; `StoreImplemented` and `OneSectorAStep`
  already carry the parts that are hard.
* `format_fat32` with the fields of its boot sector, as `Ext4Format` does for
  ext4.  It writes three sectors from a local buffer; `DiskTool` has their
  places and the number of clusters, from which `MetadataSound` follows.
* The list a scan builds from the words of IDENTIFY (`read_string_from_identify`
  and the size), over `AtaDriver`: today `DiskTool` starts from the size.
