---- MODULE FormatPlan ----
(***************************************************************************)
(* Where the two formats of partition.c put their metadata, in sectors,    *)
(* and in which order: a plan that DiskTool follows sector by sector, and  *)
(* that Ext4Format shows the code to follow field by field.                *)
(*                                                                         *)
(* A definition that begins with Bad is a plausible slip in the definition *)
(* it is named after; the specifications use none.                         *)
(***************************************************************************)
EXTENDS Integers

(* Sizes: the sector the partitions begin at, those in front of a FAT, and *)
(* the fewest an ext4 is made of.                                          *)

START_LBA == 2048

RESERVED_SECTORS == 32

MIN_EXT4_SECTORS == 8192

MAX_GROUPS == 65536

(* A block group has 32768 blocks of 8 sectors.                            *)
GROUP_SECTORS == 262144

BadFatSize(total) == (total - RESERVED_SECTORS) \div 1026

(* The macro of partition.c; total - 32 wraps around below 32 sectors, and *)
(* (2^32 - 32 + total) \div 1026 is the same number for all of these.      *)
SECTORS_PER_FAT(total) ==
  2 * (IF total < RESERVED_SECTORS THEN 4186127
                                   ELSE (total - RESERVED_SECTORS) \div 1026)

(* The clusters of 8 sectors that the boot sector written by format_fat32  *)
(* leaves for data, behind the reserved sectors and two tables.            *)
Clusters(total) ==
  (total - RESERVED_SECTORS - 2 * SECTORS_PER_FAT(total)) \div 8

-----------------------------------------------------------------------------
(* The metadata sectors a format writes, in order: contents and place.     *)

Blocks(total) == total \div 8

Groups(total) == (Blocks(total) + 32767) \div 32768

BadBlocksInGroup(total, g) == 32768

BlocksInGroup(total, g) ==
  IF g = Groups(total) - 1 THEN Blocks(total) - g * 32768 ELSE 32768

SuperblockLba == START_LBA + 2

BadBitmapLba(g) == SuperblockLba + ((g * 32768) % 1048576) * 8

(* The first block of group g times 4096, as a 32-bit product, in sectors. *)
BitmapLba(g) == START_LBA + ((g * 32768) % 1048576) * 8

PlanLength(fs, total) == IF fs = "fat32" THEN 3 ELSE 1 + 3 * Groups(total)

FatSector(k, total) ==
  CASE k = 1 -> [lba |-> START_LBA, what |-> <<"boot", total, 0>>]
    [] k = 2 -> [lba |-> START_LBA + RESERVED_SECTORS, what |-> <<"fat", 0, 0>>]
    [] k = 3 -> [lba |-> START_LBA + RESERVED_SECTORS + SECTORS_PER_FAT(total),
                 what |-> <<"fat", 0, 0>>]

Ext4Sector(k, total) ==
  LET g == (k - 2) \div 3 IN
  CASE k = 1 -> [lba |-> SuperblockLba, what |-> <<"superblock", total, 0>>]
    [] k > 1 /\ (k - 2) % 3 = 0 ->
         [lba |-> SuperblockLba + 1 + g,
          what |-> <<"descriptor", g, BlocksInGroup(total, g) - 4>>]
    [] k > 1 /\ (k - 2) % 3 = 1 ->
         [lba |-> BitmapLba(g), what |-> <<"block bitmap", 0, 0>>]
    [] k > 1 /\ (k - 2) % 3 = 2 ->
         [lba |-> BitmapLba(g) + 1, what |-> <<"inode bitmap", 0, 0>>]

PlanSector(fs, total, k) ==
  IF fs = "fat32" THEN FatSector(k, total) ELSE Ext4Sector(k, total)

(* The sector contents f with contents c put at lba.                       *)
Put(f, lba, c) ==
  [a \in (DOMAIN f) \union {lba} |-> IF a = lba THEN c ELSE f[a]]

=============================================================================
