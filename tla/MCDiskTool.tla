----------------------------- MODULE MCDiskTool -----------------------------
(***************************************************************************)
(* Two drives: a blank one of 130 MB as primary master, of two ext4 block  *)
(* groups when nearly full, and one of 4097 MB as secondary master, whose  *)
(* size the kernel takes for 1 MB and whose table has one entry left.      *)
(***************************************************************************)
EXTENDS DiskTool

MCDrives == {0, 2}

MCCapacity == [d \in MCDrives |-> IF d = 0 THEN 266240 ELSE 8390656]

Foreign == [type |-> "other", lba_first |-> 63, sector_count |-> 1000]

MCInitialTable ==
  [d \in MCDrives |->
     [i \in Indices |-> IF d = 0 \/ i = 1 THEN EmptyEntry ELSE Foreign]]

MCSizeArgs == {0, 129, 4097}

(* The smallest ext4 that is formatted, and a partition as big as a drive. *)
MCEdgeSizes == {4, 130}

=============================================================================
