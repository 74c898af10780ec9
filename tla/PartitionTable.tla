--------------------------- MODULE PartitionTable ---------------------------
(***************************************************************************)
(* What partitioning promises about the partition tables of the drives:    *)
(* an operation changes one entry of one table and no more.  A partition   *)
(* is added in the first empty entry, a partition is removed by emptying   *)
(* its entry; the entries of all other partitions are never disturbed,     *)
(* whatever fails on the way.                                              *)
(***************************************************************************)
EXTENDS Naturals

CONSTANTS
  Drives,         \* the positions a drive can occupy
  InitialTables   \* the tables found on the drives

VARIABLE
  table  \* for each drive, its four entries

(* An entry of a partition table (PartitionEntry).                         *)
Indices == 0 .. 3

IsEmpty(entry) == entry.type = "empty"

EmptyEntry == [type |-> "empty", lba_first |-> 0, sector_count |-> 0]

(* i is the first empty entry of table t.                                  *)
FirstEmpty(t, i) == IsEmpty(t[i]) /\ \A j \in Indices : j < i => ~IsEmpty(t[j])

Init == table = InitialTables

(* A partition described by entry is added to drive d, in entry i.         *)
Add(d, i, entry) ==
  /\ FirstEmpty(table[d], i)
  /\ ~IsEmpty(entry)
  /\ table' = [table EXCEPT ![d][i] = entry]

(* The partition in entry i of drive d is removed.                         *)
Remove(d, i) ==
  /\ ~IsEmpty(table[d][i])
  /\ table' = [table EXCEPT ![d][i] = EmptyEntry]

Next ==
  \E d \in Drives, i \in Indices : Add(d, i, table'[d][i]) \/ Remove(d, i)

Spec == Init /\ [][Next]_table

=============================================================================
