---------------------------- MODULE MCExt4Format ----------------------------
(***************************************************************************)
(* The heap of the kernel, 100 MB with headers of 24 bytes, and partitions *)
(* of 3 MB (refused), 4 MB, and 129 and 384 MB: two block groups, of which *)
(* the second is partial, and three whole ones.                            *)
(***************************************************************************)
EXTENDS Ext4Format

MCPartitionSizes == {6144, 8192, 264192, 786432}

=============================================================================
