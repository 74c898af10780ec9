---------------------------- MODULE MCAtaDriver ----------------------------
(***************************************************************************)
(* A machine with two drives on the primary controller and no secondary    *)
(* one, which a power loss may leave with a secondary master only.  Of     *)
(* the three numbers asked for, two differ in their upper four bits, and   *)
(* the third is too large for a drive and stands for the first.            *)
(***************************************************************************)
EXTENDS AtaDriver

MCLbas == {258, 16777474, 268435714}

MCMachines ==
  {[controllers |-> {0}, drives |-> {0, 1}],
   [controllers |-> {0, 1}, drives |-> {2}]}

Counting == [j \in 0 .. 2 * WORDS - 1 |-> j + 1]

MCContents == {Counting}

MCInitial == [p \in Positions |-> [l \in Sectors |-> [k \in Index |-> 7]]]

=============================================================================
