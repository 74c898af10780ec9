------------------------------ MODULE MCMemory ------------------------------
(***************************************************************************)
(* Four bytes: areas of every size, apart, touching, overlapping by one    *)
(* byte or more in both directions, and the same.                          *)
(***************************************************************************)
EXTENDS Memory

(* All bytes different, to tell every move apart, and a repetition.        *)
MCContents ==
  {[a \in Addresses |-> a + 1], [a \in Addresses |-> IF a = 2 THEN 1 ELSE 0]}

(* Values beyond a byte are taken modulo 256.                              *)
MCValues == {258, -254}

=============================================================================
