------------------------- MODULE MCMemoryAllocator -------------------------
(***************************************************************************)
(* A pool of 13 units with headers of 2 units: room for six blocks, and    *)
(* requests that leave a slack of 0, 1 or 2 units behind or that cut.      *)
(***************************************************************************)
EXTENDS MemoryAllocator

MCSizes == {0, 1, 2, 4, 11, 12}

=============================================================================
