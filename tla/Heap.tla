-------------------------------- MODULE Heap --------------------------------
(***************************************************************************)
(* What the kernel heap promises its callers, whatever the free list looks *)
(* like: `allocate' hands out an area of the requested size that lies in   *)
(* the pool and overlaps no area handed out and not yet freed, and `free'  *)
(* takes one area back.  A failed allocation changes nothing.              *)
(***************************************************************************)
EXTENDS Naturals

CONSTANTS
  Space,   \* bytes of the pool
  Sizes    \* sizes callers ask for

VARIABLE
  granted  \* address of each area a caller holds -> its size

(* Two areas, given by first byte and length, share no byte.               *)
Apart(a, m, b, n) == a + m <= b \/ b + n <= a

Init == granted = [a \in {} |-> 0]

(* A call of `allocate' that returns address a for a request of n bytes.   *)
Grant(a, n) ==
  /\ a \notin DOMAIN granted
  /\ a + n <= Space
  /\ \A b \in DOMAIN granted : Apart(a, n, b, granted[b])
  /\ granted' = [b \in (DOMAIN granted) \union {a} |->
                   IF b = a THEN n ELSE granted[b]]

(* A call of `free' for the area at a.                                     *)
Release(a) ==
  granted' = [b \in (DOMAIN granted) \ {a} |-> granted[b]]

Next ==
  \/ \E a \in 0 .. Space, n \in Sizes : Grant(a, n)
  \/ \E a \in DOMAIN granted : Release(a)

Spec == Init /\ [][Next]_granted

=============================================================================
