-------------------------- MODULE MemoryAllocator --------------------------
(***************************************************************************)
(* The kernel heap (memory_allocator.c): a pool of bytes cut into blocks,  *)
(* each a header (MemoryBlock: size, is_free, next) followed by its        *)
(* payload, chained in a list that `allocate' searches first fit and that  *)
(* `free' walks once to merge neighbouring free blocks.                    *)
(*                                                                         *)
(* Addresses are offsets into memory_pool.  Each turn of the two loops is  *)
(* one step; `current' is the loop's pointer.  Nothing runs concurrently   *)
(* with a call (the kernel enables no interrupt), so a call starts only    *)
(* when the previous one has returned.                                     *)
(***************************************************************************)
EXTENDS Integers

CONSTANTS
  MEMORY_POOL_SIZE,  \* bytes of memory_pool
  HeaderSize,        \* sizeof(MemoryBlock)
  Sizes              \* the sizes callers pass to allocate

ASSUME PoolAssumption ==
  /\ MEMORY_POOL_SIZE \in Nat
  /\ HeaderSize \in Nat \ {0}
  /\ HeaderSize <= MEMORY_POOL_SIZE
  /\ Sizes \subseteq Nat

VARIABLES
  blocks,   \* addresses of the headers on the list
  size,     \* header field, for each block
  is_free,  \* header field, 1 or 0
  next,     \* header field, a block or NULL
  current,  \* the loop pointer of the call in progress
  request,  \* bytes asked of allocate, or held by the area passed to free
  pc,       \* which loop is running
  granted   \* the areas callers hold: payload address -> size asked for

vars == <<blocks, size, is_free, next, current, request, pc, granted>>

-----------------------------------------------------------------------------
NULL == -1

free_list == 0

Payload(b) == b + HeaderSize

Header(p) == p - HeaderSize

End(b) == Payload(b) + size[b]

(* The test of allocate's loop for the block under the pointer.            *)
Fits(b) == is_free[b] = 1 /\ size[b] >= request

(* A definition that begins with Bad is a plausible slip in the definition *)
(* it is named after; the specification uses none of them.                 *)
BadTooLarge(b) == size[b] > request

(* The block is large enough to be cut in two.                             *)
TooLarge(b) == size[b] > request + HeaderSize

Addresses == 0 .. (MEMORY_POOL_SIZE - HeaderSize)

-----------------------------------------------------------------------------
BadInit ==
  /\ blocks = {free_list}
  /\ size = [b \in blocks |-> MEMORY_POOL_SIZE]
  /\ is_free = [b \in blocks |-> 1]
  /\ next = [b \in blocks |-> NULL]
  /\ current = NULL /\ request = 0 /\ pc = "idle"
  /\ granted = [p \in {} |-> 0]

-----------------------------------------------------------------------------
(* memory_allocator_init: one free block that fills the pool.              *)
Init ==
  /\ blocks = {free_list}
  /\ size = [b \in blocks |-> MEMORY_POOL_SIZE - HeaderSize]
  /\ is_free = [b \in blocks |-> 1]
  /\ next = [b \in blocks |-> NULL]
  /\ current = NULL /\ request = 0 /\ pc = "idle"
  /\ granted = [p \in {} |-> 0]

BadAllocate(n) ==
  /\ pc = "idle"
  /\ pc' = "search" /\ current' = next[free_list] /\ request' = n
  /\ UNCHANGED <<blocks, size, is_free, next, granted>>

(* A caller enters allocate(n).                                            *)
Allocate(n) ==
  /\ pc = "idle"
  /\ pc' = "search" /\ current' = free_list /\ request' = n
  /\ UNCHANGED <<blocks, size, is_free, next, granted>>

(* The block under the pointer is used or too small: try the next one.     *)
SearchNext ==
  /\ pc = "search" /\ current # NULL
  /\ ~Fits(current)
  /\ current' = next[current]
  /\ UNCHANGED <<blocks, size, is_free, next, request, pc, granted>>

(* allocate returns the payload of the block under the pointer.            *)
ReturnBlock ==
  /\ granted' = [p \in (DOMAIN granted) \union {Payload(current)} |->
                   IF p = Payload(current) THEN request ELSE granted[p]]
  /\ pc' = "idle" /\ current' = NULL /\ request' = 0

(* The block fits and is cut: the tail becomes a new free block.           *)
TakeSplit ==
  LET new_block == Payload(current) + request IN
  /\ pc = "search" /\ current # NULL
  /\ Fits(current) /\ TooLarge(current)
  /\ blocks' = blocks \union {new_block}
  /\ size' = [b \in blocks' |->
                CASE b = new_block -> size[current] - request - HeaderSize
                  [] b = current   -> request
                  [] OTHER         -> size[b]]
  /\ is_free' = [b \in blocks' |->
                   CASE b = new_block -> 1
                     [] b = current   -> 0
                     [] OTHER         -> is_free[b]]
  /\ next' = [b \in blocks' |->
                CASE b = new_block -> next[current]
                  [] b = current   -> new_block
                  [] OTHER         -> next[b]]
  /\ ReturnBlock

(* The block fits but leaves no room for another header: it is handed out  *)
(* whole, and its size field still becomes the size asked for, so that the *)
(* bytes behind it belong to no block any more.                            *)
TakeWhole ==
  /\ pc = "search" /\ current # NULL
  /\ Fits(current) /\ ~TooLarge(current)
  /\ size' = [size EXCEPT ![current] = request]
  /\ is_free' = [is_free EXCEPT ![current] = 0]
  /\ UNCHANGED <<blocks, next>>
  /\ ReturnBlock

(* The list is exhausted: allocate returns NULL.                           *)
ReturnNull ==
  /\ pc = "search" /\ current = NULL
  /\ pc' = "idle" /\ request' = 0
  /\ UNCHANGED <<blocks, size, is_free, next, current, granted>>

(* A caller that holds p enters free(p), which marks the block first.      *)
Free(p) ==
  /\ pc = "idle"
  /\ is_free' = [is_free EXCEPT ![Header(p)] = 1]
  /\ granted' = [q \in (DOMAIN granted) \ {p} |-> granted[q]]
  /\ pc' = "coalesce" /\ current' = free_list /\ request' = granted[p]
  /\ UNCHANGED <<blocks, size, next>>

(* The loop of free runs while the pointer has a successor.                *)
HasNext == current # NULL /\ next[current] # NULL

BadBothFree == is_free[current] = 1

BadBothFreeUsed == is_free[next[current]] = 1

BothFree == is_free[current] = 1 /\ is_free[next[current]] = 1

BadMergeNext ==
  LET absorbed == next[current] IN
  /\ pc = "coalesce" /\ HasNext /\ BothFree
  /\ blocks' = blocks \ {absorbed}
  /\ size' = [b \in blocks' |-> size[b]]
  /\ is_free' = [b \in blocks' |-> is_free[b]]
  /\ next' = [b \in blocks' |->
                IF b = current THEN next[absorbed] ELSE next[b]]
  /\ current' = next'[current]
  /\ UNCHANGED <<request, pc, granted>>

(* Merge the successor into the block under the pointer, then move on to   *)
(* the block after it: the merged block is not looked at again.            *)
MergeNext ==
  LET absorbed == next[current] IN
  /\ pc = "coalesce" /\ HasNext /\ BothFree
  /\ blocks' = blocks \ {absorbed}
  /\ size' = [b \in blocks' |->
                IF b = current
                  THEN size[b] + HeaderSize + size[absorbed] ELSE size[b]]
  /\ is_free' = [b \in blocks' |-> is_free[b]]
  /\ next' = [b \in blocks' |->
                IF b = current THEN next[absorbed] ELSE next[b]]
  /\ current' = next'[current]
  /\ UNCHANGED <<request, pc, granted>>

BadCoalesceNext ==
  /\ pc = "coalesce" /\ HasNext /\ ~BothFree
  /\ current' = IF is_free[current] = 1 THEN current ELSE next[current]
  /\ UNCHANGED <<blocks, size, is_free, next, request, pc, granted>>

(* Nothing to merge here: move on.                                         *)
CoalesceNext ==
  /\ pc = "coalesce" /\ HasNext /\ ~BothFree
  /\ current' = next[current]
  /\ UNCHANGED <<blocks, size, is_free, next, request, pc, granted>>

(* free returns.                                                           *)
FreeReturns ==
  /\ pc = "coalesce" /\ ~HasNext
  /\ pc' = "idle" /\ current' = NULL /\ request' = 0
  /\ UNCHANGED <<blocks, size, is_free, next, granted>>

(* The steps the call in progress takes by itself.                         *)
Walk ==
  \/ SearchNext \/ TakeSplit \/ TakeWhole \/ ReturnNull
  \/ MergeNext \/ CoalesceNext \/ FreeReturns

Next ==
  \/ \E n \in Sizes : Allocate(n)
  \/ \E p \in DOMAIN granted : Free(p)
  \/ Walk

Spec == Init /\ [][Next]_vars

(* Callers may stop calling; a call in progress runs on.                   *)
FairSpec == Spec /\ WF_vars(Walk)

-----------------------------------------------------------------------------
TypeOK ==
  /\ blocks \subseteq Addresses
  /\ free_list \in blocks
  /\ size \in [blocks -> Nat]
  /\ is_free \in [blocks -> {0, 1}]
  /\ next \in [blocks -> blocks \union {NULL}]
  /\ current \in blocks \union {NULL}
  /\ request \in Nat
  /\ pc = "search" => request \in Sizes
  /\ pc \in {"idle", "search", "coalesce"}
  /\ granted \in [DOMAIN granted -> Nat]
  /\ \A p \in DOMAIN granted : p \in Nat /\ Header(p) \in blocks

(* The list runs through the blocks by ascending address, each block ends  *)
(* before its successor begins, the last one ends inside the pool, and no  *)
(* block is skipped: splitting and merging keep headers out of payloads.   *)
ListInOrder ==
  \A b \in blocks :
    /\ next[b] = NULL => /\ End(b) <= MEMORY_POOL_SIZE
                         /\ \A c \in blocks : c <= b
    /\ next[b] # NULL => /\ End(b) <= next[b]
                         /\ \A c \in blocks : c <= b \/ next[b] <= c

(* A block a caller holds is on the list, marked used, and exactly of the  *)
(* size the caller asked for, whatever other calls split or merged since.  *)
GrantedIntact ==
  \A p \in DOMAIN granted :
    /\ is_free[Header(p)] = 0
    /\ size[Header(p)] = granted[p]

(* A block marked used has a caller that can free it: none is stranded.    *)
UsedHasOwner ==
  \A b \in blocks : is_free[b] = 0 => Payload(b) \in DOMAIN granted

(* The blocks in use are exactly those callers hold, as they were granted. *)
UsedIsGranted == GrantedIntact /\ UsedHasOwner

(* While allocate searches, every block it has passed is unfit; hence it   *)
(* returns NULL only if no free block of the pool is large enough.         *)
PassedAreUnfit ==
  pc = "search" =>
    \A b \in blocks : (current = NULL \/ b < current) => ~Fits(b)

(* From the moment free marks a block until free returns, a request of the *)
(* size just freed can be served: merging never loses the freed bytes.     *)
FreedReusable ==
  pc = "coalesce" => \E b \in blocks : Fits(b)

(* The list implements the heap its callers rely on (module Heap).         *)
Abstract == INSTANCE Heap WITH Space <- MEMORY_POOL_SIZE

ImplementsHeap == Abstract!Spec

(* Every call of allocate and free returns: no walk runs for ever.         *)
CallsReturn == pc # "idle" ~> pc = "idle"

(* free leaves no two neighbouring free blocks behind once it has walked   *)
(* the list, as its comment says; the walk skips the block it has merged   *)
(* into, so this does not hold.                                            *)
NoAdjacentFree ==
  pc = "coalesce" /\ ~HasNext =>
    \A b \in blocks : next[b] # NULL => is_free[b] = 0 \/ is_free[next[b]] = 0

=============================================================================
