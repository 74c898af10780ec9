----------------------- MODULE MemoryAllocatorProofs -----------------------
(***************************************************************************)
(* Proofs about the kernel heap, for every pool size, header size and set  *)
(* of request sizes.  The conjunction of the invariants of MemoryAllocator *)
(* is inductive.                                                           *)
(***************************************************************************)
EXTENDS MemoryAllocator, TLAPS

IInv ==
  /\ TypeOK
  /\ ListInOrder
  /\ GrantedIntact
  /\ UsedHasOwner
  /\ PassedAreUnfit
  /\ FreedReusable

(* No two blocks overlap: the lower one ends before the higher one begins. *)
LEMMA BlocksApart ==
  ASSUME TypeOK, ListInOrder, NEW b \in blocks, NEW c \in blocks, b < c
  PROVE  End(b) <= c
BY PoolAssumption DEF TypeOK, ListInOrder, End, Payload, Addresses, NULL

(* Every block, header and payload, lies in the pool.                      *)
LEMMA BlocksInPool ==
  ASSUME TypeOK, ListInOrder, NEW b \in blocks
  PROVE  End(b) <= MEMORY_POOL_SIZE
<1>1. CASE next[b] = NULL
  BY <1>1 DEF ListInOrder
<1>2. CASE next[b] # NULL
  <2>1. /\ next[b] \in Addresses
        /\ End(b) <= next[b]
    BY <1>2 DEF TypeOK, ListInOrder
  <2>2. size[b] \in Nat /\ b \in Addresses
    BY DEF TypeOK
  <2>3. QED
    BY <2>1, <2>2, PoolAssumption DEF Addresses, End, Payload
<1>3. QED
  BY <1>1, <1>2

(* A held area has a used block, so a free block is not a held one.        *)
LEMMA FreeNotGranted ==
  ASSUME TypeOK, GrantedIntact, NEW b \in blocks, is_free[b] = 1,
         NEW p \in DOMAIN granted
  PROVE  Header(p) # b
BY DEF TypeOK, GrantedIntact

-----------------------------------------------------------------------------
LEMMA InitIInv == Init => IInv
<1> SUFFICES ASSUME Init PROVE IInv
  OBVIOUS
<1>1. TypeOK
  BY PoolAssumption DEF Init, TypeOK, Addresses, NULL, free_list
<1>2. ListInOrder
  BY PoolAssumption DEF Init, ListInOrder, End, Payload, NULL, free_list
<1>3. GrantedIntact /\ UsedHasOwner
  BY DEF Init, GrantedIntact, UsedHasOwner
<1>4. PassedAreUnfit /\ FreedReusable
  BY DEF Init, PassedAreUnfit, FreedReusable
<1>5. QED
  BY <1>1, <1>2, <1>3, <1>4 DEF IInv

LEMMA AllocateIInv ==
  ASSUME IInv, NEW n \in Sizes, Allocate(n)
  PROVE  IInv'
<1> USE DEF IInv
<1>1. TypeOK'
  BY PoolAssumption DEF TypeOK, Allocate
<1>2. ListInOrder' /\ GrantedIntact' /\ UsedHasOwner'
  BY DEF Allocate, ListInOrder, GrantedIntact, UsedHasOwner, End, Payload,
         Header
<1>3. PassedAreUnfit'
  BY DEF TypeOK, Allocate, PassedAreUnfit, Addresses, NULL, free_list
<1>4. FreedReusable'
  BY DEF Allocate, FreedReusable
<1>5. QED
  BY <1>1, <1>2, <1>3, <1>4

LEMMA SearchNextIInv ==
  ASSUME IInv, SearchNext
  PROVE  IInv'
<1> USE DEF IInv
<1>1. TypeOK'
  BY DEF TypeOK, SearchNext
<1>2. ListInOrder' /\ GrantedIntact' /\ UsedHasOwner'
  BY DEF SearchNext, ListInOrder, GrantedIntact, UsedHasOwner, End, Payload,
         Header
<1>3. PassedAreUnfit'
  <2> SUFFICES ASSUME NEW b \in blocks, current' = NULL \/ b < current'
               PROVE  ~Fits(b)
    BY DEF SearchNext, PassedAreUnfit, Fits
  <2>1. current \in blocks /\ b \in Int /\ current \in Int
    BY DEF TypeOK, SearchNext, Addresses
  <2>2. b <= current
    BY <2>1 DEF SearchNext, ListInOrder, TypeOK, Addresses, NULL
  <2>3. CASE b = current
    BY <2>3 DEF SearchNext
  <2>4. CASE b < current
    BY <2>4 DEF SearchNext, PassedAreUnfit
  <2>5. QED
    BY <2>1, <2>2, <2>3, <2>4
<1>4. FreedReusable'
  BY DEF SearchNext, FreedReusable
<1>5. QED
  BY <1>1, <1>2, <1>3, <1>4

(* Cutting a block: the new header lies inside the old payload, between    *)
(* the block and its successor, so the order of the list is kept.          *)
LEMMA TakeSplitIInv ==
  ASSUME IInv, TakeSplit
  PROVE  IInv'
<1> USE DEF IInv
<1> DEFINE new_block == Payload(current) + request
<1>1. /\ current \in blocks /\ current \in Nat
      /\ size[current] \in Nat /\ request \in Nat
      /\ HeaderSize \in Nat \ {0}
      /\ is_free[current] = 1
      /\ size[current] > request + HeaderSize
  BY PoolAssumption DEF TypeOK, TakeSplit, Fits, TooLarge, Addresses
<1>2. /\ current + HeaderSize <= new_block
      /\ new_block + HeaderSize < End(current)
      /\ new_block \in Nat
  BY <1>1 DEF End, Payload
<1>3. new_block \in Addresses
  BY <1>1, <1>2, BlocksInPool, PoolAssumption DEF End, Payload, Addresses
<1>4. \A b \in blocks : b <= current \/ End(current) <= b
  BY <1>1, BlocksApart DEF TypeOK, Addresses
<1>5. new_block \notin blocks
  BY <1>1, <1>2, <1>4 DEF End, Payload
<1>6. /\ blocks' = blocks \union {new_block}
      /\ size' = [b \in blocks' |->
                    CASE b = new_block -> size[current] - request - HeaderSize
                      [] b = current   -> request
                      [] OTHER         -> size[b]]
      /\ is_free' = [b \in blocks' |->
                       CASE b = new_block -> 1
                         [] b = current   -> 0
                         [] OTHER         -> is_free[b]]
      /\ next' = [b \in blocks' |->
                    CASE b = new_block -> next[current]
                      [] b = current   -> new_block
                      [] OTHER         -> next[b]]
      /\ granted' = [p \in (DOMAIN granted) \union {Payload(current)} |->
                       IF p = Payload(current) THEN request ELSE granted[p]]
      /\ pc' = "idle" /\ current' = NULL /\ request' = 0
  BY DEF TakeSplit, ReturnBlock
<1> HIDE DEF new_block
<1>7. TypeOK'
  <2>1. blocks' \subseteq Addresses /\ free_list \in blocks'
    BY <1>3, <1>6 DEF TypeOK
  <2>2. size' \in [blocks' -> Nat] /\ is_free' \in [blocks' -> {0, 1}]
    BY <1>1, <1>5, <1>6 DEF TypeOK
  <2>3. next' \in [blocks' -> blocks' \union {NULL}]
    BY <1>1, <1>5, <1>6 DEF TypeOK
  <2>4. granted' \in [DOMAIN granted' -> Nat]
    BY <1>1, <1>6 DEF TypeOK
  <2>5. \A p \in DOMAIN granted' : p \in Nat /\ Header(p) \in blocks'
    BY <1>1, <1>6 DEF TypeOK, Header, Payload
  <2>6. QED
    BY <1>6, <2>1, <2>2, <2>3, <2>4, <2>5 DEF TypeOK, NULL
<1>8. ListInOrder'
  <2> SUFFICES ASSUME NEW b \in blocks'
               PROVE  /\ next'[b] = NULL => /\ End(b)' <= MEMORY_POOL_SIZE
                                            /\ \A c \in blocks' : c <= b
                      /\ next'[b] # NULL => /\ End(b)' <= next'[b]
                                            /\ \A c \in blocks' : c <= b \/ next'[b] <= c
    BY DEF ListInOrder
  <2>1. CASE b = new_block
    <3>1. /\ End(b)' = End(current)
          /\ next'[b] = next[current]
      BY <1>1, <1>2, <1>6, <2>1 DEF End, Payload, new_block
    <3>2. QED
      BY <1>1, <1>2, <1>6, <2>1, <3>1 DEF ListInOrder, TypeOK, Addresses, NULL
  <2>2. CASE b = current
    <3>1. End(b)' = new_block /\ next'[b] = new_block
      BY <1>1, <1>5, <1>6, <2>2 DEF End, Payload, new_block
    <3>2. \A c \in blocks' : c <= b \/ new_block <= c
      BY <1>1, <1>2, <1>4, <1>6, <2>2 DEF End, Payload, TypeOK, Addresses
    <3>3. QED
      BY <1>2, <3>1, <3>2 DEF NULL
  <2>3. CASE b \in blocks /\ b # current
    <3>1. b # new_block /\ b \in Nat /\ size[b] \in Nat
      BY <1>5, <2>3 DEF TypeOK, Addresses
    <3>2. End(b)' = End(b) /\ next'[b] = next[b]
      BY <1>6, <2>3, <3>1 DEF End, Payload
    <3>3. CASE next[b] = NULL
      <4>1. current < b
        BY <1>1, <2>3, <3>1, <3>3 DEF ListInOrder
      <4>2. End(current) <= b
        BY <1>1, <1>4, <2>3, <3>1, <4>1
      <4>3. new_block <= b
        BY <1>1, <1>2, <3>1, <4>2 DEF End, Payload
      <4>4. QED
        BY <1>6, <2>3, <3>2, <3>3, <4>3 DEF ListInOrder
    <3>4. CASE next[b] # NULL
      <4>1. next[b] \in blocks /\ next[b] \in Nat
        BY <2>3, <3>4 DEF TypeOK, Addresses
      <4>2. new_block <= b \/ next[b] <= new_block
        <5>1. CASE current < b
          BY <1>1, <1>2, <1>4, <2>3, <3>1, <5>1 DEF End, Payload
        <5>2. CASE b < current
          <6>1. next[b] <= current
            BY <1>1, <2>3, <3>1, <3>4, <5>2 DEF ListInOrder
          <6>2. QED
            BY <1>1, <1>2, <4>1, <6>1
        <5>3. QED
          BY <1>1, <2>3, <3>1, <5>1, <5>2
      <4>3. QED
        BY <1>6, <2>3, <3>2, <3>4, <4>2 DEF ListInOrder
    <3>5. QED
      BY <3>3, <3>4
  <2>4. QED
    BY <1>6, <2>1, <2>2, <2>3
<1>9. GrantedIntact'
  <2> SUFFICES ASSUME NEW p \in DOMAIN granted'
               PROVE  is_free'[Header(p)] = 0 /\ size'[Header(p)] = granted'[p]
    BY DEF GrantedIntact, Header
  <2>1. CASE p = Payload(current)
    BY <1>1, <1>5, <1>6, <2>1 DEF Header, Payload
  <2>2. CASE p # Payload(current)
    <3>1. p \in DOMAIN granted /\ granted'[p] = granted[p]
      BY <1>6, <2>2
    <3>2. Header(p) \in blocks /\ Header(p) # current /\ Header(p) # new_block
      BY <1>1, <1>5, <3>1, FreeNotGranted DEF TypeOK
    <3>3. QED
      BY <1>6, <3>1, <3>2 DEF GrantedIntact
  <2>3. QED
    BY <2>1, <2>2
<1>10. UsedHasOwner'
  BY <1>1, <1>5, <1>6 DEF UsedHasOwner, Payload
<1>11. PassedAreUnfit' /\ FreedReusable'
  BY <1>6 DEF PassedAreUnfit, FreedReusable
<1>12. QED
  BY <1>7, <1>8, <1>9, <1>10, <1>11

LEMMA TakeWholeIInv ==
  ASSUME IInv, TakeWhole
  PROVE  IInv'
<1> USE DEF IInv
<1>1. /\ current \in blocks /\ current \in Nat
      /\ size[current] \in Nat /\ request \in Nat
      /\ size[current] >= request /\ is_free[current] = 1
      /\ HeaderSize \in Nat \ {0}
  BY PoolAssumption DEF TypeOK, TakeWhole, Fits, Addresses
<1>2. TypeOK'
  BY <1>1 DEF TypeOK, TakeWhole, ReturnBlock, Header, Payload
<1>3. ListInOrder'
  <2>1. \A b \in blocks : End(b)' <= End(b)
    BY <1>1 DEF TypeOK, TakeWhole, End, Payload, Addresses
  <2>2. \A b \in blocks : /\ End(b) \in Int /\ End(b)' \in Int
                          /\ (next[b] = NULL \/ next[b] \in Int)
    BY <1>1 DEF TypeOK, TakeWhole, End, Payload, Addresses
  <2>3. QED
    BY <2>1, <2>2, PoolAssumption DEF TakeWhole, ListInOrder
<1>4. GrantedIntact'
  BY <1>1, FreeNotGranted DEF TypeOK, TakeWhole, ReturnBlock, GrantedIntact,
                              Header, Payload
<1>5. UsedHasOwner'
  BY <1>1 DEF TypeOK, TakeWhole, ReturnBlock, UsedHasOwner, Payload
<1>6. PassedAreUnfit' /\ FreedReusable'
  BY DEF TakeWhole, ReturnBlock, PassedAreUnfit, FreedReusable
<1>7. QED
  BY <1>2, <1>3, <1>4, <1>5, <1>6

LEMMA ReturnNullIInv ==
  ASSUME IInv, ReturnNull
  PROVE  IInv'
BY DEF IInv, TypeOK, ReturnNull, ListInOrder, GrantedIntact, UsedHasOwner,
       PassedAreUnfit, FreedReusable, End, Payload, Header

LEMMA FreeIInv ==
  ASSUME IInv, NEW p \in DOMAIN granted, Free(p)
  PROVE  IInv'
<1> USE DEF IInv
<1>1. /\ Header(p) \in blocks
      /\ size[Header(p)] = granted[p]
      /\ granted[p] \in Nat
      /\ \A q \in DOMAIN granted : Header(q) \in blocks
  BY DEF TypeOK, GrantedIntact
<1>2. \A q \in DOMAIN granted' :
         q \in DOMAIN granted /\ q # p /\ granted'[q] = granted[q]
  BY DEF Free
<1>3. \A q \in DOMAIN granted : q \in Int
  BY <1>1, PoolAssumption DEF TypeOK, Header, Addresses
<1>4. TypeOK'
  BY <1>1, <1>2 DEF TypeOK, Free, Header
<1>5. ListInOrder'
  BY DEF Free, ListInOrder, End, Payload
<1>6. GrantedIntact'
  <2> SUFFICES ASSUME NEW q \in DOMAIN granted'
               PROVE  is_free'[Header(q)] = 0 /\ size'[Header(q)] = granted'[q]
    BY DEF GrantedIntact, Header
  <2>1. Header(q) # Header(p)
    BY <1>2, <1>3, PoolAssumption DEF Header
  <2>2. QED
    BY <1>1, <1>2, <2>1 DEF Free, TypeOK, GrantedIntact
<1>7. UsedHasOwner'
  <2> SUFFICES ASSUME NEW b \in blocks, is_free'[b] = 0
               PROVE  Payload(b) \in DOMAIN granted'
    BY DEF Free, UsedHasOwner, Payload
  <2>1. b # Header(p) /\ is_free[b] = 0
    BY <1>1 DEF Free, TypeOK
  <2>2. Payload(b) # p
    BY <1>3, <2>1, PoolAssumption DEF Header, Payload, TypeOK, Addresses
  <2>3. QED
    BY <2>1, <2>2 DEF Free, UsedHasOwner
<1>8. PassedAreUnfit'
  BY DEF Free, PassedAreUnfit
<1>9. FreedReusable'
  <2>1. Fits(Header(p))'
    BY <1>1 DEF Free, TypeOK, Fits, Header
  <2>2. QED
    BY <1>1, <2>1 DEF Free, FreedReusable, Header, Fits
<1>10. QED
  BY <1>4, <1>5, <1>6, <1>7, <1>8, <1>9

(* Merging: the absorbed block is free, so no caller holds it, and it is   *)
(* the immediate successor, so no other block points to it.                *)
LEMMA MergeNextIInv ==
  ASSUME IInv, MergeNext
  PROVE  IInv'
<1> USE DEF IInv
<1> DEFINE absorbed == next[current]
<1>1. /\ current \in blocks /\ current \in Nat
      /\ absorbed \in blocks /\ absorbed \in Nat /\ absorbed # NULL
      /\ size[current] \in Nat /\ size[absorbed] \in Nat
      /\ is_free[current] = 1 /\ is_free[absorbed] = 1
      /\ HeaderSize \in Nat \ {0}
  BY PoolAssumption DEF TypeOK, MergeNext, HasNext, BothFree, Addresses
<1>2. End(current) <= absorbed /\ current < absorbed
  BY <1>1 DEF ListInOrder, End, Payload
<1>3. \A b \in blocks : b \in Nat /\ (b <= current \/ absorbed <= b)
  BY <1>1 DEF ListInOrder, TypeOK, Addresses
<1>4. \A b \in blocks : b # current => next[b] # absorbed
  <2> SUFFICES ASSUME NEW b \in blocks, b # current, next[b] = absorbed
               PROVE  FALSE
    OBVIOUS
  <2>1. CASE b < current
    BY <1>1, <1>2, <1>3, <2>1 DEF ListInOrder
  <2>2. CASE absorbed <= b
    BY <1>1, <1>3, <2>2 DEF ListInOrder, End, Payload, TypeOK
  <2>3. QED
    BY <1>1, <1>3, <2>1, <2>2
<1>5. /\ next[absorbed] # absorbed /\ next[absorbed] # current
      /\ next[absorbed] \in blocks \union {NULL}
  BY <1>1, <1>2 DEF ListInOrder, End, Payload, TypeOK, Addresses, NULL
<1>6. /\ blocks' = blocks \ {absorbed}
      /\ size' = [b \in blocks' |->
                    IF b = current
                      THEN size[b] + HeaderSize + size[absorbed] ELSE size[b]]
      /\ is_free' = [b \in blocks' |-> is_free[b]]
      /\ next' = [b \in blocks' |->
                    IF b = current THEN next[absorbed] ELSE next[b]]
      /\ current' = next'[current]
      /\ request' = request /\ pc' = pc /\ granted' = granted
      /\ pc = "coalesce"
  BY DEF MergeNext
<1> HIDE DEF absorbed
<1>7. TypeOK'
  <2>1. blocks' \subseteq Addresses /\ free_list \in blocks'
    BY <1>1, <1>2, <1>6 DEF TypeOK, free_list
  <2>2. size' \in [blocks' -> Nat] /\ is_free' \in [blocks' -> {0, 1}]
    BY <1>1, <1>6 DEF TypeOK
  <2>3. next' \in [blocks' -> blocks' \union {NULL}]
    BY <1>1, <1>4, <1>5, <1>6 DEF TypeOK
  <2>4. current' \in blocks' \union {NULL}
    BY <1>1, <1>2, <1>6, <2>3
  <2>5. \A p \in DOMAIN granted' : Header(p) \in blocks'
    BY <1>1, <1>6, FreeNotGranted DEF TypeOK
  <2>6. QED
    BY <1>6, <2>1, <2>2, <2>3, <2>4, <2>5 DEF TypeOK, Header
<1>8. ListInOrder'
  <2> SUFFICES ASSUME NEW b \in blocks'
               PROVE  /\ next'[b] = NULL => /\ End(b)' <= MEMORY_POOL_SIZE
                                            /\ \A c \in blocks' : c <= b
                      /\ next'[b] # NULL => /\ End(b)' <= next'[b]
                                            /\ \A c \in blocks' : c <= b \/ next'[b] <= c
    BY DEF ListInOrder
  <2>1. CASE b = current
    <3>1. /\ End(b)' = End(current) + HeaderSize + size[absorbed]
          /\ End(b)' <= End(absorbed)
          /\ End(b)' \in Nat /\ End(absorbed) \in Nat
          /\ next'[b] = next[absorbed]
      BY <1>1, <1>2, <1>6, <2>1 DEF End, Payload
    <3>2. \A c \in blocks' : c <= current \/ absorbed < c
      BY <1>1, <1>3, <1>6
    <3>3. CASE next[absorbed] = NULL
      BY <1>1, <1>2, <1>6, <2>1, <3>1, <3>2, <3>3, PoolAssumption
         DEF ListInOrder, TypeOK, Addresses
    <3>4. CASE next[absorbed] # NULL
      <4>1. next[absorbed] \in Nat
        BY <1>5, <1>3, <3>4
      <4>2. QED
        BY <1>1, <1>2, <1>3, <1>6, <2>1, <3>1, <3>2, <3>4, <4>1 DEF ListInOrder
    <3>5. QED
      BY <3>3, <3>4
  <2>2. CASE b # current
    BY <1>6, <2>2 DEF ListInOrder, End, Payload
  <2>3. QED
    BY <2>1, <2>2
<1>9. GrantedIntact'
  BY <1>1, <1>6, FreeNotGranted DEF TypeOK, GrantedIntact, Header
<1>10. UsedHasOwner'
  BY <1>6 DEF UsedHasOwner, Payload
<1>11. PassedAreUnfit'
  BY <1>6 DEF PassedAreUnfit
<1>12. FreedReusable'
  <2>1. PICK b \in blocks : Fits(b)
    BY <1>6 DEF FreedReusable
  <2>2. CASE b = absorbed \/ b = current
    <3>1. /\ current \in blocks'
          /\ is_free'[current] = 1 /\ size'[current] >= request'
      BY <1>1, <1>2, <1>6, <2>1, <2>2 DEF Fits, TypeOK
    <3>2. QED
      BY <1>6, <3>1 DEF FreedReusable, Fits
  <2>3. CASE b # absorbed /\ b # current
    <3>1. b \in blocks' /\ is_free'[b] = 1 /\ size'[b] >= request'
      BY <1>6, <2>1, <2>3 DEF Fits
    <3>2. QED
      BY <1>6, <3>1 DEF FreedReusable, Fits
  <2>4. QED
    BY <2>2, <2>3
<1>13. QED
  BY <1>7, <1>8, <1>9, <1>10, <1>11, <1>12

LEMMA CoalesceNextIInv ==
  ASSUME IInv, CoalesceNext
  PROVE  IInv'
BY DEF IInv, TypeOK, CoalesceNext, HasNext, ListInOrder, GrantedIntact,
       UsedHasOwner, PassedAreUnfit, FreedReusable, Fits, End, Payload, Header

LEMMA FreeReturnsIInv ==
  ASSUME IInv, FreeReturns
  PROVE  IInv'
BY DEF IInv, TypeOK, FreeReturns, ListInOrder, GrantedIntact, UsedHasOwner,
       PassedAreUnfit, FreedReusable, End, Payload, Header

LEMMA NextIInv == IInv /\ [Next]_vars => IInv'
<1> SUFFICES ASSUME IInv, [Next]_vars PROVE IInv'
  OBVIOUS
<1>1. CASE \E n \in Sizes : Allocate(n)
  BY <1>1, AllocateIInv
<1>2. CASE \E p \in DOMAIN granted : Free(p)
  BY <1>2, FreeIInv
<1>3. CASE Walk
  <2>1. CASE SearchNext
    BY <2>1, SearchNextIInv
  <2>2. CASE TakeSplit
    BY <2>2, TakeSplitIInv
  <2>3. CASE TakeWhole
    BY <2>3, TakeWholeIInv
  <2>4. CASE ReturnNull
    BY <2>4, ReturnNullIInv
  <2>5. CASE MergeNext
    BY <2>5, MergeNextIInv
  <2>6. CASE CoalesceNext
    BY <2>6, CoalesceNextIInv
  <2>7. CASE FreeReturns
    BY <2>7, FreeReturnsIInv
  <2>8. QED
    BY <1>3, <2>1, <2>2, <2>3, <2>4, <2>5, <2>6, <2>7 DEF Walk
<1>4. CASE UNCHANGED vars
  BY <1>4 DEF vars, IInv, TypeOK, ListInOrder, GrantedIntact, UsedHasOwner,
              PassedAreUnfit, FreedReusable, Fits, End, Payload, Header
<1>5. QED
  BY <1>1, <1>2, <1>3, <1>4 DEF Next

LEMMA AlwaysIInv == Spec => []IInv
BY InitIInv, NextIInv, PTL DEF Spec

-----------------------------------------------------------------------------
(* The variables of the allocator keep their types, and every header lies  *)
(* in the pool.                                                            *)
THEOREM TypeCorrect == Spec => []TypeOK
<1>1. IInv => TypeOK
  BY DEF IInv
<1>2. QED
  BY <1>1, AlwaysIInv, PTL

(* Splitting and merging keep the list in address order, with no overlap   *)
(* and no block skipped.                                                   *)
THEOREM ListStaysInOrder == Spec => []ListInOrder
<1>1. IInv => ListInOrder
  BY DEF IInv
<1>2. QED
  BY <1>1, AlwaysIInv, PTL

(* What a caller holds stays used and of the size it asked for, and every  *)
(* used block is held by a caller.                                         *)
THEOREM UsedExactlyGranted == Spec => []UsedIsGranted
<1>1. IInv => UsedIsGranted
  BY DEF IInv, UsedIsGranted
<1>2. QED
  BY <1>1, AlwaysIInv, PTL

(* allocate returns NULL only when no free block is large enough.          *)
THEOREM NullOnlyWhenUnfit == Spec => []PassedAreUnfit
<1>1. IInv => PassedAreUnfit
  BY DEF IInv
<1>2. QED
  BY <1>1, AlwaysIInv, PTL

(* The bytes just freed can be allocated again.                            *)
THEOREM FreeIsReusable == Spec => []FreedReusable
<1>1. IInv => FreedReusable
  BY DEF IInv
<1>2. QED
  BY <1>1, AlwaysIInv, PTL

-----------------------------------------------------------------------------
(* The area a search hands out, at the block under the pointer, is a legal *)
(* grant of the abstract heap.                                             *)
LEMMA TakeIsGrant ==
  ASSUME IInv, current \in blocks, Fits(current), pc = "search", ReturnBlock
  PROVE  \E a \in 0 .. MEMORY_POOL_SIZE, n \in Sizes : Abstract!Grant(a, n)
<1> USE DEF IInv
<1> DEFINE a == Payload(current)
<1>1. /\ current \in Nat /\ size[current] \in Nat /\ request \in Nat
      /\ request \in Sizes
      /\ request <= size[current] /\ is_free[current] = 1
      /\ HeaderSize \in Nat /\ MEMORY_POOL_SIZE \in Nat
  BY PoolAssumption DEF TypeOK, Fits, Addresses
<1>2. a + request <= MEMORY_POOL_SIZE /\ a \in 0 .. MEMORY_POOL_SIZE
  BY <1>1, BlocksInPool DEF End, Payload
<1>3. \A p \in DOMAIN granted :
         /\ Header(p) \in blocks /\ Header(p) # current
         /\ Header(p) \in Nat /\ p \in Int
         /\ size[Header(p)] = granted[p] /\ granted[p] \in Nat
  BY <1>1, FreeNotGranted DEF TypeOK, GrantedIntact, Addresses, Header
<1>4. a \notin DOMAIN granted
  BY <1>1, <1>3 DEF Header, Payload
<1>5. ASSUME NEW p \in DOMAIN granted
      PROVE  Abstract!Apart(a, request, p, granted[p])
  <2>1. CASE current < Header(p)
    <3>1. End(current) <= Header(p)
      BY <1>3, <2>1, BlocksApart
    <3>2. QED
      BY <1>1, <1>3, <3>1 DEF Abstract!Apart, End, Payload, Header
  <2>2. CASE Header(p) < current
    <3>1. End(Header(p)) <= current
      BY <1>3, <2>2, BlocksApart
    <3>2. QED
      BY <1>1, <1>3, <3>1 DEF Abstract!Apart, End, Payload, Header
  <2>3. QED
    BY <1>1, <1>3, <2>1, <2>2
<1>6. Abstract!Grant(a, request)
  BY <1>2, <1>4, <1>5 DEF Abstract!Grant, ReturnBlock
<1>7. QED
  BY <1>1, <1>2, <1>6

(* The free list implements the abstract heap: every area it hands out is  *)
(* in the pool and disjoint from every area still held.                    *)
THEOREM HeapImplemented == Spec => ImplementsHeap
<1>1. Init => Abstract!Init
  BY DEF Init, Abstract!Init
<1>2. IInv /\ [Next]_vars => [Abstract!Next]_granted
  <2> SUFFICES ASSUME IInv, [Next]_vars PROVE [Abstract!Next]_granted
    OBVIOUS
  <2>1. CASE \E p \in DOMAIN granted : Free(p)
    BY <2>1 DEF Free, Abstract!Next, Abstract!Release
  <2>2. CASE TakeSplit \/ TakeWhole
    <3>1. /\ current \in blocks /\ Fits(current)
          /\ pc = "search" /\ ReturnBlock
      BY <2>2 DEF TakeSplit, TakeWhole, IInv, TypeOK
    <3>2. QED
      BY <3>1, TakeIsGrant DEF Abstract!Next
  <2>3. CASE \/ \E n \in Sizes : Allocate(n)
             \/ SearchNext \/ ReturnNull \/ MergeNext
             \/ CoalesceNext \/ FreeReturns \/ UNCHANGED vars
    BY <2>3 DEF Allocate, SearchNext, ReturnNull, MergeNext, CoalesceNext,
                FreeReturns, vars
  <2>4. QED
    BY <2>1, <2>2, <2>3 DEF Next, Walk
<1>3. QED
  BY <1>1, <1>2, AlwaysIInv, PTL DEF Spec, ImplementsHeap, Abstract!Spec

-----------------------------------------------------------------------------
(* How much of the pool the loop has still before it; 0 between calls.     *)
Ahead ==
  IF pc = "idle" THEN 0
  ELSE IF current = NULL THEN 1 ELSE 2 + (MEMORY_POOL_SIZE - current)

LEMMA AheadIsNat == IInv => Ahead \in Nat
BY PoolAssumption DEF IInv, TypeOK, Addresses, Ahead, NULL

(* A walk goes up the pool, or back to its caller, whatever it merges or   *)
(* cuts on its way: no list the allocator can make has a cycle, and a call *)
(* of allocate or free ends after at most as many turns as the pool has    *)
(* bytes, and two (memory_allocator.c).                                    *)
THEOREM WalksGoUp == Spec => [](Ahead \in Nat) /\ [][Walk => Ahead' < Ahead]_vars
<1>1. ASSUME IInv, Walk
      PROVE  Ahead' < Ahead
  <2>1. /\ current \in blocks \union {NULL} /\ MEMORY_POOL_SIZE \in Nat
        /\ next \in [blocks -> blocks \union {NULL}]
        /\ \A b \in blocks : b \in Nat /\ b <= MEMORY_POOL_SIZE
    BY <1>1, PoolAssumption DEF IInv, TypeOK, Addresses
  <2>2. CASE pc' = "idle" /\ pc # "idle"
    BY <2>1, <2>2 DEF Ahead, NULL
  <2>3. \A b \in blocks : next[b] # NULL => b < next[b]
    BY <1>1, PoolAssumption DEF IInv, TypeOK, ListInOrder, Addresses, End, Payload
  <2>4. ASSUME pc' = pc, pc # "idle", current # NULL,
               current' = NULL \/ (current' \in blocks /\ current < current')
        PROVE  Ahead' < Ahead
    <3>1. current \in Nat /\ current <= MEMORY_POOL_SIZE
      BY <2>1, <2>4
    <3>2. CASE current' = NULL
      BY <2>1, <2>4, <3>1, <3>2 DEF Ahead, NULL
    <3>3. CASE current' \in blocks /\ current < current'
      <4>1. current' \in Nat /\ current' <= MEMORY_POOL_SIZE
        BY <2>1, <3>3
      <4>2. /\ Ahead = 2 + (MEMORY_POOL_SIZE - current)
            /\ Ahead' = 2 + (MEMORY_POOL_SIZE - current')
        BY <2>4, <4>1 DEF Ahead, NULL
      <4>3. \A m, b, c \in Nat : b < c => 2 + (m - c) < 2 + (m - b)
        OBVIOUS
      <4>4. MEMORY_POOL_SIZE \in Nat
        BY <2>1
      <4> QED
        BY <3>1, <3>3, <4>1, <4>2, <4>3, <4>4, Zenon
    <3> QED
      BY <2>4, <3>2, <3>3
  <2>5. CASE SearchNext \/ CoalesceNext
    <3>1. /\ pc' = pc /\ pc # "idle" /\ current # NULL /\ current \in blocks
          /\ current' = next[current]
      BY <2>1, <2>5 DEF SearchNext, CoalesceNext, HasNext
    <3> QED
      BY <2>1, <2>3, <2>4, <3>1
  <2>6. CASE MergeNext
    <3> DEFINE absorbed == next[current]
    <3>1. /\ pc' = pc /\ pc # "idle" /\ current \in blocks /\ current # NULL
          /\ absorbed # NULL
      BY <2>1, <2>6 DEF MergeNext, HasNext
    <3>2. absorbed \in blocks /\ current < absorbed
      BY <2>1, <2>3, <3>1
    <3>3. current \in blocks'
      BY <2>1, <2>6, <3>1, <3>2 DEF MergeNext
    <3>4. current' = next[absorbed]
      BY <2>6, <3>3 DEF MergeNext
    <3>5. next[absorbed] # NULL => absorbed < next[absorbed]
      BY <2>3, <3>2
    <3>6. next[absorbed] = NULL \/ (next[absorbed] \in blocks /\ current < next[absorbed])
      <4>1. next[absorbed] = NULL \/ next[absorbed] \in blocks
        BY <2>1, <3>2
      <4>2. ASSUME next[absorbed] \in blocks, next[absorbed] # NULL
            PROVE  current < next[absorbed]
        BY <2>1, <3>1, <3>2, <3>5, <4>2
      <4> QED
        BY <4>1, <4>2
    <3> QED
      BY <2>4, <3>1, <3>4, <3>6
  <2>7. CASE TakeSplit \/ TakeWhole \/ ReturnNull \/ FreeReturns
    BY <2>2, <2>7 DEF TakeSplit, TakeWhole, ReturnNull, FreeReturns, ReturnBlock
  <2> QED
    BY <1>1, <2>5, <2>6, <2>7 DEF Walk
<1>2. IInv /\ [Next]_vars => [Walk => Ahead' < Ahead]_vars
  BY <1>1
<1> QED
  BY <1>2, AheadIsNat, AlwaysIInv, PTL DEF Spec

=============================================================================
