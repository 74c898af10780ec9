---------------------------- MODULE MemoryProofs ----------------------------
(***************************************************************************)
(* Theorems about the memory helpers, for every size of memory, every two  *)
(* areas, however they overlap, and every content.                         *)
(*                                                                         *)
(* The inductive invariant says, for each loop, where its pointers are     *)
(* after so many turns, and that memory is what the call found with that   *)
(* many bytes done: from the front going forward, from the back going      *)
(* backward.  That a byte still to be copied has not been overwritten      *)
(* follows from the direction.                                             *)
(***************************************************************************)
EXTENDS Memory, TLAPS

(* The turns the loop has taken.                                           *)
Turns == call.len - length

(* Both pointers are as many bytes into their areas as turns were taken.   *)
Advanced == d = call.dest + Turns /\ s = call.src + Turns

SetInv ==
  pc = "set" => call.op = "set" /\ Advanced /\ memory = Filled(Turns)

ForwardInv ==
  pc = "forward" =>
    call.op = "move" /\ call.dest < call.src /\ Advanced
    /\ memory = Copied(0, Turns)

BackwardInv ==
  pc = "backward" =>
    call.op = "move" /\ call.dest > call.src
    /\ d = call.dest + length /\ s = call.src + length
    /\ memory = Copied(length, call.len)

SwapInv ==
  pc = "swap" =>
    call.op = "swap" /\ Advanced /\ (Apart => memory = Swapped(Turns))

CompareInv ==
  pc = "compare" =>
    call.op = "compare" /\ Advanced
    /\ \A k \in 0 .. Turns - 1 :
         memory[call.dest + k] = memory[call.src + k]

FindInv ==
  pc = "find" =>
    call.op = "find" /\ Advanced
    /\ \A k \in 0 .. Turns - 1 : memory[call.dest + k] # call.value

IsZeroInv ==
  pc = "is_zero" =>
    call.op = "is_zero" /\ Advanced
    /\ \A k \in 0 .. Turns - 1 : memory[call.dest + k] = 0

LoopInv ==
  /\ SetInv /\ ForwardInv /\ BackwardInv /\ SwapInv
  /\ CompareInv /\ FindInv /\ IsZeroInv

ReturnInv == MovedIntact /\ FilledExactly /\ SwappedExactly /\ SearchesExact

IInv == TypeOK /\ LoopInv /\ ReturnInv

-----------------------------------------------------------------------------
LEMMA InitIInv == Init => IInv
<1> SUFFICES ASSUME Init PROVE IInv
  OBVIOUS
<1>1. TypeOK
  <2>1. call = NoCall /\ NoCall \in Calls /\ NoCall.len = 0
    BY DEF Init, NoCall, Calls, Bytes
  <2>2. call.dest = 0 /\ call.src = 0 /\ call.len = 0
    BY <2>1 DEF NoCall
  <2>3. memory \in [Addresses -> Bytes] /\ before = memory
    BY MemoryAssumption DEF Init
  <2>4. pc = "idle" /\ d = 0 /\ s = 0 /\ length = 0 /\ result = 0
    BY DEF Init
  <2>5. QED
    BY <2>1, <2>2, <2>3, <2>4, MemoryAssumption DEF TypeOK
<1>2. pc = "idle"
  BY DEF Init
<1>3. LoopInv /\ ReturnInv
  BY <1>2 DEF LoopInv, SetInv, ForwardInv, BackwardInv, SwapInv, CompareInv,
              FindInv, IsZeroInv, ReturnInv, MovedIntact, FilledExactly,
              SwappedExactly, SearchesExact, Done
<1>4. QED
  BY <1>1, <1>3 DEF IInv

(* A loop that has not begun has done nothing.                             *)
FirstTurn ==
  /\ memory = Filled(0) /\ memory = Swapped(0) /\ memory = Copied(0, 0)
  /\ memory = Copied(call.len, call.len)
  /\ call.dest = call.src => memory = Copied(0, call.len)

LEMMA NothingDone == TypeOK /\ memory = before => FirstTurn
<1> SUFFICES ASSUME TypeOK, memory = before PROVE FirstTurn
  OBVIOUS
<1>1. /\ memory \in [Addresses -> Bytes]
      /\ call.dest \in Nat /\ call.src \in Nat /\ call.len \in Nat
      /\ Addresses \subseteq Int
  BY DEF TypeOK, Calls, Addresses
<1>2. \A a \in Addresses : ~InDest(a, 0, 0) /\ ~InSrc(a, 0, 0)
                           /\ ~InDest(a, call.len, call.len)
  BY <1>1 DEF InDest, InSrc
<1>3. memory = Filled(0) /\ memory = Copied(0, 0)
      /\ memory = Copied(call.len, call.len)
  BY <1>1, <1>2 DEF Filled, Copied
<1>4. memory = Swapped(0)
  BY <1>1, <1>2 DEF Swapped
<1>5. ASSUME call.dest = call.src PROVE memory = Copied(0, call.len)
  <2>1. \A a \in Addresses : a - call.dest + call.src = a
    BY <1>1, <1>5
  <2>2. QED
    BY <1>1, <2>1 DEF Copied
<1>6. QED
  BY <1>3, <1>4, <1>5 DEF FirstTurn

(* What a call finds when it starts, whatever its name and its areas.      *)
LEMMA EnterType ==
  ASSUME IInv,
         NEW op \in {"set", "move", "swap", "compare", "find", "is_zero"},
         NEW n \in Nat, NEW p \in Nat, NEW q \in Nat,
         p + n <= SIZE, q + n <= SIZE,
         NEW v \in Bytes, Enter(op, p, q, v, n),
         pc' \in Loops \union {"return"}, d' \in Nat, s' \in Nat, result' \in Int
  PROVE  /\ TypeOK' /\ FirstTurn' /\ length' = n
         /\ call'.dest = p /\ call'.src = q /\ call'.len = n /\ call'.op = op
<1>1. call' = [op |-> op, dest |-> p, src |-> q, value |-> v, len |-> n]
  BY DEF Enter
<1>2. call' \in Calls
  BY <1>1 DEF Calls
<1>3. memory' = memory /\ before' = memory /\ length' = n
  BY DEF Enter
<1>4. TypeOK'
  BY <1>1, <1>2, <1>3 DEF IInv, TypeOK, Loops
<1>5. FirstTurn'
  <2>1. (memory = before)'
    BY <1>3
  <2>2. QED
    BY <1>4, <2>1, NothingDone, PTL
<1>6. QED
  BY <1>1, <1>3, <1>4, <1>5

(* A call that starts a loop, going forward, from the first bytes.         *)
LEMMA StartIInv ==
  ASSUME IInv,
         NEW op \in {"set", "move", "swap", "compare", "find", "is_zero"},
         NEW n \in Nat, NEW p \in Nat, NEW q \in Nat,
         p + n <= SIZE, q + n <= SIZE,
         NEW v \in Bytes, Enter(op, p, q, v, n),
         NEW loop \in Loops \ {"backward"}, Start(loop),
         IF loop = "forward" THEN op = "move" /\ p < q ELSE op = loop
  PROVE  IInv'
<1>1. /\ pc' = loop /\ d' = call'.dest /\ s' = call'.src /\ result' = 0
      /\ call'.dest = p /\ call'.src = q
  BY DEF Start, Enter
<1>2. /\ TypeOK' /\ FirstTurn' /\ length' = n
      /\ call'.len = n /\ call'.op = op
  BY <1>1, EnterType
<1>3. Advanced' /\ Turns' = 0
  BY <1>1, <1>2 DEF Advanced, Turns
<1>4. LoopInv'
  BY <1>1, <1>2, <1>3
  DEF LoopInv, SetInv, ForwardInv, BackwardInv, SwapInv, CompareInv, FindInv,
      IsZeroInv, FirstTurn, Loops
<1>5. ReturnInv'
  BY <1>1 DEF ReturnInv, MovedIntact, FilledExactly, SwappedExactly,
              SearchesExact, Done, Loops
<1>6. QED
  BY <1>2, <1>4, <1>5 DEF IInv

LEMMA MoveIInv ==
  ASSUME IInv, NEW n \in Nat, NEW p \in Nat, NEW q \in Nat,
         p + n <= SIZE, q + n <= SIZE, memory_move(p, q, n)
  PROVE  IInv'
<1>1. 0 \in Bytes /\ Enter("move", p, q, 0, n)
  BY DEF Bytes, memory_move
<1>2. CASE p < q /\ Start("forward")
  BY <1>1, <1>2, StartIInv DEF Loops
<1>3. CASE /\ p > q
           /\ pc' = "backward" /\ d' = p + n /\ s' = q + n /\ result' = 0
  <2>1. /\ TypeOK' /\ FirstTurn' /\ length' = n /\ call'.dest = p
        /\ call'.src = q /\ call'.len = n /\ call'.op = "move"
    BY <1>1, <1>3, EnterType DEF Loops
  <2>2. LoopInv'
    BY <1>3, <2>1
    DEF LoopInv, SetInv, ForwardInv, BackwardInv, SwapInv, CompareInv, FindInv,
        IsZeroInv, FirstTurn
  <2>3. ReturnInv'
    BY <1>3 DEF ReturnInv, MovedIntact, FilledExactly, SwappedExactly,
                SearchesExact, Done
  <2>4. QED
    BY <2>1, <2>2, <2>3 DEF IInv
<1>4. CASE p = q /\ pc' = "return" /\ d' = p /\ s' = q /\ result' = p
  <2>1. /\ TypeOK' /\ FirstTurn' /\ call'.dest = p
        /\ call'.src = q /\ call'.op = "move"
    BY <1>1, <1>4, EnterType
  <2>2. LoopInv'
    BY <1>4
    DEF LoopInv, SetInv, ForwardInv, BackwardInv, SwapInv, CompareInv, FindInv,
        IsZeroInv
  <2>3. ReturnInv'
    BY <1>4, <2>1 DEF ReturnInv, MovedIntact, FilledExactly, SwappedExactly,
                      SearchesExact, Done, FirstTurn
  <2>4. QED
    BY <2>1, <2>2, <2>3 DEF IInv
<1>5. QED
  BY <1>2, <1>3, <1>4 DEF memory_move

LEMMA CallIInv == ASSUME IInv, Call PROVE IInv'
<1>1. PICK n \in 0 .. SIZE : \E p, q \in 0 .. SIZE - n :
        \/ memory_zero(p, n)
        \/ \E value \in Values :
             memory_set(p, value, n) \/ memory_find(p, value, n)
        \/ memory_move(p, q, n) \/ memory_swap(p, q, n)
        \/ memory_compare(p, q, n) \/ memory_is_zero(p, n)
  BY DEF Call
<1>2. PICK p \in 0 .. SIZE - n, q \in 0 .. SIZE - n :
        \/ memory_zero(p, n)
        \/ \E value \in Values :
             memory_set(p, value, n) \/ memory_find(p, value, n)
        \/ memory_move(p, q, n) \/ memory_swap(p, q, n)
        \/ memory_compare(p, q, n) \/ memory_is_zero(p, n)
  BY <1>1
<1>3. /\ n \in Nat /\ p \in Nat /\ q \in Nat /\ p + n <= SIZE /\ q + n <= SIZE
  BY MemoryAssumption
<1>4. 0 \in Bytes /\ Byte(0) \in Bytes /\ \A value \in Values : Byte(value) \in Bytes
  BY MemoryAssumption DEF Bytes, Byte
<1>5. CASE memory_zero(p, n)
  BY <1>3, <1>4, <1>5, StartIInv DEF memory_zero, memory_set, Loops
<1>6. CASE \E value \in Values : memory_set(p, value, n)
  BY <1>3, <1>4, <1>6, StartIInv DEF memory_set, Loops
<1>7. CASE \E value \in Values : memory_find(p, value, n)
  BY <1>3, <1>4, <1>7, StartIInv DEF memory_find, Loops
<1>8. CASE memory_move(p, q, n)
  BY <1>3, <1>8, MoveIInv
<1>9. CASE memory_swap(p, q, n)
  BY <1>3, <1>4, <1>9, StartIInv DEF memory_swap, Loops
<1>10. CASE memory_compare(p, q, n)
  BY <1>3, <1>4, <1>10, StartIInv DEF memory_compare, Loops
<1>11. CASE memory_is_zero(p, n)
  BY <1>3, <1>4, <1>11, StartIInv DEF memory_is_zero, Loops
<1>12. QED
  BY <1>2, <1>5, <1>6, <1>7, <1>8, <1>9, <1>10, <1>11

-----------------------------------------------------------------------------
(* The arithmetic of one turn.                                             *)
LEMMA TurnFacts ==
  ASSUME IInv, NEW loop \in Loops, Turn(loop)
  PROVE  /\ call' = call /\ before' = before /\ pc = loop
         /\ length \in Nat \ {0} /\ length' = length - 1
         /\ length <= call.len /\ length' \in 0 .. call.len
         /\ Turns \in Nat /\ Turns < call.len /\ Turns' = Turns + 1
         /\ call.dest \in Nat /\ call.src \in Nat /\ call.len \in Nat
         /\ call.value \in Bytes
         /\ call.dest + Turns \in Addresses /\ call.src + Turns \in Addresses
         /\ call.dest + length - 1 \in Addresses
         /\ call.src + length - 1 \in Addresses
         /\ memory \in [Addresses -> Bytes] /\ before \in [Addresses -> Bytes]
         /\ Addresses \subseteq Nat /\ Bytes \subseteq Int
<1>1. /\ call.dest \in Nat /\ call.src \in Nat /\ call.len \in Nat
      /\ call.value \in Bytes
      /\ call.dest + call.len <= SIZE /\ call.src + call.len <= SIZE
      /\ length \in 0 .. call.len
      /\ memory \in [Addresses -> Bytes] /\ before \in [Addresses -> Bytes]
  BY DEF IInv, TypeOK, Calls
<1>2. call' = call /\ before' = before /\ pc = loop /\ length > 0
      /\ length' = length - 1
  BY DEF Turn
<1>3. SIZE \in Nat
  BY MemoryAssumption
<1>4. Turns \in Nat /\ Turns < call.len /\ Turns' = Turns + 1
  BY <1>1, <1>2 DEF Turns
<1>5. /\ call.dest + Turns \in Addresses /\ call.src + Turns \in Addresses
      /\ call.dest + length - 1 \in Addresses
      /\ call.src + length - 1 \in Addresses
      /\ Addresses \subseteq Nat /\ Bytes \subseteq Int
  <2>1. \A a \in Nat : a < SIZE => a \in Addresses
    BY <1>3 DEF Addresses
  <2>2. Addresses \subseteq Nat /\ Bytes \subseteq Int
    BY <1>3 DEF Addresses, Bytes
  <2>3. call.dest + Turns < SIZE /\ call.src + Turns < SIZE
    BY <1>1, <1>3, <1>4
  <2>4. /\ call.dest + length - 1 < SIZE /\ call.src + length - 1 < SIZE
        /\ call.dest + length - 1 \in Nat /\ call.src + length - 1 \in Nat
    BY <1>1, <1>2, <1>3
  <2>5. QED
    BY <1>1, <1>4, <2>1, <2>2, <2>3, <2>4
<1>6. QED
  BY <1>1, <1>2, <1>4, <1>5

(* A turn that goes on keeps the types.                                    *)
LEMMA AdvanceType ==
  ASSUME IInv, NEW loop \in Loops, Turn(loop),
         memory' \in [Addresses -> Bytes], d' \in Nat, s' \in Nat,
         pc' \in Loops \union {"return"}, result' \in Int
  PROVE  TypeOK'
BY TurnFacts DEF IInv, TypeOK, Loops

(* In a loop nothing is claimed about a return.                            *)
LEMMA NoReturn == ASSUME pc' \in Loops PROVE ReturnInv'
BY DEF ReturnInv, MovedIntact, FilledExactly, SwappedExactly, SearchesExact,
       Done, Loops

LEMMA SetIInv == ASSUME IInv, SetNext PROVE IInv'
<1>1. Turn("set") /\ Advance /\ memory' = [memory EXCEPT ![d] = call.value]
      /\ "set" \in Loops
  BY DEF SetNext, Loops
<1>2. Advanced /\ memory = Filled(Turns) /\ call.op = "set" /\ pc = "set"
  BY <1>1 DEF IInv, LoopInv, SetInv, Turn
<1>3. d' = d + 1 /\ s' = s + 1 /\ pc' = pc /\ result' = result
      /\ d \in Nat /\ s \in Nat /\ result \in Int
  BY <1>1 DEF Advance, IInv, TypeOK
<1>4. TypeOK'
  BY <1>1, <1>2, <1>3, TurnFacts, AdvanceType DEF Advanced
<1>5. Advanced'
  BY <1>1, <1>2, <1>3, TurnFacts DEF Advanced
<1>6. memory' = Filled(Turns)'
  <2> SUFFICES ASSUME NEW a \in Addresses
               PROVE  memory'[a] = IF InDest(a, 0, Turns + 1)
                                     THEN call.value ELSE before[a]
    BY <1>1, TurnFacts DEF Filled, InDest
  <2>1. memory[a] = IF InDest(a, 0, Turns) THEN call.value ELSE before[a]
    BY <1>2 DEF Filled
  <2>2. InDest(a, 0, Turns + 1) <=> InDest(a, 0, Turns) \/ a = d
    BY <1>1, <1>2, TurnFacts DEF InDest, Advanced
  <2>3. QED
    BY <1>1, <1>2, <2>1, <2>2, TurnFacts DEF Advanced
<1>7. LoopInv'
  BY <1>1, <1>2, <1>3, <1>5, <1>6, TurnFacts
  DEF LoopInv, SetInv, ForwardInv, BackwardInv, SwapInv, CompareInv, FindInv,
      IsZeroInv
<1>8. QED
  BY <1>1, <1>2, <1>3, <1>4, <1>7, NoReturn DEF IInv

(* Going forward, the source byte of this turn is behind all bytes written.*)
LEMMA ForwardIInv == ASSUME IInv, CopyForward PROVE IInv'
<1>1. Turn("forward") /\ Advance /\ memory' = [memory EXCEPT ![d] = memory[s]]
      /\ "forward" \in Loops
  BY DEF CopyForward, Loops
<1>2. /\ Advanced /\ memory = Copied(0, Turns) /\ call.op = "move"
      /\ pc = "forward" /\ call.dest < call.src
  BY <1>1 DEF IInv, LoopInv, ForwardInv, Turn
<1>3. d' = d + 1 /\ s' = s + 1 /\ pc' = pc /\ result' = result
      /\ d \in Nat /\ s \in Nat /\ result \in Int
  BY <1>1 DEF Advance, IInv, TypeOK
<1>4. TypeOK'
  BY <1>1, <1>2, <1>3, TurnFacts, AdvanceType DEF Advanced
<1>5. Advanced'
  BY <1>1, <1>2, <1>3, TurnFacts DEF Advanced
<1>6. memory[s] = before[s]
  <2>1. ~InDest(s, 0, Turns) /\ s \in Addresses
    BY <1>1, <1>2, TurnFacts DEF InDest, Advanced
  <2>2. QED
    BY <1>2, <2>1 DEF Copied
<1>7. memory' = Copied(0, Turns)'
  <2> SUFFICES ASSUME NEW a \in Addresses
               PROVE  memory'[a] = IF InDest(a, 0, Turns + 1)
                                     THEN before[a - call.dest + call.src]
                                     ELSE before[a]
    BY <1>1, TurnFacts DEF Copied, InDest
  <2>1. memory[a] = IF InDest(a, 0, Turns) THEN before[a - call.dest + call.src]
                                           ELSE before[a]
    BY <1>2 DEF Copied
  <2>2. InDest(a, 0, Turns + 1) <=> InDest(a, 0, Turns) \/ a = d
    BY <1>1, <1>2, TurnFacts DEF InDest, Advanced
  <2>3. a = d => a - call.dest + call.src = s
    BY <1>1, <1>2, TurnFacts DEF Advanced
  <2>4. QED
    BY <1>1, <1>2, <1>6, <2>1, <2>2, <2>3, TurnFacts DEF Advanced
<1>8. LoopInv'
  BY <1>1, <1>2, <1>3, <1>5, <1>7, TurnFacts
  DEF LoopInv, SetInv, ForwardInv, BackwardInv, SwapInv, CompareInv, FindInv,
      IsZeroInv
<1>9. QED
  BY <1>1, <1>2, <1>3, <1>4, <1>8, NoReturn DEF IInv

(* Going backward, it is in front of all bytes written.                    *)
LEMMA BackwardIInv == ASSUME IInv, CopyBackward PROVE IInv'
<1>1. /\ Turn("backward") /\ "backward" \in Loops
      /\ memory' = [memory EXCEPT ![d - 1] = memory[s - 1]]
      /\ d' = d - 1 /\ s' = s - 1 /\ pc' = pc /\ result' = result
  BY DEF CopyBackward, Loops
<1>2. /\ d = call.dest + length /\ s = call.src + length
      /\ memory = Copied(length, call.len) /\ call.op = "move"
      /\ pc = "backward" /\ call.dest > call.src
  BY <1>1 DEF IInv, LoopInv, BackwardInv, Turn
<1>3. d - 1 \in Addresses /\ s - 1 \in Addresses /\ d' \in Nat /\ s' \in Nat
      /\ result \in Int
  BY <1>1, <1>2, TurnFacts DEF IInv, TypeOK
<1>4. TypeOK'
  BY <1>1, <1>2, <1>3, TurnFacts, AdvanceType
<1>5. memory[s - 1] = before[s - 1]
  <2>1. ~InDest(s - 1, length, call.len)
    BY <1>1, <1>2, TurnFacts DEF InDest
  <2>2. QED
    BY <1>2, <1>3, <2>1 DEF Copied
<1>6. memory' = Copied(length, call.len)'
  <2> SUFFICES ASSUME NEW a \in Addresses
               PROVE  memory'[a] = IF InDest(a, length - 1, call.len)
                                     THEN before[a - call.dest + call.src]
                                     ELSE before[a]
    BY <1>1, TurnFacts DEF Copied, InDest
  <2>1. memory[a] = IF InDest(a, length, call.len)
                      THEN before[a - call.dest + call.src] ELSE before[a]
    BY <1>2 DEF Copied
  <2>2. InDest(a, length - 1, call.len)
          <=> InDest(a, length, call.len) \/ a = d - 1
    BY <1>1, <1>2, TurnFacts DEF InDest
  <2>3. a = d - 1 => a - call.dest + call.src = s - 1
    BY <1>1, <1>2, TurnFacts
  <2>4. QED
    BY <1>1, <1>3, <1>5, <2>1, <2>2, <2>3, TurnFacts
<1>7. LoopInv'
  BY <1>1, <1>2, <1>6, TurnFacts
  DEF LoopInv, SetInv, ForwardInv, BackwardInv, SwapInv, CompareInv, FindInv,
      IsZeroInv
<1>8. QED
  BY <1>1, <1>2, <1>4, <1>7, NoReturn DEF IInv

LEMMA SwapIInv == ASSUME IInv, SwapNext PROVE IInv'
<1>1. /\ Turn("swap") /\ Advance /\ "swap" \in Loops
      /\ memory' = [[memory EXCEPT ![d] = memory[s]] EXCEPT ![s] = memory[d]]
  BY DEF SwapNext, Loops
<1>2. /\ Advanced /\ (Apart => memory = Swapped(Turns)) /\ call.op = "swap"
      /\ pc = "swap"
  BY <1>1 DEF IInv, LoopInv, SwapInv, Turn
<1>3. d' = d + 1 /\ s' = s + 1 /\ pc' = pc /\ result' = result
      /\ d \in Addresses /\ s \in Addresses /\ result \in Int
  BY <1>1, <1>2, TurnFacts DEF Advance, IInv, TypeOK, Advanced
<1>4. memory' \in [Addresses -> Bytes]
  BY <1>1, <1>3, TurnFacts
<1>5. TypeOK'
  BY <1>1, <1>2, <1>3, <1>4, TurnFacts, AdvanceType
<1>6. Advanced'
  BY <1>1, <1>2, <1>3, TurnFacts DEF Advanced
<1>7. ASSUME Apart PROVE memory' = Swapped(Turns)'
  <2>1. /\ d = call.dest + Turns /\ s = call.src + Turns /\ Turns \in Nat
        /\ Turns < call.len /\ call.dest \in Nat /\ call.src \in Nat
        /\ call.len \in Nat /\ Addresses \subseteq Nat
    BY <1>1, <1>2, TurnFacts DEF Advanced
  <2>2. /\ d = s <=> call.dest = call.src
        /\ call.dest # call.src => \A k, l \in 0 .. call.len - 1 :
                                      call.dest + k # call.src + l
    BY <1>7, <2>1 DEF Apart
  <2>3. memory[d] = before[d] /\ memory[s] = before[s]
    <3>1. memory = Swapped(Turns)
      BY <1>2, <1>7
    <3>2. CASE call.dest = call.src
      <4>1. d = s /\ ~InDest(d, 0, Turns) /\ ~InSrc(d, 0, Turns)
        BY <2>1, <2>2, <3>2 DEF InDest, InSrc
      <4>2. QED
        BY <1>3, <3>1, <4>1 DEF Swapped
    <3>3. CASE call.dest # call.src
      <4>1. /\ ~InDest(d, 0, Turns) /\ ~InSrc(d, 0, Turns)
            /\ ~InDest(s, 0, Turns) /\ ~InSrc(s, 0, Turns)
        BY <1>7, <2>1, <3>3 DEF InDest, InSrc, Apart
      <4>2. QED
        BY <1>3, <3>1, <4>1 DEF Swapped
    <3>4. QED
      BY <3>2, <3>3
  <2>4. SUFFICES ASSUME NEW a \in Addresses
                 PROVE  memory'[a] =
                          CASE InDest(a, 0, Turns + 1)
                                 -> before[a - call.dest + call.src]
                            [] InSrc(a, 0, Turns + 1) /\ ~InDest(a, 0, Turns + 1)
                                 -> before[a - call.src + call.dest]
                            [] OTHER -> before[a]
    <3>1. memory' = [a \in Addresses |-> memory'[a]]
      BY <1>4
    <3>2. Swapped(Turns)' =
            [a \in Addresses |->
               CASE InDest(a, 0, Turns + 1) -> before[a - call.dest + call.src]
                 [] InSrc(a, 0, Turns + 1) /\ ~InDest(a, 0, Turns + 1)
                      -> before[a - call.src + call.dest]
                 [] OTHER -> before[a]]
      BY <1>1, TurnFacts DEF Swapped, InDest, InSrc
    <3>3. QED
      BY <2>4, <3>1, <3>2
  <2>5. memory[a] =
          CASE InDest(a, 0, Turns) -> before[a - call.dest + call.src]
            [] InSrc(a, 0, Turns) /\ ~InDest(a, 0, Turns)
                 -> before[a - call.src + call.dest]
            [] OTHER -> before[a]
    BY <1>2, <1>7 DEF Swapped
  <2>6. /\ InDest(a, 0, Turns + 1) <=> InDest(a, 0, Turns) \/ a = d
        /\ InSrc(a, 0, Turns + 1) <=> InSrc(a, 0, Turns) \/ a = s
        /\ a = d => ~InDest(a, 0, Turns) /\ a - call.dest + call.src = s
        /\ a = s => ~InSrc(a, 0, Turns) /\ a - call.src + call.dest = d
    BY <2>1 DEF InDest, InSrc
  <2>7. memory'[a] = IF a = s THEN memory[d]
                     ELSE IF a = d THEN memory[s] ELSE memory[a]
    BY <1>1, <1>3, TurnFacts
  <2>8. CASE a = d
    <3>1. memory'[a] = before[s]
      BY <2>2, <2>3, <2>7, <2>8
    <3>2. QED
      BY <2>6, <2>8, <3>1
  <2>9. CASE a = s /\ a # d
    <3>1. ~InDest(a, 0, Turns + 1)
      BY <1>7, <2>1, <2>2, <2>9 DEF InDest, Apart
    <3>2. memory'[a] = before[d]
      BY <2>3, <2>7, <2>9
    <3>3. QED
      BY <2>6, <2>9, <3>1, <3>2
  <2>10. CASE a # s /\ a # d
    BY <2>5, <2>6, <2>7, <2>10
  <2>11. QED
    BY <2>8, <2>9, <2>10
<1>8. Apart' => Apart
  BY <1>1, TurnFacts DEF Apart
<1>9. LoopInv'
  BY <1>1, <1>2, <1>3, <1>6, <1>7, <1>8, TurnFacts
  DEF LoopInv, SetInv, ForwardInv, BackwardInv, SwapInv, CompareInv, FindInv,
      IsZeroInv
<1>10. QED
  BY <1>1, <1>2, <1>3, <1>5, <1>9, NoReturn DEF IInv

(* What the three searches have in common: all bytes seen so far say the   *)
(* same, and the search goes on or this byte decides.                      *)
LEMMA SearchFacts ==
  ASSUME IInv, NEW loop \in {"compare", "find", "is_zero"}, Turn(loop)
  PROVE  /\ Advanced /\ d \in Addresses /\ s \in Addresses
         /\ d = call.dest + Turns /\ s = call.src + Turns /\ call.op = loop
         /\ Turns \in 0 .. call.len - 1
         /\ \A k \in 0 .. Turns : k \in 0 .. Turns - 1 \/ k = Turns
         /\ \A j \in 0 .. call.len - 1 : j < Turns => j \in 0 .. Turns - 1
         /\ call' = call /\ before' = before /\ pc = loop /\ result \in Int
         /\ Turns' = Turns + 1 /\ Turns \in Nat
<1>1. loop \in Loops
  BY DEF Loops
<1>2. Advanced /\ call.op = loop
  BY <1>1, TurnFacts DEF IInv, LoopInv, CompareInv, FindInv, IsZeroInv
<1>3. QED
  BY <1>1, <1>2, TurnFacts DEF Advanced, IInv, TypeOK

LEMMA CompareIInv == ASSUME IInv, CompareNext PROVE IInv'
<1> DEFINE Same(hi) == \A k \in 0 .. hi - 1 :
                          memory[call.dest + k] = memory[call.src + k]
<1>1. Turn("compare") /\ "compare" \in Loops
  BY DEF CompareNext, Loops
<1>2. Same(Turns)
  BY <1>1 DEF IInv, LoopInv, CompareInv, Turn
<1>3. CASE memory[d] = memory[s] /\ Advance /\ UNCHANGED memory
  <2>1. d' = d + 1 /\ s' = s + 1 /\ pc' = pc /\ result' = result
    BY <1>3 DEF Advance
  <2>2. TypeOK'
    BY <1>1, <1>3, <2>1, TurnFacts, SearchFacts, AdvanceType
  <2>3. Same(Turns + 1)
    BY <1>1, <1>2, <1>3, SearchFacts
  <2>4. Advanced'
    BY <1>1, <2>1, SearchFacts, TurnFacts DEF Advanced
  <2>5. LoopInv'
    BY <1>1, <1>3, <2>1, <2>3, <2>4, SearchFacts
    DEF LoopInv, SetInv, ForwardInv, BackwardInv, SwapInv, CompareInv, FindInv,
        IsZeroInv
  <2>6. QED
    BY <1>1, <2>1, <2>2, <2>5, SearchFacts, NoReturn DEF IInv
<1>4. CASE \/ memory[d] > memory[s] /\ Return(1)
           \/ memory[d] < memory[s] /\ Return(-1)
  <2>1. /\ pc' = "return" /\ memory' = memory /\ d' = d /\ s' = s
        /\ result' \in Int
        /\ memory[d] # memory[s]
        /\ result' = IF memory[d] > memory[s] THEN 1 ELSE -1
    BY <1>1, <1>4, TurnFacts, SearchFacts DEF Return
  <2>2. TypeOK'
    BY <1>1, <2>1, TurnFacts, SearchFacts, AdvanceType
  <2>3. LoopInv'
    BY <2>1 DEF LoopInv, SetInv, ForwardInv, BackwardInv, SwapInv, CompareInv,
                FindInv, IsZeroInv
  <2>4. SearchesExact'
    BY <1>1, <1>2, <2>1, SearchFacts DEF SearchesExact, Done
  <2>5. ReturnInv'
    BY <1>1, <2>1, <2>4, SearchFacts
    DEF ReturnInv, MovedIntact, FilledExactly, SwappedExactly
  <2>6. QED
    BY <2>2, <2>3, <2>5 DEF IInv
<1>5. QED
  BY <1>3, <1>4 DEF CompareNext

LEMMA FindIInv == ASSUME IInv, FindNext PROVE IInv'
<1> DEFINE Other(hi) == \A k \in 0 .. hi - 1 :
                           memory[call.dest + k] # call.value
<1>1. Turn("find") /\ "find" \in Loops
  BY DEF FindNext, Loops
<1>2. Other(Turns)
  BY <1>1 DEF IInv, LoopInv, FindInv, Turn
<1>3. CASE memory[d] # call.value /\ Advance /\ UNCHANGED memory
  <2>1. d' = d + 1 /\ s' = s + 1 /\ pc' = pc /\ result' = result
    BY <1>3 DEF Advance
  <2>2. TypeOK'
    BY <1>1, <1>3, <2>1, TurnFacts, SearchFacts, AdvanceType
  <2>3. Other(Turns + 1)
    BY <1>1, <1>2, <1>3, SearchFacts
  <2>4. Advanced'
    BY <1>1, <2>1, SearchFacts, TurnFacts DEF Advanced
  <2>5. LoopInv'
    BY <1>1, <1>3, <2>1, <2>3, <2>4, SearchFacts
    DEF LoopInv, SetInv, ForwardInv, BackwardInv, SwapInv, CompareInv, FindInv,
        IsZeroInv
  <2>6. QED
    BY <1>1, <2>1, <2>2, <2>5, SearchFacts, NoReturn DEF IInv
<1>4. CASE memory[d] = call.value /\ Return(d)
  <2>1. /\ pc' = "return" /\ memory' = memory /\ d' = d /\ s' = s
        /\ result' \in Int /\ result' = call.dest + Turns
    BY <1>1, <1>4, TurnFacts, SearchFacts DEF Return
  <2>2. TypeOK'
    BY <1>1, <2>1, TurnFacts, SearchFacts, AdvanceType
  <2>3. LoopInv'
    BY <2>1 DEF LoopInv, SetInv, ForwardInv, BackwardInv, SwapInv, CompareInv,
                FindInv, IsZeroInv
  <2>4. SearchesExact'
    BY <1>1, <1>2, <1>4, <2>1, SearchFacts DEF SearchesExact, Done
  <2>5. ReturnInv'
    BY <1>1, <2>1, <2>4, SearchFacts
    DEF ReturnInv, MovedIntact, FilledExactly, SwappedExactly
  <2>6. QED
    BY <2>2, <2>3, <2>5 DEF IInv
<1>5. QED
  BY <1>3, <1>4 DEF FindNext

LEMMA IsZeroIInv == ASSUME IInv, IsZeroNext PROVE IInv'
<1> DEFINE Zero(hi) == \A k \in 0 .. hi - 1 : memory[call.dest + k] = 0
<1>1. Turn("is_zero") /\ "is_zero" \in Loops
  BY DEF IsZeroNext, Loops
<1>2. Zero(Turns)
  BY <1>1 DEF IInv, LoopInv, IsZeroInv, Turn
<1>3. CASE memory[d] = 0 /\ Advance /\ UNCHANGED memory
  <2>1. d' = d + 1 /\ s' = s + 1 /\ pc' = pc /\ result' = result
    BY <1>3 DEF Advance
  <2>2. TypeOK'
    BY <1>1, <1>3, <2>1, TurnFacts, SearchFacts, AdvanceType
  <2>3. Zero(Turns + 1)
    BY <1>1, <1>2, <1>3, SearchFacts
  <2>4. Advanced'
    BY <1>1, <2>1, SearchFacts, TurnFacts DEF Advanced
  <2>5. LoopInv'
    BY <1>1, <1>3, <2>1, <2>3, <2>4, SearchFacts
    DEF LoopInv, SetInv, ForwardInv, BackwardInv, SwapInv, CompareInv, FindInv,
        IsZeroInv
  <2>6. QED
    BY <1>1, <2>1, <2>2, <2>5, SearchFacts, NoReturn DEF IInv
<1>4. CASE memory[d] # 0 /\ Return(0)
  <2>1. /\ pc' = "return" /\ memory' = memory /\ d' = d /\ s' = s
        /\ result' = 0 /\ memory[call.dest + Turns] # 0
    BY <1>1, <1>4, TurnFacts, SearchFacts DEF Return
  <2>2. TypeOK'
    BY <1>1, <2>1, TurnFacts, SearchFacts, AdvanceType
  <2>3. LoopInv'
    BY <2>1 DEF LoopInv, SetInv, ForwardInv, BackwardInv, SwapInv, CompareInv,
                FindInv, IsZeroInv
  <2>4. SearchesExact'
    BY <1>1, <2>1, SearchFacts DEF SearchesExact, Done
  <2>5. ReturnInv'
    BY <1>1, <2>1, <2>4, SearchFacts
    DEF ReturnInv, MovedIntact, FilledExactly, SwappedExactly
  <2>6. QED
    BY <2>2, <2>3, <2>5 DEF IInv
<1>5. QED
  BY <1>3, <1>4 DEF IsZeroNext

(* A loop that has taken all its turns has done all the call asks for.     *)
LEMMA EndsIInv == ASSUME IInv, LoopEnds PROVE IInv'
<1>1. /\ pc \in Loops /\ length = 0 /\ pc' = "return"
      /\ memory' = memory /\ before' = before /\ call' = call
      /\ d' = d /\ s' = s /\ length' = length
      /\ result' = CASE pc \in {"set", "forward", "backward"} -> call.dest
                     [] pc \in {"swap", "compare"}            -> 0
                     [] pc = "find"                           -> NULL
                     [] pc = "is_zero"                        -> 1
  BY DEF LoopEnds, Return
<1>2. call.dest \in Nat /\ call.len \in Nat /\ Turns = call.len
  BY <1>1 DEF IInv, TypeOK, Calls, Turns
<1>3. result' \in Int
  BY <1>1, <1>2 DEF Loops, NULL
<1>4. TypeOK'
  BY <1>1, <1>3 DEF IInv, TypeOK
<1>5. LoopInv'
  BY <1>1 DEF LoopInv, SetInv, ForwardInv, BackwardInv, SwapInv, CompareInv,
              FindInv, IsZeroInv
<1>6. MovedIntact' /\ FilledExactly'
  BY <1>1, <1>2
  DEF IInv, LoopInv, SetInv, ForwardInv, BackwardInv, SwapInv, CompareInv,
      FindInv, IsZeroInv, MovedIntact, FilledExactly, Copied, Filled, InDest,
      Done, Loops
<1>7. SwappedExactly'
  <2> SUFFICES ASSUME call'.op = "swap", Apart' PROVE (memory = Swapped(call.len))'
    BY DEF SwappedExactly
  <2>1. pc = "swap" /\ Apart
    BY <1>1 DEF IInv, LoopInv, SetInv, ForwardInv, BackwardInv, CompareInv,
                FindInv, IsZeroInv, Loops, Apart
  <2>2. memory = Swapped(call.len)
    BY <1>2, <2>1 DEF IInv, LoopInv, SwapInv
  <2>3. QED
    BY <1>1, <2>2 DEF Swapped, InDest, InSrc
<1>8. SearchesExact'
  <2>1. CASE pc = "compare"
    BY <1>1, <1>2, <2>1 DEF IInv, LoopInv, CompareInv, SearchesExact
  <2>2. CASE pc = "find"
    BY <1>1, <1>2, <2>2 DEF IInv, LoopInv, FindInv, SearchesExact
  <2>3. CASE pc = "is_zero"
    BY <1>1, <1>2, <2>3 DEF IInv, LoopInv, IsZeroInv, SearchesExact
  <2>4. CASE pc \in {"set", "forward", "backward", "swap"}
    BY <1>1, <2>4 DEF IInv, LoopInv, SetInv, ForwardInv, BackwardInv, SwapInv,
                      SearchesExact
  <2>5. QED
    BY <1>1, <2>1, <2>2, <2>3, <2>4 DEF Loops
<1>9. QED
  BY <1>4, <1>5, <1>6, <1>7, <1>8 DEF IInv, ReturnInv

LEMMA LeaveIInv == ASSUME IInv, Leave PROVE IInv'
<1>1. /\ pc' = "idle" /\ call' = NoCall /\ d' = 0 /\ s' = 0 /\ length' = 0
      /\ result' = 0 /\ memory' = memory /\ before' = memory
  BY DEF Leave
<1>2. NoCall \in Calls /\ NoCall.dest = 0 /\ NoCall.src = 0 /\ NoCall.len = 0
  BY DEF NoCall, Calls, Bytes
<1>3. memory \in [Addresses -> Bytes] /\ SIZE \in Nat
  BY MemoryAssumption DEF IInv, TypeOK
<1>4. TypeOK'
  BY <1>1, <1>2, <1>3 DEF TypeOK, Loops
<1>5. LoopInv' /\ ReturnInv'
  BY <1>1 DEF LoopInv, SetInv, ForwardInv, BackwardInv, SwapInv, CompareInv,
              FindInv, IsZeroInv, ReturnInv, MovedIntact, FilledExactly,
              SwappedExactly, SearchesExact, Done
<1>6. QED
  BY <1>4, <1>5 DEF IInv

LEMMA NextIInv == IInv /\ [Next]_vars => IInv'
<1> SUFFICES ASSUME IInv, [Next]_vars PROVE IInv'
  OBVIOUS
<1>1. CASE UNCHANGED vars
  BY <1>1
  DEF vars, pointers, IInv, TypeOK, LoopInv, SetInv, ForwardInv, BackwardInv,
      SwapInv, CompareInv, FindInv, IsZeroInv, ReturnInv, MovedIntact,
      FilledExactly, SwappedExactly, SearchesExact, Done, Advanced, Turns,
      Copied, Filled, Swapped, InDest, InSrc, Apart
<1>2. QED
  BY <1>1, CallIInv, SetIInv, ForwardIInv, BackwardIInv, SwapIInv, CompareIInv,
     FindIInv, IsZeroIInv, EndsIInv, LeaveIInv DEF Next, Run

LEMMA AlwaysIInv == Spec => []IInv
BY InitIInv, NextIInv, PTL DEF Spec

-----------------------------------------------------------------------------
(* The variables keep their types; no loop is longer than its area.        *)
THEOREM TypeCorrect == Spec => []TypeOK
<1>1. IInv => TypeOK
  BY DEF IInv
<1>2. QED
  BY <1>1, AlwaysIInv, PTL

(* memory_move and memory_copy are right for every two areas, also when    *)
(* they overlap: the scrolling of the screen relies on it.                 *)
THEOREM MoveRight == Spec => []MovedIntact
<1>1. IInv => MovedIntact
  BY DEF IInv, ReturnInv
<1>2. QED
  BY <1>1, AlwaysIInv, PTL

(* memory_set and memory_zero fill the area and nothing beside it.         *)
THEOREM FillRight == Spec => []FilledExactly
<1>1. IInv => FilledExactly
  BY DEF IInv, ReturnInv
<1>2. QED
  BY <1>1, AlwaysIInv, PTL

(* memory_swap exchanges two areas that share no byte.                     *)
THEOREM SwapRight == Spec => []SwappedExactly
<1>1. IInv => SwappedExactly
  BY DEF IInv, ReturnInv
<1>2. QED
  BY <1>1, AlwaysIInv, PTL

(* memory_set, memory_zero and memory_swap write what they promise.        *)
THEOREM WritesRight == Spec => []WritesExact
<1>1. FilledExactly /\ SwappedExactly => WritesExact
  BY DEF WritesExact
<1>2. QED
  BY <1>1, FillRight, SwapRight, PTL

(* memory_compare, memory_find and memory_is_zero return what their        *)
(* definitions say.                                                        *)
THEOREM SearchRight == Spec => []SearchesExact
<1>1. IInv => SearchesExact
  BY DEF IInv, ReturnInv
<1>2. QED
  BY <1>1, AlwaysIInv, PTL

(* No loop reads or writes outside of the areas it was given.              *)
THEOREM AlwaysInBounds == Spec => []InBounds
<1>1. IInv => InBounds
  <2> SUFFICES ASSUME IInv, pc \in Loops, length > 0 PROVE InBounds
    BY DEF InBounds
  <2>1. /\ call.dest \in Nat /\ call.src \in Nat /\ call.len \in Nat
        /\ length \in 0 .. call.len
    BY DEF IInv, TypeOK, Calls
  <2>2. CASE pc = "backward"
    BY <2>1, <2>2 DEF IInv, LoopInv, BackwardInv, InBounds, InDest, InSrc
  <2>3. CASE pc # "backward"
    <3>1. Advanced
      BY <2>3 DEF IInv, LoopInv, SetInv, ForwardInv, SwapInv, CompareInv,
                  FindInv, IsZeroInv, Loops
    <3>2. QED
      BY <2>1, <2>3, <3>1 DEF Advanced, Turns, InBounds, InDest, InSrc
  <2>4. QED
    BY <2>2, <2>3
<1>2. QED
  BY <1>1, AlwaysIInv, PTL

(* The turns left, the return from the loop and the caller's next step.    *)
Left ==
  CASE pc = "idle" -> 0 [] pc = "return" -> 1 [] pc \in Loops -> 2 + length

LEMMA LeftIs ==
  ASSUME IInv
  PROVE  /\ pc = "idle" => Left = 0
         /\ pc = "return" => Left = 1
         /\ pc \in Loops => Left = 2 + length
         /\ pc \in Loops \union {"idle", "return"}
         /\ length \in Nat /\ length <= SIZE
<1>1. /\ call.dest \in Nat /\ call.len \in Nat /\ call.dest + call.len <= SIZE
      /\ length \in 0 .. call.len /\ SIZE \in Nat
      /\ pc \in Loops \union {"idle", "return"}
  BY MemoryAssumption DEF IInv, TypeOK, Calls
<1>2. pc = "idle" => Left = 0
  BY DEF Left, Loops
<1>3. pc = "return" => Left = 1
  BY DEF Left, Loops
<1>4. pc \in Loops => Left = 2 + length
  BY DEF Left, Loops
<1> QED
  BY <1>1, <1>2, <1>3, <1>4

(* Every helper returns, after as many turns as its areas have bytes: what *)
(* the others of these theorems say of a call that is done comes to pass   *)
(* for every call (memory.c).                                              *)
THEOREM CallsAdvance ==
  Spec => [](Left \in 0 .. 2 + SIZE) /\ [][Run => Left' < Left]_vars
<1>1. IInv => Left \in 0 .. 2 + SIZE
  BY LeftIs, MemoryAssumption
<1>2. ASSUME IInv, Run
      PROVE  Left' < Left
  <2>1. /\ length \in Nat
        /\ pc = "return" => Left = 1
        /\ pc \in Loops => Left = 2 + length
    BY <1>2, LeftIs
  <2>2. CASE Leave
    <3>1. Left' = 0
      BY <2>2 DEF Leave, Left, Loops
    <3> QED
      BY <2>1, <2>2, <3>1 DEF Leave
  <2>3. ASSUME pc \in Loops, pc' = "return"
        PROVE  Left' < Left
    <3>1. Left' = 1
      BY <2>3 DEF Left, Loops
    <3> QED
      BY <2>1, <2>3, <3>1
  <2>4. ASSUME pc \in Loops, pc' = pc, length > 0, length' = length - 1
        PROVE  Left' < Left
    <3>1. Left' = 2 + length'
      BY <2>4 DEF Left, Loops
    <3> QED
      BY <2>1, <2>4, <3>1
  <2>5. \/ Leave
        \/ pc \in Loops /\ pc' = "return"
        \/ pc \in Loops /\ pc' = pc /\ length > 0 /\ length' = length - 1
    BY <1>2 DEF Run, SetNext, CopyForward, CopyBackward, SwapNext, CompareNext,
       FindNext, IsZeroNext, LoopEnds, Turn, Advance, Return, Loops
  <2> QED
    BY <2>2, <2>3, <2>4, <2>5
<1>3. IInv /\ [Next]_vars => [Run => Left' < Left]_vars
  BY <1>2
<1> QED
  BY <1>1, <1>3, AlwaysIInv, PTL DEF Spec

=============================================================================
