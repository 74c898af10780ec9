------------------------------- MODULE Memory -------------------------------
(***************************************************************************)
(* The memory helpers (memory.c).  Memory is a row of bytes; a call gets   *)
(* the first addresses of one or two areas inside of it, and each turn of  *)
(* the call's loop, which reads and writes one byte of an area, is a step. *)
(* memory_copy and memory_move are the same code.                          *)
(***************************************************************************)
EXTENDS Integers

CONSTANTS
  SIZE,      \* bytes of memory
  Contents,  \* what memory may hold at first
  Values     \* the ints passed to memory_set and memory_find

VARIABLES
  memory,
  before,    \* history: memory as the call in progress found it
  call,      \* its arguments
  d, s,      \* the pointers of its loop (p1 and p2, ptr or p in some)
  length,    \* the turns left
  pc,        \* the loop that runs, "idle" or "return"
  result     \* what the call returns

pointers == <<d, s, length>>
vars == <<memory, before, call, pointers, pc, result>>

(* A definition that begins with Bad is a plausible slip in the definition *)
(* it is named after; the specification uses none.                         *)

-----------------------------------------------------------------------------
Addresses == 0 .. SIZE - 1

Bytes == 0 .. 255

NULL == -1

(* The conversion of an int to unsigned char.                              *)
Byte(value) == value % 256

ASSUME MemoryAssumption ==
  /\ SIZE \in Nat
  /\ Contents \subseteq [Addresses -> Bytes]
  /\ Values \subseteq Int

NoCall == [op |-> "none", dest |-> 0, src |-> 0, value |-> 0, len |-> 0]

Init ==
  /\ memory \in Contents /\ before = memory
  /\ call = NoCall /\ pc = "idle"
  /\ d = 0 /\ s = 0 /\ length = 0 /\ result = 0

-----------------------------------------------------------------------------
(* The calls.                                                              *)

(* A function is entered with areas of n bytes at dest and src.            *)
Enter(op, dest, src, value, n) ==
  /\ pc = "idle"
  /\ before' = memory /\ length' = n
  /\ call' = [op |-> op, dest |-> dest, src |-> src, value |-> value, len |-> n]
  /\ UNCHANGED memory

(* It starts its loop at the first bytes of its areas.                     *)
Start(loop) == pc' = loop /\ d' = call'.dest /\ s' = call'.src /\ result' = 0

memory_set(dest, value, n) ==
  Enter("set", dest, dest, Byte(value), n) /\ Start("set")

memory_zero(dest, n) == memory_set(dest, 0, n)

BadMove(dest, src, n) ==
  Enter("move", dest, src, 0, n) /\ Start("forward")

BadMoveDown(dest, src, n) ==
  /\ Enter("move", dest, src, 0, n)
  /\ \/ dest < src /\ Start("forward")
     \/ /\ dest > src
        /\ pc' = "backward" /\ d' = dest + n /\ s' = src /\ result' = 0
     \/ /\ dest = src
        /\ pc' = "return" /\ d' = dest /\ s' = src /\ result' = dest

(* memory_copy and memory_move: the direction depends on which area is     *)
(* first; nothing is to be done when they are the same.                    *)
memory_move(dest, src, n) ==
  /\ Enter("move", dest, src, 0, n)
  /\ \/ dest < src /\ Start("forward")
     \/ /\ dest > src
        /\ pc' = "backward" /\ d' = dest + n /\ s' = src + n /\ result' = 0
     \/ /\ dest = src
        /\ pc' = "return" /\ d' = dest /\ s' = src /\ result' = dest

memory_swap(ptr1, ptr2, n) ==
  Enter("swap", ptr1, ptr2, 0, n) /\ Start("swap")

memory_compare(ptr1, ptr2, n) ==
  Enter("compare", ptr1, ptr2, 0, n) /\ Start("compare")

BadMemoryFind(ptr, value, n) ==
  Enter("find", ptr, ptr, value, n) /\ Start("find")

memory_find(ptr, value, n) ==
  Enter("find", ptr, ptr, Byte(value), n) /\ Start("find")

memory_is_zero(ptr, n) ==
  Enter("is_zero", ptr, ptr, 0, n) /\ Start("is_zero")

-----------------------------------------------------------------------------
(* The turns of the loops.                                                 *)

Turn(loop) ==
  /\ pc = loop /\ length > 0
  /\ length' = length - 1
  /\ UNCHANGED <<before, call>>

Advance == d' = d + 1 /\ s' = s + 1 /\ UNCHANGED <<pc, result>>

Return(value) ==
  pc' = "return" /\ result' = value /\ UNCHANGED <<memory, d, s>>

SetNext ==
  /\ Turn("set") /\ Advance
  /\ memory' = [memory EXCEPT ![d] = call.value]

CopyForward ==
  /\ Turn("forward") /\ Advance
  /\ memory' = [memory EXCEPT ![d] = memory[s]]

CopyBackward ==
  /\ Turn("backward")
  /\ d' = d - 1 /\ s' = s - 1 /\ UNCHANGED <<pc, result>>
  /\ memory' = [memory EXCEPT ![d - 1] = memory[s - 1]]

BadSwapNext ==
  /\ Turn("swap") /\ Advance
  /\ memory' = [memory EXCEPT ![d] = memory[s], ![s] = @]

SwapNext ==
  /\ Turn("swap") /\ Advance
  /\ memory' = [[memory EXCEPT ![d] = memory[s]] EXCEPT ![s] = memory[d]]

CompareNext ==
  /\ Turn("compare")
  /\ \/ memory[d] = memory[s] /\ Advance /\ UNCHANGED memory
     \/ memory[d] > memory[s] /\ Return(1)
     \/ memory[d] < memory[s] /\ Return(-1)

BadFindNext ==
  /\ Turn("find")
  /\ \/ memory[d] # call.value /\ Advance /\ UNCHANGED memory
     \/ memory[d] = call.value /\ Return(d + 1)

FindNext ==
  /\ Turn("find")
  /\ \/ memory[d] # call.value /\ Advance /\ UNCHANGED memory
     \/ memory[d] = call.value /\ Return(d)

IsZeroNext ==
  /\ Turn("is_zero")
  /\ \/ memory[d] = 0 /\ Advance /\ UNCHANGED memory
     \/ memory[d] # 0 /\ Return(0)

Loops == {"set", "forward", "backward", "swap", "compare", "find", "is_zero"}

(* No turn is left; what is returned depends on the function.              *)
LoopEnds ==
  /\ pc \in Loops /\ length = 0
  /\ Return(CASE pc \in {"set", "forward", "backward"} -> call.dest
              [] pc \in {"swap", "compare"}            -> 0
              [] pc = "find"                           -> NULL
              [] pc = "is_zero"                        -> 1)
  /\ UNCHANGED <<before, call, length>>

(* The caller, whoever it is, goes on.                                     *)
Leave ==
  /\ pc = "return"
  /\ pc' = "idle" /\ call' = NoCall
  /\ d' = 0 /\ s' = 0 /\ length' = 0 /\ result' = 0
  /\ before' = memory /\ UNCHANGED memory

(* The areas a caller passes lie in memory.                                *)
Call ==
  \E n \in 0 .. SIZE : \E p, q \in 0 .. SIZE - n :
    \/ memory_zero(p, n)
    \/ \E value \in Values : memory_set(p, value, n) \/ memory_find(p, value, n)
    \/ memory_move(p, q, n) \/ memory_swap(p, q, n)
    \/ memory_compare(p, q, n) \/ memory_is_zero(p, n)

Run ==
  \/ SetNext \/ CopyForward \/ CopyBackward \/ SwapNext
  \/ CompareNext \/ FindNext \/ IsZeroNext \/ LoopEnds \/ Leave

Next == Call \/ Run

Spec == Init /\ [][Next]_vars

-----------------------------------------------------------------------------
Done == pc = "return"

Calls == [op : {"none", "set", "move", "swap", "compare", "find", "is_zero"},
          dest : Nat, src : Nat, value : Bytes, len : Nat]

TypeOK ==
  /\ memory \in [Addresses -> Bytes] /\ before \in [Addresses -> Bytes]
  /\ call \in Calls
  /\ call.dest + call.len <= SIZE /\ call.src + call.len <= SIZE
  /\ d \in Nat /\ s \in Nat /\ length \in 0 .. call.len
  /\ pc \in Loops \union {"idle", "return"}
  /\ result \in Int

(* The place of address a in the first or the second area.                 *)
InDest(a, lo, hi) == call.dest + lo <= a /\ a < call.dest + hi

InSrc(a, lo, hi) == call.src + lo <= a /\ a < call.src + hi

(* The memory the call found, with bytes lo to hi - 1 of the second area   *)
(* copied to the first, of the first set, or the first hi swapped.         *)
Copied(lo, hi) ==
  [a \in Addresses |-> IF InDest(a, lo, hi)
                         THEN before[a - call.dest + call.src] ELSE before[a]]

Filled(hi) ==
  [a \in Addresses |-> IF InDest(a, 0, hi) THEN call.value ELSE before[a]]

Swapped(hi) ==
  [a \in Addresses |->
     CASE InDest(a, 0, hi) -> before[a - call.dest + call.src]
       [] InSrc(a, 0, hi) /\ ~InDest(a, 0, hi)
            -> before[a - call.src + call.dest]
       [] OTHER -> before[a]]

(* The two areas share no byte, or are the same.                           *)
Apart ==
  \/ call.dest = call.src
  \/ call.dest + call.len <= call.src
  \/ call.src + call.len <= call.dest

(* A move leaves in the destination what was in the source before it, and  *)
(* nothing else changed, however the two areas overlap.                    *)
MovedIntact == Done /\ call.op = "move" => memory = Copied(0, call.len)

(* Exactly the area given is filled with the byte.                         *)
FilledExactly == Done /\ call.op = "set" => memory = Filled(call.len)

(* Two areas apart have exchanged their contents.                          *)
SwappedExactly ==
  Done /\ call.op = "swap" /\ Apart => memory = Swapped(call.len)

(* What is written is what was asked for, and nothing else.                *)
WritesExact == FilledExactly /\ SwappedExactly

(* compare orders the areas by their first difference, find returns the    *)
(* first place of the byte, is_zero finds any byte that is not zero.       *)
SearchesExact ==
  LET x(k) == memory[call.dest + k]
      y(k) == memory[call.src + k]
      Area == 0 .. call.len - 1
  IN  Done =>
        /\ call.op = "compare" =>
             \/ result = 0 /\ \A k \in Area : x(k) = y(k)
             \/ \E k \in Area :
                  /\ x(k) # y(k) /\ \A j \in Area : j < k => x(j) = y(j)
                  /\ result = IF x(k) > y(k) THEN 1 ELSE -1
        /\ call.op = "find" =>
             \/ result = NULL /\ \A k \in Area : x(k) # call.value
             \/ \E k \in Area :
                  /\ x(k) = call.value
                  /\ \A j \in Area : j < k => x(j) # call.value
                  /\ result = call.dest + k
        /\ call.op = "is_zero" =>
             (result = 1 <=> \A k \in Area : x(k) = 0)

(* No turn touches a byte outside of the areas it was given, whichever end *)
(* it starts from.                                                         *)
InBounds ==
  pc \in Loops /\ length > 0 =>
    LET back == IF pc = "backward" THEN 1 ELSE 0 IN
    InDest(d - back, 0, call.len) /\ InSrc(s - back, 0, call.len)

=============================================================================
