---------------------------- MODULE SectorStore ----------------------------
(***************************************************************************)
(* What the sector functions promise their callers: one request at a time, *)
(* a sector at a time, each written whole or not at all.  A request that   *)
(* fails, or that a power loss cuts short, may or may not have written its *)
(* sector; it has touched no other one.                                    *)
(***************************************************************************)
EXTENDS Integers

CONSTANTS
  Positions,  \* places for drives
  Lbas,       \* the sector numbers asked for, of 32 bits
  Contents,   \* what a caller's buffer may hold
  Machines,   \* the controllers and drives there may be
  Initial     \* what the drives hold at first

VARIABLES
  store,      \* for each drive and each of its sectors, the contents
  machine,    \* the controllers and drives there are
  request,    \* what is being asked for
  answer      \* what the last request was answered

vars == <<store, machine, request, answer>>

-----------------------------------------------------------------------------
(* A drive has 2^28 sectors at most; the upper bits of a number are lost.  *)
Sector(lba) == lba % 268435456

Controller(p) == p \div 2

NoRequest == [op |-> "none"]

NoAnswer == [result |-> 1]

Requests ==
  [op : {"read", "write", "identify"}, position : Positions, lba : {0} \union Lbas,
   data : Contents]

Present == request.position \in machine.drives

Init ==
  /\ store = Initial
  /\ machine \in Machines
  /\ request = NoRequest /\ answer = NoAnswer

Ask(r) ==
  /\ request = NoRequest
  /\ request' = r /\ answer' = NoAnswer
  /\ UNCHANGED <<store, machine>>

Written ==
  [store EXCEPT ![request.position][Sector(request.lba)] = request.data]

(* The sector is written, some time before the answer.                     *)
Commit ==
  /\ request # NoRequest /\ request.op = "write" /\ Present
  /\ store' = Written
  /\ UNCHANGED <<machine, request, answer>>

(* Success on a drive that is there means that it is done; nothing is ever *)
(* answered for a controller that is not there.                            *)
Kept(result, data) ==
  /\ Controller(request.position) \in machine.controllers
  /\ Present /\ result = 0 /\ request.op \in {"read", "write"} =>
       store[request.position][Sector(request.lba)] = data
  /\ request.op = "write" => data = request.data
  /\ request.op = "identify" /\ result = 0 => Present

Answer(result, data) ==
  /\ request # NoRequest
  /\ result \in {0, -1}
  /\ Kept(result, data)
  /\ answer' = [result |-> result, data |-> data]
  /\ request' = NoRequest
  /\ UNCHANGED <<store, machine>>

(* When the power is back, there may be other drives.                      *)
PowerLoss ==
  /\ machine' \in Machines
  /\ request' = NoRequest /\ answer' = NoAnswer
  /\ \/ store' = store
     \/ request # NoRequest /\ request.op = "write" /\ Present /\ store' = Written

Next ==
  \/ \E r \in Requests : Ask(r)
  \/ Commit
  \/ Answer(answer'.result, answer'.data)
  \/ PowerLoss

Spec == Init /\ [][Next]_vars

=============================================================================
