----------------------------- MODULE AtaDriver -----------------------------
(***************************************************************************)
(* The sector functions (filesystem.c) and the IDENTIFY command of the two *)
(* disk scans (disktool.c, filesystem.c), on two controllers of up to two  *)
(* drives each, by programmed I/O: the driver writes the registers of a    *)
(* controller, which its two drives share, polls the status until it is    *)
(* not busy, and moves a sector word by word.                              *)
(*                                                                         *)
(* Ports and drives are not in the repository and are modelled as the      *)
(* driver uses them: a drive is busy from the moment the command register  *)
(* is written; then it asks for data or reports an error, whichever it     *)
(* likes.  The status of a controller that is not there reads as busy, and *)
(* that of a drive that is not there as 0.  Power may be lost at any time. *)
(*                                                                         *)
(* A drive is named by its position 2 * controller + drive.                *)
(***************************************************************************)
EXTENDS Integers

CONSTANTS
  WORDS,      \* words of a sector, 256
  Lbas,       \* the sector numbers asked for, of 32 bits
  Contents,   \* what a caller's buffer may hold, byte by byte
  Machines,   \* the controllers and drives there may be
  Initial     \* what the drives hold at first, word by word

VARIABLES
  medium,     \* on disk: position -> sector -> words
  machine,    \* the controllers and drives there are since power-on
  regs,       \* registers 3 to 6 of each controller
  dev,        \* each drive: what it is doing, and the data of the command
  call,       \* the arguments of the function called
  buffer,     \* the caller's buffer (identify_buffer in the scans)
  i,          \* the loop's index
  pc, result

driver == <<call, buffer, i, pc, result>>
vars == <<medium, machine, regs, dev, driver>>

(* A definition that begins with Bad or Stuck is a plausible slip in the   *)
(* definition it is named after; the specification uses none.              *)

-----------------------------------------------------------------------------
Positions == 0 .. 3

Controllers == 0 .. 1

Controller(p) == p \div 2

Drive(p) == p % 2

Bytes == 0 .. 255

Words == 0 .. 65535

Index == 0 .. WORDS - 1

(* What is read where there is nothing.                                    *)
FLOATING == 65535

LBA_LIMIT == 268435456

Sectors == {lba % LBA_LIMIT : lba \in Lbas}

(* The two bytes put together, and taken apart again.                      *)
Word(lo, hi) == lo + 256 * hi

ByteOf(words, j) ==
  IF j % 2 = 0 THEN words[j \div 2] % 256 ELSE words[j \div 2] \div 256

BytesOf(words) == [j \in 0 .. 2 * WORDS - 1 |-> ByteOf(words, j)]

ASSUME AtaAssumption ==
  /\ WORDS \in Nat \ {0}
  /\ Lbas \subseteq Nat
  /\ Contents \subseteq [0 .. 2 * WORDS - 1 -> Bytes]
  /\ Machines \subseteq [controllers : SUBSET Controllers, drives : SUBSET Positions]
  /\ \A m \in Machines : \A p \in m.drives : Controller(p) \in m.controllers
  /\ Initial \in [Positions -> [Sectors -> [Index -> Words]]]

-----------------------------------------------------------------------------
(* The registers: drive and the upper four bits of the number in register  *)
(* 6, the others in 3 to 5.                                                *)

Registers == [drive : 0 .. 1, top : 0 .. 15, low : Bytes, mid : Bytes, high : Bytes]

Cleared == [drive |-> 0, top |-> 0, low |-> 0, mid |-> 0, high |-> 0]

BadTaskFile(p, lba) ==
  [drive |-> Drive(p), top |-> 0, low |-> lba % 256,
   mid |-> (lba \div 256) % 256, high |-> (lba \div 65536) % 256]

TaskFile(p, lba) ==
  [drive |-> Drive(p), top |-> (lba \div 16777216) % 16, low |-> lba % 256,
   mid |-> (lba \div 256) % 256, high |-> (lba \div 65536) % 256]

(* The sector a drive makes of the registers.                              *)
LbaOf(r) == r.low + 256 * r.mid + 65536 * r.high + 16777216 * r.top

(* The drive that the registers of a controller select.                    *)
Selected(c) == 2 * c + regs[c].drive

-----------------------------------------------------------------------------
(* The drives.                                                             *)

NoWords == [k \in Index |-> 0]

Quiet ==
  [phase |-> "quiet", cmd |-> "none", lba |-> 0, moved |-> 0, words |-> NoWords]

Failed ==
  [phase |-> "error", cmd |-> "none", lba |-> 0, moved |-> 0, words |-> NoWords]

(* Busy with the command given.                                            *)
Accepted(cmd, lba) ==
  [phase |-> "busy", cmd |-> cmd, lba |-> lba, moved |-> 0, words |-> NoWords]

(* What the status register of controller c says.                          *)
Busy(c) ==
  \/ c \notin machine.controllers
  \/ /\ Selected(c) \in machine.drives
     /\ dev[Selected(c)].phase \in {"busy", "writing"}

(* The status is 0.                                                        *)
Nothing(c) == c \in machine.controllers /\ Selected(c) \notin machine.drives

Error(c) ==
  Selected(c) \in machine.drives /\ dev[Selected(c)].phase = "error"

(* The command has been accepted, and data can be moved.                   *)
Ready(p) ==
  /\ dev[p].phase = "busy"
  /\ LET words == IF dev[p].cmd = "read" THEN medium[p][dev[p].lba] ELSE dev[p].words
     IN dev' = [dev EXCEPT ![p] = [phase |-> "data", cmd |-> @.cmd, lba |-> @.lba,
                                   moved |-> 0, words |-> words]]
  /\ UNCHANGED <<medium, machine, regs, driver>>

(* The sector received on the medium.                                      *)
Stored(p) == [medium EXCEPT ![p] = [@ EXCEPT ![dev[p].lba] = dev[p].words]]

(* A command fails.  Whether a write that fails has changed the sector is  *)
(* unknown.                                                                *)
Fail(p) ==
  /\ dev[p].phase \in {"busy", "writing"}
  /\ dev' = [dev EXCEPT ![p] = Failed]
  /\ UNCHANGED <<machine, regs, driver>>
  /\ \/ medium' = medium
     \/ /\ dev[p].phase = "writing"
        /\ medium' = Stored(p)

(* A write is done.                                                        *)
Store(p) ==
  /\ dev[p].phase = "writing"
  /\ medium' = Stored(p)
  /\ dev' = [dev EXCEPT ![p] = Quiet]
  /\ UNCHANGED <<machine, regs, driver>>

Device == \E p \in Positions : Ready(p) \/ Fail(p) \/ Store(p)

-----------------------------------------------------------------------------
(* The driver.                                                             *)

Zero == [j \in 0 .. 2 * WORDS - 1 |-> 0]

NoCall == [op |-> "none", position |-> 0, lba |-> 0, data |-> Zero]

(* At power-on no call is in progress and the drives wait for a command.   *)
Init ==
  /\ medium = Initial /\ machine \in Machines
  /\ regs = [c \in Controllers |-> Cleared]
  /\ dev = [p \in Positions |-> Quiet]
  /\ call = NoCall /\ buffer = Zero /\ i = 0
  /\ pc = "idle" /\ result = 0

(* A function is entered: it writes the registers of its controller, the   *)
(* command register last.                                                  *)
Command(op, p, lba, data, registers) ==
  /\ pc = "idle"
  /\ call' = [op |-> op, position |-> p, lba |-> lba, data |-> data]
  /\ buffer' = data /\ i' = 0 /\ result' = 0
  /\ regs' = [regs EXCEPT ![Controller(p)] = registers]
  /\ LET q == 2 * Controller(p) + registers.drive IN
     dev' = IF q \in machine.drives
              THEN [dev EXCEPT ![q] = Accepted(op, LbaOf(registers))] ELSE dev
  /\ UNCHANGED <<medium, machine>>

ata_read_sector_disk(p, lba, data) ==
  Command("read", p, lba, data, TaskFile(p, lba)) /\ pc' = "wait"

ata_write_sector_disk(p, lba, data) ==
  Command("write", p, lba, data, TaskFile(p, lba)) /\ pc' = "wait"

(* The same for the primary master.                                        *)
ata_read_sector(lba, data) == ata_read_sector_disk(0, lba, data)

ata_write_sector(lba, data) == ata_write_sector_disk(0, lba, data)

(* A scan looks at a position; of the registers it writes only number 6.   *)
identify(p, data) ==
  LET c == Controller(p) IN
  /\ Command("identify", p, 0, data,
             [regs[c] EXCEPT !.drive = Drive(p), !.top = 0])
  /\ pc' = "probe"

Return(value) == pc' = "idle" /\ result' = value

Here == Controller(call.position)

(* The scan skips a drive whose status is 0: -1 stands for its `continue'. *)
Probe ==
  /\ pc = "probe"
  /\ \/ Nothing(Here) /\ Return(-1)
     \/ ~Nothing(Here) /\ pc' = "wait" /\ result' = result
  /\ UNCHANGED <<medium, machine, regs, dev, call, buffer, i>>

(* The status is no longer busy; the scan does not ask for errors.         *)
Wait ==
  /\ pc = "wait" /\ ~Busy(Here)
  /\ \/ call.op # "identify" /\ Error(Here) /\ Return(-1)
     \/ /\ call.op = "identify" \/ ~Error(Here)
        /\ pc' = "move" /\ result' = result
  /\ UNCHANGED <<medium, machine, regs, dev, call, buffer, i>>

(* The drive the loop moves words from or to, when that wants it.          *)
Moving(ops) ==
  LET p == Selected(Here) IN
  p \in machine.drives /\ dev[p].phase = "data" /\ dev[p].cmd \in ops

(* With the last word a command has all its data.                          *)
Moved(state, next) ==
  IF state.moved + 1 = WORDS THEN next ELSE [state EXCEPT !.moved = @ + 1]

BadMoveIn ==
  LET p == Selected(Here)
      data == IF Moving({"read", "identify"})
                THEN dev[p].words[dev[p].moved] ELSE FLOATING
  IN
  /\ pc = "move" /\ call.op # "write" /\ i <= WORDS
  /\ buffer' = [buffer EXCEPT ![2 * i] = data % 256, ![2 * i + 1] = data \div 256]
  /\ dev' = IF Moving({"read", "identify"})
              THEN [dev EXCEPT ![p] = Moved(@, Quiet)] ELSE dev
  /\ i' = i + 1
  /\ UNCHANGED <<medium, machine, regs, call, pc, result>>

MoveIn ==
  LET p == Selected(Here)
      data == IF Moving({"read", "identify"})
                THEN dev[p].words[dev[p].moved] ELSE FLOATING
  IN
  /\ pc = "move" /\ call.op # "write" /\ i < WORDS
  /\ buffer' = [buffer EXCEPT ![2 * i] = data % 256, ![2 * i + 1] = data \div 256]
  /\ dev' = IF Moving({"read", "identify"})
              THEN [dev EXCEPT ![p] = Moved(@, Quiet)] ELSE dev
  /\ i' = i + 1
  /\ UNCHANGED <<medium, machine, regs, call, pc, result>>

MoveOut ==
  LET p == Selected(Here)
      word == Word(buffer[2 * i], buffer[2 * i + 1])
      received == [dev[p] EXCEPT !.words = [@ EXCEPT ![dev[p].moved] = word]]
  IN
  /\ pc = "move" /\ call.op = "write" /\ i < WORDS
  /\ dev' = IF Moving({"write"})
              THEN [dev EXCEPT ![p] =
                      Moved(received, [received EXCEPT !.phase = "writing"])]
              ELSE dev
  /\ i' = i + 1
  /\ UNCHANGED <<medium, machine, regs, call, buffer, pc, result>>

BadMoveDone ==
  /\ pc = "move" /\ i = WORDS - 1
  /\ \/ call.op # "write" /\ Return(0)
     \/ call.op = "write" /\ pc' = "finish" /\ result' = result
  /\ UNCHANGED <<medium, machine, regs, dev, call, buffer, i>>

(* All words have been moved.                                              *)
MoveDone ==
  /\ pc = "move" /\ i = WORDS
  /\ \/ call.op # "write" /\ Return(0)
     \/ call.op = "write" /\ pc' = "finish" /\ result' = result
  /\ UNCHANGED <<medium, machine, regs, dev, call, buffer, i>>

StuckFinish ==
  /\ pc = "finish" /\ ~Busy(Here) /\ ~Error(Here)
  /\ Return(0)
  /\ UNCHANGED <<medium, machine, regs, dev, call, buffer, i>>

(* The drive has done with the sector.                                     *)
Finish ==
  /\ pc = "finish" /\ ~Busy(Here)
  /\ Return(IF Error(Here) THEN -1 ELSE 0)
  /\ UNCHANGED <<medium, machine, regs, dev, call, buffer, i>>

-----------------------------------------------------------------------------
(* The power is lost, and comes back, perhaps to other drives.  A sector   *)
(* that was being stored is as it was or as it was to be.                  *)
PowerLoss ==
  /\ machine' \in Machines
  /\ regs' = [c \in Controllers |-> Cleared]
  /\ dev' = [p \in Positions |-> Quiet]
  /\ call' = NoCall /\ buffer' = Zero /\ i' = 0
  /\ pc' = "idle" /\ result' = 0
  /\ \/ medium' = medium
     \/ \E p \in Positions :
          /\ dev[p].phase = "writing"
          /\ medium' = Stored(p)

Call ==
  \E data \in Contents :
    \/ \E lba \in Lbas :
         \/ ata_read_sector(lba, data) \/ ata_write_sector(lba, data)
         \/ \E p \in Positions :
              ata_read_sector_disk(p, lba, data) \/ ata_write_sector_disk(p, lba, data)
    \/ \E p \in Positions : identify(p, data)

Run == Probe \/ Wait \/ MoveIn \/ MoveOut \/ MoveDone \/ Finish

Next == Call \/ Run \/ Device \/ PowerLoss

Spec == Init /\ [][Next]_vars

(* The driver runs on, and a drive that is busy is so for a time only.     *)
FairSpec == Spec /\ WF_vars(Run) /\ WF_vars(Device)

-----------------------------------------------------------------------------
DriveStates ==
  [phase : {"quiet", "busy", "data", "writing", "error"},
   cmd : {"none", "read", "write", "identify"}, lba : Nat, moved : Index,
   words : [Index -> Words]]

TypeOK ==
  /\ medium \in [Positions -> [Sectors -> [Index -> Words]]]
  /\ machine \in Machines
  /\ regs \in [Controllers -> Registers]
  /\ dev \in [Positions -> DriveStates]
  /\ call \in [op : {"none", "read", "write", "identify"},
               position : Positions, lba : {0} \union Lbas,
               data : {Zero} \union Contents]
  /\ buffer \in [0 .. 2 * WORDS - 1 -> Bytes]
  /\ i \in 0 .. WORDS
  /\ pc \in {"idle", "probe", "wait", "move", "finish"}
  /\ result \in {0, -1}

(* Whatever failed or was cut short before, no drive is busy or has data   *)
(* to be moved when the next command is given to its controller; and in a  *)
(* call, none is but the one that was asked for.                           *)
OthersQuiet ==
  \A p \in Positions :
    pc = "idle" \/ p # call.position => dev[p].phase \in {"quiet", "error"}

(* The functions promise their callers what module SectorStore says.       *)
Promise ==
  INSTANCE SectorStore WITH
    store <- [p \in Positions |-> [l \in Sectors |-> BytesOf(medium[p][l])]],
    Initial <- [p \in Positions |-> [l \in Sectors |-> BytesOf(Initial[p][l])]],
    request <- IF pc = "idle" THEN [op |-> "none"] ELSE call,
    answer <- IF pc = "idle" /\ call # NoCall
                THEN [result |-> result, data |-> buffer] ELSE [result |-> 1]

ImplementsStore == Promise!Spec

(* A call returns, if there is a controller for it: without one the driver *)
(* polls for ever.                                                         *)
CallsReturn ==
  pc # "idle" /\ Here \in machine.controllers ~> pc = "idle"

=============================================================================
